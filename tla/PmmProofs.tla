----------------------------- MODULE PmmProofs -----------------------------
(***************************************************************************)
(* Proofs about Pmm, for every number of contexts, every bitmap geometry   *)
(* and every set of frames reserved at boot.                               *)
(*                                                                         *)
(* NoDoubleAllocation and BitmapExact support each other: a frame that is  *)
(* clear in the bitmap belongs to nobody because the bitmap is exact, so   *)
(* taking it keeps the owners disjoint; clearing the bit of a released     *)
(* frame keeps the bitmap exact because nobody else owns the frame.  What  *)
(* is missing for induction is that the frame of a call in progress is not *)
(* also among the frames its caller holds.                                 *)
(***************************************************************************)
EXTENDS Pmm, WellFoundedInduction, TLAPS

OwnFrameOnce == \A p \in Procs : Busy(p) => frame[p] \notin held[p]

Inv == TypeOK /\ LockedByOne /\ NoDoubleAllocation /\ BitmapExact /\ OwnFrameOnce

-----------------------------------------------------------------------------
\* A non-empty set of naturals has a smallest element.
LEMMA SmallestNat ==
  ASSUME NEW S \in SUBSET Nat, S # {}
  PROVE  \E b \in S : \A c \in S : b <= c
<1>1. PICK b \in S : \A c \in S : ~(<<c, b>> \in OpToRel(<, Nat))
  BY NatLessThanWellFounded, WFMin, Zenon
<1>2. \A c \in S : ~(c < b)
  BY <1>1, Zenon DEF OpToRel
<1>3. \A c \in S : c \in Nat /\ b \in Nat
  OBVIOUS
<1>4. \A c \in S : b <= c
  BY <1>2, <1>3
<1> QED BY <1>4

\* _bitmap_request_frame returns -1 or the position of a bit that is 0.
LEMMA RequestFrame ==
  \/ _bitmap_request_frame = -1
  \/ _bitmap_request_frame \in Bits \ memory_map
<1> DEFINE clear == Visible \ memory_map
<1>1. CASE clear = {}
  BY <1>1 DEF _bitmap_request_frame
<1>2. CASE clear # {}
  <2>1. clear \subseteq Int
    BY PmmAssumption DEF Visible, Bits
  <2>2. clear \subseteq Nat
    BY PmmAssumption DEF Visible, Bits
  <2>3. \E b \in clear : \A c \in clear : b <= c
    BY <1>2, <2>2, SmallestNat, Zenon
  <2>4. _bitmap_request_frame \in clear
    BY <1>2, <2>3 DEF _bitmap_request_frame
  <2> QED BY <2>4 DEF Visible
<1> QED BY <1>1, <1>2

-----------------------------------------------------------------------------
\* The initial state satisfies the invariant.
LEMMA InitInv == Init => Inv
<1> SUFFICES ASSUME Init PROVE Inv
  OBVIOUS
<1> USE PmmAssumption DEF Init
<1>1. TypeOK
  <2>1. 0 \in Bits /\ 0 \in 0..(WordMod - 1) /\ UsedAtBoot \in 0..(WordMod - 1)
    BY DEF Bits
  <2>2. "rest" \in PCs
    BY DEF PCs
  <2> QED BY <2>1, <2>2, Zenon DEF TypeOK
<1>2. LockedByOne
  BY DEF LockedByOne, InLock
<1>3. \A p \in Procs : ~Busy(p) /\ Owned(p) = {}
  BY DEF Busy, Owned
<1>4. NoDoubleAllocation /\ OwnFrameOnce
  BY <1>3 DEF NoDoubleAllocation, OwnFrameOnce
<1>5. BitmapExact
  BY <1>3 DEF BitmapExact
<1> QED BY <1>1, <1>2, <1>4, <1>5 DEF Inv

\* Every step of every context preserves the types of the variables.
LEMMA TypeStep == TypeOK /\ [Next]_vars => TypeOK'
<1> SUFFICES ASSUME TypeOK, [Next]_vars PROVE TypeOK'
  OBVIOUS
<1> USE PmmAssumption DEF TypeOK, PCs
<1>1. CASE UNCHANGED vars
  BY <1>1 DEF vars
<1>2. ASSUME NEW p \in Procs, AllocCheck(p) PROVE TypeOK'
  BY <1>2 DEF AllocCheck, Goto
<1>3. ASSUME NEW p \in Procs, AllocAcquire(p) PROVE TypeOK'
  BY <1>3 DEF AllocAcquire, Goto, spinlock_acquire
<1>4. ASSUME NEW p \in Procs, AllocTake(p) PROVE TypeOK'
  <2> DEFINE f == _bitmap_request_frame
  <2>1. f = -1 \/ (f \in Bits /\ f \in Int /\ f >= 0)
    BY RequestFrame DEF Bits
  <2> HIDE DEF f
  <2>2. TakeFrame(p, f) /\ UNCHANGED <<used_frames, held>>
    BY <1>4 DEF AllocTake, f
  <2>3. CASE f = -1
    BY <2>2, <2>3 DEF TakeFrame
  <2>4. CASE f = 0
    <3>1. /\ pc' = [pc EXCEPT ![p] = "rest"]
          /\ memory_spinlock' = FALSE
          /\ UNCHANGED <<memory_map, reg, frame, halted>>
      BY <2>2, <2>4 DEF TakeFrame, Goto, spinlock_release
    <3> QED BY <2>2, <3>1, Zenon
  <2>5. CASE f \in Bits /\ f > 0
    <3>1. /\ pc' = [pc EXCEPT ![p] = "count"]
          /\ memory_map' = memory_map \cup {f}
          /\ frame' = [frame EXCEPT ![p] = f]
          /\ reg' = [reg EXCEPT ![p] = used_frames]
          /\ UNCHANGED <<memory_spinlock, halted>>
      BY <2>2, <2>5 DEF TakeFrame, Goto
    <3> QED BY <2>2, <2>5, <3>1
  <2> QED BY <2>1, <2>3, <2>4, <2>5
<1>5. ASSUME NEW p \in Procs, AllocCount(p) PROVE TypeOK'
  <2>1. used_frames' \in 0..(WordMod - 1) /\ 0 \in 0..(WordMod - 1) /\ 0 \in Bits
    BY <1>5 DEF AllocCount, Bits
  <2> QED BY <1>5, <2>1, Zenon DEF AllocCount, Goto, spinlock_release
<1>6. ASSUME NEW p \in Procs, FreeCall(p) PROVE TypeOK'
  BY <1>6 DEF FreeCall, Goto
<1>7. ASSUME NEW p \in Procs, FreeAcquire(p) PROVE TypeOK'
  BY <1>7 DEF FreeAcquire, Goto, spinlock_acquire
<1>8. ASSUME NEW p \in Procs, FreeClear(p) PROVE TypeOK'
  BY <1>8, Zenon DEF FreeClear, Goto, spinlock_release, _bitmap_free_bit, Bits
<1>9. ASSUME NEW p \in Procs, FreeLoad(p) PROVE TypeOK'
  BY <1>9 DEF FreeLoad, Goto
<1>10. ASSUME NEW p \in Procs, FreeStore(p) PROVE TypeOK'
  <2>1. used_frames' \in 0..(WordMod - 1) /\ 0 \in 0..(WordMod - 1)
    BY <1>10 DEF FreeStore, Decrement
  <2> QED BY <1>10, <2>1 DEF FreeStore, Goto
<1> QED BY <1>1, <1>2, <1>3, <1>4, <1>5, <1>6, <1>7, <1>8, <1>9, <1>10 DEF Next, Proceed

-----------------------------------------------------------------------------
\* The owners and the bitmap after a step that changes neither, after one that
\* takes a clear frame, and after one that gives back a frame.
LEMMA OwnersKept ==
  ASSUME NoDoubleAllocation, BitmapExact,
         \A q \in Procs : Owned(q)' = Owned(q), memory_map' = memory_map
  PROVE  NoDoubleAllocation' /\ BitmapExact'
BY DEF NoDoubleAllocation, BitmapExact

LEMMA FrameTaken ==
  ASSUME NoDoubleAllocation, BitmapExact, NEW p \in Procs, NEW f, f \notin memory_map,
         Owned(p)' = Owned(p) \cup {f},
         \A q \in Procs \ {p} : Owned(q)' = Owned(q),
         memory_map' = memory_map \cup {f}
  PROVE  NoDoubleAllocation' /\ BitmapExact'
<1>1. f \notin BootUsed /\ \A q \in Procs : f \notin Owned(q)
  BY DEF BitmapExact
<1>2. NoDoubleAllocation'
  BY <1>1 DEF NoDoubleAllocation
<1>3. \A b : b \in memory_map' <=> b \in BootUsed \/ \E q \in Procs : b \in Owned(q)'
  BY DEF BitmapExact
<1> QED BY <1>2, <1>3 DEF BitmapExact

LEMMA FrameReleased ==
  ASSUME NoDoubleAllocation, BitmapExact, NEW p \in Procs, NEW f \in Owned(p),
         Owned(p)' = Owned(p) \ {f},
         \A q \in Procs \ {p} : Owned(q)' = Owned(q),
         memory_map' = memory_map \ {f}
  PROVE  NoDoubleAllocation' /\ BitmapExact'
<1>1. f \notin BootUsed /\ \A q \in Procs \ {p} : f \notin Owned(q)
  BY DEF NoDoubleAllocation
<1>2. NoDoubleAllocation'
  BY DEF NoDoubleAllocation
<1>3. \A b : b \in memory_map' <=> b \in BootUsed \/ \E q \in Procs : b \in Owned(q)'
  BY <1>1 DEF BitmapExact
<1> QED BY <1>2, <1>3 DEF BitmapExact

\* A step of one context preserves mutual exclusion, the owners, the bitmap.
LEMMA InvStep == Inv /\ [Next]_vars => Inv'
<1> SUFFICES ASSUME Inv, [Next]_vars PROVE Inv'
  OBVIOUS
<1> DEFINE Rest == LockedByOne /\ NoDoubleAllocation /\ BitmapExact /\ OwnFrameOnce
<1>0. TypeOK' /\ TypeOK /\ Rest
  BY TypeStep DEF Inv
<1> SUFFICES Rest'
  BY <1>0 DEF Inv
<1>1. CASE UNCHANGED vars
  BY <1>0, <1>1 DEF vars, LockedByOne, InLock, NoDoubleAllocation, BitmapExact, OwnFrameOnce, Busy, Owned
<1>2. ASSUME NEW p \in Procs, AllocCheck(p) PROVE Rest'
  <2>1. LockedByOne' /\ OwnFrameOnce'
    BY <1>0, <1>2 DEF AllocCheck, Goto, TypeOK, LockedByOne, InLock, OwnFrameOnce, Busy
  <2>2. memory_map' = memory_map /\ \A q \in Procs : Owned(q)' = Owned(q)
    BY <1>0, <1>2 DEF AllocCheck, Goto, TypeOK, Owned, Busy
  <2> QED BY <1>0, <2>1, <2>2, OwnersKept
<1>3. ASSUME NEW p \in Procs, AllocAcquire(p) PROVE Rest'
  <2>1. LockedByOne' /\ OwnFrameOnce'
    BY <1>0, <1>3 DEF AllocAcquire, Goto, spinlock_acquire, TypeOK, LockedByOne, InLock, OwnFrameOnce, Busy
  <2>2. memory_map' = memory_map /\ \A q \in Procs : Owned(q)' = Owned(q)
    BY <1>0, <1>3 DEF AllocAcquire, Goto, TypeOK, Owned, Busy
  <2> QED BY <1>0, <2>1, <2>2, OwnersKept
<1>4. ASSUME NEW p \in Procs, AllocTake(p) PROVE Rest'
  <2> DEFINE f == _bitmap_request_frame
  <2>1. f = -1 \/ f = 0 \/ (f \in Bits \ memory_map /\ f \in Int /\ f > 0)
    BY PmmAssumption, RequestFrame DEF Bits
  <2> HIDE DEF f
  <2>2. pc[p] = "alloc" /\ TakeFrame(p, f) /\ UNCHANGED <<used_frames, held>>
    BY <1>4 DEF AllocTake, f
  <2>3. CASE f = -1
    <3>1. UNCHANGED <<memory_map, memory_spinlock, pc, frame, held>>
      BY <2>2, <2>3 DEF TakeFrame
    <3> QED BY <1>0, <3>1 DEF LockedByOne, InLock, NoDoubleAllocation, BitmapExact, OwnFrameOnce, Busy, Owned
  <2>4. CASE f = 0
    <3>1. /\ pc' = [pc EXCEPT ![p] = "rest"]
          /\ memory_spinlock' = FALSE
          /\ UNCHANGED <<memory_map, frame, held>>
      BY <2>2, <2>4 DEF TakeFrame, Goto, spinlock_release
    <3>2. LockedByOne' /\ OwnFrameOnce'
      BY <1>0, <2>2, <3>1 DEF TypeOK, LockedByOne, InLock, OwnFrameOnce, Busy
    <3>3. \A q \in Procs : Owned(q)' = Owned(q)
      BY <1>0, <2>2, <3>1 DEF TypeOK, Owned, Busy
    <3> QED BY <1>0, <3>1, <3>2, <3>3, OwnersKept
  <2>5. CASE f \in Bits \ memory_map /\ f \in Int /\ f > 0
    <3>1. /\ pc' = [pc EXCEPT ![p] = "count"]
          /\ frame' = [frame EXCEPT ![p] = f]
          /\ memory_map' = memory_map \cup {f}
          /\ UNCHANGED <<memory_spinlock, held>>
      BY <2>2, <2>5 DEF TakeFrame, Goto
    <3>2. f \notin held[p]
      BY <1>0, <2>5 DEF BitmapExact, Owned
    <3>3. LockedByOne' /\ OwnFrameOnce'
      BY <1>0, <2>2, <3>1, <3>2 DEF TypeOK, LockedByOne, InLock, OwnFrameOnce, Busy
    <3>4. Owned(p)' = Owned(p) \cup {f} /\ \A q \in Procs \ {p} : Owned(q)' = Owned(q)
      BY <1>0, <2>2, <3>1 DEF TypeOK, Owned, Busy
    <3> QED BY <1>0, <2>5, <3>1, <3>3, <3>4, FrameTaken
  <2> QED BY <2>1, <2>3, <2>4, <2>5
<1>5. ASSUME NEW p \in Procs, AllocCount(p) PROVE Rest'
  <2>1. /\ pc[p] = "count" /\ pc' = [pc EXCEPT ![p] = "rest"]
        /\ memory_spinlock' = FALSE
        /\ held' = [held EXCEPT ![p] = @ \cup {frame[p]}]
        /\ frame' = [frame EXCEPT ![p] = 0]
        /\ memory_map' = memory_map
    BY <1>5 DEF AllocCount, Goto, spinlock_release
  <2>2. LockedByOne' /\ OwnFrameOnce'
    BY <1>0, <2>1 DEF TypeOK, LockedByOne, InLock, OwnFrameOnce, Busy
  <2>3. \A q \in Procs : Owned(q)' = Owned(q)
    BY <1>0, <2>1 DEF TypeOK, Owned, Busy
  <2> QED BY <1>0, <2>1, <2>2, <2>3, OwnersKept
<1>6. ASSUME NEW p \in Procs, FreeCall(p) PROVE Rest'
  <2>1. PICK f \in held[p] : /\ frame' = [frame EXCEPT ![p] = f]
                             /\ held' = [held EXCEPT ![p] = @ \ {f}]
    BY <1>6, Zenon DEF FreeCall
  <2>2. /\ pc[p] = "rest" /\ pc' = [pc EXCEPT ![p] = "free_acquire"]
        /\ UNCHANGED <<memory_map, memory_spinlock>>
    BY <1>6 DEF FreeCall, Goto
  <2>3. LockedByOne' /\ OwnFrameOnce'
    BY <1>0, <2>1, <2>2 DEF TypeOK, LockedByOne, InLock, OwnFrameOnce, Busy
  <2>4. \A q \in Procs : Owned(q)' = Owned(q)
    BY <1>0, <2>1, <2>2 DEF TypeOK, Owned, Busy
  <2> QED BY <1>0, <2>2, <2>3, <2>4, OwnersKept
<1>7. ASSUME NEW p \in Procs, FreeAcquire(p) PROVE Rest'
  <2>1. LockedByOne' /\ OwnFrameOnce'
    BY <1>0, <1>7 DEF FreeAcquire, Goto, spinlock_acquire, TypeOK, LockedByOne, InLock, OwnFrameOnce, Busy
  <2>2. memory_map' = memory_map /\ \A q \in Procs : Owned(q)' = Owned(q)
    BY <1>0, <1>7 DEF FreeAcquire, Goto, TypeOK, Owned, Busy
  <2> QED BY <1>0, <2>1, <2>2, OwnersKept
<1>8. ASSUME NEW p \in Procs, FreeClear(p) PROVE Rest'
  <2>1. /\ pc[p] = "free" /\ pc' = [pc EXCEPT ![p] = "dec"]
        /\ memory_spinlock' = FALSE
        /\ frame' = [frame EXCEPT ![p] = 0]
        /\ memory_map' = memory_map \ {frame[p]}
        /\ held' = held
    BY <1>8 DEF FreeClear, Goto, spinlock_release, _bitmap_free_bit
  <2>2. LockedByOne' /\ OwnFrameOnce'
    BY <1>0, <2>1 DEF TypeOK, LockedByOne, InLock, OwnFrameOnce, Busy
  <2>3. frame[p] \in Owned(p) /\ frame[p] \notin held[p]
    BY <1>0, <2>1 DEF OwnFrameOnce, Owned, Busy
  <2>4. Owned(p)' = Owned(p) \ {frame[p]} /\ \A q \in Procs \ {p} : Owned(q)' = Owned(q)
    BY <1>0, <2>1, <2>3 DEF TypeOK, Owned, Busy
  <2> QED BY <1>0, <2>1, <2>2, <2>3, <2>4, FrameReleased
<1>9. ASSUME NEW p \in Procs, FreeLoad(p) PROVE Rest'
  <2>1. LockedByOne' /\ OwnFrameOnce'
    BY <1>0, <1>9 DEF FreeLoad, Goto, TypeOK, LockedByOne, InLock, OwnFrameOnce, Busy
  <2>2. memory_map' = memory_map /\ \A q \in Procs : Owned(q)' = Owned(q)
    BY <1>0, <1>9 DEF FreeLoad, Goto, TypeOK, Owned, Busy
  <2> QED BY <1>0, <2>1, <2>2, OwnersKept
<1>10. ASSUME NEW p \in Procs, FreeStore(p) PROVE Rest'
  <2>1. LockedByOne' /\ OwnFrameOnce'
    BY <1>0, <1>10 DEF FreeStore, Goto, TypeOK, LockedByOne, InLock, OwnFrameOnce, Busy
  <2>2. memory_map' = memory_map /\ \A q \in Procs : Owned(q)' = Owned(q)
    BY <1>0, <1>10 DEF FreeStore, Goto, TypeOK, Owned, Busy
  <2> QED BY <1>0, <2>1, <2>2, OwnersKept
<1> QED BY <1>1, <1>2, <1>3, <1>4, <1>5, <1>6, <1>7, <1>8, <1>9, <1>10 DEF Next, Proceed

-----------------------------------------------------------------------------
\* Inv is an invariant of the physical memory manager.
THEOREM Invariance == Spec => []Inv
BY InitInv, InvStep, PTL DEF Spec

\* Every variable of pmm.c and of its callers keeps its type.
THEOREM TypeCorrect == Spec => []TypeOK
<1>1. Inv => TypeOK
  BY DEF Inv
<1> QED BY <1>1, Invariance, PTL

\* memory_spinlock gives mutual exclusion to pmm_alloc_frame and pmm_free_frame.
THEOREM MutualExclusion == Spec => []LockedByOne
<1>1. Inv => LockedByOne
  BY DEF Inv
<1> QED BY <1>1, Invariance, PTL

\* pmm_alloc_frame never hands out a frame that somebody owns.
THEOREM NoFrameTwice == Spec => []NoDoubleAllocation
<1>1. Inv => NoDoubleAllocation
  BY DEF Inv
<1> QED BY <1>1, Invariance, PTL

\* The bitmap marks exactly the frames reserved at boot and those with an owner.
THEOREM BitmapIsExact == Spec => []BitmapExact
<1>1. Inv => BitmapExact
  BY DEF Inv
<1> QED BY <1>1, Invariance, PTL
=============================================================================
