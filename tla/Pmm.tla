-------------------------------- MODULE Pmm --------------------------------
(***************************************************************************)
(* The physical memory manager after boot (kernel/mem/pmm.c, bitmap.c and  *)
(* sys/spinlock.c): pmm_alloc_frame and pmm_free_frame called by several   *)
(* kernel contexts.                                                        *)
(*                                                                         *)
(* A caller can be preempted between any two steps.  The availability test *)
(* of an allocation and the used_frames-- of a release are outside the     *)
(* spinlock; used_frames++ and used_frames-- are a load and a store.       *)
(*                                                                         *)
(* memory_map is the set of the bits that are 1.  The bitmap has Rows rows *)
(* of RowBits bits; BITMAP_ENTRY_FULL has only its FullBits lowest bits    *)
(* set (60 of 64 in the code).  A local variable is 0 once it is dead.     *)
(*                                                                         *)
(* An operator whose name starts with mut_ is a wrong version of the one   *)
(* that follows it and is used by no definition.                           *)
(***************************************************************************)
EXTENDS Integers, FiniteSets

CONSTANTS Procs,        \* the contexts that call the memory manager
          RowBits,      \* BITMAP_ROW_BITS
          FullBits,     \* number of ones in BITMAP_ENTRY_FULL
          Rows,         \* number_of_entries
          bitmap_size,  \* number of frames, as _initialize_bitmap computes it
          BootUsed,     \* the bits set when pmm_setup returns
          UsedAtBoot,   \* used_frames when pmm_setup returns
          WordMod       \* 2^32, the modulus of used_frames

Bits == 0..(Rows * RowBits - 1)

ASSUME PmmAssumption ==
  /\ RowBits \in Nat \ {0} /\ FullBits \in 1..RowBits /\ Rows \in Nat \ {0}
  /\ bitmap_size \in Nat
  /\ BootUsed \subseteq Bits /\ 0 \in BootUsed
  /\ UsedAtBoot \in Nat
  /\ WordMod \in Nat /\ UsedAtBoot < WordMod

VARIABLES memory_map,       \* the bits that are 1
          used_frames,
          memory_spinlock,  \* lock->locked
          pc,               \* where each context is
          reg,              \* the register of the load and store of used_frames
          frame,            \* the local variable frame of a call
          held,             \* the frames the caller has been given and not freed
          halted            \* a write through a wild index ended in hlt

vars == <<memory_map, used_frames, memory_spinlock, pc, reg, frame, held, halted>>

PCs == {"rest", "alloc_acquire", "alloc", "count",
        "free_acquire", "free", "dec", "store"}

-----------------------------------------------------------------------------
(* bitmap.c                                                                *)

RowOf(b) == b \div RowBits

\* memory_map[row] == BITMAP_ENTRY_FULL
RowFull(r) == {b \in memory_map : RowOf(b) = r} =
                {b \in Bits : RowOf(b) = r /\ b % RowBits < FullBits}

\* The bits a scan of the bitmap looks at.
Visible == {b \in Bits : ~RowFull(RowOf(b))}

\* _bitmap_request_frame: the first clear bit of the rows that are not skipped.
mut_request_frame_any == IF Bits = {} THEN -1 ELSE 1
_bitmap_request_frame ==
  LET clear == Visible \ memory_map
  IN  IF clear = {} THEN -1
      ELSE CHOOSE b \in clear : \A c \in clear : b <= c

-----------------------------------------------------------------------------
Init ==
  /\ memory_map = BootUsed
  /\ used_frames = UsedAtBoot
  /\ memory_spinlock = FALSE
  /\ pc = [p \in Procs |-> "rest"]
  /\ reg = [p \in Procs |-> 0]
  /\ frame = [p \in Procs |-> 0]
  /\ held = [p \in Procs |-> {}]
  /\ halted = FALSE

Goto(p, from, to) ==
  /\ ~halted
  /\ pc[p] = from
  /\ pc' = [pc EXCEPT ![p] = to]

\* __atomic_test_and_set that finds the lock clear, and __atomic_clear.
mut_acquire_blindly == memory_spinlock' = TRUE
spinlock_acquire == ~memory_spinlock /\ memory_spinlock' = TRUE
mut_release_forgotten == UNCHANGED memory_spinlock
spinlock_release == memory_spinlock' = FALSE

-----------------------------------------------------------------------------
(* pmm_alloc_frame                                                         *)

\* pmm_check_frame_availability, outside the lock; when it fails the call
\* returns 0 and nothing changes.
AllocCheck(p) ==
  /\ Goto(p, "rest", "alloc_acquire")
  /\ used_frames < bitmap_size
  /\ UNCHANGED <<memory_map, used_frames, memory_spinlock, reg, frame, held, halted>>

AllocAcquire(p) ==
  /\ Goto(p, "alloc_acquire", "alloc")
  /\ spinlock_acquire
  /\ UNCHANGED <<memory_map, used_frames, reg, frame, held, halted>>

\* frame is unsigned, so the -1 of a failed request passes the test frame > 0:
\* _bitmap_set_bit then writes at a non-canonical address, which is fatal.
TakeFrame(p, f) ==
  CASE f = -1 -> /\ halted' = TRUE
                 /\ UNCHANGED <<memory_map, memory_spinlock, pc, reg, frame>>
    [] f = 0  -> /\ Goto(p, "alloc", "rest")
                 /\ spinlock_release
                 /\ UNCHANGED <<memory_map, reg, frame, halted>>
    [] f > 0  -> /\ Goto(p, "alloc", "count")
                 /\ memory_map' = memory_map \cup {f}
                 /\ frame' = [frame EXCEPT ![p] = f]
                 /\ reg' = [reg EXCEPT ![p] = used_frames]
                 /\ UNCHANGED <<memory_spinlock, halted>>

AllocTake(p) ==
  /\ ~halted /\ pc[p] = "alloc"
  /\ TakeFrame(p, _bitmap_request_frame)
  /\ UNCHANGED <<used_frames, held>>

AllocCount(p) ==
  /\ Goto(p, "count", "rest")
  /\ used_frames' = (reg[p] + 1) % WordMod
  /\ spinlock_release
  /\ held' = [held EXCEPT ![p] = @ \cup {frame[p]}]
  /\ frame' = [frame EXCEPT ![p] = 0]
  /\ reg' = [reg EXCEPT ![p] = 0]
  /\ UNCHANGED <<memory_map, halted>>

-----------------------------------------------------------------------------
(* pmm_free_frame, called once for a frame the caller holds                *)

FreeCall(p) ==
  /\ Goto(p, "rest", "free_acquire")
  /\ \E f \in held[p] : /\ frame' = [frame EXCEPT ![p] = f]
                        /\ held' = [held EXCEPT ![p] = @ \ {f}]
  /\ UNCHANGED <<memory_map, used_frames, memory_spinlock, reg, halted>>

FreeAcquire(p) ==
  /\ Goto(p, "free_acquire", "free")
  /\ spinlock_acquire
  /\ UNCHANGED <<memory_map, used_frames, reg, frame, held, halted>>

mut_free_bit_of_next_frame(b) == memory_map' = memory_map \ {b + 1}
_bitmap_free_bit(b) == memory_map' = memory_map \ {b}

FreeClear(p) ==
  /\ Goto(p, "free", "dec")
  /\ _bitmap_free_bit(frame[p])
  /\ spinlock_release
  /\ frame' = [frame EXCEPT ![p] = 0]
  /\ UNCHANGED <<used_frames, reg, held, halted>>

FreeLoad(p) ==
  /\ Goto(p, "dec", "store")
  /\ reg' = [reg EXCEPT ![p] = used_frames]
  /\ UNCHANGED <<memory_map, used_frames, memory_spinlock, frame, held, halted>>

Decrement(n) == (n - 1) % WordMod

FreeStore(p) ==
  /\ Goto(p, "store", "rest")
  /\ used_frames' = Decrement(reg[p])
  /\ reg' = [reg EXCEPT ![p] = 0]
  /\ UNCHANGED <<memory_map, memory_spinlock, frame, held, halted>>

-----------------------------------------------------------------------------
\* The steps of a call that has begun.
Proceed(p) ==
  \/ AllocAcquire(p) \/ AllocTake(p) \/ AllocCount(p)
  \/ FreeAcquire(p) \/ FreeClear(p) \/ FreeLoad(p) \/ FreeStore(p)

Next == \E p \in Procs : AllocCheck(p) \/ FreeCall(p) \/ Proceed(p)

\* A context inside a call is scheduled again and again; a context outside
\* need not call.
Fairness == \A p \in Procs : WF_vars(Proceed(p))

Spec == Init /\ [][Next]_vars /\ Fairness

-----------------------------------------------------------------------------
(* Properties.                                                             *)

\* Every variable keeps its type.
TypeOK ==
  /\ memory_map \subseteq Bits
  /\ used_frames \in 0..(WordMod - 1)
  /\ memory_spinlock \in BOOLEAN
  /\ pc \in [Procs -> PCs]
  /\ reg \in [Procs -> 0..(WordMod - 1)]
  /\ frame \in [Procs -> Bits]
  /\ held \in [Procs -> SUBSET Bits]
  /\ halted \in BOOLEAN

InLock(p) == pc[p] \in {"alloc", "count", "free"}

\* The spinlock is taken exactly while one context is between its acquire and
\* its release.
LockedByOne ==
  /\ memory_spinlock <=> \E p \in Procs : InLock(p)
  /\ \A p, q \in Procs : InLock(p) /\ InLock(q) => p = q

\* The frames a context answers for: those it holds and the one of its call.
Busy(p) == pc[p] \in {"count", "free_acquire", "free"}
Owned(p) == held[p] \cup (IF Busy(p) THEN {frame[p]} ELSE {})

\* pmm_alloc_frame never hands out a frame twice, nor one that boot reserved,
\* although the availability test is outside the lock.
NoDoubleAllocation ==
  /\ \A p, q \in Procs : p # q => Owned(p) \cap Owned(q) = {}
  /\ \A p \in Procs : Owned(p) \cap BootUsed = {}

\* A bit is 1 exactly when its frame was reserved at boot or belongs to a
\* caller: nothing leaks, and no frame in use is marked free.
BitmapExact == memory_map = BootUsed \cup UNION {Owned(p) : p \in Procs}

\* The lock is always released again (unless the machine halted).
LockReleased == memory_spinlock ~> ~memory_spinlock \/ halted
=============================================================================
