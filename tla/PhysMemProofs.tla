---------------------------- MODULE PhysMemProofs ----------------------------
(***************************************************************************)
(* Proofs about PhysMem, for every board, frame size and row width.        *)
(***************************************************************************)
EXTENDS PhysMem, FiniteSetTheorems, NaturalsInduction, TLAPS

\* The bring-up: nothing is used or handed out before the bitmap is filled.
SetupInv ==
  /\ board \in Boards
  /\ anon_physical_memory_loc \in Nat /\ board.kernel_end <= anon_physical_memory_loc
  /\ \A t \in tables : t \in Nat /\ board.kernel_end <= t /\ t < anon_physical_memory_loc
  /\ bitmap_size \in Nat
  /\ stage \in {"hhdm", "reserve", "ready"}
  /\ stage = "hhdm" => bitmap_size = 0 /\ memory_map = {} /\ used_frames = 0
  /\ stage # "ready" => held = {}

\* An area that is handed out: its first bit is set, and all of its bits when
\* it lies in one row.
IsArea(a) == a.at \in Nat /\ a.n \in Nat \ {0}
Marked(a) == a.at \in memory_map /\ (InOneRow(a) => FrameSet(a) \subseteq memory_map)

\* What two areas that are handed out have in common.
Apart(a, b) ==
  /\ a.at # b.at
  /\ InOneRow(a) => b.at \notin FrameSet(a)
  /\ InOneRow(a) /\ InOneRow(b) => FrameSet(a) \cap FrameSet(b) = {}

\* The bitmap and the areas agree.
AccountsInv ==
  /\ memory_map \in SUBSET Nat /\ IsFiniteSet(memory_map) /\ used_frames \in Int
  /\ \A a \in held : IsArea(a) /\ Marked(a)
  /\ \A a, b \in held : a # b => Apart(a, b)

MemInv == SetupInv /\ AccountsInv

\* The counter and the bitmap keep in step.
InStep == used_frames' - Cardinality(memory_map') = used_frames - Cardinality(memory_map)

\* The bits of an area at the moment it is handed out.
Given(at, n) ==
  \A f \in at..(at + n - 1) : f \in memory_map => RowFull(RowOf(f)) /\ RowOf(f) > RowOf(at)

\* What the boot left lies in the first bits, which stay set.
Spared(t) ==
  /\ ~(board.mb_start <= t /\ t < board.mb_end)
  /\ \A m \in board.modules : ~(m.start <= t /\ t < m.end)
FirstFrames == 0..(_compute_kernel_entries(end_of_reserved_area) - 1)
KeptInv ==
  /\ bitmap_at \in Nat
  /\ \A t \in tables : t < memory_size_in_bytes => Spared(t)
  /\ stage # "hhdm" => Precious \subseteq FirstFrames /\ FirstFrames \subseteq memory_map
  /\ \A a \in held : a.at \notin FirstFrames

-----------------------------------------------------------------------------
(* Division, as frames and rows use it.                                    *)

LEMMA Division ==
  ASSUME NEW x \in Nat, NEW f \in Nat \ {0}
  PROVE  /\ x \div f \in Nat /\ x % f \in 0..(f - 1)
         /\ x = f * (x \div f) + (x % f)
OBVIOUS

LEMMA DivisionMonotone ==
  ASSUME NEW x \in Nat, NEW y \in Nat, x <= y, NEW f \in Nat \ {0}
  PROVE  x \div f <= y \div f
<1>1. PICK p \in Nat, r \in 0..(f - 1) : p = x \div f /\ x = f * p + r
  BY Division
<1>2. PICK q \in Nat, s \in 0..(f - 1) : q = y \div f /\ y = f * q + s
  BY Division
<1>3. SUFFICES ASSUME q + 1 <= p PROVE FALSE
  BY <1>1, <1>2
<1>4. f * (q + 1) <= f * p
  BY <1>3
<1>5. f * (q + 1) = f * q + f
  OBVIOUS
<1> QED BY <1>1, <1>2, <1>4, <1>5

\* q is the quotient when x lies in its stretch.
LEMMA DivisionUnique ==
  ASSUME NEW x \in Nat, NEW f \in Nat \ {0}, NEW q \in Nat, f * q <= x, x < f * q + f
  PROVE  x \div f = q
<1>1. PICK p \in Nat, r \in 0..(f - 1) : p = x \div f /\ x = f * p + r
  BY Division
<1>2. ASSUME q + 1 <= p PROVE FALSE
  <2>1. f * (q + 1) <= f * p
    BY <1>2
  <2>2. f * (q + 1) = f * q + f
    OBVIOUS
  <2> QED BY <1>1, <2>1, <2>2
<1>3. ASSUME p + 1 <= q PROVE FALSE
  <2>1. f * (p + 1) <= f * q
    BY <1>3
  <2>2. f * (p + 1) = f * p + f
    OBVIOUS
  <2> QED BY <1>1, <2>1, <2>2
<1> QED BY <1>1, <1>2, <1>3

\* align_up gives an address that is not below its argument.
LEMMA AlignedUp ==
  ASSUME NEW a \in Nat
  PROVE  FramesOf(a) \in Nat /\ align_up(a) \in Nat /\ a <= align_up(a)
<1>0. FrameUnits \in Nat \ {0}
  BY PhysMemAssumption
<1>1. a + FrameUnits - 1 \in Nat
  BY <1>0
<1>2. PICK q \in Nat, r \in 0..(FrameUnits - 1) :
        q = FramesOf(a) /\ a + FrameUnits - 1 = FrameUnits * q + r
  BY <1>0, <1>1, Division DEF FramesOf
<1>3. align_up(a) = FrameUnits * q
  BY <1>0, <1>2 DEF align_up
<1>4. FrameUnits * q \in Nat
  BY <1>0
<1> QED BY <1>0, <1>2, <1>3, <1>4

-----------------------------------------------------------------------------
(* Loops over the memory map.  A loop is a function of the number of       *)
(* entries it has passed, with values in a set V.                          *)

LEMMA SmallestNat ==
  ASSUME NEW S \in SUBSET Nat, S # {}
  PROVE  \E n \in S : \A m \in S : n <= m
<1>1. PICK n \in S : \A m \in S : <<m, n>> \notin OpToRel(<, Nat)
  BY NatLessThanWellFounded, WFMin, Zenon
<1>2. \A m \in S : ~(m < n)
  BY <1>1, Zenon DEF OpToRel
<1> QED BY <1>2

\* A body of the loop, and what it computes from z.
BodyOn(step, n, V) == step \in [(1..n) \X V -> V]
LoopOf(f, step, n, V, z) ==
  f \in [0..n -> V] /\ f[0] = z /\ \A i \in 1..n : f[i] = step[<<i, f[i - 1]>>]

LEMMA LoopRuns ==
  ASSUME NEW n \in Nat, NEW V, NEW z \in V, NEW step, BodyOn(step, n, V)
  PROVE  \E f : LoopOf(f, step, n, V, z)
<1> DEFINE Runs(k, f) == f[0] = z /\ \A i \in 1..k : f[i] = step[<<i, f[i - 1]>>]
           Bad == {k \in 0..n : ~\E f \in [0..n -> V] : Runs(k, f)}
<1>0. step \in [(1..n) \X V -> V]
  BY DEF BodyOn
<1>1. SUFFICES ASSUME Bad # {} PROVE FALSE
  <2> SUFFICES \E f \in [0..n -> V] : Runs(n, f)
    BY DEF LoopOf
  <2> HIDE DEF Runs
  <2> QED BY n \in 0..n
<1>2. PICK k \in Bad : \A m \in Bad : k <= m
  <2> HIDE DEF Runs
  <2>1. Bad \in SUBSET Nat
    OBVIOUS
  <2> HIDE DEF Bad
  <2> QED BY <1>1, <2>1, SmallestNat
<1>3. CASE k = 0
  <2> DEFINE g == [i \in 0..n |-> z]
  <2>1. g \in [0..n -> V] /\ Runs(0, g)
    OBVIOUS
  <2> HIDE DEF g, Runs
  <2> QED BY <1>3, <2>1
<1>4. CASE k # 0
  <2>1. k \in 1..n /\ k - 1 \in 0..n /\ ~(k <= k - 1)
    BY <1>4
  <2>2. PICK f \in [0..n -> V] : Runs(k - 1, f)
    <3> HIDE DEF Runs
    <3> QED BY <1>2, <2>1
  <2> DEFINE v == step[<<k, f[k - 1]>>]
             g == [f EXCEPT ![k] = v]
  <2>3. v \in V
    BY <1>0, <2>1
  <2> HIDE DEF v
  <2>4. g \in [0..n -> V] /\ g[k] = v /\ \A i \in 0..n : i # k => g[i] = f[i]
    BY <2>1, <2>3
  <2> HIDE DEF g
  <2>5. ASSUME NEW i \in 1..k PROVE g[i] = step[<<i, g[i - 1]>>]
    <3>1. i - 1 \in 0..n /\ i - 1 # k /\ i \in 0..n
      BY <2>1
    <3>2. g[i - 1] = f[i - 1]
      BY <2>4, <3>1
    <3>3. CASE i = k
      BY <2>4, <3>2, <3>3 DEF v
    <3>4. CASE i # k
      <4>1. i \in 1..(k - 1)
        BY <2>1, <3>4
      <4> QED BY <2>2, <2>4, <3>1, <3>2, <3>4, <4>1, SMTT(30)
    <3> QED BY <3>3, <3>4
  <2>6. g[0] = z
    BY <2>1, <2>2, <2>4
  <2>7. Runs(k, g)
    BY <2>5, <2>6
  <2> HIDE DEF Runs
  <2> QED BY <2>4, <2>7
<1> QED BY <1>3, <1>4

LEMMA LoopKeeps ==
  ASSUME NEW n \in Nat, NEW V, NEW f, f[0] \in V, \A i \in 1..n : f[i - 1] \in V => f[i] \in V
  PROVE  f[n] \in V
<1> DEFINE Bad == {k \in 0..n : f[k] \notin V}
<1>1. SUFFICES ASSUME Bad # {} PROVE FALSE
  BY n \in 0..n
<1>2. Bad \in SUBSET Nat
  OBVIOUS
<1>3. PICK k \in Bad : \A m \in Bad : k <= m
  <2> HIDE DEF Bad
  <2> QED BY <1>1, <1>2, SmallestNat
<1>4. k \in 1..n /\ k - 1 \in 0..n /\ ~(k <= k - 1)
  OBVIOUS
<1>5. f[k - 1] \in V
  BY <1>3, <1>4
<1> QED BY <1>4, <1>5

-----------------------------------------------------------------------------
(* The bring-up.                                                           *)

LEMMA BoardFields ==
  ASSUME board \in Boards
  PROVE  /\ Len(board.entries) \in Nat
         /\ \A i \in 1..Len(board.entries) :
              /\ board.entries[i].addr \in Nat /\ board.entries[i].len \in Nat
         /\ board.mem_upper \in Nat /\ board.kernel_end \in Nat /\ board.kernel_end # 0
         /\ board.mb_start \in Nat /\ board.mb_end \in Nat
         /\ \A m \in board.modules : m.start \in Nat /\ m.end \in Nat /\ m.end # 0
<1> DEFINE Entries == [addr : Nat, len : Nat, type : Nat]
<1>1. /\ board.entries \in Seq(Entries)
      /\ board.mem_upper \in Nat /\ board.kernel_end \in Nat \ {0}
      /\ board.mb_start \in Nat /\ board.mb_end \in Nat
      /\ board.modules \subseteq [start : Nat, end : Nat \ {0}]
  BY BoardAssumption
<1>2. \A e \in Entries : e.addr \in Nat /\ e.len \in Nat
  OBVIOUS
<1> HIDE DEF Entries
<1>3. \A i \in 1..Len(board.entries) : board.entries[i] \in Entries
  BY <1>1
<1>4. \A m \in board.modules : m.start \in Nat /\ m.end \in Nat /\ m.end # 0
  BY <1>1
<1>5. Len(board.entries) \in Nat
  BY <1>1
<1> QED BY <1>1, <1>2, <1>3, <1>4, <1>5, SMTT(30)

\* What _mmap_parse adds up.
LEMMA MemoryCounted ==
  ASSUME board \in Boards
  PROVE  _mmap_phys_memory_avail \in Nat
<1> DEFINE n == Len(board.entries)
           Add(i) == IF board.entries[i].type = Available THEN board.entries[i].len ELSE 0
           Runs(f) == f = [i \in 0..n |-> IF i = 0 THEN 0 ELSE f[i - 1] + Add(i)]
           sum == CHOOSE f : Runs(f)
<1>1. n \in Nat /\ \A i \in 1..n : Add(i) \in Nat
  BY BoardFields
<1>2. _mmap_phys_memory_avail = sum[n]
  BY DEF _mmap_phys_memory_avail
<1> HIDE DEF n, Add
<1>3. \E f : Runs(f)
  <2> DEFINE step == [x \in (1..n) \X Nat |-> x[2] + Add(x[1])]
  <2>1. step \in [(1..n) \X Nat -> Nat]
    BY <1>1
  <2>2. \A i \in 1..n : \A v \in Nat : step[<<i, v>>] = v + Add(i)
    OBVIOUS
  <2> HIDE DEF step
  <2>3. PICK f : LoopOf(f, step, n, Nat, 0)
    <3>1. PICK V, z : V = Nat /\ z = 0
      BY Zenon
    <3>2. z \in V /\ BodyOn(step, n, V)
      BY <2>1, <3>1 DEF BodyOn
    <3>3. \E f : LoopOf(f, step, n, V, z)
      BY <1>1, <3>2, LoopRuns
    <3> QED BY <3>1, <3>3
  <2>4. ASSUME NEW i \in 1..n PROVE f[i] = f[i - 1] + Add(i)
    <3>1. i - 1 \in 0..n
      BY <1>1
    <3>2. f[i - 1] \in Nat
      BY <2>3, <3>1 DEF LoopOf
    <3> QED BY <2>2, <2>3, <3>2, Zenon DEF LoopOf
  <2>5. f = [i \in 0..n |-> IF i = 0 THEN 0 ELSE f[i - 1] + Add(i)]
    <3>1. \A i \in 0..n : f[i] = IF i = 0 THEN 0 ELSE f[i - 1] + Add(i)
      BY <1>1, <2>3, <2>4 DEF LoopOf
    <3>2. f = [i \in 0..n |-> f[i]]
      BY <2>3 DEF LoopOf
    <3> QED BY <3>1, <3>2
  <2> QED BY <2>5, Zenon
<1>4. Runs(sum)
  <2> HIDE DEF Runs
  <2> QED BY <1>3
<1> HIDE DEF sum
<1>5. sum[0] = 0 /\ \A i \in 1..n : sum[i - 1] \in Nat => sum[i] \in Nat
  BY <1>1, <1>4
<1>6. sum[n] \in Nat
  <2>1. PICK V : V = Nat
    BY Zenon
  <2>2. sum[0] \in V /\ \A i \in 1..n : sum[i - 1] \in V => sum[i] \in V
    BY <1>5, <2>1
  <2>3. sum[n] \in V
    BY <1>1, <2>2, LoopKeeps
  <2> QED BY <2>1, <2>3
<1> QED BY <1>2, <1>6

\* A page table taken from address a on lies at or above a; while memory lasts
\* it spares the multiboot information and the modules.
LEMMA TableTaken ==
  ASSUME board \in Boards, NEW a \in Nat, NEW t, t = EarlyTable(a)
  PROVE  /\ t \in Nat /\ a <= t
         /\ t < memory_size_in_bytes => Spared(t)
<1> DEFINE top == memory_size_in_bytes
           Good(x) == _mmap_is_address_in_available_space(x) \/ x >= top
           P(x) == /\ Good(x)
                   /\ \A u \in a..(x - 1) : ~_mmap_is_address_in_available_space(u) /\ u < top
<1>1. top \in Nat
  BY BoardFields DEF memory_size_in_bytes
<1> DEFINE S == {x \in a..(a + top + 1) : Good(x)}
<1>2. S \in SUBSET Nat /\ S # {}
  <2>1. a + top \in a..(a + top + 1) /\ a + top >= top
    BY <1>1
  <2>2. a + top \in S
    BY <2>1
  <2>3. S \in SUBSET Nat
    BY <1>1
  <2> QED BY <2>2, <2>3
<1>3. PICK x \in S : \A y \in S : x <= y
  <2> HIDE DEF S
  <2> QED BY <1>2, SmallestNat
<1>4. P(x)
  <2>1. ASSUME NEW u \in a..(x - 1) PROVE ~Good(u) /\ u \in Nat
    <3>1. u \in a..(a + top + 1) /\ ~(x <= u) /\ u \in Nat
      BY <1>1
    <3> QED BY <1>3, <3>1
  <2>2. \A u \in a..(x - 1) : ~_mmap_is_address_in_available_space(u) /\ u < top
    BY <1>1, <2>1
  <2> QED BY <2>2
<1>5. t = CHOOSE z \in a..(a + top + 1) : P(z)
  BY DEF EarlyTable
<1>6. x \in a..(a + top + 1)
  OBVIOUS
<1> HIDE DEF P, S
<1>7. t \in a..(a + top + 1) /\ P(t)
  BY <1>4, <1>5, <1>6
<1>8. t \in Nat /\ a <= t
  BY <1>1, <1>7
<1>9. ASSUME t < top PROVE Spared(t)
  <2>1. _mmap_is_address_in_available_space(t)
    BY <1>1, <1>7, <1>8, <1>9, SMTT(30) DEF P
  <2>2. ~(t + 1 > board.mb_start /\ t < board.mb_end) /\ ~_is_address_in_multiboot(t)
    BY <2>1 DEF _mmap_is_address_in_available_space
  <2>3. ~(board.mb_start <= t /\ t < board.mb_end)
    BY <1>8, <2>2, BoardFields
  <2>4. \A m \in board.modules : ~(m.start <= t /\ t < m.end)
    BY <1>8, <2>2, BoardFields DEF _is_address_in_multiboot
  <2> QED BY <2>3, <2>4 DEF Spared
<1> QED BY <1>8, <1>9

\* The bits pmm_reserve_area sets are frames, finitely many.
LEMMA AreaReserved ==
  ASSUME NEW used, NEW at \in Nat, NEW len \in Nat
  PROVE  pmm_reserve_area(used, at, len) \in SUBSET Nat /\ IsFiniteSet(pmm_reserve_area(used, at, len))
<1>1. PICK loc : loc = at \div FrameUnits
  OBVIOUS
<1>2. loc \in Nat /\ FramesOf(len) \in Nat
  BY <1>1, PhysMemAssumption, Division, AlignedUp, SMTT(30)
<1>3. PICK top : top = loc + FramesOf(len) - 1
  OBVIOUS
<1>4. top \in Int /\ loc \in Int
  BY <1>2, <1>3
<1>5. IsFiniteSet(loc..top)
  BY <1>4, FS_Interval
<1>6. pmm_reserve_area(used, at, len) \subseteq loc..top
  BY <1>1, <1>3 DEF pmm_reserve_area
<1>7. loc..top \subseteq Nat
  BY <1>2, <1>4
<1> QED BY <1>5, <1>6, <1>7, FS_Subset, Zenon

\* What the loop of _mmap_setup leaves: the bits it found, and finitely many
\* more.
LEMMA MapReserved ==
  ASSUME board \in Boards, NEW used \in SUBSET Nat, IsFiniteSet(used)
  PROVE  /\ ReserveAll(used) \in SUBSET Nat /\ IsFiniteSet(ReserveAll(used))
         /\ used \subseteq ReserveAll(used)
<1> DEFINE n == Len(board.entries)
           New(i, u) == IF Unusable(board.entries[i])
                        THEN pmm_reserve_area(u, board.entries[i].addr, board.entries[i].len) ELSE {}
           V == {S \in SUBSET Nat : IsFiniteSet(S) /\ used \subseteq S}
           Runs(f) == f = [i \in 0..n |-> IF i = 0 THEN used ELSE f[i - 1] \cup New(i, f[i - 1])]
           after == CHOOSE f : Runs(f)
<1>1. n \in Nat /\ used \in V
  BY BoardFields
<1>2. ASSUME NEW i \in 1..n, NEW u \in V PROVE u \cup New(i, u) \in V
  <2>1. New(i, u) \in SUBSET Nat /\ IsFiniteSet(New(i, u))
    BY BoardFields, AreaReserved, FS_EmptySet, Zenon
  <2> HIDE DEF New
  <2>2. IsFiniteSet(u \cup New(i, u))
    BY <2>1, FS_Union, Zenon
  <2> QED BY <2>1, <2>2, Zenon
<1>3. ReserveAll(used) = after[n]
  BY DEF ReserveAll
<1> HIDE DEF n, New, V
<1>4. \E f : Runs(f)
  <2> DEFINE step == [x \in (1..n) \X V |-> x[2] \cup New(x[1], x[2])]
  <2>1. BodyOn(step, n, V)
    BY <1>2 DEF BodyOn
  <2>2. \A i \in 1..n : \A u \in V : step[<<i, u>>] = u \cup New(i, u)
    OBVIOUS
  <2> HIDE DEF step
  <2>3. PICK f : LoopOf(f, step, n, V, used)
    BY <1>1, <2>1, LoopRuns
  <2>4. ASSUME NEW i \in 1..n PROVE f[i] = f[i - 1] \cup New(i, f[i - 1])
    <3>1. i - 1 \in 0..n
      BY <1>1
    <3>2. f[i - 1] \in V
      BY <2>3, <3>1 DEF LoopOf
    <3> QED BY <2>2, <2>3, <3>2, Zenon DEF LoopOf
  <2>5. Runs(f)
    <3>1. \A i \in 0..n : f[i] = IF i = 0 THEN used ELSE f[i - 1] \cup New(i, f[i - 1])
      BY <1>1, <2>3, <2>4 DEF LoopOf
    <3>2. f = [i \in 0..n |-> f[i]]
      BY <2>3 DEF LoopOf
    <3> QED BY <3>1, <3>2
  <2> QED BY <2>5, Zenon
<1>5. Runs(after)
  <2> HIDE DEF Runs
  <2> QED BY <1>4
<1> HIDE DEF after
<1>6. after[0] \in V /\ \A i \in 1..n : after[i - 1] \in V => after[i] \in V
  <2>1. \A i \in 0..n : after[i] = IF i = 0 THEN used ELSE after[i - 1] \cup New(i, after[i - 1])
    BY <1>5, Zenon
  <2>2. after[0] = used
    <3>1. 0 \in 0..n
      BY <1>1
    <3> QED BY <2>1, <3>1, Zenon
  <2>3. ASSUME NEW i \in 1..n PROVE after[i] = after[i - 1] \cup New(i, after[i - 1])
    <3>1. i \in 0..n /\ i # 0
      BY <1>1
    <3> QED BY <2>1, <3>1, Zenon
  <2> HIDE DEF Runs
  <2> QED BY <1>1, <1>2, <2>2, <2>3
<1>7. after[n] \in V
  BY <1>1, <1>6, LoopKeeps, Zenon
<1> QED BY <1>3, <1>7 DEF V

-----------------------------------------------------------------------------
(* Requests.                                                               *)

\* The result of _bitmap_request_frame is -1 or a clear bit.
LEMMA FrameFound ==
  ASSUME bitmap_size \in Nat, _bitmap_request_frame # -1
  PROVE  _bitmap_request_frame \in Nat \ memory_map
<1> DEFINE clear == Scanned \ memory_map
<1>1. clear # {} /\ _bitmap_request_frame = CHOOSE b \in clear : \A c \in clear : b <= c
  BY DEF _bitmap_request_frame
<1>2. Bits \subseteq Nat
  BY PhysMemAssumption, Division DEF Bits, number_of_entries
<1>3. clear \in SUBSET Nat
  BY <1>2, Zenon DEF Scanned
<1> HIDE DEF clear
<1>4. \E b \in clear : \A c \in clear : b <= c
  BY <1>1, <1>3, SmallestNat
<1>5. _bitmap_request_frame \in clear
  BY <1>1, <1>4
<1> QED BY <1>3, <1>5 DEF clear

\* A later bit lies in the same row or in a later one.
LEMMA RowsOrdered ==
  ASSUME NEW x \in Nat, NEW y \in Nat, x <= y
  PROVE  RowOf(x) \in Nat /\ RowOf(y) \in Nat /\ RowOf(x) <= RowOf(y)
<1>1. RowBits \in Nat \ {0}
  BY PhysMemAssumption
<1>2. x \div RowBits \in Nat /\ y \div RowBits \in Nat
  BY <1>1, Division
<1>3. x \div RowBits <= y \div RowBits
  BY <1>1, DivisionMonotone
<1> QED BY <1>2, <1>3 DEF RowOf

\* The result of _bitmap_request_frames is -1 or a clear bit, from which on a
\* bit that is set lies in a full row further up: the n clear bits counted were
\* those of the rows that are scanned.
LEMMA AreaFound ==
  ASSUME bitmap_size \in Nat, NEW n \in Nat \ {0},
         NEW at, at = _bitmap_request_frames(n), at # -1
  PROVE  at \in Nat \ memory_map /\ Given(at, n)
<1> DEFINE RunFrom(s, b) == {c \in Scanned : s <= c /\ c <= b}
           Run(s, b) == RunFrom(s, b) \cap memory_map = {} /\ Cardinality(RunFrom(s, b)) = n
           ends == {b \in Scanned : \E s \in Scanned : Run(s, b)}
           first == CHOOSE b \in ends : \A c \in ends : b <= c
<1>1. ends # {} /\ at = CHOOSE s \in Scanned : Run(s, first)
  BY Zenon DEF _bitmap_request_frames
<1>2. number_of_entries * RowBits \in Nat /\ RowBits \in Nat \ {0}
  BY PhysMemAssumption, Division DEF number_of_entries
<1>3. Scanned \subseteq Bits /\ Bits \subseteq Nat
  BY <1>2 DEF Scanned, Bits
<1>4. first \in ends
  <2>1. ends \in SUBSET Nat
    BY <1>3, Zenon
  <2> HIDE DEF ends
  <2>2. \E b \in ends : \A c \in ends : b <= c
    BY <1>1, <2>1, SmallestNat
  <2> QED BY <2>2
<1> HIDE DEF first
<1>5. at \in Scanned /\ Run(at, first) /\ first \in Scanned
  <2>1. first \in Scanned /\ \E s \in Scanned : Run(s, first)
    BY <1>4, Zenon
  <2> HIDE DEF Run
  <2> QED BY <1>1, <2>1, Zenon
<1>6. at \in Nat /\ first \in Nat
  BY <1>3, <1>5, Zenon
<1>7. at <= first /\ at + n - 1 <= first
  <2>1. PICK last \in Nat : last = first
    BY <1>6
  <2>2. \A c \in RunFrom(at, last) : c \in at..last
    <3>1. \A c \in Nat : at <= c /\ c <= last => c \in at..last
      BY <1>6
    <3>2. \A c \in RunFrom(at, last) : c \in Nat /\ at <= c /\ c <= last
      BY <1>3, Zenon
    <3> QED BY <3>1, <3>2, Zenon
  <2>3. /\ IsFiniteSet(at..last)
        /\ Cardinality(at..last) = IF at > last THEN 0 ELSE last - at + 1
    <3>1. at \in Int /\ last \in Int
      BY <1>6
    <3> QED BY <3>1, FS_Interval
  <2>4. Cardinality(RunFrom(at, last)) = n
    BY <1>5, <2>1, Zenon
  <2>5. Cardinality(RunFrom(at, last)) <= Cardinality(at..last)
    <3> HIDE DEF RunFrom
    <3>1. PICK R : R = RunFrom(at, last)
      BY Zenon
    <3>2. R \subseteq at..last
      BY <2>2, <3>1, Zenon
    <3>3. Cardinality(R) <= Cardinality(at..last)
      BY <2>3, <3>2, FS_Subset, Zenon
    <3> QED BY <3>1, <3>3
  <2>6. n <= Cardinality(at..last)
    BY <2>4, <2>5
  <2> QED BY <1>6, <2>1, <2>3, <2>6
<1>8. at \notin memory_map
  BY <1>5, <1>6, <1>7
<1>9. ASSUME NEW f \in at..(at + n - 1), f \in memory_map
      PROVE  RowFull(RowOf(f)) /\ RowOf(f) > RowOf(at)
  <2>1. f \in Nat /\ at <= f /\ f <= first
    BY <1>6, <1>7
  <2>2. f \notin Scanned
    BY <1>5, <1>9, <2>1
  <2>3. f \in Bits
    BY <1>2, <1>3, <1>5, <1>6, <2>1 DEF Bits
  <2>4. RowFull(RowOf(f)) /\ ~RowFull(RowOf(at))
    BY <1>5, <2>2, <2>3, Zenon DEF Scanned
  <2>5. RowOf(f) # RowOf(at)
    BY <2>4, Zenon
  <2>6. RowOf(f) \in Nat /\ RowOf(at) \in Nat /\ RowOf(at) <= RowOf(f)
    BY <1>6, <2>1, RowsOrdered
  <2>7. RowOf(f) > RowOf(at)
    <3> HIDE DEF RowOf
    <3> QED BY <2>5, <2>6
  <2> QED BY <2>4, <2>7
<1> QED BY <1>6, <1>8, <1>9 DEF Given

\* A single clear bit is given as it is.
LEMMA FrameGiven ==
  ASSUME NEW at \in Nat \ memory_map
  PROVE  Given(at, 1)
BY DEF Given

\* An area in one row is given with all of its bits clear.
LEMMA RowGiven ==
  ASSUME NEW at \in Nat, NEW n \in Nat \ {0}, Given(at, n), RowOf(at) = RowOf(at + n - 1)
  PROVE  at..(at + n - 1) \cap memory_map = {}
<1> SUFFICES ASSUME NEW f \in at..(at + n - 1), f \in memory_map PROVE FALSE
  OBVIOUS
<1>1. PICK last \in Nat : last = at + n - 1
  OBVIOUS
<1>2. f \in Nat /\ f <= last /\ RowBits \in Nat \ {0}
  BY <1>1, PhysMemAssumption
<1>3. RowOf(f) \in Nat /\ RowOf(last) \in Nat /\ RowOf(f) <= RowOf(last)
  BY <1>2, RowsOrdered
<1>4. RowOf(f) > RowOf(at) /\ RowOf(at) = RowOf(last)
  BY <1>1 DEF Given
<1> HIDE DEF RowOf
<1> QED BY <1>3, <1>4

-----------------------------------------------------------------------------
(* The steps.                                                              *)

LEMMA SameAccounts ==
  ASSUME AccountsInv, UNCHANGED <<memory_map, used_frames, held>>
  PROVE  AccountsInv'
<1>1. /\ \A a : Marked(a)' <=> Marked(a)
      /\ \A a, b : Apart(a, b)' <=> Apart(a, b)
      /\ \A a : IsArea(a)' <=> IsArea(a)
  BY DEF Marked, Apart, IsArea, InOneRow, FrameSet, RowOf
<1> QED BY <1>1, Zenon DEF AccountsInv

LEMMA InitMem == Init => MemInv
<1> SUFFICES ASSUME Init PROVE MemInv
  OBVIOUS
<1>1. board \in Boards /\ board.kernel_end \in Nat
  BY BoardFields DEF Init
<1>2. PICK a \in Nat : a = board.kernel_end + PointerScale * FrameUnits /\ board.kernel_end <= a
  BY <1>1, PhysMemAssumption
<1>3. align_up(a) \in Nat /\ a <= align_up(a) /\ anon_physical_memory_loc = align_up(a)
  BY <1>2, AlignedUp DEF Init
<1>4. SetupInv
  BY <1>1, <1>2, <1>3 DEF Init, SetupInv
<1>5. AccountsInv
  BY FS_EmptySet DEF Init, AccountsInv
<1> QED BY <1>4, <1>5 DEF MemInv

\* One page of the direct map: its page tables lie above those before.
LEMMA TablesTaken ==
  ASSUME MemInv, hhdm_map_physical_memory
  PROVE  /\ anon_physical_memory_loc' \in Nat /\ anon_physical_memory_loc <= anon_physical_memory_loc'
         /\ tables \subseteq tables'
         /\ \A t \in tables' \ tables :
              /\ t \in Nat /\ anon_physical_memory_loc <= t /\ t < anon_physical_memory_loc'
              /\ t < memory_size_in_bytes => Spared(t)
<1> DEFINE first == EarlyTable(anon_physical_memory_loc)
           second == EarlyTable(first + 1)
           fresh == CASE NewTables = 0 -> {} [] NewTables = 1 -> {first} [] NewTables = 2 -> {first, second}
<1>0. /\ board \in Boards /\ anon_physical_memory_loc \in Nat /\ board.kernel_end \in Nat
      /\ board.kernel_end <= anon_physical_memory_loc
  BY BoardFields DEF MemInv, SetupInv
<1>1. /\ UNCHANGED <<board, stage, bitmap_size, memory_map, used_frames, held>>
      /\ tables' = tables \cup fresh
      /\ anon_physical_memory_loc' = IF fresh = {} THEN anon_physical_memory_loc
                                     ELSE 1 + (CHOOSE t \in fresh : \A u \in fresh : u <= t)
  BY DEF hhdm_map_physical_memory
<1>2. first \in Nat /\ anon_physical_memory_loc <= first /\ (first < memory_size_in_bytes => Spared(first))
  BY <1>0, TableTaken
<1>3. second \in Nat /\ first < second /\ (second < memory_size_in_bytes => Spared(second))
  <2>1. first + 1 \in Nat
    BY <1>2
  <2>2. second \in Nat /\ first + 1 <= second /\ (second < memory_size_in_bytes => Spared(second))
    BY <1>0, <2>1, TableTaken, SMTT(30)
  <2> QED BY <1>2, <2>2
<1>4. NewTables = 0 \/ NewTables = 1 \/ NewTables = 2
  BY DEF NewTables
<1> HIDE DEF first, second
<1>5. fresh = {} \/ fresh = {first} \/ fresh = {first, second}
  BY <1>4
<1> HIDE DEF fresh
<1>6. /\ anon_physical_memory_loc' \in Nat /\ anon_physical_memory_loc <= anon_physical_memory_loc'
      /\ \A t \in fresh : t \in Nat /\ anon_physical_memory_loc <= t /\ t < anon_physical_memory_loc'
  <2>1. CASE fresh = {}
    BY <1>0, <1>1, <2>1
  <2>2. ASSUME NEW top \in Nat, top \in fresh, \A u \in fresh : u \in Nat /\ u <= top /\ anon_physical_memory_loc <= u
        PROVE  /\ anon_physical_memory_loc' \in Nat /\ anon_physical_memory_loc <= anon_physical_memory_loc'
               /\ \A t \in fresh : t \in Nat /\ anon_physical_memory_loc <= t /\ t < anon_physical_memory_loc'
    <3>1. PICK c : c = CHOOSE t \in fresh : \A u \in fresh : u <= t
      OBVIOUS
    <3>2. c \in fresh /\ \A u \in fresh : u <= c
      BY <2>2, <3>1, Zenon
    <3>3. anon_physical_memory_loc' = 1 + c
      BY <1>1, <2>2, <3>1
    <3> QED BY <1>0, <2>2, <3>2, <3>3, SMTT(30)
  <2>3. CASE fresh = {first}
    BY <1>2, <2>2, <2>3
  <2>4. CASE fresh = {first, second}
    <3>1. second \in fresh /\ \A u \in fresh : u \in Nat /\ u <= second /\ anon_physical_memory_loc <= u
      BY <1>0, <1>2, <1>3, <2>4, SMTT(30)
    <3> QED BY <1>3, <2>2, <3>1
  <2> QED BY <1>5, <2>1, <2>3, <2>4, SMTT(30)
<1>7. \A t \in fresh : t < memory_size_in_bytes => Spared(t)
  BY <1>2, <1>3, <1>5
<1> QED BY <1>1, <1>6, <1>7, Zenon

LEMMA MapKeeps ==
  ASSUME MemInv, hhdm_map_physical_memory
  PROVE  MemInv'
<1>0. /\ anon_physical_memory_loc \in Nat /\ board.kernel_end \in Nat
      /\ board.kernel_end <= anon_physical_memory_loc
  BY BoardFields DEF MemInv, SetupInv
<1>1. UNCHANGED <<board, stage, bitmap_size, memory_map, used_frames, held>>
  BY DEF hhdm_map_physical_memory
<1>2. /\ anon_physical_memory_loc' \in Nat /\ anon_physical_memory_loc <= anon_physical_memory_loc'
      /\ \A t \in tables' \ tables : t \in Nat /\ anon_physical_memory_loc <= t /\ t < anon_physical_memory_loc'
  BY TablesTaken
<1>3. \A t \in tables' : t \in Nat /\ board.kernel_end <= t /\ t < anon_physical_memory_loc'
  <2>1. ASSUME NEW t \in tables PROVE t \in Nat /\ board.kernel_end <= t /\ t < anon_physical_memory_loc'
    <3>1. t \in Nat /\ board.kernel_end <= t /\ t < anon_physical_memory_loc
      BY DEF MemInv, SetupInv
    <3> QED BY <1>0, <1>2, <3>1
  <2>2. ASSUME NEW t \in tables' \ tables PROVE t \in Nat /\ board.kernel_end <= t /\ t < anon_physical_memory_loc'
    BY <1>0, <1>2
  <2> QED BY <2>1, <2>2
<1>4. board.kernel_end <= anon_physical_memory_loc'
  BY <1>0, <1>2
<1>5. SetupInv'
  BY <1>1, <1>2, <1>3, <1>4, SMTT(30) DEF MemInv, SetupInv
<1>6. AccountsInv'
  BY <1>1, SameAccounts DEF MemInv
<1> QED BY <1>5, <1>6 DEF MemInv

\* The entries the kernel takes: enough frames for every address up to end.
LEMMA KernelEntries ==
  ASSUME NEW end \in Nat
  PROVE  _compute_kernel_entries(end) \in Nat \ {0} /\ end \div FrameUnits < _compute_kernel_entries(end)
<1>1. end \div FrameUnits \in Nat
  BY PhysMemAssumption, Division
<1> QED BY <1>1 DEF _compute_kernel_entries

\* The bits of an interval from 0.
LEMMA FirstBits ==
  ASSUME NEW k \in Nat \ {0}
  PROVE  0..(k - 1) \in SUBSET Nat /\ IsFiniteSet(0..(k - 1)) /\ Cardinality(0..(k - 1)) = k
<1>1. 0 \in Int /\ k - 1 \in Int
  OBVIOUS
<1>2. IsFiniteSet(0..(k - 1)) /\ Cardinality(0..(k - 1)) = IF 0 > k - 1 THEN 0 ELSE k - 1 - 0 + 1
  BY <1>1, FS_Interval
<1> QED BY <1>2

LEMMA DisjointUnion ==
  ASSUME NEW S, IsFiniteSet(S), NEW T, IsFiniteSet(T), S \cap T = {}
  PROVE  Cardinality(S \cup T) = Cardinality(S) + Cardinality(T)
<1>1. Cardinality(S \cup T) = Cardinality(S) + Cardinality(T) - Cardinality(S \cap T)
  BY FS_Union, Zenon
<1>2. Cardinality(S \cap T) = 0 /\ Cardinality(S) \in Nat /\ Cardinality(T) \in Nat
  BY FS_EmptySet, FS_CardinalityType, SMTT(30)
<1> QED BY <1>1, <1>2

LEMMA BitmapKeeps ==
  ASSUME MemInv, _initialize_bitmap
  PROVE  MemInv' /\ InStep
<1>1. PICK k : k = _compute_kernel_entries(anon_physical_memory_loc + FrameUnits)
  OBVIOUS
<1>2. k \in Nat \ {0}
  BY <1>1, KernelEntries, PhysMemAssumption DEF MemInv, SetupInv
<1>3. /\ stage = "hhdm" /\ stage' = "reserve" /\ UNCHANGED <<board, anon_physical_memory_loc, tables, held>>
      /\ bitmap_size' = _mmap_phys_memory_avail \div FrameUnits + 1
      /\ memory_map' = 0..(k - 1) /\ used_frames' = k
  BY <1>1 DEF _initialize_bitmap
<1>4. held' = {}
  BY <1>3 DEF MemInv, SetupInv
<1>5. bitmap_size' \in Nat
  <2>1. PICK m : m = _mmap_phys_memory_avail
    OBVIOUS
  <2>2. m \in Nat /\ FrameUnits \in Nat \ {0}
    BY <2>1, MemoryCounted, PhysMemAssumption DEF MemInv, SetupInv
  <2>3. m \div FrameUnits \in Nat
    BY <2>2, Division
  <2> QED BY <1>3, <2>1, <2>3
<1>6. SetupInv'
  BY <1>3, <1>4, <1>5 DEF MemInv, SetupInv
<1>7. AccountsInv'
  BY <1>2, <1>3, <1>4, FirstBits, SMTT(30) DEF AccountsInv
<1>8. InStep
  <2>1. memory_map = {} /\ used_frames = 0
    BY <1>3 DEF MemInv, SetupInv
  <2>2. Cardinality(memory_map) = 0 /\ Cardinality(memory_map') = k
    BY <1>2, <1>3, <2>1, FirstBits, FS_EmptySet
  <2> QED BY <1>2, <1>3, <2>1, <2>2 DEF InStep
<1> QED BY <1>6, <1>7, <1>8 DEF MemInv

LEMMA SetupKeeps ==
  ASSUME MemInv, _mmap_setup
  PROVE  MemInv' /\ InStep
<1> DEFINE more == memory_map \cup pmm_reserve_area(memory_map, 0, BitmapUnits)
<1>1. /\ stage = "reserve" /\ stage' = "ready" /\ UNCHANGED <<board, anon_physical_memory_loc, tables, bitmap_size, held>>
      /\ memory_map' = ReserveAll(more)
      /\ used_frames' = used_frames + Cardinality(memory_map' \ memory_map)
  BY DEF _mmap_setup
<1>2. held' = {} /\ board \in Boards
  BY <1>1 DEF MemInv, SetupInv
<1>3. SetupInv'
  BY <1>1, <1>2 DEF MemInv, SetupInv
<1>4. memory_map \in SUBSET Nat /\ IsFiniteSet(memory_map) /\ used_frames \in Int
  BY DEF MemInv, AccountsInv
<1>5. memory_map' \in SUBSET Nat /\ IsFiniteSet(memory_map') /\ memory_map \subseteq memory_map'
  <2>1. /\ pmm_reserve_area(memory_map, 0, BitmapUnits) \in SUBSET Nat
        /\ IsFiniteSet(pmm_reserve_area(memory_map, 0, BitmapUnits))
    BY AreaReserved, PhysMemAssumption
  <2>2. more \in SUBSET Nat /\ IsFiniteSet(more) /\ memory_map \subseteq more
    BY <1>4, <2>1, FS_Union, Zenon
  <2> HIDE DEF more
  <2> QED BY <1>1, <1>2, <2>2, MapReserved, SMTT(30)
<1>6. PICK D : D = memory_map' \ memory_map
  BY Zenon
<1>7. IsFiniteSet(D) /\ memory_map' = memory_map \cup D /\ memory_map \cap D = {}
  BY <1>5, <1>6, FS_Difference, Zenon
<1>8. /\ Cardinality(memory_map \cup D) = Cardinality(memory_map) + Cardinality(D)
      /\ Cardinality(memory_map) \in Nat /\ Cardinality(D) \in Nat
  BY <1>4, <1>7, DisjointUnion, FS_CardinalityType, Zenon
<1>9. AccountsInv'
  <2>1. used_frames' \in Int
    BY <1>1, <1>4, <1>6, <1>8
  <2> QED BY <1>2, <1>5, <2>1, Zenon DEF AccountsInv
<1>10. InStep
  <2>1. used_frames' = used_frames + Cardinality(D)
    BY <1>1, <1>6, Zenon
  <2>2. Cardinality(memory_map') = Cardinality(memory_map) + Cardinality(D)
    BY <1>7, <1>8, Zenon
  <2> QED BY <1>4, <1>8, <2>1, <2>2 DEF InStep
<1> QED BY <1>3, <1>9, <1>10 DEF MemInv

\* An area is handed out: it takes frames in use only as Given says, and the
\* counter keeps in step when it takes none.
LEMMA GiveOutKeeps ==
  ASSUME MemInv, stage = "ready", UNCHANGED <<boot_vars, stage>>,
         NEW at \in Nat \ memory_map, NEW n \in Nat \ {0}, Given(at, n), GiveOut(at, n)
  PROVE  /\ MemInv'
         /\ \E x : /\ x.at = at /\ x.n = n /\ x \notin held
                   /\ held' = held \cup {x} /\ FrameSet(x) = at..(at + n - 1)
         /\ at..(at + n - 1) \cap memory_map = {} => InStep
<1> DEFINE area == at..(at + n - 1)
<1>0. PICK x : x = [at |-> at, n |-> n]
  BY Zenon
<1>1. /\ memory_map' = memory_map \cup area /\ used_frames' = used_frames + n
      /\ held' = held \cup {x}
  BY <1>0 DEF GiveOut
<1>2. SetupInv'
  BY DEF MemInv, SetupInv, boot_vars
<1>3. area \in SUBSET Nat /\ IsFiniteSet(area) /\ Cardinality(area) = n /\ at \in area
  <2>1. at \in Int /\ at + n - 1 \in Int
    OBVIOUS
  <2>2. IsFiniteSet(area) /\ Cardinality(area) = IF at > at + n - 1 THEN 0 ELSE at + n - 1 - at + 1
    BY <2>1, FS_Interval
  <2> QED BY <2>2
<1>4. FrameSet(x) = area /\ IsArea(x) /\ x.at = at /\ x.n = n
  BY <1>0 DEF FrameSet, IsArea
<1>5. InOneRow(x) => area \cap memory_map = {}
  BY <1>4, RowGiven, SMTT(30) DEF InOneRow
<1> HIDE DEF area
<1>6. /\ memory_map \in SUBSET Nat /\ IsFiniteSet(memory_map) /\ used_frames \in Int
      /\ \A a \in held : IsArea(a) /\ Marked(a)
      /\ \A a, b \in held : a # b => Apart(a, b)
  BY DEF MemInv, AccountsInv
<1>7. memory_map' \in SUBSET Nat /\ IsFiniteSet(memory_map') /\ used_frames' \in Int
  <2>1. memory_map' \in SUBSET Nat /\ IsFiniteSet(memory_map')
    BY <1>1, <1>3, <1>6, FS_Union, Zenon
  <2>2. used_frames' \in Int
    BY <1>1, <1>6
  <2> QED BY <2>1, <2>2
<1>8. \A a \in held' : IsArea(a) /\ (Marked(a))'
  <2>1. \A a \in held : (Marked(a))'
    BY <1>1, <1>6, Zenon DEF Marked, InOneRow, FrameSet, RowOf
  <2>2. (Marked(x))'
    BY <1>1, <1>3, <1>4, Zenon DEF Marked
  <2> QED BY <1>1, <1>4, <1>6, <2>1, <2>2, Zenon
<1>9. ASSUME NEW a \in held PROVE Apart(a, x) /\ Apart(x, a)
  <2>1. a.at \in memory_map /\ (InOneRow(a) => FrameSet(a) \subseteq memory_map)
    BY <1>6, Zenon DEF Marked
  <2>2. x.at \notin memory_map
    BY <1>4
  <2>3. InOneRow(x) => FrameSet(x) \cap memory_map = {}
    BY <1>4, <1>5, Zenon
  <2> QED BY <2>1, <2>2, <2>3, Zenon DEF Apart
<1>10. \A a, b \in held' : a # b => Apart(a, b)
  BY <1>1, <1>6, <1>9, Zenon
<1>11. AccountsInv'
  <2>1. \A a, b : Apart(a, b)' <=> Apart(a, b)
    BY DEF Apart, InOneRow, FrameSet, RowOf
  <2>2. \A a : IsArea(a)' <=> IsArea(a)
    BY DEF IsArea
  <2> QED BY <1>7, <1>8, <1>10, <2>1, <2>2, Zenon DEF AccountsInv
<1>12. x \notin held
  BY <1>4, <1>6, Zenon DEF Marked
<1>13. ASSUME area \cap memory_map = {} PROVE InStep
  <2>1. Cardinality(memory_map') = Cardinality(memory_map) + n /\ Cardinality(memory_map) \in Nat
    <3>1. memory_map \cap area = {}
      BY <1>13
    <3>2. Cardinality(memory_map \cup area) = Cardinality(memory_map) + Cardinality(area)
      BY <1>3, <1>6, <3>1, DisjointUnion, Zenon
    <3> QED BY <1>1, <1>3, <1>6, <3>2, FS_CardinalityType, Zenon
  <2> QED BY <1>1, <1>6, <2>1 DEF InStep
<1> QED BY <1>1, <1>2, <1>4, <1>11, <1>12, <1>13, Zenon DEF MemInv, area

\* A frame or an area is given back: its first bit is cleared, which no other
\* area has; the counter keeps in step when it was one frame.
LEMMA FreeKeeps ==
  ASSUME MemInv, stage = "ready", UNCHANGED <<boot_vars, stage>>,
         NEW a \in held,
         memory_map' = memory_map \ {a.at}, used_frames' = used_frames - a.n, held' = held \ {a}
  PROVE  MemInv' /\ (a.n = 1 => InStep)
<1>1. SetupInv'
  BY DEF MemInv, SetupInv, boot_vars
<1>2. /\ memory_map \in SUBSET Nat /\ IsFiniteSet(memory_map) /\ used_frames \in Int
      /\ \A b \in held : IsArea(b) /\ Marked(b)
      /\ \A b, c \in held : b # c => Apart(b, c)
  BY DEF MemInv, AccountsInv
<1>3. a.at \in memory_map /\ a.n \in Nat
  BY <1>2 DEF Marked, IsArea
<1>4. /\ IsFiniteSet(memory_map') /\ Cardinality(memory_map') = Cardinality(memory_map) - 1
      /\ Cardinality(memory_map) \in Nat
  BY <1>2, <1>3, FS_RemoveElement, FS_CardinalityType, SMTT(30)
<1>5. ASSUME NEW b \in held' PROVE (Marked(b))'
  <2>1. b \in held /\ b # a
    OBVIOUS
  <2>2. Marked(b) /\ Apart(b, a)
    BY <1>2, <2>1, Zenon
  <2>3. b.at \in memory_map /\ b.at # a.at
        /\ (InOneRow(b) => FrameSet(b) \subseteq memory_map /\ a.at \notin FrameSet(b))
    BY <2>2, Zenon DEF Marked, Apart
  <2>4. b.at \in memory_map' /\ (InOneRow(b) => FrameSet(b) \subseteq memory_map')
    BY <2>3, Zenon
  <2> QED BY <2>4, Zenon DEF Marked, InOneRow, FrameSet, RowOf
<1>6. AccountsInv'
  <2>1. \A b, c : Apart(b, c)' <=> Apart(b, c)
    BY DEF Apart, InOneRow, FrameSet, RowOf
  <2>2. \A b : IsArea(b)' <=> IsArea(b)
    BY DEF IsArea
  <2>3. used_frames' \in Int
    BY <1>2, <1>3
  <2>4. \A b \in held' : b \in held
    BY Zenon
  <2>5. memory_map' \in SUBSET Nat
    BY <1>2, Zenon
  <2> QED BY <1>2, <1>4, <1>5, <2>1, <2>2, <2>3, <2>4, <2>5, Zenon DEF AccountsInv
<1>7. a.n = 1 => InStep
  BY <1>2, <1>4 DEF InStep
<1> QED BY <1>1, <1>6, <1>7 DEF MemInv

\* One step: the invariant, what a caller is given, and the counter.
GivenFree ==
  \A a \in held' \ held : \A f \in FrameSet(a) \cap memory_map :
    RowFull(RowOf(f)) /\ RowOf(f) > RowOf(a.at)
CountedStep ==
  \/ InStep
  \/ \E a \in held' \ held : FrameSet(a) \cap memory_map # {}
  \/ \E a \in held \ held' : a.n > 1
StepRight == MemInv' /\ GivenFree /\ CountedStep

LEMMA NextMem == MemInv /\ [Next]_vars => StepRight
<1> SUFFICES ASSUME MemInv, [Next]_vars PROVE StepRight
  OBVIOUS
<1>0. bitmap_size \in Nat /\ AccountsInv /\ SetupInv
  BY DEF MemInv, SetupInv
<1>1. ASSUME MemInv', InStep, held' \subseteq held PROVE StepRight
  BY <1>1, Zenon DEF StepRight, GivenFree, CountedStep
<1>2. CASE hhdm_map_physical_memory
  <2>1. UNCHANGED <<memory_map, used_frames, held>>
    BY <1>2 DEF hhdm_map_physical_memory
  <2>2. InStep
    BY <2>1 DEF InStep
  <2> QED BY <1>1, <1>2, <2>1, <2>2, MapKeeps, Zenon
<1>3. CASE _initialize_bitmap
  <2>1. held' = held
    BY <1>3 DEF _initialize_bitmap
  <2> QED BY <1>1, <1>3, <2>1, BitmapKeeps, Zenon
<1>4. CASE _mmap_setup
  <2>1. held' = held
    BY <1>4 DEF _mmap_setup
  <2> QED BY <1>1, <1>4, <2>1, SetupKeeps, Zenon
<1>5. ASSUME stage = "ready", UNCHANGED <<boot_vars, stage>>, NEW at, NEW n \in Nat \ {0}, GiveOut(at, n),
             at # -1 => at \in Nat \ memory_map /\ Given(at, n)
      PROVE  StepRight
  <2>1. CASE at = -1
    <3>1. UNCHANGED <<memory_map, used_frames, held>>
      BY <1>5, <2>1 DEF GiveOut
    <3>2. AccountsInv' /\ InStep
      BY <1>0, <3>1, SameAccounts, Zenon DEF InStep
    <3>3. SetupInv'
      BY <1>0, <1>5, <3>1 DEF SetupInv, boot_vars
    <3> QED BY <1>1, <3>1, <3>2, <3>3, Zenon DEF MemInv
  <2>2. CASE at # -1
    <3>1. at \in Nat \ memory_map /\ Given(at, n)
      BY <1>5, <2>2, Zenon
    <3>2. MemInv' /\ (at..(at + n - 1) \cap memory_map = {} => InStep)
      BY <1>5, <3>1, GiveOutKeeps, Zenon
    <3>3. PICK x : /\ x.at = at /\ x.n = n /\ x \notin held
                   /\ held' = held \cup {x} /\ FrameSet(x) = at..(at + n - 1)
      BY <1>5, <3>1, GiveOutKeeps, Zenon
    <3>4. GivenFree
      BY <3>1, <3>3, Zenon DEF GivenFree, Given
    <3>5. CountedStep
      BY <3>2, <3>3, Zenon DEF CountedStep
    <3> QED BY <3>2, <3>4, <3>5 DEF StepRight
  <2> QED BY <2>1, <2>2
<1>6. CASE pmm_alloc_frame
  <2>1. PICK at : at = _bitmap_request_frame
    OBVIOUS
  <2>2. stage = "ready" /\ UNCHANGED <<boot_vars, stage>> /\ GiveOut(at, 1)
    BY <1>6, <2>1 DEF pmm_alloc_frame, Ready
  <2>3. ASSUME at # -1 PROVE at \in Nat \ memory_map /\ Given(at, 1)
    BY <1>0, <2>1, <2>3, FrameFound, FrameGiven, Zenon
  <2>4. 1 \in Nat \ {0}
    OBVIOUS
  <2> QED BY <1>5, <2>2, <2>3, <2>4, Zenon
<1>7. ASSUME NEW n \in AreaFrames, pmm_alloc_area(n) PROVE StepRight
  <2>1. PICK at : at = _bitmap_request_frames(n)
    OBVIOUS
  <2>2. stage = "ready" /\ UNCHANGED <<boot_vars, stage>> /\ GiveOut(at, n)
    BY <1>7, <2>1 DEF pmm_alloc_area, Ready
  <2>3. n \in Nat \ {0}
    BY PhysMemAssumption
  <2>4. at # -1 => at \in Nat \ memory_map /\ Given(at, n)
    BY <1>0, <2>1, <2>3, AreaFound, Zenon
  <2> QED BY <1>5, <2>2, <2>3, <2>4, Zenon
<1>8. ASSUME NEW a \in held, pmm_free_frame(a) \/ pmm_free_area(a) PROVE StepRight
  <2>1. /\ stage = "ready" /\ UNCHANGED <<boot_vars, stage>>
        /\ memory_map' = memory_map \ {a.at} /\ used_frames' = used_frames - a.n /\ held' = held \ {a}
    BY <1>8, SMTT(30) DEF pmm_free_frame, pmm_free_area, Ready
  <2>2. MemInv' /\ (a.n = 1 => InStep)
    BY <2>1, FreeKeeps, Zenon
  <2>3. a.n \in Nat \ {0}
    BY <1>0 DEF AccountsInv, IsArea
  <2>4. CASE a.n = 1
    BY <1>1, <2>1, <2>2, <2>4, Zenon
  <2>5. CASE a.n > 1
    <3>1. a \in held \ held'
      BY <2>1, Zenon
    <3> QED BY <2>1, <2>2, <2>5, <3>1, Zenon DEF StepRight, GivenFree, CountedStep
  <2> QED BY <2>3, <2>4, <2>5
<1>9. CASE UNCHANGED vars
  <2>1. UNCHANGED <<memory_map, used_frames, held>>
    BY <1>9 DEF vars
  <2>2. SetupInv'
    BY <1>0, <1>9 DEF vars, SetupInv
  <2>3. AccountsInv' /\ InStep
    BY <1>0, <2>1, SameAccounts, Zenon DEF InStep
  <2> QED BY <1>1, <2>1, <2>2, <2>3, Zenon DEF MemInv
<1> QED BY <1>2, <1>3, <1>4, <1>6, <1>7, <1>8, <1>9, Zenon DEF Next

LEMMA MemInvariant == Spec => []MemInv
<1>1. MemInv /\ [Next]_vars => MemInv'
  BY NextMem DEF StepRight
<1> QED BY InitMem, <1>1, PTL DEF Spec

\* What a caller is given was free, but for the frames of full rows that the
\* search for an area passes over; two frames or areas that are held never
\* overlap unless one of them reaches from one row into the next
\* (_bitmap_request_frame, _bitmap_request_frames, pmm_free_area), for every
\* board and width of a row, and any number of rows.
THEOREM AreasApart == Spec => AllocationsApart
<1> DEFINE Free == \A a \in held' \ held : \A f \in FrameSet(a) \cap memory_map :
                     RowFull(RowOf(f)) /\ RowOf(f) > RowOf(a.at)
           Held == \A a \in held : InOneRow(a) =>
                     /\ FrameSet(a) \subseteq memory_map
                     /\ \A b \in held : b # a =>
                          b.at \notin FrameSet(a) /\ (InOneRow(b) => FrameSet(a) \cap FrameSet(b) = {})
<1>1. MemInv => Held
  BY Zenon DEF MemInv, AccountsInv, Marked, Apart
<1>2. MemInv /\ [Next]_vars => [Free]_vars
  BY NextMem, Zenon DEF StepRight, GivenFree
<1>3. AllocationsApart <=> [][Free]_vars /\ []Held
  BY DEF AllocationsApart
<1> HIDE DEF Free, Held
<1> QED BY <1>1, <1>2, <1>3, MemInvariant, PTL DEF Spec

\* used_frames and the bitmap keep in step but for the two cases the property
\* names (pmm_alloc_frame, pmm_reserve_area, pmm_free_frame, pmm_free_area), for
\* every board and any number of rows.
THEOREM CounterExact == Spec => UsedFramesExact
<1> DEFINE Counted == \/ used_frames' - Cardinality(memory_map') = used_frames - Cardinality(memory_map)
                      \/ \E a \in held' \ held : FrameSet(a) \cap memory_map # {}
                      \/ \E a \in held \ held' : a.n > 1
<1>1. MemInv /\ [Next]_vars => [Counted]_vars
  BY NextMem, Zenon DEF StepRight, CountedStep, InStep
<1>2. UsedFramesExact <=> [][Counted]_vars
  BY DEF UsedFramesExact
<1> HIDE DEF Counted
<1> QED BY <1>1, <1>2, MemInvariant, PTL DEF Spec

-----------------------------------------------------------------------------
(* What the boot left in memory.                                           *)

\* Everything below the end of the bitmap has its bit among the kernel's: the
\* second frame past a partial one is there for the bitmap.
LEMMA KernelBits ==
  ASSUME NEW end \in Nat, NEW x \in Nat, x <= end + BitmapUnits - 1
  PROVE  x \div FrameUnits \in 0..(_compute_kernel_entries(end) - 1)
<1> DEFINE f == FrameUnits
           q == end \div f
           r == end % f
           k == _compute_kernel_entries(end)
<1>0. f \in Nat \ {0} /\ BitmapUnits \in 1..f
  BY PhysMemAssumption
<1>1. q \in Nat /\ r \in 0..(f - 1) /\ end = f * q + r
  BY <1>0, Division, Zenon
<1>2. k = q + (IF r # 0 THEN 2 ELSE 1)
  BY DEF _compute_kernel_entries
<1>3. x \div f \in Nat
  BY <1>0, Division
<1>4. x \div f <= k - 1
  <2> HIDE DEF f, q, r
  <2>1. CASE r # 0
    <3>1. PICK y \in Nat : y = f * (q + 1) + f - 1
      BY <1>0, <1>1
    <3>2. f * (q + 1) = f * q + f
      BY <1>0, <1>1
    <3>3. f * q \in Nat
      BY <1>0, <1>1
    <3>4. x <= y
      BY <1>0, <1>1, <3>1, <3>2, <3>3, SMTT(30)
    <3>5. x \div f <= y \div f
      BY <1>0, <3>4, DivisionMonotone, SMTT(30)
    <3>6. f * (q + 1) \in Nat /\ q + 1 \in Nat
      BY <1>1, <3>2, <3>3, <1>0, SMTT(30)
    <3>7. f * (q + 1) <= y /\ y < f * (q + 1) + f
      BY <1>0, <3>1, <3>6, SMTT(30)
    <3>8. y \div f = q + 1
      BY <1>0, <3>6, <3>7, DivisionUnique, Zenon
    <3> QED BY <1>1, <1>2, <2>1, <3>5, <3>8, SMTT(30)
  <2>2. CASE r = 0
    <3>1. PICK y \in Nat : y = f * q + f - 1
      BY <1>0, <1>1, SMTT(30)
    <3>2. f * q \in Nat
      BY <1>0, <1>1
    <3>3. x <= y
      BY <1>0, <1>1, <2>2, <3>1, <3>2, SMTT(30)
    <3>4. x \div f <= y \div f
      BY <1>0, <3>3, DivisionMonotone
    <3>5. f * q <= y /\ y < f * q + f
      BY <1>0, <3>1, <3>2, SMTT(30)
    <3>6. y \div f = q
      BY <1>0, <1>1, <3>5, DivisionUnique, SMTT(30)
    <3> QED BY <1>1, <1>2, <2>2, <3>4, <3>6, SMTT(30)
  <2> QED BY <2>1, <2>2
<1>5. k \in Nat
  BY KernelEntries
<1> HIDE DEF k
<1> QED BY <1>3, <1>4, <1>5, SMTT(30) DEF k

LEMMA KernelFrames ==
  ASSUME NEW end \in Nat, NEW x \in Nat, NEW y \in Nat, y <= end + BitmapUnits - 1
  PROVE  Frames(x, y) \subseteq 0..(_compute_kernel_entries(end) - 1)
<1>1. PICK k \in Nat : k = _compute_kernel_entries(end)
  BY KernelEntries
<1>2. y \div FrameUnits \in 0..(k - 1)
  BY <1>1, KernelBits
<1>3. x \div FrameUnits \in Nat
  BY PhysMemAssumption, Division
<1> QED BY <1>1, <1>2, <1>3 DEF Frames

\* The address of the bitmap.
LEMMA RegionFound ==
  ASSUME board \in Boards, NEW lower \in Nat, NEW needed
  PROVE  _mmap_determine_bitmap_region(lower, needed) \in Nat
<1> DEFINE fits == {i \in 1..Len(board.entries) :
                      LET e == board.entries[i]
                      IN  e.type = Available /\ End(e) >= lower /\ Room(e, lower) >= needed}
           e == board.entries[CHOOSE i \in fits : \A j \in fits : i <= j]
<1>1. _mmap_determine_bitmap_region(lower, needed) =
        IF fits = {} THEN 0 ELSE IF lower > e.addr THEN lower ELSE e.addr
  BY DEF _mmap_determine_bitmap_region
<1>2. fits \subseteq 1..Len(board.entries) /\ fits \in SUBSET Nat
  BY BoardFields
<1> HIDE DEF fits
<1>3. ASSUME fits # {} PROVE e.addr \in Nat
  <2>1. \E i \in fits : \A j \in fits : i <= j
    BY <1>2, <1>3, SmallestNat
  <2>2. (CHOOSE i \in fits : \A j \in fits : i <= j) \in fits
    BY <2>1
  <2> QED BY <1>2, <2>2, BoardFields, Zenon
<1> HIDE DEF e
<1> QED BY <1>1, <1>3

LEMMA InitKept == Init => KeptInv
BY DEF Init, KeptInv

LEMMA MapKept ==
  ASSUME MemInv, KeptInv, hhdm_map_physical_memory
  PROVE  KeptInv'
<1>1. UNCHANGED <<board, stage, bitmap_at, held>> /\ stage = "hhdm"
  BY DEF hhdm_map_physical_memory
<1>2. memory_size_in_bytes' = memory_size_in_bytes
  BY <1>1 DEF memory_size_in_bytes
<1>3. held = {}
  BY <1>1 DEF MemInv, SetupInv
<1>4. ASSUME NEW t \in tables', t < memory_size_in_bytes PROVE Spared(t)
  <2>1. CASE t \in tables
    BY <1>4, <2>1, Zenon DEF KeptInv
  <2>2. CASE t \notin tables
    BY <1>4, <2>2, TablesTaken, Zenon
  <2> QED BY <2>1, <2>2
<1>5. \A t : Spared(t)' <=> Spared(t)
  BY <1>1 DEF Spared
<1> QED BY <1>1, <1>2, <1>3, <1>4, <1>5, Zenon DEF KeptInv

LEMMA BitmapKept ==
  ASSUME MemInv, KeptInv, _initialize_bitmap
  PROVE  KeptInv'
<1>0. PICK end : end = anon_physical_memory_loc + FrameUnits
  OBVIOUS
<1>1. PICK k : k = _compute_kernel_entries(end)
  OBVIOUS
<1>2. /\ UNCHANGED <<board, anon_physical_memory_loc, tables, held>>
      /\ bitmap_at' = _mmap_determine_bitmap_region(end, BitmapUnits)
      /\ memory_map' = 0..(k - 1) /\ stage = "hhdm"
  BY <1>0, <1>1 DEF _initialize_bitmap
<1>3. /\ end \in Nat /\ board \in Boards /\ anon_physical_memory_loc \in Nat /\ BitmapUnits \in Nat \ {0}
      /\ anon_physical_memory_loc < end /\ board.kernel_end <= anon_physical_memory_loc
      /\ held = {}
  BY <1>0, <1>2, PhysMemAssumption DEF MemInv, SetupInv
<1>4. bitmap_at' \in Nat
  BY <1>2, <1>3, RegionFound, SMTT(30)
<1>5. end_of_reserved_area' = end /\ FirstFrames' = 0..(k - 1)
  <2>1. end_of_reserved_area' = end
    BY <1>0, <1>2 DEF end_of_reserved_area
  <2>2. FirstFrames' = 0..(_compute_kernel_entries(end) - 1)
    BY <2>1 DEF FirstFrames, _compute_kernel_entries
  <2> QED BY <1>1, <2>1, <2>2
<1>6. Precious' \subseteq 0..(k - 1)
  <2>1. Frames(0, board.kernel_end - 1) \subseteq 0..(k - 1)
    <3>1. board.kernel_end - 1 \in Nat /\ board.kernel_end - 1 <= end + BitmapUnits - 1
      BY <1>3, BoardFields
    <3> QED BY <1>1, <1>3, <3>1, KernelFrames, SMTT(30)
  <2>2. ASSUME NEW t \in tables PROVE t \div FrameUnits \in 0..(k - 1)
    <3>1. t \in Nat /\ t < anon_physical_memory_loc
      BY DEF MemInv, SetupInv
    <3>2. t <= end + BitmapUnits - 1
      BY <1>3, <3>1
    <3> QED BY <1>1, <1>3, <3>1, <3>2, KernelBits, SMTT(30)
  <2>3. ASSUME NEW b \in Nat, b <= end PROVE Frames(b, b + BitmapUnits - 1) \subseteq 0..(k - 1)
    <3>1. PICK u \in Nat \ {0} : u = BitmapUnits
      BY <1>3
    <3>2. b + u - 1 \in Nat /\ b + u - 1 <= end + u - 1
      <4>1. \A d \in Nat : b <= d => b + u - 1 \in Nat /\ b + u - 1 <= d + u - 1
        OBVIOUS
      <4> QED BY <1>3, <2>3, <4>1, Zenon
    <3> QED BY <1>1, <1>3, <3>1, <3>2, KernelFrames, SMTT(30)
  <2>4. ASSUME NEW m \in board.modules, m.end <= end PROVE Frames(m.start, m.end - 1) \subseteq 0..(k - 1)
    <3>1. m.start \in Nat /\ m.end - 1 \in Nat /\ m.end - 1 <= end + BitmapUnits - 1
      BY <1>3, <2>4, BoardFields, SMTT(30)
    <3> QED BY <1>1, <1>3, <3>1, KernelFrames, SMTT(30)
  <2>5. ASSUME NEW f \in Precious'
        PROVE  \/ f \in Frames(0, board.kernel_end - 1)
               \/ \E t \in tables : f = t \div FrameUnits
               \/ \E m \in board.modules : m.end <= end /\ f \in Frames(m.start, m.end - 1)
               \/ bitmap_at' <= end /\ f \in Frames(bitmap_at', bitmap_at' + BitmapUnits - 1)
    <3>1. board' = board /\ tables' = tables /\ end_of_reserved_area' = end
      BY <1>2, <1>5
    <3> QED BY <2>5, <3>1, Zenon DEF Precious, Frames
  <2>6. bitmap_at' <= end => Frames(bitmap_at', bitmap_at' + BitmapUnits - 1) \subseteq 0..(k - 1)
    <3>1. PICK b \in Nat : b = bitmap_at'
      BY <1>4
    <3> QED BY <2>3, <3>1
  <2>7. ASSUME NEW f \in Precious' PROVE f \in 0..(k - 1)
    BY <2>1, <2>2, <2>4, <2>5, <2>6, Zenon
  <2> QED BY <2>7, Zenon
<1>7. (\A t \in tables : t < memory_size_in_bytes => Spared(t))'
  BY <1>2 DEF KeptInv, Spared, memory_size_in_bytes
<1> QED BY <1>2, <1>3, <1>4, <1>5, <1>6, <1>7, Zenon DEF KeptInv

\* After that nothing moves the kernel, the tables or the bitmap, and a step
\* that takes an area from a clear bit on, or gives back one it handed out,
\* keeps the first bits set.
LEMMA LaterKept ==
  ASSUME KeptInv, stage # "hhdm",
         UNCHANGED <<board, anon_physical_memory_loc, tables, bitmap_at>>,
         \/ memory_map \subseteq memory_map' /\ held' \subseteq held
         \/ /\ memory_map \subseteq memory_map'
            /\ \E a : held' = held \cup {a} /\ a.at \notin memory_map
         \/ \E a \in held : memory_map \ {a.at} \subseteq memory_map' /\ held' \subseteq held
  PROVE  KeptInv'
<1>1. Precious' = Precious /\ FirstFrames' = FirstFrames
  BY DEF Precious, Frames, FirstFrames, end_of_reserved_area, _compute_kernel_entries
<1>2. (\A t \in tables : t < memory_size_in_bytes => Spared(t))'
  BY DEF KeptInv, Spared, memory_size_in_bytes
<1>3. /\ Precious \subseteq FirstFrames /\ FirstFrames \subseteq memory_map /\ bitmap_at' \in Nat
      /\ \A a \in held : a.at \notin FirstFrames
  BY DEF KeptInv
<1>4. FirstFrames \subseteq memory_map' /\ \A a \in held' : a.at \notin FirstFrames
  BY <1>3, Zenon
<1> QED BY <1>1, <1>2, <1>3, <1>4, Zenon DEF KeptInv

LEMMA NextKept == MemInv /\ KeptInv /\ [Next]_vars => KeptInv'
<1> SUFFICES ASSUME MemInv, KeptInv, [Next]_vars PROVE KeptInv'
  OBVIOUS
<1>0. /\ bitmap_size \in Nat /\ board \in Boards
      /\ memory_map \in SUBSET Nat /\ IsFiniteSet(memory_map)
  BY DEF MemInv, SetupInv, AccountsInv
<1>1. CASE hhdm_map_physical_memory
  BY <1>1, MapKept
<1>2. CASE _initialize_bitmap
  BY <1>2, BitmapKept
<1>3. CASE _mmap_setup
  <2> DEFINE more == memory_map \cup pmm_reserve_area(memory_map, 0, BitmapUnits)
  <2>1. /\ stage # "hhdm" /\ memory_map' = ReserveAll(more)
        /\ UNCHANGED <<board, anon_physical_memory_loc, tables, bitmap_at, held>>
    BY <1>3 DEF _mmap_setup
  <2>2. memory_map \subseteq memory_map'
    <3>1. /\ pmm_reserve_area(memory_map, 0, BitmapUnits) \in SUBSET Nat
          /\ IsFiniteSet(pmm_reserve_area(memory_map, 0, BitmapUnits))
      BY AreaReserved, PhysMemAssumption
    <3>2. more \in SUBSET Nat /\ IsFiniteSet(more) /\ memory_map \subseteq more
      BY <1>0, <3>1, FS_Union, Zenon
    <3> HIDE DEF more
    <3> QED BY <1>0, <2>1, <3>2, MapReserved, SMTT(30)
  <2> QED BY <2>1, <2>2, LaterKept, Zenon
<1>4. ASSUME stage = "ready", UNCHANGED <<boot_vars, stage>>, NEW at, NEW n, GiveOut(at, n),
             at # -1 => at \notin memory_map
      PROVE  KeptInv'
  <2>1. stage # "hhdm" /\ UNCHANGED <<board, anon_physical_memory_loc, tables, bitmap_at>>
    BY <1>4 DEF boot_vars
  <2>2. CASE at = -1
    <3>1. memory_map' = memory_map /\ held' = held
      BY <1>4, <2>2 DEF GiveOut
    <3> QED BY <2>1, <3>1, LaterKept, Zenon
  <2>3. CASE at # -1
    <3>1. PICK a : a = [at |-> at, n |-> n]
      BY Zenon
    <3>2. a.at \notin memory_map
      BY <1>4, <2>3, <3>1
    <3>3. memory_map \subseteq memory_map' /\ held' = held \cup {a}
      BY <1>4, <2>3, <3>1, SMTT(30) DEF GiveOut
    <3> QED BY <2>1, <3>2, <3>3, LaterKept, Zenon
  <2> QED BY <2>2, <2>3
<1>5. CASE pmm_alloc_frame
  <2>1. PICK at : at = _bitmap_request_frame
    OBVIOUS
  <2>2. stage = "ready" /\ UNCHANGED <<boot_vars, stage>> /\ GiveOut(at, 1)
    BY <1>5, <2>1 DEF pmm_alloc_frame, Ready
  <2>3. at # -1 => at \notin memory_map
    BY <1>0, <2>1, FrameFound, Zenon
  <2> QED BY <1>4, <2>2, <2>3, Zenon
<1>6. ASSUME NEW n \in AreaFrames, pmm_alloc_area(n) PROVE KeptInv'
  <2>1. PICK at : at = _bitmap_request_frames(n)
    OBVIOUS
  <2>2. stage = "ready" /\ UNCHANGED <<boot_vars, stage>> /\ GiveOut(at, n)
    BY <1>6, <2>1 DEF pmm_alloc_area, Ready
  <2>3. n \in Nat \ {0}
    BY PhysMemAssumption
  <2>4. at # -1 => at \notin memory_map
    BY <1>0, <2>1, <2>3, AreaFound, Zenon
  <2> QED BY <1>4, <2>2, <2>4, Zenon
<1>7. ASSUME NEW a \in held, pmm_free_frame(a) \/ pmm_free_area(a) PROVE KeptInv'
  <2>1. /\ stage # "hhdm" /\ UNCHANGED <<board, anon_physical_memory_loc, tables, bitmap_at>>
        /\ memory_map' = memory_map \ {a.at} /\ held' = held \ {a}
    BY <1>7 DEF pmm_free_frame, pmm_free_area, Ready, boot_vars
  <2>2. memory_map \ {a.at} \subseteq memory_map' /\ held' \subseteq held
    BY <2>1, Zenon
  <2> QED BY <2>1, <2>2, LaterKept, Zenon
<1>8. CASE UNCHANGED vars
  <2>1. Precious' = Precious /\ FirstFrames' = FirstFrames
    BY <1>8 DEF vars, Precious, Frames, FirstFrames, end_of_reserved_area, _compute_kernel_entries
  <2>2. (\A t \in tables : t < memory_size_in_bytes => Spared(t))'
    BY <1>8 DEF vars, KeptInv, Spared, memory_size_in_bytes
  <2>3. UNCHANGED <<bitmap_at, stage, memory_map, held>>
    BY <1>8 DEF vars
  <2> QED BY <2>1, <2>2, <2>3, Zenon DEF KeptInv
<1> QED BY <1>1, <1>2, <1>3, <1>5, <1>6, <1>7, <1>8, Zenon DEF Next

\* The early page tables keep off the kernel and, below the first hole, off the
\* modules and the multiboot information; and what the boot left below the end
\* of the reserved area, the bitmap included when it lies there, stays marked
\* and is never given to a caller (pmm_prepare_new_pagetable,
\* _compute_kernel_entries, pmm_reserve_area), for every board and any number
\* of rows.
THEOREM BootMemorySurvives == Spec => []BootMemoryKept
<1>1. MemInv /\ KeptInv => BootMemoryKept
  <2> SUFFICES ASSUME MemInv, KeptInv PROVE BootMemoryKept
    OBVIOUS
  <2>1. \A t \in tables : t >= board.kernel_end /\ (t < memory_size_in_bytes => Spared(t))
    <3>1. \A t \in tables : t \in Nat /\ board.kernel_end <= t /\ board.kernel_end \in Nat
      BY BoardFields DEF MemInv, SetupInv
    <3>2. \A t \in tables : t < memory_size_in_bytes => Spared(t)
      BY DEF KeptInv
    <3> QED BY <3>1, <3>2
  <2>2. stage = "hhdm" => held = {}
    BY DEF MemInv, SetupInv
  <2>3. stage # "hhdm" => Precious \subseteq FirstFrames /\ FirstFrames \subseteq memory_map
    BY DEF KeptInv
  <2>4. ASSUME NEW a \in held PROVE FrameSet(a) \cap Precious = {}
    <3>1. Precious \subseteq FirstFrames
      BY <2>2, <2>3, <2>4, Zenon
    <3>2. a.at \in Nat /\ a.n \in Nat /\ a.at \notin FirstFrames
      BY DEF MemInv, AccountsInv, IsArea, KeptInv
    <3>3. PICK k \in Nat : FirstFrames = 0..(k - 1)
      <4>1. end_of_reserved_area \in Nat
        BY PhysMemAssumption DEF MemInv, SetupInv, end_of_reserved_area
      <4>2. _compute_kernel_entries(end_of_reserved_area) \in Nat
        BY <4>1, KernelEntries
      <4> QED BY <4>2 DEF FirstFrames
    <3>4. \A f \in FrameSet(a) : f \notin FirstFrames
      BY <3>2, <3>3 DEF FrameSet
    <3> QED BY <3>1, <3>4, Zenon
  <2>5. stage # "hhdm" => Precious \subseteq memory_map
    BY <2>3, Zenon
  <2> QED BY <2>1, <2>4, <2>5, Zenon DEF BootMemoryKept, Spared
<1> QED BY <1>1, MemInvariant, InitKept, NextKept, PTL DEF Spec
=============================================================================
