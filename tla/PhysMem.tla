------------------------------ MODULE PhysMem ------------------------------
(***************************************************************************)
(* How the physical memory manager is brought up (kernel/mem/pmm.c,        *)
(* bitmap.c, mmap.c, hh_direct_map.c) and what it then hands out: the      *)
(* memory map is parsed, the direct map is built with page tables taken    *)
(* from the memory above the kernel, the bitmap is placed and filled, the  *)
(* unusable entries of the memory map are reserved, and frames and areas   *)
(* are allocated and freed by one caller at a time (Pmm has the            *)
(* concurrent callers).                                                    *)
(*                                                                         *)
(* Addresses are in units of PAGE_DIR_SIZE, the size of a page table; a    *)
(* frame is FrameUnits of them.  memory_map is the set of the bits that    *)
(* are 1.  A board is what the boot loader reports: the memory map, sorted *)
(* as GRUB sorts it, the multiboot information and the loaded modules.     *)
(*                                                                         *)
(* An operator whose name starts with mut_ is a wrong version of the one   *)
(* that follows it and is used by no definition.                           *)
(***************************************************************************)
EXTENDS Integers, FiniteSets, Sequences, SequencesExt

CONSTANTS Boards,        \* the machines the kernel may be booted on
          FrameUnits,    \* PAGE_SIZE_IN_BYTES / PAGE_DIR_SIZE
          PointerScale,  \* sizeof(uint64_t), the step of &_kernel_physical_end + n
          TableEntries,  \* VM_PAGES_PER_TABLE
          HhdmEntry,     \* PD_ENTRY(higherHalfDirectMapBase)
          RowBits,       \* BITMAP_ROW_BITS
          FullBits,      \* number of ones in BITMAP_ENTRY_FULL
          BitmapUnits,   \* what bitmap_size / 8 + 1 bytes take
          AreaFrames     \* sizes, in frames, of the areas asked for

ASSUME PhysMemAssumption ==
  /\ FrameUnits \in Nat \ {0} /\ PointerScale \in Nat \ {0}
  /\ TableEntries \in Nat \ {0} /\ HhdmEntry \in 0..(TableEntries - 1)
  /\ RowBits \in Nat \ {0} /\ FullBits \in 1..RowBits
  /\ BitmapUnits \in 1..FrameUnits
  /\ AreaFrames \subseteq Nat \ {0}

\* What a boot loader reports.
ASSUME BoardAssumption ==
  \A b \in Boards :
    /\ b.entries \in Seq([addr : Nat, len : Nat, type : Nat])
    /\ b.mem_upper \in Nat /\ b.kernel_end \in Nat \ {0}
    /\ b.mb_start \in Nat /\ b.mb_end \in Nat
    /\ b.modules \subseteq [start : Nat, end : Nat \ {0}]

VARIABLES board,          \* the machine
          stage,          \* how far pmm_setup has come
          anon_physical_memory_loc,
          tables,         \* the page tables taken before the bitmap exists
          mapped,         \* pages of the direct map that have been mapped
          bitmap_size, bitmap_at, memory_map, used_frames,
          count_physical_reserved,
          held,           \* the areas handed out: [at |-> frame, n |-> frames]
          halted          \* a wild write ended in hlt

boot_vars == <<board, anon_physical_memory_loc, tables, mapped, bitmap_size,
               bitmap_at, count_physical_reserved>>
vars == <<board, stage, anon_physical_memory_loc, tables, mapped, bitmap_size,
          bitmap_at, memory_map, used_frames, count_physical_reserved, held, halted>>

Available == 1   \* _MMAP_AVAILABLE

-----------------------------------------------------------------------------
(* mmap.c and hh_direct_map.c                                              *)

FramesOf(units) == (units + FrameUnits - 1) \div FrameUnits
align_up(a) == FramesOf(a) * FrameUnits
End(e) == e.addr + e.len

\* _mmap_phys_memory_avail and _mmap_last_available_item, as _mmap_parse
\* leaves them.
_mmap_phys_memory_avail ==
  LET sum[i \in 0..Len(board.entries)] ==
        IF i = 0 THEN 0
        ELSE sum[i - 1] + (IF board.entries[i].type = Available THEN board.entries[i].len ELSE 0)
  IN  sum[Len(board.entries)]
upper_address_to_map ==
  End(Last(SelectSeq(board.entries, LAMBDA e : e.type = Available)))

\* memory_size_in_bytes: the end of the memory below the first hole.
memory_size_in_bytes == board.mem_upper

\* In a module, its end included.
_is_address_in_multiboot(a) == \E m \in board.modules : m.start <= a /\ a <= m.end

\* Tests the end of every entry and the start of none.
_mmap_is_address_in_available_space(a) ==
  /\ ~(a + 1 > board.mb_start /\ a < board.mb_end)
  /\ \E i \in 1..Len(board.entries) :
       board.entries[i].type = Available /\ End(board.entries[i]) > a + 1
  /\ ~_is_address_in_multiboot(a)

\* The entry the bitmap goes to: the first available one with enough room
\* above the lower limit; 0 when there is none.
Room(e, lower) == e.len - (IF lower > e.addr THEN lower - e.addr ELSE 0)
_mmap_determine_bitmap_region(lower, needed) ==
  LET fits == {i \in 1..Len(board.entries) :
                 LET e == board.entries[i]
                 IN  /\ e.type = Available
                     /\ End(e) >= lower
                     /\ Room(e, lower) >= needed}
  IN  IF fits = {} THEN 0
      ELSE LET e == board.entries[CHOOSE i \in fits : \A j \in fits : i <= j]
           IN  IF lower > e.addr THEN lower ELSE e.addr

\* pmm_prepare_new_pagetable before pmm_initialized: the address of the next
\* page table when the search starts at a.
EarlyTable(a) ==
  CHOOSE t \in a..(a + memory_size_in_bytes + 1) :
    /\ _mmap_is_address_in_available_space(t) \/ t >= memory_size_in_bytes
    /\ \A u \in a..(t - 1) : /\ ~_mmap_is_address_in_available_space(u)
                             /\ u < memory_size_in_bytes

-----------------------------------------------------------------------------
(* bitmap.c                                                                *)

number_of_entries == bitmap_size \div RowBits + 1
Bits == 0..(number_of_entries * RowBits - 1)
RowOf(b) == b \div RowBits
RowFull(r) == {b \in memory_map : RowOf(b) = r} =
                {b \in Bits : RowOf(b) = r /\ b % RowBits < FullBits}
Scanned == {b \in Bits : ~RowFull(RowOf(b))}

mut_kernel_entries_short(end) == end \div FrameUnits
_compute_kernel_entries(end) ==
  end \div FrameUnits + (IF end % FrameUnits # 0 THEN 2 ELSE 1)

_bitmap_request_frame ==
  LET clear == Scanned \ memory_map
  IN  IF clear = {} THEN -1 ELSE CHOOSE b \in clear : \A c \in clear : b <= c

\* The scan counts clear bits; a used bit resets the count, a skipped row does
\* not.  start is the first bit of the run being counted.
mut_request_frames_keeps_count(n) ==
  LET clear == Scanned \ memory_map
      nth == {b \in clear : Cardinality({c \in clear : c <= b}) = n}
  IN  IF nth = {} THEN -1 ELSE CHOOSE s \in clear : \A c \in clear : s <= c
_bitmap_request_frames(n) ==
  LET scanned == Scanned
      RunFrom(s, b) == {c \in scanned : s <= c /\ c <= b}
      Run(s, b) == RunFrom(s, b) \cap memory_map = {} /\ Cardinality(RunFrom(s, b)) = n
      ends  == {b \in scanned : \E s \in scanned : Run(s, b)}
      first == CHOOSE b \in ends : \A c \in ends : b <= c
  IN  IF ends = {} THEN -1 ELSE CHOOSE s \in scanned : Run(s, first)

\* The bits pmm_reserve_area sets: location only advances past a bit that was
\* clear, so a bit that is already set stops it.
pmm_reserve_area(used, at, len) ==
  LET loc == at \div FrameUnits
  IN  {b \in loc..(loc + FramesOf(len) - 1) : loc..b \cap used = {}}

-----------------------------------------------------------------------------
Init ==
  /\ board \in Boards
  /\ stage = "hhdm"
  /\ anon_physical_memory_loc = align_up(board.kernel_end + PointerScale * FrameUnits)
  /\ tables = {} /\ mapped = 0
  /\ bitmap_size = 0 /\ bitmap_at = 0 /\ memory_map = {} /\ used_frames = 0
  /\ count_physical_reserved = 0
  /\ held = {} /\ halted = FALSE

\* The page tables map_phys_to_virt_addr creates for page `mapped` of the
\* direct map: a PDPR for the first page, a PD whenever the last is full.
NewTables ==
  (IF mapped = 0 THEN 1 ELSE 0)
  + (IF mapped = 0 \/ (HhdmEntry + mapped) % TableEntries = 0 THEN 1 ELSE 0)

hhdm_map_physical_memory ==
  /\ stage = "hhdm"
  /\ mapped * FrameUnits < upper_address_to_map
  /\ LET first  == EarlyTable(anon_physical_memory_loc)
         second == EarlyTable(first + 1)
         fresh  == CASE NewTables = 0 -> {}
                     [] NewTables = 1 -> {first}
                     [] NewTables = 2 -> {first, second}
     IN  /\ tables' = tables \cup fresh
         /\ anon_physical_memory_loc' =
              (IF fresh = {} THEN anon_physical_memory_loc
               ELSE 1 + (CHOOSE t \in fresh : \A u \in fresh : u <= t))
  /\ mapped' = mapped + 1
  /\ UNCHANGED <<board, stage, bitmap_size, bitmap_at, memory_map, used_frames,
                 count_physical_reserved, held, halted>>

_initialize_bitmap ==
  LET end == anon_physical_memory_loc + FrameUnits
      kernel_entries == _compute_kernel_entries(end)
  IN  /\ stage = "hhdm"
      /\ mapped * FrameUnits >= upper_address_to_map
      /\ bitmap_size' = _mmap_phys_memory_avail \div FrameUnits + 1
      /\ bitmap_at' = _mmap_determine_bitmap_region(end, BitmapUnits)
      /\ memory_map' = 0..(kernel_entries - 1)
      /\ used_frames' = kernel_entries
      /\ stage' = "reserve"
      /\ UNCHANGED <<board, anon_physical_memory_loc, tables, mapped,
                     count_physical_reserved, held, halted>>

\* The rest of pmm_setup.  The address _bitmap_get_region returns is the global
\* memory_map_phys_addr, which stays 0: _initialize_bitmap stores the address
\* in a local variable of the same name.
Unusable(e) == e.addr < upper_address_to_map /\ e.type > Available
ReserveAll(used) ==
  LET after[i \in 0..Len(board.entries)] ==
        IF i = 0 THEN used
        ELSE LET e == board.entries[i]
             IN  after[i - 1] \cup (IF Unusable(e) THEN pmm_reserve_area(after[i - 1], e.addr, e.len) ELSE {})
  IN  after[Len(board.entries)]
_mmap_setup ==
  /\ stage = "reserve"
  /\ memory_map' = ReserveAll(memory_map \cup pmm_reserve_area(memory_map, 0, BitmapUnits))
  /\ used_frames' = used_frames + Cardinality(memory_map' \ memory_map)
  /\ count_physical_reserved' = Len(SelectSeq(board.entries, Unusable))
  /\ stage' = "ready"
  /\ UNCHANGED <<board, anon_physical_memory_loc, tables, mapped, bitmap_size,
                 bitmap_at, held, halted>>

-----------------------------------------------------------------------------
(* pmm.c after boot                                                        *)

Ready == stage = "ready" /\ ~halted /\ UNCHANGED <<boot_vars, stage>>

pmm_check_frame_availability == used_frames < bitmap_size

\* A failed request is -1: the bit of that number lies at a non-canonical
\* address.
GiveOut(at, n) ==
  IF at = -1
  THEN halted' = TRUE /\ UNCHANGED <<memory_map, used_frames, held>>
  ELSE /\ memory_map' = memory_map \cup at..(at + n - 1)
       /\ used_frames' = used_frames + n
       /\ held' = held \cup {[at |-> at, n |-> n]}
       /\ UNCHANGED halted

mut_alloc_not_counted ==
  /\ Ready /\ pmm_check_frame_availability
  /\ _bitmap_request_frame # -1
  /\ memory_map' = memory_map \cup {_bitmap_request_frame}
  /\ held' = held \cup {[at |-> _bitmap_request_frame, n |-> 1]}
  /\ UNCHANGED <<used_frames, halted>>
pmm_alloc_frame ==
  /\ Ready
  /\ pmm_check_frame_availability
  /\ GiveOut(_bitmap_request_frame, 1)

pmm_alloc_area(n) ==
  /\ Ready
  /\ pmm_check_frame_availability
  /\ GiveOut(_bitmap_request_frames(n), n)

pmm_free_frame(a) ==
  /\ Ready
  /\ a \in held /\ a.n = 1
  /\ memory_map' = memory_map \ {a.at}
  /\ used_frames' = used_frames - 1
  /\ held' = held \ {a}
  /\ UNCHANGED halted

\* An area that starts in one of the first count_physical_reserved entries of
\* the memory map is not freed.
Kept(unit) ==
  \E i \in 1..count_physical_reserved :
    board.entries[i].addr <= unit /\ unit < End(board.entries[i])

\* The loop clears the same bit once per frame: of an area of several frames
\* only the first is freed, and all are subtracted.
pmm_free_area(a) ==
  /\ Ready
  /\ a \in held
  /\ ~Kept(a.at * FrameUnits)
  /\ memory_map' = memory_map \ {a.at}
  /\ used_frames' = used_frames - a.n
  /\ held' = held \ {a}
  /\ UNCHANGED halted

Next ==
  \/ hhdm_map_physical_memory \/ _initialize_bitmap \/ _mmap_setup
  \/ pmm_alloc_frame
  \/ \E n \in AreaFrames : pmm_alloc_area(n)
  \/ \E a \in held : pmm_free_frame(a) \/ pmm_free_area(a)

Spec == Init /\ [][Next]_vars

-----------------------------------------------------------------------------
(* Properties                                                              *)

FrameSet(a) == a.at..(a.at + a.n - 1)
Frames(first, last) == (first \div FrameUnits)..(last \div FrameUnits)
InOneRow(a) == RowOf(a.at) = RowOf(a.at + a.n - 1)

\* What must survive the boot: the kernel image, the early page tables, the
\* modules below the end of the reserved area, and the bitmap when it lies
\* there too.  Nothing reserves a module further up, nor a bitmap that found no
\* room right above the page tables: _bitmap_get_region returns 0 for it.
end_of_reserved_area == anon_physical_memory_loc + FrameUnits
Precious ==
  Frames(0, board.kernel_end - 1)
  \cup {t \div FrameUnits : t \in tables}
  \cup (IF bitmap_at <= end_of_reserved_area THEN Frames(bitmap_at, bitmap_at + BitmapUnits - 1) ELSE {})
  \cup UNION {Frames(m.start, m.end - 1) : m \in {m \in board.modules : m.end <= end_of_reserved_area}}

\* The page tables of the direct map never overwrite the kernel and, as long as
\* the memory below the first hole lasts, neither a module nor the multiboot
\* information; and once _initialize_bitmap has run, what the boot left below
\* the end of the reserved area stays marked in the bitmap and is never given
\* to a caller, although the bitmap reserves itself at address 0
\* (pmm_prepare_new_pagetable, _compute_kernel_entries, bitmap.c:43).
BootMemoryKept ==
  /\ \A t \in tables :
       /\ t >= board.kernel_end
       /\ t < memory_size_in_bytes =>
            /\ ~(board.mb_start <= t /\ t < board.mb_end)
            /\ \A m \in board.modules : ~(m.start <= t /\ t < m.end)
  /\ stage # "hhdm" => Precious \subseteq memory_map
  /\ \A a \in held : FrameSet(a) \cap Precious = {}

\* What a caller is given was free: every frame of it was clear in the bitmap,
\* but for those of a row that equals BITMAP_ENTRY_FULL, which the search for
\* an area passes over in the middle of a run (bitmap.c:117).  So two frames or
\* areas that are held never overlap, and all of their bits stay set, unless
\* one of them reaches from one row of the bitmap into the next.
AllocationsApart ==
  /\ [][\A a \in held' \ held : \A f \in FrameSet(a) \cap memory_map :
          RowFull(RowOf(f)) /\ RowOf(f) > RowOf(a.at)]_vars
  /\ [](\A a \in held : InOneRow(a) =>
          /\ FrameSet(a) \subseteq memory_map
          /\ \A b \in held : b # a =>
               b.at \notin FrameSet(a) /\ (InOneRow(b) => FrameSet(a) \cap FrameSet(b) = {}))

\* The availability test of pmm_alloc_frame reads used_frames instead of the
\* bitmap.  With one caller at a time the two keep in step through the boot,
\* every allocation and every release, and only two things part them: an area
\* given out over frames in use (bitmap.c:117), and the release of an area of
\* several frames, which clears the first (pmm_free_area).
UsedFramesExact ==
  [][\/ used_frames' - Cardinality(memory_map') = used_frames - Cardinality(memory_map)
     \/ \E a \in held' \ held : FrameSet(a) \cap memory_map # {}
     \/ \E a \in held \ held' : a.n > 1]_vars
=============================================================================
