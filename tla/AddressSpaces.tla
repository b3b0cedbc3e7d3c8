---------------------------- MODULE AddressSpaces ----------------------------
(***************************************************************************)
(* The virtual memory managers and the address spaces of the tasks         *)
(* (kernel/mem/vmm.c, kernel/scheduling/task.c, thread.c, loaders/elf.c,   *)
(* userpsace/test_userspace.c), on the page tables of PageTables.          *)
(*                                                                         *)
(* kernel_start creates the kernel's VMM, maps devices, takes the first    *)
(* page of the heap, tries vmm_alloc and vmm_free, then creates the idle   *)
(* task and a user task; the heap may grow whenever kmalloc is called.     *)
(* Tasks are created with interrupts off, so a creation is one step.       *)
(*                                                                         *)
(* A VmmContainer is reached through the address space that is loaded, the *)
(* kernel's, in which its page stays mapped: m.cont holds the containers   *)
(* by page.                                                                *)
(*                                                                         *)
(* An operator whose name starts with mut_ is a wrong version of the one   *)
(* that follows it and is used by no definition.                           *)
(***************************************************************************)
EXTENDS PageTables, FiniteSets, Sequences, SequencesExt

CONSTANTS DataStart,   \* vmmDataStart, in pages
          SpaceStart,  \* the supervisor's start_of_vmm_space, in pages
          UserStart,   \* VM_KERNEL_MEMORY_PADDING, in pages
          Items,       \* vmm_items_per_page
          PageUnits,   \* units per page in which an ELF states addresses
          Devices,     \* frames of memory mapped devices
          Images,      \* the ELF images that may be loaded: lists of segments
          MaxGrow      \* bound: how often the heap grows

ASSUME AddressSpacesAssumption ==
  /\ DataStart \in Pages /\ SpaceStart \in Pages /\ UserStart \in Pages \ {0}
  /\ PML4_ENTRY(DataStart) \in Half..(Recursive - 1)
  /\ PML4_ENTRY(SpaceStart) \in Half..(Recursive - 1)
  /\ Items \in Nat \ {0} /\ PageUnits \in Nat \ {0} /\ MaxGrow \in Nat

VARIABLES mem,         \* page tables, containers and the next free frame
          vmm_kernel,  \* the kernel's VmmInfo, NoVmm before vmm_init
          tasks,       \* the tasks in the order of their creation
          given,       \* the allocations made: [root, page, n]
          stacks,      \* of those, the stacks of threads
          stage,       \* how far kernel_start has come
          grown,       \* how often the heap has grown
          halted       \* a fault ended in hlt

vars == <<mem, vmm_kernel, tasks, given, stacks, stage, grown, halted>>

NoVmm == [root |-> 0, next_available |-> 0, cur_index |-> 0, containers |-> 0, cur |-> 0]

align_value_to_page(units) == (units + PageUnits - 1) \div PageUnits
ensure_address_in_higher_half(page) ==
  LET offset == Half * TableSize * TableSize
  IN  IF page > offset + UserStart THEN page ELSE page + offset + UserStart

-----------------------------------------------------------------------------
(* vmm.c                                                                   *)

EmptyContainer == [items |-> [i \in 0..(Items - 1) |-> 0], available |-> 0, next |-> 0]
Container(m, page) == IF page \in DOMAIN m.cont THEN m.cont[page] ELSE EmptyContainer
Store(m, page, c) == [m EXCEPT !.cont = (page :> c) @@ @]

\* A fresh frame for every page of the list; one whose address is already
\* mapped is dropped.
MapFresh(m, root, pages) ==
  FoldLeft(LAMBDA a, p : map_phys_to_virt_addr_hh(pmm_alloc_frame(a), root, p, a.free, FALSE, TRUE),
           m, pages)

\* The first container is mapped in the space of the new VMM and written
\* through the loaded space; its items stay as they are.
vmm_init(m, root, supervisor) ==
  [m |-> [MapFresh(m, root, <<DataStart>>) EXCEPT
            !.cont = (DataStart :> [Container(m, DataStart) EXCEPT !.next = 0, !.available = Items]) @@ @],
   v |-> [root |-> root, next_available |-> IF supervisor THEN SpaceStart ELSE UserStart,
          cur_index |-> 0, containers |-> 1, cur |-> DataStart]]

\* A full container first gets a successor two pages above it.
vmm_alloc_at(m, v, base, n, address_only) ==
  LET full == v.cur_index >= Items
      cur  == IF full THEN v.cur + 2 ELSE v.cur
      idx  == IF full THEN 0 ELSE v.cur_index
      page == IF base > v.next_available THEN base ELSE v.next_available
      old  == [Container(m, cur) EXCEPT !.next = 0, !.available = Items]
      item == [IF full THEN old ELSE Container(m, cur) EXCEPT !.items[idx] = page, !.available = @ - 1]
      link == IF full THEN v.cur :> [Container(m, v.cur) EXCEPT !.next = cur] ELSE <<>>
      fresh == (IF full THEN <<cur>> ELSE <<>>)
               \o (IF address_only THEN <<>> ELSE [k \in 1..n |-> page + k - 1])
  IN  [m |-> [MapFresh(m, v.root, fresh) EXCEPT !.cont = (cur :> item) @@ link @@ @],
       v |-> [v EXCEPT !.next_available = page + n, !.cur = cur, !.cur_index = idx + 1,
                       !.containers = IF full THEN @ + 1 ELSE @],
       page |-> page]
vmm_alloc(m, v, n) == vmm_alloc_at(m, v, 0, n, FALSE)

\* The containers whose first item lies below the address; a read of the
\* container that is not there, or of its successor, faults.
vmm_free(m, v, page, is_stack) ==
  LET chain[k \in 0..v.containers] ==
        IF k = 0 THEN DataStart
        ELSE IF chain[k - 1] = 0 THEN 0 ELSE Container(m, chain[k - 1]).next
      Passed(k) == /\ chain[k] # 0
                   /\ LET b == Container(m, chain[k]).items[0]
                      IN  b < page \/ (is_stack /\ b = page)
      passed == {k \in 0..v.containers : \A j \in 0..k : Passed(j)}
      last   == Cardinality(passed) - 1
      found  == \E i \in 0..(Items - 1) : Container(m, chain[last]).items[i] = page
      m1     == IF ~found THEN m
                ELSE Store(m, v.cur, [Container(m, v.cur) EXCEPT !.available = @ + 1])
      empty  == Container(m1, v.cur).available = Items
      selected == chain[last + 1]
  IN  IF passed = {} \/ (empty /\ v.containers > 1 /\ selected = 0)
      THEN [m |-> m, v |-> v, fault |-> TRUE]
      ELSE [m |-> IF empty /\ v.containers > 1
                  THEN Store(m1, chain[last],
                             [Container(m1, chain[last]) EXCEPT !.next = Container(m1, selected).next])
                  ELSE m1,
            v |-> IF ~empty THEN v
                  ELSE IF v.containers = 1 THEN [v EXCEPT !.cur_index = 0]
                  ELSE [v EXCEPT !.containers = @ - 1],
            fault |-> FALSE]

-----------------------------------------------------------------------------
(* task.c, thread.c and elf.c                                              *)

\* The lower half of the new root is cleared, its higher half is the kernel's,
\* and the recursive entry is its own.
mut_prepare_misses_first_slot(m, root) ==
  [m EXCEPT !.tab[root] =
     [i \in Slots |-> IF i <= Half THEN NoEntry
                      ELSE IF i = Recursive THEN Entry(root, FALSE, TRUE)
                      ELSE m.tab[KernelRoot][i]]]
prepare_virtual_memory_environment(m, root) ==
  [m EXCEPT !.tab[root] =
     [i \in Slots |-> IF i < Half THEN NoEntry
                      ELSE IF i = Recursive THEN Entry(root, FALSE, TRUE)
                      ELSE m.tab[KernelRoot][i]]]

\* What memory holds that nobody has written: zeros, as the emulator leaves
\* it.  create_task does not clear the new root.
FreshFrame == [s \in Slots |-> NoEntry]
create_task(m, supervisor) ==
  LET root == m.free
      m1   == [pmm_alloc_frame(m) EXCEPT !.tab = (root :> FreshFrame) @@ m.tab]
      r    == vmm_init(m1, root, supervisor)
  IN  [m |-> prepare_virtual_memory_environment(r.m, root), v |-> r.v]

\* elf_flags_to_memory_flags keeps bit 1 of the segment's flags.
elf_flags_to_memory_flags(flags) == (flags \div 2) % 2 = 1

\* One round for each page of the segment's size.  The address in the image and
\* the virtual one advance by p_align, which may be less or more than a page.
\* What lies on a page of the image is mapped in place; anything else gets an
\* area of its own, of which the first frame is used.
MapSegment(m, root, s) ==
  LET n     == align_value_to_page(s.memsz)
      write == elf_flags_to_memory_flags(s.flags)
      f[k \in 0..n] ==
        IF k = 0 THEN m
        ELSE LET p       == f[k - 1]
                 offset  == s.offset + (k - 1) * s.align
                 page    == (align_value_to_page(s.vaddr) * PageUnits + (k - 1) * s.align) \div PageUnits
                 inPlace == offset % PageUnits = 0
             IN  map_phys_to_virt_addr_hh(IF inPlace THEN p ELSE [p EXCEPT !.free = @ + n], root, page,
                                          IF inPlace THEN offset \div PageUnits ELSE p.free, TRUE, write)
  IN  f[n]
LoadElf(m, root, image) ==
  FoldLeft(LAMBDA a, s : MapSegment(a, root, s), m, image)

\* kmalloc calls expand_heap, or not, while a thread is created.
Grow(m, kv, n) ==
  IF n = 0 THEN [m |-> m, v |-> kv, page |-> 0] ELSE vmm_alloc(m, kv, n)

Given(root, page, n) == IF n = 0 THEN {} ELSE {[root |-> root, page |-> page, n |-> n]}

-----------------------------------------------------------------------------
Init ==
  /\ mem = [tab |-> BootTables, cont |-> <<>>, free |-> KernelRoot + 3]
  /\ vmm_kernel = NoVmm
  /\ tasks = <<>> /\ given = {} /\ stacks = {}
  /\ stage = "vmm_init" /\ grown = 0 /\ halted = FALSE

At(s, next) == stage = s /\ stage' = next /\ ~halted

KernelVmmInit ==
  /\ At("vmm_init", "kheap")
  /\ LET r == vmm_init(mem, KernelRoot, TRUE)
     IN  mem' = r.m /\ vmm_kernel' = r.v
  /\ UNCHANGED <<tasks, given, stacks, grown, halted>>

\* map_framebuffer, the ACPI tables and the interrupt controllers; init_ioapic
\* looks first whether its registers are mapped.
MapDevice(d) ==
  /\ stage \in {"kheap", "test"}
  /\ LET page == ensure_address_in_higher_half(d)
     IN  mem' = IF is_phyisical_address_mapped(mem, d, page) = "NOT_MAPPED"
                THEN map_phys_to_virt_addr(mem, page, d) ELSE mem
  /\ UNCHANGED <<vmm_kernel, tasks, given, stacks, stage, grown, halted>>

KernelAlloc(n) ==
  \E r \in {vmm_alloc(mem, vmm_kernel, n)} :
    /\ mem' = r.m /\ vmm_kernel' = r.v
    /\ given' = given \cup Given(KernelRoot, r.page, n)
    /\ UNCHANGED <<tasks, stacks, halted>>

initialize_kheap == At("kheap", "test") /\ KernelAlloc(1) /\ UNCHANGED grown

expand_heap(n) ==
  /\ given # {} /\ grown < MaxGrow /\ ~halted
  /\ grown' = grown + 1
  /\ KernelAlloc(n) /\ UNCHANGED stage

\* vmm_alloc and vmm_free as kernel_start tries them; what is freed stays
\* mapped.
TryVmm ==
  /\ At("test", "idle")
  /\ \E a \in {vmm_alloc(mem, vmm_kernel, 1)} :
       \E f \in {vmm_free(a.m, a.v, a.page, FALSE)} :
         mem' = f.m /\ vmm_kernel' = f.v /\ halted' = f.fault
  /\ UNCHANGED <<tasks, given, stacks, grown>>

\* create_thread: the kernel stack may make the heap grow, then the stack of
\* the thread is allocated in the VMM of the task.
AddTask(m, kv, tv, kind, grow, more) ==
  \E g \in {Grow(m, kv, grow)} : \E s \in {vmm_alloc(g.m, tv, 1)} :
    LET own == [root |-> tv.root, page |-> s.page, n |-> 1]
    IN  /\ mem' = s.m /\ vmm_kernel' = g.v
        /\ tasks' = Append(tasks, [vmm |-> s.v, kind |-> kind])
        /\ given' = given \cup more \cup Given(KernelRoot, g.page, grow) \cup {own}
        /\ stacks' = stacks \cup {own}
        /\ grown' = grown + grow
        /\ UNCHANGED halted

\* create_task_from_func("idle", idle, &a, true)
CreateIdle(grow) ==
  /\ At("idle", "user") /\ grown + grow <= MaxGrow
  /\ \E t \in {create_task(mem, TRUE)} :
       AddTask(t.m, vmm_kernel, t.v, "idle", grow, {})

\* One task of each kind.
First(kind) == \A i \in 1..Len(tasks) : tasks[i].kind # kind

\* create_task_from_elf
CreateElf(image, grow) ==
  /\ At("user", "user") /\ First("elf") /\ grown + grow <= MaxGrow
  /\ \E t \in {create_task(mem, FALSE)} : \E m \in {LoadElf(t.m, t.v.root, image)} :
       AddTask(m, vmm_kernel, t.v, "elf", grow, {})

\* create_task_from_func for a user task, which kernel_start keeps beside the
\* ELF task.  prepare_userspace_function puts one frame at a kernel address and
\* at a user address, both taken without memory from their VMMs.
prepare_userspace_function(t, grow) ==
  \E k \in {vmm_alloc_at(pmm_alloc_frame(t.m), vmm_kernel, 0, 1, TRUE)} :
  \E m1 \in {map_phys_to_virt_addr_hh(k.m, KernelRoot, k.page, t.m.free, FALSE, TRUE)} :
  \E u \in {vmm_alloc_at(m1, t.v, 0, 1, TRUE)} :
  \E m2 \in {map_phys_to_virt_addr_hh(u.m, t.v.root, u.page, t.m.free, TRUE, TRUE)} :
    AddTask(m2, k.v, u.v, "func", grow,
            Given(KernelRoot, k.page, 1) \cup Given(t.v.root, u.page, 1))
CreateUser(grow) ==
  /\ At("user", "user") /\ First("func") /\ grown + grow <= MaxGrow
  /\ \E t \in {create_task(mem, FALSE)} : prepare_userspace_function(t, grow)

Next ==
  \/ KernelVmmInit
  \/ \E d \in Devices : MapDevice(d)
  \/ initialize_kheap
  \/ \E n \in 1..2 : expand_heap(n)
  \/ TryVmm
  \/ \E grow \in 0..1 : CreateIdle(grow) \/ CreateUser(grow)
  \/ \E grow \in 0..1, image \in Images : CreateElf(image, grow)

Spec == Init /\ [][Next]_vars

-----------------------------------------------------------------------------
(* Properties                                                              *)

Roots == {KernelRoot} \cup {tasks[i].vmm.root : i \in 1..Len(tasks)}
UserTasks == {i \in 1..Len(tasks) : tasks[i].kind # "idle"}
Walk(root, page) == vm_walk_table(mem, root, page)
UserPages(root) == {p \in Pages : UserAccess(mem, root, p)}
UserFrames(root) == {Walk(root, p).pte.to : p \in UserPages(root)}

\* What the kernel keeps for itself: page tables, containers and the memory it
\* allocated, the code page it shares with a user task on purpose aside.
KernelFrames ==
  DOMAIN mem.tab \cup {Walk(KernelRoot, p).pte.to : p \in DOMAIN mem.cont}
  \cup {Walk(KernelRoot, g.page).pte.to :
          g \in {g \in given : g.root = KernelRoot /\ ~\E h \in given :
                   h.root # KernelRoot /\ h \notin stacks
                   /\ Walk(h.root, h.page).pte.to = Walk(KernelRoot, g.page).pte.to}}

\* The other allocations that lead to the frame of a stack.
Sharing(s) ==
  {g \in given \ {s} : \E k \in 0..(g.n - 1) :
     Walk(g.root, g.page + k).pte.to = Walk(s.root, s.page).pte.to}

\* Every task keeps seeing the kernel half as the kernel does, also after the
\* heap has grown: new tables only ever appear below PML4 entries the roots
\* share (prepare_virtual_memory_environment copies the entries once).  And in
\* the space it was made for every page of every allocation is backed by a
\* frame, as is every container in the loaded one (vmm_alloc_at).  The stack of
\* a user task shares its frame with nothing that was allocated.  That of idle
\* is the first page of the kernel's heap: the VMM of a supervisor task starts
\* where the kernel's does, in tables they share, and the mapping of the stack
\* is dropped.
KernelHalfShared ==
  /\ \A i \in 1..Len(tasks) : \A s \in Half..(TableSize - 1) :
       LET root == tasks[i].vmm.root
       IN  mem.tab[root][s] = IF s = Recursive THEN Entry(root, FALSE, TRUE)
                              ELSE mem.tab[KernelRoot][s]
  /\ \A g \in given : \A k \in 0..(g.n - 1) : Walk(g.root, g.page + k).completed
  /\ \A p \in DOMAIN mem.cont : Walk(KernelRoot, p).completed
  /\ \A s \in stacks :
       IF \E i \in UserTasks : tasks[i].vmm.root = s.root
       THEN Sharing(s) = {}
       ELSE Sharing(s) = {[root |-> KernelRoot, page |-> SpaceStart, n |-> 1]}

\* User code reaches nothing in the kernel half, no frame the kernel uses for
\* itself, and no frame of another task; the kernel itself and a supervisor
\* task have no user pages (user_mode_status in map_phys_to_virt_addr_hh).
UserMemoryApart ==
  /\ \A root \in Roots : \A p \in UserPages(root) : PML4_ENTRY(p) < Half
  /\ \A i \in UserTasks :
       /\ UserFrames(tasks[i].vmm.root) \cap KernelFrames = {}
       /\ \A j \in UserTasks \ {i} :
            UserFrames(tasks[i].vmm.root) \cap UserFrames(tasks[j].vmm.root) = {}
  /\ \A root \in Roots \ {tasks[i].vmm.root : i \in UserTasks} : UserPages(root) = {}

\* Creating a task, mapping a device or growing the heap never changes where
\* a page that is mapped already leads, in any address space
\* (map_phys_to_virt_addr_hh leaves a present entry alone).
TranslationsStable ==
  [][\A root \in Roots, p \in Pages :
       Walk(root, p).completed =>
         vm_walk_table(mem', root, p) = Walk(root, p)]_vars
=============================================================================
