----------------------------- MODULE PageTables -----------------------------
(***************************************************************************)
(* The page tables of the 2 MB build (kernel/arch/x86_64/mem/vmm_mapping.c *)
(* and system/vm.c): three levels, PML4, PDPR and PD, whose last entries   *)
(* are pages.                                                              *)
(*                                                                         *)
(* The operators take and return a memory m: m.tab maps the frames that    *)
(* are page tables to their contents, m.free is the next frame the         *)
(* physical memory manager hands out (PhysMem and Pmm say which).  The     *)
(* code reaches tables through the direct map (map_phys_to_virt_addr_hh)   *)
(* or through entry 510 of the loaded root (map_phys_to_virt_addr): here   *)
(* both are m.tab of the frame.  A virtual page is a number; PML4_ENTRY,   *)
(* PDPR_ENTRY and PD_ENTRY take its digits.                                *)
(*                                                                         *)
(* The functions that unmap have no caller and are left out, so nothing    *)
(* that the processor remembers of a translation ever becomes wrong.       *)
(*                                                                         *)
(* An operator whose name starts with mut_ is a wrong version of the one   *)
(* that follows it and is used by no definition.                           *)
(***************************************************************************)
EXTENDS Integers, TLC

CONSTANTS TableSize,   \* VM_PAGES_PER_TABLE
          Half,        \* the first PML4 entry of the higher half, 256
          Recursive,   \* the PML4 entry that holds the root itself, 510
          KernelSlot,  \* the PML4 entry of the kernel image, 511
          KernelRoot   \* the frame of p4_table

ASSUME PageTablesAssumption ==
  /\ TableSize \in Nat \ {0, 1}
  /\ Half \in 1..Recursive /\ Recursive < KernelSlot
  /\ KernelSlot = TableSize - 1
  /\ KernelRoot \in Nat

Slots == 0..(TableSize - 1)
Pages == 0..(TableSize * TableSize * TableSize - 1)

PML4_ENTRY(page) == page \div (TableSize * TableSize)
PDPR_ENTRY(page) == (page \div TableSize) % TableSize
PD_ENTRY(page)   == page % TableSize

\* An entry: PRESENT_BIT, VMM_FLAGS_USER_LEVEL, WRITE_BIT and the address.
Entry(to, user, write) == [present |-> TRUE, user |-> user, write |-> write, to |-> to]
NoEntry == [present |-> FALSE, user |-> FALSE, write |-> FALSE, to |-> 0]
clean_new_table == [s \in Slots |-> NoEntry]

mut_half_is_user(page) == PML4_ENTRY(page) > Half
is_address_higher_half(page) == PML4_ENTRY(page) >= Half

-----------------------------------------------------------------------------
\* pmm_prepare_new_pagetable once the memory manager is up: a frame.
pmm_alloc_frame(m) == [m EXCEPT !.free = @ + 1]

\* The table below entry e of table t, created when the entry is absent.
WithTable(m, t, e, user) ==
  IF m.tab[t][e].present THEN m
  ELSE [pmm_alloc_frame(m) EXCEPT
          !.tab = (m.free :> clean_new_table)
                  @@ [m.tab EXCEPT ![t][e] = Entry(m.free, user, TRUE)]]

\* The memory in which the path to the PD entry of page exists.
WithPath(m, root, page) ==
  LET user == ~is_address_higher_half(page)
      m1   == WithTable(m, root, PML4_ENTRY(page), user)
  IN  WithTable(m1, m1.tab[root][PML4_ENTRY(page)].to, PDPR_ENTRY(page), user)

PdOf(m, root, page) ==
  m.tab[m.tab[root][PML4_ENTRY(page)].to][PDPR_ENTRY(page)].to

\* A page whose entry is present keeps it: the function returns NULL.
mut_map_overwrites(m, root, page, frame, user, write) ==
  LET m2 == WithPath(m, root, page)
      pd == PdOf(m2, root, page)
  IN  [m2 EXCEPT !.tab[pd][PD_ENTRY(page)] =
         Entry(frame, user \/ ~is_address_higher_half(page), write)]
map_phys_to_virt_addr_hh(m, root, page, frame, user, write) ==
  LET m2 == WithPath(m, root, page)
      pd == PdOf(m2, root, page)
  IN  IF m2.tab[pd][PD_ENTRY(page)].present THEN m2
      ELSE [m2 EXCEPT !.tab[pd][PD_ENTRY(page)] =
              Entry(frame, user \/ ~is_address_higher_half(page), write)]

\* The same in the loaded address space, which is the kernel's: it is only
\* used before the first switch.
map_phys_to_virt_addr(m, page, frame) ==
  map_phys_to_virt_addr_hh(m, KernelRoot, page, frame, FALSE, TRUE)

\* vm_walk_table: how many levels are present, and the page's entry.
vm_walk_table(m, root, page) ==
  LET e4 == m.tab[root][PML4_ENTRY(page)]
      e3 == m.tab[e4.to][PDPR_ENTRY(page)]
      e2 == m.tab[e3.to][PD_ENTRY(page)]
  IN  CASE ~e4.present -> [level |-> 0, completed |-> FALSE, pte |-> NoEntry]
        [] e4.present /\ ~e3.present -> [level |-> 1, completed |-> FALSE, pte |-> NoEntry]
        [] e4.present /\ e3.present  ->
             [level |-> 2, completed |-> e2.present,
              pte |-> IF e2.present THEN e2 ELSE NoEntry]

\* What the processor allows user code: the user bit at every level.
UserAccess(m, root, page) ==
  /\ vm_walk_table(m, root, page).completed
  /\ m.tab[root][PML4_ENTRY(page)].user
  /\ m.tab[m.tab[root][PML4_ENTRY(page)].to][PDPR_ENTRY(page)].user
  /\ vm_walk_table(m, root, page).pte.user

is_phyisical_address_mapped(m, frame, page) ==
  LET w == vm_walk_table(m, KernelRoot, page)
  IN  IF ~w.completed THEN "NOT_MAPPED"
      ELSE IF w.pte.to = frame THEN "MAPPED" ELSE "MISMATCH"

\* The tables boot.s leaves: the root with itself and the kernel image, and
\* the two tables below it; the identity map is gone.
BootTables ==
  LET p3_table_hh == KernelRoot + 1
      p2_table    == KernelRoot + 2
  IN  (KernelRoot :> [clean_new_table EXCEPT
         ![Recursive] = Entry(KernelRoot, FALSE, TRUE),
         ![KernelSlot] = Entry(p3_table_hh, FALSE, TRUE)])
      @@ (p3_table_hh :> [clean_new_table EXCEPT
         ![TableSize - 2] = Entry(p2_table, FALSE, TRUE)])
      @@ (p2_table :> [s \in Slots |-> Entry(s, FALSE, TRUE)])
=============================================================================
