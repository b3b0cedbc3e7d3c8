----------------------------- MODULE MCPhysMem -----------------------------
(* Instances of PhysMem.  Frames of two units, and rows of three bits of     *)
(* which two make a full row, so that the bitmap has five rows and a full   *)
(* one can lie between two others.  The boards are small copies of the maps *)
(* QEMU and a PC report: low memory with a reserved end, memory above it,   *)
(* and reserved memory in between or at the top.                            *)
EXTENDS PhysMem

Entry(addr, len, type) == [addr |-> addr, len |-> len, type |-> type]
Module(start, end) == [start |-> start, end |-> end]
Board(entries, mem_upper, mb_start, mb_end, modules) ==
  [entries |-> entries, mem_upper |-> mem_upper, kernel_end |-> 3,
   mb_start |-> mb_start, mb_end |-> mb_end, modules |-> modules]

\* One stretch of memory; a small module just above the kernel, and the
\* multiboot information where the page tables would go.
Plain == Board(<<Entry(0, 1, 1), Entry(1, 1, 2), Entry(2, 25, 1)>>,
               27, 7, 8, {Module(3, 4)})
\* A module that reaches past the start of the memory for the page tables.
Large == Board(<<Entry(0, 1, 1), Entry(1, 1, 2), Entry(2, 24, 1), Entry(26, 2, 2)>>,
               26, 1, 2, {Module(3, 7)})
\* Two stretches of memory with a reserved hole between them.
Hole == Board(<<Entry(0, 18, 1), Entry(18, 3, 2), Entry(21, 7, 1)>>,
              18, 1, 2, {})

\* The memory below the hole is used up by the page tables: the bitmap goes
\* above the hole, and the last page table into it.
Tight == Board(<<Entry(0, 8, 1), Entry(8, 5, 2), Entry(13, 15, 1)>>,
               8, 1, 2, {Module(14, 16)})

MCBoards == {Plain, Large, Hole, Tight}
=============================================================================
