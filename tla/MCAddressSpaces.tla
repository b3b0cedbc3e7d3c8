-------------------------- MODULE MCAddressSpaces --------------------------
(* Instances of AddressSpaces: tables of five entries (one for users, two   *)
(* for the kernel's data, the recursive one and the kernel image), three    *)
(* items per container, images of one to three segments linked from page 2  *)
(* on, in place or copied, with an alignment of a page, half a page, two.   *)
EXTENDS AddressSpaces

Segment(vaddr, memsz, flags, offset, align) ==
  [vaddr |-> vaddr, memsz |-> memsz, flags |-> flags, offset |-> offset, align |-> align]

MCImages == {<<Segment(4, 2, 5, 120, 2)>>,
             <<Segment(4, 1, 5, 121, 2), Segment(6, 3, 6, 123, 2)>>,
             <<Segment(4, 4, 5, 120, 1), Segment(8, 1, 6, 123, 2), Segment(0, 0, 6, 0, 1)>>,
             <<Segment(4, 3, 6, 120, 4), Segment(6, 1, 5, 125, 1)>>}
=============================================================================
