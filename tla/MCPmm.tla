------------------------------- MODULE MCPmm -------------------------------
(* Instances of Pmm: rows of four bits, a full row constant with three     *)
(* bits, frames 0 and 1 reserved at boot.                                  *)
EXTENDS Pmm

MCBootUsed == {0, 1}
=============================================================================
