----------------------------- MODULE MCSysRead ------------------------------
(* An instance of SysRead for model checking: one key, reads of one        *)
(* character, threads that sleep for the shortest time.                    *)
EXTENDS SysRead

MCKeys   == {[ext |-> FALSE, code |-> 30]}
MCLegend == [k \in MCKeys |-> [plain |-> 97, shifted |-> 65, modifier |-> {}]]
=============================================================================
