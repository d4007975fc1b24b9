-------------------------------- MODULE MCVmem ---------------------------------
(* Vmem on a small instance: one page content besides the zeros. *)
EXTENDS Vmem

MCData == 0 .. 1

\* The key stream turns zeros into something else, and back.
MCAESCtr == [d \in MCData |-> 1 - d]

MCXXH64 == [d \in MCData |-> d + 1]

================================================================================
