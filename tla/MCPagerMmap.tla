----------------------------- MODULE MCPagerMmap ------------------------------
(* PagerMmap on a small instance. *)
EXTENDS PagerMmap, TLC

MCData == 0 .. 1
MCAESCtr == [d \in MCData |-> 1 - d]
MCXXH64 == [d \in MCData |-> d + 1]
Symmetry == Permutations(Handles)

================================================================================
