--------------------------------- MODULE MCVfs ---------------------------------
(* Vfs on small instances. *)
EXTENDS Vfs

MCPages == 0 .. 1
MCData == 0 .. 1

\* To watch a journal grow, its contents do not matter.
MCOnePage == 0 .. 0
MCOneData == 0 .. 0

================================================================================
