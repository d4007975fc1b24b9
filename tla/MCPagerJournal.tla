----------------------------- MODULE MCPagerJournal -----------------------------
(* PagerJournal on small instances. *)
EXTENDS PagerJournal

CONSTANTS z, a

MCData == {z, a}

\* Three pages without savepoints, and two with nested ones.
MCThreePages == [pages |-> 3, journal |-> 4, savepoints |-> 0, sub |-> 0]
MCSavepoints == [pages |-> 2, journal |-> 4, savepoints |-> 2, sub |-> 2]

MCBounds == {MCThreePages, MCSavepoints}
MCHoleBounds == {MCThreePages}

================================================================================
