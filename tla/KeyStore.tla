------------------------------- MODULE KeyStore -------------------------------
(****************************************************************************)
(* What a b-tree of src/Enclave/sqlite/btree.c promises: an ordered set of    *)
(* keys, and cursors that stand on a key or between two keys and keep their   *)
(* place, whatever is inserted or deleted around them.  Module Btree          *)
(* implements it with pages.                                                  *)
(*                                                                            *)
(* A place is a number: 2 * k is the key k, 2 * k + 1 lies between k and the  *)
(* next key, END is past the last key or before the first one.                *)
(****************************************************************************)
EXTENDS Integers, FiniteSetsExt

CONSTANTS Keys, Cursors

END == -1

VARIABLES
    keys,  \* the keys in the table
    pos    \* the place of each cursor
keyVars == <<keys, pos>>

Places == 1 .. 2 * Max(Keys) + 1

Before(p) == {k \in keys : 2 * k < p}
After(p) == {k \in keys : 2 * k > p}

\* Places with the same neighbours, where no key stands.
SameGap(p, q) ==
    /\ \A k \in keys : 2 * k \notin {p, q}
    /\ After(p) = After(q)

\* A cursor whose key is gone stands anywhere between that key's neighbours,
\* and has left a table that is empty.
Near(p) ==
    IF p = END THEN {p}
    ELSE {p} \cup {q \in Places : SameGap(p, q)} \cup (IF keys = {} THEN {END} ELSE {})

KeyStoreInit ==
    /\ keys = {}
    /\ pos = [c \in Cursors |-> END]

\* After a write its cursor stands at its key, or nowhere.
Insert(c, k) ==
    /\ keys' = keys \cup {k}
    /\ \E p \in {2 * k, END} : pos' = [pos EXCEPT ![c] = p]

Delete(c, k) ==
    /\ pos[c] = 2 * k
    /\ keys' = keys \ {k}
    /\ \E p \in Places \cup {END} :
          /\ p = END \/ p \in Near(pos[c])'
          /\ pos' = [pos EXCEPT ![c] = p]

ClearTable == keys' = {} /\ UNCHANGED pos

Forth(p) == IF After(p) = {} THEN END ELSE 2 * Min(After(p))
Back(p) == IF Before(p) = {} THEN END ELSE 2 * Max(Before(p))

Goto(c, p) == pos' = [pos EXCEPT ![c] = p] /\ UNCHANGED keys

First(c) == Goto(c, Forth(0))
LastKey(c) == Goto(c, Back(2 * Max(Keys) + 2))
Next(c) == Goto(c, IF pos[c] = END THEN END ELSE Forth(pos[c]))
Previous(c) == Goto(c, IF pos[c] = END THEN END ELSE Back(pos[c]))

\* A search finds the key, or stops at one of its neighbours.
Moveto(c, k) ==
    \/ k \in keys /\ Goto(c, 2 * k)
    \/ k \notin keys /\ keys # {} /\ \E p \in {Forth(2 * k), Back(2 * k)} \ {END} : Goto(c, p)
    \/ keys = {} /\ Goto(c, END)

\* Coming back to a place where the key is gone.
Restore(c) == \E p \in Near(pos[c]) : Goto(c, p)

KeyStoreNext ==
    \/ ClearTable
    \/ \E c \in Cursors :
          \/ First(c) \/ LastKey(c) \/ Next(c) \/ Previous(c) \/ Restore(c)
          \/ \E k \in Keys : Insert(c, k) \/ Delete(c, k) \/ Moveto(c, k)

KeyStoreSpec == KeyStoreInit /\ [][KeyStoreNext]_keyVars

================================================================================
