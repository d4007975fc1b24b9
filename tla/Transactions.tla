------------------------------ MODULE Transactions -----------------------------
(****************************************************************************)
(* What SQL promises of one connection's transactions.  A statement happens   *)
(* as a whole or not at all; a savepoint brings back the database as it was   *)
(* when the savepoint was set, and stays; releasing the outermost one that     *)
(* began the transaction commits; only a consistent database is committed;    *)
(* and an error that cannot be contained brings back the committed database.  *)
(****************************************************************************)
EXTENDS Integers, Sequences

CONSTANTS
    Rows,            \* rows the database may have
    Names,           \* names of savepoints
    Consistent(_)    \* no foreign key is violated in a set of rows

VARIABLES
    committed,  \* the database that other connections see
    current,    \* the database with the changes of the transaction
    begun,      \* BEGIN started the transaction
    stack,      \* the savepoints: their names and databases, oldest first
    outcome     \* of the last statement

transVars == <<committed, current, begun, stack, outcome>>

InTransaction == begun \/ stack # << >>

\* Position of the newest savepoint of that name, 0 if there is none.
Newest(name) ==
    IF \E i \in DOMAIN stack : stack[i].name = name
    THEN CHOOSE i \in DOMAIN stack :
            /\ stack[i].name = name
            /\ \A j \in i + 1 .. Len(stack) : stack[j].name # name
    ELSE 0

TransInit ==
    /\ committed = {}
    /\ current = {}
    /\ begun = FALSE
    /\ stack = << >>
    /\ outcome = "OK"

\* The transaction ends with the committed database d.
End(d) == committed' = d /\ current' = d /\ begun' = FALSE /\ stack' = << >>

Refuse ==
    /\ outcome' \in {"ERROR", "FK"}
    /\ UNCHANGED <<committed, current, begun, stack>>

Begin ==
    /\ ~InTransaction
    /\ begun' = TRUE
    /\ outcome' = "OK"
    /\ UNCHANGED <<committed, current, stack>>

Commit ==
    /\ InTransaction
    /\ Consistent(current)
    /\ End(current)
    /\ outcome' = "OK"

\* On request, or after an error that cannot be contained.
Rollback == End(committed) /\ outcome' \in {"OK", "ROLLBACK"}

Savepoint(name) ==
    /\ stack' = Append(stack, [name |-> name, rows |-> current])
    /\ outcome' = "OK"
    /\ UNCHANGED <<committed, current, begun>>

Release(name) ==
    LET i == Newest(name) IN
    /\ i # 0
    /\ IF i = 1 /\ ~begun THEN Consistent(current) /\ End(current)
       ELSE /\ stack' = SubSeq(stack, 1, i - 1)
            /\ UNCHANGED <<committed, current, begun>>
    /\ outcome' = "OK"

RollbackTo(name) ==
    LET i == Newest(name) IN
    /\ i # 0
    /\ current' = stack[i].rows
    /\ stack' = SubSeq(stack, 1, i)
    /\ outcome' = "OK"
    /\ UNCHANGED <<committed, begun>>

\* A statement that changes the rows, or stops half-way and keeps what it did
\* (OR FAIL).  Outside a transaction it commits.
Change(rows) ==
    /\ current' = rows
    /\ InTransaction \/ Consistent(rows)
    /\ committed' = IF InTransaction THEN committed ELSE rows
    /\ outcome' \in {"OK", "FAIL"}
    /\ UNCHANGED <<begun, stack>>

\* A statement that is undone, the transaction goes on.
Abort ==
    /\ outcome' = "ABORT"
    /\ UNCHANGED <<committed, current, begun, stack>>

TransNext ==
    \/ Refuse \/ Begin \/ Commit \/ Rollback \/ Abort
    \/ \E n \in Names : Savepoint(n) \/ Release(n) \/ RollbackTo(n)
    \/ \E rows \in SUBSET Rows : Change(rows)

TransSpec == TransInit /\ [][TransNext]_transVars

================================================================================
