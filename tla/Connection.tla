------------------------------- MODULE Connection ------------------------------
(****************************************************************************)
(* The transactions of one connection: SAVEPOINT, RELEASE, ROLLBACK TO,       *)
(* BEGIN, COMMIT and ROLLBACK (vdbe.c), what the end of a statement does       *)
(* (sqlite3VdbeHalt) and the foreign keys it checks (fkey.c), over the         *)
(* savepoints of the pager, which are numbered and opened when first needed.  *)
(* A writing statement runs row by row and nothing runs in between: SQLite     *)
(* finishes it in one call.  SELECTs stay open while other statements run.     *)
(* One database file; savepoints count from 0, as they do in the code.        *)
(****************************************************************************)
EXTENDS Integers, Sequences, FiniteSets

CONSTANTS
    Readers,        \* SELECT statements
    Names,          \* names of savepoints
    Parents,        \* rows that others refer to
    Immediate,      \* rows with a reference that is checked at the end of the
    Deferred,       \*   statement, or of the transaction
    Parent,         \* what each of these refers to
    MaxSavepoints,  \* bound on the savepoints set at a time
    MaxRows,        \* bound on the rows a statement changes
    FailOnViolation \* OR FAIL may stop a statement with a reference unresolved

VARIABLES
    conn,       \* the counters of the sqlite3 structure
    pSavepoint, \* its list of savepoints, oldest first
    pager,      \* the database, as the B-tree and the pager hold it
    vdbe,       \* the writing statement that runs, if one does
    reading,    \* the SELECTs that are open
    result      \* the outcome of the last statement

connVars == <<conn, pSavepoint, pager, vdbe, reading, result>>

Children == Immediate \cup Deferred
Rows == Parents \cup Children

ASSUME RowsAssumption ==
    /\ IsFiniteSet(Children)
    /\ Parents \cap Children = {} /\ Immediate \cap Deferred = {}
    /\ Parent \in [Children -> Parents]

ASSUME LimitsAssumption == MaxSavepoints \in Nat /\ MaxRows \in Nat

\* The rows of a kind whose parent is missing.
Violations(rows, kind) == {c \in rows \cap kind : Parent[c] \notin rows}
Consistent(rows) == Violations(rows, Children) = {}

Idle == [runs |-> FALSE]

ConnInit ==
    /\ conn = [autoCommit |-> TRUE, isTransactionSavepoint |-> FALSE,
             nSavepoint |-> 0, nStatement |-> 0, nDeferredCons |-> 0]
    /\ pSavepoint = << >>
    /\ pager = [inTrans |-> "NONE", committed |-> {}, rows |-> {}, saves |-> << >>]
    /\ vdbe = Idle
    /\ reading = {}
    /\ result = "OK"

--------------------------------------------------------------------------------
(* The B-tree and the pager: each operator is what a call makes of them. *)

\* sqlite3PagerOpenSavepoint: n of them are open afterwards.
OpenSavepoint(pg, n) ==
    [pg EXCEPT !.saves = @ \o [i \in 1 .. n - Len(@) |-> pg.rows]]

\* sqlite3BtreeSavepoint.
BtreeRelease(pg, i) ==
    IF pg.inTrans = "WRITE" /\ i < Len(pg.saves)
    THEN [pg EXCEPT !.saves = SubSeq(@, 1, i)] ELSE pg

BtreeRollbackTo(pg, i) ==
    IF pg.inTrans = "WRITE" /\ i < Len(pg.saves)
    THEN [pg EXCEPT !.rows = IF i = -1 THEN pg.committed ELSE pg.saves[i + 1],
                    !.saves = SubSeq(@, 1, i + 1)]
    ELSE pg

\* btreeEndTransaction: other statements may still be reading.
EndTransaction(pg, others) ==
    [pg EXCEPT !.inTrans = IF @ # "NONE" /\ others # {} THEN "READ" ELSE "NONE",
               !.saves = << >>]

BtreeCommit(pg, others) == EndTransaction([pg EXCEPT !.committed = pg.rows], others)
BtreeRollback(pg, others) == EndTransaction([pg EXCEPT !.rows = pg.committed], others)

\* sqlite3RollbackAll, for the counter it resets, and sqlite3CloseSavepoints.
RollbackAll(d) == [d EXCEPT !.nDeferredCons = 0]

\* A plausible mistake: the mark of a savepoint that began a transaction stays.
MarkKept(d) == [d EXCEPT !.nSavepoint = 0, !.nStatement = 0]

CloseSavepoints(d) ==
    [d EXCEPT !.nSavepoint = 0, !.nStatement = 0, !.isTransactionSavepoint = FALSE]

Cleared(d) == [CloseSavepoints(RollbackAll(d)) EXCEPT !.autoCommit = TRUE]

\* The whole transaction is given up, others being the statements still open.
GiveUp(others) ==
    /\ conn' = Cleared(conn)
    /\ pSavepoint' = << >>
    /\ pager' = BtreeRollback(pager, others)
    /\ result' = "ROLLBACK"

\* vdbeCommit, which fails only with something to write.  d is conn afterwards.
CommitOrGiveUp(d, others) ==
    \/ /\ conn' = [d EXCEPT !.nDeferredCons = 0]
       /\ pSavepoint' = << >>
       /\ pager' = BtreeCommit(pager, others)
       /\ result' = "OK"
    \/ pager.inTrans = "WRITE" /\ GiveUp(others)

--------------------------------------------------------------------------------
(* A writing statement. *)

\* OP_Transaction.  A statement that may fail after it has changed rows has a
\* journal of its own if there is something else to be kept.
NeedsStatement(journal) == journal /\ (~conn.autoCommit \/ reading # {})

NewVdbe(journal, iStatement, err) ==
    [runs |-> TRUE, usesStmtJournal |-> journal, iStatement |-> iStatement,
     nStmtDefCons |-> conn.nDeferredCons, nFkConstraint |-> 0,
     err |-> err, changed |-> 0, before |-> pager.rows]

OpTransaction(journal) ==
    LET iStatement == IF NeedsStatement(journal) THEN conn.nSavepoint + conn.nStatement + 1 ELSE 0
        started == [pager EXCEPT !.inTrans = "WRITE"]
        needed == IF iStatement = 0 THEN conn.nSavepoint ELSE iStatement
        counted == [conn EXCEPT !.nStatement = @ + 1]
    IN
    /\ ~vdbe.runs
    /\ \/ /\ pager' = OpenSavepoint(started, needed)
          /\ vdbe' = NewVdbe(journal, iStatement, "OK")
          /\ conn' = IF iStatement = 0 THEN conn ELSE counted
       \/ \* Memory runs out before the last savepoint is open.
          \E n \in Len(pager.saves) .. needed - 1 :
             /\ pager' = OpenSavepoint(started, n)
             /\ IF n < conn.nSavepoint
                THEN vdbe' = NewVdbe(journal, 0, "NOMEM") /\ conn' = conn
                ELSE vdbe' = NewVdbe(journal, iStatement, "NOMEM") /\ conn' = counted
    /\ UNCHANGED <<pSavepoint, reading, result>>

\* Children in the table that refer to p.
ChildrenOf(p, kind) == {c \in pager.rows \cap kind : Parent[c] = p}

\* OP_FkIfZero and OP_FkCounter: what resolving violations makes of a counter.
Resolved(counter, solved) == IF counter = 0 THEN 0 ELSE counter - Cardinality(solved)

\* sqlite3FkCheck of a new row r, and of a row that goes, with the counter of
\* one kind of reference.
AfterInsert(counter, r, kind) ==
    IF r \in Parents THEN Resolved(counter, ChildrenOf(r, kind))
    ELSE counter + Cardinality(Violations(pager.rows \cup {r}, kind \cap {r}))

AfterDelete(counter, r, kind) ==
    IF r \in Parents THEN counter + Cardinality(ChildrenOf(r, kind))
    ELSE Resolved(counter, Violations(pager.rows, kind \cap {r}))

ChangeRow(r, rows, deferred, immediate) ==
    /\ vdbe.runs /\ vdbe.err = "OK" /\ vdbe.changed < MaxRows
    \* What may leave a reference unresolved has a statement journal.
    /\ vdbe.usesStmtJournal \/ immediate = 0
    /\ pager' = [pager EXCEPT !.rows = rows]
    /\ conn' = [conn EXCEPT !.nDeferredCons = deferred]
    /\ vdbe' = [vdbe EXCEPT !.nFkConstraint = immediate, !.changed = @ + 1]
    /\ UNCHANGED <<pSavepoint, reading, result>>

InsertRow(r) ==
    /\ r \notin pager.rows
    /\ ChangeRow(r, pager.rows \cup {r}, AfterInsert(conn.nDeferredCons, r, Deferred),
                 AfterInsert(vdbe.nFkConstraint, r, Immediate))

DeleteRow(r) ==
    /\ r \in pager.rows
    /\ ChangeRow(r, pager.rows \ {r}, AfterDelete(conn.nDeferredCons, r, Deferred),
                 AfterDelete(vdbe.nFkConstraint, r, Immediate))

\* sqlite3VdbeCloseStatement.
HasStatement == conn.nStatement > 0 /\ vdbe.iStatement > 0

ReleaseStatement ==
    IF HasStatement
    THEN /\ pager' = BtreeRelease(pager, vdbe.iStatement - 1)
         /\ conn' = [conn EXCEPT !.nStatement = @ - 1]
    ELSE UNCHANGED <<pager, conn>>

RollbackStatement ==
    IF HasStatement
    THEN LET i == vdbe.iStatement - 1 IN
         /\ pager' = BtreeRelease(BtreeRollbackTo(pager, i), i)
         /\ conn' = [conn EXCEPT !.nStatement = @ - 1, !.nDeferredCons = vdbe.nStmtDefCons]
    ELSE UNCHANGED <<pager, conn>>

\* How a statement may end: well, with the three ways of OR to deal with a
\* conflict, out of memory (or space), or with another I/O error.  Without a
\* journal of its own it only aborts before it has changed anything.
Ends == {"OK", "ABORT", "FAIL", "ROLLBACK", "NOMEM", "IOERR"}

MayEnd(err) ==
    /\ vdbe.err = "OK" \/ err = vdbe.err
    /\ err = "ABORT" => vdbe.usesStmtJournal \/ vdbe.changed = 0
    /\ err = "FAIL" => FailOnViolation \/ vdbe.nFkConstraint = 0

\* A plausible mistake: the immediate references are not looked at in the end.
NeverChecked(err) == err

\* The immediate references are checked of a statement that ends well.
Checked(err) == IF err = "OK" /\ vdbe.nFkConstraint > 0 THEN "ABORT" ELSE err

\* sqlite3VdbeHalt of the writing statement.
VdbeHalt(err) ==
    LET res == Checked(err)
        forced == (err = "IOERR") \/ (err = "NOMEM" /\ ~vdbe.usesStmtJournal)
        kept == res \in {"OK", "FAIL"}
    IN
    /\ vdbe.runs
    /\ MayEnd(err)
    /\ vdbe' = Idle
    /\ UNCHANGED reading
    /\ \/ /\ conn.autoCommit \/ forced
          /\ \/ /\ kept /\ conn.nDeferredCons = 0
                /\ pager' = BtreeCommit(pager, reading)
                /\ conn' = [conn EXCEPT !.nStatement = 0]
                /\ result' = res
                /\ UNCHANGED pSavepoint
             \/ GiveUp(reading)
       \/ /\ ~conn.autoCommit /\ ~forced
          /\ UNCHANGED pSavepoint
          /\ \/ kept /\ ReleaseStatement /\ result' = res
             \/ res \in {"ABORT", "NOMEM"} /\ RollbackStatement /\ result' = "ABORT"
       \/ \* OR ROLLBACK, or an error in closing the statement.
          /\ ~conn.autoCommit /\ ~forced
          /\ res = "ROLLBACK" \/ HasStatement
          /\ GiveUp(reading)

--------------------------------------------------------------------------------
(* SELECTs. *)

StartRead(s) ==
    /\ ~vdbe.runs
    /\ s \notin reading
    /\ reading' = reading \cup {s}
    /\ pager' = [pager EXCEPT !.inTrans = IF @ = "NONE" THEN "READ" ELSE @]
    /\ UNCHANGED <<conn, pSavepoint, vdbe, result>>

\* sqlite3VdbeHalt of a SELECT, which leaves the transaction alone unless it
\* met an error that cannot be contained.
EndRead(s) ==
    /\ ~vdbe.runs
    /\ s \in reading
    /\ reading' = reading \ {s}
    /\ \/ /\ pager' = IF conn.autoCommit THEN EndTransaction(pager, reading') ELSE pager
          /\ UNCHANGED <<conn, pSavepoint, result>>
       \/ GiveUp(reading')
    /\ UNCHANGED vdbe

--------------------------------------------------------------------------------
(* OP_AutoCommit. *)

Begin ==
    /\ ~vdbe.runs
    /\ IF conn.autoCommit
       THEN conn' = [conn EXCEPT !.autoCommit = FALSE] /\ result' = "OK"
       ELSE conn' = conn /\ result' = "ERROR"
    /\ UNCHANGED <<pSavepoint, pager, vdbe, reading>>

Commit ==
    /\ ~vdbe.runs
    /\ \/ /\ ~conn.autoCommit /\ conn.nDeferredCons = 0
          /\ CommitOrGiveUp(Cleared(conn), reading)
       \/ /\ conn.autoCommit \/ conn.nDeferredCons > 0
          /\ result' = IF conn.autoCommit THEN "ERROR" ELSE "FK"
          /\ UNCHANGED <<conn, pSavepoint, pager>>
    /\ UNCHANGED <<vdbe, reading>>

Rollback ==
    /\ ~vdbe.runs
    /\ IF conn.autoCommit
       THEN result' = "ERROR" /\ UNCHANGED <<conn, pSavepoint, pager>>
       ELSE GiveUp(reading)
    /\ UNCHANGED <<vdbe, reading>>

--------------------------------------------------------------------------------
(* OP_Savepoint. *)

Savepoint(name) ==
    /\ ~vdbe.runs
    /\ Len(pSavepoint) < MaxSavepoints
    /\ conn' = IF conn.autoCommit
             THEN [conn EXCEPT !.autoCommit = FALSE, !.isTransactionSavepoint = TRUE]
             ELSE [conn EXCEPT !.nSavepoint = @ + 1]
    /\ pSavepoint' = Append(pSavepoint, [name |-> name, nDeferredCons |-> conn.nDeferredCons])
    /\ result' = "OK"
    /\ UNCHANGED <<pager, vdbe, reading>>

\* The newest savepoint of that name is the k-th oldest.
Newest(name, k) ==
    /\ pSavepoint[k].name = name
    /\ \A j \in k + 1 .. Len(pSavepoint) : pSavepoint[j].name # name

\* A plausible mistake: the savepoint that began the transaction counts too.
IndexOfAny(k) == k - 1

\* The pager's number of the k-th oldest savepoint, -1 for the one that began
\* the transaction: nSavepoint - iSavepoint - 1.
Index(k) == conn.nSavepoint - (Len(pSavepoint) - k) - 1

IsTransaction(k) == k = 1 /\ conn.isTransactionSavepoint

\* The savepoints from the k-th on are destroyed.
DestroyFrom(k) ==
    /\ pSavepoint' = SubSeq(pSavepoint, 1, k - 1)
    /\ conn' = [conn EXCEPT !.nSavepoint = @ - (Len(pSavepoint) + 1 - k)]

Release(name) ==
    /\ ~vdbe.runs
    /\ \E k \in DOMAIN pSavepoint :
          /\ Newest(name, k)
          /\ \/ /\ IsTransaction(k) /\ conn.nDeferredCons > 0
                /\ result' = "FK"
                /\ UNCHANGED <<conn, pSavepoint, pager>>
             \/ /\ IsTransaction(k) /\ conn.nDeferredCons = 0
                /\ CommitOrGiveUp(Cleared(conn), reading)
             \/ /\ ~IsTransaction(k)
                /\ pager' = BtreeRelease(pager, Index(k))
                /\ DestroyFrom(k)
                /\ result' = "OK"
    /\ UNCHANGED <<vdbe, reading>>

\* A plausible mistake: the counter stays as the undone statements left it.
CountKept(k) == conn.nDeferredCons

\* The counter that ROLLBACK TO brings back.
CountSaved(k) == pSavepoint[k].nDeferredCons

\* The rollback may meet an I/O error.
RollbackTo(name) ==
    /\ ~vdbe.runs
    /\ \E k \in DOMAIN pSavepoint :
          /\ Newest(name, k)
          /\ \/ /\ pager' = BtreeRollbackTo(pager, Index(k))
                /\ pSavepoint' = SubSeq(pSavepoint, 1, k)
                /\ conn' = [conn EXCEPT !.nSavepoint = @ - (Len(pSavepoint) - k),
                                    !.nDeferredCons = CountSaved(k)]
                /\ result' = "OK"
             \/ pager.inTrans = "WRITE" /\ GiveUp(reading)
    /\ UNCHANGED <<vdbe, reading>>

NoSuchSavepoint(name) ==
    /\ ~vdbe.runs
    /\ \A k \in DOMAIN pSavepoint : pSavepoint[k].name # name
    /\ result' = "ERROR"
    /\ UNCHANGED <<conn, pSavepoint, pager, vdbe, reading>>

ConnNext ==
    \/ \E journal \in BOOLEAN : OpTransaction(journal)
    \/ \E r \in Rows : InsertRow(r) \/ DeleteRow(r)
    \/ \E err \in Ends : VdbeHalt(err)
    \/ \E s \in Readers : StartRead(s) \/ EndRead(s)
    \/ Begin \/ Commit \/ Rollback
    \/ \E n \in Names : Savepoint(n) \/ Release(n) \/ RollbackTo(n) \/ NoSuchSavepoint(n)

ConnSpec == ConnInit /\ [][ConnNext]_connVars

--------------------------------------------------------------------------------
\* What the code asserts of its counters, which tie the list of savepoints, the
\* open statement and the pager's numbers together (vdbe.c:2944-2952,
\* 3159, vdbeaux.c:2516, 2793, btree.c:4072-4073).
CountersAgree ==
    /\ conn.autoCommit => pSavepoint = << >>
    /\ pSavepoint = << >> => ~conn.isTransactionSavepoint
    /\ conn.nSavepoint = Len(pSavepoint) - IF conn.isTransactionSavepoint THEN 1 ELSE 0
    /\ conn.nStatement = IF vdbe.runs /\ vdbe.iStatement > 0 THEN 1 ELSE 0
    /\ vdbe.runs /\ vdbe.iStatement > 0 => vdbe.iStatement = conn.nStatement + conn.nSavepoint
    /\ Len(pager.saves) <= conn.nSavepoint + conn.nStatement

\* The counter of deferred violations is their number, through statements,
\* savepoints and rollbacks; it is all that COMMIT looks at, and 0 switches the
\* search for resolved ones off (fkey.c:34-41, vdbe.c:3046-3049, 6013-6022).
DeferredCountExact ==
    conn.nDeferredCons = Cardinality(Violations(pager.rows, Deferred))

\* No statement leaves an immediate reference unresolved, and what is committed
\* resolves all (fkey.c:85-92, vdbeaux.c:2671-2673).
ReferencesHold ==
    /\ ~vdbe.runs => Violations(pager.rows, Immediate) = {}
    /\ Consistent(pager.committed)

\* The rows before the statement that runs.
Rows0 == IF vdbe.runs THEN vdbe.before ELSE pager.rows

\* What ROLLBACK TO would bring back.
SavedRows(k) ==
    IF Index(k) = -1 THEN pager.committed
    ELSE IF Index(k) < Len(pager.saves) THEN pager.saves[Index(k) + 1] ELSE Rows0

SQL == INSTANCE Transactions WITH
    committed <- pager.committed,
    current <- Rows0,
    begun <- ~conn.autoCommit /\ ~conn.isTransactionSavepoint,
    stack <- [k \in DOMAIN pSavepoint |-> [name |-> pSavepoint[k].name, rows |-> SavedRows(k)]],
    outcome <- result

\* Savepoints opened late and numbered by the pager, statement journals that
\* are only kept when needed, and the counters of references: together they
\* make the transactions that SQL promises (vdbe.c:2930-3165, vdbeaux.c:2600-2794).
ImplementsTransactions == SQL!TransSpec

================================================================================
