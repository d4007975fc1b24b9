---------------------------- MODULE ConnectionProofs ---------------------------
(****************************************************************************)
(* Proofs about Connection: the counters agree with the list of savepoints,   *)
(* the counter of deferred violations is exact, no reference is left           *)
(* unresolved, and the transactions are those of module Transactions.         *)
(****************************************************************************)
EXTENDS Connection, FiniteSetTheorems, TLAPS

Count(rows, kind) == Cardinality(Violations(rows, kind))

Statements ==
    [runs : {TRUE}, usesStmtJournal : BOOLEAN, iStatement : Nat, nStmtDefCons : Nat,
     nFkConstraint : Nat, err : {"OK", "NOMEM"}, changed : Nat, before : SUBSET Rows]

Counters ==
    [autoCommit : BOOLEAN, isTransactionSavepoint : BOOLEAN,
     nSavepoint : Nat, nStatement : Nat, nDeferredCons : Nat]

Marks == [name : Names, nDeferredCons : Nat]

Pagers ==
    [inTrans : {"NONE", "READ", "WRITE"}, committed : SUBSET Rows,
     rows : SUBSET Rows, saves : Seq(SUBSET Rows)]

USE DEF Counters, Marks, Pagers

ConnTypeOK ==
    /\ conn \in Counters
    /\ pSavepoint \in Seq(Marks)
    /\ pager \in Pagers
    /\ vdbe \in {Idle} \cup Statements

\* The counters between transactions.
NoTransaction ==
    [autoCommit |-> TRUE, isTransactionSavepoint |-> FALSE, nSavepoint |-> 0,
     nStatement |-> 0, nDeferredCons |-> 0]

\* Only a write transaction has something to lose.
WriteOnly ==
    /\ pager.inTrans # "WRITE" => pager.saves = << >> /\ pager.rows = pager.committed
    /\ conn.autoCommit /\ ~vdbe.runs => pager.inTrans # "WRITE"

\* The counter kept with a savepoint is that of the rows it brings back.
SavedCounts ==
    \A k \in DOMAIN pSavepoint : pSavepoint[k].nDeferredCons = Count(SavedRows(k), Deferred)

SavedReferences == \A j \in DOMAIN pager.saves : Violations(pager.saves[j], Immediate) = {}

\* The statement that runs can be undone, or has changed nothing.
StatementOpen ==
    vdbe.runs =>
        /\ pager.inTrans = "WRITE"
        /\ vdbe.nStmtDefCons = Count(vdbe.before, Deferred)
        /\ vdbe.nFkConstraint = Count(pager.rows, Immediate)
        /\ Violations(vdbe.before, Immediate) = {}
        /\ vdbe.changed = 0 \/ vdbe.err = "NOMEM" => pager.rows = vdbe.before
        /\ Len(pager.saves) < conn.nSavepoint + conn.nStatement => vdbe.err = "NOMEM"
        /\ vdbe.iStatement > 0 /\ Len(pager.saves) >= vdbe.iStatement
              => pager.saves[vdbe.iStatement] = vdbe.before
        /\ ~vdbe.usesStmtJournal => vdbe.nFkConstraint = 0
        /\ vdbe.usesStmtJournal /\ ~conn.autoCommit /\ vdbe.iStatement = 0
              => vdbe.err = "NOMEM"

ConnInv ==
    /\ ConnTypeOK
    /\ CountersAgree
    /\ DeferredCountExact
    /\ ReferencesHold
    /\ WriteOnly
    /\ SavedCounts
    /\ SavedReferences
    /\ StatementOpen

--------------------------------------------------------------------------------
(* The counters of references. *)

LEMMA CountIsNat ==
    ASSUME NEW rows, NEW kind \in SUBSET Children
    PROVE  IsFiniteSet(Violations(rows, kind)) /\ Count(rows, kind) \in Nat
BY RowsAssumption, FS_Subset, FS_CardinalityType, Violations(rows, kind) \subseteq Children
   DEF Violations, Count

LEMMA CountZero ==
    ASSUME NEW rows, NEW kind \in SUBSET Children
    PROVE  (Count(rows, kind) = 0) <=> (Violations(rows, kind) = {})
BY CountIsNat, FS_EmptySet DEF Count

LEMMA ConsistentParts ==
    ASSUME NEW rows
    PROVE  Consistent(rows) <=> Violations(rows, Immediate) = {} /\ Violations(rows, Deferred) = {}
BY DEF Consistent, Violations, Children

LEMMA NoRows == Consistent({}) /\ \A kind : Violations({}, kind) = {}
BY DEF Consistent, Violations

LEMMA SolvedCount ==
    ASSUME NEW V, IsFiniteSet(V), NEW S \in SUBSET V
    PROVE  Resolved(Cardinality(V), S) = Cardinality(V \ S)
<1>1. Cardinality(V \ S) = Cardinality(V) - Cardinality(V \cap S) /\ V \cap S = S
    BY FS_Difference
<1>2. CASE Cardinality(V) = 0
    BY <1>2, <1>1, FS_EmptySet DEF Resolved
<1>3. CASE Cardinality(V) # 0
    BY <1>3, <1>1 DEF Resolved
<1>4. QED
    BY <1>2, <1>3

LEMMA CountInsert ==
    ASSUME pager.rows \in SUBSET Rows, NEW r \in Rows, r \notin pager.rows,
           NEW kind \in {Immediate, Deferred}
    PROVE  AfterInsert(Count(pager.rows, kind), r, kind) = Count(pager.rows \cup {r}, kind)
<1> DEFINE V == Violations(pager.rows, kind)
<1>0. kind \in SUBSET Children
    BY DEF Children
<1>1. IsFiniteSet(V)
    BY <1>0, CountIsNat
<1>2. CASE r \in Parents
    <2>1. ChildrenOf(r, kind) \in SUBSET V
        BY DEF ChildrenOf, Violations
    <2>2. Violations(pager.rows \cup {r}, kind) = V \ ChildrenOf(r, kind)
        BY <1>0, <1>2, RowsAssumption DEF ChildrenOf, Violations
    <2>3. QED
        BY <1>1, <1>2, <2>1, <2>2, SolvedCount DEF AfterInsert, Count
<1>3. CASE r \in Children
    <2>0. r \notin Parents /\ Parent[r] # r
        BY <1>3, RowsAssumption
    <2>1. CASE r \in kind /\ Parent[r] \notin pager.rows
        <3>1. Violations(pager.rows \cup {r}, kind) = V \cup {r} /\ r \notin V
            BY <1>0, <2>0, <2>1, RowsAssumption DEF Violations
        <3>2. Violations(pager.rows \cup {r}, kind \cap {r}) = {r}
            BY <2>0, <2>1 DEF Violations
        <3>3. QED
            BY <1>1, <2>0, <3>1, <3>2, FS_AddElement, FS_Singleton DEF AfterInsert, Count
    <2>2. CASE ~(r \in kind /\ Parent[r] \notin pager.rows)
        <3>1. Violations(pager.rows \cup {r}, kind) = V
            BY <1>0, <2>0, <2>2, RowsAssumption DEF Violations
        <3>2. Violations(pager.rows \cup {r}, kind \cap {r}) = {}
            BY <2>0, <2>2 DEF Violations
        <3>3. /\ Cardinality(V) \in Nat
              /\ Cardinality(Violations(pager.rows \cup {r}, kind \cap {r})) = 0
            BY <1>1, <3>2, FS_EmptySet, FS_CardinalityType
        <3>4. AfterInsert(Cardinality(V), r, kind) = Cardinality(V)
            BY <2>0, <3>3 DEF AfterInsert
        <3>5. QED
            BY <3>1, <3>4 DEF Count
    <2>3. QED
        BY <2>1, <2>2
<1>4. QED
    BY <1>2, <1>3 DEF Rows

LEMMA CountDelete ==
    ASSUME pager.rows \in SUBSET Rows, NEW r \in pager.rows,
           NEW kind \in {Immediate, Deferred}
    PROVE  AfterDelete(Count(pager.rows, kind), r, kind) = Count(pager.rows \ {r}, kind)
<1> DEFINE V == Violations(pager.rows, kind)
<1>0. kind \in SUBSET Children
    BY DEF Children
<1>1. IsFiniteSet(V)
    BY <1>0, CountIsNat
<1>2. CASE r \in Parents
    <2>1. Violations(pager.rows \ {r}, kind) = V \cup ChildrenOf(r, kind)
        BY <1>0, <1>2, RowsAssumption DEF ChildrenOf, Violations
    <2>2. V \cap ChildrenOf(r, kind) = {} /\ IsFiniteSet(ChildrenOf(r, kind))
        <3>1. ChildrenOf(r, kind) \subseteq Children
            BY <1>0 DEF ChildrenOf
        <3>2. QED
            BY <3>1, RowsAssumption, FS_Subset DEF ChildrenOf, Violations
    <2>3. Cardinality(V \cup ChildrenOf(r, kind)) = Cardinality(V) + Cardinality(ChildrenOf(r, kind))
        <3>1. /\ Cardinality(V) \in Nat /\ Cardinality(ChildrenOf(r, kind)) \in Nat
              /\ Cardinality(V \cap ChildrenOf(r, kind)) = 0
            BY <1>1, <2>2, FS_EmptySet, FS_CardinalityType
        <3>2. Cardinality(V \cup ChildrenOf(r, kind))
                 = Cardinality(V) + Cardinality(ChildrenOf(r, kind))
                     - Cardinality(V \cap ChildrenOf(r, kind))
            BY <1>1, <2>2, FS_Union
        <3>3. QED
            BY <3>1, <3>2
    <2>4. QED
        BY <1>2, <2>1, <2>3 DEF AfterDelete, Count
<1>3. CASE r \in Children
    <2>0. r \notin Parents
        BY <1>3, RowsAssumption
    <2>1. Violations(pager.rows, kind \cap {r}) \in SUBSET V
        BY DEF Violations
    <2>2. Violations(pager.rows \ {r}, kind) = V \ Violations(pager.rows, kind \cap {r})
        BY <1>0, <2>0, RowsAssumption DEF Violations
    <2>3. QED
        BY <1>1, <2>0, <2>1, <2>2, SolvedCount DEF AfterDelete, Count
<1>4. QED
    BY <1>2, <1>3 DEF Rows

--------------------------------------------------------------------------------
(* Sequences, and the savepoints of the pager. *)

LEMMA Prefix ==
    ASSUME NEW S, NEW s \in Seq(S), NEW n \in 0 .. Len(s)
    PROVE  /\ SubSeq(s, 1, n) \in Seq(S)
           /\ Len(SubSeq(s, 1, n)) = n
           /\ \A i \in 1 .. n : SubSeq(s, 1, n)[i] = s[i]
OBVIOUS

LEMMA Concatenation ==
    ASSUME NEW S, NEW s \in Seq(S), NEW t \in Seq(S)
    PROVE  /\ s \o t \in Seq(S)
           /\ Len(s \o t) = Len(s) + Len(t)
           /\ \A j \in 1 .. Len(s) : (s \o t)[j] = s[j]
           /\ \A j \in Len(s) + 1 .. Len(s) + Len(t) : (s \o t)[j] = t[j - Len(s)]
OBVIOUS

LEMMA ElementOf ==
    ASSUME NEW S, NEW s \in Seq(S), NEW k \in 1 .. Len(s)
    PROVE  s[k] \in S
OBVIOUS

LEMMA NothingRuns ==
    ASSUME ConnTypeOK, ~vdbe.runs
    PROVE  vdbe = Idle
BY DEF ConnTypeOK, Statements, Idle

\* The position of a savepoint says how many savepoints of the pager precede it.
LEMMA IndexOfSavepoint ==
    ASSUME ConnTypeOK, CountersAgree, NEW k \in DOMAIN pSavepoint
    PROVE  /\ k \in 1 .. Len(pSavepoint)
           /\ Index(k) = k - IF conn.isTransactionSavepoint THEN 2 ELSE 1
           /\ Index(k) < conn.nSavepoint
           /\ IsTransaction(k) <=> Index(k) = -1
<1>1. k \in 1 .. Len(pSavepoint) /\ Len(pSavepoint) \in Nat
    BY DEF ConnTypeOK
<1>2. conn.isTransactionSavepoint \in BOOLEAN /\ conn.nSavepoint \in Nat
    BY DEF ConnTypeOK
<1>3. CASE conn.isTransactionSavepoint
    BY <1>1, <1>2, <1>3 DEF CountersAgree, Index, IsTransaction
<1>4. CASE ~conn.isTransactionSavepoint
    BY <1>1, <1>2, <1>4 DEF CountersAgree, Index, IsTransaction
<1>5. QED
    BY <1>3, <1>4

LEMMA Releases ==
    ASSUME NEW pg0 \in Pagers, NEW i \in Nat, pg0.inTrans # "WRITE" => pg0.saves = << >>,
           NEW pg, pg = BtreeRelease(pg0, i)
    PROVE  /\ pg \in Pagers
           /\ pg.inTrans = pg0.inTrans
           /\ pg.committed = pg0.committed
           /\ pg.rows = pg0.rows
           /\ Len(pg.saves) = IF i < Len(pg0.saves) THEN i ELSE Len(pg0.saves)
           /\ \A j \in 1 .. Len(pg.saves) : pg.saves[j] = pg0.saves[j]
<1>1. CASE pg0.inTrans = "WRITE" /\ i < Len(pg0.saves)
    <2>1. /\ SubSeq(pg0.saves, 1, i) \in Seq(SUBSET Rows)
          /\ Len(SubSeq(pg0.saves, 1, i)) = i
          /\ \A j \in 1 .. i : SubSeq(pg0.saves, 1, i)[j] = pg0.saves[j]
        BY <1>1, Prefix
    <2>2. pg = [pg0 EXCEPT !.saves = SubSeq(pg0.saves, 1, i)]
        BY <1>1 DEF BtreeRelease
    <2>3. QED
        BY <1>1, <2>1, <2>2
<1>2. CASE ~(pg0.inTrans = "WRITE" /\ i < Len(pg0.saves))
    BY <1>2 DEF BtreeRelease
<1>3. QED
    BY <1>1, <1>2

--------------------------------------------------------------------------------
(* The end of a transaction. *)

LEMMA EndedTypes ==
    ASSUME ConnTypeOK, NEW others
    PROVE  /\ BtreeRollback(pager, others)
                \in [inTrans : {"NONE", "READ"}, committed : {pager.committed},
                     rows : {pager.committed}, saves : {<< >>}]
           /\ BtreeCommit(pager, others)
                \in [inTrans : {"NONE", "READ"}, committed : {pager.rows},
                     rows : {pager.rows}, saves : {<< >>}]
BY DEF ConnTypeOK, BtreeRollback, BtreeCommit, EndTransaction

\* Nothing is left of a transaction that ended.
LEMMA NothingLeft ==
    ASSUME NEW rows \in SUBSET Rows, Consistent(rows),
           conn' = NoTransaction,
           pSavepoint' = << >>,
           pager' \in [inTrans : {"NONE", "READ"}, committed : {rows},
                       rows : {rows}, saves : {<< >>}],
           vdbe' = Idle
    PROVE  ConnInv'
<1>0. /\ conn'.autoCommit = TRUE /\ conn'.isTransactionSavepoint = FALSE
      /\ conn'.nSavepoint = 0 /\ conn'.nStatement = 0 /\ conn'.nDeferredCons = 0
      /\ pager'.saves = << >> /\ pager'.rows = rows /\ pager'.committed = rows
      /\ vdbe'.runs = FALSE
    BY DEF Idle, NoTransaction
<1>1. ConnTypeOK'
    <2>1. conn' \in Counters
        BY DEF NoTransaction
    <2>2. << >> \in Seq(Marks) /\ << >> \in Seq(SUBSET Rows)
        OBVIOUS
    <2>3. pager' \in Pagers
        BY <2>2
    <2>4. QED
        BY <2>1, <2>2, <2>3 DEF ConnTypeOK
<1>2. CountersAgree'
    BY <1>0, Len(<< >>) = 0 DEF CountersAgree
<1>3. Violations(rows, Immediate) = {} /\ Violations(rows, Deferred) = {}
    BY ConsistentParts
<1>4. DeferredCountExact'
    BY <1>0, <1>3, FS_EmptySet DEF DeferredCountExact
<1>5. ReferencesHold'
    BY <1>0, <1>3 DEF ReferencesHold
<1>6. WriteOnly' /\ SavedCounts' /\ SavedReferences' /\ StatementOpen'
    BY DEF WriteOnly, SavedCounts, SavedReferences, StatementOpen, Idle
<1>7. QED
    BY <1>1, <1>2, <1>4, <1>5, <1>6 DEF ConnInv

LEMMA GiveUpKeepsInv ==
    ASSUME ConnInv, NEW others, GiveUp(others), vdbe' = Idle
    PROVE  ConnInv'
<1>1. conn' = NoTransaction
    BY DEF ConnInv, ConnTypeOK, GiveUp, Cleared, CloseSavepoints, RollbackAll, NoTransaction
<1>2. pager.committed \in SUBSET Rows /\ Consistent(pager.committed)
    BY DEF ConnInv, ConnTypeOK, ReferencesHold
<1>3. QED
    BY <1>1, <1>2, EndedTypes, NothingLeft DEF ConnInv, GiveUp

\* What is committed has no violation left.
LEMMA CommitKeepsInv ==
    ASSUME ConnInv, NEW others, Violations(pager.rows, Immediate) = {},
           conn.nDeferredCons = 0,
           conn' = NoTransaction,
           pSavepoint' = << >>, pager' = BtreeCommit(pager, others), vdbe' = Idle
    PROVE  ConnInv' /\ Consistent(pager.rows)
<1>1. pager.rows \in SUBSET Rows
    BY DEF ConnInv, ConnTypeOK
<1>2. Count(pager.rows, Deferred) = 0
    BY DEF ConnInv, DeferredCountExact, Count
<1>3. Consistent(pager.rows)
    BY <1>2, CountZero, ConsistentParts DEF Children
<1>4. QED
    BY <1>1, <1>3, EndedTypes, NothingLeft DEF ConnInv

--------------------------------------------------------------------------------
(* The steps between statements. *)

\* SELECTs come and go, BEGIN is noted, or nothing happens.
LEMMA QuietKeepsInv ==
    ASSUME ConnInv, ~vdbe.runs, UNCHANGED <<pSavepoint, vdbe>>,
           conn' = conn \/ conn' = [conn EXCEPT !.autoCommit = FALSE],
           NEW t \in {"NONE", "READ", "WRITE"},
           t = "WRITE" <=> pager.inTrans = "WRITE",
           pager' = [pager EXCEPT !.inTrans = t]
    PROVE  ConnInv' /\ \A k \in DOMAIN pSavepoint : SavedRows(k)' = SavedRows(k)
<1> USE DEF ConnInv
<1>1. /\ pager'.saves = pager.saves /\ pager'.rows = pager.rows
      /\ pager'.committed = pager.committed /\ pager'.inTrans = t
    BY DEF ConnTypeOK
<1>2. /\ conn'.isTransactionSavepoint = conn.isTransactionSavepoint
      /\ conn'.nSavepoint = conn.nSavepoint /\ conn'.nStatement = conn.nStatement
      /\ conn'.nDeferredCons = conn.nDeferredCons
      /\ conn'.autoCommit = conn.autoCommit \/ conn'.autoCommit = FALSE
    BY DEF ConnTypeOK
<1>3. ConnTypeOK'
    BY DEF ConnTypeOK
<1>4. CountersAgree'
    BY <1>1, <1>2 DEF CountersAgree
<1>5. \A k \in DOMAIN pSavepoint : SavedRows(k)' = SavedRows(k)
    BY <1>1, <1>2 DEF SavedRows, Index, Rows0
<1>6. DeferredCountExact' /\ ReferencesHold' /\ SavedReferences'
    BY <1>1, <1>2 DEF DeferredCountExact, ReferencesHold, SavedReferences, Violations, Consistent
<1>7. WriteOnly' /\ StatementOpen'
    BY <1>1, <1>2 DEF WriteOnly, StatementOpen
<1>8. SavedCounts'
    BY <1>5 DEF SavedCounts, Count
<1>9. QED
    BY <1>3, <1>4, <1>5, <1>6, <1>7, <1>8

LEMMA BeginKeepsInv ==
    ASSUME ConnInv, Begin
    PROVE  ConnInv' /\ \A k \in DOMAIN pSavepoint : SavedRows(k)' = SavedRows(k)
<1>1. /\ pager' = [pager EXCEPT !.inTrans = pager.inTrans]
      /\ pager.inTrans \in {"NONE", "READ", "WRITE"}
    BY DEF ConnInv, ConnTypeOK, Begin
<1>2. QED
    BY <1>1, QuietKeepsInv DEF Begin

LEMMA StartReadKeepsInv ==
    ASSUME ConnInv, NEW s \in Readers, StartRead(s)
    PROVE  ConnInv' /\ \A k \in DOMAIN pSavepoint : SavedRows(k)' = SavedRows(k)
<1> DEFINE t == IF pager.inTrans = "NONE" THEN "READ" ELSE pager.inTrans
<1>1. /\ pager' = [pager EXCEPT !.inTrans = t]
      /\ t \in {"NONE", "READ", "WRITE"}
      /\ t = "WRITE" <=> pager.inTrans = "WRITE"
    BY DEF ConnInv, ConnTypeOK, StartRead
<1>2. QED
    BY <1>1, QuietKeepsInv DEF StartRead

LEMMA EndReadKeepsInv ==
    ASSUME ConnInv, NEW s \in Readers, EndRead(s), UNCHANGED conn, UNCHANGED pSavepoint,
           pager' = IF conn.autoCommit THEN EndTransaction(pager, reading') ELSE pager
    PROVE  ConnInv' /\ \A k \in DOMAIN pSavepoint : SavedRows(k)' = SavedRows(k)
<1> USE DEF ConnInv
<1> DEFINE u == IF pager.inTrans # "NONE" /\ reading' # {} THEN "READ" ELSE "NONE"
           t == IF conn.autoCommit THEN u ELSE pager.inTrans
<1>1. t \in {"NONE", "READ", "WRITE"} /\ (t = "WRITE" <=> pager.inTrans = "WRITE")
    BY DEF ConnTypeOK, WriteOnly, EndRead
<1>2. CASE conn.autoCommit
    <2>1. pager.saves = << >>
        BY <1>2 DEF WriteOnly, EndRead
    <2>2. pager' = [pager EXCEPT !.inTrans = u, !.saves = << >>]
        BY <1>2 DEF EndTransaction
    <2>3. pager' = [pager EXCEPT !.inTrans = t]
        BY <1>2, <2>1, <2>2 DEF ConnTypeOK
    <2>4. QED
        BY <1>1, <2>3, QuietKeepsInv DEF EndRead
<1>3. CASE ~conn.autoCommit
    <2>1. pager' = [pager EXCEPT !.inTrans = t]
        BY <1>3 DEF ConnTypeOK
    <2>2. QED
        BY <1>1, <2>1, QuietKeepsInv DEF EndRead
<1>4. QED
    BY <1>2, <1>3 DEF ConnTypeOK

--------------------------------------------------------------------------------
(* Savepoints. *)

LEMMA SavepointKeepsInv ==
    ASSUME ConnInv, NEW name \in Names, Savepoint(name),
           NEW L \in Nat, L = Len(pSavepoint)
    PROVE  /\ ConnInv'
           /\ \A k \in DOMAIN pSavepoint : SavedRows(k)' = SavedRows(k)
           /\ SavedRows(L + 1)' = pager.rows
<1> USE DEF ConnInv
<1>0. /\ ~vdbe.runs /\ UNCHANGED <<pager, vdbe>>
      /\ pSavepoint' = Append(pSavepoint, [name |-> name, nDeferredCons |-> conn.nDeferredCons])
    BY DEF Savepoint
<1>1. /\ L \in Nat /\ Len(pSavepoint') = L + 1 /\ pSavepoint' # << >>
      /\ \A k \in DOMAIN pSavepoint : k \in 1 .. L /\ pSavepoint'[k] = pSavepoint[k]
      /\ DOMAIN pSavepoint' = 1 .. L + 1
      /\ pSavepoint'[L + 1].nDeferredCons = conn.nDeferredCons
    BY <1>0, SMTT(30) DEF ConnTypeOK
<1>2. ConnTypeOK'
    <2>1. pSavepoint' \in Seq(Marks)
        BY <1>0 DEF ConnTypeOK
    <2>2. conn' \in Counters
        <3>1. CASE conn.autoCommit
            BY <3>1 DEF ConnTypeOK, Savepoint
        <3>2. CASE ~conn.autoCommit
            <4>1. conn \in Counters /\ conn' = [conn EXCEPT !.nSavepoint = conn.nSavepoint + 1]
                BY <3>2 DEF ConnTypeOK, Savepoint
            <4>2. QED
                BY ONLY <4>1 DEF Counters
        <3>3. QED
            BY <3>1, <3>2
    <2>3. QED
        BY <1>0, <2>1, <2>2 DEF ConnTypeOK
<1>3. /\ conn'.autoCommit = FALSE /\ conn'.nStatement = conn.nStatement
      /\ conn'.nDeferredCons = conn.nDeferredCons
    BY DEF ConnTypeOK, Savepoint
<1>4. ASSUME conn.autoCommit
      PROVE  CountersAgree' /\ SavedRows(L + 1)' = pager.rows
             /\ \A k \in DOMAIN pSavepoint : SavedRows(k)' = SavedRows(k)
    <2>1. /\ pSavepoint = << >> /\ ~conn.isTransactionSavepoint /\ L = 0
          /\ conn.nSavepoint = 0
        BY <1>4 DEF CountersAgree, ConnTypeOK
    <2>2. conn'.isTransactionSavepoint = TRUE /\ conn'.nSavepoint = conn.nSavepoint
        BY <1>4 DEF ConnTypeOK, Savepoint
    <2>3. CountersAgree'
        BY <1>0, <1>1, <1>3, <2>1, <2>2 DEF CountersAgree
    <2>4. Index(L + 1)' = -1
        BY <1>1, <2>1, <2>2 DEF Index
    <2>5. SavedRows(L + 1)' = pager.rows
        BY <1>0, <1>4, <2>4 DEF SavedRows, WriteOnly
    <2>6. QED
        BY <2>1, <2>3, <2>5
<1>5. ASSUME ~conn.autoCommit
      PROVE  CountersAgree' /\ SavedRows(L + 1)' = pager.rows
             /\ \A k \in DOMAIN pSavepoint : SavedRows(k)' = SavedRows(k)
    <2>1. /\ conn'.isTransactionSavepoint = conn.isTransactionSavepoint
          /\ conn'.nSavepoint = conn.nSavepoint + 1 /\ conn.nSavepoint \in Nat
        BY <1>5 DEF ConnTypeOK, Savepoint
    <2>2. CountersAgree'
        BY <1>0, <1>1, <1>3, <2>1 DEF CountersAgree, ConnTypeOK
    <2>3. /\ Index(L + 1)' = conn.nSavepoint
          /\ \A k \in DOMAIN pSavepoint : Index(k)' = Index(k)
        <3>1. Index(L + 1)' = (conn.nSavepoint + 1) - ((L + 1) - (L + 1)) - 1
            BY <1>1, <2>1 DEF Index
        <3>2. ASSUME NEW k \in 1 .. L
              PROVE  Index(k)' = Index(k)
            BY <1>1, <2>1 DEF Index
        <3>3. QED
            BY <1>1, <2>1, <3>1, <3>2
    <2>4. Len(pager.saves) <= conn.nSavepoint
        BY <1>0, <2>1 DEF CountersAgree, ConnTypeOK
    <2>5. /\ \A k \in DOMAIN pSavepoint : SavedRows(k)' = SavedRows(k)
          /\ SavedRows(L + 1)' = pager.rows
        BY <1>0, <2>1, <2>3, <2>4 DEF SavedRows, Rows0, ConnTypeOK
    <2>6. QED
        BY <2>2, <2>5
<1>6. CountersAgree' /\ SavedRows(L + 1)' = pager.rows
          /\ \A k \in DOMAIN pSavepoint : SavedRows(k)' = SavedRows(k)
    BY <1>4, <1>5 DEF ConnTypeOK
<1>7. SavedCounts'
    <2>1. conn.nDeferredCons = Count(pager.rows, Deferred)
        BY DEF DeferredCountExact, Count
    <2>2. SUFFICES ASSUME NEW k \in 1 .. L + 1
                   PROVE  pSavepoint'[k].nDeferredCons = Count(SavedRows(k)', Deferred)
        BY <1>1 DEF SavedCounts, Count, Violations
    <2>3. CASE k = L + 1
        BY <1>1, <1>6, <2>1, <2>3
    <2>4. CASE k # L + 1
        <3>1. k \in DOMAIN pSavepoint
            BY <1>1, <2>4 DEF ConnTypeOK
        <3>2. QED
            BY <1>1, <1>6, <3>1 DEF SavedCounts
    <2>5. QED
        BY <2>3, <2>4
<1>8. DeferredCountExact' /\ ReferencesHold' /\ SavedReferences' /\ WriteOnly' /\ StatementOpen'
    BY <1>0, <1>3 DEF DeferredCountExact, ReferencesHold, SavedReferences, WriteOnly,
       StatementOpen, Violations, Consistent
<1>9. QED
    BY <1>2, <1>6, <1>7, <1>8

\* The savepoints before the n-th keep their counters and rows.
LEMMA SavedCountsOfPrefix ==
    ASSUME ConnTypeOK, SavedCounts, NEW n \in 0 .. Len(pSavepoint),
           pSavepoint' = SubSeq(pSavepoint, 1, n),
           \A k \in 1 .. n : SavedRows(k)' = SavedRows(k)
    PROVE  SavedCounts'
<1>1. /\ DOMAIN pSavepoint' = 1 .. n
      /\ \A k \in 1 .. n : pSavepoint'[k] = pSavepoint[k] /\ k \in DOMAIN pSavepoint
    BY Prefix DEF ConnTypeOK
<1>2. QED
    BY <1>1 DEF SavedCounts, Count, Violations

LEMMA ReleaseKeepsInv ==
    ASSUME ConnInv, ~vdbe.runs, UNCHANGED vdbe, NEW k \in DOMAIN pSavepoint,
           ~IsTransaction(k), DestroyFrom(k), pager' = BtreeRelease(pager, Index(k))
    PROVE  ConnInv' /\ \A j \in 1 .. k - 1 : SavedRows(j)' = SavedRows(j)
<1> USE DEF ConnInv
<1> DEFINE L == Len(pSavepoint)
<1>1. /\ k \in 1 .. L /\ L \in Nat /\ k - 1 \in 0 .. L
      /\ Index(k) = k - IF conn.isTransactionSavepoint THEN 2 ELSE 1
      /\ Index(k) < conn.nSavepoint /\ Index(k) # -1
    BY IndexOfSavepoint DEF ConnTypeOK
<1>2. Index(k) \in Nat
    BY <1>1
<1>3. /\ pager'.inTrans = pager.inTrans /\ pager'.committed = pager.committed
      /\ pager'.rows = pager.rows
      /\ pager' \in Pagers
      /\ Len(pager'.saves) = IF Index(k) < Len(pager.saves) THEN Index(k) ELSE Len(pager.saves)
      /\ \A j \in 1 .. Len(pager'.saves) : pager'.saves[j] = pager.saves[j]
    <2>1. /\ pager \in Pagers
          /\ pager.inTrans # "WRITE" => pager.saves = << >>
        BY DEF ConnTypeOK, WriteOnly
    <2>2. QED
        BY ONLY <1>2, <2>1, Releases, pager' = BtreeRelease(pager, Index(k))
<1>4. Len(pager.saves) \in Nat /\ Len(pager'.saves) \in Nat
    BY <1>3 DEF ConnTypeOK
<1>5. /\ pSavepoint' = SubSeq(pSavepoint, 1, k - 1) /\ Len(pSavepoint') = k - 1
      /\ pSavepoint' \in Seq(Marks)
      /\ pSavepoint' = << >> => k = 1
    <2>1. /\ Len(SubSeq(pSavepoint, 1, k - 1)) = k - 1
          /\ SubSeq(pSavepoint, 1, k - 1) \in Seq(Marks)
        <3>1. pSavepoint \in Seq(Marks) /\ k - 1 \in 0 .. Len(pSavepoint)
            BY <1>1 DEF ConnTypeOK
        <3>2. QED
            BY ONLY <3>1, Prefix
    <2>2. Len(<< >>) = 0
        OBVIOUS
    <2>3. QED
        BY <1>1, <2>1, <2>2 DEF DestroyFrom
<1>6. /\ conn'.autoCommit = conn.autoCommit
      /\ conn'.isTransactionSavepoint = conn.isTransactionSavepoint
      /\ conn'.nSavepoint = conn.nSavepoint - (L + 1 - k)
      /\ conn'.nStatement = conn.nStatement /\ conn'.nDeferredCons = conn.nDeferredCons
    BY DEF ConnTypeOK, DestroyFrom
<1>7. conn'.nSavepoint = Index(k) /\ conn.autoCommit = FALSE
    <2>1. conn'.nSavepoint = Index(k)
        BY <1>1, <1>6 DEF Index, ConnTypeOK
    <2>2. pSavepoint # << >>
        BY <1>1
    <2>3. QED
        BY <2>1, <2>2 DEF CountersAgree, ConnTypeOK
<1>8. ConnTypeOK'
    BY <1>2, <1>3, <1>5, <1>6, <1>7 DEF ConnTypeOK, DestroyFrom
<1>9. CountersAgree'
    <2>1. conn.isTransactionSavepoint => k # 1
        BY DEF IsTransaction
    <2>2. conn'.nSavepoint = Len(pSavepoint') - IF conn'.isTransactionSavepoint THEN 1 ELSE 0
        BY <1>1, <1>5, <1>6, <1>7
    <2>3. Len(pager'.saves) <= conn'.nSavepoint + conn'.nStatement
        <3>1. conn.nStatement = 0
            BY DEF CountersAgree
        <3>2. QED
            BY <1>2, <1>3, <1>4, <1>6, <1>7, <3>1
    <2>4. QED
        BY <1>5, <1>6, <1>7, <2>1, <2>2, <2>3 DEF CountersAgree
<1>10. ASSUME NEW j \in 1 .. k - 1
       PROVE  SavedRows(j)' = SavedRows(j)
    <2>1. j \in DOMAIN pSavepoint
        BY <1>1 DEF ConnTypeOK
    <2>2. Index(j)' = Index(j) /\ Index(j) \in Int /\ Index(j) >= -1 /\ Index(j) < Index(k)
        <3>1. Index(j) = j - IF conn.isTransactionSavepoint THEN 2 ELSE 1
            BY <2>1, IndexOfSavepoint
        <3>2. Index(j)' = Index(k) - (k - 1 - j) - 1
            BY <1>5, <1>7 DEF Index
        <3>3. QED
            BY <1>1, <3>1, <3>2
    <2>3. Rows0' = Rows0
        BY <1>3 DEF Rows0
    <2>4. CASE Index(j) = -1
        BY <1>3, <2>2, <2>4 DEF SavedRows
    <2>5. CASE Index(j) # -1
        <3>1. Index(j) + 1 \in 1 .. Len(pager'.saves) <=> Index(j) < Len(pager.saves)
            BY <1>2, <1>3, <1>4, <2>2, <2>5
        <3>2. Index(j) < Len(pager'.saves) <=> Index(j) < Len(pager.saves)
            BY <1>2, <1>3, <1>4, <2>2, <2>5
        <3>3. QED
            BY <1>3, <2>2, <2>3, <2>5, <3>1, <3>2 DEF SavedRows
    <2>6. QED
        BY <2>4, <2>5
<1>11. SavedCounts'
    BY <1>1, <1>5, <1>10, SavedCountsOfPrefix
<1>12. DeferredCountExact' /\ ReferencesHold' /\ StatementOpen'
    BY <1>3, <1>6 DEF DeferredCountExact, ReferencesHold, StatementOpen, Violations, Consistent
<1>13. WriteOnly'
    <2>1. Len(pager.saves) = 0 => Len(pager'.saves) = 0
        BY <1>2, <1>3, <1>4
    <2>2. QED
        BY <1>3, <1>6, <1>7, <2>1 DEF WriteOnly, ConnTypeOK
<1>14. SavedReferences'
    <2>1. \A j \in 1 .. Len(pager'.saves) : j \in 1 .. Len(pager.saves)
        BY <1>2, <1>3, <1>4
    <2>2. \A j \in 1 .. Len(pager.saves) : Violations(pager.saves[j], Immediate) = {}
        BY DEF SavedReferences, ConnTypeOK
    <2>3. \A j \in 1 .. Len(pager'.saves) : Violations(pager'.saves[j], Immediate) = {}
        BY <1>3, <2>1, <2>2
    <2>4. DOMAIN pager'.saves = 1 .. Len(pager'.saves)
        BY <1>3
    <2>5. QED
        BY <2>3, <2>4 DEF SavedReferences, Violations
<1>15. QED
    BY <1>8, <1>9, <1>10, <1>11, <1>12, <1>13, <1>14

LEMMA RollsBack ==
    ASSUME NEW pg0 \in Pagers, NEW i \in Int, i >= -1,
           pg0.inTrans # "WRITE" => pg0.saves = << >> /\ pg0.rows = pg0.committed,
           NEW pg, pg = BtreeRollbackTo(pg0, i)
    PROVE  /\ pg \in Pagers
           /\ pg.inTrans = pg0.inTrans
           /\ pg.committed = pg0.committed
           /\ i = -1 => pg.rows = pg0.committed
           /\ i # -1 /\ i < Len(pg0.saves) => pg.rows = pg0.saves[i + 1]
           /\ i # -1 /\ i >= Len(pg0.saves) => pg.rows = pg0.rows
           /\ Len(pg.saves) = IF i < Len(pg0.saves) THEN i + 1 ELSE Len(pg0.saves)
           /\ \A j \in 1 .. Len(pg.saves) : pg.saves[j] = pg0.saves[j]
<1>1. CASE pg0.inTrans = "WRITE" /\ i < Len(pg0.saves)
    <2> DEFINE r == IF i = -1 THEN pg0.committed ELSE pg0.saves[i + 1]
    <2>1. /\ SubSeq(pg0.saves, 1, i + 1) \in Seq(SUBSET Rows)
          /\ Len(SubSeq(pg0.saves, 1, i + 1)) = i + 1
          /\ \A j \in 1 .. i + 1 : SubSeq(pg0.saves, 1, i + 1)[j] = pg0.saves[j]
        <3>1. i + 1 \in 0 .. Len(pg0.saves)
            BY <1>1
        <3>2. QED
            BY <3>1, Prefix
    <2>2. r \in SUBSET Rows
        BY <1>1
    <2>3. pg = [pg0 EXCEPT !.rows = r, !.saves = SubSeq(pg0.saves, 1, i + 1)]
        BY <1>1 DEF BtreeRollbackTo
    <2> HIDE DEF r
    <2>4. /\ pg \in Pagers
          /\ pg.inTrans = pg0.inTrans /\ pg.committed = pg0.committed
          /\ pg.rows = r /\ pg.saves = SubSeq(pg0.saves, 1, i + 1)
        BY <2>1, <2>2, <2>3
    <2>5. QED
        BY <1>1, <2>1, <2>4 DEF r
<1>2. CASE ~(pg0.inTrans = "WRITE" /\ i < Len(pg0.saves))
    <2>1. pg = pg0
        BY <1>2 DEF BtreeRollbackTo
    <2>2. pg0.inTrans # "WRITE" => Len(pg0.saves) = 0
        OBVIOUS
    <2>3. Len(pg0.saves) \in Nat
        OBVIOUS
    <2>4. i = -1 => pg0.inTrans # "WRITE"
        BY <1>2, <2>3
    <2>5. i < Len(pg0.saves) => i = -1 /\ Len(pg0.saves) = 0
        BY <1>2, <2>2, <2>3
    <2>6. QED
        BY <2>1, <2>3, <2>4, <2>5
<1>3. QED
    BY <1>1, <1>2

LEMMA RollbackToKeepsInv ==
    ASSUME ConnInv, ~vdbe.runs, UNCHANGED vdbe, NEW k \in DOMAIN pSavepoint,
           pager' = BtreeRollbackTo(pager, Index(k)),
           pSavepoint' = SubSeq(pSavepoint, 1, k),
           conn' = [conn EXCEPT !.nSavepoint = @ - (Len(pSavepoint) - k),
                                !.nDeferredCons = CountSaved(k)]
    PROVE  /\ ConnInv'
           /\ \A j \in 1 .. k : SavedRows(j)' = SavedRows(j)
           /\ pager'.rows = SavedRows(k)
           /\ pager'.committed = pager.committed
<1> USE DEF ConnInv
<1> DEFINE L == Len(pSavepoint)
           i == Index(k)
<1>1. /\ k \in 1 .. L /\ L \in Nat /\ k \in 0 .. L
      /\ i = k - IF conn.isTransactionSavepoint THEN 2 ELSE 1
      /\ i < conn.nSavepoint
    BY IndexOfSavepoint DEF ConnTypeOK
<1>2. i \in Int /\ i >= -1
    BY <1>1
<1> HIDE DEF i
<1>3. /\ pager'.inTrans = pager.inTrans /\ pager'.committed = pager.committed
      /\ pager' \in Pagers
      /\ i = -1 => pager'.rows = pager.committed
      /\ i # -1 /\ i < Len(pager.saves) => pager'.rows = pager.saves[i + 1]
      /\ i # -1 /\ i >= Len(pager.saves) => pager'.rows = pager.rows
      /\ Len(pager'.saves) = IF i < Len(pager.saves) THEN i + 1 ELSE Len(pager.saves)
      /\ \A j \in 1 .. Len(pager'.saves) : pager'.saves[j] = pager.saves[j]
    <2>1. /\ pager \in Pagers
          /\ pager.inTrans # "WRITE" => pager.saves = << >> /\ pager.rows = pager.committed
        BY DEF ConnTypeOK, WriteOnly
    <2>2. pager' = BtreeRollbackTo(pager, i)
        BY DEF i
    <2>3. QED
        BY ONLY <1>2, <2>1, <2>2, RollsBack
<1>4. Len(pager.saves) \in Nat /\ Len(pager'.saves) \in Nat
    BY <1>3 DEF ConnTypeOK
<1>5. /\ Len(pSavepoint') = k /\ pSavepoint' \in Seq(Marks)
      /\ pSavepoint' # << >> /\ pSavepoint # << >>
    <2>1. /\ Len(SubSeq(pSavepoint, 1, k)) = k
          /\ SubSeq(pSavepoint, 1, k) \in Seq(Marks)
        <3>1. pSavepoint \in Seq(Marks)
            BY DEF ConnTypeOK
        <3>2. QED
            BY <1>1, <3>1, Prefix
    <2>2. Len(<< >>) = 0
        OBVIOUS
    <2>3. QED
        BY <1>1, <2>1, <2>2
<1>6. CountSaved(k) = Count(SavedRows(k), Deferred) /\ CountSaved(k) \in Nat
    <2>1. pSavepoint[k] \in Marks
        <3>1. pSavepoint \in Seq(Marks)
            BY DEF ConnTypeOK
        <3>2. QED
            BY <3>1, <1>1, ElementOf
    <2>2. QED
        BY <2>1 DEF SavedCounts, CountSaved
<1>7. /\ conn'.autoCommit = conn.autoCommit /\ conn.autoCommit = FALSE
      /\ conn'.isTransactionSavepoint = conn.isTransactionSavepoint
      /\ conn'.nSavepoint = conn.nSavepoint - (L - k)
      /\ conn'.nStatement = conn.nStatement /\ conn.nStatement = 0
      /\ conn'.nDeferredCons = CountSaved(k)
    BY <1>5 DEF ConnTypeOK, CountersAgree
<1>8. conn'.nSavepoint = i + 1 /\ conn'.nSavepoint \in Nat
    <2>1. conn.nSavepoint \in Nat /\ i = conn.nSavepoint - (L - k) - 1
        BY DEF Index, i, ConnTypeOK
    <2>2. QED
        BY ONLY <1>1, <1>2, <1>7, <2>1, SMTT(30)
<1>9. ConnTypeOK'
    BY <1>3, <1>5, <1>6, <1>7, <1>8 DEF ConnTypeOK
<1>10. CountersAgree'
    <2>1. conn'.nSavepoint = Len(pSavepoint') - IF conn'.isTransactionSavepoint THEN 1 ELSE 0
        BY <1>1, <1>5, <1>7, <1>8
    <2>2. Len(pager'.saves) <= conn'.nSavepoint + conn'.nStatement
        BY <1>2, <1>3, <1>4, <1>7, <1>8
    <2>3. QED
        BY <1>5, <1>7, <2>1, <2>2 DEF CountersAgree
<1>11. pager'.rows = SavedRows(k)
    BY <1>2, <1>3, <1>4 DEF SavedRows, Rows0, i
<1>12. ASSUME NEW j \in 1 .. k
       PROVE  SavedRows(j)' = SavedRows(j)
    <2>1. j \in DOMAIN pSavepoint
        BY <1>1 DEF ConnTypeOK
    <2>2. Index(j)' = Index(j) /\ Index(j) \in Int /\ Index(j) >= -1 /\ Index(j) <= i
        <3>1. Index(j) = j - IF conn.isTransactionSavepoint THEN 2 ELSE 1
            BY <2>1, IndexOfSavepoint
        <3>2. Index(j)' = i + 1 - (k - j) - 1
            <4>1. Index(j)' = conn'.nSavepoint - (Len(pSavepoint') - j) - 1
                BY DEF Index
            <4>2. j \in Int /\ k \in Int
                BY <1>1
            <4>3. QED
                BY ONLY <1>2, <1>5, <1>8, <4>1, <4>2
        <3>3. QED
            BY <1>1, <3>1, <3>2, SMTT(30)
    <2>3. Rows0 = pager.rows /\ Rows0' = pager'.rows
        BY DEF Rows0
    <2>4. CASE Index(j) = -1
        BY <1>3, <2>2, <2>4 DEF SavedRows
    <2>5. CASE Index(j) # -1 /\ Index(j) < Len(pager.saves)
        <3>1. Index(j) < Len(pager'.saves) /\ Index(j) + 1 \in 1 .. Len(pager'.saves)
            BY <1>2, <1>3, <1>4, <2>2, <2>5
        <3>2. pager'.saves[Index(j) + 1] = pager.saves[Index(j) + 1]
            BY <1>3, <3>1
        <3>3. QED
            BY <2>2, <2>5, <3>1, <3>2 DEF SavedRows
    <2>6. CASE Index(j) # -1 /\ Index(j) >= Len(pager.saves)
        <3>1. Index(j) >= Len(pager'.saves) /\ pager'.rows = pager.rows
            BY <1>2, <1>3, <1>4, <2>2, <2>6
        <3>2. ~(Index(j) < Len(pager'.saves)) /\ ~(Index(j) < Len(pager.saves))
            BY <1>4, <2>2, <2>6, <3>1
        <3>3. QED
            BY <2>2, <2>3, <2>6, <3>1, <3>2 DEF SavedRows
    <2>7. QED
        BY <1>4, <2>2, <2>4, <2>5, <2>6
<1>13. SavedCounts'
    <2>1. ConnTypeOK /\ SavedCounts
        OBVIOUS
    <2>2. QED
        BY ONLY <1>1, <1>12, <2>1, SavedCountsOfPrefix, pSavepoint' = SubSeq(pSavepoint, 1, k)
<1>14. /\ \A j \in 1 .. Len(pager.saves) : Violations(pager.saves[j], Immediate) = {}
       /\ Violations(pager.rows, Immediate) = {}
       /\ Violations(pager.committed, Immediate) = {}
    BY ConsistentParts DEF SavedReferences, ReferencesHold, ConnTypeOK
<1>15. ReferencesHold'
    <2>1. Violations(pager'.rows, Immediate) = {}
        <3>1. CASE i = -1
            BY <1>3, <1>14, <3>1
        <3>2. CASE i # -1 /\ i < Len(pager.saves)
            <4>1. i + 1 \in 1 .. Len(pager.saves)
                BY <1>2, <1>4, <3>2
            <4>2. QED
                BY <1>3, <1>14, <3>2, <4>1
        <3>3. CASE i # -1 /\ i >= Len(pager.saves)
            BY <1>3, <1>14, <3>3
        <3>4. QED
            BY <1>2, <1>4, <3>1, <3>2, <3>3
    <2>2. Consistent(pager'.committed)
        BY <1>3 DEF ReferencesHold
    <2>3. QED
        BY <2>1, <2>2 DEF ReferencesHold, Violations, Consistent
<1>16. DeferredCountExact'
    BY <1>6, <1>7, <1>11 DEF DeferredCountExact, Count, Violations
<1>17. WriteOnly'
    <2>1. pager.inTrans # "WRITE" => Len(pager'.saves) = 0 /\ pager'.rows = pager'.committed
        <3>1. pager.inTrans # "WRITE" => Len(pager.saves) = 0 /\ pager.rows = pager.committed
            BY DEF WriteOnly
        <3>2. QED
            BY <1>2, <1>3, <1>4, <3>1
    <2>2. QED
        BY <1>3, <1>7, <2>1 DEF WriteOnly
<1>18. SavedReferences'
    <2>1. \A j \in 1 .. Len(pager'.saves) : j \in 1 .. Len(pager.saves)
        BY <1>2, <1>3, <1>4
    <2>2. \A j \in 1 .. Len(pager'.saves) : Violations(pager'.saves[j], Immediate) = {}
        BY <1>3, <1>14, <2>1
    <2>3. DOMAIN pager'.saves = 1 .. Len(pager'.saves)
        BY <1>3
    <2>4. QED
        BY <2>2, <2>3 DEF SavedReferences, Violations
<1>19. StatementOpen'
    BY DEF StatementOpen
<1>20. QED
    BY <1>3, <1>9, <1>10, <1>11, <1>12, <1>13, <1>15, <1>16, <1>17, <1>18, <1>19

--------------------------------------------------------------------------------
(* Statements that write. *)

LEMMA Opens ==
    ASSUME pager \in Pagers,
           NEW n \in Nat, Len(pager.saves) <= n,
           pager' = OpenSavepoint([pager EXCEPT !.inTrans = "WRITE"], n)
    PROVE  /\ pager' \in Pagers
           /\ pager'.inTrans = "WRITE"
           /\ pager'.committed = pager.committed
           /\ pager'.rows = pager.rows
           /\ Len(pager'.saves) = n
           /\ \A j \in 1 .. Len(pager.saves) : pager'.saves[j] = pager.saves[j]
           /\ \A j \in Len(pager.saves) + 1 .. n : pager'.saves[j] = pager.rows
<1> DEFINE new == [i \in 1 .. n - Len(pager.saves) |-> pager.rows]
<1>0. Len(pager.saves) \in Nat /\ pager.saves \in Seq(SUBSET Rows)
    OBVIOUS
<1>1. /\ new \in Seq(SUBSET Rows) /\ Len(new) = n - Len(pager.saves)
      /\ \A i \in 1 .. n - Len(pager.saves) : new[i] = pager.rows
    BY <1>0, SMTT(30)
<1>2. pager' = [pager EXCEPT !.inTrans = "WRITE", !.saves = pager.saves \o new]
    BY DEF OpenSavepoint
<1>3. /\ pager.saves \o new \in Seq(SUBSET Rows)
      /\ Len(pager.saves \o new) = n
      /\ \A j \in 1 .. Len(pager.saves) : (pager.saves \o new)[j] = pager.saves[j]
      /\ \A j \in Len(pager.saves) + 1 .. n : (pager.saves \o new)[j] = pager.rows
    <2> HIDE DEF new
    <2>1. /\ pager.saves \o new \in Seq(SUBSET Rows)
          /\ Len(pager.saves \o new) = Len(pager.saves) + Len(new)
          /\ \A j \in 1 .. Len(pager.saves) : (pager.saves \o new)[j] = pager.saves[j]
          /\ \A j \in Len(pager.saves) + 1 .. Len(pager.saves) + Len(new) :
                (pager.saves \o new)[j] = new[j - Len(pager.saves)]
        BY ONLY <1>0, <1>1, Concatenation
    <2>2. \A j \in Len(pager.saves) + 1 .. n : j - Len(pager.saves) \in 1 .. n - Len(pager.saves)
        BY <1>0
    <2>3. Len(pager.saves) + Len(new) = n
        BY <1>0, <1>1
    <2>4. QED
        BY <1>1, <2>1, <2>2, <2>3
<1> HIDE DEF new
<1>4. QED
    BY <1>2, <1>3

\* A statement began with n savepoints open, and one of its own unless iStatement is 0.
LEMMA OpenedKeepsInv ==
    ASSUME ConnInv, ~vdbe.runs, UNCHANGED pSavepoint,
           NEW journal \in BOOLEAN, NEW iStatement \in Nat, NEW err \in {"OK", "NOMEM"},
           NEW n \in Nat, Len(pager.saves) <= n,
           n <= conn.nSavepoint + IF iStatement = 0 THEN 0 ELSE 1,
           err = "OK" => n = conn.nSavepoint + IF iStatement = 0 THEN 0 ELSE 1,
           err = "OK" /\ NeedsStatement(journal) => iStatement # 0,
           iStatement # 0 => iStatement = conn.nSavepoint + 1,
           pager' = OpenSavepoint([pager EXCEPT !.inTrans = "WRITE"], n),
           vdbe' = NewVdbe(journal, iStatement, err),
           conn' = IF iStatement = 0 THEN conn ELSE [conn EXCEPT !.nStatement = @ + 1]
    PROVE  ConnInv' /\ \A k \in DOMAIN pSavepoint : SavedRows(k)' = SavedRows(k)
<1> USE DEF ConnInv
<1>1. /\ pager' \in Pagers
      /\ pager'.inTrans = "WRITE" /\ pager'.committed = pager.committed
      /\ pager'.rows = pager.rows /\ Len(pager'.saves) = n
      /\ \A j \in 1 .. Len(pager.saves) : pager'.saves[j] = pager.saves[j]
      /\ \A j \in Len(pager.saves) + 1 .. n : pager'.saves[j] = pager.rows
    <2>1. pager \in Pagers
        BY DEF ConnTypeOK
    <2>2. QED
        BY ONLY <2>1, n \in Nat, Len(pager.saves) <= n, Opens,
           pager' = OpenSavepoint([pager EXCEPT !.inTrans = "WRITE"], n)
<1>2. Len(pager.saves) \in Nat /\ Len(pager.saves) <= conn.nSavepoint /\ conn.nStatement = 0
      /\ conn.nSavepoint \in Nat
    BY DEF ConnTypeOK, CountersAgree
<1>3. /\ conn'.autoCommit = conn.autoCommit
      /\ conn'.isTransactionSavepoint = conn.isTransactionSavepoint
      /\ conn'.nSavepoint = conn.nSavepoint
      /\ conn'.nStatement = IF iStatement = 0 THEN 0 ELSE 1
      /\ conn'.nDeferredCons = conn.nDeferredCons
    BY <1>2 DEF ConnTypeOK
<1>4. /\ vdbe'.runs = TRUE /\ vdbe'.usesStmtJournal = journal
      /\ vdbe'.iStatement = iStatement /\ vdbe'.nStmtDefCons = conn.nDeferredCons
      /\ vdbe'.nFkConstraint = 0 /\ vdbe'.err = err /\ vdbe'.changed = 0
      /\ vdbe'.before = pager.rows
    BY DEF NewVdbe
<1>5. conn.nDeferredCons = Count(pager.rows, Deferred)
      /\ Count(pager.rows, Immediate) = 0 /\ Violations(pager.rows, Immediate) = {}
    BY CountZero DEF DeferredCountExact, ReferencesHold, Count, Children
<1>6. ConnTypeOK'
    <2>1. vdbe' \in Statements
        BY DEF NewVdbe, Statements, ConnTypeOK
    <2>2. conn' \in Counters
        <3>1. conn \in Counters
            BY DEF ConnTypeOK
        <3>2. CASE iStatement = 0
            BY <3>1, <3>2
        <3>3. CASE iStatement # 0
            <4>1. conn' = [conn EXCEPT !.nStatement = conn.nStatement + 1]
                BY <3>3
            <4>2. QED
                BY ONLY <3>1, <4>1 DEF Counters
        <3>4. QED
            BY ONLY <3>2, <3>3
    <2>3. QED
        BY <1>1, <2>1, <2>2 DEF ConnTypeOK
<1>7. CountersAgree'
    <2>1. conn'.nStatement = IF vdbe'.runs /\ vdbe'.iStatement > 0 THEN 1 ELSE 0
        BY <1>3, <1>4
    <2>2. vdbe'.iStatement > 0 => vdbe'.iStatement = conn'.nStatement + conn'.nSavepoint
        BY <1>2, <1>3, <1>4
    <2>3. Len(pager'.saves) <= conn'.nSavepoint + conn'.nStatement
        BY <1>1, <1>2, <1>3
    <2>4. QED
        BY <1>3, <2>1, <2>2, <2>3 DEF CountersAgree
<1>8. ASSUME NEW k \in DOMAIN pSavepoint
      PROVE  SavedRows(k)' = SavedRows(k)
    <2>1. /\ Index(k) \in Int /\ Index(k) >= -1 /\ Index(k) < conn.nSavepoint
          /\ Index(k)' = Index(k)
        <3>1. /\ k \in 1 .. Len(pSavepoint) /\ Index(k) < conn.nSavepoint
              /\ Index(k) = k - IF conn.isTransactionSavepoint THEN 2 ELSE 1
            BY IndexOfSavepoint
        <3>2. Index(k)' = Index(k)
            BY <1>3 DEF Index
        <3>3. QED
            BY ONLY <3>1, <3>2
    <2>2. Rows0' = Rows0 /\ Rows0 = pager.rows
        BY <1>4 DEF Rows0
    <2>3. CASE Index(k) = -1
        BY <1>1, <2>1, <2>3 DEF SavedRows
    <2>4. CASE Index(k) # -1 /\ Index(k) < Len(pager.saves)
        <3>1. Index(k) + 1 \in 1 .. Len(pager.saves) /\ Index(k) < n
            BY <1>2, <2>1, <2>4
        <3>2. QED
            BY <1>1, <2>1, <2>4, <3>1 DEF SavedRows
    <2>5. CASE Index(k) # -1 /\ ~(Index(k) < Len(pager.saves))
        <3>1. Index(k) < n => Index(k) + 1 \in Len(pager.saves) + 1 .. n
            BY <1>2, <2>1, <2>5
        <3>2. QED
            BY <1>1, <2>1, <2>2, <2>5, <3>1 DEF SavedRows
    <2>6. QED
        BY <2>3, <2>4, <2>5
<1>9. SavedCounts'
    BY <1>8 DEF SavedCounts, Count, Violations
<1>10. DeferredCountExact' /\ ReferencesHold' /\ WriteOnly'
    BY <1>1, <1>3, <1>4 DEF DeferredCountExact, ReferencesHold, WriteOnly, Violations, Consistent
<1>11. SavedReferences'
    <2>1. \A j \in 1 .. Len(pager.saves) : Violations(pager.saves[j], Immediate) = {}
        BY DEF SavedReferences, ConnTypeOK
    <2>2. \A j \in 1 .. n : j \in 1 .. Len(pager.saves) \/ j \in Len(pager.saves) + 1 .. n
        BY <1>2
    <2>3. \A j \in 1 .. n : Violations(pager'.saves[j], Immediate) = {}
        BY <1>1, <1>5, <2>1, <2>2
    <2>4. DOMAIN pager'.saves = 1 .. n
        BY <1>1
    <2>5. QED
        BY <2>3, <2>4 DEF SavedReferences, Violations
<1>12. StatementOpen'
    <2>1. vdbe'.nStmtDefCons = Count(vdbe'.before, Deferred)
        BY <1>4, <1>5
    <2>2. vdbe'.nFkConstraint = Count(pager'.rows, Immediate)
        BY <1>1, <1>4, <1>5
    <2>3. Violations(vdbe'.before, Immediate) = {}
        BY <1>4, <1>5
    <2>4. Len(pager'.saves) < conn'.nSavepoint + conn'.nStatement => vdbe'.err = "NOMEM"
        BY <1>1, <1>2, <1>3, <1>4
    <2>5. iStatement > 0 /\ n >= iStatement => pager'.saves[iStatement] = pager.rows
        <3>1. iStatement > 0 /\ n >= iStatement => iStatement \in Len(pager.saves) + 1 .. n
            BY <1>2
        <3>2. QED
            BY <1>1, <3>1
    <2>6. vdbe'.usesStmtJournal /\ ~conn'.autoCommit /\ vdbe'.iStatement = 0 => vdbe'.err = "NOMEM"
        BY <1>3, <1>4 DEF NeedsStatement
    <2>7. QED
        BY <1>1, <1>4, <2>1, <2>2, <2>3, <2>4, <2>5, <2>6 DEF StatementOpen, Count, Violations
<1>13. QED
    BY <1>6, <1>7, <1>8, <1>9, <1>10, <1>11, <1>12

LEMMA OpTransactionKeepsInv ==
    ASSUME ConnInv, NEW journal \in BOOLEAN, OpTransaction(journal)
    PROVE  ConnInv' /\ \A k \in DOMAIN pSavepoint : SavedRows(k)' = SavedRows(k)
<1> DEFINE iStatement == IF NeedsStatement(journal) THEN conn.nSavepoint + conn.nStatement + 1 ELSE 0
           started == [pager EXCEPT !.inTrans = "WRITE"]
           needed == IF iStatement = 0 THEN conn.nSavepoint ELSE iStatement
           counted == [conn EXCEPT !.nStatement = @ + 1]
<1>1. /\ ~vdbe.runs /\ UNCHANGED pSavepoint
      /\ conn.nStatement = 0 /\ conn.nSavepoint \in Nat
      /\ Len(pager.saves) \in Nat /\ Len(pager.saves) <= conn.nSavepoint
    BY SMTT(30) DEF OpTransaction, ConnInv, ConnTypeOK, CountersAgree
<1>2. /\ iStatement \in Nat /\ (iStatement # 0 => iStatement = conn.nSavepoint + 1)
      /\ (NeedsStatement(journal) => iStatement # 0)
      /\ needed \in Nat /\ Len(pager.saves) <= needed
      /\ needed = conn.nSavepoint + IF iStatement = 0 THEN 0 ELSE 1
    BY <1>1
<1>3. \/ /\ pager' = OpenSavepoint(started, needed)
         /\ vdbe' = NewVdbe(journal, iStatement, "OK")
         /\ conn' = IF iStatement = 0 THEN conn ELSE counted
      \/ \E n \in Len(pager.saves) .. needed - 1 :
            /\ pager' = OpenSavepoint(started, n)
            /\ IF n < conn.nSavepoint
               THEN vdbe' = NewVdbe(journal, 0, "NOMEM") /\ conn' = conn
               ELSE vdbe' = NewVdbe(journal, iStatement, "NOMEM") /\ conn' = counted
    BY DEF OpTransaction
<1> HIDE DEF iStatement, needed
<1>4. CASE /\ pager' = OpenSavepoint(started, needed)
           /\ vdbe' = NewVdbe(journal, iStatement, "OK")
           /\ conn' = IF iStatement = 0 THEN conn ELSE counted
    BY <1>1, <1>2, <1>4, OpenedKeepsInv
<1>5. ASSUME NEW n \in Len(pager.saves) .. needed - 1,
             pager' = OpenSavepoint(started, n),
             IF n < conn.nSavepoint
             THEN vdbe' = NewVdbe(journal, 0, "NOMEM") /\ conn' = conn
             ELSE vdbe' = NewVdbe(journal, iStatement, "NOMEM") /\ conn' = counted
      PROVE  ConnInv' /\ \A k \in DOMAIN pSavepoint : SavedRows(k)' = SavedRows(k)
    <2>1. n \in Nat /\ Len(pager.saves) <= n
        BY <1>1, <1>2
    <2>2. CASE n < conn.nSavepoint
        BY <1>1, <1>5, <2>1, <2>2, OpenedKeepsInv
    <2>3. CASE ~(n < conn.nSavepoint)
        <3>1. iStatement # 0 /\ n <= conn.nSavepoint + 1
            BY <1>1, <1>2, <2>1, <2>3
        <3>2. QED
            BY <1>1, <1>2, <1>5, <2>1, <2>3, <3>1, OpenedKeepsInv
    <2>4. QED
        BY <2>2, <2>3
<1>6. QED
    BY <1>3, <1>4, <1>5

LEMMA ChangeRowKeepsInv ==
    ASSUME ConnInv, NEW r \in Rows, NEW rows \in SUBSET Rows,
           ChangeRow(r, rows, Count(rows, Deferred), Count(rows, Immediate))
    PROVE  ConnInv' /\ \A k \in DOMAIN pSavepoint : SavedRows(k)' = SavedRows(k)
<1> USE DEF ConnInv
<1>0. /\ vdbe.runs /\ vdbe.err = "OK" /\ UNCHANGED pSavepoint
      /\ vdbe.usesStmtJournal \/ Count(rows, Immediate) = 0
      /\ Count(rows, Deferred) \in Nat /\ Count(rows, Immediate) \in Nat
    BY CountIsNat DEF ChangeRow, Children
<1>1. /\ pager'.rows = rows /\ pager'.committed = pager.committed
      /\ pager'.saves = pager.saves /\ pager'.inTrans = pager.inTrans
      /\ pager' \in Pagers
    BY DEF ChangeRow, ConnTypeOK
<1>2. /\ conn'.autoCommit = conn.autoCommit
      /\ conn'.isTransactionSavepoint = conn.isTransactionSavepoint
      /\ conn'.nSavepoint = conn.nSavepoint /\ conn'.nStatement = conn.nStatement
      /\ conn'.nDeferredCons = Count(rows, Deferred)
    BY DEF ChangeRow, ConnTypeOK
<1>3. vdbe \in Statements
    BY <1>0 DEF ConnTypeOK, Idle
<1>4. /\ vdbe'.runs = TRUE /\ vdbe'.err = "OK" /\ vdbe'.usesStmtJournal = vdbe.usesStmtJournal
      /\ vdbe'.iStatement = vdbe.iStatement /\ vdbe'.nStmtDefCons = vdbe.nStmtDefCons
      /\ vdbe'.nFkConstraint = Count(rows, Immediate) /\ vdbe'.before = vdbe.before
      /\ vdbe'.changed # 0 /\ vdbe' \in Statements
    <2> DEFINE f == Count(rows, Immediate)
               c == vdbe.changed + 1
    <2>1. vdbe' = [vdbe EXCEPT !.nFkConstraint = f, !.changed = c]
        BY DEF ChangeRow
    <2>2. c \in Nat /\ c # 0 /\ f \in Nat
        BY <1>0, <1>3 DEF Statements
    <2> HIDE DEF f, c
    <2>3. vdbe' \in Statements /\ vdbe'.nFkConstraint = f /\ vdbe'.changed = c
        BY ONLY <1>3, <2>1, <2>2 DEF Statements
    <2>4. /\ vdbe'.runs = vdbe.runs /\ vdbe'.err = vdbe.err
          /\ vdbe'.usesStmtJournal = vdbe.usesStmtJournal
          /\ vdbe'.iStatement = vdbe.iStatement /\ vdbe'.nStmtDefCons = vdbe.nStmtDefCons
          /\ vdbe'.before = vdbe.before
        BY ONLY <1>3, <2>1 DEF Statements
    <2>5. vdbe.runs = TRUE
        BY <1>3 DEF Statements
    <2>6. QED
        BY <1>0, <2>2, <2>3, <2>4, <2>5 DEF f
<1>5. ConnTypeOK'
    BY <1>0, <1>1, <1>2, <1>4 DEF ConnTypeOK, ChangeRow
<1>6. CountersAgree'
    BY <1>0, <1>1, <1>2, <1>4 DEF CountersAgree
<1>7. \A k \in DOMAIN pSavepoint : SavedRows(k)' = SavedRows(k)
    BY <1>0, <1>1, <1>2, <1>4 DEF SavedRows, Index, Rows0
<1>8. SavedCounts'
    BY <1>0, <1>7 DEF SavedCounts, Count, Violations
<1>9. DeferredCountExact' /\ ReferencesHold' /\ WriteOnly' /\ SavedReferences'
    BY <1>0, <1>1, <1>2, <1>4 DEF DeferredCountExact, ReferencesHold, WriteOnly, SavedReferences,
       StatementOpen, Count, Violations, Consistent
<1>10. StatementOpen'
    BY <1>0, <1>1, <1>2, <1>4 DEF StatementOpen, Count, Violations
<1>11. QED
    BY <1>5, <1>6, <1>7, <1>8, <1>9, <1>10

LEMMA InsertRowKeepsInv ==
    ASSUME ConnInv, NEW r \in Rows, InsertRow(r)
    PROVE  ConnInv' /\ \A k \in DOMAIN pSavepoint : SavedRows(k)' = SavedRows(k)
<1> DEFINE rows == pager.rows \cup {r}
<1>1. pager.rows \in SUBSET Rows /\ rows \in SUBSET Rows /\ r \notin pager.rows /\ vdbe.runs
    BY DEF ConnInv, ConnTypeOK, InsertRow, ChangeRow
<1>2. AfterInsert(conn.nDeferredCons, r, Deferred) = Count(rows, Deferred)
    BY <1>1, CountInsert DEF ConnInv, DeferredCountExact, Count
<1>3. AfterInsert(vdbe.nFkConstraint, r, Immediate) = Count(rows, Immediate)
    BY <1>1, CountInsert DEF ConnInv, StatementOpen, Count
<1>4. ChangeRow(r, rows, Count(rows, Deferred), Count(rows, Immediate))
    BY <1>2, <1>3 DEF InsertRow
<1>5. QED
    BY <1>1, <1>4, ChangeRowKeepsInv

LEMMA DeleteRowKeepsInv ==
    ASSUME ConnInv, NEW r \in Rows, DeleteRow(r)
    PROVE  ConnInv' /\ \A k \in DOMAIN pSavepoint : SavedRows(k)' = SavedRows(k)
<1> DEFINE rows == pager.rows \ {r}
<1>1. pager.rows \in SUBSET Rows /\ rows \in SUBSET Rows /\ r \in pager.rows /\ vdbe.runs
    BY DEF ConnInv, ConnTypeOK, DeleteRow, ChangeRow
<1>2. AfterDelete(conn.nDeferredCons, r, Deferred) = Count(rows, Deferred)
    BY <1>1, CountDelete DEF ConnInv, DeferredCountExact, Count
<1>3. AfterDelete(vdbe.nFkConstraint, r, Immediate) = Count(rows, Immediate)
    BY <1>1, CountDelete DEF ConnInv, StatementOpen, Count
<1>4. ChangeRow(r, rows, Count(rows, Deferred), Count(rows, Immediate))
    BY <1>2, <1>3 DEF DeleteRow
<1>5. QED
    BY <1>1, <1>4, ChangeRowKeepsInv

\* The statement ends inside a transaction, with the pager's savepoints up to
\* its own and the rows that are to be.
StatementEnded(rows) ==
    /\ vdbe.runs /\ ~conn.autoCommit
    /\ vdbe' = Idle
    /\ UNCHANGED pSavepoint
    /\ pager' \in Pagers
    /\ pager'.inTrans = pager.inTrans /\ pager'.committed = pager.committed
    /\ pager'.rows = rows
    /\ Len(pager'.saves) = IF conn.nSavepoint < Len(pager.saves)
                           THEN conn.nSavepoint ELSE Len(pager.saves)
    /\ \A j \in 1 .. Len(pager'.saves) : pager'.saves[j] = pager.saves[j]
    /\ Len(pager.saves) >= conn.nSavepoint \/ rows = vdbe.before
    /\ Violations(rows, Immediate) = {}
    /\ conn' = [conn EXCEPT !.nStatement = 0, !.nDeferredCons = Count(rows, Deferred)]

LEMMA StatementEnds ==
    ASSUME ConnInv, NEW rows, StatementEnded(rows)
    PROVE  ConnInv' /\ \A k \in DOMAIN pSavepoint : SavedRows(k)' = SavedRows(k)
<1> USE DEF StatementEnded
<1> USE DEF ConnInv
<1>1. /\ Len(pager.saves) \in Nat /\ Len(pager'.saves) \in Nat /\ conn.nSavepoint \in Nat
      /\ Count(pager'.rows, Deferred) \in Nat /\ pager.inTrans = "WRITE"
    BY CountIsNat DEF ConnTypeOK, Children, StatementOpen
<1>2. /\ conn'.autoCommit = conn.autoCommit
      /\ conn'.isTransactionSavepoint = conn.isTransactionSavepoint
      /\ conn'.nSavepoint = conn.nSavepoint /\ conn'.nStatement = 0
      /\ conn'.nDeferredCons = Count(pager'.rows, Deferred)
      /\ vdbe'.runs = FALSE
    BY DEF ConnTypeOK, Idle
<1>3. ConnTypeOK'
    BY <1>1 DEF ConnTypeOK
<1>4. CountersAgree'
    <2>1. Len(pager'.saves) <= conn'.nSavepoint
        BY <1>1, <1>2
    <2>2. QED
        BY <1>1, <1>2, <2>1 DEF CountersAgree
<1>5. ASSUME NEW k \in DOMAIN pSavepoint
      PROVE  SavedRows(k)' = SavedRows(k)
    <2>1. /\ Index(k) \in Int /\ Index(k) >= -1 /\ Index(k) < conn.nSavepoint
          /\ Index(k)' = Index(k)
        <3>1. /\ k \in 1 .. Len(pSavepoint) /\ Index(k) < conn.nSavepoint
              /\ Index(k) = k - IF conn.isTransactionSavepoint THEN 2 ELSE 1
            BY IndexOfSavepoint
        <3>2. Index(k)' = Index(k)
            BY <1>2 DEF Index
        <3>3. QED
            BY ONLY <3>1, <3>2
    <2>2. Rows0 = vdbe.before /\ Rows0' = pager'.rows
        BY <1>2 DEF Rows0
    <2>3. CASE Index(k) = -1
        BY <2>1, <2>3 DEF SavedRows
    <2>4. CASE Index(k) # -1 /\ Index(k) < Len(pager.saves)
        <3>1. Index(k) + 1 \in 1 .. Len(pager'.saves) /\ Index(k) < Len(pager'.saves)
            BY <1>1, <2>1, <2>4
        <3>2. QED
            BY <2>1, <2>4, <3>1 DEF SavedRows
    <2>5. CASE Index(k) # -1 /\ ~(Index(k) < Len(pager.saves))
        <3>1. ~(Index(k) < Len(pager'.saves)) /\ pager'.rows = vdbe.before
            BY <1>1, <2>1, <2>5
        <3>2. QED
            BY <2>1, <2>2, <2>5, <3>1 DEF SavedRows
    <2>6. QED
        BY <2>3, <2>4, <2>5
<1>6. SavedCounts'
    BY <1>5 DEF SavedCounts, Count, Violations
<1>7. DeferredCountExact' /\ ReferencesHold' /\ WriteOnly' /\ StatementOpen'
    BY <1>1, <1>2 DEF DeferredCountExact, ReferencesHold, WriteOnly, StatementOpen, Count,
       Violations, Consistent
<1>8. SavedReferences'
    <2>1. \A j \in 1 .. Len(pager.saves) : Violations(pager.saves[j], Immediate) = {}
        BY DEF SavedReferences, ConnTypeOK
    <2>2. \A j \in 1 .. Len(pager'.saves) : j \in 1 .. Len(pager.saves)
        BY <1>1
    <2>3. \A j \in 1 .. Len(pager'.saves) : Violations(pager'.saves[j], Immediate) = {}
        BY <2>1, <2>2
    <2>4. DOMAIN pager'.saves = 1 .. Len(pager'.saves)
        OBVIOUS
    <2>5. QED
        BY <2>3, <2>4 DEF SavedReferences, Violations
<1>9. QED
    BY <1>3, <1>4, <1>5, <1>6, <1>7, <1>8

\* What is known of a statement with a savepoint of its own, and of one without.
LEMMA StatementSavepoint ==
    ASSUME ConnInv, vdbe.runs
    PROVE  /\ vdbe \in Statements
           /\ Len(pager.saves) \in Nat /\ conn.nSavepoint \in Nat
           /\ HasStatement <=> vdbe.iStatement # 0
           /\ HasStatement => conn.nStatement = 1 /\ vdbe.iStatement = conn.nSavepoint + 1
           /\ ~HasStatement => conn.nStatement = 0 /\ Len(pager.saves) <= conn.nSavepoint
<1>1. vdbe \in Statements
    BY DEF ConnInv, ConnTypeOK, Idle
<1>2. vdbe.iStatement \in Nat
    BY <1>1 DEF Statements
<1>3. /\ Len(pager.saves) \in Nat /\ conn.nSavepoint \in Nat
      /\ conn.nStatement = IF vdbe.iStatement > 0 THEN 1 ELSE 0
      /\ vdbe.iStatement > 0 => vdbe.iStatement = conn.nStatement + conn.nSavepoint
      /\ Len(pager.saves) <= conn.nSavepoint + conn.nStatement
    <2>1. Len(pager.saves) \in Nat /\ conn.nSavepoint \in Nat
        BY DEF ConnInv, ConnTypeOK
    <2>2. CountersAgree /\ vdbe.runs
        BY DEF ConnInv
    <2>3. QED
        BY ONLY <2>1, <2>2 DEF CountersAgree
<1>4. HasStatement <=> vdbe.iStatement > 0
    BY <1>2, <1>3 DEF HasStatement
<1>5. QED
    BY <1>1, <1>2, <1>3, <1>4

LEMMA ReleaseEnds ==
    ASSUME ConnInv, vdbe.runs, ~conn.autoCommit, vdbe' = Idle, UNCHANGED pSavepoint,
           ReleaseStatement, vdbe.err = "OK", vdbe.nFkConstraint = 0
    PROVE  StatementEnded(pager.rows)
<1> USE DEF ConnInv
<1>1. pager \in Pagers /\ (pager.inTrans # "WRITE" => pager.saves = << >>)
    BY DEF ConnTypeOK, WriteOnly
<1>2. /\ conn.nDeferredCons = Count(pager.rows, Deferred) /\ conn \in Counters
      /\ Violations(pager.rows, Immediate) = {}
      /\ Len(pager.saves) >= conn.nSavepoint + conn.nStatement
      /\ Len(pager.saves) \in Nat /\ conn.nSavepoint \in Nat /\ conn.nStatement \in Nat
    BY CountZero DEF DeferredCountExact, StatementOpen, Count, Children, ConnTypeOK
<1>3. CASE HasStatement
    <2>1. vdbe.iStatement - 1 = conn.nSavepoint /\ conn.nStatement = 1
        BY <1>3, <1>2, StatementSavepoint
    <2>2. pager' = BtreeRelease(pager, conn.nSavepoint)
        BY <1>3, <2>1 DEF ReleaseStatement
    <2>3. /\ pager' \in Pagers /\ pager'.inTrans = pager.inTrans
          /\ pager'.committed = pager.committed /\ pager'.rows = pager.rows
          /\ Len(pager'.saves) = IF conn.nSavepoint < Len(pager.saves)
                                 THEN conn.nSavepoint ELSE Len(pager.saves)
          /\ \A j \in 1 .. Len(pager'.saves) : pager'.saves[j] = pager.saves[j]
        BY ONLY <1>1, <1>2, <2>2, Releases
    <2>4. conn' = [conn EXCEPT !.nStatement = 0]
        BY <1>3, <2>1 DEF ReleaseStatement
    <2>5. conn' = [conn EXCEPT !.nStatement = 0, !.nDeferredCons = Count(pager.rows, Deferred)]
        BY <1>2, <2>4
    <2>6. QED
        BY <1>2, <2>3, <2>5 DEF StatementEnded
<1>4. CASE ~HasStatement
    <2>1. conn.nStatement = 0 /\ Len(pager.saves) <= conn.nSavepoint
        BY <1>4, StatementSavepoint
    <2>2. pager' = pager /\ conn' = conn
        BY <1>4 DEF ReleaseStatement
    <2>3. conn' = [conn EXCEPT !.nStatement = 0, !.nDeferredCons = Count(pager.rows, Deferred)]
        BY <1>2, <2>1, <2>2
    <2>4. Len(pager'.saves) = IF conn.nSavepoint < Len(pager.saves)
                              THEN conn.nSavepoint ELSE Len(pager.saves)
        BY <1>2, <2>1, <2>2
    <2>5. QED
        BY <1>1, <1>2, <2>2, <2>3, <2>4 DEF StatementEnded
<1>5. QED
    BY <1>3, <1>4

LEMMA RollbackEnds ==
    ASSUME ConnInv, vdbe.runs, ~conn.autoCommit, vdbe' = Idle, UNCHANGED pSavepoint,
           RollbackStatement,
           vdbe.changed = 0 \/ vdbe.usesStmtJournal
    PROVE  StatementEnded(vdbe.before)
<1> USE DEF ConnInv
<1>1. pager \in Pagers /\ (pager.inTrans # "WRITE" => pager.saves = << >> /\ pager.rows = pager.committed)
    BY DEF ConnTypeOK, WriteOnly
<1>2. /\ vdbe.nStmtDefCons = Count(vdbe.before, Deferred) /\ conn \in Counters
      /\ conn.nDeferredCons = Count(pager.rows, Deferred)
      /\ Violations(vdbe.before, Immediate) = {}
      /\ Len(pager.saves) < conn.nSavepoint + conn.nStatement => pager.rows = vdbe.before
      /\ Len(pager.saves) \in Nat /\ conn.nSavepoint \in Nat /\ conn.nStatement \in Nat
    BY DEF DeferredCountExact, StatementOpen, Count, ConnTypeOK
<1>3. CASE HasStatement
    <2> DEFINE i == vdbe.iStatement - 1
               pg == BtreeRollbackTo(pager, i)
    <2>1. i = conn.nSavepoint /\ conn.nStatement = 1 /\ vdbe.iStatement = conn.nSavepoint + 1
        BY <1>2, <1>3, StatementSavepoint
    <2>2. pager' = BtreeRelease(pg, i)
        BY <1>3 DEF RollbackStatement
    <2>3. conn' = [conn EXCEPT !.nStatement = 0, !.nDeferredCons = Count(vdbe.before, Deferred)]
        BY <1>2, <1>3, <2>1 DEF RollbackStatement
    <2>4. i \in Nat /\ i \in Int /\ i >= -1 /\ i # -1
        BY <1>2, <2>1
    <2>5. pg = BtreeRollbackTo(pager, i)
        OBVIOUS
    <2> HIDE DEF i, pg
    <2>6. /\ pg \in Pagers /\ pg.inTrans = pager.inTrans /\ pg.committed = pager.committed
          /\ i # -1 /\ i < Len(pager.saves) => pg.rows = pager.saves[i + 1]
          /\ i # -1 /\ i >= Len(pager.saves) => pg.rows = pager.rows
          /\ Len(pg.saves) = IF i < Len(pager.saves) THEN i + 1 ELSE Len(pager.saves)
          /\ \A j \in 1 .. Len(pg.saves) : pg.saves[j] = pager.saves[j]
        BY ONLY <1>1, <2>4, <2>5, RollsBack
    <2>7. pg.inTrans # "WRITE" => pg.saves = << >>
        <3>1. pg.inTrans # "WRITE" => Len(pager.saves) = 0
            BY <1>1, <2>6
        <3>2. Len(pager.saves) = 0 => Len(pg.saves) = 0
            BY <2>4, <2>6
        <3>3. QED
            BY <2>6, <3>1, <3>2
    <2>8. /\ pager' \in Pagers /\ pager'.inTrans = pg.inTrans
          /\ pager'.committed = pg.committed /\ pager'.rows = pg.rows
          /\ Len(pager'.saves) = IF i < Len(pg.saves) THEN i ELSE Len(pg.saves)
          /\ \A j \in 1 .. Len(pager'.saves) : pager'.saves[j] = pg.saves[j]
        BY ONLY <2>2, <2>4, <2>6, <2>7, Releases
    <2>9. pager'.rows = vdbe.before
        <3>1. CASE i < Len(pager.saves)
            <4>1. vdbe.iStatement > 0 /\ Len(pager.saves) >= vdbe.iStatement
                BY <1>2, <2>1, <3>1
            <4>2. pager.saves[i + 1] = vdbe.before
                BY <2>1, <4>1 DEF StatementOpen
            <4>3. QED
                BY <2>4, <2>6, <2>8, <3>1, <4>2
        <3>2. CASE i >= Len(pager.saves)
            <4>1. pager.rows = vdbe.before
                BY <1>2, <2>1, <3>2
            <4>2. QED
                BY <2>4, <2>6, <2>8, <3>2, <4>1
        <3>3. QED
            BY <1>2, <2>4, <3>1, <3>2
    <2>10. Len(pager'.saves) = IF conn.nSavepoint < Len(pager.saves)
                               THEN conn.nSavepoint ELSE Len(pager.saves)
        BY <1>2, <2>1, <2>4, <2>6, <2>8
    <2>11. \A j \in 1 .. Len(pager'.saves) : pager'.saves[j] = pager.saves[j]
        <3>1. \A j \in 1 .. Len(pager'.saves) : j \in 1 .. Len(pg.saves)
            BY <1>2, <2>4, <2>6, <2>8
        <3>2. QED
            BY <2>6, <2>8, <3>1
    <2>12. QED
        BY <1>2, <2>3, <2>6, <2>8, <2>9, <2>10, <2>11 DEF StatementEnded
<1>4. CASE ~HasStatement
    <2>1. conn.nStatement = 0 /\ Len(pager.saves) <= conn.nSavepoint /\ vdbe.iStatement = 0
        BY <1>4, StatementSavepoint
    <2>2. pager' = pager /\ conn' = conn
        BY <1>4 DEF RollbackStatement
    <2>3. pager.rows = vdbe.before
        BY <2>1 DEF StatementOpen
    <2>4. conn' = [conn EXCEPT !.nStatement = 0, !.nDeferredCons = Count(vdbe.before, Deferred)]
        BY <1>2, <2>1, <2>2, <2>3
    <2>5. Len(pager'.saves) = IF conn.nSavepoint < Len(pager.saves)
                              THEN conn.nSavepoint ELSE Len(pager.saves)
        BY <1>2, <2>1, <2>2
    <2>6. QED
        BY <1>1, <1>2, <2>2, <2>3, <2>4, <2>5 DEF StatementEnded
<1>5. QED
    BY <1>3, <1>4

--------------------------------------------------------------------------------
(* The end of a statement. *)

Ended(d) ==
    /\ conn.nDeferredCons = 0 /\ Violations(pager.rows, Immediate) = {}
    /\ conn' = NoTransaction /\ pSavepoint' = << >> /\ vdbe' = Idle
    /\ pager' = BtreeCommit(pager, d)

\* The four ways in which sqlite3VdbeHalt ends a statement that writes.
LEMMA HaltCases ==
    ASSUME ConnInv, ~FailOnViolation, NEW err \in Ends, VdbeHalt(err)
    PROVE  /\ vdbe.runs /\ vdbe' = Idle
           /\ \/ GiveUp(reading)
              \/ Ended(reading) /\ conn.autoCommit /\ result' \in {"OK", "FAIL"}
              \/ StatementEnded(pager.rows) /\ result' \in {"OK", "FAIL"}
              \/ StatementEnded(vdbe.before) /\ result' = "ABORT"
<1> USE DEF ConnInv
<1> DEFINE res == Checked(err)
           forced == (err = "IOERR") \/ (err = "NOMEM" /\ ~vdbe.usesStmtJournal)
           kept == res \in {"OK", "FAIL"}
<1>1. vdbe.runs /\ MayEnd(err) /\ vdbe' = Idle
    BY DEF VdbeHalt
<1>2. vdbe \in Statements /\ vdbe.nFkConstraint \in Nat /\ vdbe.err \in {"OK", "NOMEM"}
    BY <1>1, StatementSavepoint DEF Statements
<1>3. kept => vdbe.err = "OK" /\ vdbe.nFkConstraint = 0 /\ ~forced
    BY <1>1, <1>2 DEF MayEnd, Checked, Ends
<1>4. vdbe.nFkConstraint = 0 => Violations(pager.rows, Immediate) = {}
    BY <1>1, CountZero DEF StatementOpen, Count, Children
<1>5. res \in {"ABORT", "NOMEM"} /\ ~forced => vdbe.changed = 0 \/ vdbe.usesStmtJournal
    BY <1>1, <1>2 DEF MayEnd, Checked, Ends, StatementOpen
<1> HIDE DEF res, forced
<1>6. \/ GiveUp(reading)
      \/ /\ conn.autoCommit \/ forced
         /\ kept /\ conn.nDeferredCons = 0
         /\ pager' = BtreeCommit(pager, reading)
         /\ conn' = [conn EXCEPT !.nStatement = 0]
         /\ result' = res
         /\ UNCHANGED pSavepoint
      \/ /\ ~conn.autoCommit /\ ~forced /\ UNCHANGED pSavepoint
         /\ kept /\ ReleaseStatement /\ result' = res
      \/ /\ ~conn.autoCommit /\ ~forced /\ UNCHANGED pSavepoint
         /\ res \in {"ABORT", "NOMEM"} /\ RollbackStatement /\ result' = "ABORT"
    BY DEF VdbeHalt, res, forced
<1>7. CASE /\ conn.autoCommit \/ forced
           /\ kept /\ conn.nDeferredCons = 0
           /\ pager' = BtreeCommit(pager, reading)
           /\ conn' = [conn EXCEPT !.nStatement = 0]
           /\ result' = res
           /\ UNCHANGED pSavepoint
    <2>1. conn.autoCommit
        BY <1>3, <1>7
    <2>2. pSavepoint = << >> /\ ~conn.isTransactionSavepoint /\ conn.nSavepoint = 0
        BY <2>1 DEF CountersAgree, ConnTypeOK
    <2>3. conn' = NoTransaction
        BY <1>7, <2>1, <2>2 DEF NoTransaction, ConnTypeOK
    <2>4. QED
        BY <1>1, <1>3, <1>4, <1>7, <2>1, <2>2, <2>3 DEF Ended
<1>8. CASE /\ ~conn.autoCommit /\ ~forced /\ UNCHANGED pSavepoint
           /\ kept /\ ReleaseStatement /\ result' = res
    BY <1>1, <1>3, <1>8, ReleaseEnds
<1>9. CASE /\ ~conn.autoCommit /\ ~forced /\ UNCHANGED pSavepoint
           /\ res \in {"ABORT", "NOMEM"} /\ RollbackStatement /\ result' = "ABORT"
    BY <1>1, <1>5, <1>9, RollbackEnds
<1>10. QED
    BY <1>1, <1>6, <1>7, <1>8, <1>9

LEMMA HaltKeepsInv ==
    ASSUME ConnInv, ~FailOnViolation, NEW err \in Ends, VdbeHalt(err)
    PROVE  ConnInv'
<1>1. vdbe' = Idle
    BY HaltCases
<1>2. CASE GiveUp(reading)
    BY <1>1, <1>2, GiveUpKeepsInv
<1>3. CASE Ended(reading)
    BY <1>3, CommitKeepsInv DEF Ended
<1>4. CASE StatementEnded(pager.rows) \/ StatementEnded(vdbe.before)
    BY <1>4, StatementEnds
<1>5. QED
    BY <1>2, <1>3, <1>4, HaltCases

--------------------------------------------------------------------------------
(* All steps. *)

LEMMA ClearedIs ==
    ASSUME NEW d \in Counters, NEW c, c = Cleared(d)
    PROVE  c = NoTransaction
BY DEF Cleared, CloseSavepoints, RollbackAll, NoTransaction

\* COMMIT, and RELEASE of the savepoint that began the transaction.
LEMMA CommitCases ==
    ASSUME ConnInv, ~vdbe.runs, conn.nDeferredCons = 0, UNCHANGED vdbe,
           CommitOrGiveUp(Cleared(conn), reading)
    PROVE  /\ vdbe' = Idle
           /\ \/ GiveUp(reading)
              \/ Ended(reading) /\ result' = "OK"
<1>1. vdbe' = Idle
    BY NothingRuns DEF ConnInv
<1>2. [Cleared(conn) EXCEPT !.nDeferredCons = 0] = NoTransaction
    <2>1. Cleared(conn) = NoTransaction
        BY ClearedIs DEF ConnInv, ConnTypeOK
    <2>2. QED
        BY <2>1 DEF NoTransaction
<1>3. Violations(pager.rows, Immediate) = {}
    BY DEF ConnInv, ReferencesHold
<1>4. QED
    BY <1>1, <1>2, <1>3 DEF CommitOrGiveUp, Ended

LEMMA EndKeepsInv ==
    ASSUME ConnInv, vdbe' = Idle, GiveUp(reading) \/ Ended(reading)
    PROVE  ConnInv'
BY GiveUpKeepsInv, CommitKeepsInv DEF Ended

LEMMA CommitKeeps ==
    ASSUME ConnInv, Commit
    PROVE  ConnInv'
<1>1. ~vdbe.runs /\ UNCHANGED <<vdbe, reading>>
    BY DEF Commit
<1>2. CASE conn.nDeferredCons = 0 /\ CommitOrGiveUp(Cleared(conn), reading)
    BY <1>1, <1>2, CommitCases, EndKeepsInv
<1>3. CASE UNCHANGED <<conn, pSavepoint, pager>>
    <2>1. /\ pager' = [pager EXCEPT !.inTrans = pager.inTrans]
          /\ pager.inTrans \in {"NONE", "READ", "WRITE"}
        BY <1>3 DEF ConnInv, ConnTypeOK
    <2>2. QED
        BY <1>1, <1>3, <2>1, QuietKeepsInv
<1>4. QED
    BY <1>2, <1>3 DEF Commit

LEMMA ReleaseCases ==
    ASSUME ConnInv, NEW name \in Names, Release(name)
    PROVE  /\ ~vdbe.runs /\ UNCHANGED <<vdbe, reading>>
           /\ \E k \in DOMAIN pSavepoint :
                 /\ Newest(name, k)
                 /\ \/ result' = "FK" /\ UNCHANGED <<conn, pSavepoint, pager>>
                    \/ /\ IsTransaction(k)
                       /\ GiveUp(reading) \/ (Ended(reading) /\ result' = "OK")
                    \/ /\ ~IsTransaction(k) /\ result' = "OK"
                       /\ pager' = BtreeRelease(pager, Index(k))
                       /\ DestroyFrom(k)
<1>1. ~vdbe.runs /\ UNCHANGED <<vdbe, reading>>
    BY DEF Release
<1>2. PICK k \in DOMAIN pSavepoint :
          /\ Newest(name, k)
          /\ \/ /\ IsTransaction(k) /\ conn.nDeferredCons > 0
                /\ result' = "FK"
                /\ UNCHANGED <<conn, pSavepoint, pager>>
             \/ /\ IsTransaction(k) /\ conn.nDeferredCons = 0
                /\ CommitOrGiveUp(Cleared(conn), reading)
             \/ /\ ~IsTransaction(k)
                /\ pager' = BtreeRelease(pager, Index(k))
                /\ DestroyFrom(k)
                /\ result' = "OK"
    BY DEF Release
<1>3. QED
    BY <1>1, <1>2, CommitCases

LEMMA NothingKeepsInv ==
    ASSUME ConnInv, ~vdbe.runs, UNCHANGED <<conn, pSavepoint, pager, vdbe>>
    PROVE  ConnInv' /\ \A k \in DOMAIN pSavepoint : SavedRows(k)' = SavedRows(k)
<1>1. /\ pager' = [pager EXCEPT !.inTrans = pager.inTrans]
      /\ pager.inTrans \in {"NONE", "READ", "WRITE"}
    BY DEF ConnInv, ConnTypeOK
<1>2. QED
    BY <1>1, QuietKeepsInv

LEMMA InitInv == ConnInit => ConnInv
<1> SUFFICES ASSUME ConnInit PROVE ConnInv
    OBVIOUS
<1>1. ConnTypeOK
    BY DEF ConnInit, ConnTypeOK
<1>2. CountersAgree
    BY DEF ConnInit, CountersAgree, Idle
<1>3. DeferredCountExact /\ ReferencesHold
    BY NoRows, FS_EmptySet DEF ConnInit, DeferredCountExact, ReferencesHold
<1>4. WriteOnly /\ SavedCounts /\ SavedReferences /\ StatementOpen
    BY DEF ConnInit, WriteOnly, SavedCounts, SavedReferences, StatementOpen, Idle
<1>5. QED
    BY <1>1, <1>2, <1>3, <1>4 DEF ConnInv

LEMMA StutterKeepsInv ==
    ASSUME ConnInv, UNCHANGED connVars
    PROVE  ConnInv'
<1> USE DEF connVars, ConnInv
<1>1. ConnTypeOK' /\ CountersAgree' /\ WriteOnly'
    BY DEF ConnTypeOK, CountersAgree, WriteOnly
<1>2. DeferredCountExact' /\ ReferencesHold' /\ SavedReferences' /\ StatementOpen'
    BY DEF DeferredCountExact, ReferencesHold, SavedReferences, StatementOpen, Count, Violations,
       Consistent
<1>3. \A k \in DOMAIN pSavepoint : SavedRows(k)' = SavedRows(k)
    BY DEF SavedRows, Index, Rows0
<1>4. SavedCounts'
    BY <1>3 DEF SavedCounts, Count, Violations
<1>5. QED
    BY <1>1, <1>2, <1>4

LEMMA NextKeepsInv ==
    ASSUME ConnInv, ~FailOnViolation, ConnNext
    PROVE  ConnInv'
<1>1. CASE \E journal \in BOOLEAN : OpTransaction(journal)
    BY <1>1, OpTransactionKeepsInv
<1>2. CASE \E r \in Rows : InsertRow(r) \/ DeleteRow(r)
    BY <1>2, InsertRowKeepsInv, DeleteRowKeepsInv
<1>3. CASE \E err \in Ends : VdbeHalt(err)
    BY <1>3, HaltKeepsInv
<1>4. ASSUME NEW s \in Readers, StartRead(s) \/ EndRead(s)
      PROVE  ConnInv'
    <2>1. CASE StartRead(s)
        BY <2>1, StartReadKeepsInv
    <2>2. CASE EndRead(s) /\ GiveUp(reading')
        BY <2>2, NothingRuns, GiveUpKeepsInv DEF EndRead, ConnInv
    <2>3. CASE EndRead(s) /\ ~GiveUp(reading')
        BY <2>3, EndReadKeepsInv DEF EndRead
    <2>4. QED
        BY <1>4, <2>1, <2>2, <2>3
<1>5. CASE Begin
    BY <1>5, BeginKeepsInv
<1>6. CASE Commit
    BY <1>6, CommitKeeps
<1>7. CASE Rollback
    <2>1. ~vdbe.runs /\ UNCHANGED vdbe
        BY <1>7 DEF Rollback
    <2>2. CASE GiveUp(reading)
        BY <2>1, <2>2, NothingRuns, GiveUpKeepsInv DEF ConnInv
    <2>3. CASE UNCHANGED <<conn, pSavepoint, pager>>
        BY <2>1, <2>3, NothingKeepsInv
    <2>4. QED
        BY <1>7, <2>2, <2>3 DEF Rollback
<1>8. ASSUME NEW name \in Names, Savepoint(name)
      PROVE  ConnInv'
    <2>1. Len(pSavepoint) \in Nat
        BY DEF ConnInv, ConnTypeOK
    <2>2. QED
        BY <1>8, <2>1, SavepointKeepsInv
<1>9. ASSUME NEW name \in Names, Release(name)
      PROVE  ConnInv'
    <2>1. ~vdbe.runs /\ UNCHANGED vdbe /\ vdbe' = Idle
        BY <1>9, ReleaseCases, NothingRuns DEF ConnInv
    <2>2. CASE UNCHANGED <<conn, pSavepoint, pager>>
        BY <2>1, <2>2, NothingKeepsInv
    <2>3. CASE GiveUp(reading) \/ Ended(reading)
        BY <2>1, <2>3, EndKeepsInv
    <2>4. ASSUME NEW k \in DOMAIN pSavepoint, ~IsTransaction(k),
                 pager' = BtreeRelease(pager, Index(k)), DestroyFrom(k)
          PROVE  ConnInv'
        BY <2>1, <2>4, ReleaseKeepsInv
    <2>5. QED
        BY <1>9, <2>2, <2>3, <2>4, ReleaseCases
<1>10. ASSUME NEW name \in Names, RollbackTo(name)
       PROVE  ConnInv'
    <2>1. ~vdbe.runs /\ UNCHANGED vdbe /\ vdbe' = Idle
        BY <1>10, NothingRuns DEF ConnInv, RollbackTo
    <2>2. CASE GiveUp(reading)
        BY <2>1, <2>2, GiveUpKeepsInv
    <2>3. ASSUME NEW k \in DOMAIN pSavepoint,
                 pager' = BtreeRollbackTo(pager, Index(k)),
                 pSavepoint' = SubSeq(pSavepoint, 1, k),
                 conn' = [conn EXCEPT !.nSavepoint = @ - (Len(pSavepoint) - k),
                                      !.nDeferredCons = CountSaved(k)]
          PROVE  ConnInv'
        BY <2>1, <2>3, RollbackToKeepsInv
    <2>4. QED
        BY <1>10, <2>2, <2>3 DEF RollbackTo
<1>11. CASE \E name \in Names : NoSuchSavepoint(name)
    BY <1>11, NothingKeepsInv DEF NoSuchSavepoint
<1>12. QED
    BY <1>1, <1>2, <1>3, <1>4, <1>5, <1>6, <1>7, <1>8, <1>9, <1>10, <1>11 DEF ConnNext

\* The invariant holds in every state, provided that OR FAIL stops no statement
\* with a reference unresolved.
THEOREM ConnSpecInv == ~FailOnViolation => (ConnSpec => []ConnInv)
<1> SUFFICES ASSUME ~FailOnViolation PROVE ConnSpec => []ConnInv
    OBVIOUS
<1>1. ConnInv /\ [ConnNext]_connVars => ConnInv'
    BY NextKeepsInv, StutterKeepsInv
<1>2. QED
    BY InitInv, <1>1, PTL DEF ConnSpec

\* The counters of the sqlite3 structure, the list of savepoints, the open
\* statement and the savepoints of the pager agree (vdbe.c:2944-2952).
THEOREM SpecCountersAgree == ~FailOnViolation => (ConnSpec => []CountersAgree)
<1> SUFFICES ASSUME ~FailOnViolation PROVE ConnSpec => []CountersAgree
    OBVIOUS
<1>1. ConnInv => CountersAgree
    BY DEF ConnInv
<1>2. QED
    BY ConnSpecInv, <1>1, PTL

\* The counter of deferred violations is their number in every state, whatever
\* the rows and references and however the savepoints nest (vdbe.c:3076).
THEOREM SpecDeferredCountExact == ~FailOnViolation => (ConnSpec => []DeferredCountExact)
<1> SUFFICES ASSUME ~FailOnViolation PROVE ConnSpec => []DeferredCountExact
    OBVIOUS
<1>1. ConnInv => DeferredCountExact
    BY DEF ConnInv
<1>2. QED
    BY ConnSpecInv, <1>1, PTL

\* No immediate reference is unresolved after a statement, and nothing
\* inconsistent is committed (vdbeaux.c:2671-2673).
THEOREM SpecReferencesHold == ~FailOnViolation => (ConnSpec => []ReferencesHold)
<1> SUFFICES ASSUME ~FailOnViolation PROVE ConnSpec => []ReferencesHold
    OBVIOUS
<1>1. ConnInv => ReferencesHold
    BY DEF ConnInv
<1>2. QED
    BY ConnSpecInv, <1>1, PTL

--------------------------------------------------------------------------------
(* The transactions are those of module Transactions. *)

Stack == [k \in DOMAIN pSavepoint |-> [name |-> pSavepoint[k].name, rows |-> SavedRows(k)]]
Begun == ~conn.autoCommit /\ ~conn.isTransactionSavepoint

LEMMA PrefixAsFunction ==
    ASSUME NEW S, NEW s \in Seq(S), NEW n \in 0 .. Len(s)
    PROVE  SubSeq(s, 1, n) = [i \in 1 .. n |-> s[i]]
OBVIOUS

LEMMA SeqAsFunction ==
    ASSUME NEW S, NEW s \in Seq(S)
    PROVE  s = [i \in 1 .. Len(s) |-> s[i]]
OBVIOUS

LEMMA AppendAsFunction ==
    ASSUME NEW S, NEW s \in Seq(S), NEW e \in S
    PROVE  Append(s, e) = [i \in 1 .. Len(s) + 1 |-> IF i = Len(s) + 1 THEN e ELSE s[i]]
<1>1. Append(s, e) \in Seq(S) /\ Len(Append(s, e)) = Len(s) + 1 /\ Len(s) \in Nat
    OBVIOUS
<1> DEFINE t == Append(s, e)
<1>2. t = [i \in 1 .. Len(t) |-> t[i]]
    BY <1>1, SeqAsFunction
<1>3. \A i \in 1 .. Len(s) + 1 : Append(s, e)[i] = IF i = Len(s) + 1 THEN e ELSE s[i]
    OBVIOUS
<1>4. QED
    BY <1>1, <1>2, <1>3

LEMMA FunctionIsSeq ==
    ASSUME NEW S, NEW n \in Nat, NEW f \in [1 .. n -> S]
    PROVE  f \in Seq(S) /\ Len(f) = n /\ DOMAIN f = 1 .. n
OBVIOUS

LEMMA EmptyIs ==
    ASSUME NEW S, NEW s \in Seq(S)
    PROVE  s = << >> <=> Len(s) = 0
OBVIOUS

LEMMA StackIs ==
    ASSUME ConnInv
    PROVE  /\ Stack \in Seq([name : Names, rows : SUBSET Rows])
           /\ Len(Stack) = Len(pSavepoint) /\ DOMAIN Stack = DOMAIN pSavepoint
           /\ DOMAIN pSavepoint = 1 .. Len(pSavepoint) /\ Len(pSavepoint) \in Nat
           /\ Rows0 \in SUBSET Rows
           /\ Stack = << >> <=> pSavepoint = << >>
<1> USE DEF ConnInv
<1>1. Rows0 \in SUBSET Rows
    <2>1. CASE vdbe \in Statements
        BY <2>1 DEF Rows0, Statements
    <2>2. CASE vdbe = Idle
        BY <2>2 DEF Rows0, ConnTypeOK, Idle
    <2>3. QED
        BY <2>1, <2>2 DEF ConnTypeOK
<1>2. DOMAIN pSavepoint = 1 .. Len(pSavepoint) /\ Len(pSavepoint) \in Nat
    BY DEF ConnTypeOK
<1>3. ASSUME NEW k \in DOMAIN pSavepoint
      PROVE  pSavepoint[k].name \in Names /\ SavedRows(k) \in SUBSET Rows
    <2>1. pSavepoint[k] \in Marks
        BY <1>2, ElementOf DEF ConnTypeOK
    <2>2. Index(k) \in Int /\ Index(k) >= -1
        <3>1. k \in Nat /\ k >= 1 /\ Index(k) = k - IF conn.isTransactionSavepoint THEN 2 ELSE 1
            BY <1>2, IndexOfSavepoint
        <3>2. QED
            BY ONLY <3>1
    <2>3. CASE Index(k) = -1
        BY <2>1, <2>3 DEF SavedRows, ConnTypeOK
    <2>4. CASE Index(k) # -1 /\ Index(k) < Len(pager.saves)
        <3>1. pager.saves \in Seq(SUBSET Rows) /\ Len(pager.saves) \in Nat
            BY DEF ConnTypeOK
        <3>2. Index(k) + 1 \in 1 .. Len(pager.saves)
            BY <2>2, <2>4, <3>1
        <3>3. pager.saves[Index(k) + 1] \in SUBSET Rows
            BY <3>1, <3>2, ElementOf
        <3>4. QED
            BY <2>1, <2>4, <3>3 DEF SavedRows
    <2>5. CASE Index(k) # -1 /\ ~(Index(k) < Len(pager.saves))
        BY <1>1, <2>1, <2>5 DEF SavedRows
    <2>6. QED
        BY <2>3, <2>4, <2>5
<1>4. Stack \in [1 .. Len(pSavepoint) -> [name : Names, rows : SUBSET Rows]]
    BY <1>2, <1>3 DEF Stack
<1>5. /\ Stack \in Seq([name : Names, rows : SUBSET Rows])
      /\ Len(Stack) = Len(pSavepoint) /\ DOMAIN Stack = 1 .. Len(pSavepoint)
    BY <1>2, <1>4, FunctionIsSeq
<1>6. Stack = << >> <=> pSavepoint = << >>
    <2>1. Stack = << >> <=> Len(Stack) = 0
        BY <1>5, EmptyIs
    <2>2. pSavepoint = << >> <=> Len(pSavepoint) = 0
        BY EmptyIs DEF ConnTypeOK
    <2>3. QED
        BY <1>5, <2>1, <2>2
<1>7. QED
    BY <1>1, <1>2, <1>5, <1>6

LEMMA SameStack ==
    ASSUME UNCHANGED pSavepoint, \A k \in DOMAIN pSavepoint : SavedRows(k)' = SavedRows(k)
    PROVE  Stack' = Stack
BY DEF Stack

LEMMA PrefixOfStack ==
    ASSUME ConnInv, NEW n \in 0 .. Len(pSavepoint), pSavepoint' = SubSeq(pSavepoint, 1, n),
           \A k \in 1 .. n : SavedRows(k)' = SavedRows(k)
    PROVE  Stack' = SubSeq(Stack, 1, n)
<1>1. /\ DOMAIN pSavepoint' = 1 .. n
      /\ \A k \in 1 .. n : pSavepoint'[k] = pSavepoint[k] /\ k \in DOMAIN pSavepoint
    BY Prefix DEF ConnInv, ConnTypeOK
<1>2. Stack' = [k \in 1 .. n |-> Stack[k]]
    BY <1>1 DEF Stack
<1>3. n \in 0 .. Len(Stack) /\ Stack \in Seq([name : Names, rows : SUBSET Rows])
    BY StackIs
<1>4. QED
    BY <1>2, <1>3, PrefixAsFunction

LEMMA NewestIs ==
    ASSUME ConnInv, NEW name \in Names, NEW k \in DOMAIN pSavepoint, Newest(name, k)
    PROVE  SQL!Newest(name) = k
<1>1. /\ DOMAIN Stack = 1 .. Len(pSavepoint) /\ Len(Stack) = Len(pSavepoint)
      /\ Len(pSavepoint) \in Nat /\ k \in 1 .. Len(pSavepoint)
    BY StackIs
<1>2. \A i \in 1 .. Len(pSavepoint) : Stack[i].name = pSavepoint[i].name
    BY <1>1, StackIs DEF Stack
<1>3. SQL!Newest(name) =
        IF \E i \in DOMAIN Stack : Stack[i].name = name
        THEN CHOOSE i \in DOMAIN Stack :
                /\ Stack[i].name = name
                /\ \A j \in i + 1 .. Len(Stack) : Stack[j].name # name
        ELSE 0
    BY DEF SQL!Newest, Stack
<1>4. k \in DOMAIN Stack /\ Stack[k].name = name
    BY <1>1, <1>2 DEF Newest
<1>5. \A j \in k + 1 .. Len(Stack) : Stack[j].name # name
    BY <1>1, <1>2 DEF Newest
<1>6. ASSUME NEW i \in DOMAIN Stack, Stack[i].name = name,
             \A j \in i + 1 .. Len(Stack) : Stack[j].name # name
      PROVE  i = k
    <2>1. i \in Int /\ k \in Int /\ i <= Len(Stack) /\ k <= Len(Stack)
        BY <1>1
    <2>2. ~(i < k)
        BY <1>1, <1>4, <1>6, <2>1
    <2>3. ~(k < i)
        BY <1>1, <1>5, <1>6, <2>1
    <2>4. QED
        BY <2>1, <2>2, <2>3
<1>7. QED
    BY <1>3, <1>4, <1>5, <1>6

LEMMA InTransactionIs ==
    ASSUME ConnInv
    PROVE  SQL!InTransaction <=> ~conn.autoCommit
<1>1. SQL!InTransaction <=> Begun \/ Stack # << >>
    BY DEF SQL!InTransaction, Begun, Stack
<1>2. Stack # << >> <=> pSavepoint # << >>
    BY StackIs
<1>3. /\ conn.autoCommit => pSavepoint = << >>
      /\ pSavepoint = << >> => ~conn.isTransactionSavepoint
    BY DEF ConnInv, CountersAgree
<1>4. QED
    BY <1>1, <1>2, <1>3 DEF Begun

\* What a step may leave of the transaction.
SameTransaction ==
    /\ pager'.committed = pager.committed
    /\ Begun' = Begun
    /\ Stack' = Stack

LEMMA Stutters ==
    ASSUME SameTransaction, Rows0' = Rows0, result' = result
    PROVE  UNCHANGED SQL!transVars
BY DEF SameTransaction, SQL!transVars, Stack, Begun

LEMMA Refuses ==
    ASSUME SameTransaction, Rows0' = Rows0, result' \in {"ERROR", "FK"}
    PROVE  SQL!TransNext
<1>1. SQL!Refuse
    BY DEF SameTransaction, SQL!Refuse, Stack, Begun
<1>2. QED
    BY <1>1 DEF SQL!TransNext

LEMMA Aborts ==
    ASSUME SameTransaction, Rows0' = Rows0, result' = "ABORT"
    PROVE  SQL!TransNext
<1>1. SQL!Abort
    BY DEF SameTransaction, SQL!Abort, Stack, Begun
<1>2. QED
    BY <1>1 DEF SQL!TransNext

\* A statement changes the rows inside a transaction, or by itself.
LEMMA Changes ==
    ASSUME ConnInv, NEW rows \in SUBSET Rows, Begun' = Begun, Stack' = Stack,
           Rows0' = rows, result' \in {"OK", "FAIL"},
           \/ ~conn.autoCommit /\ pager'.committed = pager.committed
           \/ conn.autoCommit /\ pager'.committed = rows /\ Consistent(rows)
    PROVE  SQL!TransNext
<1>1. SQL!InTransaction <=> ~conn.autoCommit
    BY InTransactionIs
<1>2. SQL!Change(rows)
    BY <1>1 DEF SQL!Change, Stack, Begun
<1>3. QED
    BY <1>2 DEF SQL!TransNext

LEMMA EmptyStack ==
    ASSUME pSavepoint' = << >>
    PROVE  Stack' = << >>
BY DEF Stack

\* The transaction is given up.
LEMMA GivesUp ==
    ASSUME ConnInv, NEW others, GiveUp(others), vdbe' = Idle
    PROVE  SQL!TransNext
<1>1. pager'.committed = pager.committed /\ pager'.rows = pager.committed
    BY EndedTypes DEF GiveUp, ConnInv
<1>2. conn' = NoTransaction
    BY ClearedIs DEF GiveUp, ConnInv, ConnTypeOK
<1>3. Begun' = FALSE /\ Stack' = << >>
    BY <1>2, EmptyStack DEF Begun, NoTransaction, GiveUp
<1>4. Rows0' = pager.committed
    BY <1>1 DEF Rows0, Idle
<1>5. SQL!Rollback
    BY <1>1, <1>3, <1>4 DEF SQL!Rollback, SQL!End, Stack, Begun, GiveUp
<1>6. QED
    BY <1>5 DEF SQL!TransNext

\* What a commit leaves.
LEMMA EndedIs ==
    ASSUME ConnInv, NEW others, Ended(others)
    PROVE  /\ Consistent(pager.rows)
           /\ pager'.committed = pager.rows /\ Rows0' = pager.rows
           /\ Begun' = FALSE /\ Stack' = << >>
<1>1. Consistent(pager.rows)
    BY CommitKeepsInv DEF Ended
<1>2. pager'.committed = pager.rows /\ pager'.rows = pager.rows
    BY EndedTypes DEF Ended, ConnInv
<1>3. Begun' = FALSE /\ Stack' = << >>
    BY EmptyStack DEF Begun, NoTransaction, Ended
<1>4. Rows0' = pager.rows
    BY <1>2 DEF Rows0, Idle, Ended
<1>5. QED
    BY <1>1, <1>2, <1>3, <1>4

LEMMA OpTransactionMaps ==
    ASSUME ConnInv, NEW journal \in BOOLEAN, OpTransaction(journal)
    PROVE  UNCHANGED SQL!transVars
<1>1. /\ UNCHANGED <<pSavepoint, result>> /\ ~vdbe.runs
      /\ vdbe'.runs = TRUE /\ vdbe'.before = pager.rows
    BY DEF OpTransaction, NewVdbe
<1>2. pager'.committed = pager.committed
    BY DEF OpTransaction, OpenSavepoint, ConnInv, ConnTypeOK
<1>3. /\ conn'.autoCommit = conn.autoCommit
      /\ conn'.isTransactionSavepoint = conn.isTransactionSavepoint
    BY DEF OpTransaction, ConnInv, ConnTypeOK
<1>4. Stack' = Stack
    BY <1>1, OpTransactionKeepsInv, SameStack
<1>5. QED
    BY <1>1, <1>2, <1>3, <1>4, Stutters DEF SameTransaction, Begun, Rows0

LEMMA ChangeRowMaps ==
    ASSUME ConnInv, NEW r \in Rows, InsertRow(r) \/ DeleteRow(r)
    PROVE  UNCHANGED SQL!transVars
<1>1. PICK rows, deferred, immediate : ChangeRow(r, rows, deferred, immediate)
    BY DEF InsertRow, DeleteRow
<1>2. /\ UNCHANGED <<pSavepoint, result>> /\ vdbe.runs
      /\ pager'.committed = pager.committed
      /\ conn'.autoCommit = conn.autoCommit
      /\ conn'.isTransactionSavepoint = conn.isTransactionSavepoint
    BY <1>1 DEF ChangeRow, ConnInv, ConnTypeOK
<1>3. vdbe \in Statements
    BY <1>2 DEF ConnInv, ConnTypeOK, Idle
<1>4. vdbe'.runs = vdbe.runs /\ vdbe'.before = vdbe.before
    BY <1>1, <1>3 DEF ChangeRow, Statements
<1>5. Stack' = Stack
    BY <1>2, InsertRowKeepsInv, DeleteRowKeepsInv, SameStack
<1>6. QED
    BY <1>2, <1>4, <1>5, Stutters DEF SameTransaction, Begun, Rows0

LEMMA VdbeHaltMaps ==
    ASSUME ConnInv, ~FailOnViolation, NEW err \in Ends, VdbeHalt(err)
    PROVE  SQL!TransNext
<1>1. vdbe.runs /\ vdbe' = Idle
    BY HaltCases
<1>2. pager.rows \in SUBSET Rows /\ Rows0 = vdbe.before
    BY <1>1 DEF ConnInv, ConnTypeOK, Rows0
<1>3. CASE GiveUp(reading)
    BY <1>1, <1>3, GivesUp
<1>4. CASE Ended(reading) /\ conn.autoCommit /\ result' \in {"OK", "FAIL"}
    <2>1. pSavepoint = << >>
        BY <1>4 DEF ConnInv, CountersAgree
    <2>2. Begun = FALSE /\ Stack = << >>
        BY <1>4, <2>1, StackIs DEF Begun
    <2>3. QED
        BY <1>2, <1>4, <2>2, EndedIs, Changes
<1>5. ASSUME NEW rows, StatementEnded(rows)
      PROVE  SameTransaction /\ Rows0' = rows /\ ~conn.autoCommit
    <2>1. /\ ~conn.autoCommit /\ UNCHANGED pSavepoint /\ vdbe' = Idle
          /\ pager'.committed = pager.committed /\ pager'.rows = rows
          /\ conn' = [conn EXCEPT !.nStatement = 0, !.nDeferredCons = Count(rows, Deferred)]
        BY <1>5 DEF StatementEnded
    <2>2. /\ conn'.autoCommit = conn.autoCommit
          /\ conn'.isTransactionSavepoint = conn.isTransactionSavepoint
        BY <2>1 DEF ConnInv, ConnTypeOK
    <2>3. Stack' = Stack
        BY <1>5, <2>1, StatementEnds, SameStack
    <2>4. QED
        BY <2>1, <2>2, <2>3 DEF SameTransaction, Begun, Rows0, Idle
<1>6. CASE StatementEnded(pager.rows) /\ result' \in {"OK", "FAIL"}
    BY <1>2, <1>5, <1>6, Changes DEF SameTransaction
<1>7. CASE StatementEnded(vdbe.before) /\ result' = "ABORT"
    BY <1>2, <1>5, <1>7, Aborts
<1>8. QED
    BY <1>3, <1>4, <1>6, <1>7, HaltCases

\* A step that changes neither the counters Begun is made of nor the rows.
LEMMA QuietMaps ==
    ASSUME UNCHANGED <<pSavepoint, vdbe>>, ~vdbe.runs,
           pager'.committed = pager.committed, pager'.rows = pager.rows,
           conn'.autoCommit = conn.autoCommit,
           conn'.isTransactionSavepoint = conn.isTransactionSavepoint,
           \A k \in DOMAIN pSavepoint : SavedRows(k)' = SavedRows(k)
    PROVE  SameTransaction /\ Rows0' = Rows0
<1>1. Stack' = Stack
    BY SameStack
<1>2. QED
    BY <1>1 DEF SameTransaction, Begun, Rows0

LEMMA ReadMaps ==
    ASSUME ConnInv, NEW s \in Readers, StartRead(s) \/ EndRead(s)
    PROVE  [SQL!TransNext]_(SQL!transVars)
<1>1. CASE StartRead(s)
    <2>1. /\ UNCHANGED <<conn, pSavepoint, vdbe, result>> /\ ~vdbe.runs
          /\ pager'.committed = pager.committed /\ pager'.rows = pager.rows
        BY <1>1 DEF StartRead, ConnInv, ConnTypeOK
    <2>2. QED
        BY <1>1, <2>1, StartReadKeepsInv, QuietMaps, Stutters
<1>2. CASE EndRead(s) /\ GiveUp(reading')
    <2>1. vdbe' = Idle
        BY <1>2, NothingRuns DEF EndRead, ConnInv
    <2>2. QED
        BY <1>2, <2>1, GivesUp
<1>3. CASE EndRead(s) /\ ~GiveUp(reading')
    <2>1. /\ UNCHANGED <<conn, pSavepoint, vdbe, result>> /\ ~vdbe.runs
          /\ pager' = IF conn.autoCommit THEN EndTransaction(pager, reading') ELSE pager
        BY <1>3 DEF EndRead
    <2>2. pager'.committed = pager.committed /\ pager'.rows = pager.rows
        BY <2>1 DEF EndTransaction, ConnInv, ConnTypeOK
    <2>3. QED
        BY <1>3, <2>1, <2>2, EndReadKeepsInv, QuietMaps, Stutters
<1>4. QED
    BY <1>1, <1>2, <1>3

\* Nothing changes but the outcome.
LEMMA RefusalMaps ==
    ASSUME ConnInv, ~vdbe.runs, UNCHANGED <<conn, pSavepoint, pager, vdbe>>,
           result' \in {"ERROR", "FK"}
    PROVE  SQL!TransNext
BY NothingKeepsInv, QuietMaps, Refuses

LEMMA BeginMaps ==
    ASSUME ConnInv, Begin
    PROVE  SQL!TransNext
<1>1. UNCHANGED <<pSavepoint, pager, vdbe>> /\ ~vdbe.runs
    BY DEF Begin
<1>2. CASE conn.autoCommit
    <2>1. conn' = [conn EXCEPT !.autoCommit = FALSE] /\ result' = "OK"
        BY <1>2 DEF Begin
    <2>2. ~conn.isTransactionSavepoint /\ pSavepoint = << >>
        BY <1>2 DEF ConnInv, CountersAgree
    <2>3. Begun' = TRUE
        BY <2>1, <2>2 DEF Begun, ConnInv, ConnTypeOK
    <2>4. Stack' = Stack
        BY <1>1, BeginKeepsInv, SameStack
    <2>5. ~SQL!InTransaction
        BY <1>2, InTransactionIs
    <2>6. Rows0' = Rows0
        BY <1>1 DEF Rows0
    <2>7. SQL!Begin
        BY <1>1, <2>1, <2>3, <2>4, <2>5, <2>6 DEF SQL!Begin, Stack, Begun
    <2>8. QED
        BY <2>7 DEF SQL!TransNext
<1>3. CASE ~conn.autoCommit
    BY <1>1, <1>3, RefusalMaps DEF Begin
<1>4. QED
    BY <1>2, <1>3

LEMMA CommitMaps ==
    ASSUME ConnInv, Commit
    PROVE  SQL!TransNext
<1>1. ~vdbe.runs /\ UNCHANGED vdbe
    BY DEF Commit
<1>2. CASE UNCHANGED <<conn, pSavepoint, pager>> /\ result' \in {"ERROR", "FK"}
    BY <1>1, <1>2, RefusalMaps
<1>3. CASE ~conn.autoCommit /\ conn.nDeferredCons = 0 /\ CommitOrGiveUp(Cleared(conn), reading)
    <2>1. /\ vdbe' = Idle
          /\ GiveUp(reading) \/ (Ended(reading) /\ result' = "OK")
        BY <1>1, <1>3, CommitCases
    <2>2. CASE GiveUp(reading)
        BY <2>1, <2>2, GivesUp
    <2>3. CASE Ended(reading) /\ result' = "OK"
        <3>1. SQL!InTransaction
            BY <1>3, InTransactionIs
        <3>2. Rows0 = pager.rows
            BY <1>1 DEF Rows0
        <3>3. SQL!Commit
            BY <2>3, <3>1, <3>2, EndedIs DEF SQL!Commit, SQL!End, Stack, Begun
        <3>4. QED
            BY <3>3 DEF SQL!TransNext
    <2>4. QED
        BY <2>1, <2>2, <2>3
<1>4. QED
    BY <1>2, <1>3 DEF Commit

LEMMA RollbackMaps ==
    ASSUME ConnInv, Rollback
    PROVE  SQL!TransNext
<1>1. ~vdbe.runs /\ UNCHANGED vdbe /\ vdbe' = Idle
    BY NothingRuns DEF Rollback, ConnInv
<1>2. CASE GiveUp(reading)
    BY <1>1, <1>2, GivesUp
<1>3. CASE result' = "ERROR" /\ UNCHANGED <<conn, pSavepoint, pager>>
    BY <1>1, <1>3, RefusalMaps
<1>4. QED
    BY <1>2, <1>3 DEF Rollback

LEMMA SavepointMaps ==
    ASSUME ConnInv, NEW name \in Names, Savepoint(name), NEW L \in Nat, L = Len(pSavepoint)
    PROVE  SQL!TransNext
<1> DEFINE mark == [name |-> name, nDeferredCons |-> conn.nDeferredCons]
           top == [name |-> name, rows |-> Rows0]
<1>1. /\ ~vdbe.runs /\ UNCHANGED <<pager, vdbe>> /\ result' = "OK"
      /\ pSavepoint' = Append(pSavepoint, mark)
    BY DEF Savepoint
<1>2. Rows0' = Rows0 /\ Rows0 = pager.rows
    BY <1>1 DEF Rows0
<1>3. Begun' = Begun
    <2>1. CASE conn.autoCommit
        BY <2>1 DEF Begun, Savepoint, ConnInv, ConnTypeOK
    <2>2. CASE ~conn.autoCommit
        BY <2>2 DEF Begun, Savepoint, ConnInv, ConnTypeOK
    <2>3. QED
        BY <2>1, <2>2
<1>4. /\ DOMAIN pSavepoint = 1 .. L /\ L \in Nat /\ Len(Stack) = L
      /\ Stack \in Seq([name : Names, rows : SUBSET Rows])
      /\ Rows0 \in SUBSET Rows
    BY StackIs
<1>5. /\ DOMAIN pSavepoint' = 1 .. L + 1
      /\ \A k \in 1 .. L : pSavepoint'[k] = pSavepoint[k]
      /\ pSavepoint'[L + 1] = mark
    BY <1>1 DEF ConnInv, ConnTypeOK
<1>6. /\ \A k \in 1 .. L : SavedRows(k)' = SavedRows(k)
      /\ SavedRows(L + 1)' = Rows0
    BY <1>2, <1>4, SavepointKeepsInv
<1>7. Stack' = [k \in 1 .. L + 1 |-> IF k = L + 1 THEN top ELSE Stack[k]]
    <2>1. Stack' = [k \in 1 .. L + 1 |-> [name |-> pSavepoint'[k].name, rows |-> SavedRows(k)']]
        BY <1>5 DEF Stack
    <2>2. ASSUME NEW k \in 1 .. L + 1
          PROVE  [name |-> pSavepoint'[k].name, rows |-> SavedRows(k)']
                    = IF k = L + 1 THEN top ELSE Stack[k]
        <3>1. CASE k = L + 1
            <4>1. pSavepoint'[k].name = name
                BY <1>5, <3>1
            <4>2. SavedRows(k)' = Rows0
                BY <1>6, <3>1
            <4>3. QED
                BY <3>1, <4>1, <4>2
        <3>2. CASE k # L + 1
            <4>1. k \in 1 .. L
                BY <1>4, <3>2
            <4>2. QED
                BY <1>4, <1>5, <1>6, <3>2, <4>1 DEF Stack
        <3>3. QED
            BY <3>1, <3>2
    <2>3. QED
        BY <2>1, <2>2
<1>8. Stack' = Append(Stack, top)
    <2>1. top \in [name : Names, rows : SUBSET Rows]
        BY <1>4
    <2>2. QED
        BY <1>4, <1>7, <2>1, AppendAsFunction
<1>9. SQL!Savepoint(name)
    BY <1>1, <1>2, <1>3, <1>8 DEF SQL!Savepoint, Stack, Begun
<1>10. QED
    BY <1>9 DEF SQL!TransNext

\* SQL!Release, for the newest savepoint of the name.
LEMMA ReleasesNewest ==
    ASSUME ConnInv, NEW name \in Names, NEW k \in DOMAIN pSavepoint, Newest(name, k),
           result' = "OK",
           IF k = 1 /\ ~Begun
           THEN /\ Consistent(Rows0) /\ pager'.committed = Rows0 /\ Rows0' = Rows0
                /\ Begun' = FALSE /\ Stack' = << >>
           ELSE /\ Stack' = SubSeq(Stack, 1, k - 1)
                /\ pager'.committed = pager.committed /\ Rows0' = Rows0 /\ Begun' = Begun
    PROVE  SQL!TransNext
<1>1. SQL!Newest(name) = k /\ k # 0
    BY NewestIs, StackIs
<1>2. SQL!Release(name)
    <2>1. CASE k = 1 /\ ~Begun
        BY <1>1, <2>1 DEF SQL!Release, SQL!End, Stack, Begun
    <2>2. CASE ~(k = 1 /\ ~Begun)
        BY <1>1, <2>2 DEF SQL!Release, Stack, Begun
    <2>3. QED
        BY <2>1, <2>2
<1>3. QED
    BY <1>2 DEF SQL!TransNext

LEMMA ReleaseMaps ==
    ASSUME ConnInv, NEW name \in Names, Release(name)
    PROVE  SQL!TransNext
<1>1. /\ ~vdbe.runs /\ UNCHANGED vdbe /\ vdbe' = Idle
      /\ Rows0 = pager.rows
    BY ReleaseCases, NothingRuns DEF ConnInv, Rows0
<1>2. PICK k \in DOMAIN pSavepoint :
          /\ Newest(name, k)
          /\ \/ result' = "FK" /\ UNCHANGED <<conn, pSavepoint, pager>>
             \/ /\ IsTransaction(k)
                /\ GiveUp(reading) \/ (Ended(reading) /\ result' = "OK")
             \/ /\ ~IsTransaction(k) /\ result' = "OK"
                /\ pager' = BtreeRelease(pager, Index(k))
                /\ DestroyFrom(k)
    BY ReleaseCases
<1>3. k \in 1 .. Len(pSavepoint) /\ Len(pSavepoint) \in Nat
    BY StackIs
<1>4. conn.autoCommit = FALSE
    <2>1. pSavepoint # << >>
        BY <1>3
    <2>2. QED
        BY <2>1 DEF ConnInv, ConnTypeOK, CountersAgree
<1>5. CASE result' = "FK" /\ UNCHANGED <<conn, pSavepoint, pager>>
    BY <1>1, <1>5, RefusalMaps
<1>6. CASE GiveUp(reading)
    BY <1>1, <1>6, GivesUp
<1>7. CASE IsTransaction(k) /\ Ended(reading) /\ result' = "OK"
    <2>1. k = 1 /\ ~Begun
        BY <1>7 DEF IsTransaction, Begun
    <2>2. QED
        BY <1>1, <1>2, <1>7, <2>1, EndedIs, ReleasesNewest
<1>8. CASE /\ ~IsTransaction(k) /\ result' = "OK"
           /\ pager' = BtreeRelease(pager, Index(k))
           /\ DestroyFrom(k)
    <2>1. ~(k = 1 /\ ~Begun)
        BY <1>4, <1>8 DEF IsTransaction, Begun
    <2>2. pager'.committed = pager.committed /\ pager'.rows = pager.rows
        BY <1>8 DEF BtreeRelease, ConnInv, ConnTypeOK
    <2>3. Rows0' = Rows0
        BY <1>1, <2>2 DEF Rows0
    <2>4. /\ conn'.autoCommit = conn.autoCommit
          /\ conn'.isTransactionSavepoint = conn.isTransactionSavepoint
        BY <1>8 DEF DestroyFrom, ConnInv, ConnTypeOK
    <2>5. Stack' = SubSeq(Stack, 1, k - 1)
        <3>1. /\ k - 1 \in 0 .. Len(pSavepoint)
              /\ pSavepoint' = SubSeq(pSavepoint, 1, k - 1)
            BY <1>3, <1>8 DEF DestroyFrom
        <3>2. \A j \in 1 .. k - 1 : SavedRows(j)' = SavedRows(j)
            BY <1>1, <1>8, ReleaseKeepsInv
        <3>3. QED
            BY <3>1, <3>2, PrefixOfStack
    <2>6. QED
        BY <1>2, <1>8, <2>1, <2>2, <2>3, <2>4, <2>5, ReleasesNewest DEF Begun
<1>9. QED
    BY <1>2, <1>5, <1>6, <1>7, <1>8

LEMMA RollbackToMaps ==
    ASSUME ConnInv, NEW name \in Names, RollbackTo(name)
    PROVE  SQL!TransNext
<1>1. ~vdbe.runs /\ UNCHANGED vdbe /\ vdbe' = Idle
    BY NothingRuns DEF ConnInv, RollbackTo
<1>2. CASE GiveUp(reading)
    BY <1>1, <1>2, GivesUp
<1>3. ASSUME NEW k \in DOMAIN pSavepoint, Newest(name, k), result' = "OK",
             pager' = BtreeRollbackTo(pager, Index(k)),
             pSavepoint' = SubSeq(pSavepoint, 1, k),
             conn' = [conn EXCEPT !.nSavepoint = @ - (Len(pSavepoint) - k),
                                  !.nDeferredCons = CountSaved(k)]
      PROVE  SQL!TransNext
    <2>1. SQL!Newest(name) = k /\ k # 0 /\ k \in 0 .. Len(pSavepoint) /\ k \in DOMAIN Stack
        BY <1>3, NewestIs, StackIs
    <2>2. /\ pager'.committed = pager.committed /\ pager'.rows = SavedRows(k)
          /\ \A j \in 1 .. k : SavedRows(j)' = SavedRows(j)
        BY <1>1, <1>3, RollbackToKeepsInv
    <2>3. Stack' = SubSeq(Stack, 1, k)
        BY <1>3, <2>1, <2>2, PrefixOfStack
    <2>4. Rows0' = Stack[k].rows
        BY <1>1, <2>1, <2>2 DEF Rows0, Stack, Idle
    <2>5. Begun' = Begun
        BY <1>3 DEF Begun, ConnInv, ConnTypeOK
    <2>6. SQL!RollbackTo(name)
        BY <1>3, <2>1, <2>2, <2>3, <2>4, <2>5 DEF SQL!RollbackTo, Stack, Begun
    <2>7. QED
        BY <2>6 DEF SQL!TransNext
<1>4. QED
    BY <1>2, <1>3 DEF RollbackTo

LEMMA NextMaps ==
    ASSUME ConnInv, ~FailOnViolation, ConnNext
    PROVE  [SQL!TransNext]_(SQL!transVars)
<1>1. CASE \E journal \in BOOLEAN : OpTransaction(journal)
    BY <1>1, OpTransactionMaps
<1>2. CASE \E r \in Rows : InsertRow(r) \/ DeleteRow(r)
    BY <1>2, ChangeRowMaps
<1>3. CASE \E err \in Ends : VdbeHalt(err)
    BY <1>3, VdbeHaltMaps
<1>4. CASE \E s \in Readers : StartRead(s) \/ EndRead(s)
    BY <1>4, ReadMaps
<1>5. CASE Begin \/ Commit \/ Rollback
    BY <1>5, BeginMaps, CommitMaps, RollbackMaps
<1>6. ASSUME NEW name \in Names, Savepoint(name)
      PROVE  SQL!TransNext
    BY <1>6, StackIs, SavepointMaps
<1>7. CASE \E name \in Names : Release(name) \/ RollbackTo(name)
    BY <1>7, ReleaseMaps, RollbackToMaps
<1>8. CASE \E name \in Names : NoSuchSavepoint(name)
    BY <1>8, RefusalMaps DEF NoSuchSavepoint
<1>9. QED
    BY <1>1, <1>2, <1>3, <1>4, <1>5, <1>6, <1>7, <1>8 DEF ConnNext

LEMMA StutterMaps ==
    ASSUME UNCHANGED connVars
    PROVE  UNCHANGED SQL!transVars
<1>1. UNCHANGED <<conn, pSavepoint, pager, vdbe, reading, result>>
    BY DEF connVars
<1>2. Rows0' = Rows0 /\ Begun' = Begun /\ pager'.committed = pager.committed
    BY <1>1 DEF Rows0, Begun
<1>3. \A k \in DOMAIN pSavepoint : SavedRows(k)' = SavedRows(k)
    BY <1>1, <1>2 DEF SavedRows, Index
<1>4. QED
    BY <1>1, <1>2, <1>3, SameStack, Stutters DEF SameTransaction

LEMMA InitMaps == ConnInit => SQL!TransInit
BY DEF ConnInit, SQL!TransInit, Rows0, Idle

\* Whatever the rows, the names and the depth of nesting, each step of the code
\* is one that SQL promises of a transaction, or none (vdbe.c:2930-3165,
\* vdbeaux.c:2600-2794), provided that OR FAIL stops no statement with a
\* reference unresolved.
THEOREM SpecImplementsTransactions == ~FailOnViolation => (ConnSpec => ImplementsTransactions)
<1> SUFFICES ASSUME ~FailOnViolation PROVE ConnSpec => ImplementsTransactions
    OBVIOUS
<1>1. ConnInv /\ [ConnNext]_connVars => [SQL!TransNext]_(SQL!transVars)
    BY NextMaps, StutterMaps
<1>2. QED
    BY InitMaps, ConnSpecInv, <1>1, PTL DEF ConnSpec, ImplementsTransactions, SQL!TransSpec

================================================================================
