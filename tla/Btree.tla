-------------------------------- MODULE Btree ---------------------------------
(****************************************************************************)
(* One b-tree of src/Enclave/sqlite/btree.c: its pages, the cursors that read *)
(* and write it, and balance(), which runs one page a step.  A table's rows   *)
(* are all on leaves, below dividers that repeat keys; an index has each key  *)
(* once, on a leaf or above.  Sizes and page allocation are BtreePages'; the  *)
(* promise to the virtual machine is KeyStore's.                              *)
(*                                                                            *)
(* A page with more cells than fit is one whose last cells are in apOvfl.     *)
(****************************************************************************)
EXTENDS BtreePages

CONSTANTS
    Keys,
    w,              \* the cursor that writes
    Readers,        \* cursors that read the same tree
    Scenes,         \* the values of scene
    SeekStale,      \* TRUE: w may seek with the key of another entry cached
    WriteOverSkip   \* TRUE: an entry may go while a cursor passes over it

Cursors == {w} \cup Readers

\* A local payload is at most a page, in an index a quarter of it: maxLeaf, maxLocal.
ASSUME BtreeAssumption ==
    /\ Keys \subseteq Nat \ {0}
    /\ \A s \in Scenes :
          /\ s.intkey \in BOOLEAN /\ s.keys \subseteq Keys /\ s.writes \in Nat
          /\ s.cursors \subseteq Cursors
          /\ \A row \in s.rows : /\ row.sz \in 1 .. (IF s.intkey THEN U ELSE U \div 4)
                                 /\ row.ov \in Nat

VARIABLES
    scene,  \* [intkey, keys, rows, cursors, writes]: the kind of tree, its keys and
            \* rows [sz, ov], the cursors in use, the writes it sees
    writes, \* how many of them have been made
    node,   \* the tree's pages, from their numbers
    file,   \* the free list and the size of the file
    cur,    \* the cursors
    op      \* the insert or delete whose balance() is running
btreeVars == <<scene, writes, node, file, cur, op>>

intkey == scene.intkey

\* The root page: page 1 holds the schema.
ROOT == 2

Leaf(cells) == [leaf |-> TRUE, cell |-> cells, right |-> 0]

\* A cell above the leaves of a table has no row.
DIVIDER == 1

Idle == [kind |-> "none"]

\* BtCursor.  eState and what is read in that state: apPage and aiIdx, from 1;
\* skipNext; the saved key, or info.nKey when BTCF_ValidNKey is set; AtLast.  A
\* cursor left "at an arbitrary location" is kept as INVALID: a seek comes next.
Nowhere == [state |-> "INVALID", path |-> << >>, skip |-> 0, key |-> 0,
            valid |-> FALSE, last |-> FALSE]
At(path) == [Nowhere EXCEPT !.state = "VALID", !.path = path]
Skipping(c, skip) == [c EXCEPT !.state = "SKIPNEXT", !.skip = skip]
Saved(key, skip) == [Nowhere EXCEPT !.state = "REQUIRESEEK", !.key = key, !.skip = skip]

BtreeInit ==
    /\ scene \in Scenes
    /\ writes = 0
    /\ node = [pg \in {ROOT} |-> Leaf(<< >>)]
    /\ file = EmptyFile
    /\ cur = [c \in Cursors |-> Nowhere]
    /\ op = Idle

--------------------------------------------------------------------------------
(* Pages and places in the tree. *)

Sizes(cells) == [j \in DOMAIN cells |-> cells[j].sz]
nFree(n) == U - Total(Sizes(n.cell))
Overflows(n) == nFree(n) < 0

\* nMin: a page with more room than this is balanced.
nMin == (U * 2) \div 3

Child(n, j) == IF j <= Len(n.cell) THEN n.cell[j].left ELSE n.right

Step(pg, ix) == [pg |-> pg, ix |-> ix]
CellAt(path) == node[Last(path).pg].cell[Last(path).ix]
KeyOf(c) == CellAt(c.path).key

Leaves == {pg \in DOMAIN node : node[pg].leaf}

\* The way down from a page to one of the pages `ends', taking on each page the
\* place that ix gives.
WayDown(pg, ix, ends) ==
    LET way[p \in DOMAIN node] ==
            <<Step(p, ix[p])>> \o (IF p \in ends THEN << >> ELSE way[Child(node[p], ix[p])])
    IN way[pg]

moveToLeftmost(pg) == WayDown(pg, [p \in DOMAIN node |-> 1], Leaves)

moveToRightmost(pg) ==
    WayDown(pg, [p \in DOMAIN node |-> Len(node[p].cell) + (IF node[p].leaf THEN 0 ELSE 1)],
            Leaves)

\* The longest beginning of a path that ends at one of the steps i; << >> if
\* there is none.
BackTo(path, I) == IF I = {} THEN << >> ELSE SubSeq(path, 1, Max(I))

\* The places one entry on and one entry back; << >> past the end.
Climb(path) == BackTo(path, {i \in DOMAIN path : path[i].ix <= Len(node[path[i].pg].cell)})

\* From a place on an interior page past the cell there.
NextChild(path) ==
    LET here == Last(path)
    IN Front(path) \o <<Step(here.pg, here.ix + 1)>>
       \o moveToLeftmost(Child(node[here.pg], here.ix + 1))

btreeNext(path) ==
    LET here == Last(path)
        up == Climb(Front(path))
    IN IF ~node[here.pg].leaf THEN NextChild(path)
       ELSE IF here.ix < Len(node[here.pg].cell) THEN Front(path) \o <<Step(here.pg, here.ix + 1)>>
       ELSE IF up # << >> /\ intkey THEN NextChild(up) ELSE up

\* From a place on an interior page down to the last entry before it.
LastBefore(path) == path \o moveToRightmost(Child(node[Last(path).pg], Last(path).ix))

btreePrevious(path) ==
    LET back == BackTo(path, {i \in DOMAIN path : path[i].ix > 1})
        to == Front(back) \o <<[Last(back) EXCEPT !.ix = @ - 1]>>
    IN IF ~node[Last(path).pg].leaf THEN LastBefore(path)
       ELSE IF back = << >> THEN << >>
       ELSE IF intkey /\ ~node[Last(to).pg].leaf THEN LastBefore(to) ELSE to

--------------------------------------------------------------------------------
(* Seeking, saving and restoring a cursor. *)

\* One comparison of a binary search: where the search goes on, while there is
\* anything left from lwr to upr, and how the entry compared with the key.
Compare(cells, k, at) ==
    LET found == cells[at.ix].key
        lwr == IF found > k THEN at.lwr ELSE at.ix + 1
        upr == IF found < k THEN at.upr ELSE at.ix - 1
    IN [lwr |-> lwr, upr |-> upr, ix |-> IF lwr > upr THEN at.ix ELSE (lwr + upr) \div 2,
        res |-> IF found = k THEN 0 ELSE IF found < k THEN -1 ELSE 1]

\* The binary search of a leaf: where it stops, and the entry there compared
\* with the key.
BinarySearch(cells, k, biasRight) ==
    LET len == Len(cells)
        at[i \in 0 .. len] ==
            IF i = 0
            THEN [lwr |-> 1, upr |-> len, ix |-> IF biasRight THEN len ELSE (1 + len) \div 2, res |-> 0]
            ELSE LET before == at[i - 1]
                 IN IF before.lwr > before.upr THEN before ELSE Compare(cells, k, before)
    IN at[len]

\* From the root down: interior pages lead to the child that would hold the key.
Descend(k, biasRight) ==
    LET turn(n) == Min({i \in DOMAIN n.cell : n.cell[i].key >= k} \cup {Len(n.cell) + 1})
        search(n) == BinarySearch(n.cell, k, biasRight)
        found(n) == ~intkey /\ turn(n) \in DOMAIN n.cell /\ n.cell[turn(n)].key = k
        path == WayDown(ROOT, [pg \in DOMAIN node |-> IF node[pg].leaf THEN search(node[pg]).ix
                                                     ELSE turn(node[pg])],
                        {pg \in DOMAIN node : node[pg].leaf \/ found(node[pg])})
        end == node[Last(path).pg]
    IN [path |-> path, res |-> IF end.leaf THEN search(end).res ELSE 0]

\* The cursor and the result of sqlite3BtreeMovetoUnpacked.
MovetoUnpacked(c, k, biasRight) ==
    LET cached == c.state = "VALID" /\ c.valid
        d == Descend(k, biasRight)
    IN IF cached /\ c.key = k THEN [cur |-> c, res |-> 0]
       ELSE IF cached /\ c.key < k /\ c.last THEN [cur |-> c, res |-> -1]
       ELSE IF node[ROOT].cell = << >> THEN [cur |-> Nowhere, res |-> -1]
       ELSE IF d.res = 0 /\ intkey
       THEN [cur |-> [At(d.path) EXCEPT !.valid = TRUE, !.key = k], res |-> 0]
       ELSE [cur |-> At(d.path), res |-> d.res]


saveCursorPosition(c) ==
    CASE c.state = "VALID" -> Saved(KeyOf(c), 0)
      [] c.state = "SKIPNEXT" -> Saved(KeyOf(c), c.skip)
      [] OTHER -> c

saveAllCursors == [c \in Cursors |-> IF c = w THEN cur[c] ELSE saveCursorPosition(cur[c])]

\* x | y for x, y in {-1, 0, 1}.
OrBits(x, y) == IF -1 \in {x, y} THEN -1 ELSE IF 1 \in {x, y} THEN 1 ELSE 0

restoreCursorPosition(c) ==
    LET m == MovetoUnpacked(Nowhere, c.key, FALSE)
        skip == OrBits(c.skip, m.res)
    IN IF c.state # "REQUIRESEEK" THEN c
       ELSE IF m.cur.state = "INVALID" THEN Nowhere
       ELSE IF skip = 0 THEN m.cur ELSE Skipping(m.cur, skip)

--------------------------------------------------------------------------------
(* Moving a cursor. *)

\* The key cached is not that of the entry under the cursor.
Stale(c) == c.state = "VALID" /\ c.valid /\ c.key # KeyOf(c)
MayseekFor(c, k) ==
    \/ ~Stale(cur[c]) \/ SeekStale
    \/ k < cur[c].key
    \/ cur[c].last /\ \A pg \in DOMAIN node : \A j \in DOMAIN node[pg].cell : node[pg].cell[j].key < k

Forget(c) == [c EXCEPT !.valid = FALSE, !.key = 0]

\* No cursor that passes over the entry k stands on it.
MayDelete(k) ==
    \/ WriteOverSkip
    \/ \A c \in Readers : cur[c].skip = 0
          \/ (IF cur[c].state = "SKIPNEXT" THEN KeyOf(cur[c]) ELSE cur[c].key) # k

\* Between a delete that keeps the place and the next step nothing else is done
\* with the cursor.
Stepping == cur[w].state = "SKIPNEXT"

Move(c, to) ==
    /\ op = Idle /\ c \in scene.cursors
    /\ cur' = [cur EXCEPT ![c] = to]
    /\ UNCHANGED <<scene, writes, node, file, op>>

sqlite3BtreeFirst(c) ==
    /\ c = w => ~Stepping
    /\ Move(c, IF node[ROOT].cell = << >> THEN Nowhere ELSE At(moveToLeftmost(ROOT)))

sqlite3BtreeLast(c) ==
    /\ c = w => ~Stepping
    /\ ~(cur[c].state = "VALID" /\ cur[c].last)
    /\ Move(c, IF node[ROOT].cell = << >> THEN Nowhere
               ELSE [At(moveToRightmost(ROOT)) EXCEPT !.last = TRUE])

sqlite3BtreeMoveto(c, k) ==
    /\ c = w => ~Stepping
    /\ MayseekFor(c, k)
    /\ Move(c, MovetoUnpacked(cur[c], k, FALSE).cur)

\* The entry's key is parsed and remembered: getCellInfo.
sqlite3BtreeIntegerKey(c) ==
    /\ intkey /\ cur[c].state = "VALID"
    /\ Move(c, [cur[c] EXCEPT !.valid = TRUE, !.key = KeyOf(cur[c])])

sqlite3BtreeCursorRestore(c) ==
    cur[c].state = "REQUIRESEEK" /\ Move(c, restoreCursorPosition(cur[c]))

\* The cursor moves to another entry, which ends its stay between two.  What it
\* has cached of a key goes when it leaves the page.
MoveOn(c, path) ==
    IF path = << >> THEN Nowhere
    ELSE LET samePage == Len(path) = Len(c.path) /\ Last(path).pg = Last(c.path).pg
         IN [IF samePage THEN c ELSE Forget(c)
               EXCEPT !.state = "VALID", !.path = path, !.skip = 0]

\* Restored first; a cursor between two entries may be on the right one already.
Restored(c) == IF cur[c].state = "REQUIRESEEK" THEN restoreCursorPosition(cur[c]) ELSE Forget(cur[c])

NextOf(c) ==
    LET r == Restored(c)
    IN IF r.state = "INVALID" THEN r
       ELSE MoveOn(r, IF r.skip > 0 THEN r.path ELSE btreeNext(r.path))

sqlite3BtreeNext(c) == Move(c, NextOf(c))

sqlite3BtreePrevious(c) ==
    LET r == [Restored(c) EXCEPT !.last = FALSE]
    IN Move(c, IF r.state = "INVALID" THEN r
               ELSE MoveOn(r, IF r.skip < 0 THEN r.path ELSE btreePrevious(r.path)))

--------------------------------------------------------------------------------
(* Writing. *)

Cell(k, row, ovf, left) == [key |-> k, sz |-> row.sz, ovf |-> ovf, left |-> left]

\* What w keeps of its place once balance() has run.
InsertedAt(o) == IF o.save THEN Saved(o.key, 0) ELSE Nowhere

\* With SAVEPOSITION w stands on the row it replaces and does not seek; APPEND
\* starts the search from the right.
Flags == {"none", "APPEND", "SAVEPOSITION"}
\* The cell is made at the place m of the key, or replaces the one there; w is
\* left on it, without what it had cached of the key when the page overflows.
insertCell(k, row, save, m) ==
    LET path == IF m.cur.path = << >> THEN <<Step(ROOT, 1)>> ELSE m.cur.path
        pg == Last(path).pg
        ix == IF m.res < 0 /\ node[pg].cell # << >> THEN Last(path).ix + 1 ELSE Last(path).ix
        there == Front(path) \o <<Step(pg, ix)>>
        new == AllocateMany(file, 0, row.ov)
        old == node[pg].cell[ix]
        cells == IF m.res = 0
                 THEN [node[pg].cell EXCEPT ![ix] = Cell(k, row, new.pgs, old.left)]
                 ELSE InsertAt(node[pg].cell, ix, Cell(k, row, new.pgs, 0))
        over == Total(Sizes(cells)) > U
    IN /\ node' = [node EXCEPT ![pg].cell = cells]
       /\ file' = IF m.res = 0 THEN FreeMany(new.file, old.ovf) ELSE new.file
       /\ op' = IF over THEN [kind |-> "insert", key |-> k, save |-> save, at |-> ix] ELSE Idle
       /\ cur' = [saveAllCursors EXCEPT ![w] =
                    IF m.cur.state = "INVALID" /\ ~over THEN Nowhere
                    ELSE [IF over THEN Forget(m.cur) ELSE m.cur EXCEPT !.path = there]]

sqlite3BtreeInsert(k, row, flags) ==
    LET save == flags = "SAVEPOSITION"
        known == cur[w].valid /\ cur[w].key = k
    IN /\ op = Idle /\ ~Stepping /\ writes < scene.writes
       /\ save => /\ cur[w].state = "VALID" /\ KeyOf(cur[w]) = k
                  /\ intkey => known
       /\ ~save => MayseekFor(w, k)
       /\ writes' = writes + 1
       /\ insertCell(k, row, save,
                      IF save \/ known THEN [cur |-> cur[w], res |-> 0]
                      ELSE MovetoUnpacked(cur[w], k, flags = "APPEND"))
       /\ UNCHANGED scene

\* The cell of an interior page is replaced by the last one before it, which a
\* leaf gives up.
sqlite3BtreeDelete(save) ==
    LET path == cur[w].path
        pg == Last(path).pg
        ix == Last(path).ix
        n == node[pg]
        rebalance == ~n.leaf \/ nFree(n) + n.cell[ix].sz > nMin
        down == btreePrevious(path)
        from == Last(down).pg
        moved == Last(node[from].cell)
        dropped == RemoveAt(n.cell, ix)
    IN /\ op = Idle /\ cur[w].state = "VALID" /\ writes < scene.writes
       /\ MayDelete(KeyOf(cur[w]))
       /\ writes' = writes + 1
       /\ node' = IF n.leaf THEN [node EXCEPT ![pg].cell = dropped]
                  ELSE [node EXCEPT
                          ![pg].cell[ix] = [moved EXCEPT !.left = down[Len(path) + 1].pg],
                          ![from].cell = Front(@)]
       /\ file' = FreeMany(file, n.cell[ix].ovf)
       /\ op' = [kind |-> "delete", key |-> KeyOf(cur[w]), save |-> save, at |-> ix,
                 depth |-> Len(path), skipnext |-> save /\ ~rebalance]
       /\ cur' = [saveAllCursors EXCEPT ![w] = At(IF n.leaf THEN path ELSE down)]
       /\ UNCHANGED scene

\* The pages of a subtree in the order they are freed, each after what hangs
\* from it.
clearDatabasePage(pg) ==
    LET freed[p \in DOMAIN node] ==
            LET n == node[p]
                below(j) == IF n.leaf THEN << >> ELSE freed[Child(n, j)] \o <<Child(n, j)>>
            IN FlattenSeq([j \in DOMAIN n.cell |-> below(j) \o n.cell[j].ovf])
               \o below(Len(n.cell) + 1)
    IN freed[pg]

sqlite3BtreeClearTable ==
    /\ op = Idle /\ ~Stepping /\ writes < scene.writes
    /\ \A c \in Cursors : cur[c].skip = 0 \/ WriteOverSkip
    /\ writes' = writes + 1
    /\ file' = FreeMany(file, clearDatabasePage(ROOT))
    /\ node' = [pg \in {ROOT} |-> Leaf(<< >>)]
    /\ cur' = [c \in Cursors |-> saveCursorPosition(cur[c])]
    /\ UNCHANGED <<scene, op>>

--------------------------------------------------------------------------------
(* balance(): one page of w's path a step, from the bottom up. *)

Busy == op.kind \in {"insert", "delete"}
Depth == Len(cur[w].path)
Here == Last(cur[w].path).pg
Balanced == IF Depth = 1 THEN ~Overflows(node[Here])
            ELSE ~Overflows(node[Here]) /\ nFree(node[Here]) <= nMin

BalanceStep == Busy /\ ~Balanced /\ UNCHANGED <<scene, writes, op>>
GoTo(path) == cur' = [cur EXCEPT ![w].path = path]

WithPage(nodes, pg, n) == [p \in DOMAIN nodes \cup {pg} |-> IF p = pg THEN n ELSE nodes[p]]

\* The root's cells go to a new page below it.
balance_deeper ==
    /\ BalanceStep /\ Depth = 1
    /\ LET new == allocateBtreePage(file, ROOT)
       IN /\ file' = new.file
          /\ node' = WithPage([node EXCEPT ![ROOT] = [leaf |-> FALSE, cell |-> << >>, right |-> new.pg]],
                              new.pg, node[ROOT])
          /\ GoTo(<<Step(ROOT, 1), Step(new.pg, 1)>>)

Above == cur[w].path[Depth - 1]

\* A row appended to a full table goes to a new page of its own.
Appended ==
    /\ intkey /\ node[Here].leaf /\ Overflows(node[Here])
    /\ op.at = Len(node[Here].cell)
    /\ Above.ix = Len(node[Above.pg].cell) + 1

balance_quick ==
    /\ BalanceStep /\ Depth > 1 /\ Appended
    /\ LET new == allocateBtreePage(file, 0)
           kept == Front(node[Here].cell)
           divider == Cell(Last(kept).key, [sz |-> DIVIDER], << >>, Here)
       IN /\ file' = new.file
          /\ node' = WithPage([node EXCEPT ![Here].cell = kept,
                                           ![Above.pg].cell = Append(@, divider),
                                           ![Above.pg].right = new.pg],
                              new.pg, Leaf(<<Last(node[Here].cell)>>))
          /\ GoTo(Front(cur[w].path))

\* nxDiv and nOld: the divider before which up to three siblings start.
FirstSibling(n, ix) == IF n < 2 \/ ix = 1 THEN 0 ELSE IF ix = n + 1 THEN n - 2 ELSE ix - 2

\* The cells of the siblings, each but the last followed by its divider, which
\* in a leaf is stripped of its child and above takes over the sibling's last.
Gathered(olds, dividers) ==
    LET n == node[olds[1]]
        divider(j) == [dividers[j] EXCEPT !.left = IF n.leaf THEN 0 ELSE node[olds[j]].right]
        with(j) == IF j = Len(olds) \/ (intkey /\ n.leaf) THEN << >> ELSE <<divider(j)>>
    IN FlattenSeq([j \in DOMAIN olds |-> node[olds[j]].cell \o with(j)])

\* A plausible mistake: the row's divider is the first key of the next page.
DividerKeyAfter(cells, cnt) == cells[cnt + 1].key

DividerKey(cells, cnt) == cells[cnt].key

Ascending(S) ==
    [i \in 1 .. Cardinality(S) |-> CHOOSE p \in S : Cardinality({q \in S : q <= p}) = i]

\* The cells are divided among siblings, numbered in ascending order.
Sibling(cells, cnt, j, right) ==
    LET leaf == node[Here].leaf
        skip == IF intkey /\ leaf THEN 0 ELSE 1
        from == IF j = 1 THEN 0 ELSE cnt[j - 1] + skip
    IN [leaf |-> leaf, cell |-> SubSeq(cells, from + 1, cnt[j]),
        right |-> IF leaf THEN 0 ELSE IF j = Len(cnt) THEN right ELSE cells[cnt[j] + 1].left]

balance_nonroot ==
    /\ BalanceStep /\ Depth > 1 /\ ~Appended
    /\ LET par == node[Above.pg]
           n == Len(par.cell)
           nxDiv == FirstSibling(n, Above.ix)
           nOld == IF n < 2 THEN n + 1 ELSE 3
           olds == [j \in 1 .. nOld |-> Child(par, nxDiv + j)]
           cells == Gathered(olds, SubSeq(par.cell, nxDiv + 1, nxDiv + nOld - 1))
           leafData == intkey /\ node[Here].leaf
           cnt == Divide(Sizes(cells), IF leafData THEN 0 ELSE 1)
           k == Len(cnt)
           new == AllocateMany(file, olds[1], k - nOld)
           pgs == Ascending(ToSet(SubSeq(olds, 1, Min({k, nOld})) \o new.pgs))
           right == node[olds[nOld]].right
           siblings == [pg \in ToSet(pgs) |->
                          Sibling(cells, cnt, CHOOSE i \in 1 .. k : pgs[i] = pg, right)]
           divider(j) == IF leafData
                         THEN Cell(DividerKey(cells, cnt[j]), [sz |-> DIVIDER], << >>, pgs[j])
                         ELSE [cells[cnt[j] + 1] EXCEPT !.left = pgs[j]]
           before == SubSeq(par.cell, 1, nxDiv) \o [j \in 1 .. k - 1 |-> divider(j)]
           after == SubSeq(par.cell, nxDiv + nOld, n)
           above == IF after = << >> THEN [par EXCEPT !.cell = before, !.right = pgs[k]]
                    ELSE [par EXCEPT !.cell = before \o [after EXCEPT ![1].left = pgs[k]]]
           shallower == Depth = 2 /\ above.cell = << >>
           kept == DOMAIN node \ (ToSet(olds) \cup {Above.pg})
           changed == IF shallower THEN {ROOT} ELSE ToSet(pgs) \cup {Above.pg}
       IN /\ node' = [pg \in kept \cup changed |->
                         IF pg \in kept THEN node[pg]
                         ELSE IF shallower THEN siblings[pgs[1]]
                         ELSE IF pg = Above.pg THEN above ELSE siblings[pg]]
          /\ file' = FreeMany(new.file, (IF shallower THEN <<pgs[1]>> ELSE << >>)
                                        \o SubSeq(olds, k + 1, nOld))
          /\ GoTo(Front(cur[w].path))

\* A plausible mistake: the last entry of a page is treated like the others.
DeletedAtLast ==
    IF op.skipnext THEN Skipping(At(Front(cur[w].path) \o <<Step(Here, op.at)>>), 1)
    ELSE IF op.save THEN Saved(op.key, 0) ELSE Nowhere

\* The place w keeps after a delete.
DeletedAt ==
    IF op.skipnext
    THEN LET len == Len(node[Here].cell)
             path == Front(cur[w].path) \o <<Step(Here, IF op.at > len THEN len ELSE op.at)>>
         IN Skipping(At(path), IF op.at > len THEN -1 ELSE 1)
    ELSE IF op.save THEN Saved(op.key, 0) ELSE Nowhere

\* A plausible mistake: the walk up stops one page short.
UpOneShort(path, depth) == SubSeq(path, 1, Min({Len(path), depth + 1}))

UpTo(path, depth) == SubSeq(path, 1, depth)

\* A delete on an interior page balances from the leaf first, then from there.
balance_again ==
    /\ Busy /\ Balanced
    /\ op.kind = "delete" /\ Depth > op.depth
    /\ GoTo(UpTo(cur[w].path, op.depth))
    /\ UNCHANGED <<scene, writes, node, file, op>>

balance_done ==
    /\ Busy /\ Balanced
    /\ op.kind = "delete" => Depth <= op.depth
    /\ op' = Idle
    /\ cur' = [cur EXCEPT ![w] = IF op.kind = "insert" THEN InsertedAt(op) ELSE DeletedAt]
    /\ UNCHANGED <<scene, writes, node, file>>

--------------------------------------------------------------------------------
Write ==
    \/ sqlite3BtreeClearTable
    \/ \E save \in BOOLEAN : sqlite3BtreeDelete(save)
    \/ \E k \in scene.keys, row \in scene.rows, flags \in Flags :
          sqlite3BtreeInsert(k, row, flags)

Balance ==
    \/ balance_deeper \/ balance_quick \/ balance_nonroot
    \/ balance_again \/ balance_done

Read ==
    \E c \in Cursors :
       \/ sqlite3BtreeFirst(c) \/ sqlite3BtreeLast(c)
       \/ sqlite3BtreeNext(c) \/ sqlite3BtreePrevious(c)
       \/ sqlite3BtreeIntegerKey(c) \/ sqlite3BtreeCursorRestore(c)
       \/ \E k \in scene.keys : sqlite3BtreeMoveto(c, k)

BtreeNext == Write \/ Balance \/ Read

\* A call runs on while it is not done: weak fairness of each step of balance(),
\* written out for the one that is enabled when its guard holds.
BalanceRuns ==
    /\ WF_btreeVars(balance_deeper) /\ WF_btreeVars(balance_quick)
    /\ WF_btreeVars(balance_again) /\ WF_btreeVars(balance_done)
    /\ <>[](Busy /\ ~Balanced /\ Depth > 1 /\ ~Appended) => []<><<balance_nonroot>>_btreeVars

BtreeSpec == BtreeInit /\ [][BtreeNext]_btreeVars /\ BalanceRuns

--------------------------------------------------------------------------------
(* Properties. *)

BtreeTypeOK ==
    /\ scene \in Scenes /\ writes \in 0 .. scene.writes
    /\ \A pg \in DOMAIN node : \A j \in DOMAIN node[pg].cell : node[pg].cell[j].key \in Keys
    /\ \A c \in Cursors :
          /\ cur[c].state \in {"INVALID", "VALID", "SKIPNEXT", "REQUIRESEEK"}
          /\ cur[c].state \in {"VALID", "SKIPNEXT"} =>
                /\ \A i \in DOMAIN cur[c].path : cur[c].path[i].pg \in DOMAIN node
                /\ op = Idle => Last(cur[c].path).ix \in DOMAIN node[Last(cur[c].path).pg].cell
          /\ cur[c].valid => cur[c].state \in {"VALID", "SKIPNEXT"} /\ cur[c].key # 0

\* How many pages lie below a page on the way to its last leaf.
Height == LET height[pg \in DOMAIN node] ==
                  IF node[pg].leaf THEN 0 ELSE 1 + height[node[pg].right]
          IN height

\* The entries and dividers of a page: 2k for the key k, 2k + 1 for a divider,
\* which closes the keys up to k.
Mark(n, j) == 2 * n.cell[j].key + (IF intkey /\ ~n.leaf THEN 1 ELSE 0)

\* Those of a page and of all pages below it.
Marks == LET marks[pg \in DOMAIN node] ==
                 LET n == node[pg]
                 IN {Mark(n, j) : j \in DOMAIN n.cell}
                    \cup (IF n.leaf THEN {}
                          ELSE UNION {marks[Child(n, j)] : j \in 1 .. Len(n.cell) + 1})
         IN marks

\* Every entry is where a search looks for it, also while pages are balanced:
\* keys ascend, dividers bound what they divide, and leaves are equally deep
\* (btreeInt.h, "All of the keys on the page that Ptr(0) points to have values
\* less than Key(0)").
SearchTree ==
    LET height == Height
        marks == Marks
    IN \A pg \in DOMAIN node :
          LET n == node[pg] IN
          /\ \A i, j \in DOMAIN n.cell : i < j => Mark(n, i) < Mark(n, j)
          /\ ~n.leaf =>
                \A j \in 1 .. Len(n.cell) + 1 :
                   /\ height[pg] = 1 + height[Child(n, j)]
                   /\ \A m \in marks[Child(n, j)] :
                         /\ j > 1 => Mark(n, j - 1) < m
                         /\ j <= Len(n.cell) => m < Mark(n, j)

\* What the j-th place of a page refers to, and a trunk page with its leaves.
Chain(n, j) == (IF n.leaf THEN << >> ELSE <<Child(n, j)>>)
               \o (IF j <= Len(n.cell) THEN n.cell[j].ovf ELSE << >>)
TrunkChain(t) == <<t.pg>> \o t.leaves

Places(pg) == 1 .. Len(node[pg].cell) + 1

References ==
    (UNION {UNION {{<<pg, j, i>> : i \in DOMAIN Chain(node[pg], j)} : j \in Places(pg)} : pg \in DOMAIN node})
    \cup (UNION {{<<0, t, i>> : i \in DOMAIN TrunkChain(file.trunk[t])} : t \in DOMAIN file.trunk})
PageAt(r) == IF r[1] = 0 THEN TrunkChain(file.trunk[r[2]])[r[3]] ELSE Chain(node[r[1]], r[2])[r[3]]

\* Every page of the file but the root is referred to once, by its parent, an
\* overflow chain or the free list: none is lost and none has two users.
PagesPartition ==
    /\ \A r, s \in References : PageAt(r) = PageAt(s) => r = s
    /\ {PageAt(r) : r \in References} = 3 .. file.nPage
    /\ DOMAIN node =
          {ROOT} \cup UNION {{Child(node[pg], j) : j \in Places(pg)} : pg \in DOMAIN node \ Leaves}

\* Between calls no page holds more than fits, none but the root is empty, and
\* cursors go down to pages with entries only (moveToChild refuses others).
PagesFit ==
    op = Idle => \A pg \in DOMAIN node :
                    /\ ~Overflows(node[pg])
                    /\ pg # ROOT \/ ~node[pg].leaf => node[pg].cell # << >>

TableKeys ==
    UNION {{node[pg].cell[j].key : j \in DOMAIN node[pg].cell} :
             pg \in {p \in DOMAIN node : node[p].leaf \/ ~intkey}}

Between(k, skip) == IF skip > 0 THEN 2 * k - 1 ELSE IF skip < 0 THEN 2 * k + 1 ELSE 2 * k

PlaceOf(c) ==
    CASE c.state = "INVALID" -> -1
      [] c.state = "REQUIRESEEK" -> Between(c.key, c.skip)
      [] OTHER -> Between(KeyOf(c), c.skip)

Place(c) ==
    IF c # w \/ op = Idle THEN PlaceOf(cur[c]) ELSE IF op.save THEN 2 * op.key ELSE -1

Promise == INSTANCE KeyStore WITH keys <- TableKeys, pos <- [c \in Cursors |-> Place(c)]

Reads(c) ==
    /\ sqlite3BtreeFirst(c) => Promise!First(c)
    /\ sqlite3BtreeLast(c) => Promise!LastKey(c)
    /\ sqlite3BtreeNext(c) => Promise!Next(c)
    /\ sqlite3BtreePrevious(c) => Promise!Previous(c)
    /\ sqlite3BtreeCursorRestore(c) => Promise!Restore(c)
    /\ sqlite3BtreeIntegerKey(c) => UNCHANGED Promise!keyVars
    /\ \A k \in scene.keys : sqlite3BtreeMoveto(c, k) => Promise!Moveto(c, k)

Writes ==
    /\ sqlite3BtreeClearTable => Promise!ClearTable
    /\ \A save \in BOOLEAN : sqlite3BtreeDelete(save) => Promise!Delete(w, KeyOf(cur[w]))
    /\ \A k \in scene.keys, row \in scene.rows, flags \in Flags :
          sqlite3BtreeInsert(k, row, flags) => Promise!Insert(w, k)


\* The step to the next entry takes every cursor to the first key after its place
\* (btree.c, "Advance the cursor to the next entry in the database").
NextInOrder ==
    op = Idle => \A c \in scene.cursors :
        PlaceOf(NextOf(c)) = IF Place(c) = -1 THEN -1 ELSE Promise!Forth(Place(c))

\* Every insert and delete returns: balancing climbs to the root and stops.
CallsReturn == Busy ~> op = Idle

================================================================================
