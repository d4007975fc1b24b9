------------------------------ MODULE BtreePages ------------------------------
(****************************************************************************)
(* The pages of a database file as btree.c hands them out, and the division   *)
(* of cells among sibling pages.  Pure operators: module Btree uses them.     *)
(*                                                                            *)
(* Sizes count units of U to the page; a page's header takes none.            *)
(****************************************************************************)
EXTENDS Integers, Sequences, SequencesExt, FiniteSetsExt

CONSTANTS
    U,        \* pBt->usableSize
    TRUNK     \* the leaves a trunk page of the free list takes

ASSUME PagesAssumption == U \in Nat /\ U >= 4 /\ TRUNK \in Nat

Distance(x, y) == IF x < y THEN y - x ELSE x - y

\* The free list, a sequence of trunk pages with the pages each lists, and the
\* size of the file.
EmptyFile == [trunk |-> << >>, nPage |-> 2]

\* A plausible mistake: the last leaf is not moved into the gap.
TakeLeafNoMove(leaves, i) == SubSeq(leaves, 1, Len(leaves) - 1)

\* The leaves without the i-th, whose place the last one takes.
TakeLeaf(leaves, i) ==
    SubSeq([leaves EXCEPT ![i] = Last(leaves)], 1, Len(leaves) - 1)

\* The page on the free list's first trunk that is closest to `nearby'; else
\* the trunk itself; else a new page.
allocateBtreePage(f, nearby) ==
    IF f.trunk = << >>
    THEN [pg |-> f.nPage + 1, file |-> [f EXCEPT !.nPage = @ + 1]]
    ELSE LET t == Head(f.trunk) IN
         IF t.leaves = << >>
         THEN [pg |-> t.pg, file |-> [f EXCEPT !.trunk = Tail(@)]]
         ELSE LET far(i) == Distance(t.leaves[i], nearby)
                  closest == IF nearby = 0 THEN 1
                             ELSE Min({i \in DOMAIN t.leaves :
                                         \A j \in DOMAIN t.leaves : far(i) <= far(j)})
              IN [pg |-> t.leaves[closest],
                  file |-> [f EXCEPT !.trunk[1].leaves = TakeLeaf(@, closest)]]

\* n pages, each near the one before.
AllocateMany(f, nearby, n) ==
    LET got[i \in 0 .. Max({0, n})] ==
            IF i = 0 THEN [pgs |-> << >>, file |-> f]
            ELSE LET before == got[i - 1]
                     a == allocateBtreePage(before.file,
                                            IF i = 1 THEN nearby ELSE Last(before.pgs))
                 IN [pgs |-> Append(before.pgs, a.pg), file |-> a.file]
    IN got[Max({0, n})]

\* A freed page is listed on the first trunk, or becomes a trunk itself.
freePage2(f, pg) ==
    IF f.trunk # << >> /\ Len(Head(f.trunk).leaves) < TRUNK
    THEN [f EXCEPT !.trunk[1].leaves = Append(@, pg)]
    ELSE [f EXCEPT !.trunk = <<[pg |-> pg, leaves |-> << >>]>> \o @]

FreeMany(f, pgs) ==
    LET freed[i \in 0 .. Len(pgs)] ==
            IF i = 0 THEN f ELSE freePage2(freed[i - 1], pgs[i])
    IN freed[Len(pgs)]

--------------------------------------------------------------------------------
\* The units that the first cells take, by their number.
Sums(sizes) ==
    LET sum[i \in 0 .. Len(sizes)] == IF i = 0 THEN 0 ELSE sum[i - 1] + sizes[i] IN sum

Total(sizes) == Sums(sizes)[Len(sizes)]

\* What the cells after `from' up to `upto' take.
Held(sizes, from, upto) == Sums(sizes)[upto] - Sums(sizes)[from]

\* How far a page gets that starts after `from'.
Filled(sizes, from) ==
    Max({c \in from .. Len(sizes) : Held(sizes, from, c) <= U})

\* The first pass over the siblings: each takes the cells that fit.  With `skip'
\* 1 the cell between two pages goes to their parent.
FillFromLeft(sizes, skip) ==
    LET end[i \in 1 .. Len(sizes) + 1] ==
            IF i = 1 THEN Filled(sizes, 0)
            ELSE LET before == end[i - 1]
                 IN IF before = Len(sizes) THEN before ELSE Filled(sizes, before + skip)
        k == Min({i \in 1 .. Len(sizes) + 1 : end[i] = Len(sizes)})
    IN SubSeq(end, 1, k)

\* The second pass, from the right: a page gives its last cells to the next one,
\* which reaches to `end', while that one stays the smaller.
GiveToRight(sizes, from, upto, end, skip) ==
    LET left(r) == Held(sizes, from, r)
        right(r) == Held(sizes, r + skip, end)
    IN Max({r \in 0 .. upto :
              r = 0 \/ (right(r) # 0 /\ right(r) + sizes[r + skip] > left(r) - sizes[r])})

EvenOut(sizes, cnt, skip) ==
    LET k == Len(cnt)
        from(i) == IF i = 1 THEN 0 ELSE cnt[i - 1] + skip
        \* The end of the page that has j pages to its right.
        end[j \in 0 .. k - 1] ==
            IF j = 0 THEN cnt[k]
            ELSE GiveToRight(sizes, from(k - j), cnt[k - j], end[j - 1], skip)
    IN [i \in 1 .. k |-> end[k - i]]

\* A plausible mistake: the second pass is only an optimisation.
NoEvenOut(sizes, skip) == FillFromLeft(sizes, skip)

\* cntNew: the number of cells up to the end of each new page.
Divide(sizes, skip) == EvenOut(sizes, FillFromLeft(sizes, skip), skip)

================================================================================
