---------------------------- MODULE PageTransactions ----------------------------
(****************************************************************************)
(* What the pager promises the B-tree: a write transaction on pages happens   *)
(* as a whole or not at all, and a savepoint brings back the pages as they    *)
(* were when it was opened.  A call may fail; what the pages read as is then  *)
(* not promised until something is rolled back.  Where pages are kept, and    *)
(* what brings them back, is left to module PagerJournal.                     *)
(****************************************************************************)
EXTENDS Integers, Sequences

CONSTANTS
    Pages,      \* the pages the client may use
    Contents    \* what they may hold

VARIABLES
    pages,      \* the pages in use, with their contents
    inTrans,    \* a write transaction is open
    failed,     \* one of its calls has failed
    committed,  \* the pages that a rollback brings back
    stack       \* those that each savepoint brings back, oldest first

pageVars == <<pages, inTrans, failed, committed, stack>>

PagesInit ==
    /\ pages = << >> /\ committed = << >> /\ stack = << >>
    /\ inTrans = FALSE /\ failed = FALSE

Begin ==
    /\ ~inTrans /\ ~failed
    /\ inTrans' = TRUE
    /\ UNCHANGED <<pages, failed, committed, stack>>

Changes == inTrans /\ ~failed /\ UNCHANGED <<inTrans, failed, committed, stack>>

Write(p, d) ==
    /\ Changes
    /\ p \in DOMAIN pages
    /\ pages' = [pages EXCEPT ![p] = d]

\* A page that is not in use is taken, whatever it holds.
Allocate(p, d) ==
    /\ Changes
    /\ p \notin DOMAIN pages
    /\ pages' = [q \in DOMAIN pages \cup {p} |-> IF q = p THEN d ELSE pages[q]]

Free(p) ==
    /\ Changes
    /\ p \in DOMAIN pages
    /\ pages' = [q \in DOMAIN pages \ {p} |-> pages[q]]

\* A call fails.
Fail ==
    /\ inTrans /\ ~failed
    /\ failed' = TRUE
    /\ UNCHANGED <<inTrans, committed, stack>>

Open ==
    /\ inTrans /\ ~failed
    /\ stack' = Append(stack, pages)
    /\ UNCHANGED <<pages, inTrans, failed, committed>>

Release(n) ==
    /\ inTrans /\ ~failed
    /\ n \in DOMAIN stack
    /\ stack' = SubSeq(stack, 1, n - 1)
    /\ UNCHANGED <<pages, inTrans, failed, committed>>

\* The rollback to savepoint n, which may itself fail.
RollbackTo(n) ==
    /\ inTrans
    /\ n \in DOMAIN stack
    /\ stack' = SubSeq(stack, 1, n)
    /\ \/ failed' = FALSE /\ pages' = stack[n]
       \/ failed' = TRUE
    /\ UNCHANGED <<inTrans, committed>>

\* The rollback of the transaction does not fail.
Rollback ==
    /\ inTrans
    /\ pages' = committed /\ stack' = << >>
    /\ inTrans' = FALSE /\ failed' = FALSE
    /\ UNCHANGED committed

Commit ==
    /\ inTrans /\ ~failed
    /\ committed' = pages /\ stack' = << >>
    /\ inTrans' = FALSE
    /\ UNCHANGED <<pages, failed>>

PagesNext ==
    \/ Begin \/ Fail \/ Open \/ Rollback \/ Commit
    \/ \E n \in DOMAIN stack : Release(n) \/ RollbackTo(n)
    \/ \E p \in Pages : Free(p) \/ \E d \in Contents : Write(p, d) \/ Allocate(p, d)

PagesSpec == PagesInit /\ [][PagesNext]_pageVars

================================================================================
