------------------------------- MODULE PageQueue -------------------------------
(****************************************************************************)
(* The page-replacement queue of the Virtual Memory Engine (vmem.c) as an    *)
(* abstract object: the order of the resident pages, most recently           *)
(* referenced first, and the `stick' mark that keeps a page from being       *)
(* replaced.  Module Vmem builds the engine on top of it; module QNodeList   *)
(* shows that the doubly linked list and the hash array of the code          *)
(* implement it.                                                             *)
(****************************************************************************)
EXTENDS VmeConfig

CONSTANT WARM_FETCH   \* the build flag: pages can be mapped, and marked `stick'

ASSUME PageQueueAssumption ==
    /\ COLD_PAGES \in Nat \ {0}
    /\ WARM_PAGES \in Nat \ {0}
    /\ WARM_FETCH \in BOOLEAN

VARIABLES
    queue,  \* page numbers from front to rear
    hash,   \* the pages whose entry of hash->array is not NULL
    stick   \* the `stick' field of the page's QNode, FALSE when it has none

queueVars == <<queue, hash, stick>>

--------------------------------------------------------------------------------
(* Sequences of pages. *)

PushFront(q, p) == [k \in 1 .. Len(q) + 1 |-> IF k = 1 THEN p ELSE q[k - 1]]

\* The rear element gives way to p, which enters at the front.
Rotate(q, p) == [k \in 1 .. Len(q) |-> IF k = 1 THEN p ELSE q[k - 1]]

ToFront(q, i) ==
    [k \in 1 .. Len(q) |->
        IF k = 1 THEN q[i] ELSE IF k <= i THEN q[k - 1] ELSE q[k]]

ToRear(q, i) ==
    [k \in 1 .. Len(q) |->
        IF k < i THEN q[k] ELSE IF k < Len(q) THEN q[k + 1] ELSE q[i]]

--------------------------------------------------------------------------------
QueueInit ==
    /\ queue = << >>
    /\ hash = {}
    /\ stick = [p \in Pages |-> FALSE]

AreAllFramesFull == Len(queue) = WARM_PAGES

Rear == queue[Len(queue)]

Position(p) == CHOOSE i \in 1 .. Len(queue) : queue[i] = p

\* Plausible mistakes: the mark is set and the order left as it is, or a page
\* that is found in the cache is not marked.
HitUnmarked(p) ==
    /\ p \in hash
    /\ queue' = ToFront(queue, Position(p))
    /\ UNCHANGED <<hash, stick>>

HitInPlace(p) ==
    /\ p \in hash
    /\ stick' = [stick EXCEPT ![p] = WARM_FETCH \/ @]
    /\ UNCHANGED <<queue, hash>>

\* ReferencePage finds the page's node and moves it to the front.
Hit(p) ==
    /\ p \in hash
    /\ queue' = ToFront(queue, Position(p))
    /\ hash' = hash
    /\ stick' = [stick EXCEPT ![p] = WARM_FETCH \/ @]

\* ReferencePage enqueues the page while a frame is still free.
Fill(p) ==
    /\ p \notin hash
    /\ ~AreAllFramesFull
    /\ queue' = PushFront(queue, p)
    /\ hash' = hash \cup {p}
    /\ stick' = [stick EXCEPT ![p] = WARM_FETCH]

\* Plausible mistakes: the array keeps its pointer to the page that gave way, or
\* a marked page gives way too.
ReplaceKeepingEntry(p) ==
    /\ p \notin hash
    /\ AreAllFramesFull
    /\ WARM_FETCH => ~stick[Rear]
    /\ queue' = Rotate(queue, p)
    /\ hash' = hash \cup {p}
    /\ stick' = [stick EXCEPT ![Rear] = FALSE, ![p] = WARM_FETCH]

ReplaceMarked(p) ==
    /\ p \notin hash
    /\ AreAllFramesFull
    /\ queue' = Rotate(queue, p)
    /\ hash' = (hash \ {Rear}) \cup {p}
    /\ stick' = [stick EXCEPT ![Rear] = FALSE, ![p] = WARM_FETCH]

\* ReferencePage enqueues the page in place of the one at the rear.
Replace(p) ==
    /\ p \notin hash
    /\ AreAllFramesFull
    /\ WARM_FETCH => ~stick[Rear]
    /\ queue' = Rotate(queue, p)
    /\ hash' = (hash \ {Rear}) \cup {p}
    /\ stick' = [stick EXCEPT ![Rear] = FALSE, ![p] = WARM_FETCH]

\* Enqueue returns 0: every frame is taken and the rear page is marked.
Refused(p) ==
    /\ p \notin hash
    /\ AreAllFramesFull
    /\ WARM_FETCH /\ stick[Rear]

\* A plausible mistake: the mark is taken away, the order is left as it is.
DeReferenceInPlace(p) ==
    /\ p \in hash
    /\ stick' = [stick EXCEPT ![p] = FALSE]
    /\ UNCHANGED <<queue, hash>>

\* DeReferencePage moves the page to the rear and takes the mark away.
DeReferencePage(p) ==
    /\ p \in hash
    /\ queue' = ToRear(queue, Position(p))
    /\ hash' = hash
    /\ stick' = [stick EXCEPT ![p] = FALSE]

QueueReset ==
    /\ queue' = << >>
    /\ hash' = {}
    /\ stick' = [p \in Pages |-> FALSE]

QueueNext ==
    \/ \E p \in Pages : Hit(p) \/ Fill(p) \/ Replace(p) \/ DeReferencePage(p)
    \/ QueueReset

QueueSpec == QueueInit /\ [][QueueNext]_queueVars

--------------------------------------------------------------------------------
QueueTypeOK ==
    /\ queue \in Seq(Pages)
    /\ hash \in SUBSET Pages
    /\ stick \in [Pages -> BOOLEAN]

\* The hash array and the list agree: the array has an entry for exactly the
\* pages the list holds, the list holds none twice, and there are never more
\* than the frames allow (vmem.c:165-167 compares counters for equality only,
\* so one page too many would never be noticed again).
QueueConsistent ==
    /\ Len(queue) <= WARM_PAGES
    /\ hash = {queue[i] : i \in 1 .. Len(queue)}
    /\ \A i, j \in 1 .. Len(queue) : queue[i] = queue[j] => i = j

\* Marked pages stand in front of all unmarked ones.  Enqueue looks at the mark
\* of the rear page only (vmem.c:216), which is enough just because of this.
StuckInFront ==
    /\ \A i, j \in 1 .. Len(queue) :
          i < j /\ stick[queue[j]] => stick[queue[i]]
    /\ \A p \in Pages : stick[p] => p \in hash /\ WARM_FETCH

\* Enqueue gives up only when no frame could be freed at all (vmem.c:216-219,
\* "we are full of ... and cannot add more").
RefusedOnlyWhenAllStuck ==
    \A p \in Pages : Refused(p) => \A r \in hash : stick[r]

\* The inductive invariant of the queue.
QueueInv == QueueTypeOK /\ QueueConsistent /\ StuckInFront

================================================================================
