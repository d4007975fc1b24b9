------------------------------- MODULE QNodeList -------------------------------
(****************************************************************************)
(* The queue of vmem.c as it is built: QNodes linked by prev and next, the   *)
(* front and rear pointers and the counter of struct Queue, and the array of *)
(* pointers of struct vHash.  Each action is the pointer surgery of one      *)
(* function, assignment by assignment, so that the cases where nodes         *)
(* coincide (a single node, the front, the rear, neighbours) are the code's. *)
(* It implements PageQueue.                                                  *)
(****************************************************************************)
EXTENDS VmeConfig

CONSTANT MAPPING   \* WARM_FETCH: pages can be mapped, and their nodes marked

ASSUME ListAssumption ==
    /\ COLD_PAGES \in Nat \ {0}
    /\ WARM_PAGES \in Nat \ {0}
    /\ MAPPING \in BOOLEAN

VARIABLES
    nodes,   \* addresses malloc handed out and free did not take back
    prev, next, pageNumber, marks,  \* the fields of the QNodes
    front, rear, count,             \* struct Queue
    array                           \* struct vHash

fields == <<prev, next, pageNumber, marks>>
listVars == <<nodes, fields, front, rear, count, array>>

\* As many addresses as there can be nodes; 0 is NULL.
Nodes == 1 .. WARM_PAGES
NoNode == 0

\* A field of memory that is not allocated.
Freed == -1

--------------------------------------------------------------------------------
ListInit ==
    /\ nodes = {}
    /\ prev = [n \in Nodes |-> Freed]
    /\ next = [n \in Nodes |-> Freed]
    /\ pageNumber = [n \in Nodes |-> Freed]
    /\ marks = [n \in Nodes |-> FALSE]
    /\ front = NoNode
    /\ rear = NoNode
    /\ count = 0
    /\ array = [p \in Pages |-> NoNode]

ListFull == count = WARM_PAGES

\* f with f[n] := v, where the code tests n against NoNode first.
SetUnlessNull(f, n, v) == IF n = NoNode THEN f ELSE [f EXCEPT ![n] = v]

\* Plausible mistakes: hash->array keeps the pointer to the freed node, or
\* deQueue does not count down.
DeQueueKeepingEntry(p) ==
    LET old == rear
        last == prev[old]
    IN  \E n \in (Nodes \ nodes) \cup {old} :
        /\ nodes' = (nodes \ {old}) \cup {n}
        /\ next' = [[SetUnlessNull(next, last, NoNode) EXCEPT ![old] = Freed]
                    EXCEPT ![n] = IF front = old THEN NoNode ELSE front]
        /\ prev' = [SetUnlessNull([prev EXCEPT ![old] = Freed],
                                  IF last = NoNode THEN NoNode ELSE front, n)
                    EXCEPT ![n] = NoNode]
        /\ pageNumber' = [pageNumber EXCEPT ![old] = Freed, ![n] = p]
        /\ marks' = [marks EXCEPT ![old] = FALSE, ![n] = MAPPING]
        /\ front' = n
        /\ rear' = IF last = NoNode THEN n ELSE last
        /\ array' = [array EXCEPT ![p] = n]
        /\ count' = count

DeQueueNotCounted(p) ==
    \E n \in (Nodes \ nodes) \cup {rear} : nodes' = (nodes \ {rear}) \cup {n}
        /\ count' = count + 1 /\ array' = [array EXCEPT ![p] = n]
        /\ UNCHANGED <<fields, front, rear>>

\* deQueue: rear is unlinked and freed; `p' is what Enqueue then adds.
\* newQNode may well get the memory of the freed node.
DeQueueAndEnqueue(p) ==
    LET old == rear
        last == prev[old]
        head == IF front = old THEN NoNode ELSE front
        cut == SetUnlessNull(next, last, NoNode)
    IN  \E n \in (Nodes \ nodes) \cup {old} :
        /\ nodes' = (nodes \ {old}) \cup {n}
        /\ next' = [[cut EXCEPT ![old] = Freed] EXCEPT ![n] = head]
        /\ prev' = [SetUnlessNull([prev EXCEPT ![old] = Freed],
                                  IF last = NoNode THEN NoNode ELSE head, n)
                    EXCEPT ![n] = NoNode]
        /\ pageNumber' = [pageNumber EXCEPT ![old] = Freed, ![n] = p]
        /\ marks' = [marks EXCEPT ![old] = FALSE, ![n] = MAPPING]
        /\ front' = n
        /\ rear' = IF last = NoNode THEN n ELSE last
        /\ array' = [array EXCEPT ![pageNumber[old]] = NoNode, ![p] = n]
        /\ count' = count - 1 + 1

\* Enqueue while a frame is free.
EnqueueFree(p) ==
    \E n \in Nodes \ nodes :
        /\ nodes' = nodes \cup {n}
        /\ next' = [next EXCEPT ![n] = front]
        /\ prev' = [SetUnlessNull(prev, IF rear = NoNode THEN NoNode ELSE front, n)
                    EXCEPT ![n] = NoNode]
        /\ pageNumber' = [pageNumber EXCEPT ![n] = p]
        /\ marks' = [marks EXCEPT ![n] = MAPPING]
        /\ front' = n
        /\ rear' = IF rear = NoNode THEN n ELSE rear
        /\ array' = [array EXCEPT ![p] = n]
        /\ count' = count + 1

Enqueue(p) ==
    \/ ListFull /\ ~(MAPPING /\ marks[rear]) /\ DeQueueAndEnqueue(p)
    \/ ~ListFull /\ EnqueueFree(p)

\* A plausible mistake: the case of the rear node is forgotten.
MoveToFrontFromMiddle(n) ==
    /\ next' = [[next EXCEPT ![prev[n]] = next[n]] EXCEPT ![n] = front]
    /\ prev' = [[SetUnlessNull(prev, next[n], prev[n]) EXCEPT ![n] = NoNode]
                EXCEPT ![front] = n]
    /\ front' = n
    /\ rear' = rear

\* ReferencePage unlinks a node that is not at the front and puts it there.
MoveToFront(n) ==
    LET next1 == [next EXCEPT ![prev[n]] = next[n]]
        prev1 == SetUnlessNull(prev, next[n], prev[n])
        last == IF n = rear THEN prev1[n] ELSE rear
        next2 == IF n = rear THEN [next1 EXCEPT ![last] = NoNode] ELSE next1
    IN  /\ rear' = last
        /\ next' = [next2 EXCEPT ![n] = front]
        /\ prev' = [[prev1 EXCEPT ![n] = NoNode] EXCEPT ![front] = n]
        /\ front' = n

ReferencePage(p) ==
    LET n == array[p] IN
    \/ /\ n = NoNode
       /\ Enqueue(p)
    \/ /\ n # NoNode
       /\ IF n = front THEN UNCHANGED <<prev, next, front, rear>>
          ELSE MoveToFront(n)
       /\ marks' = [marks EXCEPT ![n] = MAPPING \/ @]
       /\ UNCHANGED <<nodes, pageNumber, count, array>>

\* A plausible mistake: a released page goes to the end it came from.
MoveNowhere(n) == UNCHANGED <<prev, next, front, rear>>

\* DeReferenceNode unlinks a node that is not at the rear and puts it there.
MoveToRear(n) ==
    LET next1 == SetUnlessNull(next, prev[n], next[n])
        prev1 == [prev EXCEPT ![next[n]] = prev[n]]
        head == IF n = front THEN next1[n] ELSE front
        prev2 == IF n = front THEN [prev1 EXCEPT ![head] = NoNode] ELSE prev1
    IN  /\ front' = head
        /\ prev' = [prev2 EXCEPT ![n] = rear]
        /\ next' = [[next1 EXCEPT ![n] = NoNode] EXCEPT ![rear] = n]
        /\ rear' = n

\* For a page that has a node; Vmem says what becomes of the others.
DeReferenceNode(p) ==
    LET n == array[p] IN
    /\ n # NoNode
    /\ IF n = rear THEN UNCHANGED <<prev, next, front, rear>>
       ELSE MoveToRear(n)
    /\ marks' = [marks EXCEPT ![n] = FALSE]
    /\ UNCHANGED <<nodes, pageNumber, count, array>>

\* The k-th node from the rear, NoNode beyond the front.
FromRear == LET node[k \in 1 .. WARM_PAGES] ==
                IF k = 1 THEN rear
                ELSE IF node[k - 1] \in Nodes THEN prev[node[k - 1]] ELSE NoNode
            IN  node

\* cache_reset frees what cache_purge finds from the rear, then the queue and
\* the array themselves; what it did not find would stay allocated.
CacheReset ==
    LET left == nodes \ {FromRear[k] : k \in 1 .. count} IN
    /\ nodes' = left
    /\ prev' = [n \in Nodes |-> IF n \in left THEN prev[n] ELSE Freed]
    /\ next' = [n \in Nodes |-> IF n \in left THEN next[n] ELSE Freed]
    /\ pageNumber' = [n \in Nodes |-> IF n \in left THEN pageNumber[n] ELSE Freed]
    /\ marks' = [n \in Nodes |-> n \in left /\ marks[n]]
    /\ front' = NoNode
    /\ rear' = NoNode
    /\ count' = 0
    /\ array' = [p \in Pages |-> NoNode]

ListNext ==
    \/ \E p \in Pages : ReferencePage(p) \/ DeReferenceNode(p)
    \/ CacheReset

ListSpec == ListInit /\ [][ListNext]_listVars

--------------------------------------------------------------------------------
\* The k-th node from the front, NoNode beyond the rear.
FromFront == LET node[k \in 1 .. WARM_PAGES] ==
                 IF k = 1 THEN front
                 ELSE IF node[k - 1] \in Nodes THEN next[node[k - 1]] ELSE NoNode
             IN  node

ListTypeOK ==
    /\ nodes \in SUBSET Nodes
    /\ prev \in [Nodes -> Nodes \cup {NoNode, Freed}]
    /\ next \in [Nodes -> Nodes \cup {NoNode, Freed}]
    /\ pageNumber \in [Nodes -> Pages \cup {Freed}]
    /\ marks \in [Nodes -> BOOLEAN]
    /\ {front, rear} \subseteq Nodes \cup {NoNode}
    /\ count \in 0 .. WARM_PAGES
    /\ array \in [Pages -> Nodes \cup {NoNode}]

\* Walking from either end passes every allocated node once, in opposite
\* orders, and stops after `count' nodes: no node leaks and no pointer dangles
\* (vmem.c:175-208, 259-266, 285-301, 316-331).
DoublyLinked ==
    /\ nodes = {FromFront[k] : k \in 1 .. count}
    /\ \A k \in 1 .. count : FromFront[k] = FromRear[count + 1 - k]
    /\ count = 0 => front = NoNode /\ rear = NoNode
    /\ count > 0 => prev[front] = NoNode /\ next[rear] = NoNode

\* hash->array leads to the node of the page and to no other (vmem.c:222, 269).
ArrayLeadsToNodes ==
    /\ \A p \in Pages : array[p] # NoNode =>
          array[p] \in nodes /\ pageNumber[array[p]] = p
    /\ \A n \in nodes : array[pageNumber[n]] = n

\* The order of the pages and the mark of each, as a caller can observe them.
Order == [k \in 1 .. count |->
            IF FromFront[k] \in Nodes THEN pageNumber[FromFront[k]] ELSE Freed]

Queue == INSTANCE PageQueue WITH
    queue <- Order,
    hash <- {p \in Pages : array[p] # NoNode},
    WARM_FETCH <- MAPPING,
    stick <- [p \in Pages |-> array[p] # NoNode /\ marks[array[p]]]

\* The list does what the abstract queue does: hits move to the front, releases
\* to the rear, and the page that gives way is the one at the rear
\* (vmem.c:175-334).
ImplementsPageQueue == Queue!QueueSpec

================================================================================
