---------------------------- MODULE QNodeListProofs ----------------------------
(****************************************************************************)
(* Proofs about the doubly linked list of vmem.c, for any number of pages and *)
(* frames: the pointers lead over the same nodes from either end, the array   *)
(* leads to the node of each page, nothing leaks or dangles, and the list is  *)
(* the queue of PageQueue.                                                    *)
(****************************************************************************)
EXTENDS QNodeList, WellFoundedInduction, TLAPS

ListConstants ==
    /\ COLD_PAGES \in Nat \ {0}
    /\ WARM_PAGES \in Nat \ {0}
    /\ MAPPING \in BOOLEAN

\* The nodes from front to rear are the sequence s, each once.
Linked(s) ==
    /\ count \in 0 .. WARM_PAGES
    /\ s \in [1 .. count -> Nodes]
    /\ \A i, j \in 1 .. count : s[i] = s[j] => i = j
    /\ nodes = {s[k] : k \in 1 .. count}
    /\ front = IF count = 0 THEN NoNode ELSE s[1]
    /\ rear = IF count = 0 THEN NoNode ELSE s[count]
    /\ \A k \in 1 .. count :
          /\ next[s[k]] = IF k = count THEN NoNode ELSE s[k + 1]
          /\ prev[s[k]] = IF k = 1 THEN NoNode ELSE s[k - 1]

\* The array and the nodes lead to each other.
ArrayMatches ==
    /\ \A p \in Pages : array[p] # NoNode => array[p] \in nodes /\ pageNumber[array[p]] = p
    /\ \A n \in nodes : pageNumber[n] \in Pages /\ array[pageNumber[n]] = n

\* The inductive invariant.
ListInv == ListTypeOK /\ ArrayMatches /\ \E s : Linked(s)

--------------------------------------------------------------------------------
(* The walks along the pointers. *)

LEMMA SmallestOf ==
    ASSUME NEW T, T \subseteq Nat, T # {}
    PROVE  \E x \in T : \A y \in T : x <= y
  <1>1. PICK x \in T : \A y \in T : <<y, x>> \notin OpToRel(<, Nat)
    BY NatLessThanWellFounded, WFMin, Zenon
  <1>2. \A y \in T : y \in Nat
    OBVIOUS
  <1>3. \A y \in T : ~(y < x)
    BY <1>1, <1>2, Zenon DEF OpToRel
  <1> QED BY <1>2, <1>3

\* The nodes passed from `first' on, along the pointers `link'.
Along(first, link, g) ==
    [k \in 1 .. WARM_PAGES |->
        IF k = 1 THEN first ELSE IF g[k - 1] \in Nodes THEN link[g[k - 1]] ELSE NoNode]

Walk(first, link) == CHOOSE g : g = Along(first, link, g)

LEMMA WalkIs ==
    ASSUME NEW first, NEW link, NEW g, WARM_PAGES \in Nat, g = Along(first, link, g)
    PROVE  Walk(first, link) = g
  <1> DEFINE h == Walk(first, link)
             Wrong == {k \in 1 .. WARM_PAGES : h[k] # g[k]}
  <1>1. h = Along(first, link, h)
    BY DEF Walk
  <1> HIDE DEF h
  <1>2. h = [k \in 1 .. WARM_PAGES |-> h[k]] /\ g = [k \in 1 .. WARM_PAGES |-> g[k]]
    BY <1>1 DEF Along
  <1>3. Wrong = {}
    <2>1. SUFFICES ASSUME Wrong # {} PROVE FALSE
      OBVIOUS
    <2>2. PICK k \in Wrong : \A j \in Wrong : k <= j
      <3>1. Wrong \subseteq Nat
        OBVIOUS
      <3> HIDE DEF Wrong
      <3> QED BY <2>1, <3>1, SmallestOf
    <2>3. k = 1 \/ (k - 1 \in 1 .. WARM_PAGES /\ h[k - 1] = g[k - 1])
      BY <2>2
    <2> QED BY <2>2, <2>3, <1>1 DEF Along
  <1>4. \A k \in 1 .. WARM_PAGES : h[k] = g[k]
    BY <1>3
  <1> QED BY <1>2, <1>4 DEF h

LEMMA WalksAre ==
    /\ FromFront = Walk(front, next)
    /\ FromRear = Walk(rear, prev)
    /\ FromFront' = Walk(front', next')
  BY DEF FromFront, FromRear, Walk, Along

\* In a list that is linked, both walks pass its nodes.
LEMMA WalkForth ==
    ASSUME NEW s, ListConstants, Linked(s)
    PROVE  \A k \in 1 .. count : FromFront[k] = s[k]
  <1> DEFINE g == [k \in 1 .. WARM_PAGES |-> IF k <= count THEN s[k] ELSE NoNode]
  <1>1. g = Along(front, next, g)
    <2>1. \A k \in 1 .. WARM_PAGES : g[k] = Along(front, next, g)[k]
      BY DEF Linked, Along, ListConstants, Nodes, NoNode
    <2> QED BY <2>1 DEF Along
  <1> QED BY <1>1, WalkIs, WalksAre DEF ListConstants, Linked

LEMMA WalkBack ==
    ASSUME NEW s, ListConstants, Linked(s)
    PROVE  \A k \in 1 .. count : FromRear[k] = s[count + 1 - k]
  <1> DEFINE g == [k \in 1 .. WARM_PAGES |-> IF k <= count THEN s[count + 1 - k] ELSE NoNode]
  <1>1. g = Along(rear, prev, g)
    <2>1. \A k \in 1 .. WARM_PAGES : g[k] = Along(rear, prev, g)[k]
      BY DEF Linked, Along, ListConstants, Nodes, NoNode
    <2> QED BY <2>1 DEF Along
  <1> QED BY <1>1, WalkIs, WalksAre DEF ListConstants, Linked

LEMMA WalkForthNext ==
    ASSUME NEW s, ListConstants, Linked(s)'
    PROVE  \A k \in 1 .. count' : FromFront'[k] = s[k]
  <1> DEFINE g == [k \in 1 .. WARM_PAGES |-> IF k <= count' THEN s[k] ELSE NoNode]
  <1>1. g = Along(front', next', g)
    <2>1. \A k \in 1 .. WARM_PAGES : g[k] = Along(front', next', g)[k]
      BY DEF Linked, Along, ListConstants, Nodes, NoNode
    <2> QED BY <2>1 DEF Along
  <1> QED BY <1>1, WalkIs, WalksAre DEF ListConstants, Linked

--------------------------------------------------------------------------------
(* Each function keeps the list linked: the nodes afterwards, front to rear. *)

\* What a new node at the front makes of a sequence of nodes.
Pushed(s, n, len) == [k \in 1 .. len |-> IF k = 1 THEN n ELSE s[k - 1]]

\* The i-th of len nodes moves to the front, or to the rear.
MovedUp(s, i, len) ==
    [k \in 1 .. len |-> IF k = 1 THEN s[i] ELSE IF k <= i THEN s[k - 1] ELSE s[k]]

MovedDown(s, i, len) ==
    [k \in 1 .. len |-> IF k < i THEN s[k] ELSE IF k < len THEN s[k + 1] ELSE s[i]]

LEMMA EnqueueFreeKeeps ==
    ASSUME ListConstants, ListTypeOK, ArrayMatches, NEW s, Linked(s),
           NEW p \in Pages, array[p] = NoNode, ~ListFull, EnqueueFree(p)
    PROVE  /\ count' = count + 1
           /\ ListTypeOK' /\ ArrayMatches'
           /\ \E t : t = Pushed(s, front', count + 1) /\ Linked(t)'
  <1>1. PICK n \in Nodes \ nodes :
           /\ nodes' = nodes \cup {n}
           /\ next' = [next EXCEPT ![n] = front]
           /\ prev' = [SetUnlessNull(prev, IF rear = NoNode THEN NoNode ELSE front, n)
                       EXCEPT ![n] = NoNode]
           /\ pageNumber' = [pageNumber EXCEPT ![n] = p]
           /\ marks' = [marks EXCEPT ![n] = MAPPING]
           /\ front' = n
           /\ rear' = IF rear = NoNode THEN n ELSE rear
           /\ array' = [array EXCEPT ![p] = n]
           /\ count' = count + 1
    BY DEF EnqueueFree
  <1>2. count \in Nat /\ count < WARM_PAGES /\ n \notin {s[k] : k \in 1 .. count}
    BY <1>1 DEF Linked, ListFull, ListConstants
  <1>3. n # NoNode
    BY DEF Nodes, NoNode
  <1>8. /\ front = IF count = 0 THEN NoNode ELSE s[1]
        /\ count > 0 => s[1] \in nodes /\ s[1] \in Nodes /\ rear # NoNode
        /\ count = 0 => rear = NoNode
    BY <1>2 DEF Linked, Nodes, NoNode
  <1>9. ASSUME NEW m \in Nodes
        PROVE  /\ next'[m] = IF m = n THEN front ELSE next[m]
               /\ prev'[m] = IF m = n THEN NoNode ELSE IF m = front THEN n ELSE prev[m]
    BY <1>1, <1>8 DEF ListTypeOK, SetUnlessNull, Nodes, NoNode
  <1>4. ListTypeOK'
    <2>1. nodes' \in SUBSET Nodes /\ count' \in 0 .. WARM_PAGES
      BY <1>1, <1>2 DEF ListTypeOK, ListConstants
    <2>2. next' \in [Nodes -> Nodes \cup {NoNode, Freed}]
      BY <1>1 DEF ListTypeOK
    <2>3. prev' \in [Nodes -> Nodes \cup {NoNode, Freed}]
      BY <1>1 DEF ListTypeOK, SetUnlessNull
    <2>4. /\ pageNumber' \in [Nodes -> Pages \cup {Freed}]
          /\ marks' \in [Nodes -> BOOLEAN]
          /\ {front', rear'} \subseteq Nodes \cup {NoNode}
          /\ array' \in [Pages -> Nodes \cup {NoNode}]
      BY <1>1 DEF ListTypeOK, ListConstants
    <2> QED BY <2>1, <2>2, <2>3, <2>4 DEF ListTypeOK, Nodes, Pages
  <1>5. ArrayMatches'
    BY <1>1, <1>3 DEF ArrayMatches, ListTypeOK, Nodes, NoNode
  <1>6. PICK t : t = Pushed(s, front', count + 1)
    OBVIOUS
  <1>7. Linked(t)'
    <2>1. \A k \in 1 .. count + 1 : t[k] = IF k = 1 THEN n ELSE s[k - 1]
      BY <1>1, <1>6 DEF Pushed
    <2>2. \A k \in 1 .. count + 1 : k = 1 \/ (k - 1 \in 1 .. count)
      BY <1>2
    <2>3. /\ count' \in 0 .. WARM_PAGES
          /\ t \in [1 .. count' -> Nodes]
          /\ \A i, j \in 1 .. count' : t[i] = t[j] => i = j
      BY <1>1, <1>2, <1>6, <2>1, <2>2 DEF Linked, Pushed, ListConstants
    <2>4. nodes' = {t[k] : k \in 1 .. count'}
      <3>1. \A k \in 1 .. count : s[k] = t[k + 1] /\ k + 1 \in 1 .. count'
        BY <1>1, <1>2, <2>1
      <3>2. n = t[1] /\ 1 \in 1 .. count'
        BY <1>1, <1>2, <2>1
      <3>3. nodes = {s[k] : k \in 1 .. count}
        BY DEF Linked
      <3>4. \A k \in 1 .. count' : t[k] \in nodes \cup {n}
        BY <1>1, <2>1, <2>2, <3>3
      <3> QED BY <1>1, <3>1, <3>2, <3>3, <3>4
    <2>5. /\ front' = IF count' = 0 THEN NoNode ELSE t[1]
          /\ rear' = IF count' = 0 THEN NoNode ELSE t[count']
      BY <1>1, <1>2, <2>1 DEF Linked, Nodes, NoNode
    <2>6. ASSUME NEW k \in 1 .. count'
          PROVE  next'[t[k]] = IF k = count' THEN NoNode ELSE t[k + 1]
      <3>1. CASE k = 1
        <4>1. t[k] = n /\ (count > 0 => t[k + 1] = s[1])
          BY <1>1, <1>2, <2>1, <3>1
        <4> QED BY <1>1, <1>2, <1>8, <1>9, <3>1, <4>1
      <3>2. CASE k # 1
        <4>1. k - 1 \in 1 .. count /\ t[k] = s[k - 1] /\ s[k - 1] \in Nodes /\ s[k - 1] # n
          BY <1>1, <1>2, <2>1, <3>2 DEF Linked
        <4>2. next[s[k - 1]] = IF k - 1 = count THEN NoNode ELSE s[k]
          BY <4>1, <1>2 DEF Linked
        <4> QED BY <4>1, <4>2, <1>1, <1>2, <1>9, <2>1
      <3> QED BY <3>1, <3>2
    <2>7. ASSUME NEW k \in 1 .. count'
          PROVE  prev'[t[k]] = IF k = 1 THEN NoNode ELSE t[k - 1]
      <3>1. CASE k = 1
        BY <1>1, <1>2, <1>9, <2>1, <3>1
      <3>2. CASE k # 1
        <4>1. k - 1 \in 1 .. count /\ t[k] = s[k - 1] /\ s[k - 1] \in Nodes /\ s[k - 1] # n
          BY <1>1, <1>2, <2>1, <3>2 DEF Linked
        <4>2. s[k - 1] = front <=> k = 2
          BY <4>1, <1>2, <1>8 DEF Linked
        <4>3. k # 2 => prev[s[k - 1]] = s[k - 2]
          BY <4>1, <1>2 DEF Linked
        <4> QED BY <4>1, <4>2, <4>3, <1>1, <1>2, <1>9, <2>1, <3>2
      <3> QED BY <3>1, <3>2
    <2> QED BY <2>3, <2>4, <2>5, <2>6, <2>7 DEF Linked
  <1> QED BY <1>1, <1>4, <1>5, <1>6, <1>7

LEMMA DeQueueAndEnqueueKeeps ==
    ASSUME ListConstants, ListTypeOK, ArrayMatches, NEW s, Linked(s),
           NEW p \in Pages, array[p] = NoNode, ListFull, DeQueueAndEnqueue(p)
    PROVE  /\ count' = count
           /\ ListTypeOK' /\ ArrayMatches'
           /\ \E t : t = Pushed(s, front', count) /\ Linked(t)'
  <1> DEFINE old == rear
             last == prev[old]
             head == IF front = old THEN NoNode ELSE front
             cut == SetUnlessNull(next, last, NoNode)
  <1>1. PICK n \in (Nodes \ nodes) \cup {old} :
           /\ nodes' = (nodes \ {old}) \cup {n}
           /\ next' = [[cut EXCEPT ![old] = Freed] EXCEPT ![n] = head]
           /\ prev' = [SetUnlessNull([prev EXCEPT ![old] = Freed],
                                     IF last = NoNode THEN NoNode ELSE head, n)
                       EXCEPT ![n] = NoNode]
           /\ pageNumber' = [pageNumber EXCEPT ![old] = Freed, ![n] = p]
           /\ marks' = [marks EXCEPT ![old] = FALSE, ![n] = MAPPING]
           /\ front' = n
           /\ rear' = IF last = NoNode THEN n ELSE last
           /\ array' = [array EXCEPT ![pageNumber[old]] = NoNode, ![p] = n]
           /\ count' = count - 1 + 1
    BY DEF DeQueueAndEnqueue
  <1>2. count \in Nat /\ count > 0 /\ count = WARM_PAGES
    BY DEF Linked, ListFull, ListConstants
  <1>3. /\ old = s[count] /\ old \in nodes /\ old \in Nodes
        /\ last = IF count = 1 THEN NoNode ELSE s[count - 1]
        /\ head = IF count = 1 THEN NoNode ELSE s[1]
    BY <1>2 DEF Linked
  <1>4. n \in Nodes /\ n # NoNode /\ \A k \in 1 .. count - 1 : s[k] # n /\ s[k] # old
    BY <1>1, <1>2, <1>3 DEF Linked, Nodes, NoNode
  <1>9. ASSUME NEW m \in Nodes
        PROVE  next'[m] = IF m = n THEN head ELSE IF m = old THEN Freed
                          ELSE IF m = last THEN NoNode ELSE next[m]
    <2>1. last # old /\ last \in Nodes \cup {NoNode}
      BY <1>2, <1>3, <1>4 DEF Linked, Nodes, NoNode
    <2>2. cut[m] = IF m = last THEN NoNode ELSE next[m]
      BY <1>3 DEF ListTypeOK, SetUnlessNull, Nodes, NoNode
    <2>3. cut \in [Nodes -> Nodes \cup {NoNode, Freed}]
      BY <2>1 DEF ListTypeOK, SetUnlessNull
    <2> HIDE DEF cut, head, last, old
    <2> QED BY <1>1, <1>3, <1>4, <2>2, <2>3
  <1>10. ASSUME NEW m \in Nodes
        PROVE  prev'[m] = IF m = n THEN NoNode ELSE IF m = head THEN n
                          ELSE IF m = old THEN Freed ELSE prev[m]
    <2> DEFINE gone == [prev EXCEPT ![old] = Freed]
               to == IF last = NoNode THEN NoNode ELSE head
               joined == SetUnlessNull(gone, to, n)
    <2>1. to = head /\ head # old
      <3>1. count > 1 => s[1] \in Nodes /\ s[1] # old /\ s[count - 1] \in Nodes
        BY <1>2, <1>4 DEF Linked
      <3>2. old # NoNode /\ (count > 1 => last # NoNode)
        BY <3>1, <1>2, <1>3 DEF Nodes, NoNode
      <3> HIDE DEF old, last, head
      <3> QED BY <3>1, <3>2, <1>2, <1>3
    <2>2. gone \in [Nodes -> Nodes \cup {NoNode, Freed}]
      BY DEF ListTypeOK
    <2>3. gone[m] = IF m = old THEN Freed ELSE prev[m]
      BY DEF ListTypeOK
    <2>4. prev' = [joined EXCEPT ![n] = NoNode]
      BY <1>1
    <2> HIDE DEF gone, to, head, last, old
    <2>5. joined \in [Nodes -> Nodes \cup {NoNode, Freed}]
      BY <2>2, <1>4 DEF SetUnlessNull
    <2>6. joined[m] = IF m = head THEN n ELSE gone[m]
      BY <2>1, <2>2 DEF SetUnlessNull, Nodes, NoNode
    <2> HIDE DEF joined
    <2> QED BY <2>1, <2>3, <2>4, <2>5, <2>6
  <1> HIDE DEF old, last, head, cut
  <1>5. ListTypeOK'
    <2>1. nodes' \in SUBSET Nodes /\ count' \in 0 .. WARM_PAGES
      BY <1>1, <1>2, <1>4 DEF ListTypeOK, ListConstants
    <2>2. next' \in [Nodes -> Nodes \cup {NoNode, Freed}]
      BY <1>1, <1>3 DEF ListTypeOK, SetUnlessNull, Linked, cut, head
    <2>3. prev' \in [Nodes -> Nodes \cup {NoNode, Freed}]
      BY <1>1, <1>4 DEF ListTypeOK, SetUnlessNull
    <2>4. pageNumber[old] \in Pages
      BY <1>3 DEF ArrayMatches
    <2>5. /\ pageNumber' \in [Nodes -> Pages \cup {Freed}]
          /\ marks' \in [Nodes -> BOOLEAN]
          /\ array' \in [Pages -> Nodes \cup {NoNode}]
      BY <1>1, <1>4, <2>4 DEF ListTypeOK, ListConstants
    <2>6. {front', rear'} \subseteq Nodes \cup {NoNode}
      BY <1>1, <1>2, <1>3, <1>4 DEF Linked
    <2> QED BY <2>1, <2>2, <2>3, <2>5, <2>6 DEF ListTypeOK, Nodes, Pages
  <1>6. ArrayMatches'
    <2>1. pageNumber[old] \in Pages /\ array[pageNumber[old]] = old
      BY <1>3 DEF ArrayMatches
    <2>2. ASSUME NEW q \in Pages, array'[q] # NoNode
          PROVE  array'[q] \in nodes' /\ pageNumber'[array'[q]] = q
      <3>1. CASE q = p
        BY <1>1, <1>3, <1>4, <3>1 DEF ListTypeOK
      <3>2. CASE q # p
        BY <1>1, <1>3, <1>4, <2>1, <2>2, <3>2 DEF ListTypeOK, ArrayMatches
      <3> QED BY <3>1, <3>2
    <2>3. ASSUME NEW m \in nodes'
          PROVE  pageNumber'[m] \in Pages /\ array'[pageNumber'[m]] = m
      <3>1. CASE m = n
        BY <1>1, <1>3, <1>4, <2>1, <3>1 DEF ListTypeOK
      <3>2. CASE m # n
        BY <1>1, <1>3, <1>4, <2>1, <3>2 DEF ListTypeOK, ArrayMatches, Nodes, NoNode
      <3> QED BY <3>1, <3>2
    <2> QED BY <2>2, <2>3 DEF ArrayMatches, Pages
  <1>7. PICK t : t = Pushed(s, front', count)
    OBVIOUS
  <1>8. Linked(t)'
    <2>1. \A k \in 1 .. count : t[k] = IF k = 1 THEN n ELSE s[k - 1]
      BY <1>1, <1>7 DEF Pushed
    <2>2. \A k \in 1 .. count : k = 1 \/ (k - 1 \in 1 .. count - 1)
      BY <1>2
    <2>3. /\ count' = count
          /\ t \in [1 .. count' -> Nodes]
          /\ \A i, j \in 1 .. count' : t[i] = t[j] => i = j
      BY <1>1, <1>2, <1>4, <1>7, <2>1, <2>2 DEF Linked, Pushed
    <2>4. nodes' = {t[k] : k \in 1 .. count'}
      <3>1. \A k \in 1 .. count - 1 : s[k] = t[k + 1] /\ k + 1 \in 1 .. count'
        BY <1>2, <2>1, <2>3
      <3>2. nodes \ {old} = {s[k] : k \in 1 .. count - 1}
        <4>1. nodes = {s[k] : k \in 1 .. count}
          BY DEF Linked
        <4>2. \A k \in 1 .. count : k = count \/ k \in 1 .. count - 1
          BY <1>2
        <4>3. \A k \in 1 .. count - 1 : k \in 1 .. count
          BY <1>2
        <4> QED BY <1>3, <1>4, <4>1, <4>2, <4>3
      <3>3. n = t[1] /\ 1 \in 1 .. count'
        BY <1>2, <2>1, <2>3
      <3>4. \A k \in 1 .. count' : t[k] = n \/ t[k] \in nodes \ {old}
        BY <2>1, <2>2, <2>3, <3>2
      <3>5. nodes' = (nodes \ {old}) \cup {n}
        BY <1>1
      <3> QED BY <3>1, <3>2, <3>3, <3>4, <3>5
    <2>5. /\ front' = IF count' = 0 THEN NoNode ELSE t[1]
          /\ rear' = IF count' = 0 THEN NoNode ELSE t[count']
      <3>1. rear' = IF count = 1 THEN n ELSE s[count - 1]
        BY <1>1, <1>2, <1>3 DEF Linked, Nodes, NoNode
      <3> QED BY <1>1, <1>2, <2>1, <2>3, <3>1
    <2>6. ASSUME NEW k \in 1 .. count'
          PROVE  next'[t[k]] = IF k = count' THEN NoNode ELSE t[k + 1]
      <3>1. CASE k = 1
        <4>1. t[k] = n /\ (count > 1 => t[k + 1] = s[1])
          BY <1>2, <2>1, <2>3, <3>1
        <4> QED BY <1>2, <1>3, <1>4, <1>9, <2>3, <3>1, <4>1
      <3>2. CASE k # 1
        <4>1. k - 1 \in 1 .. count - 1 /\ t[k] = s[k - 1] /\ s[k - 1] \in Nodes
          BY <1>2, <2>1, <2>3, <3>2 DEF Linked
        <4>2. next'[t[k]] = IF s[k - 1] = last THEN NoNode ELSE next[s[k - 1]]
          BY <4>1, <1>4, <1>9
        <4>3. s[k - 1] = last <=> k = count
          BY <4>1, <1>2, <1>3, <2>3 DEF Linked
        <4>4. next[s[k - 1]] = s[k]
          BY <4>1, <1>2 DEF Linked
        <4> QED BY <4>2, <4>3, <4>4, <2>1, <2>3, <1>2, <3>2
      <3> QED BY <3>1, <3>2
    <2>7. ASSUME NEW k \in 1 .. count'
          PROVE  prev'[t[k]] = IF k = 1 THEN NoNode ELSE t[k - 1]
      <3>1. CASE k = 1
        BY <1>1, <1>2, <1>4, <1>10, <2>1, <2>3, <3>1
      <3>2. CASE k # 1
        <4>1. k - 1 \in 1 .. count - 1 /\ t[k] = s[k - 1] /\ s[k - 1] \in Nodes
          BY <1>2, <2>1, <2>3, <3>2 DEF Linked
        <4>2. prev'[t[k]] = IF s[k - 1] = head THEN n ELSE prev[s[k - 1]]
          BY <4>1, <1>4, <1>10
        <4>3. s[k - 1] = head <=> k = 2
          BY <4>1, <1>2, <1>3, <2>3 DEF Linked
        <4>4. k # 2 => prev[s[k - 1]] = s[k - 2]
          BY <4>1, <1>2 DEF Linked
        <4> QED BY <4>1, <4>2, <4>3, <4>4, <2>1, <2>3, <1>2, <3>2
      <3> QED BY <3>1, <3>2
    <2> QED BY <1>2, <2>3, <2>4, <2>5, <2>6, <2>7 DEF Linked
  <1> QED BY <1>1, <1>2, <1>5, <1>6, <1>7, <1>8

LEMMA MoveToFrontKeeps ==
    ASSUME ListConstants, ListTypeOK, NEW s, Linked(s), NEW i \in 2 .. count,
           MoveToFront(s[i]), nodes' = nodes, count' = count
    PROVE  /\ {front', rear'} \subseteq Nodes \cup {NoNode}
           /\ next' \in [Nodes -> Nodes \cup {NoNode, Freed}]
           /\ prev' \in [Nodes -> Nodes \cup {NoNode, Freed}]
           /\ \E t : t = MovedUp(s, i, count) /\ Linked(t)'
  <1> DEFINE n == s[i]
             next1 == [next EXCEPT ![prev[n]] = next[n]]
             prev1 == SetUnlessNull(prev, next[n], prev[n])
             last == IF n = rear THEN prev1[n] ELSE rear
             next2 == IF n = rear THEN [next1 EXCEPT ![last] = NoNode] ELSE next1
             after == IF i = count THEN NoNode ELSE s[i + 1]
  <1>1. /\ rear' = last
        /\ next' = [next2 EXCEPT ![n] = front]
        /\ prev' = [[prev1 EXCEPT ![n] = NoNode] EXCEPT ![front] = n]
        /\ front' = n
    BY DEF MoveToFront
  <1>2. /\ count \in Nat /\ count > 1 /\ i \in 1 .. count /\ i - 1 \in 1 .. count
        /\ \A k \in 1 .. count : s[k] \in Nodes /\ s[k] # NoNode
        /\ \A j, k \in 1 .. count : s[j] = s[k] => j = k
        /\ i < count => i + 1 \in 1 .. count
    BY DEF Linked, Nodes, NoNode
  <1>3. /\ n \in Nodes /\ front = s[1] /\ rear = s[count]
        /\ prev[n] = s[i - 1] /\ next[n] = after
        /\ n # front /\ (n = rear <=> i = count)
    BY <1>2 DEF Linked
  <1>4. /\ prev1 \in [Nodes -> Nodes \cup {NoNode, Freed}]
        /\ \A m \in Nodes : prev1[m] = IF m = after THEN s[i - 1] ELSE prev[m]
    <2> HIDE DEF n
    <2> QED BY <1>2, <1>3 DEF ListTypeOK, SetUnlessNull, Nodes, NoNode
  <1>5. last = IF i = count THEN s[i - 1] ELSE s[count]
    <2>1. n # after
      BY <1>2
    <2>2. prev1[n] = s[i - 1]
      BY <2>1, <1>3, <1>4
    <2> HIDE DEF n, prev1
    <2> QED BY <2>2, <1>3
  <1> HIDE DEF prev1
  <1>6. ASSUME NEW m \in Nodes
        PROVE  next'[m] = IF m = n THEN front ELSE IF m = s[i - 1] THEN after ELSE next[m]
    <2>1. /\ next1 \in [Nodes -> Nodes \cup {NoNode, Freed}]
          /\ next1[m] = IF m = s[i - 1] THEN after ELSE next[m]
      <3>1. after \in Nodes \cup {NoNode}
        BY <1>2
      <3> HIDE DEF n, after
      <3> QED BY <3>1, <1>2, <1>3 DEF ListTypeOK
    <2> HIDE DEF next1
    <2>2. /\ next2 \in [Nodes -> Nodes \cup {NoNode, Freed}]
          /\ next2[m] = IF m = s[i - 1] THEN after ELSE next[m]
      BY <2>1, <1>2, <1>3, <1>5
    <2> HIDE DEF next2, n, after
    <2> QED BY <2>2, <1>1, <1>3
  <1>7. ASSUME NEW m \in Nodes
        PROVE  prev'[m] = IF m = front THEN n ELSE IF m = n THEN NoNode
                          ELSE IF m = after THEN s[i - 1] ELSE prev[m]
    <2> HIDE DEF n, after
    <2> QED BY <1>1, <1>2, <1>3, <1>4
  <1>8. /\ {front', rear'} \subseteq Nodes \cup {NoNode}
        /\ next' \in [Nodes -> Nodes \cup {NoNode, Freed}]
        /\ prev' \in [Nodes -> Nodes \cup {NoNode, Freed}]
    <2>1. {front', rear'} \subseteq Nodes \cup {NoNode}
      BY <1>1, <1>2, <1>3, <1>5
    <2>2. prev' \in [Nodes -> Nodes \cup {NoNode, Freed}]
      <3> HIDE DEF n
      <3> QED BY <1>1, <1>3, <1>4
    <2>3. next1 \in [Nodes -> Nodes \cup {NoNode, Freed}]
      <3>1. after \in Nodes \cup {NoNode}
        BY <1>2
      <3> HIDE DEF n, after
      <3> QED BY <3>1, <1>3 DEF ListTypeOK
    <2>4. next2 \in [Nodes -> Nodes \cup {NoNode, Freed}]
      <3> HIDE DEF next1, last, n
      <3> QED BY <2>3
    <2>5. next' \in [Nodes -> Nodes \cup {NoNode, Freed}]
      <3> HIDE DEF next2, n
      <3> QED BY <2>4, <1>1, <1>2, <1>3
    <2> QED BY <2>1, <2>2, <2>5
  <1> HIDE DEF last, next1, next2
  <1>9. PICK t : t = MovedUp(s, i, count)
    OBVIOUS
  <1>10. Linked(t)'
    <2>1. \A k \in 1 .. count : t[k] = IF k = 1 THEN s[i] ELSE IF k <= i THEN s[k - 1] ELSE s[k]
      BY <1>9 DEF MovedUp
    <2>2. t \in [1 .. count -> Nodes]
      BY <1>2, <1>9 DEF MovedUp
    <2>3. \A j, k \in 1 .. count : t[j] = t[k] => j = k
      <3> DEFINE from(k) == IF k = 1 THEN i ELSE IF k <= i THEN k - 1 ELSE k
      <3>1. \A k \in 1 .. count : from(k) \in 1 .. count /\ t[k] = s[from(k)]
        BY <1>2, <2>1
      <3>2. \A j, k \in 1 .. count : from(j) = from(k) => j = k
        BY <1>2
      <3> HIDE DEF from
      <3> QED BY <3>1, <3>2, <1>2
    <2>4. nodes' = {t[k] : k \in 1 .. count}
      <3>1. nodes = {s[k] : k \in 1 .. count}
        BY DEF Linked
      <3>2. \A k \in 1 .. count : t[k] \in nodes
        BY <1>2, <2>1, <3>1
      <3>3. \A k \in 1 .. count : \E j \in 1 .. count : s[k] = t[j]
        <4>1. ASSUME NEW k \in 1 .. count PROVE \E j \in 1 .. count : s[k] = t[j]
          <5>1. CASE k = i
            BY <1>2, <2>1, <5>1
          <5>2. CASE k < i
            <6>1. k + 1 \in 1 .. count /\ t[k + 1] = s[k]
              BY <1>2, <2>1, <5>2
            <6> QED BY <6>1
          <5>3. CASE k > i
            BY <1>2, <2>1, <5>3
          <5> QED BY <5>1, <5>2, <5>3
        <4> QED BY <4>1
      <3> QED BY <3>1, <3>2, <3>3
    <2>5. front' = t[1] /\ rear' = t[count]
      BY <1>1, <1>2, <1>5, <2>1
    <2>6. ASSUME NEW k \in 1 .. count
          PROVE  next'[t[k]] = IF k = count THEN NoNode ELSE t[k + 1]
      <3>1. CASE k = 1
        BY <1>2, <1>3, <1>6, <2>1, <3>1
      <3>2. CASE k # 1 /\ k <= i
        <4>1. k - 1 \in 1 .. count /\ t[k] = s[k - 1] /\ s[k - 1] # s[i]
          BY <1>2, <2>1, <3>2
        <4>2. next'[t[k]] = IF s[k - 1] = s[i - 1] THEN after ELSE next[s[k - 1]]
          BY <4>1, <1>2, <1>6
        <4>3. s[k - 1] = s[i - 1] <=> k = i
          BY <4>1, <1>2
        <4>4. k # i => next[s[k - 1]] = s[k]
          BY <4>1, <3>2, <1>2 DEF Linked
        <4> QED BY <4>2, <4>3, <4>4, <3>2, <1>2, <2>1
      <3>3. CASE k > i
        <4>1. t[k] = s[k] /\ s[k] # s[i] /\ s[k] # s[i - 1]
          BY <1>2, <2>1, <3>3
        <4>2. next'[t[k]] = next[s[k]]
          BY <4>1, <1>2, <1>6
        <4> QED BY <4>2, <3>3, <1>2, <2>1 DEF Linked
      <3> QED BY <1>2, <3>1, <3>2, <3>3
    <2>7. ASSUME NEW k \in 1 .. count
          PROVE  prev'[t[k]] = IF k = 1 THEN NoNode ELSE t[k - 1]
      <3>1. CASE k = 1
        BY <1>2, <1>3, <1>7, <2>1, <3>1
      <3>2. CASE k # 1 /\ k <= i
        <4>1. k - 1 \in 1 .. count /\ t[k] = s[k - 1] /\ s[k - 1] # s[i]
          BY <1>2, <2>1, <3>2
        <4>2. s[k - 1] # after /\ (s[k - 1] = s[1] <=> k = 2)
          BY <4>1, <3>2, <1>2
        <4>3. prev'[t[k]] = IF k = 2 THEN s[i] ELSE prev[s[k - 1]]
          BY <4>1, <4>2, <1>2, <1>3, <1>7
        <4>4. k # 2 => prev[s[k - 1]] = s[k - 2]
          BY <4>1, <1>2 DEF Linked
        <4> QED BY <4>3, <4>4, <3>2, <1>2, <2>1
      <3>3. CASE k > i
        <4>1. t[k] = s[k] /\ s[k] # s[i] /\ s[k] # s[1]
          BY <1>2, <2>1, <3>3
        <4>2. s[k] = after <=> k = i + 1
          BY <3>3, <1>2
        <4>3. prev'[t[k]] = IF k = i + 1 THEN s[i - 1] ELSE prev[s[k]]
          BY <4>1, <4>2, <1>2, <1>3, <1>7
        <4>4. prev[s[k]] = s[k - 1]
          BY <3>3, <1>2 DEF Linked
        <4>5. t[k - 1] = IF k = i + 1 THEN s[i - 1] ELSE s[k - 1]
          BY <3>3, <1>2, <2>1
        <4> QED BY <4>3, <4>4, <4>5, <3>3, <1>2
      <3> QED BY <1>2, <3>1, <3>2, <3>3
    <2>8. count' \in 0 .. WARM_PAGES /\ count' # 0
      BY <1>2 DEF Linked
    <2> QED BY <2>2, <2>3, <2>4, <2>5, <2>6, <2>7, <2>8 DEF Linked
  <1> QED BY <1>8, <1>9, <1>10

LEMMA MoveToRearKeeps ==
    ASSUME ListConstants, ListTypeOK, NEW s, Linked(s), NEW i \in 1 .. count - 1,
           MoveToRear(s[i]), nodes' = nodes, count' = count
    PROVE  /\ {front', rear'} \subseteq Nodes \cup {NoNode}
           /\ next' \in [Nodes -> Nodes \cup {NoNode, Freed}]
           /\ prev' \in [Nodes -> Nodes \cup {NoNode, Freed}]
           /\ \E t : t = MovedDown(s, i, count) /\ Linked(t)'
  <1> DEFINE n == s[i]
             next1 == SetUnlessNull(next, prev[n], next[n])
             prev1 == [prev EXCEPT ![next[n]] = prev[n]]
             head == IF n = front THEN next1[n] ELSE front
             prev2 == IF n = front THEN [prev1 EXCEPT ![head] = NoNode] ELSE prev1
             before == IF i = 1 THEN NoNode ELSE s[i - 1]
  <1>1. /\ front' = head
        /\ prev' = [prev2 EXCEPT ![n] = rear]
        /\ next' = [[next1 EXCEPT ![n] = NoNode] EXCEPT ![rear] = n]
        /\ rear' = n
    BY DEF MoveToRear
  <1>2. /\ count \in Nat /\ count > 1 /\ i \in 1 .. count /\ i + 1 \in 1 .. count
        /\ \A k \in 1 .. count : s[k] \in Nodes /\ s[k] # NoNode
        /\ \A j, k \in 1 .. count : s[j] = s[k] => j = k
        /\ i > 1 => i - 1 \in 1 .. count
    BY SMTT(30) DEF Linked, Nodes, NoNode
  <1>3. /\ n \in Nodes /\ front = s[1] /\ rear = s[count]
        /\ next[n] = s[i + 1] /\ prev[n] = before
        /\ n # rear /\ (n = front <=> i = 1)
    BY <1>2 DEF Linked
  <1>4. /\ next1 \in [Nodes -> Nodes \cup {NoNode, Freed}]
        /\ \A m \in Nodes : next1[m] = IF m = before THEN s[i + 1] ELSE next[m]
    <2> HIDE DEF n
    <2> QED BY <1>2, <1>3 DEF ListTypeOK, SetUnlessNull, Nodes, NoNode
  <1>5. head = IF i = 1 THEN s[i + 1] ELSE s[1]
    <2>1. n # before
      BY <1>2
    <2>2. next1[n] = s[i + 1]
      BY <2>1, <1>3, <1>4
    <2> HIDE DEF n, next1
    <2> QED BY <2>2, <1>3
  <1> HIDE DEF next1
  <1>6. /\ prev2 \in [Nodes -> Nodes \cup {NoNode, Freed}]
        /\ \A m \in Nodes : prev2[m] = IF m = s[i + 1] THEN before ELSE prev[m]
    <2>1. before \in Nodes \cup {NoNode}
      BY <1>2
    <2>2. /\ prev1 \in [Nodes -> Nodes \cup {NoNode, Freed}]
          /\ \A m \in Nodes : prev1[m] = IF m = s[i + 1] THEN before ELSE prev[m]
      <3> HIDE DEF n, before
      <3> QED BY <2>1, <1>2, <1>3 DEF ListTypeOK
    <2> HIDE DEF prev1
    <2> QED BY <2>2, <1>2, <1>3, <1>5
  <1> HIDE DEF prev2
  <1>7. ASSUME NEW m \in Nodes
        PROVE  /\ prev'[m] = IF m = n THEN rear ELSE IF m = s[i + 1] THEN before ELSE prev[m]
               /\ next'[m] = IF m = rear THEN n ELSE IF m = n THEN NoNode
                             ELSE IF m = before THEN s[i + 1] ELSE next[m]
    <2> HIDE DEF n, before
    <2> QED BY <1>1, <1>2, <1>3, <1>4, <1>6
  <1>8. /\ {front', rear'} \subseteq Nodes \cup {NoNode}
        /\ next' \in [Nodes -> Nodes \cup {NoNode, Freed}]
        /\ prev' \in [Nodes -> Nodes \cup {NoNode, Freed}]
    <2>1. {front', rear'} \subseteq Nodes \cup {NoNode}
      BY <1>1, <1>2, <1>3, <1>5
    <2> HIDE DEF n, head
    <2> QED BY <2>1, <1>1, <1>2, <1>3, <1>4, <1>6
  <1> HIDE DEF head
  <1>9. PICK t : t = MovedDown(s, i, count)
    OBVIOUS
  <1>10. Linked(t)'
    <2>1. \A k \in 1 .. count :
             t[k] = IF k < i THEN s[k] ELSE IF k < count THEN s[k + 1] ELSE s[i]
      BY <1>9 DEF MovedDown
    <2>2. t \in [1 .. count -> Nodes]
      BY <1>2, <1>9 DEF MovedDown
    <2>3. \A j, k \in 1 .. count : t[j] = t[k] => j = k
      <3> DEFINE from(k) == IF k < i THEN k ELSE IF k < count THEN k + 1 ELSE i
      <3>1. \A k \in 1 .. count : from(k) \in 1 .. count /\ t[k] = s[from(k)]
        BY <1>2, <2>1
      <3>2. \A j, k \in 1 .. count : from(j) = from(k) => j = k
        BY <1>2
      <3> HIDE DEF from
      <3> QED BY <3>1, <3>2, <1>2
    <2>4. nodes' = {t[k] : k \in 1 .. count}
      <3>1. nodes = {s[k] : k \in 1 .. count}
        BY DEF Linked
      <3>2. \A k \in 1 .. count : t[k] \in nodes
        BY <1>2, <2>1, <3>1
      <3>3. \A k \in 1 .. count : \E j \in 1 .. count : s[k] = t[j]
        <4>1. ASSUME NEW k \in 1 .. count PROVE \E j \in 1 .. count : s[k] = t[j]
          <5>1. CASE k = i
            <6>1. count \in 1 .. count /\ t[count] = s[k]
              BY <1>2, <2>1, <5>1
            <6> QED BY <6>1
          <5>2. CASE k > i
            <6>1. k - 1 \in 1 .. count /\ t[k - 1] = s[k]
              BY <1>2, <2>1, <5>2
            <6> QED BY <6>1
          <5>3. CASE k < i
            BY <1>2, <2>1, <5>3
          <5> QED BY <5>1, <5>2, <5>3
        <4> QED BY <4>1
      <3> QED BY <3>1, <3>2, <3>3
    <2>5. front' = t[1] /\ rear' = t[count]
      BY <1>1, <1>2, <1>5, <2>1
    <2>6. ASSUME NEW k \in 1 .. count
          PROVE  next'[t[k]] = IF k = count THEN NoNode ELSE t[k + 1]
      <3>1. CASE k = count
        BY <1>2, <1>3, <1>7, <2>1, <3>1
      <3>2. CASE k # count /\ k >= i
        <4>1. k + 1 \in 1 .. count /\ t[k] = s[k + 1] /\ s[k + 1] # s[i]
          BY <1>2, <2>1, <3>2
        <4>2. s[k + 1] # before /\ (s[k + 1] = s[count] <=> k + 1 = count)
          BY <4>1, <3>2, <1>2
        <4>3. next'[t[k]] = IF k + 1 = count THEN s[i] ELSE next[s[k + 1]]
          BY <4>1, <4>2, <1>2, <1>3, <1>7
        <4>4. k + 1 # count => next[s[k + 1]] = s[k + 2]
          BY <4>1, <1>2 DEF Linked
        <4> QED BY <4>1, <4>3, <4>4, <3>2, <1>2, <2>1
      <3>3. CASE k < i
        <4>1. t[k] = s[k] /\ s[k] # s[i] /\ s[k] # s[count]
          BY <1>2, <2>1, <3>3
        <4>2. s[k] = before <=> k = i - 1
          BY <3>3, <1>2
        <4>3. next'[t[k]] = IF k = i - 1 THEN s[i + 1] ELSE next[s[k]]
          BY <4>1, <4>2, <1>2, <1>3, <1>7
        <4>4. next[s[k]] = s[k + 1]
          BY <3>3, <1>2 DEF Linked
        <4>5. t[k + 1] = IF k = i - 1 THEN s[i + 1] ELSE s[k + 1]
          BY <3>3, <1>2, <2>1
        <4> QED BY <4>3, <4>4, <4>5, <3>3, <1>2
      <3> QED BY <1>2, <3>1, <3>2, <3>3
    <2>7. ASSUME NEW k \in 1 .. count
          PROVE  prev'[t[k]] = IF k = 1 THEN NoNode ELSE t[k - 1]
      <3>1. CASE k = count
        BY <1>2, <1>3, <1>7, <2>1, <3>1
      <3>2. CASE k # count /\ k >= i
        <4>1. k + 1 \in 1 .. count /\ t[k] = s[k + 1] /\ s[k + 1] # s[i]
          BY <1>2, <2>1, <3>2
        <4>2. s[k + 1] = s[i + 1] <=> k = i
          BY <4>1, <1>2
        <4>3. prev'[t[k]] = IF k = i THEN before ELSE prev[s[k + 1]]
          BY <4>1, <4>2, <1>2, <1>7
        <4>4. prev[s[k + 1]] = s[k]
          BY <4>1, <1>2 DEF Linked
        <4>5. k # 1 => t[k - 1] = IF k = i THEN s[i - 1] ELSE s[k]
          BY <3>2, <1>2, <2>1
        <4> QED BY <4>3, <4>4, <4>5, <3>2, <1>2
      <3>3. CASE k < i
        <4>1. t[k] = s[k] /\ s[k] # s[i] /\ s[k] # s[i + 1]
          BY <1>2, <2>1, <3>3
        <4>2. prev'[t[k]] = prev[s[k]]
          BY <4>1, <1>2, <1>7
        <4>3. k # 1 => t[k - 1] = s[k - 1]
          BY <3>3, <1>2, <2>1
        <4> QED BY <4>2, <4>3, <3>3, <1>2 DEF Linked
      <3> QED BY <1>2, <3>1, <3>2, <3>3
    <2>8. count' \in 0 .. WARM_PAGES /\ count' # 0
      BY <1>2 DEF Linked
    <2> QED BY <2>2, <2>3, <2>4, <2>5, <2>6, <2>7, <2>8 DEF Linked
  <1> QED BY <1>8, <1>9, <1>10

--------------------------------------------------------------------------------
(* The list and the abstract queue. *)

LEMMA OrderIs ==
    ASSUME NEW s, ListConstants, Linked(s)
    PROVE  Order = [k \in 1 .. count |-> pageNumber[s[k]]]
  <1>1. \A k \in 1 .. count : FromFront[k] = s[k] /\ s[k] \in Nodes
    BY WalkForth DEF Linked
  <1> QED BY <1>1 DEF Order

LEMMA OrderNext ==
    ASSUME NEW t, ListConstants, Linked(t)'
    PROVE  Order' = [k \in 1 .. count' |-> pageNumber'[t[k]]]
  <1>1. \A k \in 1 .. count' : FromFront'[k] = t[k] /\ t[k] \in Nodes
    BY WalkForthNext DEF Linked
  <1> QED BY <1>1 DEF Order, Nodes

\* The queue that the list stands for: its length and its last page, and where
\* the page of a node is in it.
LEMMA QueueIs ==
    ASSUME ListConstants, ListTypeOK, ArrayMatches, NEW s, Linked(s)
    PROVE  /\ Len(Order) = count
           /\ DOMAIN Order = 1 .. count
           /\ \A k \in 1 .. count : /\ s[k] \in Nodes /\ s[k] # NoNode
                                    /\ Order[k] = pageNumber[s[k]]
                                    /\ pageNumber[s[k]] \in Pages
                                    /\ array[pageNumber[s[k]]] = s[k]
           /\ \A j, k \in 1 .. count : Order[j] = Order[k] => j = k
           /\ \A i \in 1 .. count : Queue!Position(pageNumber[s[i]]) = i
           /\ \A p \in Pages : array[p] # NoNode => \E i \in 1 .. count : array[p] = s[i]
  <1>0. count \in Nat
    BY DEF Linked
  <1>1. Order = [k \in 1 .. count |-> pageNumber[s[k]]]
    BY OrderIs
  <1>2. Len(Order) = count /\ DOMAIN Order = 1 .. count
    BY <1>0, <1>1
  <1>3. \A k \in 1 .. count : /\ s[k] \in Nodes /\ s[k] # NoNode /\ s[k] \in nodes
                              /\ Order[k] = pageNumber[s[k]]
                              /\ pageNumber[s[k]] \in Pages
                              /\ array[pageNumber[s[k]]] = s[k]
    BY <1>1 DEF Linked, ArrayMatches, Nodes, NoNode
  <1>4. \A j, k \in 1 .. count : Order[j] = Order[k] => j = k
    BY <1>3 DEF Linked
  <1>5. ASSUME NEW i \in 1 .. count
        PROVE  Queue!Position(pageNumber[s[i]]) = i
    <2>1. \A k \in 1 .. Len(Order) : Order[k] = pageNumber[s[i]] <=> k = i
      BY <1>2, <1>3, <1>4
    <2> QED BY <1>2, <2>1 DEF Queue!Position
  <1>6. ASSUME NEW p \in Pages, array[p] # NoNode
        PROVE  \E i \in 1 .. count : array[p] = s[i]
    BY <1>6 DEF ArrayMatches, Linked
  <1> QED BY <1>2, <1>3, <1>4, <1>5, <1>6

\* The pages of a list whose nodes are put into another order.
LEMMA Reordered ==
    ASSUME ListConstants, ListTypeOK, ArrayMatches,
           {front', rear'} \subseteq Nodes \cup {NoNode},
           next' \in [Nodes -> Nodes \cup {NoNode, Freed}],
           prev' \in [Nodes -> Nodes \cup {NoNode, Freed}],
           marks' \in [Nodes -> BOOLEAN],
           UNCHANGED <<nodes, pageNumber, count, array>>
    PROVE  ListTypeOK' /\ ArrayMatches'
  <1>1. ListTypeOK'
    BY DEF ListTypeOK, Nodes, Pages
  <1>2. ArrayMatches'
    BY DEF ArrayMatches, Pages
  <1> QED BY <1>1, <1>2

\* ReferencePage of a page in the list.
LEMMA HitStep ==
    ASSUME ListConstants, ListInv, NEW p \in Pages, array[p] # NoNode, ReferencePage(p)
    PROVE  ListInv' /\ Queue!Hit(p)
  <1>1. ListTypeOK /\ ArrayMatches
    BY DEF ListInv
  <1>2. PICK s : Linked(s)
    BY DEF ListInv
  <1>3. PICK i \in 1 .. count : array[p] = s[i]
    BY <1>1, <1>2, QueueIs
  <1>4. /\ pageNumber[s[i]] = p /\ s[i] \in Nodes
        /\ count \in Nat
        /\ s[i] = front <=> i = 1
    BY <1>1, <1>2, <1>3 DEF ArrayMatches, Linked
  <1>5. /\ IF s[i] = front THEN UNCHANGED <<prev, next, front, rear>> ELSE MoveToFront(s[i])
        /\ marks' = [marks EXCEPT ![s[i]] = MAPPING \/ @]
        /\ UNCHANGED <<nodes, pageNumber, count, array>>
    BY <1>3 DEF ReferencePage
  <1>6. /\ {front', rear'} \subseteq Nodes \cup {NoNode}
        /\ next' \in [Nodes -> Nodes \cup {NoNode, Freed}]
        /\ prev' \in [Nodes -> Nodes \cup {NoNode, Freed}]
        /\ \E t : t = MovedUp(s, i, count) /\ Linked(t)'
    <2>1. CASE i = 1
      <3>1. MovedUp(s, i, count) = s
        <4>1. MovedUp(s, i, count) = [k \in 1 .. count |-> s[k]]
          BY <2>1, <1>4 DEF MovedUp
        <4> QED BY <4>1, <1>2 DEF Linked
      <3>2. Linked(s)'
        BY <1>2, <1>4, <1>5, <2>1 DEF Linked, Nodes
      <3> QED BY <3>1, <3>2, <1>1, <1>4, <1>5, <2>1 DEF ListTypeOK
    <2>2. CASE i # 1
      <3>1. i \in 2 .. count
        BY <2>2
      <3> QED BY <3>1, <1>1, <1>2, <1>4, <1>5, <2>2, MoveToFrontKeeps
    <2> QED BY <2>1, <2>2
  <1>7. PICK t : t = MovedUp(s, i, count) /\ Linked(t)'
    BY <1>6
  <1>8. marks' \in [Nodes -> BOOLEAN]
    BY <1>1, <1>5 DEF ListTypeOK, ListConstants
  <1>9. ListTypeOK' /\ ArrayMatches'
    BY <1>1, <1>5, <1>6, <1>8, Reordered
  <1>10. Order' = Queue!ToFront(Order, Queue!Position(p))
    <2>1. Order' = [k \in 1 .. count |-> pageNumber[t[k]]]
      BY <1>5, <1>7, OrderNext
    <2>2. \A k \in 1 .. count :
             pageNumber[t[k]] = IF k = 1 THEN Order[i] ELSE IF k <= i THEN Order[k - 1] ELSE Order[k]
      BY <1>1, <1>2, <1>4, <1>7, QueueIs DEF MovedUp
    <2>3. Len(Order) = count /\ Queue!Position(p) = i
      BY <1>1, <1>2, <1>4, QueueIs
    <2> QED BY <2>1, <2>2, <2>3 DEF Queue!ToFront
  <1>11. \A q \in Pages : array[q] # NoNode /\ q # p => array[q] # s[i]
    BY <1>1, <1>4 DEF ArrayMatches
  <1>12. [q \in Pages |-> array[q] # NoNode /\ marks[array[q]]]'
         = [[q \in Pages |-> array[q] # NoNode /\ marks[array[q]]] EXCEPT ![p] = MAPPING \/ @]
    <2>1. ASSUME NEW q \in Pages
          PROVE  (array'[q] # NoNode /\ marks'[array'[q]])
                 = IF q = p THEN MAPPING \/ (array[q] # NoNode /\ marks[array[q]])
                   ELSE array[q] # NoNode /\ marks[array[q]]
      <3>1. CASE array[q] = NoNode
        BY <3>1, <1>5, <1>3
      <3>2. CASE array[q] # NoNode
        <4>1. array[q] \in Nodes
          BY <3>2, <1>1 DEF ListTypeOK
        <4>2. marks'[array[q]] = IF array[q] = s[i] THEN MAPPING \/ marks[s[i]] ELSE marks[array[q]]
          BY <4>1, <1>1, <1>5 DEF ListTypeOK
        <4> QED BY <3>2, <4>2, <1>3, <1>5, <1>11
      <3> QED BY <3>1, <3>2
    <2> QED BY <2>1 DEF Pages
  <1>13. Queue!Hit(p)
    BY <1>3, <1>5, <1>10, <1>12 DEF Queue!Hit, Queue!Pages, Pages
  <1> QED BY <1>7, <1>9, <1>13 DEF ListInv

\* p gets the node n, the pages `gone' lose theirs, which are among `old'.
Exchanged(p, n, gone, old) ==
    /\ p \in Pages /\ n \in Nodes /\ array[p] = NoNode
    /\ \A q \in gone : array[q] \in old
    /\ \A q \in Pages : array[q] # NoNode /\ q \notin gone => array[q] \notin old \cup {n}
    /\ \A m \in Nodes : marks'[m] = IF m = n THEN MAPPING ELSE IF m \in old THEN FALSE ELSE marks[m]
    /\ \A q \in Pages : array'[q] = IF q = p THEN n ELSE IF q \in gone THEN NoNode ELSE array[q]

\* What is left of the marks once old pages and nodes are exchanged for new ones.
Marks == [q \in Pages |-> array[q] # NoNode /\ marks[array[q]]]

LEMMA MarksAfterEnqueue ==
    ASSUME ListConstants, ListTypeOK, NEW p, NEW n, NEW gone, NEW old,
           Exchanged(p, n, gone, old)
    PROVE  \A q \in Pages : Marks'[q] = IF q = p THEN MAPPING ELSE IF q \in gone THEN FALSE
                                        ELSE array[q] # NoNode /\ marks[array[q]]
  <1> USE DEF Exchanged
  <1>1. ASSUME NEW q \in Pages
        PROVE  (array'[q] # NoNode /\ marks'[array'[q]])
               = IF q = p THEN MAPPING ELSE IF q \in gone THEN FALSE
                 ELSE array[q] # NoNode /\ marks[array[q]]
    <2>1. n # NoNode
      BY DEF Nodes, NoNode
    <2>2. CASE q = p
      BY <2>1, <2>2 DEF ListConstants
    <2>3. CASE q # p /\ q \in gone
      BY <2>3
    <2>4. CASE q # p /\ q \notin gone /\ array[q] = NoNode
      BY <2>4
    <2>5. CASE q # p /\ q \notin gone /\ array[q] # NoNode
      <3>1. array[q] \in Nodes
        BY <2>5 DEF ListTypeOK
      <3>2. array'[q] = array[q] /\ marks'[array[q]] = marks[array[q]]
        BY <2>5, <3>1
      <3> QED BY <2>5, <3>2
    <2> QED BY <2>2, <2>3, <2>4, <2>5
  <1> QED BY <1>1 DEF Marks

\* ReferencePage of another page, while a frame is free.
LEMMA FillStep ==
    ASSUME ListConstants, ListInv, NEW p \in Pages, array[p] = NoNode,
           ~ListFull, EnqueueFree(p)
    PROVE  ListInv' /\ Queue!Fill(p)
  <1>1. ListTypeOK /\ ArrayMatches
    BY DEF ListInv
  <1>2. PICK s : Linked(s)
    BY DEF ListInv
  <1>3. /\ count' = count + 1 /\ ListTypeOK' /\ ArrayMatches'
        /\ \E t : t = Pushed(s, front', count + 1) /\ Linked(t)'
    BY <1>1, <1>2, EnqueueFreeKeeps
  <1>4. PICK t : t = Pushed(s, front', count + 1) /\ Linked(t)'
    BY <1>3
  <1>5. PICK n \in Nodes \ nodes :
           /\ pageNumber' = [pageNumber EXCEPT ![n] = p]
           /\ marks' = [marks EXCEPT ![n] = MAPPING]
           /\ front' = n
           /\ array' = [array EXCEPT ![p] = n]
    BY DEF EnqueueFree
  <1>6. n \in Nodes /\ n # NoNode /\ \A q \in Pages : array[q] # n
    BY <1>1, <1>5 DEF ArrayMatches, Nodes, NoNode
  <1>7. /\ Len(Order) = count /\ count \in Nat
        /\ \A k \in 1 .. count : /\ s[k] \in Nodes /\ s[k] # n
                                 /\ Order[k] = pageNumber[s[k]]
    BY <1>1, <1>2, <1>5, QueueIs DEF Linked
  <1>8. Order' = Queue!PushFront(Order, p)
    <2>1. Order' = [k \in 1 .. count + 1 |-> pageNumber'[t[k]]]
      BY <1>3, <1>4, OrderNext
    <2>2. ASSUME NEW k \in 1 .. count + 1
          PROVE  pageNumber'[t[k]] = IF k = 1 THEN p ELSE Order[k - 1]
      <3>1. t[k] = IF k = 1 THEN n ELSE s[k - 1]
        BY <1>4, <1>5 DEF Pushed
      <3>2. CASE k = 1
        BY <3>1, <3>2, <1>1, <1>5, <1>6 DEF ListTypeOK
      <3>3. CASE k # 1
        <4>1. k - 1 \in 1 .. count
          BY <3>3, <1>7
        <4> QED BY <3>1, <3>3, <4>1, <1>1, <1>5, <1>6, <1>7 DEF ListTypeOK
      <3> QED BY <3>2, <3>3
    <2> QED BY <2>1, <2>2, <1>7 DEF Queue!PushFront
  <1>9. [q \in Pages |-> array[q] # NoNode /\ marks[array[q]]]'
        = [q \in Pages |-> IF q = p THEN MAPPING ELSE IF q \in {} THEN FALSE
                           ELSE array[q] # NoNode /\ marks[array[q]]]
    <2>1. \A m \in Nodes : marks'[m] = IF m = n THEN MAPPING ELSE IF m \in {} THEN FALSE ELSE marks[m]
      BY <1>1, <1>5 DEF ListTypeOK
    <2>2. \A q \in Pages : array'[q] = IF q = p THEN n ELSE IF q \in {} THEN NoNode ELSE array[q]
      BY <1>1, <1>5 DEF ListTypeOK
    <2>3. \A q \in {} : array[q] \in {}
      OBVIOUS
    <2>4. \A q \in Pages : array[q] # NoNode /\ q \notin {} => array[q] \notin {} \cup {n}
      BY <1>6
    <2>5. Exchanged(p, n, {}, {})
      BY <2>1, <2>2, <2>3, <2>4, <1>6 DEF Exchanged
    <2>6. \A q \in Pages : Marks'[q] = IF q = p THEN MAPPING ELSE IF q \in {} THEN FALSE
                                       ELSE array[q] # NoNode /\ marks[array[q]]
      BY <2>5, <1>1, MarksAfterEnqueue
    <2> QED BY <2>6 DEF Marks
  <1>10. {q \in Pages : array[q] # NoNode}' = {q \in Pages : array[q] # NoNode} \cup {p}
    BY <1>1, <1>5, <1>6 DEF ListTypeOK, Pages
  <1>11. Queue!Fill(p)
    <2>1. p \notin {q \in Pages : array[q] # NoNode}
      OBVIOUS
    <2>2. ~Queue!AreAllFramesFull
      BY <1>7 DEF Queue!AreAllFramesFull, ListFull
    <2>3. [q \in Pages |-> array[q] # NoNode /\ marks[array[q]]]'
          = [[q \in Pages |-> array[q] # NoNode /\ marks[array[q]]] EXCEPT ![p] = MAPPING]
      BY <1>9
    <2> QED BY <2>1, <2>2, <2>3, <1>8, <1>10 DEF Queue!Fill
  <1> QED BY <1>3, <1>4, <1>11 DEF ListInv

\* ReferencePage of another page, in place of the one at the rear.
LEMMA ReplaceStep ==
    ASSUME ListConstants, ListInv, NEW p \in Pages, array[p] = NoNode,
           ListFull, ~(MAPPING /\ marks[rear]), DeQueueAndEnqueue(p)
    PROVE  ListInv' /\ Queue!Replace(p)
  <1>1. ListTypeOK /\ ArrayMatches
    BY DEF ListInv
  <1>2. PICK s : Linked(s)
    BY DEF ListInv
  <1>3. /\ count' = count /\ ListTypeOK' /\ ArrayMatches'
        /\ \E t : t = Pushed(s, front', count) /\ Linked(t)'
    BY <1>1, <1>2, DeQueueAndEnqueueKeeps
  <1>4. PICK t : t = Pushed(s, front', count) /\ Linked(t)'
    BY <1>3
  <1>5. PICK n \in (Nodes \ nodes) \cup {rear} :
           /\ pageNumber' = [pageNumber EXCEPT ![rear] = Freed, ![n] = p]
           /\ marks' = [marks EXCEPT ![rear] = FALSE, ![n] = MAPPING]
           /\ front' = n
           /\ array' = [array EXCEPT ![pageNumber[rear]] = NoNode, ![p] = n]
    BY DEF DeQueueAndEnqueue
  <1> DEFINE out == pageNumber[rear]
  <1>6. /\ count \in Nat /\ count > 0 /\ rear = s[count] /\ count \in 1 .. count
        /\ rear \in nodes /\ rear \in Nodes /\ rear # NoNode /\ n \in Nodes
    BY <1>2, <1>5 DEF Linked, ListFull, ListConstants, Nodes, NoNode
  <1>7. out \in Pages /\ array[out] = rear /\ out # p
    BY <1>1, <1>6 DEF ArrayMatches
  <1>8. \A q \in Pages : array[q] # NoNode /\ q # out => array[q] # rear /\ array[q] # n
    BY <1>1, <1>5, <1>7 DEF ArrayMatches
  <1>9. /\ Len(Order) = count
        /\ \A k \in 1 .. count : s[k] \in Nodes /\ Order[k] = pageNumber[s[k]]
        /\ \A k \in 1 .. count - 1 : s[k] # rear /\ s[k] # n
    <2>1. \A k \in 1 .. count - 1 : s[k] \in nodes /\ s[k] # rear
      BY <1>2, <1>6 DEF Linked
    <2> QED BY <2>1, <1>1, <1>2, <1>5, QueueIs
  <1> HIDE DEF out
  <1>10. Order' = Queue!Rotate(Order, p)
    <2>1. Order' = [k \in 1 .. count |-> pageNumber'[t[k]]]
      BY <1>3, <1>4, OrderNext
    <2>2. ASSUME NEW k \in 1 .. count
          PROVE  pageNumber'[t[k]] = IF k = 1 THEN p ELSE Order[k - 1]
      <3>1. t[k] = IF k = 1 THEN n ELSE s[k - 1]
        BY <1>4, <1>5 DEF Pushed
      <3>2. CASE k = 1
        BY <3>1, <3>2, <1>1, <1>5, <1>6 DEF ListTypeOK
      <3>3. CASE k # 1
        <4>1. k - 1 \in 1 .. count - 1 /\ k - 1 \in 1 .. count
          BY <3>3, <1>6
        <4>2. pageNumber'[s[k - 1]] = pageNumber[s[k - 1]]
          BY <4>1, <1>1, <1>5, <1>6, <1>9 DEF ListTypeOK
        <4> QED BY <3>1, <3>3, <4>1, <4>2, <1>9
      <3> QED BY <3>2, <3>3
    <2> QED BY <2>1, <2>2, <1>9 DEF Queue!Rotate
  <1>11. Queue!Rear = out
    BY <1>6, <1>9 DEF Queue!Rear, out
  <1>12. \A q \in Pages : array'[q] = IF q = p THEN n ELSE IF q = out THEN NoNode ELSE array[q]
    BY <1>1, <1>5, <1>7 DEF ListTypeOK, out
  <1>13. [q \in Pages |-> array[q] # NoNode /\ marks[array[q]]]'
         = [q \in Pages |-> IF q = p THEN MAPPING ELSE IF q \in {out} THEN FALSE
                            ELSE array[q] # NoNode /\ marks[array[q]]]
    <2>1. \A m \in Nodes : marks'[m] = IF m = n THEN MAPPING ELSE IF m \in {rear} THEN FALSE ELSE marks[m]
      BY <1>1, <1>5 DEF ListTypeOK
    <2>2. \A q \in {out} : array[q] \in {rear}
      BY <1>7
    <2>3. \A q \in Pages : array[q] # NoNode /\ q \notin {out} => array[q] \notin {rear} \cup {n}
      BY <1>8
    <2>4. \A q \in Pages : array'[q] = IF q = p THEN n ELSE IF q \in {out} THEN NoNode ELSE array[q]
      BY <1>12
    <2>5. Exchanged(p, n, {out}, {rear})
      BY <2>1, <2>2, <2>3, <2>4, <1>6 DEF Exchanged
    <2>6. \A q \in Pages : Marks'[q] = IF q = p THEN MAPPING ELSE IF q \in {out} THEN FALSE
                                       ELSE array[q] # NoNode /\ marks[array[q]]
      BY <2>5, <1>1, MarksAfterEnqueue
    <2> QED BY <2>6 DEF Marks
  <1>14. {q \in Pages : array[q] # NoNode}' = ({q \in Pages : array[q] # NoNode} \ {out}) \cup {p}
    BY <1>6, <1>7, <1>12 DEF Pages, Nodes, NoNode
  <1>15. Queue!Replace(p)
    <2>1. p \notin {q \in Pages : array[q] # NoNode}
      OBVIOUS
    <2>2. Queue!AreAllFramesFull
      BY <1>9 DEF Queue!AreAllFramesFull, ListFull
    <2>3. [q \in Pages |-> array[q] # NoNode /\ marks[array[q]]]'
          = [[q \in Pages |-> array[q] # NoNode /\ marks[array[q]]]
               EXCEPT ![out] = FALSE, ![p] = MAPPING]
      BY <1>13
    <2>4. MAPPING => ~[q \in Pages |-> array[q] # NoNode /\ marks[array[q]]][out]
      BY <1>7
    <2> QED BY <2>1, <2>2, <2>3, <2>4, <1>10, <1>11, <1>14 DEF Queue!Replace
  <1> QED BY <1>3, <1>4, <1>15 DEF ListInv

\* DeReferenceNode of a page in the list.
LEMMA DeReferenceStep ==
    ASSUME ListConstants, ListInv, NEW p \in Pages, DeReferenceNode(p)
    PROVE  ListInv' /\ Queue!DeReferencePage(p)
  <1>1. ListTypeOK /\ ArrayMatches /\ array[p] # NoNode
    BY DEF ListInv, DeReferenceNode
  <1>2. PICK s : Linked(s)
    BY DEF ListInv
  <1>3. PICK i \in 1 .. count : array[p] = s[i]
    BY <1>1, <1>2, QueueIs
  <1>4. /\ pageNumber[s[i]] = p /\ s[i] \in Nodes
        /\ count \in Nat /\ count > 0 /\ count \in 1 .. count
        /\ s[i] = rear <=> i = count
    BY <1>1, <1>2, <1>3 DEF ArrayMatches, Linked
  <1>5. /\ IF s[i] = rear THEN UNCHANGED <<prev, next, front, rear>> ELSE MoveToRear(s[i])
        /\ marks' = [marks EXCEPT ![s[i]] = FALSE]
        /\ UNCHANGED <<nodes, pageNumber, count, array>>
    BY <1>3 DEF DeReferenceNode
  <1>6. /\ {front', rear'} \subseteq Nodes \cup {NoNode}
        /\ next' \in [Nodes -> Nodes \cup {NoNode, Freed}]
        /\ prev' \in [Nodes -> Nodes \cup {NoNode, Freed}]
        /\ \E t : t = MovedDown(s, i, count) /\ Linked(t)'
    <2>1. CASE i = count
      <3>1. MovedDown(s, i, count) = s
        <4>1. MovedDown(s, i, count) = [k \in 1 .. count |-> s[k]]
          BY <2>1, <1>4 DEF MovedDown
        <4> QED BY <4>1, <1>2 DEF Linked
      <3>2. Linked(s)'
        BY <1>2, <1>4, <1>5, <2>1 DEF Linked, Nodes
      <3> QED BY <3>1, <3>2, <1>1, <1>4, <1>5, <2>1 DEF ListTypeOK
    <2>2. CASE i # count
      <3>1. i \in 1 .. count - 1
        BY <2>2, <1>4
      <3> QED BY <3>1, <1>1, <1>2, <1>4, <1>5, <2>2, MoveToRearKeeps
    <2> QED BY <2>1, <2>2
  <1>7. PICK t : t = MovedDown(s, i, count) /\ Linked(t)'
    BY <1>6
  <1>8. marks' \in [Nodes -> BOOLEAN]
    BY <1>1, <1>5 DEF ListTypeOK
  <1>9. ListTypeOK' /\ ArrayMatches'
    BY <1>1, <1>5, <1>6, <1>8, Reordered
  <1>10. Order' = Queue!ToRear(Order, Queue!Position(p))
    <2>1. Order' = [k \in 1 .. count |-> pageNumber[t[k]]]
      BY <1>5, <1>7, OrderNext
    <2>2. \A k \in 1 .. count :
             pageNumber[t[k]] = IF k < i THEN Order[k] ELSE IF k < count THEN Order[k + 1] ELSE Order[i]
      BY <1>1, <1>2, <1>4, <1>7, QueueIs DEF MovedDown
    <2>3. Len(Order) = count /\ Queue!Position(p) = i
      BY <1>1, <1>2, <1>4, QueueIs
    <2> QED BY <2>1, <2>2, <2>3 DEF Queue!ToRear
  <1>11. \A q \in Pages : array[q] # NoNode /\ q # p => array[q] # s[i]
    BY <1>1, <1>4 DEF ArrayMatches
  <1>12. [q \in Pages |-> array[q] # NoNode /\ marks[array[q]]]'
         = [[q \in Pages |-> array[q] # NoNode /\ marks[array[q]]] EXCEPT ![p] = FALSE]
    <2>1. ASSUME NEW q \in Pages
          PROVE  (array'[q] # NoNode /\ marks'[array'[q]])
                 = IF q = p THEN FALSE ELSE array[q] # NoNode /\ marks[array[q]]
      <3>1. CASE array[q] = NoNode
        BY <3>1, <1>5, <1>3
      <3>2. CASE array[q] # NoNode
        <4>1. array[q] \in Nodes
          BY <3>2, <1>1 DEF ListTypeOK
        <4>2. marks'[array[q]] = IF array[q] = s[i] THEN FALSE ELSE marks[array[q]]
          BY <4>1, <1>1, <1>5 DEF ListTypeOK
        <4> QED BY <3>2, <4>2, <1>3, <1>5, <1>11
      <3> QED BY <3>1, <3>2
    <2> QED BY <2>1 DEF Pages
  <1>13. Queue!DeReferencePage(p)
    BY <1>1, <1>5, <1>10, <1>12 DEF Queue!DeReferencePage, Queue!Pages, Pages
  <1> QED BY <1>7, <1>9, <1>13 DEF ListInv

\* An empty list: no nodes, no pages, no marks.
Empty ==
    /\ nodes = {} /\ front = NoNode /\ rear = NoNode /\ count = 0
    /\ array = [p \in Pages |-> NoNode]
    /\ marks = [n \in Nodes |-> FALSE]

LEMMA EmptyList ==
    ASSUME ListConstants, ListTypeOK, Empty
    PROVE  ListInv /\ Queue!QueueInit
  <1>1. ArrayMatches
    BY DEF Empty, ArrayMatches
  <1>2. Linked(<< >>)
    BY DEF Empty, Linked, ListConstants
  <1>3. Order = << >>
    BY <1>2, OrderIs DEF Empty
  <1>4. {p \in Pages : array[p] # NoNode} = {}
    BY DEF Empty
  <1>5. [p \in Pages |-> array[p] # NoNode /\ marks[array[p]]] = [p \in Pages |-> FALSE]
    BY DEF Empty
  <1> QED BY <1>1, <1>2, <1>3, <1>4, <1>5 DEF ListInv, Queue!QueueInit, Queue!Pages, Pages

LEMMA EmptyListNext ==
    ASSUME ListConstants, ListTypeOK', Empty'
    PROVE  ListInv' /\ Queue!QueueReset
  <1>1. ArrayMatches'
    BY DEF Empty, ArrayMatches
  <1>2. Linked(<< >>)'
    BY DEF Empty, Linked, ListConstants
  <1>3. Order' = << >>
    BY <1>2, OrderNext DEF Empty
  <1>4. {p \in Pages : array[p] # NoNode}' = {}
    BY DEF Empty
  <1>5. [p \in Pages |-> array[p] # NoNode /\ marks[array[p]]]' = [p \in Pages |-> FALSE]
    BY DEF Empty
  <1> QED BY <1>1, <1>2, <1>3, <1>4, <1>5 DEF ListInv, Queue!QueueReset, Queue!Pages, Pages

\* cache_reset finds every node.
LEMMA ResetStep ==
    ASSUME ListConstants, ListInv, CacheReset
    PROVE  ListInv' /\ Queue!QueueReset
  <1>1. PICK s : Linked(s)
    BY DEF ListInv
  <1>2. count \in Nat /\ \A k \in 1 .. count : FromRear[k] = s[count + 1 - k]
    <2>1. count \in Nat
      BY <1>1 DEF Linked
    <2> QED BY <2>1, <1>1, WalkBack
  <1>3. nodes \ {FromRear[k] : k \in 1 .. count} = {}
    <2>1. ASSUME NEW n \in nodes PROVE n \in {FromRear[k] : k \in 1 .. count}
      <3>1. PICK k \in 1 .. count : n = s[k]
        BY <1>1 DEF Linked
      <3>2. count + 1 - k \in 1 .. count /\ count + 1 - (count + 1 - k) = k
        BY <1>2
      <3>3. FromRear[count + 1 - k] = n
        BY <1>2, <3>1, <3>2
      <3> QED BY <3>2, <3>3
    <2> QED BY <2>1
  <1>4. Empty' /\ ListTypeOK'
    <2>1. Empty'
      BY <1>3 DEF CacheReset, Empty
    <2>2. /\ prev' = [n \in Nodes |-> Freed]
          /\ next' = [n \in Nodes |-> Freed]
          /\ pageNumber' = [n \in Nodes |-> Freed]
      BY <1>3 DEF CacheReset
    <2> QED BY <2>1, <2>2 DEF Empty, ListTypeOK, ListConstants
  <1> QED BY <1>4, EmptyListNext

\* A step in which the list stays as it is.
LEMMA ListStutter ==
    ASSUME ListConstants, ListInv, UNCHANGED listVars
    PROVE  ListInv' /\ UNCHANGED Queue!queueVars
  <1>1. ListTypeOK' /\ ArrayMatches'
    BY DEF ListInv, listVars, fields, ListTypeOK, ArrayMatches, Pages, Nodes
  <1>2. PICK s : Linked(s)
    BY DEF ListInv
  <1>3. Linked(s)'
    BY <1>2 DEF Linked, listVars, fields, Nodes
  <1>4. Order' = Order
    <2>1. Order = [k \in 1 .. count |-> pageNumber[s[k]]]
      BY <1>2, OrderIs
    <2>2. Order' = [k \in 1 .. count' |-> pageNumber'[s[k]]]
      BY <1>3, OrderNext
    <2> QED BY <2>1, <2>2 DEF listVars, fields
  <1> QED BY <1>1, <1>3, <1>4 DEF ListInv, listVars, fields, Queue!queueVars, Pages

LEMMA ListStep ==
    ASSUME ListConstants, ListInv, [ListNext]_listVars
    PROVE  ListInv' /\ [Queue!QueueNext]_(Queue!queueVars)
  <1>1. ASSUME NEW p \in Pages, ReferencePage(p)
        PROVE  ListInv' /\ Queue!QueueNext
    <2>1. CASE array[p] # NoNode
      BY <1>1, <2>1, HitStep DEF Queue!QueueNext, Queue!Pages, Pages
    <2>2. CASE array[p] = NoNode
      <3>1. Enqueue(p)
        BY <1>1, <2>2 DEF ReferencePage
      <3>2. CASE ~ListFull
        <4>1. EnqueueFree(p)
          BY <3>1, <3>2 DEF Enqueue
        <4> QED BY <2>2, <3>2, <4>1, FillStep DEF Queue!QueueNext, Queue!Pages, Pages
      <3>3. CASE ListFull
        <4>1. ~(MAPPING /\ marks[rear]) /\ DeQueueAndEnqueue(p)
          BY <3>1, <3>3 DEF Enqueue
        <4> QED BY <2>2, <3>3, <4>1, ReplaceStep DEF Queue!QueueNext, Queue!Pages, Pages
      <3> QED BY <3>2, <3>3
    <2> QED BY <2>1, <2>2
  <1>2. ASSUME NEW p \in Pages, DeReferenceNode(p)
        PROVE  ListInv' /\ Queue!QueueNext
    BY <1>2, DeReferenceStep DEF Queue!QueueNext, Queue!Pages, Pages
  <1>3. CASE CacheReset
    BY <1>3, ResetStep DEF Queue!QueueNext
  <1>4. CASE UNCHANGED listVars
    BY <1>4, ListStutter
  <1> QED BY <1>1, <1>2, <1>3, <1>4 DEF ListNext

--------------------------------------------------------------------------------
\* The list starts empty, as the abstract queue does (vmem.c:74-108).
LEMMA ListStart ==
    ASSUME ListConstants, ListInit
    PROVE  ListInv /\ Queue!QueueInit
  <1>1. ListTypeOK
    BY DEF ListInit, ListTypeOK, ListConstants, Nodes, Pages, NoNode, Freed
  <1>2. Empty
    BY DEF ListInit, Empty
  <1> QED BY <1>1, <1>2, EmptyList

LEMMA ListConstantsHold == ListConstants
  BY ListAssumption DEF ListConstants

\* Whatever pages are referenced and released, in whatever order and wherever
\* malloc puts the nodes, there is one sequence of nodes that next and prev both
\* follow, and the array and the nodes point at each other (vmem.c:175-334).
THEOREM ListSpecInv == ListSpec => []ListInv
  <1>1. ListInit => ListInv
    BY ListStart, ListConstantsHold
  <1>2. ListInv /\ [ListNext]_listVars => ListInv'
    BY ListStep, ListConstantsHold
  <1> QED BY <1>1, <1>2, PTL DEF ListSpec

\* No field of struct QNode, struct Queue or struct vHash leaves its range.
THEOREM SpecListTypeOK == ListSpec => []ListTypeOK
  <1>1. ListInv => ListTypeOK
    BY DEF ListInv
  <1> QED BY <1>1, ListSpecInv, PTL

\* Both walks pass every node that is allocated, in opposite orders, and end
\* after `count' nodes: no step leaks a node or leaves a dangling pointer
\* (vmem.c:175-208, 259-266, 285-301, 316-331).
THEOREM SpecDoublyLinked == ListSpec => []DoublyLinked
  <1>1. ASSUME ListInv
        PROVE  DoublyLinked
    <2>1. PICK s : Linked(s)
      BY <1>1 DEF ListInv
    <2>2. /\ count \in Nat
          /\ \A k \in 1 .. count : FromFront[k] = s[k] /\ FromRear[k] = s[count + 1 - k]
      <3>1. count \in Nat
        BY <2>1 DEF Linked
      <3> QED BY <3>1, <2>1, WalkForth, WalkBack, ListConstantsHold
    <2>3. nodes = {FromFront[k] : k \in 1 .. count}
      <3>1. nodes = {s[k] : k \in 1 .. count}
        BY <2>1 DEF Linked
      <3> QED BY <3>1, <2>2
    <2>4. ASSUME NEW k \in 1 .. count
          PROVE  FromFront[k] = FromRear[count + 1 - k]
      <3>1. count + 1 - k \in 1 .. count /\ count + 1 - (count + 1 - k) = k
        BY <2>2
      <3>2. FromRear[count + 1 - k] = s[count + 1 - (count + 1 - k)]
        BY <3>1, <2>2
      <3> QED BY <3>1, <3>2, <2>2
    <2>5. /\ count = 0 => front = NoNode /\ rear = NoNode
          /\ count > 0 => prev[front] = NoNode /\ next[rear] = NoNode
      BY <2>1, <2>2 DEF Linked
    <2> QED BY <2>3, <2>4, <2>5 DEF DoublyLinked
  <1> QED BY <1>1, ListSpecInv, PTL

\* An entry of hash->array leads to the node of its page, in use and never freed,
\* and every node in use is the one its page leads to (vmem.c:222, 269).
THEOREM SpecArrayLeadsToNodes == ListSpec => []ArrayLeadsToNodes
  <1>1. ListInv => ArrayLeadsToNodes
    BY DEF ListInv, ArrayMatches, ArrayLeadsToNodes
  <1> QED BY <1>1, ListSpecInv, PTL

\* Every step of the list is a step of the abstract queue: a hit moves its page
\* to the front, a release to the rear, and the page that gives way is the one at
\* the rear (vmem.c:175-334).
THEOREM SpecImplementsPageQueue == ListSpec => ImplementsPageQueue
  <1>1. ListInit => Queue!QueueInit
    BY ListStart, ListConstantsHold
  <1>2. ListInv /\ [ListNext]_listVars => [Queue!QueueNext]_(Queue!queueVars)
    BY ListStep, ListConstantsHold
  <1> QED BY <1>1, <1>2, ListSpecInv, PTL DEF ListSpec, ImplementsPageQueue, Queue!QueueSpec

================================================================================
