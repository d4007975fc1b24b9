------------------------------- MODULE VmemProofs ------------------------------
(****************************************************************************)
(* Proofs about the Virtual Memory Engine for every number of pages and      *)
(* frames and every configuration.  First the page queue: each operation     *)
(* keeps it consistent and keeps the marked pages in front, so that looking  *)
(* at the rear page alone tells whether any page can give way; without       *)
(* mappings it is an LRU cache.  Then the engine: the inductive invariant    *)
(* IInv, that a marked page keeps its frame, and that the engine with        *)
(* COLD_HASH implements the page store of module BlockStore.                 *)
(****************************************************************************)
EXTENDS Vmem, LruCache, TLAPS

\* Where the page of a node is, for a page that has one.
LEMMA PositionFound ==
    ASSUME QueueInv, NEW p \in hash
    PROVE  /\ Position(p) \in 1 .. Len(queue)
           /\ queue[Position(p)] = p
  <1>1. \E i \in 1 .. Len(queue) : queue[i] = p
    BY DEF QueueInv, QueueConsistent
  <1> QED BY <1>1 DEF Position

\* The types of the elements and of the length of the queue.
LEMMA QueueElements ==
    ASSUME QueueTypeOK
    PROVE  /\ Len(queue) \in Nat
           /\ \A i \in 1 .. Len(queue) : queue[i] \in Pages
  BY DEF QueueTypeOK

\* Moving an element to the front: what the sequence is made of stays.
LEMMA ToFrontFacts ==
    ASSUME QueueTypeOK, NEW i \in 1 .. Len(queue)
    PROVE  /\ ToFront(queue, i) \in Seq(Pages)
           /\ Len(ToFront(queue, i)) = Len(queue)
           /\ \A k \in 1 .. Len(queue) : ToFront(queue, i)[k] =
                 IF k = 1 THEN queue[i] ELSE IF k <= i THEN queue[k - 1] ELSE queue[k]
  BY QueueElements DEF QueueTypeOK, ToFront

LEMMA ToRearFacts ==
    ASSUME QueueTypeOK, NEW i \in 1 .. Len(queue)
    PROVE  /\ ToRear(queue, i) \in Seq(Pages)
           /\ Len(ToRear(queue, i)) = Len(queue)
           /\ \A k \in 1 .. Len(queue) : ToRear(queue, i)[k] =
                 IF k < i THEN queue[k]
                 ELSE IF k < Len(queue) THEN queue[k + 1] ELSE queue[i]
  BY QueueElements DEF QueueTypeOK, ToRear

LEMMA PushFrontFacts ==
    ASSUME QueueTypeOK, NEW p \in Pages
    PROVE  /\ PushFront(queue, p) \in Seq(Pages)
           /\ Len(PushFront(queue, p)) = Len(queue) + 1
           /\ \A k \in 1 .. Len(queue) + 1 : PushFront(queue, p)[k] =
                 IF k = 1 THEN p ELSE queue[k - 1]
  BY QueueElements DEF QueueTypeOK, PushFront

LEMMA RotateFacts ==
    ASSUME QueueTypeOK, NEW p \in Pages
    PROVE  /\ Rotate(queue, p) \in Seq(Pages)
           /\ Len(Rotate(queue, p)) = Len(queue)
           /\ \A k \in 1 .. Len(queue) : Rotate(queue, p)[k] =
                 IF k = 1 THEN p ELSE queue[k - 1]
  BY QueueElements DEF QueueTypeOK, Rotate

--------------------------------------------------------------------------------
LEMMA HitKeepsQueueInv ==
    ASSUME QueueInv, PageQueueAssumption, NEW p \in Pages, Hit(p)
    PROVE  QueueInv'
  <1> DEFINE n == Position(p)
  <1>1. n \in 1 .. Len(queue) /\ queue[n] = p
    BY PositionFound DEF Hit
  <1>2. queue' = ToFront(queue, n) /\ hash' = hash
    BY DEF Hit
  <1> HIDE DEF n
  <1>3. /\ Len(queue') = Len(queue) /\ queue' \in Seq(Pages)
        /\ \A k \in 1 .. Len(queue) : queue'[k] =
              IF k = 1 THEN queue[n] ELSE IF k <= n THEN queue[k - 1] ELSE queue[k]
    BY <1>1, <1>2, ToFrontFacts DEF QueueInv
  <1>4. Len(queue) \in Nat
    BY QueueElements DEF QueueInv
  <1>5. QueueTypeOK'
    BY <1>2, <1>3 DEF Hit, QueueInv, QueueTypeOK, PageQueueAssumption
  <1>6. QueueConsistent'
    <2>1. Len(queue)' <= WARM_PAGES
      BY <1>3 DEF QueueInv, QueueConsistent
    <2>2. \A i, j \in 1 .. Len(queue) : queue'[i] = queue'[j] => i = j
      <3> DEFINE From(k) == IF k = 1 THEN n ELSE IF k <= n THEN k - 1 ELSE k
      <3>1. \A k \in 1 .. Len(queue) : From(k) \in 1 .. Len(queue) /\ queue'[k] = queue[From(k)]
        BY <1>1, <1>3, <1>4
      <3>2. \A i, j \in 1 .. Len(queue) : From(i) = From(j) => i = j
        BY <1>1, <1>4
      <3> HIDE DEF From
      <3> QED BY <3>1, <3>2 DEF QueueInv, QueueConsistent
    <2>3. \A k \in 1 .. Len(queue) : queue'[k] \in {queue[i] : i \in 1 .. Len(queue)}
      BY <1>1, <1>3, <1>4
    <2>4. \A i \in 1 .. Len(queue) : queue[i] \in {queue'[k] : k \in 1 .. Len(queue)}
      <3> TAKE i \in 1 .. Len(queue)
      <3>1. CASE i = n
        BY <3>1, <1>1, <1>3, <1>4
      <3>2. CASE i < n
        <4>1. i + 1 \in 1 .. Len(queue) /\ queue'[i + 1] = queue[i]
          BY <3>2, <1>1, <1>3, <1>4
        <4> QED BY <4>1
      <3>3. CASE i > n
        BY <3>3, <1>1, <1>3, <1>4
      <3> QED BY <3>1, <3>2, <3>3, <1>1, <1>4
    <2>5. hash' = {queue'[i] : i \in 1 .. Len(queue)}
      <3>1. hash' = hash /\ hash = {queue[i] : i \in 1 .. Len(queue)}
        BY <1>2 DEF QueueInv, QueueConsistent
      <3> QED BY ONLY <3>1, <2>3, <2>4
    <2> QED BY <1>3, <2>1, <2>2, <2>5 DEF QueueConsistent
  <1>7. StuckInFront'
    <2>1. \A r \in Pages : stick'[r] = IF r = p THEN WARM_FETCH \/ stick[p] ELSE stick[r]
      BY DEF Hit, QueueInv, QueueTypeOK
    <2>2. \A i, j \in 1 .. Len(queue) : i < j /\ stick'[queue'[j]] => stick'[queue'[i]]
      <3> SUFFICES ASSUME NEW i \in 1 .. Len(queue), NEW j \in 1 .. Len(queue),
                          i < j, stick'[queue'[j]]
                   PROVE  stick'[queue'[i]]
        OBVIOUS
      <3>0. \A k \in 1 .. Len(queue) : queue[k] \in Pages
        BY QueueElements DEF QueueInv
      <3>1. CASE j <= n
        <4>1. queue'[j] = queue[j - 1] /\ j - 1 \in 1 .. Len(queue) /\ j - 1 < n
          BY <3>1, <1>1, <1>3, <1>4
        <4>2. queue[j - 1] # p
          BY <4>1, <1>1, <1>4 DEF QueueInv, QueueConsistent
        <4>3. stick[queue[j - 1]]
          BY <4>1, <4>2, <2>1, <3>0
        <4>4. CASE i = 1
          <5>1. queue'[i] = p
            BY <4>4, <1>1, <1>3
          <5>2. WARM_FETCH
            BY <4>1, <4>3, <3>0 DEF QueueInv, StuckInFront
          <5> QED BY <5>1, <5>2, <2>1
        <4>5. CASE i > 1
          <5>1. queue'[i] = queue[i - 1] /\ i - 1 \in 1 .. Len(queue) /\ i - 1 < j - 1
            BY <4>5, <3>1, <1>1, <1>3, <1>4
          <5>2. stick[queue[i - 1]]
            BY <5>1, <4>1, <4>3 DEF QueueInv, StuckInFront
          <5> QED BY <5>1, <5>2, <2>1, <3>0
        <4> QED BY <4>4, <4>5, <1>4
      <3>2. CASE j > n
        <4>1. queue'[j] = queue[j]
          BY <3>2, <1>1, <1>3, <1>4
        <4>2. queue[j] # p
          BY <3>2, <1>1, <1>4 DEF QueueInv, QueueConsistent
        <4>3. stick[queue[j]]
          BY <4>1, <4>2, <2>1, <3>0
        <4>4. \A k \in 1 .. Len(queue) : k < j => stick[queue[k]]
          BY <4>3 DEF QueueInv, StuckInFront
        <4>5. \E k \in 1 .. Len(queue) : k < j /\ queue'[i] = queue[k]
          <5>1. CASE i = 1
            BY <5>1, <1>1, <1>3, <3>2
          <5>2. CASE i > 1 /\ i <= n
            <6>1. queue'[i] = queue[i - 1] /\ i - 1 \in 1 .. Len(queue) /\ i - 1 < j
              BY <5>2, <1>1, <1>3, <1>4
            <6> QED BY <6>1
          <5>3. CASE i > n /\ i > 1
            BY <5>3, <1>1, <1>3, <1>4
          <5> QED BY <5>1, <5>2, <5>3, <1>1, <1>4
        <4> QED BY <4>4, <4>5, <2>1, <3>0
      <3> QED BY <3>1, <3>2, <1>1, <1>4
    <2>3. \A r \in Pages : stick'[r] => r \in hash' /\ WARM_FETCH
      BY <1>2, <2>1 DEF Hit, QueueInv, StuckInFront
    <2> QED BY <1>3, <2>2, <2>3 DEF StuckInFront
  <1> QED BY <1>5, <1>6, <1>7 DEF QueueInv

LEMMA FillKeepsQueueInv ==
    ASSUME QueueInv, PageQueueAssumption, NEW p \in Pages, Fill(p)
    PROVE  QueueInv'
  <1>1. /\ Len(queue) \in Nat /\ Len(queue) < WARM_PAGES
        /\ \A k \in 1 .. Len(queue) : queue[k] \in Pages
    BY QueueElements DEF Fill, AreAllFramesFull, QueueInv, QueueConsistent,
                         PageQueueAssumption
  <1>2. /\ queue' \in Seq(Pages) /\ Len(queue') = Len(queue) + 1
        /\ \A k \in 1 .. Len(queue) + 1 : queue'[k] =
              IF k = 1 THEN p ELSE queue[k - 1]
    BY PushFrontFacts DEF Fill, QueueInv
  <1>3. QueueTypeOK'
    BY <1>2 DEF Fill, QueueInv, QueueTypeOK, PageQueueAssumption
  <1>4. \A k \in 1 .. Len(queue) : queue[k] # p
    BY DEF Fill, QueueInv, QueueConsistent
  <1>5. QueueConsistent'
    <2>1. \A i, j \in 1 .. Len(queue) + 1 : queue'[i] = queue'[j] => i = j
      <3> TAKE i, j \in 1 .. Len(queue) + 1
      <3>1. CASE i = 1 \/ j = 1
        BY <3>1, <1>1, <1>2, <1>4
      <3>2. CASE i > 1 /\ j > 1
        <4>1. i - 1 \in 1 .. Len(queue) /\ j - 1 \in 1 .. Len(queue)
          BY <3>2, <1>1
        <4>2. queue'[i] = queue[i - 1] /\ queue'[j] = queue[j - 1]
          BY <3>2, <1>2
        <4>3. queue[i - 1] = queue[j - 1] => i - 1 = j - 1
          BY <4>1 DEF QueueInv, QueueConsistent
        <4> QED BY <4>2, <4>3, <1>1
      <3> QED BY <3>1, <3>2, <1>1
    <2>2. hash' = {queue'[i] : i \in 1 .. Len(queue) + 1}
      <3>1. \A k \in 1 .. Len(queue) + 1 : queue'[k] \in hash'
        <4> TAKE k \in 1 .. Len(queue) + 1
        <4>1. CASE k = 1
          BY <4>1, <1>2 DEF Fill
        <4>2. CASE k > 1
          <5>1. k - 1 \in 1 .. Len(queue) /\ queue'[k] = queue[k - 1]
            BY <4>2, <1>1, <1>2
          <5> QED BY <5>1 DEF Fill, QueueInv, QueueConsistent
        <4> QED BY <4>1, <4>2, <1>1
      <3>2. \A r \in hash : \E k \in 1 .. Len(queue) + 1 : queue'[k] = r
        <4> TAKE r \in hash
        <4>1. PICK i \in 1 .. Len(queue) : queue[i] = r
          BY DEF QueueInv, QueueConsistent
        <4>2. i + 1 \in 1 .. Len(queue) + 1 /\ queue'[i + 1] = r
          BY <4>1, <1>1, <1>2
        <4> QED BY <4>2
      <3>3. 1 \in 1 .. Len(queue) + 1 /\ queue'[1] = p
        BY <1>1, <1>2
      <3> QED BY <3>1, <3>2, <3>3 DEF Fill
    <2> QED BY <1>1, <1>2, <2>1, <2>2 DEF QueueConsistent, PageQueueAssumption
  <1>6. StuckInFront'
    <2>1. \A r \in Pages : stick'[r] = IF r = p THEN WARM_FETCH ELSE stick[r]
      BY DEF Fill, QueueInv, QueueTypeOK
    <2>2. \A i, j \in 1 .. Len(queue) + 1 :
             i < j /\ stick'[queue'[j]] => stick'[queue'[i]]
      <3> SUFFICES ASSUME NEW i \in 1 .. Len(queue) + 1, NEW j \in 1 .. Len(queue) + 1,
                          i < j, stick'[queue'[j]]
                   PROVE  stick'[queue'[i]]
        OBVIOUS
      <3>1. /\ j - 1 \in 1 .. Len(queue) /\ queue'[j] = queue[j - 1]
        BY <1>1, <1>2
      <3>2. stick[queue[j - 1]]
        BY <3>1, <2>1, <1>1, <1>4
      <3>3. CASE i = 1
        <4>1. queue'[i] = p
          BY <3>3, <1>2
        <4>2. WARM_FETCH
          BY <3>1, <3>2, <1>1 DEF QueueInv, StuckInFront
        <4> QED BY <4>1, <4>2, <2>1
      <3>4. CASE i > 1
        <4>1. i - 1 \in 1 .. Len(queue) /\ queue'[i] = queue[i - 1] /\ i - 1 < j - 1
          BY <3>4, <1>1, <1>2
        <4>2. stick[queue[i - 1]]
          BY <4>1, <3>1, <3>2 DEF QueueInv, StuckInFront
        <4> QED BY <4>1, <4>2, <2>1, <1>1, <1>4
      <3> QED BY <3>3, <3>4, <1>1
    <2>3. \A r \in Pages : stick'[r] => r \in hash' /\ WARM_FETCH
      BY <2>1 DEF Fill, QueueInv, StuckInFront
    <2> QED BY <1>2, <2>2, <2>3 DEF StuckInFront
  <1> QED BY <1>3, <1>5, <1>6 DEF QueueInv

\* The rear page when every frame is taken.
LEMMA RearFacts ==
    ASSUME QueueInv, PageQueueAssumption, AreAllFramesFull
    PROVE  /\ Len(queue) \in Nat \ {0}
           /\ Rear \in hash /\ Rear \in Pages
           /\ queue[Len(queue)] = Rear
           /\ \A k \in 1 .. Len(queue) - 1 : queue[k] # Rear
  <1>1. Len(queue) \in Nat \ {0}
    BY DEF AreAllFramesFull, PageQueueAssumption
  <1>2. Len(queue) \in 1 .. Len(queue)
    BY <1>1
  <1>3. Rear \in hash
    BY <1>2 DEF Rear, QueueInv, QueueConsistent
  <1> QED BY <1>1, <1>2, <1>3 DEF Rear, QueueInv, QueueConsistent, QueueTypeOK

LEMMA ReplaceKeepsQueueInv ==
    ASSUME QueueInv, PageQueueAssumption, NEW p \in Pages, Replace(p)
    PROVE  QueueInv'
  <1>1. /\ Len(queue) \in Nat \ {0} /\ Rear \in hash /\ Rear \in Pages
        /\ \A k \in 1 .. Len(queue) - 1 : queue[k] # Rear
        /\ queue[Len(queue)] = Rear /\ p # Rear
        /\ \A k \in 1 .. Len(queue) : queue[k] \in Pages
    BY RearFacts, QueueElements DEF Replace, QueueInv
  <1>2. /\ queue' \in Seq(Pages) /\ Len(queue') = Len(queue)
        /\ \A k \in 1 .. Len(queue) : queue'[k] =
              IF k = 1 THEN p ELSE queue[k - 1]
    BY RotateFacts DEF Replace, QueueInv
  <1>3. QueueTypeOK'
    BY <1>1, <1>2 DEF Replace, QueueInv, QueueTypeOK, PageQueueAssumption
  <1>4. \A k \in 1 .. Len(queue) : queue[k] # p
    BY DEF Replace, QueueInv, QueueConsistent
  <1>5. QueueConsistent'
    <2>1. \A i, j \in 1 .. Len(queue) : queue'[i] = queue'[j] => i = j
      <3> TAKE i, j \in 1 .. Len(queue)
      <3>1. CASE i = 1 \/ j = 1
        BY <3>1, <1>1, <1>2, <1>4
      <3>2. CASE i > 1 /\ j > 1
        <4>1. i - 1 \in 1 .. Len(queue) /\ j - 1 \in 1 .. Len(queue)
          BY <3>2, <1>1
        <4>2. queue'[i] = queue[i - 1] /\ queue'[j] = queue[j - 1]
          BY <3>2, <1>2
        <4>3. queue[i - 1] = queue[j - 1] => i - 1 = j - 1
          BY <4>1 DEF QueueInv, QueueConsistent
        <4> QED BY <4>2, <4>3, <1>1
      <3> QED BY <3>1, <3>2, <1>1
    <2>2. hash' = {queue'[i] : i \in 1 .. Len(queue)}
      <3>1. \A k \in 1 .. Len(queue) : queue'[k] \in hash'
        <4> TAKE k \in 1 .. Len(queue)
        <4>1. CASE k = 1
          BY <4>1, <1>2 DEF Replace
        <4>2. CASE k > 1
          <5>1. k - 1 \in 1 .. Len(queue) - 1 /\ queue'[k] = queue[k - 1]
            BY <4>2, <1>1, <1>2
          <5>2. queue[k - 1] \in hash /\ queue[k - 1] # Rear
            BY <5>1, <1>1 DEF QueueInv, QueueConsistent
          <5> QED BY <5>1, <5>2 DEF Replace
        <4> QED BY <4>1, <4>2, <1>1
      <3>2. \A r \in hash \ {Rear} : \E k \in 1 .. Len(queue) : queue'[k] = r
        <4> TAKE r \in hash \ {Rear}
        <4>1. PICK i \in 1 .. Len(queue) : queue[i] = r
          BY DEF QueueInv, QueueConsistent
        <4>2. i + 1 \in 1 .. Len(queue) /\ queue'[i + 1] = r
          BY <4>1, <1>1, <1>2
        <4> QED BY <4>2
      <3>3. 1 \in 1 .. Len(queue) /\ queue'[1] = p
        BY <1>1, <1>2
      <3> QED BY <3>1, <3>2, <3>3 DEF Replace
    <2> QED BY <1>2, <2>1, <2>2 DEF QueueConsistent, QueueInv
  <1>6. StuckInFront'
    <2>1. \A r \in Pages : stick'[r] =
             IF r = p THEN WARM_FETCH ELSE IF r = Rear THEN FALSE ELSE stick[r]
      BY <1>1 DEF Replace, QueueInv, QueueTypeOK
    <2>2. \A i, j \in 1 .. Len(queue) : i < j /\ stick'[queue'[j]] => stick'[queue'[i]]
      <3> SUFFICES ASSUME NEW i \in 1 .. Len(queue), NEW j \in 1 .. Len(queue),
                          i < j, stick'[queue'[j]]
                   PROVE  stick'[queue'[i]]
        OBVIOUS
      <3>1. /\ j - 1 \in 1 .. Len(queue) /\ queue'[j] = queue[j - 1]
        BY <1>1, <1>2
      <3>2. stick[queue[j - 1]]
        BY <3>1, <2>1, <1>1, <1>4
      <3>3. CASE i = 1
        <4>1. queue'[i] = p
          BY <3>3, <1>2
        <4>2. WARM_FETCH
          BY <3>1, <3>2, <1>1 DEF QueueInv, StuckInFront
        <4> QED BY <4>1, <4>2, <2>1
      <3>4. CASE i > 1
        <4>1. i - 1 \in 1 .. Len(queue) - 1 /\ queue'[i] = queue[i - 1] /\ i - 1 < j - 1
          BY <3>4, <1>1, <1>2
        <4>2. i - 1 \in 1 .. Len(queue)
          BY <4>1, <1>1
        <4>3. stick[queue[i - 1]] /\ queue[i - 1] # Rear
          BY <4>1, <4>2, <3>1, <3>2, <1>1 DEF QueueInv, StuckInFront
        <4>4. queue[i - 1] \in Pages /\ queue[i - 1] # p
          BY <4>2, <1>1, <1>4
        <4> QED BY <4>1, <4>3, <4>4, <2>1
      <3> QED BY <3>3, <3>4, <1>1
    <2>3. \A r \in Pages : stick'[r] => r \in hash' /\ WARM_FETCH
      BY <2>1 DEF Replace, QueueInv, StuckInFront
    <2> QED BY <1>2, <2>2, <2>3 DEF StuckInFront
  <1> QED BY <1>3, <1>5, <1>6 DEF QueueInv

LEMMA DeReferenceKeepsQueueInv ==
    ASSUME QueueInv, PageQueueAssumption, NEW p \in Pages, DeReferencePage(p)
    PROVE  QueueInv'
  <1> DEFINE n == Position(p)
  <1>1. n \in 1 .. Len(queue) /\ queue[n] = p
    BY PositionFound DEF DeReferencePage
  <1>2. queue' = ToRear(queue, n) /\ hash' = hash
    BY DEF DeReferencePage
  <1> HIDE DEF n
  <1>3. /\ Len(queue') = Len(queue) /\ queue' \in Seq(Pages)
        /\ \A k \in 1 .. Len(queue) : queue'[k] =
              IF k < n THEN queue[k]
              ELSE IF k < Len(queue) THEN queue[k + 1] ELSE queue[n]
    BY <1>1, <1>2, ToRearFacts DEF QueueInv
  <1>4. Len(queue) \in Nat /\ \A k \in 1 .. Len(queue) : queue[k] \in Pages
    BY QueueElements DEF QueueInv
  <1>5. QueueTypeOK'
    BY <1>2, <1>3 DEF DeReferencePage, QueueInv, QueueTypeOK
  <1>6. QueueConsistent'
    <2>1. \A i, j \in 1 .. Len(queue) : queue'[i] = queue'[j] => i = j
      <3> DEFINE from(k) == IF k < n THEN k ELSE IF k < Len(queue) THEN k + 1 ELSE n
      <3>1. \A k \in 1 .. Len(queue) :
               from(k) \in 1 .. Len(queue) /\ queue'[k] = queue[from(k)]
        BY <1>1, <1>3, <1>4
      <3>2. \A i, j \in 1 .. Len(queue) : from(i) = from(j) => i = j
        BY <1>1, <1>4
      <3> HIDE DEF from
      <3> QED BY <3>1, <3>2 DEF QueueInv, QueueConsistent
    <2>2. \A k \in 1 .. Len(queue) : queue'[k] \in {queue[i] : i \in 1 .. Len(queue)}
      BY <1>1, <1>3, <1>4
    <2>3. \A i \in 1 .. Len(queue) : queue[i] \in {queue'[k] : k \in 1 .. Len(queue)}
      <3> TAKE i \in 1 .. Len(queue)
      <3>1. CASE i = n
        <4>1. Len(queue) \in 1 .. Len(queue) /\ queue'[Len(queue)] = queue[i]
          BY <3>1, <1>1, <1>3, <1>4
        <4> QED BY <4>1
      <3>2. CASE i > n
        <4>1. i - 1 \in 1 .. Len(queue) /\ queue'[i - 1] = queue[i]
          BY <3>2, <1>1, <1>3, <1>4
        <4> QED BY <4>1
      <3>3. CASE i < n
        BY <3>3, <1>1, <1>3, <1>4
      <3> QED BY <3>1, <3>2, <3>3, <1>1, <1>4
    <2>4. hash' = {queue'[i] : i \in 1 .. Len(queue)}
      <3>1. hash' = hash /\ hash = {queue[i] : i \in 1 .. Len(queue)}
        BY <1>2 DEF QueueInv, QueueConsistent
      <3> QED BY ONLY <3>1, <2>2, <2>3
    <2> QED BY <1>3, <2>1, <2>4 DEF QueueConsistent, QueueInv
  <1>7. StuckInFront'
    <2>1. \A r \in Pages : stick'[r] = IF r = p THEN FALSE ELSE stick[r]
      BY DEF DeReferencePage, QueueInv, QueueTypeOK
    <2>2. \A i, j \in 1 .. Len(queue) : i < j /\ stick'[queue'[j]] => stick'[queue'[i]]
      <3> SUFFICES ASSUME NEW i \in 1 .. Len(queue), NEW j \in 1 .. Len(queue),
                          i < j, stick'[queue'[j]]
                   PROVE  stick'[queue'[i]]
        OBVIOUS
      <3>1. PICK b \in 1 .. Len(queue) : queue'[j] = queue[b] /\ b # n /\
               b = (IF j < n THEN j ELSE j + 1)
        <4>1. CASE j < n
          BY <4>1, <1>1, <1>3, <1>4
        <4>2. CASE j >= n
          <5>1. queue'[j] # p
            BY <2>1, <1>3, <1>4, <1>1
          <5>2. j < Len(queue)
            BY <5>1, <4>2, <1>1, <1>3, <1>4
          <5>3. j + 1 \in 1 .. Len(queue) /\ queue'[j] = queue[j + 1]
            BY <5>2, <4>2, <1>1, <1>3, <1>4
          <5> QED BY <5>3, <4>2, <1>1, <1>4
        <4> QED BY <4>1, <4>2, <1>1, <1>4
      <3>2. PICK a \in 1 .. Len(queue) : queue'[i] = queue[a] /\ a # n /\ a < b
        <4>1. CASE i < n
          <5>1. queue'[i] = queue[i] /\ i < b
            BY <4>1, <3>1, <1>1, <1>3, <1>4
          <5> QED BY <5>1, <4>1, <1>1, <1>4
        <4>2. CASE i >= n
          <5>1. i + 1 \in 1 .. Len(queue) /\ queue'[i] = queue[i + 1] /\ i + 1 < b
            BY <4>2, <3>1, <1>1, <1>3, <1>4
          <5> QED BY <5>1, <4>2, <1>1, <1>4
        <4> QED BY <4>1, <4>2, <1>1, <1>4
      <3>3. stick[queue[b]]
        BY <3>1, <2>1, <1>4
      <3>4. stick[queue[a]]
        BY <3>2, <3>3 DEF QueueInv, StuckInFront
      <3>5. queue[a] # p
        BY <3>2, <1>1 DEF QueueInv, QueueConsistent
      <3> QED BY <3>2, <3>4, <3>5, <2>1, <1>4
    <2>3. \A r \in Pages : stick'[r] => r \in hash' /\ WARM_FETCH
      BY <1>2, <2>1 DEF QueueInv, StuckInFront
    <2> QED BY <1>3, <2>2, <2>3 DEF StuckInFront
  <1> QED BY <1>5, <1>6, <1>7 DEF QueueInv

LEMMA QueueInitInv ==
    ASSUME PageQueueAssumption, QueueInit
    PROVE  QueueInv
  <1>1. queue \in Seq(Pages) /\ Len(queue) = 0
    BY DEF QueueInit
  <1> QED BY <1>1 DEF QueueInit, QueueInv, QueueTypeOK, QueueConsistent,
                      StuckInFront, PageQueueAssumption

LEMMA ResetKeepsQueueInv ==
    ASSUME PageQueueAssumption, QueueReset
    PROVE  QueueInv'
  <1>1. queue' \in Seq(Pages) /\ Len(queue') = 0
    BY DEF QueueReset
  <1> QED BY <1>1 DEF QueueReset, QueueInv, QueueTypeOK, QueueConsistent,
                      StuckInFront, PageQueueAssumption

--------------------------------------------------------------------------------
\* The queue stays consistent and the marked pages stay in front, for any
\* number of pages and frames (vmem.c:175-334).
THEOREM QueueSpecInv == QueueSpec => []QueueInv
  <1> USE PageQueueAssumption
  <1>1. QueueInit => QueueInv
    BY QueueInitInv
  <1>2. QueueInv /\ [QueueNext]_queueVars => QueueInv'
    <2> SUFFICES ASSUME QueueInv, [QueueNext]_queueVars
                 PROVE  QueueInv'
      OBVIOUS
    <2>1. CASE \E p \in Pages : Hit(p) \/ Fill(p) \/ Replace(p) \/ DeReferencePage(p)
      BY <2>1, HitKeepsQueueInv, FillKeepsQueueInv, ReplaceKeepsQueueInv,
         DeReferenceKeepsQueueInv
    <2>2. CASE QueueReset
      BY <2>2, ResetKeepsQueueInv
    <2>3. CASE UNCHANGED queueVars
      BY <2>3 DEF queueVars, QueueInv, QueueTypeOK, QueueConsistent, StuckInFront
    <2> QED BY <2>1, <2>2, <2>3 DEF QueueNext
  <1> QED BY <1>1, <1>2, PTL DEF QueueSpec

\* In a consistent queue a page is refused only when every cached page is
\* marked: the rear page speaks for all (vmem.c:216-219).
THEOREM RefusalMeansAllStuck ==
    ASSUME QueueInv, PageQueueAssumption
    PROVE  RefusedOnlyWhenAllStuck
  <1> SUFFICES ASSUME NEW p \in Pages, Refused(p), NEW r \in hash
               PROVE  stick[r]
    BY DEF RefusedOnlyWhenAllStuck
  <1>1. AreAllFramesFull /\ stick[Rear]
    BY DEF Refused
  <1>2. Len(queue) \in Nat \ {0} /\ queue[Len(queue)] = Rear
    BY <1>1, RearFacts
  <1>3. PICK i \in 1 .. Len(queue) : queue[i] = r
    BY DEF QueueInv, QueueConsistent
  <1>4. CASE i = Len(queue)
    BY <1>1, <1>2, <1>3, <1>4
  <1>5. CASE i < Len(queue)
    BY <1>1, <1>2, <1>3, <1>5 DEF QueueInv, StuckInFront
  <1> QED BY <1>2, <1>3, <1>4, <1>5

--------------------------------------------------------------------------------
(* The queue without mappings: least recently used. *)

\* The queue is the beginning of the list of the pages used, cut where the
\* frames end.
QueueIsPrefix ==
    /\ recent \in Seq(Pages)
    /\ \A i, j \in 1 .. Len(recent) : recent[i] = recent[j] => i = j
    /\ Len(queue) = IF Len(recent) < WARM_PAGES THEN Len(recent) ELSE WARM_PAGES
    /\ \A i \in 1 .. Len(queue) : queue[i] = recent[i]

LruInv == QueueInv /\ QueueIsPrefix

\* What p's use does to the list, as one of two rearrangements.
LEMMA UsedFacts ==
    ASSUME LruInv, NEW p \in Pages, Used(p)
    PROVE  /\ Len(recent) \in Nat /\ recent' \in Seq(Pages)
           /\ \A i, j \in 1 .. Len(recent') : recent'[i] = recent'[j] => i = j
           /\ \/ \E i \in 1 .. Len(recent) :
                    /\ recent[i] = p /\ Len(recent') = Len(recent)
                    /\ \A k \in 1 .. Len(recent) : recent'[k] =
                          IF k = 1 THEN p ELSE IF k <= i THEN recent[k - 1] ELSE recent[k]
              \/ /\ \A i \in 1 .. Len(recent) : recent[i] # p
                 /\ Len(recent') = Len(recent) + 1
                 /\ \A k \in 1 .. Len(recent) + 1 : recent'[k] =
                       IF k = 1 THEN p ELSE recent[k - 1]
  <1>1. /\ Len(recent) \in Nat /\ \A i \in 1 .. Len(recent) : recent[i] \in Pages
        /\ \A i, j \in 1 .. Len(recent) : recent[i] = recent[j] => i = j
    BY DEF LruInv, QueueIsPrefix
  <1>2. ASSUME NEW i \in 1 .. Len(recent), recent[i] = p, recent' = ToFront(recent, i)
        PROVE  /\ recent' \in Seq(Pages) /\ Len(recent') = Len(recent)
               /\ \A k \in 1 .. Len(recent) : recent'[k] =
                     IF k = 1 THEN p ELSE IF k <= i THEN recent[k - 1] ELSE recent[k]
               /\ \A j, k \in 1 .. Len(recent') : recent'[j] = recent'[k] => j = k
    <2>1. /\ recent' \in Seq(Pages) /\ Len(recent') = Len(recent)
          /\ \A k \in 1 .. Len(recent) : recent'[k] =
                IF k = 1 THEN p ELSE IF k <= i THEN recent[k - 1] ELSE recent[k]
      BY <1>1, <1>2 DEF ToFront
    <2> DEFINE From(k) == IF k = 1 THEN i ELSE IF k <= i THEN k - 1 ELSE k
    <2>2. \A k \in 1 .. Len(recent) : From(k) \in 1 .. Len(recent) /\ recent'[k] = recent[From(k)]
      BY <1>1, <1>2, <2>1
    <2>3. \A j, k \in 1 .. Len(recent) : From(j) = From(k) => j = k
      BY <1>1, <1>2
    <2>4. \A j, k \in 1 .. Len(recent) : recent'[j] = recent'[k] => From(j) = From(k)
      <3> HIDE DEF From
      <3> QED BY <1>1, <2>2
    <2> HIDE DEF From
    <2>5. \A j, k \in 1 .. Len(recent') : recent'[j] = recent'[k] => j = k
      BY <2>1, <2>3, <2>4
    <2> QED BY <2>1, <2>5
  <1>3. ASSUME \A i \in 1 .. Len(recent) : recent[i] # p, recent' = PushFront(recent, p)
        PROVE  /\ recent' \in Seq(Pages) /\ Len(recent') = Len(recent) + 1
               /\ \A k \in 1 .. Len(recent) + 1 : recent'[k] =
                     IF k = 1 THEN p ELSE recent[k - 1]
               /\ \A j, k \in 1 .. Len(recent') : recent'[j] = recent'[k] => j = k
    <2>1. /\ recent' \in Seq(Pages) /\ Len(recent') = Len(recent) + 1
          /\ \A k \in 1 .. Len(recent) + 1 : recent'[k] =
                IF k = 1 THEN p ELSE recent[k - 1]
      BY <1>1, <1>3 DEF PushFront
    <2> DEFINE n == Len(recent)
    <2>2. n \in Nat /\ Len(recent') = n + 1
      BY <1>1, <2>1
    <2>3. recent'[1] = p /\ \A k \in 2 .. n + 1 : k - 1 \in 1 .. n /\ recent'[k] = recent[k - 1]
      BY <2>1, <2>2
    <2>4. \A k \in 2 .. n + 1 : recent'[k] # p
      BY <1>3, <2>3
    <2>5. \A j, k \in 2 .. n + 1 : recent'[j] = recent'[k] => j - 1 = k - 1
      BY <1>1, <2>3
    <2> HIDE DEF n
    <2>6. \A j, k \in 1 .. n + 1 : recent'[j] = recent'[k] => j = k
      <3> SUFFICES ASSUME NEW j \in 1 .. n + 1, NEW k \in 1 .. n + 1, recent'[j] = recent'[k]
                   PROVE  j = k
        OBVIOUS
      <3>1. (j = 1 \/ j \in 2 .. n + 1) /\ (k = 1 \/ k \in 2 .. n + 1)
        BY <2>2
      <3>2. CASE j = 1 \/ k = 1
        BY <2>3, <2>4, <3>1, <3>2
      <3>3. CASE j \in 2 .. n + 1 /\ k \in 2 .. n + 1
        <4>1. j - 1 = k - 1 /\ j \in Nat /\ k \in Nat
          BY <2>2, <2>5, <3>3
        <4> QED BY <4>1
      <3> QED BY <3>1, <3>2, <3>3
    <2> QED BY <2>1, <2>2, <2>6
  <1> QED BY <1>1, <1>2, <1>3 DEF Used

LEMMA HitKeepsPrefix ==
    ASSUME LruInv, PageQueueAssumption, NEW p \in Pages, Hit(p), Used(p)
    PROVE  QueueIsPrefix'
  <1> DEFINE n == Position(p)
  <1>1. n \in 1 .. Len(queue) /\ queue[n] = p /\ Len(queue) \in Nat
    BY PositionFound, QueueElements DEF Hit, LruInv, QueueInv
  <1>2. /\ Len(queue') = Len(queue)
        /\ \A k \in 1 .. Len(queue) : queue'[k] =
              IF k = 1 THEN p ELSE IF k <= n THEN queue[k - 1] ELSE queue[k]
    BY <1>1, ToFrontFacts DEF Hit, LruInv, QueueInv
  <1>3. /\ Len(recent) \in Nat /\ Len(queue) <= Len(recent)
        /\ \A k \in 1 .. Len(queue) : queue[k] = recent[k] /\ k \in 1 .. Len(recent)
    BY <1>1 DEF LruInv, QueueIsPrefix, PageQueueAssumption
  <1>4. /\ Len(recent') = Len(recent)
        /\ \A k \in 1 .. Len(recent) : recent'[k] =
              IF k = 1 THEN p ELSE IF k <= n THEN recent[k - 1] ELSE recent[k]
    <2>1. n \in 1 .. Len(recent) /\ recent[n] = p
      BY <1>1, <1>3
    <2>2. \A i \in 1 .. Len(recent) : recent[i] = p => i = n
      BY <2>1 DEF LruInv, QueueIsPrefix
    <2> QED BY <2>1, <2>2, UsedFacts
  <1>5. \A k \in 1 .. Len(queue') : queue'[k] = recent'[k]
    <2>1. ASSUME NEW k \in 1 .. Len(queue)
          PROVE  queue'[k] = recent'[k]
      <3>1. k \in 1 .. Len(recent) /\ queue[k] = recent[k]
        BY <1>3
      <3>2. k # 1 => queue[k - 1] = recent[k - 1]
        <4>1. k # 1 => k - 1 \in 1 .. Len(queue)
          BY <1>1
        <4> QED BY <4>1, <1>3
      <3> QED BY <3>1, <3>2, <1>2, <1>4
    <2> QED BY <2>1, <1>2
  <1> QED BY <1>2, <1>4, <1>5, UsedFacts DEF LruInv, QueueIsPrefix

LEMMA FillKeepsPrefix ==
    ASSUME LruInv, PageQueueAssumption, NEW p \in Pages, Fill(p), Used(p)
    PROVE  QueueIsPrefix'
  <1>1. /\ Len(queue) \in Nat /\ Len(queue) < WARM_PAGES /\ WARM_PAGES \in Nat
        /\ Len(recent) \in Nat
    BY QueueElements, UsedFacts
    DEF Fill, AreAllFramesFull, LruInv, QueueInv, QueueConsistent, PageQueueAssumption
  <1>2. Len(recent) = Len(queue) /\ \A k \in 1 .. Len(recent) : queue[k] = recent[k]
    BY <1>1 DEF LruInv, QueueIsPrefix
  <1>3. \A k \in 1 .. Len(recent) : recent[k] # p
    BY <1>2 DEF Fill, LruInv, QueueInv, QueueConsistent
  <1>4. /\ Len(recent') = Len(recent) + 1
        /\ \A k \in 1 .. Len(recent) + 1 : recent'[k] =
              IF k = 1 THEN p ELSE recent[k - 1]
    BY <1>3, UsedFacts
  <1>5. /\ Len(queue') = Len(queue) + 1
        /\ \A k \in 1 .. Len(queue) + 1 : queue'[k] =
              IF k = 1 THEN p ELSE queue[k - 1]
    BY PushFrontFacts DEF Fill, LruInv, QueueInv
  <1>6. \A k \in 1 .. Len(queue') : queue'[k] = recent'[k]
    <2> TAKE k \in 1 .. Len(queue')
    <2>1. CASE k = 1
      BY <2>1, <1>1, <1>2, <1>4, <1>5
    <2>2. CASE k > 1
      <3>1. k - 1 \in 1 .. Len(recent) /\ queue[k - 1] = recent[k - 1]
        BY <2>2, <1>1, <1>2, <1>5
      <3> QED BY <3>1, <2>2, <1>1, <1>2, <1>4, <1>5
    <2> QED BY <2>1, <2>2, <1>1, <1>5
  <1>7. Len(queue') = IF Len(recent') < WARM_PAGES THEN Len(recent') ELSE WARM_PAGES
    BY <1>1, <1>2, <1>4, <1>5
  <1> QED BY <1>6, <1>7, UsedFacts DEF QueueIsPrefix

LEMMA ReplaceKeepsPrefix ==
    ASSUME LruInv, PageQueueAssumption, NEW p \in Pages, Replace(p), Used(p)
    PROVE  QueueIsPrefix'
  <1>1. /\ Len(queue) = WARM_PAGES /\ WARM_PAGES \in Nat \ {0} /\ Len(recent) \in Nat
        /\ Len(recent) >= WARM_PAGES
        /\ \A k \in 1 .. WARM_PAGES : queue[k] = recent[k] /\ k \in 1 .. Len(recent)
    BY UsedFacts
    DEF Replace, AreAllFramesFull, LruInv, QueueIsPrefix, PageQueueAssumption
  <1>2. /\ Len(queue') = WARM_PAGES
        /\ \A k \in 1 .. WARM_PAGES : queue'[k] = IF k = 1 THEN p ELSE queue[k - 1]
    BY <1>1, RotateFacts DEF Replace, LruInv, QueueInv
  <1>3. \A k \in 1 .. WARM_PAGES : recent[k] # p
    BY <1>1 DEF Replace, LruInv, QueueInv, QueueConsistent
  <1>4. /\ Len(recent') \in Nat /\ Len(recent') >= WARM_PAGES
        /\ \A k \in 1 .. WARM_PAGES : recent'[k] = IF k = 1 THEN p ELSE recent[k - 1]
    <2>1. CASE \E i \in 1 .. Len(recent) :
                  /\ recent[i] = p /\ Len(recent') = Len(recent)
                  /\ \A k \in 1 .. Len(recent) : recent'[k] =
                        IF k = 1 THEN p ELSE IF k <= i THEN recent[k - 1] ELSE recent[k]
      <3>1. PICK i \in 1 .. Len(recent) :
                  /\ recent[i] = p /\ Len(recent') = Len(recent)
                  /\ \A k \in 1 .. Len(recent) : recent'[k] =
                        IF k = 1 THEN p ELSE IF k <= i THEN recent[k - 1] ELSE recent[k]
        BY <2>1
      <3>2. i > WARM_PAGES
        BY <3>1, <1>1, <1>3
      <3> QED BY <3>1, <3>2, <1>1
    <2>2. CASE /\ Len(recent') = Len(recent) + 1
               /\ \A k \in 1 .. Len(recent) + 1 : recent'[k] =
                     IF k = 1 THEN p ELSE recent[k - 1]
      BY <2>2, <1>1
    <2> QED BY <2>1, <2>2, UsedFacts
  <1>5. \A k \in 1 .. Len(queue') : queue'[k] = recent'[k]
    BY <1>1, <1>2, <1>4
  <1>6. Len(queue') = IF Len(recent') < WARM_PAGES THEN Len(recent') ELSE WARM_PAGES
    BY <1>1, <1>2, <1>4
  <1> QED BY <1>5, <1>6, UsedFacts DEF QueueIsPrefix

\* The invariant of the queue together with the record of uses.
THEOREM LruSpecInv == LruSpec => []LruInv
  <1>1. LruInit => LruInv
    <2> SUFFICES ASSUME LruInit PROVE LruInv
      OBVIOUS
    <2>1. QueueInv
      BY QueueInitInv, PageQueueAssumption DEF LruInit
    <2> QED BY <2>1, PageQueueAssumption DEF LruInit, QueueInit, LruInv, QueueIsPrefix
  <1>2. LruInv /\ [LruNext]_<<queueVars, recent>> => LruInv'
    <2> SUFFICES ASSUME LruInv, [LruNext]_<<queueVars, recent>>
                 PROVE  LruInv'
      OBVIOUS
    <2> USE PageQueueAssumption
    <2>1. ASSUME NEW p \in Pages, Hit(p), Used(p) PROVE LruInv'
      BY <2>1, HitKeepsQueueInv, HitKeepsPrefix DEF LruInv
    <2>2. ASSUME NEW p \in Pages, Fill(p), Used(p) PROVE LruInv'
      BY <2>2, FillKeepsQueueInv, FillKeepsPrefix DEF LruInv
    <2>3. ASSUME NEW p \in Pages, Replace(p), Used(p) PROVE LruInv'
      BY <2>3, ReplaceKeepsQueueInv, ReplaceKeepsPrefix DEF LruInv
    <2>4. CASE QueueReset /\ recent' = << >>
      <3>1. QueueInv'
        BY <2>4, ResetKeepsQueueInv DEF LruInv
      <3> QED BY <2>4, <3>1 DEF QueueReset, LruInv, QueueIsPrefix, PageQueueAssumption
    <2>5. CASE UNCHANGED <<queueVars, recent>>
      BY <2>5 DEF queueVars, LruInv, QueueInv, QueueTypeOK, QueueConsistent,
                  StuckInFront, QueueIsPrefix
    <2> QED BY <2>1, <2>2, <2>3, <2>4, <2>5 DEF LruNext
  <1> QED BY <1>1, <1>2, PTL DEF LruSpec

\* Without mappings the frames hold the most recently used pages, whatever the
\* order of the uses (vmem.c:274-308).
THEOREM SpecKeepsMostRecent == LruSpec => []KeepsMostRecent
  <1>1. LruInv => KeepsMostRecent
    <2> SUFFICES ASSUME LruInv PROVE KeepsMostRecent
      OBVIOUS
    <2> DEFINE First == {i \in 1 .. Len(recent) : i <= WARM_PAGES}
    <2>1. hash = {queue[i] : i \in 1 .. Len(queue)}
      BY DEF LruInv, QueueInv, QueueConsistent
    <2>2. First = 1 .. Len(queue)
      BY PageQueueAssumption DEF LruInv, QueueIsPrefix, PageQueueAssumption
    <2>3. \A i \in 1 .. Len(queue) : queue[i] = recent[i]
      BY DEF LruInv, QueueIsPrefix
    <2> QED BY <2>1, <2>2, <2>3 DEF KeepsMostRecent
  <1> QED BY <1>1, LruSpecInv, PTL

--------------------------------------------------------------------------------

\* IInv contains the invariant of the queue.
LEMMA IInvQueue == IInv => QueueInv
  BY DEF IInv, QueueInv, TypeOK

\* A cached page has a frame, and its content has the type of a page.
LEMMA CachedSlot ==
    ASSUME IInv, NEW p \in hash
    PROVE  /\ slot[p] \in Slots
           /\ warm[slot[p]] \in Data
           /\ p \in Pages
  BY DEF IInv, TypeOK, QueueTypeOK, FramesConsistent

LEMMA LoadedType ==
    ASSUME IInv, NEW p \in Pages
    PROVE  Loaded(p) \in Data
  BY AESCtrAssumption DEF Loaded, IInv, TypeOK

LEMMA FrameType ==
    ASSUME IInv, NEW p \in Pages
    PROVE  Frame(p) \in Data
  BY CachedSlot, LoadedType DEF Frame

\* The integrity check of Enqueue passes.
LEMMA VerifyPasses ==
    ASSUME IInv, NEW p \in Pages \ hash
    PROVE  Verify(p) = "no"
  BY DEF IInv, ColdIntact, Verify

--------------------------------------------------------------------------------
(* ReferencePage and the invariant: one lemma per way it can succeed. *)

LEMMA HitKeepsIInv ==
    ASSUME IInv, NEW p \in Pages, NEW d \in Data, Hit(p),
           warm' = [warm EXCEPT ![slot[p]] = d],
           UNCHANGED <<slot, cold, hashes, free_warm, halted>>,
           zero_page' \in Data, buf' \in Data
    PROVE  IInv'
  <1>1. QueueInv'
    BY IInvQueue, HitKeepsQueueInv, PageQueueAssumption
  <1>2. hash' = hash /\ Len(queue') = Len(queue)
    <2>1. Position(p) \in 1 .. Len(queue)
      BY IInvQueue, PositionFound DEF Hit
    <2> QED BY <2>1, IInvQueue, ToFrontFacts DEF Hit, QueueInv
  <1>3. TypeOK'
    BY <1>1, CachedSlot DEF Hit, IInv, TypeOK, QueueInv
  <1>4. FramesConsistent' /\ ColdIntact' /\ HashesOnlyIfBuilt' /\ NoHashMismatch'
    BY <1>2 DEF IInv, FramesConsistent, ColdIntact, HashesOnlyIfBuilt,
                NoHashMismatch
  <1> QED BY <1>1, <1>3, <1>4 DEF IInv, QueueInv

LEMMA FillKeepsIInv ==
    ASSUME IInv, NEW p \in Pages, NEW d \in Data, Fill(p),
           slot' = [slot EXCEPT ![p] = GetFreeWarm(free_warm)],
           free_warm' = NextHint(free_warm),
           warm' = [warm EXCEPT ![GetFreeWarm(free_warm)] = d],
           halted' = Verify(p),
           UNCHANGED <<cold, hashes>>,
           zero_page' \in Data, buf' \in Data
    PROVE  IInv'
  <1>1. QueueInv'
    BY IInvQueue, FillKeepsQueueInv, PageQueueAssumption
  <1>2. /\ Len(queue) \in Nat /\ Len(queue) < WARM_PAGES
        /\ Len(queue') = Len(queue) + 1
        /\ hash' = hash \cup {p} /\ p \notin hash
    <2>1. Len(queue) \in Nat /\ Len(queue) <= WARM_PAGES
      BY IInvQueue, QueueElements DEF QueueInv, QueueConsistent
    <2> QED BY <2>1, IInvQueue, PushFrontFacts, PageQueueAssumption
            DEF Fill, AreAllFramesFull, QueueInv
  <1>3. /\ free_warm = Len(queue) /\ \A r \in hash : slot[r] < free_warm
    BY <1>2 DEF IInv, FramesConsistent
  <1>4. /\ GetFreeWarm(free_warm) = free_warm /\ NextHint(free_warm) = free_warm + 1
        /\ free_warm \in Slots /\ free_warm # NoSlot
    BY <1>2, <1>3, PageQueueAssumption DEF GetFreeWarm, NextHint, Slots, NoSlot
  <1>5. halted' = "no"
    BY <1>2, VerifyPasses
  <1>6. TypeOK'
    BY <1>1, <1>2, <1>3, <1>4, <1>5, PageQueueAssumption
    DEF IInv, TypeOK, QueueInv, Residues
  <1>7. FramesConsistent'
    <2>1. \A r \in Pages : slot'[r] = IF r = p THEN free_warm ELSE slot[r]
      BY <1>4 DEF IInv, TypeOK
    <2>2. \A r \in Pages : r \in hash' <=> slot'[r] # NoSlot
      BY <2>1, <1>2, <1>4 DEF IInv, FramesConsistent
    <2>3. \A r \in hash : r \in Pages /\ slot[r] \in Int
      BY CachedSlot DEF Slots
    <2>4. \A r \in hash' : slot'[r] \in Int /\ slot'[r] < free_warm + 1
      BY <2>1, <2>3, <1>2, <1>3
    <2>5. \A r, t \in hash' : slot'[r] = slot'[t] => r = t
      <3> TAKE r, t \in hash'
      <3>1. CASE r = p \/ t = p
        BY <3>1, <2>1, <2>3, <1>2, <1>3
      <3>2. CASE r # p /\ t # p
        BY <3>2, <2>1, <2>3, <1>2 DEF IInv, FramesConsistent
      <3> QED BY <3>1, <3>2
    <2> QED BY <2>2, <2>4, <2>5, <1>2, <1>3, <1>4 DEF FramesConsistent
  <1>8. ColdIntact' /\ HashesOnlyIfBuilt' /\ NoHashMismatch'
    BY <1>2, <1>5 DEF IInv, ColdIntact, HashesOnlyIfBuilt, NoHashMismatch
  <1> QED BY <1>1, <1>6, <1>7, <1>8 DEF IInv, QueueInv

\* The page at the rear, its frame and what is written back.
LEMMA ReplaceFacts ==
    ASSUME IInv, NEW p \in Pages, Replace(p)
    PROVE  /\ Rear \in hash /\ Rear \in Pages /\ Rear # p /\ p \notin hash
           /\ Len(queue) = WARM_PAGES /\ Len(queue') = WARM_PAGES
           /\ hash' = (hash \ {Rear}) \cup {p}
           /\ slot[Rear] \in Slots /\ slot[Rear] # NoSlot
           /\ GetFreeWarm(slot[Rear]) = slot[Rear]
           /\ NextHint(slot[Rear]) = slot[Rear] + 1
           /\ warm[slot[Rear]] \in Data
  <1>1. Rear \in hash /\ Rear \in Pages
    BY IInvQueue, RearFacts, PageQueueAssumption DEF Replace
  <1>2. slot[Rear] \in Slots /\ warm[slot[Rear]] \in Data
    BY <1>1, CachedSlot
  <1>3. Len(queue') = Len(queue)
    BY IInvQueue, RotateFacts DEF Replace, QueueInv
  <1> QED BY <1>1, <1>2, <1>3, PageQueueAssumption
          DEF Replace, AreAllFramesFull, Slots, NoSlot, GetFreeWarm, NextHint

LEMMA ReplaceKeepsIInv ==
    ASSUME IInv, NEW p \in Pages, NEW d \in Data, Replace(p),
           WriteBack(Rear),
           slot' = [slot EXCEPT ![Rear] = NoSlot, ![p] = GetFreeWarm(slot[Rear])],
           free_warm' = NextHint(slot[Rear]),
           warm' = [warm EXCEPT ![GetFreeWarm(slot[Rear])] = d],
           halted' = Verify(p),
           zero_page' \in Data, buf' \in Data
    PROVE  IInv'
  <1> DEFINE v == Rear
  <1>0. /\ v \in hash /\ v \in Pages /\ v # p /\ p \notin hash
        /\ Len(queue) = WARM_PAGES /\ Len(queue') = WARM_PAGES
        /\ hash' = (hash \ {v}) \cup {p}
        /\ slot[v] \in Slots /\ slot[v] # NoSlot
        /\ GetFreeWarm(slot[v]) = slot[v]
        /\ NextHint(slot[v]) = slot[v] + 1
        /\ warm[slot[v]] \in Data
    BY ReplaceFacts
  <1>1. QueueInv'
    BY IInvQueue, ReplaceKeepsQueueInv, PageQueueAssumption
  <1>2. /\ cold' = [cold EXCEPT ![v] = AESCtr[warm[slot[v]]]]
        /\ hashes' = IF COLD_HASH
                     THEN [hashes EXCEPT ![v] = XXH64[warm[slot[v]]]] ELSE hashes
        /\ slot' = [slot EXCEPT ![v] = NoSlot, ![p] = slot[v]]
        /\ free_warm' = slot[v] + 1
        /\ warm' = [warm EXCEPT ![slot[v]] = d]
    BY <1>0 DEF WriteBack
  <1>3. halted' = "no"
    BY <1>0, VerifyPasses
  <1> HIDE DEF v
  <1>4. TypeOK'
    <2>1. slot[v] + 1 \in 0 .. WARM_PAGES
      BY <1>0, PageQueueAssumption DEF Slots
    <2>2. AESCtr[warm[slot[v]]] \in Data /\ XXH64[warm[slot[v]]] \in Nat
      BY <1>0, AESCtrAssumption, XXH64Assumption
    <2> QED BY <1>0, <1>1, <1>2, <1>3, <2>1, <2>2
            DEF IInv, TypeOK, QueueInv, Residues
  <1>5. FramesConsistent'
    <2>1. \A r \in Pages : slot'[r] =
             IF r = p THEN slot[v] ELSE IF r = v THEN NoSlot ELSE slot[r]
      BY <1>0, <1>2 DEF IInv, TypeOK
    <2>2. \A r \in Pages : r \in hash' <=> slot'[r] # NoSlot
      BY <2>1, <1>0 DEF IInv, FramesConsistent
    <2>3. \A r \in hash : r \in Pages
      BY CachedSlot
    <2>4. \A r, t \in hash' : slot'[r] = slot'[t] => r = t
      BY <2>1, <2>3, <1>0 DEF IInv, FramesConsistent
    <2>5. ~(Len(queue') < WARM_PAGES)
      BY <1>0, PageQueueAssumption
    <2> QED BY <2>2, <2>4, <2>5 DEF FramesConsistent
  <1>6. ColdIntact'
    <2> SUFFICES ASSUME NEW r \in Pages \ hash', hashes'[r] # 0
                 PROVE  hashes'[r] = XXH64[AESCtr[cold'[r]]]
      BY DEF ColdIntact
    <2>1. CASE r = v
      <3>1. COLD_HASH
        BY <2>1, <1>0, <1>2 DEF IInv, HashesOnlyIfBuilt
      <3>2. hashes'[r] = XXH64[warm[slot[v]]] /\ cold'[r] = AESCtr[warm[slot[v]]]
        BY <2>1, <3>1, <1>0, <1>2 DEF IInv, TypeOK
      <3> QED BY <3>2, <1>0, AESCtrAssumption
    <2>2. CASE r # v
      <3>1. hashes'[r] = hashes[r] /\ cold'[r] = cold[r] /\ r \in Pages \ hash
        BY <2>2, <1>0, <1>2 DEF IInv, TypeOK
      <3> QED BY <3>1 DEF IInv, ColdIntact
    <2> QED BY <2>1, <2>2
  <1>7. HashesOnlyIfBuilt' /\ NoHashMismatch'
    BY <1>2, <1>3 DEF IInv, HashesOnlyIfBuilt, NoHashMismatch
  <1> QED BY <1>1, <1>4, <1>5, <1>6, <1>7 DEF IInv, QueueInv

LEMMA ReferenceKeepsIInv ==
    ASSUME IInv, NEW p \in Pages, NEW d \in Data, Reference(p, d),
           zero_page' \in Data, buf' \in Data
    PROVE  IInv'
  BY HitKeepsIInv, FillKeepsIInv, ReplaceKeepsIInv DEF Reference

--------------------------------------------------------------------------------
(* The calls and the invariant. *)

\* An access past the cache leaves queue and frames alone.
LEMMA UnchangedQueueInv ==
    ASSUME QueueInv, UNCHANGED queueVars
    PROVE  QueueInv'
  BY DEF queueVars, QueueInv, QueueTypeOK, QueueConsistent, StuckInFront

LEMMA CopyToKeepsIInv ==
    ASSUME IInv, NEW p \in Pages, NEW d \in Data, CopyTo(p, d)
    PROVE  IInv'
  <1> buf \in Data /\ zero_page \in Data
    BY DEF IInv, TypeOK
  <1>1. CASE p = 0 /\ zero_page' = d /\ UNCHANGED <<queueVars, cacheVars, halted>>
    <2>1. QueueInv'
      BY <1>1, IInvQueue, UnchangedQueueInv
    <2> QED BY <1>1, <2>1 DEF CopyTo, cacheVars, queueVars, IInv, TypeOK, QueueInv,
            FramesConsistent, ColdIntact, HashesOnlyIfBuilt, NoHashMismatch
  <1>2. CASE Reference(p, d) /\ UNCHANGED zero_page
    BY <1>2, ReferenceKeepsIInv DEF CopyTo
  <1>3. CASE /\ cold' = [cold EXCEPT ![p] = AESCtr[d]]
             /\ hashes' = IF COLD_HASH THEN [hashes EXCEPT ![p] = XXH64[d]]
                          ELSE hashes
             /\ UNCHANGED <<queueVars, slot, warm, zero_page, free_warm, halted>>
    <2>1. QueueInv'
      BY <1>3, IInvQueue, UnchangedQueueInv
    <2>2. AESCtr[d] \in Data /\ XXH64[d] \in Nat /\ AESCtr[AESCtr[d]] = d
      BY AESCtrAssumption, XXH64Assumption
    <2>3. TypeOK'
      BY <1>3, <2>1, <2>2 DEF CopyTo, IInv, TypeOK, QueueInv
    <2>4. ColdIntact'
      <3> SUFFICES ASSUME NEW r \in Pages \ hash, hashes'[r] # 0
                   PROVE  hashes'[r] = XXH64[AESCtr[cold'[r]]]
        BY <1>3 DEF ColdIntact, queueVars
      <3>1. CASE r = p
        BY <3>1, <1>3, <2>2 DEF IInv, TypeOK, HashesOnlyIfBuilt
      <3>2. CASE r # p
        BY <3>2, <1>3 DEF IInv, TypeOK, ColdIntact
      <3> QED BY <3>1, <3>2
    <2>5. FramesConsistent' /\ HashesOnlyIfBuilt' /\ NoHashMismatch'
      BY <1>3 DEF queueVars, IInv, FramesConsistent, HashesOnlyIfBuilt,
                  NoHashMismatch
    <2> QED BY <2>1, <2>3, <2>4, <2>5 DEF IInv, QueueInv
  <1> QED BY <1>1, <1>2, <1>3 DEF CopyTo

LEMMA CopyFromKeepsIInv ==
    ASSUME IInv, NEW p \in Pages, CopyFrom(p)
    PROVE  IInv'
  <1> zero_page \in Data /\ cold[p] \in Data
    BY DEF IInv, TypeOK
  <1>1. CASE buf' = zero_page /\ UNCHANGED <<queueVars, cacheVars, halted>>
    <2>1. QueueInv'
      BY <1>1, IInvQueue, UnchangedQueueInv
    <2> QED BY <1>1, <2>1 DEF CopyFrom, cacheVars, queueVars, IInv, TypeOK, QueueInv,
            FramesConsistent, ColdIntact, HashesOnlyIfBuilt, NoHashMismatch
  <1>2. CASE Reference(p, Frame(p)) /\ buf' = Frame(p)
    BY <1>2, FrameType, ReferenceKeepsIInv DEF CopyFrom
  <1>3. CASE /\ buf' = AESCtr[cold[p]]
             /\ halted' = IF COLD_HASH /\ hashes[p] # XXH64[AESCtr[cold[p]]]
                          THEN "intrusion" ELSE "no"
             /\ UNCHANGED <<queueVars, cacheVars>>
    <2>1. QueueInv'
      BY <1>3, IInvQueue, UnchangedQueueInv
    <2>2. buf' \in Data
      BY <1>3, AESCtrAssumption
    <2>3. halted' \in {"no", "intrusion"}
      BY <1>3
    <2> QED BY <1>3, <2>1, <2>2, <2>3 DEF CopyFrom, cacheVars, queueVars, IInv, TypeOK,
            QueueInv, FramesConsistent, ColdIntact, HashesOnlyIfBuilt,
            NoHashMismatch, Residues
  <1> QED BY <1>1, <1>2, <1>3 DEF CopyFrom

LEMMA PageUpKeepsIInv ==
    ASSUME IInv, NEW p \in Pages, PageUp(p)
    PROVE  IInv'
  <1> zero_page' \in Data /\ buf' \in Data
    BY DEF PageUp, IInv, TypeOK
  <1>1. CASE Reference(p, Frame(p))
    BY <1>1, FrameType, ReferenceKeepsIInv
  <1>2. CASE UNCHANGED <<queueVars, cacheVars, halted>>
    <2>1. QueueInv'
      BY <1>2, IInvQueue, UnchangedQueueInv
    <2> QED BY <1>2, <2>1 DEF cacheVars, queueVars, IInv, TypeOK, QueueInv,
            FramesConsistent, ColdIntact, HashesOnlyIfBuilt, NoHashMismatch
  <1> QED BY <1>1, <1>2 DEF PageUp

LEMMA PageDownKeepsIInv ==
    ASSUME IInv, NEW p \in Pages, PageDown(p)
    PROVE  IInv'
  <1>1. UNCHANGED <<cacheVars, zero_page, buf>>
    BY DEF PageDown
  <1>2. CASE DeReferencePage(p) /\ UNCHANGED halted
    <2>1. QueueInv'
      BY <1>2, IInvQueue, DeReferenceKeepsQueueInv, PageQueueAssumption
    <2>2. hash' = hash /\ Len(queue') = Len(queue)
      <3>1. Position(p) \in 1 .. Len(queue)
        BY <1>2, IInvQueue, PositionFound DEF DeReferencePage
      <3> QED BY <3>1, <1>2, IInvQueue, ToRearFacts DEF DeReferencePage, QueueInv
    <2> QED BY <1>1, <1>2, <2>1, <2>2 DEF cacheVars, IInv, TypeOK, QueueInv,
            FramesConsistent, ColdIntact, HashesOnlyIfBuilt, NoHashMismatch
  <1>3. CASE halted' = "null" /\ UNCHANGED queueVars
    <2>1. QueueInv'
      BY <1>3, IInvQueue, UnchangedQueueInv
    <2> QED BY <1>1, <1>3, <2>1 DEF cacheVars, queueVars, IInv, TypeOK, QueueInv,
            FramesConsistent, ColdIntact, HashesOnlyIfBuilt, NoHashMismatch,
            Residues
  <1> QED BY <1>2, <1>3 DEF PageDown

\* cache_reset from any state, and the initial state, which is the same but for
\* buf and halted.
LEMMA CacheResetKeepsIInv ==
    ASSUME IInv, CacheReset
    PROVE  IInv'
  <1>1. QueueInv' /\ Len(queue') = 0 /\ hash' = {}
    BY ResetKeepsQueueInv, PageQueueAssumption DEF CacheReset, QueueReset
  <1>2. TypeOK'
    BY <1>1, AESCtrAssumption, PageQueueAssumption
    DEF CacheReset, IInv, TypeOK, QueueInv
  <1>3. FramesConsistent' /\ ColdIntact' /\ HashesOnlyIfBuilt' /\ NoHashMismatch'
    BY <1>1 DEF CacheReset, IInv, FramesConsistent, ColdIntact, HashesOnlyIfBuilt,
                NoHashMismatch
  <1> QED BY <1>1, <1>2, <1>3 DEF IInv, QueueInv

LEMMA InitIInv == Init => IInv
  <1> SUFFICES ASSUME Init PROVE IInv
    OBVIOUS
  <1>1. QueueInv /\ Len(queue) = 0 /\ hash = {}
    BY QueueInitInv, PageQueueAssumption DEF Init, QueueInit
  <1>2. TypeOK
    BY <1>1, AESCtrAssumption, PageQueueAssumption
    DEF Init, TypeOK, QueueInv, Residues
  <1>3. FramesConsistent /\ ColdIntact /\ HashesOnlyIfBuilt /\ NoHashMismatch
    BY <1>1 DEF Init, FramesConsistent, ColdIntact, HashesOnlyIfBuilt,
                NoHashMismatch
  <1> QED BY <1>1, <1>2, <1>3 DEF IInv, QueueInv

LEMMA StutterKeepsIInv ==
    ASSUME IInv, UNCHANGED vars
    PROVE  IInv'
  <1>1. QueueInv'
    BY IInvQueue, UnchangedQueueInv DEF vars, queueVars
  <1> QED BY <1>1 DEF vars, IInv, TypeOK, QueueInv, FramesConsistent, ColdIntact,
          HashesOnlyIfBuilt, NoHashMismatch

LEMMA NextKeepsIInv == IInv /\ [Next]_vars => IInv'
  <1> SUFFICES ASSUME IInv, [Next]_vars PROVE IInv'
    OBVIOUS
  <1>1. CASE \E p \in Pages, d \in Data : CopyTo(p, d)
    BY <1>1, CopyToKeepsIInv
  <1>2. CASE \E p \in Pages : CopyFrom(p)
    BY <1>2, CopyFromKeepsIInv
  <1>3. CASE \E p \in Pages : PageUp(p)
    BY <1>3, PageUpKeepsIInv
  <1>4. CASE \E p \in Pages : PageDown(p)
    BY <1>4, PageDownKeepsIInv
  <1>5. CASE CacheReset
    BY <1>5, CacheResetKeepsIInv
  <1>6. CASE UNCHANGED vars
    BY <1>6, StutterKeepsIInv
  <1> QED BY <1>1, <1>2, <1>3, <1>4, <1>5, <1>6 DEF Next

--------------------------------------------------------------------------------
\* The invariant holds in every configuration and for pools of every size.
THEOREM SpecIInv == Spec => []IInv
  BY InitIInv, NextKeepsIInv, PTL DEF Spec

\* The state of the engine is well typed (vmem.c:26-31, 85-104).
THEOREM SpecTypeOK == Spec => []TypeOK
  <1>1. IInv => TypeOK
    BY DEF IInv
  <1> QED BY <1>1, SpecIInv, PTL

\* The hash array and the list agree, and the list never outgrows the frames
\* (vmem.c:131-167, 212-272).
THEOREM SpecQueueConsistent == Spec => []QueueConsistent
  <1>1. IInv => QueueConsistent
    BY DEF IInv
  <1> QED BY <1>1, SpecIInv, PTL

\* Marked pages stand in front of the unmarked ones, under every call of the
\* engine (vmem.c:212-334).
THEOREM SpecStuckInFront == Spec => []StuckInFront
  <1>1. IInv => StuckInFront
    BY DEF IInv
  <1> QED BY <1>1, SpecIInv, PTL

\* Frames are never shared and never run out (vmem.c:175-272, 484-498).
THEOREM SpecFrames == Spec => []FramesConsistent
  <1>1. IInv => FramesConsistent
    BY DEF IInv
  <1> QED BY <1>1, SpecIInv, PTL

\* The hash kept for a page outside is that of what it deciphers to
\* (vmem.c:190-201, 408-420).
THEOREM SpecColdIntact == Spec => []ColdIntact
  <1>1. IInv => ColdIntact
    BY DEF IInv
  <1> QED BY <1>1, SpecIInv, PTL

\* Enqueue never spins on a mismatch of hashes (vmem.c:237-250).
THEOREM SpecNoHashMismatch == Spec => []NoHashMismatch
  <1>1. IInv => NoHashMismatch
    BY DEF IInv
  <1> QED BY <1>1, SpecIInv, PTL

\* The engine refuses a page only when all its frames hold marked pages
\* (vmem.c:214-220).
THEOREM SpecRefusal == Spec => []RefusedOnlyWhenAllStuck
  <1>1. IInv => RefusedOnlyWhenAllStuck
    BY IInvQueue, RefusalMeansAllStuck, PageQueueAssumption
  <1> QED BY <1>1, SpecIInv, PTL

--------------------------------------------------------------------------------
(* Marked pages keep their frames. *)

LEMMA ReferenceKeepsStuck ==
    ASSUME IInv, NEW p \in Pages, NEW d \in Data, Reference(p, d),
           NEW r \in Pages, stick[r]
    PROVE  slot'[r] = slot[r]
  <1> r \in hash /\ WARM_FETCH
    BY DEF IInv, StuckInFront
  <1>1. CASE UNCHANGED slot
    BY <1>1
  <1>2. CASE Fill(p) /\ slot' = [slot EXCEPT ![p] = GetFreeWarm(free_warm)]
    BY <1>2 DEF Fill, IInv, TypeOK
  <1>3. CASE Replace(p) /\ slot' = [slot EXCEPT ![Rear] = NoSlot,
                                                ![p] = GetFreeWarm(slot[Rear])]
    BY <1>3 DEF Replace, IInv, TypeOK
  <1> QED BY <1>1, <1>2, <1>3 DEF Reference

\* A page marked `stick' keeps its frame until it is released or everything is
\* reset (vmem.c:212-308).
THEOREM SpecStuckPagesStayPut == Spec => StuckPagesStayPut
  <1> DEFINE Stays == \A p \in Pages : stick[p] /\ slot'[p] # slot[p] => queue' = << >>
  <1>1. IInv /\ [Next]_vars => [Stays]_vars
    <2> SUFFICES ASSUME IInv, Next, NEW r \in Pages, stick[r], slot'[r] # slot[r]
                 PROVE  queue' = << >>
      BY DEF vars
    <2>1. CASE \E p \in Pages, d \in Data : CopyTo(p, d)
      BY <2>1, ReferenceKeepsStuck DEF CopyTo, cacheVars
    <2>2. CASE \E p \in Pages : CopyFrom(p)
      BY <2>2, FrameType, ReferenceKeepsStuck DEF CopyFrom, cacheVars
    <2>3. CASE \E p \in Pages : PageUp(p)
      BY <2>3, FrameType, ReferenceKeepsStuck DEF PageUp, cacheVars
    <2>4. CASE \E p \in Pages : PageDown(p)
      BY <2>4 DEF PageDown, cacheVars
    <2>5. CASE CacheReset
      BY <2>5 DEF CacheReset, QueueReset
    <2> QED BY <2>1, <2>2, <2>3, <2>4, <2>5 DEF Next
  <1>2. QED BY <1>1, SpecIInv, PTL DEF Spec, StuckPagesStayPut

--------------------------------------------------------------------------------
(* The engine implements the page store. *)

\* Referencing page p changes what p holds to d and what no other page holds,
\* wherever the pages were and are.
LEMMA ReferenceContents ==
    ASSUME IInv, COLD_HASH, NEW p \in Pages \ {0}, NEW d \in Data,
           Reference(p, d), UNCHANGED zero_page
    PROVE  /\ Contents' = [Contents EXCEPT ![p] = d]
           /\ Touched' = Touched \cup {p}
           /\ halted' = "no" \/ halted' = halted
  <1> SUFFICES /\ \A r \in Pages \ {0} : Frame(r)' = IF r = p THEN d ELSE Frame(r)
               /\ Touched' = Touched \cup {p}
               /\ halted' = "no" \/ halted' = halted
    BY DEF Contents
  <1>1. CASE /\ Hit(p)
             /\ warm' = [warm EXCEPT ![slot[p]] = d]
             /\ UNCHANGED <<slot, cold, hashes, free_warm, halted>>
    <2>1. \A r \in hash : warm'[slot[r]] = IF r = p THEN d ELSE warm[slot[r]]
      BY <1>1, CachedSlot DEF Hit, IInv, TypeOK, FramesConsistent
    <2>2. hash' = hash /\ p \in hash
      BY <1>1 DEF Hit
    <2> QED BY <1>1, <2>1, <2>2 DEF Frame, Loaded, Touched
  <1>2. CASE /\ Fill(p)
             /\ slot' = [slot EXCEPT ![p] = GetFreeWarm(free_warm)]
             /\ warm' = [warm EXCEPT ![GetFreeWarm(free_warm)] = d]
             /\ halted' = Verify(p)
             /\ UNCHANGED <<cold, hashes>>
    <2>0. hash' = hash \cup {p} /\ p \notin hash
      BY <1>2 DEF Fill
    <2>1. Len(queue) \in Nat /\ Len(queue) < WARM_PAGES
      BY <1>2, IInvQueue, QueueElements, PageQueueAssumption
      DEF Fill, AreAllFramesFull, QueueInv, QueueConsistent
    <2>2. /\ GetFreeWarm(free_warm) = free_warm /\ free_warm \in Slots
          /\ \A r \in hash : slot[r] < free_warm
      BY <2>1, PageQueueAssumption DEF IInv, FramesConsistent, GetFreeWarm, Slots
    <2>3. \A r \in hash : r \in Pages /\ slot[r] \in Slots /\ slot[r] # free_warm
      BY <2>2, CachedSlot DEF Slots
    <2>4. \A r \in hash' : warm'[slot'[r]] = IF r = p THEN d ELSE warm[slot[r]]
      BY <1>2, <2>0, <2>2, <2>3 DEF IInv, TypeOK
    <2>5. halted' = "no"
      BY <1>2, <2>0, VerifyPasses
    <2> QED BY <1>2, <2>0, <2>4, <2>5 DEF Frame, Loaded, Touched
  <1>3. CASE /\ Replace(p)
             /\ WriteBack(Rear)
             /\ slot' = [slot EXCEPT ![Rear] = NoSlot, ![p] = GetFreeWarm(slot[Rear])]
             /\ warm' = [warm EXCEPT ![GetFreeWarm(slot[Rear])] = d]
             /\ halted' = Verify(p)
    <2> DEFINE v == Rear
    <2>0. /\ v \in hash /\ v \in Pages /\ v # p /\ p \notin hash
          /\ hash' = (hash \ {v}) \cup {p}
          /\ slot[v] \in Slots
          /\ GetFreeWarm(slot[v]) = slot[v]
          /\ warm[slot[v]] \in Data
      BY <1>3, ReplaceFacts
    <2>1. /\ cold' = [cold EXCEPT ![v] = AESCtr[warm[slot[v]]]]
          /\ hashes' = [hashes EXCEPT ![v] = XXH64[warm[slot[v]]]]
          /\ slot' = [slot EXCEPT ![v] = NoSlot, ![p] = slot[v]]
          /\ warm' = [warm EXCEPT ![slot[v]] = d]
      BY <1>3, <2>0 DEF WriteBack
    <2>2. halted' = "no"
      BY <1>3, <2>0, VerifyPasses
    <2> HIDE DEF v
    <2>3. \A r \in hash : r \in Pages /\ slot[r] \in Slots /\ (r # v => slot[r] # slot[v])
      BY <2>0, CachedSlot DEF IInv, FramesConsistent
    <2>4. \A r \in hash' : warm'[slot'[r]] = IF r = p THEN d ELSE warm[slot[r]]
      BY <2>0, <2>1, <2>3 DEF IInv, TypeOK
    <2>5. hashes'[v] # 0 /\ AESCtr[cold'[v]] = warm[slot[v]]
      BY <2>0, <2>1, AESCtrAssumption, XXH64Assumption DEF IInv, TypeOK
    <2>6. \A r \in Pages : r # v => hashes'[r] = hashes[r] /\ cold'[r] = cold[r]
      BY <2>0, <2>1 DEF IInv, TypeOK
    <2>7. \A r \in Pages \ {0} : Frame(r)' = IF r = p THEN d ELSE Frame(r)
      <3> TAKE r \in Pages \ {0}
      <3>1. CASE r \in hash'
        BY <3>1, <2>0, <2>4 DEF Frame
      <3>2. CASE r = v
        BY <3>2, <2>0, <2>5 DEF Frame, Loaded
      <3>3. CASE r \notin hash' /\ r # v
        BY <3>3, <2>0, <2>6 DEF Frame, Loaded
      <3> QED BY <3>1, <3>2, <3>3
    <2>8. Touched' = Touched \cup {p}
      BY <2>0, <2>5, <2>6 DEF Touched
    <2> QED BY <2>2, <2>7, <2>8
  <1> QED BY <1>1, <1>2, <1>3 DEF Reference

\* Without WARM_CACHE nothing is ever enqueued.
LEMMA NextKeepsCacheOnlyIfBuilt ==
    CacheOnlyIfBuilt /\ [Next]_vars => CacheOnlyIfBuilt'
  <1> SUFFICES ASSUME CacheOnlyIfBuilt, [Next]_vars, ~WARM_CACHE
               PROVE  hash' = {}
    BY DEF CacheOnlyIfBuilt
  <1>1. hash = {} /\ ~WARM_FETCH
    BY FlagsAssumption DEF CacheOnlyIfBuilt
  <1> QED BY <1>1 DEF Next, vars, CopyTo, CopyFrom, PageUp, PageDown, CacheReset,
          QueueReset, DeReferencePage, queueVars

LEMMA SpecCacheOnlyIfBuilt == Spec => []CacheOnlyIfBuilt
  <1>1. Init => CacheOnlyIfBuilt
    BY DEF Init, QueueInit, CacheOnlyIfBuilt
  <1> QED BY <1>1, NextKeepsCacheOnlyIfBuilt, PTL DEF Spec

\* Initially the engine is an empty store.
LEMMA InitStore == Init => Store!StoreInit
  <1> SUFFICES ASSUME Init PROVE Store!StoreInit
    OBVIOUS
  <1>1. Contents = [p \in Pages |-> zeros]
    BY DEF Init, QueueInit, Contents, Frame, Loaded
  <1>2. Touched = {0}
    BY DEF Init, QueueInit, Touched
  <1> QED BY <1>1, <1>2 DEF Init, Store!StoreInit

LEMMA CopyToWrites ==
    ASSUME IInv, CacheOnlyIfBuilt, COLD_HASH,
           NEW p \in Pages, NEW d \in Data, CopyTo(p, d)
    PROVE  Store!Write(p, d)
  <1> USE DEF CopyTo
  <1>1. CASE p = 0 /\ zero_page' = d /\ UNCHANGED <<queueVars, cacheVars, halted>>
    <2>1. Contents' = [Contents EXCEPT ![p] = d] /\ Touched' = Touched \cup {p}
      BY <1>1 DEF cacheVars, queueVars, Contents, Touched, Frame, Loaded
    <2> QED BY <1>1, <2>1 DEF Store!Write
  <1>2. CASE p # 0 /\ Reference(p, d) /\ UNCHANGED zero_page
    BY <1>2, ReferenceContents DEF Store!Write
  <1>3. CASE /\ p # 0
             /\ Bypass(p)
             /\ cold' = [cold EXCEPT ![p] = AESCtr[d]]
             /\ hashes' = IF COLD_HASH THEN [hashes EXCEPT ![p] = XXH64[d]]
                          ELSE hashes
             /\ UNCHANGED <<queueVars, slot, warm, zero_page, free_warm, halted>>
    <2>1. AESCtr[AESCtr[d]] = d /\ XXH64[d] # 0
      BY AESCtrAssumption, XXH64Assumption
    <2>2. p \notin hash
      BY <1>3 DEF Bypass, Refused, CacheOnlyIfBuilt
    <2>3. \A r \in Pages \ {0} : Frame(r)' = IF r = p THEN d ELSE Frame(r)
      BY <1>3, <2>1, <2>2 DEF queueVars, Frame, Loaded, IInv, TypeOK
    <2>4. Contents' = [Contents EXCEPT ![p] = d]
      BY <1>3, <2>3 DEF Contents
    <2>5. Touched' = Touched \cup {p}
      BY <1>3, <2>1 DEF queueVars, Touched, IInv, TypeOK
    <2> QED BY <1>3, <2>4, <2>5 DEF Store!Write
  <1> QED BY <1>1, <1>2, <1>3

LEMMA CopyFromReads ==
    ASSUME IInv, CacheOnlyIfBuilt, COLD_HASH, NEW p \in Pages, CopyFrom(p)
    PROVE  Store!Read(p) \/ Store!ReadFails(p)
  <1> USE DEF CopyFrom
  <1>1. CASE p = 0 /\ buf' = zero_page /\ UNCHANGED <<queueVars, cacheVars, halted>>
    <2>1. Contents' = Contents /\ Touched' = Touched \cup {p} /\ Contents[p] = zero_page
      BY <1>1 DEF cacheVars, queueVars, Contents, Touched, Frame, Loaded
    <2> QED BY <1>1, <2>1 DEF Store!Read
  <1>2. CASE p # 0 /\ Reference(p, Frame(p)) /\ buf' = Frame(p)
    <2>1. Contents[p] = Frame(p)
      BY <1>2 DEF Contents
    <2>2. Contents' = [Contents EXCEPT ![p] = Frame(p)] /\ Touched' = Touched \cup {p}
          /\ (halted' = "no" \/ halted' = halted)
      BY <1>2, FrameType, ReferenceContents
    <2>3. Contents' = Contents
      BY <2>1, <2>2 DEF Contents
    <2> QED BY <1>2, <2>1, <2>2, <2>3 DEF Store!Read
  <1>3. CASE /\ p # 0
             /\ Bypass(p)
             /\ buf' = AESCtr[cold[p]]
             /\ halted' = IF COLD_HASH /\ hashes[p] # XXH64[AESCtr[cold[p]]]
                          THEN "intrusion" ELSE "no"
             /\ UNCHANGED <<queueVars, cacheVars>>
    <2>1. p \notin hash
      BY <1>3 DEF Bypass, Refused, CacheOnlyIfBuilt
    <2>2. Contents' = Contents /\ Touched' = Touched
      BY <1>3 DEF cacheVars, queueVars, Contents, Touched, Frame, Loaded
    <2>3. AESCtr[cold[p]] \in Data
      BY AESCtrAssumption DEF IInv, TypeOK
    <2>4. CASE hashes[p] # 0
      <3>1. hashes[p] = XXH64[AESCtr[cold[p]]]
        BY <2>1, <2>4 DEF IInv, ColdIntact
      <3>2. Contents[p] = AESCtr[cold[p]] /\ p \in Touched
        BY <1>3, <2>1, <2>4 DEF Contents, Frame, Loaded, Touched
      <3> QED BY <1>3, <2>2, <3>1, <3>2 DEF Store!Read
    <2>5. CASE hashes[p] = 0
      <3>1. p \notin Touched
        BY <1>3, <2>1, <2>5 DEF Touched
      <3>2. halted' = "intrusion"
        BY <1>3, <2>3, <2>5, XXH64Assumption
      <3> QED BY <1>3, <2>2, <2>3, <3>1, <3>2 DEF Store!ReadFails
    <2> QED BY <2>4, <2>5
  <1> QED BY <1>1, <1>2, <1>3

LEMMA PageUpTouches ==
    ASSUME IInv, COLD_HASH, NEW p \in Pages, PageUp(p)
    PROVE  Store!Touch(p) \/ UNCHANGED vars
  <1>1. CASE Reference(p, Frame(p))
    <2>1. Contents[p] = Frame(p)
      BY DEF PageUp, Contents
    <2>2. Contents' = [Contents EXCEPT ![p] = Frame(p)] /\ Touched' = Touched \cup {p}
          /\ (halted' = "no" \/ halted' = halted)
      BY <1>1, FrameType, ReferenceContents DEF PageUp
    <2>3. Contents' = Contents
      BY <2>1, <2>2 DEF Contents
    <2> QED BY <2>2, <2>3 DEF PageUp, Store!Touch
  <1>2. CASE UNCHANGED <<queueVars, cacheVars, halted>>
    BY <1>2 DEF PageUp, queueVars, cacheVars, vars
  <1> QED BY <1>1, <1>2 DEF PageUp

LEMMA PageDownReleases ==
    ASSUME NEW p \in Pages, PageDown(p)
    PROVE  Store!ReleaseFails \/ UNCHANGED <<Contents, Touched, buf, halted>>
  <1>1. hash' = hash /\ UNCHANGED <<cacheVars, zero_page, buf>>
    BY DEF PageDown, DeReferencePage, queueVars
  <1>2. Contents' = Contents /\ Touched' = Touched
    BY <1>1 DEF cacheVars, Contents, Touched, Frame, Loaded
  <1> QED BY <1>1, <1>2 DEF PageDown, Store!ReleaseFails

LEMMA CacheResetEmpties ==
    ASSUME CacheReset
    PROVE  Store!StoreReset
  <1>1. Contents' = [p \in Pages |-> zeros] /\ Touched' = {0}
    BY DEF CacheReset, QueueReset, Contents, Touched, Frame, Loaded
  <1> QED BY <1>1 DEF CacheReset, Store!StoreReset

\* Every step of the engine is a step of the store, or a stutter.
LEMMA NextStore ==
    IInv /\ CacheOnlyIfBuilt /\ COLD_HASH /\ [Next]_vars
        => [Store!StoreNext]_<<Contents, Touched, buf, halted>>
  <1> SUFFICES ASSUME IInv, CacheOnlyIfBuilt, COLD_HASH, [Next]_vars
               PROVE  Store!StoreNext \/ UNCHANGED <<Contents, Touched, buf, halted>>
    OBVIOUS
  <1>0. ASSUME UNCHANGED vars
        PROVE  UNCHANGED <<Contents, Touched, buf, halted>>
    BY <1>0 DEF vars, Contents, Touched, Frame, Loaded
  <1>1. ASSUME NEW p \in Pages, NEW d \in Data, CopyTo(p, d)
        PROVE  Store!StoreNext
    BY <1>1, CopyToWrites DEF CopyTo, Store!StoreNext
  <1>2. ASSUME NEW p \in Pages, CopyFrom(p)
        PROVE  Store!StoreNext
    BY <1>2, CopyFromReads DEF CopyFrom, Store!StoreNext
  <1>3. ASSUME NEW p \in Pages, PageUp(p)
        PROVE  Store!StoreNext \/ UNCHANGED vars
    BY <1>3, PageUpTouches DEF PageUp, Store!StoreNext
  <1>4. ASSUME NEW p \in Pages, PageDown(p)
        PROVE  Store!StoreNext \/ UNCHANGED <<Contents, Touched, buf, halted>>
    BY <1>4, PageDownReleases DEF PageDown, Store!StoreNext
  <1>5. ASSUME CacheReset
        PROVE  Store!StoreNext
    BY <1>5, CacheResetEmpties DEF CacheReset, Store!StoreNext
  <1> QED BY <1>0, <1>1, <1>2, <1>3, <1>4, <1>5 DEF Next

\* With COLD_HASH, in each of the three configurations, the engine is a page
\* store: a page reads as it was last written, and the engine stops only on the
\* read of a page never touched or the release of a page not cached
\* (vmem.c:175-473 together).
THEOREM SpecImplementsBlockStore ==
    ASSUME COLD_HASH
    PROVE  Spec => ImplementsBlockStore
  <1>1. Init => Store!StoreInit
    BY InitStore
  <1>2. IInv /\ CacheOnlyIfBuilt /\ [Next]_vars
           => [Store!StoreNext]_<<Contents, Touched, buf, halted>>
    BY NextStore
  <1>3. QED
    BY <1>1, <1>2, SpecIInv, SpecCacheOnlyIfBuilt, PTL
    DEF Spec, ImplementsBlockStore, Store!StoreSpec, Store!storeVars

================================================================================
