------------------------------ MODULE BtreeProofs ------------------------------
(****************************************************************************)
(* That the steps of balance() and the clearing of a tree keep the inductive  *)
(* invariant of BtreeLemmas, and the properties of Btree that follow from it.  *)
(****************************************************************************)
EXTENDS BtreeLemmas

\* What holds while pages are balanced.
LEMMA BusyIs ==
    ASSUME BtreeInv, Busy
    PROVE  /\ op \in Inserts \cup Deletes /\ op # Idle
           /\ TreeIn(intkey, node, file) /\ Nodes(node) /\ Levelled(node) /\ intkey \in BOOLEAN
           /\ CursorsIn(intkey, node, cur, op) /\ BusyFits(node, cur[w].path, op)
           /\ cur \in [Cursors -> CursorType] /\ w \in Cursors
           /\ IsPath(node, cur[w].path) /\ Depth = Len(cur[w].path) /\ Depth \in Nat \ {0}
           /\ Here = cur[w].path[Depth].pg /\ Here = Last(cur[w].path).pg /\ Here \in DOMAIN node
           /\ OffWay(node, cur[w].path) /\ UpWay(node, cur[w].path, op)
           /\ HereFits(node[Here], Depth, op)
           /\ Taken(node[Here].cell) \in Nat /\ (Overflows(node[Here]) <=> ~Fits(node[Here]))
           /\ nFree(node[Here]) = U - Taken(node[Here].cell)
  <1>1. op # Idle /\ op \in Inserts \cup Deletes
    BY DEF Busy, Idle, BtreeInv
  <1>2. /\ TreeIn(intkey, node, file) /\ CursorsIn(intkey, node, cur, op)
        /\ BusyFits(node, cur[w].path, op) /\ intkey \in BOOLEAN
    BY <1>1, SceneIs DEF BtreeInv
  <1>3. Nodes(node) /\ Levelled(node)
    BY <1>2 DEF TreeIn
  <1>4. IsPath(node, cur[w].path) /\ cur \in [Cursors -> CursorType] /\ w \in Cursors
    BY <1>1, <1>2 DEF CursorsIn, Cursors
  <1>5. /\ Depth = Len(cur[w].path) /\ Depth \in Nat \ {0}
        /\ Here = cur[w].path[Depth].pg /\ Here = Last(cur[w].path).pg /\ Here \in DOMAIN node
    BY <1>4, WayLast DEF IsPath, Depth, Here
  <1>6. /\ OffWay(node, cur[w].path) /\ UpWay(node, cur[w].path, op) /\ HereFits(node[Here], Depth, op)
    BY <1>2, <1>5 DEF BusyFits, PageOn
  <1>7. node[Here].cell \in Seq(CellType)
    BY <1>3, <1>5, NodeIs
  <1>8. Taken(node[Here].cell) \in Nat /\ U \in Nat
    BY <1>7, TakenParts, UIs
  <1>9. nFree(node[Here]) = U - Taken(node[Here].cell)
    BY DEF nFree, Taken
  <1>10. Overflows(node[Here]) <=> ~Fits(node[Here])
    BY <1>8, <1>9 DEF Overflows, Fits
  <1> QED BY <1>1, <1>2, <1>3, <1>4, <1>5, <1>6, <1>8, <1>9, <1>10

\* A page without cells.
LEMMA TakenEmpty == Taken(<< >>) = 0
  <1>1. << >> \in Seq(CellType) /\ Sizes(<< >>) = << >>
    BY DEF Sizes
  <1>2. 0 \in 0 .. Len(<< >>) /\ Len(<< >>) = 0
    OBVIOUS
  <1> QED BY <1>1, <1>2, TakenParts, HeldNone

\* A balanced page has cells, unless it is the root.
LEMMA BalancedIs ==
    ASSUME BtreeInv, Busy, Balanced
    PROVE  /\ Fits(node[Here]) /\ (Depth > 1 => node[Here].cell # << >>)
           /\ \A i \in 1 .. Depth - 1 : node[cur[w].path[i].pg].cell # << >>
  <1>1. /\ Depth = Len(cur[w].path) /\ Depth \in Nat \ {0} /\ Here = cur[w].path[Depth].pg
        /\ UpWay(node, cur[w].path, op) /\ Nodes(node) /\ Here \in DOMAIN node
        /\ Taken(node[Here].cell) \in Nat /\ (Overflows(node[Here]) <=> ~Fits(node[Here]))
        /\ nFree(node[Here]) = U - Taken(node[Here].cell)
    BY BusyIs
  <1>2. Fits(node[Here])
    BY <1>1 DEF Balanced
  <1>3. ASSUME Depth > 1 PROVE node[Here].cell # << >>
    <2>1. U - Taken(node[Here].cell) <= nMin
      BY <1>1, <1>3 DEF Balanced
    <2>2. Taken(node[Here].cell) > 0
      BY <1>1, <2>1, UIs
    <2>3. Taken(<< >>) = 0
      BY TakenEmpty
    <2> QED BY <2>2, <2>3
  <1>4. \A i \in 1 .. Depth - 1 : node[cur[w].path[i].pg].cell # << >>
    BY <1>1, <1>2 DEF UpWay, PageOn
  <1> QED BY <1>2, <1>3, <1>4

\* The cursor goes to another page.
LEMMA GoToIs ==
    ASSUME BtreeInv, Busy, NEW g, NEW way, IsPath(g, way), GoTo(way)
    PROVE  CursorsIn(intkey, g, cur', op) /\ cur'[w].path = way
  <1>1. /\ CursorsIn(intkey, node, cur, op) /\ op # Idle /\ cur \in [Cursors -> CursorType] /\ w \in Cursors
    BY BusyIs
  <1>2. cur' = [cur EXCEPT ![w].path = way] /\ way \in Seq(StepType)
    BY DEF GoTo, IsPath, IsWay
  <1>3. cur[w] \in CursorType
    BY <1>1
  <1>4. cur'[w] = [cur[w] EXCEPT !.path = way] /\ \A c \in Cursors : c # w => cur'[c] = cur[c]
    BY <1>1, <1>2
  <1>5. cur'[w] \in CursorType /\ cur'[w].path = way /\ cur'[w].valid = cur[w].valid
    BY <1>2, <1>3, <1>4, SMTT(30) DEF CursorType
  <1>6. cur' \in [Cursors -> CursorType]
    <2>1. cur' = [c \in Cursors |-> cur'[c]]
      BY <1>1, <1>2
    <2> QED BY <1>1, <1>4, <1>5, <2>1
  <1>7. cur[w].valid \in BOOLEAN /\ cur'[w].valid \in BOOLEAN
    BY <1>3, <1>5 DEF CursorType
  <1>8. ~cur[w].valid
    BY <1>1 DEF CursorsIn
  <1>9. ~cur'[w].valid
    BY <1>5, <1>7, <1>8
  <1> QED BY <1>1, <1>4, <1>5, <1>6, <1>9 DEF CursorsIn

\* After the leaf the page of the deleted entry is balanced.
LEMMA AgainKeeps ==
    ASSUME BtreeInv, balance_again
    PROVE  BtreeInv'
  <1>1. /\ Busy /\ Balanced /\ op.kind = "delete" /\ Depth > op.depth
        /\ GoTo(SubSeq(cur[w].path, 1, op.depth)) /\ UNCHANGED <<scene, writes, node, file, op>>
    BY DEF balance_again, UpTo
  <1>2. /\ op \in Inserts \cup Deletes /\ op # Idle
        /\ TreeIn(intkey, node, file) /\ Nodes(node) /\ Levelled(node)
        /\ IsPath(node, cur[w].path) /\ Depth = Len(cur[w].path) /\ Depth \in Nat \ {0}
        /\ Here = cur[w].path[Depth].pg
        /\ OffWay(node, cur[w].path) /\ UpWay(node, cur[w].path, op) /\ HereFits(node[Here], Depth, op)
    BY <1>1, BusyIs
  <1>3. PICK d : d = op.depth
    OBVIOUS
  <1>4. PICK path : path = cur[w].path
    OBVIOUS
  <1>5. PICK n \in Nat \ {0} : n = Depth
    BY <1>2
  <1>20. d \in Nat \ {0} /\ d < n /\ n = Len(path) /\ IsPath(node, path)
    <2>1. d \in Nat
      BY <1>1, <1>2, <1>3 DEF Inserts, Deletes
    <2>2. d # 0
      BY <1>1, <1>2, <1>3 DEF Inserts, Deletes
    <2>3. n > d
      BY <1>1, <1>3, <1>5
    <2> QED BY <1>2, <1>4, <1>5, <2>1, <2>2, <2>3
  <1>21. d \in 1 .. n /\ d \in 1 .. n - 1 /\ d \in 1 .. d /\ d \in 1 .. Len(path)
    BY <1>20
  <1>22. PICK way : way = SubSeq(path, 1, d)
    OBVIOUS
  <1>6. IsPath(node, way) /\ Len(way) = d /\ \A i \in 1 .. d : way[i] = path[i]
    <2>1. IsWay(node, path, ROOT)
      BY <1>20 DEF IsPath
    <2>2. ASSUME NEW k \in 1 .. Len(path)
          PROVE  /\ IsWay(node, SubSeq(path, 1, k), ROOT) /\ Len(SubSeq(path, 1, k)) = k
                 /\ \A i \in 1 .. k : SubSeq(path, 1, k)[i] = path[i]
      BY <2>1, WayPrefix
    <2>3. IsWay(node, SubSeq(path, 1, d), ROOT) /\ Len(SubSeq(path, 1, d)) = d
          /\ \A i \in 1 .. d : SubSeq(path, 1, d)[i] = path[i]
      BY <1>21, <2>2
    <2> QED BY <1>22, <2>3 DEF IsPath
  <1>7. CursorsIn(intkey, node, cur', op) /\ cur'[w].path = way
    <2>1. GoTo(way)
      BY <1>1, <1>3, <1>4, <1>22
    <2> QED BY <1>1, <1>6, <2>1, GoToIs
  <1>8. /\ Fits(node[Here]) /\ node[Here].cell # << >>
        /\ \A i \in 1 .. n - 1 : node[path[i].pg].cell # << >>
    <2>1. /\ Fits(node[Here]) /\ (Depth > 1 => node[Here].cell # << >>)
          /\ \A i \in 1 .. Depth - 1 : node[cur[w].path[i].pg].cell # << >>
      BY <1>1, BalancedIs
    <2>2. n > 1
      BY <1>20
    <2>3. \A i \in 1 .. n - 1 : node[path[i].pg].cell # << >>
      BY <1>4, <1>5, <2>1
    <2> QED BY <1>5, <2>1, <2>2, <2>3
  <1>9. \A i \in 1 .. n - 1 : Fits(node[path[i].pg]) \/ i = d
    BY <1>2, <1>3, <1>4, <1>20 DEF UpWay, PageOn
  <1>10. \A i \in 1 .. n : i # d => Fits(node[path[i].pg]) /\ node[path[i].pg].cell # << >>
    <2>1. Here = path[n].pg
      BY <1>2, <1>4, <1>5
    <2>2. \A i \in 1 .. n : i = n \/ i \in 1 .. n - 1
      OBVIOUS
    <2> QED BY <1>8, <1>9, <2>1, <2>2
  <1>11. OffWay(node, way)
    <2>1. ASSUME NEW p \in DOMAIN node, \A i \in 1 .. Len(way) : way[i].pg # p
          PROVE  Fits(node[p]) /\ node[p].cell # << >>
      <3>1. CASE \E i \in 1 .. n : path[i].pg = p
        <4>1. PICK i \in 1 .. n : path[i].pg = p
          BY <3>1
        <4>2. i # d
          BY <1>6, <1>21, <2>1, <4>1
        <4> QED BY <1>10, <4>1, <4>2
      <3>2. CASE ~\E i \in 1 .. n : path[i].pg = p
        BY <1>2, <1>4, <1>20, <3>2 DEF OffWay
      <3> QED BY <3>1, <3>2
    <2> QED BY <2>1 DEF OffWay
  <1>12. UpWay(node, way, op)
    <2>1. \A i \in 1 .. d - 1 : i \in 1 .. d /\ i \in 1 .. n /\ i # d
      BY <1>20
    <2>2. \A i \in 1 .. d - 1 : Fits(node[way[i].pg]) /\ node[way[i].pg].cell # << >>
      BY <1>6, <1>10, <2>1
    <2> QED BY <1>6, <2>2 DEF UpWay, PageOn
  <1>13. HereFits(node[path[d].pg], d, op)
    <2>1. node[path[d].pg].cell # << >>
      BY <1>8, <1>21
    <2>2. ~node[path[d].pg].leaf
      BY <1>20, <1>21 DEF IsPath, IsWay
    <2>3. ~op.skipnext
      <3>1. op.skipnext => n = d
        BY <1>1, <1>2, <1>3, <1>5 DEF HereFits
      <3>2. n # d
        BY <1>20
      <3> QED BY <3>1, <3>2
    <2>4. op.kind # "insert"
      BY <1>1
    <2> QED BY <2>1, <2>2, <2>3, <2>4 DEF HereFits
  <1>14. BusyFits(node, way, op)
    <2>1. way[Len(way)] = path[d] /\ Len(way) = d
      BY <1>6, <1>21
    <2> QED BY <1>11, <1>12, <1>13, <2>1 DEF BusyFits, PageOn
  <1>15. TreeLeft(node', file', cur', op')
    BY <1>1, <1>2, <1>7, <1>14 DEF TreeLeft
  <1>16. writes' \in 0 .. scene.writes
    BY <1>1 DEF BtreeInv
  <1> QED BY <1>1, <1>15, <1>16, InvLeft

\* A cursor that is not in the tree is as good in any tree.
LEMMA AwayIs ==
    ASSUME NEW t, NEW c, KeptIn(t, c), c.state \in {"INVALID", "REQUIRESEEK"}, NEW g
    PROVE  SoundIn(t, g, c)
  BY DEF SoundIn

\* When balancing stops every page fits and has cells.
LEMMA DoneFits ==
    ASSUME BtreeInv, Busy, Balanced, op.kind = "delete" => Depth <= op.depth
    PROVE  IdleFits(node)
  <1>1. /\ op \in Inserts \cup Deletes /\ Nodes(node)
        /\ IsPath(node, cur[w].path) /\ Depth = Len(cur[w].path) /\ Depth \in Nat \ {0}
        /\ Here = cur[w].path[Depth].pg
        /\ OffWay(node, cur[w].path) /\ UpWay(node, cur[w].path, op) /\ HereFits(node[Here], Depth, op)
    BY BusyIs
  <1>2. PICK path : path = cur[w].path
    OBVIOUS
  <1>3. PICK n \in Nat \ {0} : n = Depth
    BY <1>1
  <1>4. n = Len(path) /\ Here = path[n].pg /\ path[1].pg = ROOT
    BY <1>1, <1>2, <1>3 DEF IsPath, IsWay
  <1>5. /\ Fits(node[Here]) /\ (n > 1 => node[Here].cell # << >>)
        /\ \A i \in 1 .. n - 1 : node[path[i].pg].cell # << >>
    BY <1>2, <1>3, BalancedIs
  <1>6. \A i \in 1 .. n - 1 : Fits(node[path[i].pg]) \/ (op.kind = "delete" /\ i = op.depth)
    BY <1>1, <1>2, <1>4 DEF UpWay, PageOn
  <1>7. ASSUME NEW i \in 1 .. n - 1, op.kind = "delete" PROVE i # op.depth
    <2>1. PICK d : d = op.depth
      OBVIOUS
    <2>2. n <= d
      BY <1>3, <1>7, <2>1
    <2>3. op \in Deletes
      BY <1>1, <1>7 DEF Inserts
    <2>4. d \in Nat
      BY <2>1, <2>3 DEF Deletes
    <2>5. i # d
      BY <2>2, <2>4
    <2> QED BY <2>1, <2>5
  <1>8. \A i \in 1 .. n - 1 : Fits(node[path[i].pg]) /\ node[path[i].pg].cell # << >>
    BY <1>5, <1>6, <1>7
  <1>9. ASSUME NEW p \in DOMAIN node
        PROVE  Fits(node[p]) /\ (node[p].cell = << >> => p = ROOT /\ node[p].leaf)
    <2>1. CASE \A i \in 1 .. n : path[i].pg # p
      BY <1>1, <1>2, <1>4, <2>1 DEF OffWay
    <2>2. CASE \E i \in 1 .. n - 1 : path[i].pg = p
      BY <1>8, <2>2
    <2>3. CASE path[n].pg = p /\ n > 1
      BY <1>4, <1>5, <2>3
    <2>4. CASE path[n].pg = p /\ n = 1
      BY <1>1, <1>3, <1>4, <1>5, <2>4 DEF HereFits
    <2>5. \A i \in 1 .. n : i = n \/ i \in 1 .. n - 1
      OBVIOUS
    <2>6. n = 1 \/ n > 1
      OBVIOUS
    <2> QED BY <2>1, <2>2, <2>3, <2>4, <2>5, <2>6
  <1> QED BY <1>9 DEF IdleFits

\* A delete that keeps the place of w leaves it on an entry of the leaf.
LEMMA PlaceLeft ==
    ASSUME BtreeInv, Busy, Balanced, op.kind = "delete", Depth <= op.depth
    PROVE  SoundIn(intkey, node, DeletedAt)
  <1>1. /\ op \in Inserts \cup Deletes /\ Nodes(node) /\ intkey \in BOOLEAN
        /\ IsPath(node, cur[w].path) /\ Depth = Len(cur[w].path) /\ Depth \in Nat \ {0}
        /\ Here = Last(cur[w].path).pg /\ Here \in DOMAIN node
        /\ HereFits(node[Here], Depth, op) /\ Taken(node[Here].cell) \in Nat
    BY BusyIs
  <1>2. op \in Deletes
    BY <1>1 DEF Inserts
  <1>3. op.key \in Keys /\ op.skipnext \in BOOLEAN
    BY <1>2 DEF Deletes
  <1>4. CASE op.skipnext
    <2>1. PICK path : path = cur[w].path
      OBVIOUS
    <2>2. PICK cells : cells = node[Here].cell
      OBVIOUS
    <2>3. PICK at : at = op.at
      OBVIOUS
    <2>4. /\ node[Here].leaf /\ U - Taken(cells) <= nMin /\ at \in 1 .. Len(cells) + 1
      BY <1>1, <1>4, <2>2, <2>3 DEF HereFits
    <2>5. Len(cells) \in Nat \ {0}
      <3>1. Taken(cells) > 0
        BY <1>1, <2>2, <2>4, UIs
      <3>2. Taken(<< >>) = 0
        BY TakenEmpty
      <3>3. Len(cells) \in Nat /\ (cells = << >> <=> Len(cells) = 0)
        BY <1>1, <2>2, NodeIs
      <3> QED BY <3>1, <3>2, <3>3
    <2>6. PICK ix : ix = IF at > Len(cells) THEN Len(cells) ELSE at
      OBVIOUS
    <2>7. ix \in 1 .. Len(cells) /\ ix \in Nat
      BY <2>4, <2>5, <2>6
    <2>8. PICK way : way = Front(path) \o <<Step(Here, ix)>>
      OBVIOUS
    <2>9. IsPath(node, way) /\ Last(way) = Step(Here, ix)
      BY <1>1, <2>1, <2>7, <2>8, StepAt
    <2>10. Last(way).pg = Here /\ Last(way).ix = ix
      BY <2>9 DEF Step
    <2>11. EntryIn(intkey, node, way)
      BY <2>2, <2>4, <2>7, <2>9, <2>10 DEF EntryIn
    <2>12. way \in Seq(StepType)
      BY <2>9 DEF IsPath, IsWay
    <2>13. PICK skip \in {-1, 1} : skip = IF at > Len(cells) THEN -1 ELSE 1
      OBVIOUS
    <2>14. DeletedAt = Skipping(At(way), skip)
      BY <1>4, <2>1, <2>2, <2>3, <2>6, <2>8, <2>13 DEF DeletedAt
    <2>15. LET a == At(way) IN
           /\ a \in CursorType /\ a.state = "VALID" /\ a.path = way
           /\ a.skip = 0 /\ a.key = 0 /\ a.valid = FALSE /\ a.last = FALSE
      BY <2>12, AtIs
    <2>16. LET s == Skipping(At(way), skip) IN
           /\ s \in CursorType /\ s.state = "SKIPNEXT" /\ s.path = way /\ s.valid = FALSE
      BY <2>13, <2>15 DEF Skipping, CursorType
    <2> QED BY <2>11, <2>14, <2>16 DEF SoundIn, KeptIn
  <1>5. CASE ~op.skipnext
    <2>1. DeletedAt = Saved(op.key, 0) \/ DeletedAt = Nowhere
      BY <1>5 DEF DeletedAt
    <2>2. Sound(Saved(op.key, 0)) /\ Sound(Nowhere)
      BY <1>3, SavedIs, NowhereIs
    <2>3. SoundIn(intkey, node, Saved(op.key, 0)) /\ SoundIn(intkey, node, Nowhere)
      BY <1>1, <2>2, SoundInIs
    <2> QED BY <2>1, <2>3
  <1> QED BY <1>3, <1>4, <1>5

\* A call returns when every page on the way is balanced.
LEMMA DoneKeeps ==
    ASSUME BtreeInv, balance_done
    PROVE  BtreeInv'
  <1>1. /\ Busy /\ Balanced /\ (op.kind = "delete" => Depth <= op.depth)
        /\ op' = Idle /\ UNCHANGED <<scene, writes, node, file>>
    BY DEF balance_done
  <1>2. PICK to : to = IF op.kind = "insert" THEN InsertedAt(op) ELSE DeletedAt
    OBVIOUS
  <1>3. cur' = [cur EXCEPT ![w] = to]
    BY <1>2 DEF balance_done
  <1>4. /\ op \in Inserts \cup Deletes /\ op # Idle /\ TreeIn(intkey, node, file) /\ Nodes(node)
        /\ CursorsIn(intkey, node, cur, op) /\ cur \in [Cursors -> CursorType] /\ w \in Cursors
    BY <1>1, BusyIs
  <1>5. SoundIn(intkey, node, to)
    <2>1. CASE op.kind = "insert"
      <3>1. op.key \in Keys
        BY <1>4, <2>1 DEF Inserts, Deletes
      <3>2. Sound(Saved(op.key, 0)) /\ Sound(Nowhere)
        BY <3>1, SavedIs, NowhereIs
      <3>3. SoundIn(intkey, node, Saved(op.key, 0)) /\ SoundIn(intkey, node, Nowhere)
        BY <1>4, <3>2, SoundInIs
      <3>4. to = Saved(op.key, 0) \/ to = Nowhere
        BY <1>2, <2>1 DEF InsertedAt
      <3> QED BY <3>3, <3>4
    <2>2. CASE op.kind # "insert"
      <3>1. op.kind = "delete"
        BY <1>1, <2>2 DEF Busy
      <3> QED BY <1>1, <1>2, <2>2, <3>1, PlaceLeft
    <2> QED BY <2>1, <2>2
  <1>6. \A c \in Cursors : c # w => SoundIn(intkey, node, cur[c])
    BY <1>4, AwayIs DEF CursorsIn
  <1>7. to \in CursorType
    BY <1>5 DEF SoundIn, KeptIn
  <1>8. CursorsIn(intkey, node, cur', Idle)
    <2>1. cur' \in [Cursors -> CursorType]
      BY <1>3, <1>4, <1>7
    <2>2. \A c \in Cursors : SoundIn(intkey, node, cur'[c])
      BY <1>3, <1>4, <1>5, <1>6
    <2> QED BY <2>1, <2>2 DEF CursorsIn
  <1>9. IdleFits(node)
    BY <1>1, DoneFits
  <1>10. TreeLeft(node', file', cur', op')
    BY <1>1, <1>4, <1>8, <1>9 DEF TreeLeft
  <1>11. writes' \in 0 .. scene.writes
    BY <1>1 DEF BtreeInv
  <1> QED BY <1>1, <1>10, <1>11, InvLeft

\* The file after pages were added to the tree and others freed.
LEMMA OwnedAnew ==
    ASSUME NEW nd, NEW f, Owned(nd, f), NEW g, NEW h, FileOK(h), OneChain(g), OvfPages(g) = OvfPages(nd),
           NEW add, NEW gone, \A x \in add : x \notin Used(f) /\ x # ROOT,
           \A x \in gone : x \in DOMAIN nd /\ x # ROOT,
           Used(h) = (Used(f) \cup add) \ gone, DOMAIN g = (DOMAIN nd \cup add) \ gone
    PROVE  Owned(g, h)
  <1>1. /\ DOMAIN nd \cap OvfPages(nd) = {} /\ Used(f) = (DOMAIN nd \ {ROOT}) \cup OvfPages(nd)
    BY DEF Owned
  <1>2. PICK ovf : ovf = OvfPages(nd)
    OBVIOUS
  <1>3. \A x \in add : x \notin ovf
    BY <1>1, <1>2
  <1>4. DOMAIN g \cap ovf = {}
    BY <1>1, <1>2, <1>3
  <1>5. Used(h) = (DOMAIN g \ {ROOT}) \cup ovf
    BY <1>1, <1>2
  <1> QED BY <1>2, <1>4, <1>5 DEF Owned

\* A page that is taken is in no tree.
LEMMA TakenIsNew ==
    ASSUME NEW t, NEW nd, NEW f, TreeIn(t, nd, f), NEW a, Taking(f, a)
    PROVE  a.pg \notin DOMAIN nd /\ a.pg # ROOT /\ a.pg \in Nat
  BY DEF TreeIn, Owned, Taking, ROOT

\* The root's cells go to a new page below it.
LEMMA DeeperKeeps ==
    ASSUME BtreeInv, balance_deeper
    PROVE  BtreeInv'
  <1>1. Busy /\ ~Balanced /\ UNCHANGED <<scene, writes, op>> /\ Depth = 1
    BY DEF balance_deeper, BalanceStep
  <1>2. /\ op \in Inserts \cup Deletes /\ op # Idle
        /\ TreeIn(intkey, node, file) /\ Nodes(node) /\ Levelled(node) /\ OneParent(node) /\ Shapes(intkey, node)
        /\ IsPath(node, cur[w].path) /\ Depth = Len(cur[w].path)
        /\ Here = cur[w].path[Depth].pg
        /\ OffWay(node, cur[w].path) /\ HereFits(node[Here], Depth, op)
        /\ (Overflows(node[Here]) <=> ~Fits(node[Here]))
        /\ Owned(node, file)
    BY <1>1, BusyIs DEF TreeIn
  <1>3. Here = ROOT /\ ~Fits(node[ROOT]) /\ ROOT \in DOMAIN node /\ node[ROOT] \in NodeType
    <2>1. Here = ROOT
      BY <1>1, <1>2 DEF IsPath, IsWay
    <2>2. ROOT \in DOMAIN node
      BY <1>2 DEF Nodes
    <2> QED BY <1>1, <1>2, <2>1, <2>2, NodeIs DEF Balanced
  <1>4. PICK new : new = allocateBtreePage(file, ROOT)
    OBVIOUS
  <1>5. PICK q : q = new.pg
    OBVIOUS
  <1>6. PICK g : g = node'
    OBVIOUS
  <1>7. PICK top : top = [leaf |-> FALSE, cell |-> << >>, right |-> q]
    OBVIOUS
  <1>8. /\ file' = new.file /\ GoTo(<<Step(ROOT, 1), Step(q, 1)>>)
        /\ g = WithPage([node EXCEPT ![ROOT] = top], q, node[ROOT])
    BY <1>4, <1>5, <1>6, <1>7 DEF balance_deeper
  <1>9. Taking(file, new)
    <2>1. FileOK(file) /\ ROOT \in Nat
      BY <1>2 DEF Owned, ROOT
    <2> QED BY <1>4, <2>1, PageTaken
  <1>10. q \notin DOMAIN node /\ q # ROOT /\ q \in Nat
    BY <1>2, <1>5, <1>9, TakenIsNew
  <1>11. /\ DOMAIN g = DOMAIN node \cup {q} /\ g[q] = node[ROOT] /\ g[ROOT] = top
         /\ \A p \in DOMAIN node : p # ROOT => g[p] = node[p]
         /\ g = [p \in DOMAIN g |-> g[p]]
    BY <1>3, <1>8, <1>10 DEF WithPage
  <1>12. top \in NodeType /\ top.leaf = FALSE /\ top.cell = << >> /\ top.right = q
    <2>1. << >> \in Seq(CellType) /\ FALSE \in BOOLEAN
      OBVIOUS
    <2> QED BY <1>7, <1>10, <2>1 DEF NodeType
  <1>13. Nodes(g)
    <2>1. \A p \in DOMAIN g : g[p] \in NodeType
      BY <1>2, <1>3, <1>11, <1>12, NodeIs
    <2>2. DOMAIN g \subseteq Nat /\ ROOT \in DOMAIN g
      BY <1>2, <1>10, <1>11 DEF Nodes
    <2> QED BY <1>11, <2>1, <2>2 DEF Nodes
  <1>14. Deepened(node, g, q)
    BY <1>2, <1>10, <1>11, <1>12, <1>13 DEF Deepened
  <1>15. OneParent(g) /\ Levelled(g)
    BY <1>2, <1>14, TreeDeepened
  <1>16. OvfPages(g) = OvfPages(node) /\ OneChain(g)
    <2>1. OneChain(node)
      BY <1>2 DEF Owned
    <2> QED BY <1>14, <2>1, DeepChains
  <1>17. Owned(g, file')
    <2>1. FileOK(file') /\ q \notin Used(file) /\ Used(file') = (Used(file) \cup {q}) \ {}
      BY <1>5, <1>8, <1>9 DEF Taking
    <2>2. DOMAIN g = (DOMAIN node \cup {q}) \ {}
      BY <1>11
    <2>3. PICK add, gone : add = {q} /\ gone = {}
      OBVIOUS
    <2>4. /\ \A x \in add : x \notin Used(file) /\ x # ROOT
          /\ \A x \in gone : x \in DOMAIN node /\ x # ROOT
          /\ Used(file') = (Used(file) \cup add) \ gone /\ DOMAIN g = (DOMAIN node \cup add) \ gone
      BY <1>10, <2>1, <2>2, <2>3
    <2> QED BY <1>2, <1>16, <2>1, <2>4, OwnedAnew
  <1>18. Shapes(intkey, g)
    <2>1. ASSUME NEW p \in DOMAIN g, NEW j \in 1 .. Len(g[p].cell)
          PROVE  CellFits(intkey, g[p].leaf, g[p].cell[j])
      <3>1. CASE p = ROOT
        BY <1>11, <1>12, <2>1, <3>1
      <3>2. CASE p = q
        BY <1>2, <1>3, <1>11, <2>1, <3>2 DEF Shapes
      <3>3. CASE p # ROOT /\ p # q
        BY <1>2, <1>11, <2>1, <3>3 DEF Shapes
      <3> QED BY <3>1, <3>2, <3>3
    <2> QED BY <2>1 DEF Shapes
  <1>19. TreeIn(intkey, g, file')
    BY <1>13, <1>15, <1>17, <1>18 DEF TreeIn
  <1>20. PICK way : way = <<Step(ROOT, 1), Step(q, 1)>>
    OBVIOUS
  <1>21. /\ way \in Seq(StepType) /\ Len(way) = 2 /\ way[1] = Step(ROOT, 1) /\ way[2] = Step(q, 1)
         /\ way[1].pg = ROOT /\ way[1].ix = 1 /\ way[2].pg = q /\ way # << >>
    BY <1>10, <1>20 DEF Step, StepType, ROOT
  <1>22. Child(g[ROOT], 1) = q
    BY <1>11, <1>12 DEF Child
  <1>23. IsPath(g, way)
    <2>1. \A i \in 1 .. 2 : i = 1 \/ i = 2
      OBVIOUS
    <2>2. \A i \in 1 .. Len(way) : way[i].pg \in DOMAIN g
      BY <1>3, <1>11, <1>21, <2>1
    <2>3. \A i \in 1 .. Len(way) - 1 : i = 1 /\ i + 1 = 2
      BY <1>21
    <2>4. ~g[ROOT].leaf /\ 1 \in Turns(g[ROOT])
      BY <1>11, <1>12 DEF Turns
    <2> QED BY <1>21, <1>22, <2>2, <2>3, <2>4 DEF IsPath, IsWay
  <1>24. CursorsIn(intkey, g, cur', op) /\ cur'[w].path = way
    BY <1>1, <1>8, <1>20, <1>23, GoToIs
  <1>25. OffWay(g, way)
    <2>1. ASSUME NEW p \in DOMAIN g, \A i \in 1 .. Len(way) : way[i].pg # p
          PROVE  Fits(g[p]) /\ g[p].cell # << >>
      <3>1. p # ROOT /\ p # q
        BY <1>21, <2>1
      <3>2. p \in DOMAIN node /\ g[p] = node[p]
        BY <1>11, <3>1
      <3>3. \A i \in 1 .. Len(cur[w].path) : cur[w].path[i].pg # p
        BY <1>1, <1>2, <1>3, <3>1
      <3> QED BY <1>2, <3>2, <3>3 DEF OffWay
    <2> QED BY <2>1 DEF OffWay
  <1>26. UpWay(g, way, op)
    <2>1. Fits(g[ROOT])
      BY <1>11, <1>12, TakenEmpty, UIs DEF Fits
    <2>2. ~Fits(g[q])
      BY <1>3, <1>11
    <2>3. \A i \in 1 .. Len(way) - 1 : i = 1
      BY <1>21
    <2> QED BY <1>21, <2>1, <2>2, <2>3 DEF UpWay, PageOn
  <1>27. HereFits(g[q], 2, op)
    BY <1>1, <1>2, <1>3, <1>11 DEF HereFits
  <1>28. BusyFits(g, way, op)
    BY <1>21, <1>25, <1>26, <1>27 DEF BusyFits, PageOn
  <1>29. TreeLeft(node', file', cur', op')
    BY <1>1, <1>2, <1>6, <1>19, <1>24, <1>28 DEF TreeLeft
  <1>30. writes' \in 0 .. scene.writes
    BY <1>1 DEF BtreeInv
  <1> QED BY <1>1, <1>29, <1>30, InvLeft

\* The page above the one that is balanced.
LEMMA AboveIs ==
    ASSUME BtreeInv, Busy, NEW path, path = cur[w].path, NEW n \in Nat \ {0}, n = Depth, n > 1
    PROVE  /\ n = Len(path) /\ IsPath(node, path) /\ path[1].pg = ROOT
           /\ Above = path[n - 1] /\ Above.pg \in DOMAIN node /\ ~node[Above.pg].leaf
           /\ Above.ix \in Turns(node[Above.pg])
           /\ Here = path[n].pg /\ Here \in DOMAIN node /\ Child(node[Above.pg], Above.ix) = Here
           /\ \A i \in 1 .. n : path[i].pg \in DOMAIN node
           /\ \A i \in 1 .. n - 2 : path[i].pg # Above.pg
           /\ \A i \in 1 .. n - 1 : \A j \in Turns(node[Above.pg]) : path[i].pg # Child(node[Above.pg], j)
           /\ \A j \in Turns(node[Above.pg]) : Child(node[Above.pg], j) \in DOMAIN node \ {ROOT}
  <1>1. /\ Nodes(node) /\ Levelled(node) /\ IsPath(node, path) /\ n = Len(path)
        /\ Here = path[n].pg
    BY BusyIs
  <1>2. Above = path[n - 1] /\ n - 1 \in 1 .. n - 1 /\ n - 1 \in 1 .. n /\ n \in 1 .. n /\ (n - 1) + 1 = n
    <2>1. Above = path[n - 1]
      BY DEF Above
    <2> QED BY <2>1
  <1>3. PICK P : P = Above.pg
    OBVIOUS
  <1>4. PICK ix : ix = Above.ix
    OBVIOUS
  <1>5. /\ \A i \in 1 .. n : path[i].pg \in DOMAIN node
        /\ ~node[P].leaf /\ ix \in Turns(node[P]) /\ Child(node[P], ix) = path[n].pg
        /\ path[1].pg = ROOT
    <2>1. /\ \A i \in 1 .. n : path[i].pg \in DOMAIN node
          /\ path[1].pg = ROOT
          /\ \A i \in 1 .. n - 1 :
                /\ ~node[path[i].pg].leaf
                /\ path[i].ix \in Turns(node[path[i].pg])
                /\ Child(node[path[i].pg], path[i].ix) = path[i + 1].pg
      BY <1>1 DEF IsPath, IsWay
    <2>2. /\ ~node[path[n - 1].pg].leaf
          /\ path[n - 1].ix \in Turns(node[path[n - 1].pg])
          /\ Child(node[path[n - 1].pg], path[n - 1].ix) = path[n].pg
      BY <1>2, <2>1
    <2> QED BY <1>2, <1>3, <1>4, <2>1, <2>2
  <1>6. P = path[n - 1].pg /\ P \in DOMAIN node
    BY <1>2, <1>3, <1>5
  <1>7. \A i \in 1 .. n - 2 : path[i].pg # P
    <2>1. \A i, j \in 1 .. n : path[i].pg = path[j].pg => i = j
      BY <1>1, WayOnce DEF IsPath
    <2>2. \A i \in 1 .. n - 2 : i \in 1 .. n /\ i # n - 1
      OBVIOUS
    <2> QED BY <1>2, <1>6, <2>1, <2>2
  <1>8. PICK h, N : Levels(node, h, N)
    BY <1>1 DEF Levelled
  <1>9. \A i \in 1 .. n : h[path[i].pg] + (i - 1) = h[ROOT] /\ h[path[i].pg] \in Nat
    BY <1>1, <1>8, WayLevels DEF IsPath
  <1>10. \A j \in Turns(node[P]) : Child(node[P], j) \in DOMAIN node \ {ROOT} /\ h[Child(node[P], j)] + 1 = h[P]
    BY <1>5, <1>6, <1>8 DEF Levels
  <1>11. \A p \in DOMAIN node : h[p] \in Nat
    BY <1>8 DEF Levels
  <1>12. ASSUME NEW i \in 1 .. n - 1, NEW j \in Turns(node[P]), path[i].pg = Child(node[P], j)
         PROVE FALSE
    <2>1. PICK a : a = h[path[i].pg]
      OBVIOUS
    <2>2. PICK b : b = h[P]
      OBVIOUS
    <2>3. a + 1 = b
      BY <1>10, <1>12, <2>1, <2>2
    <2>4. PICK c : c = h[ROOT]
      OBVIOUS
    <2>5. i \in 1 .. n
      OBVIOUS
    <2>6. a + (i - 1) = c /\ a \in Nat
      BY <1>9, <2>1, <2>4, <2>5
    <2>7. b + ((n - 1) - 1) = c /\ b \in Nat
      BY <1>2, <1>6, <1>9, <2>2, <2>4
    <2> QED BY <2>3, <2>6, <2>7
  <1> QED BY <1>1, <1>2, <1>3, <1>4, <1>5, <1>6, <1>7, <1>10, <1>12

\* What balancing a page leaves for the page above it, with g for the pages.
Rebalanced(g, path, n, o) ==
    /\ \A i \in 1 .. n - 1 : path[i].pg \in DOMAIN g
    /\ \A i \in 1 .. n - 2 : g[path[i].pg] = node[path[i].pg]
    /\ \A p \in DOMAIN g : (\A i \in 1 .. n - 1 : path[i].pg # p) =>
          \/ Fits(g[p]) /\ g[p].cell # << >>
          \/ p \in DOMAIN node /\ p # path[n].pg /\ g[p] = node[p]
    /\ HereFits(g[path[n - 1].pg], n - 1, o)

\* Balancing goes on with the page above.
LEMMA UpOneKeeps ==
    ASSUME BtreeInv, Busy, Depth > 1, NEW g, Rebalanced(g, cur[w].path, Depth, op),
           GoTo(Front(cur[w].path))
    PROVE  CursorsIn(intkey, g, cur', op) /\ BusyFits(g, cur'[w].path, op)
  <1>1. PICK path : path = cur[w].path
    OBVIOUS
  <1>2. PICK n \in Nat \ {0} : n = Depth
    BY BusyIs
  <1>3. n > 1 /\ Rebalanced(g, path, n, op)
    BY <1>1, <1>2
  <1>4. /\ n = Len(path) /\ IsPath(node, path) /\ path[1].pg = ROOT
        /\ \A i \in 1 .. n : path[i].pg \in DOMAIN node
    BY <1>1, <1>2, <1>3, AboveIs
  <1>5. OffWay(node, path) /\ UpWay(node, path, op)
    BY <1>1, BusyIs
  <1>6. PICK up : up = Front(path)
    OBVIOUS
  <1>7. n - 1 \in Nat \ {0} /\ n - 1 \in 1 .. n /\ n - 1 \in 1 .. n - 1 /\ \A i \in 1 .. (n - 1) - 1 : i \in 1 .. n - 2
    BY <1>3
  <1>8. IsWay(node, up, ROOT) /\ Len(up) = n - 1 /\ \A i \in 1 .. n - 1 : up[i] = path[i]
    <2>0. IsWay(node, path, ROOT)
      BY <1>4 DEF IsPath
    <2>1. ASSUME NEW k \in 1 .. Len(path)
          PROVE  /\ IsWay(node, SubSeq(path, 1, k), ROOT) /\ Len(SubSeq(path, 1, k)) = k
                 /\ \A i \in 1 .. k : SubSeq(path, 1, k)[i] = path[i]
      BY <2>0, WayPrefix
    <2>2. n - 1 \in 1 .. Len(path)
      BY <1>4, <1>7
    <2>3. /\ IsWay(node, SubSeq(path, 1, n - 1), ROOT) /\ Len(SubSeq(path, 1, n - 1)) = n - 1
          /\ \A i \in 1 .. n - 1 : SubSeq(path, 1, n - 1)[i] = path[i]
      BY <2>1, <2>2
    <2>4. up = SubSeq(path, 1, n - 1)
      BY <1>4, <1>6 DEF Front
    <2> QED BY <2>3, <2>4
  <1>9. IsPath(g, up)
    <2>1. \A i \in 1 .. Len(up) : up[i].pg \in DOMAIN g
      BY <1>3, <1>8 DEF Rebalanced
    <2>2. \A i \in 1 .. Len(up) - 1 : i \in 1 .. n - 2 /\ i \in 1 .. n - 1
      BY <1>7, <1>8
    <2>3. \A i \in 1 .. Len(up) - 1 : g[up[i].pg] = node[up[i].pg]
      BY <1>3, <1>8, <2>2 DEF Rebalanced
    <2>4. IsWay(g, up, ROOT)
      BY <1>8, <2>1, <2>3, WayKept
    <2> QED BY <2>4 DEF IsPath
  <1>10. CursorsIn(intkey, g, cur', op) /\ cur'[w].path = up
    BY <1>1, <1>6, <1>9, GoToIs
  <1>11. OffWay(g, up)
    <2>1. ASSUME NEW p \in DOMAIN g, \A i \in 1 .. Len(up) : up[i].pg # p
          PROVE  Fits(g[p]) /\ g[p].cell # << >>
      <3>1. \A i \in 1 .. n - 1 : path[i].pg # p
        BY <1>8, <2>1
      <3>2. CASE p \in DOMAIN node /\ p # path[n].pg /\ g[p] = node[p]
        <4>1. \A i \in 1 .. n : i = n \/ i \in 1 .. n - 1
          OBVIOUS
        <4>2. \A i \in 1 .. Len(path) : path[i].pg # p
          BY <1>4, <3>1, <3>2, <4>1
        <4> QED BY <1>5, <3>2, <4>2 DEF OffWay
      <3> QED BY <1>3, <3>1, <3>2 DEF Rebalanced
    <2> QED BY <2>1 DEF OffWay
  <1>12. UpWay(g, up, op)
    <2>1. ASSUME NEW i \in 1 .. Len(up) - 1
          PROVE  /\ Fits(PageOn(g, up, i)) \/ (op.kind = "delete" /\ i = op.depth)
                 /\ PageOn(g, up, i).cell # << >>
      <3>1. i \in 1 .. n - 2 /\ i \in 1 .. n - 1 /\ n # 2
        BY <1>8
      <3>2. PageOn(g, up, i) = node[path[i].pg]
        BY <1>3, <1>8, <3>1 DEF Rebalanced, PageOn
      <3>3. /\ Fits(node[path[i].pg]) \/ (op.kind = "delete" /\ i = op.depth)
            /\ node[path[i].pg].cell = << >> => Len(path) = 2
        BY <1>4, <1>5, <3>1 DEF UpWay, PageOn
      <3> QED BY <1>4, <3>1, <3>2, <3>3
    <2> QED BY <2>1 DEF UpWay
  <1>13. HereFits(PageOn(g, up, Len(up)), Len(up), op)
    BY <1>3, <1>7, <1>8 DEF Rebalanced, PageOn
  <1> QED BY <1>10, <1>11, <1>12, <1>13 DEF BusyFits

\* The assembly is of the pages of nd, with those of S below the page P laid out anew.
PagesOf(A, nd, P, S) == A.P = P /\ A.others = [p \in DOMAIN nd \ (S \cup {P}) |-> nd[p]]

\* Only leaves are divided without giving cells up.
CellsTyped(A) ==
    /\ A.lo \in Seq(CellType) /\ A.hi \in Seq(CellType) /\ A.cells \in Seq(CellType)
    /\ A.leaf \in BOOLEAN /\ A.skip \in 0 .. 1 /\ (A.skip = 0 => A.leaf)
    /\ A.top \in Nat /\ A.right \in Nat

\* The parts of an assembly.
LEMMA PagesOfIs ==
    ASSUME NEW nd, Nodes(nd), NEW P \in DOMAIN nd, NEW S, ROOT \notin S, NEW A, PagesOf(A, nd, P, S), CellsTyped(A)
    PROVE  /\ AssemblyType(A)
           /\ A.P = P /\ DOMAIN A.others = DOMAIN nd \ (S \cup {P})
           /\ \A p \in DOMAIN nd : p \notin S /\ p # P => A.others[p] = nd[p]
  <1>1. A.P = P /\ A.others = [p \in DOMAIN nd \ (S \cup {P}) |-> nd[p]]
    BY DEF PagesOf
  <1>2. /\ DOMAIN A.others = DOMAIN nd \ (S \cup {P})
        /\ \A p \in DOMAIN nd : p \notin S /\ p # P => A.others[p] = nd[p]
    BY <1>1
  <1>3. /\ DOMAIN nd \subseteq Nat /\ ROOT \in DOMAIN nd /\ \A p \in DOMAIN nd : nd[p] \in NodeType
    BY NodeIs DEF Nodes
  <1>4. A.others \in [DOMAIN A.others -> NodeType]
    <2>1. \A p \in DOMAIN nd \ (S \cup {P}) : nd[p] \in NodeType
      BY <1>3
    <2> QED BY <1>1, <2>1
  <1>5. ROOT \in DOMAIN A.others \cup {A.P} /\ DOMAIN A.others \subseteq Nat /\ P \notin DOMAIN A.others /\ P \in Nat
    BY <1>1, <1>2, <1>3
  <1> QED BY <1>1, <1>2, <1>4, <1>5 DEF AssemblyType, CellsTyped

\* The last row of a page goes to a new page.
MovesLast(nd, P, H, q, last, kept, divider, g) ==
    /\ P \in DOMAIN nd /\ H \in DOMAIN nd /\ P # H /\ q \notin DOMAIN nd /\ q \in Nat
    /\ kept \in Seq(CellType) /\ divider \in CellType /\ last \in CellType
    /\ g = WithPage([nd EXCEPT ![H].cell = kept, ![P].cell = Append(@, divider), ![P].right = q],
                    q, Leaf(<<last>>))

\* The pages after that.
MovedLast(nd, P, H, q, last, kept, divider, g) ==
    /\ Nodes(g) /\ DOMAIN g = DOMAIN nd \cup {q}
    /\ \A p \in DOMAIN nd : p # P /\ p # H => g[p] = nd[p]
    /\ g[H].cell = kept /\ g[H].leaf = nd[H].leaf
    /\ g[P].cell = Append(nd[P].cell, divider) /\ g[P].leaf = nd[P].leaf /\ g[P].right = q
    /\ g[q].cell = <<last>> /\ g[q].leaf = TRUE

\* Moving the last cell to a page of its own, page by page.
LEMMA MovesLastIs ==
    ASSUME NEW nd, Nodes(nd), NEW P, NEW H, NEW q, NEW last, NEW kept, NEW divider,
           NEW g, MovesLast(nd, P, H, q, last, kept, divider, g)
    PROVE  MovedLast(nd, P, H, q, last, kept, divider, g)
  <1>1. /\ P \in DOMAIN nd /\ H \in DOMAIN nd /\ P # H /\ q \notin DOMAIN nd /\ q \in Nat
        /\ kept \in Seq(CellType) /\ divider \in CellType /\ last \in CellType
    BY DEF MovesLast
  <1>2. /\ nd[P] \in NodeType /\ nd[H] \in NodeType /\ DOMAIN nd \subseteq Nat /\ ROOT \in DOMAIN nd
        /\ nd = [p \in DOMAIN nd |-> nd[p]] /\ \A p \in DOMAIN nd : nd[p] \in NodeType
    BY <1>1, NodeIs DEF Nodes
  <1>3. PICK e : e = [nd EXCEPT ![H].cell = kept, ![P].cell = Append(@, divider), ![P].right = q]
    OBVIOUS
  <1>4. /\ DOMAIN e = DOMAIN nd /\ e[H] = [nd[H] EXCEPT !.cell = kept]
        /\ e[P] = [nd[P] EXCEPT !.cell = Append(nd[P].cell, divider), !.right = q]
        /\ \A p \in DOMAIN nd : p # P /\ p # H => e[p] = nd[p]
    BY <1>1, <1>2, <1>3 DEF NodeType
  <1>5. g = [p \in DOMAIN nd \cup {q} |-> IF p = q THEN Leaf(<<last>>) ELSE e[p]]
    BY <1>3, <1>4 DEF MovesLast, WithPage
  <1>6. /\ g[H] = [nd[H] EXCEPT !.cell = kept]
        /\ g[P] = [nd[P] EXCEPT !.cell = Append(nd[P].cell, divider), !.right = q]
        /\ g[q] = Leaf(<<last>>)
        /\ \A p \in DOMAIN nd : p # P /\ p # H => g[p] = nd[p]
        /\ DOMAIN g = DOMAIN nd \cup {q} /\ g = [p \in DOMAIN g |-> g[p]]
    BY <1>1, <1>4, <1>5
  <1>7. /\ g[H] \in NodeType /\ g[H].cell = kept /\ g[H].leaf = nd[H].leaf
    BY <1>1, <1>2, <1>6 DEF NodeType
  <1>8. /\ g[P] \in NodeType /\ g[P].cell = Append(nd[P].cell, divider) /\ g[P].leaf = nd[P].leaf /\ g[P].right = q
    <2>1. Append(nd[P].cell, divider) \in Seq(CellType)
      BY <1>1, <1>2 DEF NodeType
    <2> QED BY <1>1, <1>2, <1>6, <2>1 DEF NodeType
  <1>9. g[q] \in NodeType /\ g[q].cell = <<last>> /\ g[q].leaf = TRUE
    <2>1. <<last>> \in Seq(CellType) /\ 0 \in Nat /\ TRUE \in BOOLEAN
      BY <1>1
    <2> QED BY <1>6, <2>1 DEF Leaf, NodeType
  <1>10. \A p \in DOMAIN g : g[p] \in NodeType
    BY <1>2, <1>6, <1>7, <1>8, <1>9
  <1>11. Nodes(g)
    BY <1>1, <1>2, <1>6, <1>10 DEF Nodes
  <1> QED BY <1>6, <1>7, <1>8, <1>9, <1>11 DEF MovedLast

\* The cells of the leaf H below P, with those of P before it.
LeafOf(A, nd, P, H) ==
    /\ PagesOf(A, nd, P, {H}) /\ A.lo = nd[P].cell /\ A.hi = << >> /\ A.cells = nd[H].cell
    /\ A.leaf = TRUE /\ A.skip = 0 /\ A.top \in Nat /\ A.right \in Nat

LastLeaf(nd, P, H) ==
    /\ Nodes(nd) /\ P \in DOMAIN nd /\ H \in DOMAIN nd /\ P # H /\ H # ROOT
    /\ ~nd[P].leaf /\ nd[H].leaf /\ nd[P].right = H

\* They are an assembly.
LEMMA LeafOfIs ==
    ASSUME NEW nd, NEW P, NEW H, LastLeaf(nd, P, H), NEW A, LeafOf(A, nd, P, H)
    PROVE  /\ AssemblyType(A)
           /\ A.P = P /\ DOMAIN A.others = DOMAIN nd \ ({H} \cup {P})
           /\ \A p \in DOMAIN nd : p \notin {H} /\ p # P => A.others[p] = nd[p]
           /\ A.lo = nd[P].cell /\ A.hi = << >> /\ A.cells = nd[H].cell /\ A.leaf = TRUE /\ A.skip = 0
           /\ nd[P].cell \in Seq(CellType) /\ nd[H].cell \in Seq(CellType)
           /\ Len(nd[P].cell) \in Nat /\ Len(nd[H].cell) \in Nat /\ P \in Nat /\ H \in Nat
  <1>1. /\ nd[P].cell \in Seq(CellType) /\ nd[H].cell \in Seq(CellType) /\ << >> \in Seq(CellType)
        /\ Len(nd[P].cell) \in Nat /\ Len(nd[H].cell) \in Nat /\ P \in Nat /\ H \in Nat
    BY NodeIs DEF LastLeaf
  <1>2. /\ A.lo = nd[P].cell /\ A.hi = << >> /\ A.cells = nd[H].cell /\ A.leaf = TRUE /\ A.skip = 0
        /\ A.top \in Nat /\ A.right \in Nat
    BY DEF LeafOf
  <1>3. CellsTyped(A)
    <2>1. A.lo \in Seq(CellType) /\ A.hi \in Seq(CellType) /\ A.cells \in Seq(CellType)
      BY <1>1, <1>2
    <2>2. A.leaf \in BOOLEAN
      BY <1>2
    <2>3. A.skip \in 0 .. 1 /\ (A.skip = 0 => A.leaf)
      BY <1>2
    <2> QED BY <1>2, <2>1, <2>2, <2>3 DEF CellsTyped
  <1>4. PICK S : S = {H}
    OBVIOUS
  <1>5. ROOT \notin S /\ PagesOf(A, nd, P, S) /\ Nodes(nd) /\ P \in DOMAIN nd
    BY <1>4 DEF LastLeaf, LeafOf
  <1>6. /\ AssemblyType(A)
        /\ A.P = P /\ DOMAIN A.others = DOMAIN nd \ (S \cup {P})
        /\ \A p \in DOMAIN nd : p \notin S /\ p # P => A.others[p] = nd[p]
    BY <1>3, <1>5, PagesOfIs
  <1> QED BY <1>1, <1>2, <1>4, <1>6

\* One leaf below P, as an assembly of one page.
LEMMA OneLeaf ==
    ASSUME NEW nd, NEW P, NEW H, LastLeaf(nd, P, H), NEW A, LeafOf(A, nd, P, H)
    PROVE  Assembly(nd, A, 1, [i \in 1 .. 1 |-> H], [i \in 1 .. 2 |-> IF i = 1 THEN 0 ELSE Len(nd[H].cell)])
  <1>1. /\ Nodes(nd) /\ P \in DOMAIN nd /\ H \in DOMAIN nd /\ P # H /\ H # ROOT
        /\ ~nd[P].leaf /\ nd[H].leaf /\ nd[P].right = H
    BY DEF LastLeaf
  <1>2. /\ AssemblyType(A)
        /\ A.P = P /\ DOMAIN A.others = DOMAIN nd \ ({H} \cup {P})
        /\ \A p \in DOMAIN nd : p \notin {H} /\ p # P => A.others[p] = nd[p]
        /\ A.lo = nd[P].cell /\ A.hi = << >> /\ A.cells = nd[H].cell /\ A.leaf = TRUE /\ A.skip = 0
        /\ nd[P].cell \in Seq(CellType) /\ nd[H].cell \in Seq(CellType)
        /\ Len(nd[P].cell) \in Nat /\ Len(nd[H].cell) \in Nat /\ P \in Nat /\ H \in Nat
    BY LeafOfIs
  <1>3. PICK pgs : pgs = [i \in 1 .. 1 |-> H]
    OBVIOUS
  <1>4. PICK st : st = [i \in 1 .. 2 |-> IF i = 1 THEN 0 ELSE Len(nd[H].cell)]
    OBVIOUS
  <1>5. /\ pgs \in [1 .. 1 -> Nat] /\ pgs[1] = H /\ \A i \in 1 .. 1 : i = 1
        /\ st \in [1 .. 1 + 1 -> Nat] /\ st[1] = 0 /\ st[2] = Len(nd[H].cell) /\ 1 + 1 = 2
    BY <1>2, <1>3, <1>4
  <1>6. Assembled(nd, A, 1, pgs, st)
    <2>1. {pgs[i] : i \in 1 .. 1} = {H}
      BY <1>5
    <2>2. DOMAIN nd = DOMAIN A.others \cup {A.P} \cup {pgs[i] : i \in 1 .. 1}
      BY <1>1, <1>2, <2>1
    <2>3. \A i \in 1 .. 1 : pgs[i] # A.P /\ pgs[i] \notin DOMAIN A.others
      BY <1>1, <1>2, <1>5
    <2>4. \A i, j \in 1 .. 1 : pgs[i] = pgs[j] => i = j
      OBVIOUS
    <2>5. \A p \in DOMAIN A.others : nd[p] = A.others[p]
      BY <1>2
    <2> QED BY <1>1, <1>5, <2>2, <2>3, <2>4, <2>5 DEF Assembled
  <1>7. LaidOut(nd, A, 1, pgs, st)
    <2>1. PICK m \in Nat : m = Len(nd[H].cell)
      BY <1>2
    <2>2. st[1 + 1] = st[1] + m + 0 /\ st[1 + 1] = m + 0
      BY <1>5, <2>1
    <2>3. \A x \in 1 .. m : nd[H].cell[x] = A.cells[0 + x]
      BY <1>2
    <2>4. ASSUME NEW i \in 1 .. 1
          PROVE  /\ st[i + 1] = st[i] + Len(nd[pgs[i]].cell) + A.skip
                 /\ nd[pgs[i]].leaf = A.leaf
                 /\ \A x \in 1 .. Len(nd[pgs[i]].cell) : nd[pgs[i]].cell[x] = A.cells[st[i] + x]
                 /\ A.leaf
      <3>1. i = 1
        OBVIOUS
      <3>2. nd[H].leaf = A.leaf /\ A.leaf = TRUE
        BY <1>1, <1>2, NodeIs
      <3>3. pgs[i] = H /\ st[i] = 0 /\ st[i + 1] = st[i] + m + 0
        BY <1>5, <2>2, <3>1
      <3>4. st[i + 1] = st[i] + Len(nd[pgs[i]].cell) + A.skip
        BY <1>2, <2>1, <3>3
      <3>5. \A x \in 1 .. Len(nd[pgs[i]].cell) : nd[pgs[i]].cell[x] = A.cells[st[i] + x]
        BY <2>1, <2>3, <3>3
      <3> QED BY <3>2, <3>3, <3>4, <3>5
    <2> QED BY <1>2, <1>5, <2>1, <2>2, <2>4 DEF LaidOut
  <1>8. Above1(nd, A, 1, pgs, st)
    <2>1. Len(A.hi) = 0
      BY <1>2
    <2>2. PICK d \in Nat : d = Len(nd[P].cell)
      BY <1>2
    <2>3. Child(nd[P], d + 1) = H
      BY <1>1, <2>2 DEF Child
    <2>4. \A x \in 1 .. 0 : FALSE
      OBVIOUS
    <2> QED BY <1>1, <1>2, <1>5, <2>1, <2>2, <2>3, <2>4 DEF Above1
  <1> QED BY <1>2, <1>3, <1>4, <1>6, <1>7, <1>8 DEF Assembly

\* The last cell of the leaf H is to be moved; kept are the others.
Parts(cells, m, kept, last, divider, H) ==
    /\ m = Len(cells) /\ m > 0 /\ last = cells[m]
    /\ Len(kept) = m - 1 /\ \A x \in 1 .. m - 1 : kept[x] = cells[x]
    /\ divider.left = H /\ divider.ovf = << >>

\* The two leaves are an assembly of the same cells.
LEMMA TwoLeaves ==
    ASSUME NEW nd, NEW P, NEW H, LastLeaf(nd, P, H), NEW A, LeafOf(A, nd, P, H),
           NEW q, NEW last, NEW kept, NEW divider, NEW g, MovesLast(nd, P, H, q, last, kept, divider, g),
           NEW m \in Nat, Parts(nd[H].cell, m, kept, last, divider, H)
    PROVE  Assembly(g, A, 2, [i \in 1 .. 2 |-> IF i = 1 THEN H ELSE q],
                    [i \in 1 .. 3 |-> IF i = 1 THEN 0 ELSE IF i = 2 THEN m - 1 ELSE m])
  <1>1. /\ Nodes(nd) /\ P \in DOMAIN nd /\ H \in DOMAIN nd /\ P # H /\ H # ROOT
        /\ ~nd[P].leaf /\ nd[H].leaf /\ nd[P].right = H
    BY DEF LastLeaf
  <1>2. /\ AssemblyType(A)
        /\ A.P = P /\ DOMAIN A.others = DOMAIN nd \ ({H} \cup {P})
        /\ \A p \in DOMAIN nd : p \notin {H} /\ p # P => A.others[p] = nd[p]
        /\ A.lo = nd[P].cell /\ A.hi = << >> /\ A.cells = nd[H].cell /\ A.leaf = TRUE /\ A.skip = 0
        /\ nd[P].cell \in Seq(CellType) /\ nd[H].cell \in Seq(CellType)
        /\ Len(nd[P].cell) \in Nat /\ Len(nd[H].cell) \in Nat /\ P \in Nat /\ H \in Nat
    BY LeafOfIs
  <1>3. /\ Nodes(g) /\ DOMAIN g = DOMAIN nd \cup {q}
        /\ \A p \in DOMAIN nd : p # P /\ p # H => g[p] = nd[p]
        /\ g[H].cell = kept /\ g[H].leaf = nd[H].leaf
        /\ g[P].cell = Append(nd[P].cell, divider) /\ g[P].leaf = nd[P].leaf /\ g[P].right = q
        /\ g[q].cell = <<last>> /\ g[q].leaf = TRUE
    <2>1. Nodes(nd)
      BY <1>1
    <2>2. MovedLast(nd, P, H, q, last, kept, divider, g)
      BY <2>1, MovesLastIs
    <2> QED BY <2>2 DEF MovedLast
  <1>4. /\ m = Len(nd[H].cell) /\ m > 0 /\ last = nd[H].cell[m]
        /\ Len(kept) = m - 1 /\ \A x \in 1 .. m - 1 : kept[x] = nd[H].cell[x]
        /\ divider.left = H /\ divider.ovf = << >>
    BY DEF Parts
  <1>5. q \notin DOMAIN nd /\ q \in Nat /\ q # H /\ q # P
    BY <1>1 DEF MovesLast
  <1>6. PICK pgs : pgs = [i \in 1 .. 2 |-> IF i = 1 THEN H ELSE q]
    OBVIOUS
  <1>7. PICK st : st = [i \in 1 .. 3 |-> IF i = 1 THEN 0 ELSE IF i = 2 THEN m - 1 ELSE m]
    OBVIOUS
  <1>8. /\ pgs \in [1 .. 2 -> Nat] /\ pgs[1] = H /\ pgs[2] = q /\ \A i \in 1 .. 2 : i = 1 \/ i = 2
        /\ {pgs[i] : i \in 1 .. 2} = {H, q}
    <2>1. pgs \in [1 .. 2 -> Nat] /\ pgs[1] = H /\ pgs[2] = q
      BY <1>2, <1>5, <1>6
    <2>2. 1 \in 1 .. 2 /\ 2 \in 1 .. 2 /\ \A i \in 1 .. 2 : i = 1 \/ i = 2
      OBVIOUS
    <2>3. {pgs[i] : i \in 1 .. 2} = {H, q}
      BY <2>1, <2>2
    <2> QED BY <2>1, <2>2, <2>3
  <1>9. st \in [1 .. 2 + 1 -> Nat] /\ st[1] = 0 /\ st[2] = m - 1 /\ st[3] = m /\ 1 + 1 = 2 /\ 2 + 1 = 3
    BY <1>4, <1>7
  <1>10. Assembled(g, A, 2, pgs, st)
    <2>1. DOMAIN g = DOMAIN A.others \cup {A.P} \cup {pgs[i] : i \in 1 .. 2}
      BY <1>1, <1>2, <1>3, <1>8
    <2>2. \A i \in 1 .. 2 : pgs[i] # A.P /\ pgs[i] \notin DOMAIN A.others
      BY <1>1, <1>2, <1>5, <1>8
    <2>3. \A i, j \in 1 .. 2 : pgs[i] = pgs[j] => i = j
      BY <1>5, <1>8
    <2>4. \A p \in DOMAIN A.others : g[p] = A.others[p]
      BY <1>2, <1>3
    <2>5. Nodes(g) /\ 2 \in Nat \ {0} /\ pgs \in [1 .. 2 -> Nat]
      BY <1>3, <1>8
    <2> QED BY <2>1, <2>2, <2>3, <2>4, <2>5 DEF Assembled
  <1>11. LaidOut(g, A, 2, pgs, st)
    <2>1. ASSUME NEW i \in 1 .. 2
          PROVE  /\ st[i + 1] = st[i] + Len(g[pgs[i]].cell) + A.skip
                 /\ g[pgs[i]].leaf = A.leaf
                 /\ \A x \in 1 .. Len(g[pgs[i]].cell) : g[pgs[i]].cell[x] = A.cells[st[i] + x]
                 /\ A.leaf
      <3>1. CASE i = 1
        <4>1. Len(g[pgs[i]].cell) = m - 1 /\ st[i] = 0 /\ st[i + 1] = m - 1
          BY <1>3, <1>4, <1>8, <1>9, <3>1
        <4>2. \A x \in 1 .. m - 1 : kept[x] = A.cells[0 + x]
          BY <1>2, <1>4
        <4>3. g[H].leaf = TRUE
          BY <1>1, <1>3, NodeIs
        <4>4. pgs[i] = H /\ A.leaf = TRUE /\ A.skip = 0
          BY <1>2, <1>8, <3>1
        <4>5. st[i + 1] = st[i] + Len(g[pgs[i]].cell) + A.skip
          BY <4>1, <4>4
        <4>6. g[pgs[i]].leaf = A.leaf /\ A.leaf
          BY <4>3, <4>4
        <4>7. \A x \in 1 .. m - 1 : g[pgs[i]].cell[x] = A.cells[0 + x]
          BY <1>3, <4>2, <4>4
        <4>8. \A x \in 1 .. Len(g[pgs[i]].cell) : g[pgs[i]].cell[x] = A.cells[st[i] + x]
          BY <4>1, <4>7
        <4> QED BY <4>5, <4>6, <4>8
      <3>2. CASE i = 2
        <4>1. Len(<<last>>) = 1 /\ <<last>>[1] = last
          OBVIOUS
        <4>2. Len(g[pgs[i]].cell) = 1 /\ st[i] = m - 1 /\ st[i + 1] = m
          BY <1>3, <1>8, <1>9, <3>2, <4>1
        <4>3. \A x \in 1 .. 1 : x = 1 /\ (m - 1) + x = m
          OBVIOUS
        <4>4. \A x \in 1 .. 1 : g[pgs[i]].cell[x] = A.cells[st[i] + x]
          BY <1>2, <1>3, <1>4, <1>8, <3>2, <4>1, <4>2, <4>3
        <4>5. pgs[i] = q /\ A.leaf = TRUE /\ A.skip = 0
          BY <1>2, <1>8, <3>2
        <4>6. st[i + 1] = st[i] + Len(g[pgs[i]].cell) + A.skip
          BY <4>2, <4>5
        <4>7. g[pgs[i]].leaf = A.leaf /\ A.leaf
          BY <1>3, <4>5
        <4>8. \A x \in 1 .. Len(g[pgs[i]].cell) : g[pgs[i]].cell[x] = A.cells[st[i] + x]
          BY <4>2, <4>4
        <4> QED BY <4>6, <4>7, <4>8
      <3> QED BY <1>8, <3>1, <3>2
    <2>2. st[2 + 1] = Len(A.cells) + A.skip
      BY <1>2, <1>4, <1>9
    <2> QED BY <1>9, <2>1, <2>2 DEF LaidOut
  <1>12. Above1(g, A, 2, pgs, st)
    <2>1. Len(A.hi) = 0 /\ \A x \in 1 .. 0 : FALSE
      BY <1>2
    <2>2. PICK d \in Nat : d = Len(nd[P].cell)
      BY <1>2
    <2>3. PICK up : up = g[P]
      OBVIOUS
    <2>4. /\ Len(up.cell) = d + 1 /\ up.cell[d + 1] = divider /\ \A x \in 1 .. d : up.cell[x] = nd[P].cell[x]
      BY <1>2, <1>3, <2>2, <2>3, SMTT(30)
    <2>5. Child(up, d + 1) = H /\ Child(up, d + 2) = q
      <3>1. d + 1 <= Len(up.cell) /\ ~(d + 2 <= Len(up.cell))
        BY <2>4
      <3> QED BY <1>3, <1>4, <2>3, <2>4, <3>1 DEF Child
    <2>6. \A i \in 1 .. 2 - 1 : i = 1
      OBVIOUS
    <2>7. ~up.leaf
      BY <1>1, <1>3, <2>3
    <2>8. \A i \in 1 .. 2 - 1 : up.cell[d + i].ovf = << >>
      BY <1>4, <2>4, <2>6
    <2>9. \A i \in 1 .. 2 : Child(up, d + i) = pgs[i]
      BY <1>8, <2>5
    <2>10. Len(up.cell) = d + (2 - 1) + 0
      BY <2>4
    <2>11. A.P = P /\ Len(A.lo) = d /\ A.lo = nd[P].cell /\ A.skip # 1
      BY <1>2, <2>2
    <2> QED BY <2>1, <2>3, <2>4, <2>7, <2>8, <2>9, <2>10, <2>11 DEF Above1
  <1> QED BY <1>2, <1>6, <1>7, <1>10, <1>11, <1>12 DEF Assembly

TakesPage(f, a, q) == Taking(f, a) /\ q = a.pg

\* The tree after the last row of the last leaf went to a page of its own.
LEMMA LastMoved ==
    ASSUME NEW nd, NEW f, TreeIn(TRUE, nd, f), NEW P, NEW H, LastLeaf(nd, P, H),
           NEW a, NEW q, TakesPage(f, a, q),
           NEW last, NEW kept, NEW divider, NEW g, MovesLast(nd, P, H, q, last, kept, divider, g),
           NEW m \in Nat, Parts(nd[H].cell, m, kept, last, divider, H), divider.sz = DIVIDER
    PROVE  TreeIn(TRUE, g, a.file)
  <1>1. /\ Nodes(nd) /\ Shapes(TRUE, nd) /\ Levelled(nd) /\ OneParent(nd) /\ Owned(nd, f)
    BY DEF TreeIn
  <1>2. /\ P \in DOMAIN nd /\ H \in DOMAIN nd /\ P # H /\ ~nd[P].leaf /\ nd[H].leaf /\ nd[H].cell \in Seq(CellType)
        /\ nd[P].cell \in Seq(CellType) /\ nd[H].leaf = TRUE /\ nd[P].leaf = FALSE
    BY <1>1, NodeIs DEF LastLeaf
  <1>3. PICK A : A = [P |-> P, others |-> [p \in DOMAIN nd \ ({H} \cup {P}) |-> nd[p]], lo |-> nd[P].cell,
                      hi |-> << >>, cells |-> nd[H].cell, leaf |-> TRUE, skip |-> 0, top |-> 0, right |-> 0]
    OBVIOUS
  <1>4. LeafOf(A, nd, P, H)
    BY <1>3 DEF LeafOf, PagesOf
  <1>5. q = a.pg /\ Taking(f, a)
    BY DEF TakesPage
  <1>7. PICK p1, s1 : Assembly(nd, A, 1, p1, s1)
    BY <1>4, OneLeaf
  <1>8. PICK p2, s2 : Assembly(g, A, 2, p2, s2)
    BY <1>4, TwoLeaves
  <1>9. /\ OneParent(g) /\ Levelled(g)
        /\ OvfPages(g) = OvfPages(nd) /\ OneChain(g)
    <2>1. OneChain(nd)
      BY <1>1 DEF Owned
    <2> QED BY <1>1, <1>7, <1>8, <2>1, LaidOutAnew
  <1>10. /\ Nodes(g) /\ DOMAIN g = DOMAIN nd \cup {q}
         /\ \A p \in DOMAIN nd : p # P /\ p # H => g[p] = nd[p]
         /\ g[H].cell = kept /\ g[H].leaf = nd[H].leaf
         /\ g[P].cell = Append(nd[P].cell, divider) /\ g[P].leaf = nd[P].leaf
         /\ g[q].cell = <<last>> /\ g[q].leaf = TRUE
    <2>1. Nodes(nd)
      BY <1>1
    <2>2. MovedLast(nd, P, H, q, last, kept, divider, g)
      BY <2>1, MovesLastIs
    <2> QED BY <2>2 DEF MovedLast
  <1>11. q \notin DOMAIN nd /\ q # ROOT
    BY <1>5, TakenIsNew
  <1>12. Owned(g, a.file)
    <2>1. PICK add, gone : add = {q} /\ gone = {}
      OBVIOUS
    <2>2. FileOK(a.file) /\ q \notin Used(f) /\ Used(a.file) = Used(f) \cup {q}
      BY <1>5 DEF Taking
    <2>3. /\ \A x \in add : x \notin Used(f) /\ x # ROOT
          /\ \A x \in gone : x \in DOMAIN nd /\ x # ROOT
          /\ Used(a.file) = (Used(f) \cup add) \ gone /\ DOMAIN g = (DOMAIN nd \cup add) \ gone
      BY <1>10, <1>11, <2>1, <2>2
    <2> QED BY <1>1, <1>9, <2>2, <2>3, OwnedAnew
  <1>13. /\ m = Len(nd[H].cell) /\ m > 0 /\ last = nd[H].cell[m]
         /\ Len(kept) = m - 1 /\ \A x \in 1 .. m - 1 : kept[x] = nd[H].cell[x]
         /\ divider.ovf = << >>
    BY DEF Parts
  <1>14. \A x \in 1 .. m : nd[H].cell[x].sz <= U
    BY <1>1, <1>2, <1>13 DEF Shapes, CellFits
  <1>15. Shapes(TRUE, g)
    <2>1. ASSUME NEW p \in DOMAIN g, NEW j \in 1 .. Len(g[p].cell)
          PROVE  CellFits(TRUE, g[p].leaf, g[p].cell[j])
      <3>1. CASE p = H
        <4>1. j \in 1 .. m /\ j \in 1 .. m - 1
          BY <1>10, <1>13, <2>1, <3>1
        <4>2. g[p].cell[j].sz <= U /\ g[p].leaf
          BY <1>2, <1>10, <1>13, <1>14, <3>1, <4>1
        <4> QED BY <4>2 DEF CellFits
      <3>2. CASE p = q
        <4>1. Len(<<last>>) = 1 /\ <<last>>[1] = last
          OBVIOUS
        <4>6. Len(g[p].cell) = 1
          BY <1>10, <3>2, <4>1
        <4>2. j = 1
          BY <2>1, <4>6
        <4>3. m \in 1 .. m
          BY <1>13
        <4>4. g[p].cell[j].sz <= U /\ g[p].leaf
          BY <1>10, <1>13, <1>14, <3>2, <4>1, <4>2, <4>3
        <4> QED BY <4>4 DEF CellFits
      <3>3. CASE p = P
        <4>1. PICK d \in Nat : d = Len(nd[P].cell)
          BY <1>2
        <4>2. Len(g[P].cell) = d + 1 /\ g[P].cell[d + 1] = divider /\ \A x \in 1 .. d : g[P].cell[x] = nd[P].cell[x]
          BY <1>2, <1>10, <4>1
        <4>3. j = d + 1 \/ j \in 1 .. d
          BY <2>1, <3>3, <4>1, <4>2
        <4>4. \A x \in 1 .. d : nd[P].cell[x].sz = DIVIDER /\ nd[P].cell[x].ovf = << >>
          BY <1>1, <1>2, <4>1 DEF Shapes, CellFits
        <4>5. g[P].cell[j].sz = DIVIDER /\ g[P].cell[j].ovf = << >>
          BY <1>13, <4>2, <4>3, <4>4
        <4>6. ~g[P].leaf
          BY <1>2, <1>10
        <4> QED BY <3>3, <4>5, <4>6 DEF CellFits
      <3>4. CASE p # H /\ p # q /\ p # P
        <4>1. p \in DOMAIN nd /\ g[p] = nd[p]
          BY <1>10, <3>4
        <4> QED BY <1>1, <2>1, <4>1 DEF Shapes
      <3> QED BY <3>1, <3>2, <3>3, <3>4
    <2> QED BY <2>1 DEF Shapes
  <1> QED BY <1>9, <1>10, <1>12, <1>15 DEF TreeIn

\* A page too full by its last cell is split before that cell.
LEMMA LastSplit ==
    ASSUME NEW cells \in Seq(CellType), cells # << >>, ~(Taken(cells) <= U),
           Taken(cells) - cells[Len(cells)].sz <= U, cells[Len(cells)].sz <= U
    PROVE  /\ Front(cells) \in Seq(CellType) /\ Len(Front(cells)) = Len(cells) - 1
           /\ \A x \in 1 .. Len(cells) - 1 : Front(cells)[x] = cells[x]
           /\ Taken(Front(cells)) <= U /\ Front(cells) # << >>
           /\ Last(Front(cells)) \in CellType /\ Last(cells) = cells[Len(cells)]
           /\ Last(cells) \in CellType /\ Taken(<<Last(cells)>>) <= U
           /\ Len(cells) \in Nat /\ Len(cells) > 0
  <1>1. PICK m \in Nat : m = Len(cells)
    OBVIOUS
  <1>2. m > 0 /\ m \in 1 .. Len(cells) /\ 0 \in 0 .. Len(cells) /\ m - 1 \in 0 .. Len(cells) /\ 0 <= m - 1
    BY <1>1
  <1>3. Front(cells) = SubSeq(cells, 0 + 1, m - 1) /\ Last(cells) = cells[m]
    BY <1>1 DEF Front, Last
  <1>4. /\ Front(cells) \in Seq(CellType) /\ Len(Front(cells)) = m - 1
        /\ \A x \in 1 .. m - 1 : Front(cells)[x] = cells[x]
    <2>1. LET t == SubSeq(cells, 0 + 1, m - 1) IN
          t \in Seq(CellType) /\ Len(t) = (m - 1) - 0 /\ \A j \in 1 .. (m - 1) - 0 : t[j] = cells[0 + j]
      BY <1>2, PartOfCells
    <2> QED BY <1>2, <1>3, <2>1
  <1>5. Taken(Front(cells)) = Held(Sizes(cells), 0, m - 1)
    BY <1>2, <1>3, TakenOfPart
  <1>6. /\ Taken(cells) \in Nat /\ Taken(cells) = Held(Sizes(cells), 0, m)
        /\ Held(Sizes(cells), 0, m - 1) + Held(Sizes(cells), m - 1, m) = Held(Sizes(cells), 0, m)
        /\ Held(Sizes(cells), 0, m - 1) \in Nat /\ Held(Sizes(cells), m - 1, m) = cells[m].sz
    <2>1. m \in 0 .. Len(cells)
      BY <1>1
    <2>2. /\ Taken(cells) \in Nat /\ Taken(cells) = Held(Sizes(cells), 0, Len(cells))
          /\ \A x, y, z \in 0 .. Len(cells) :
                /\ x <= y => Held(Sizes(cells), x, y) \in Nat
                /\ Held(Sizes(cells), x, y) + Held(Sizes(cells), y, z) = Held(Sizes(cells), x, z)
      BY TakenParts
    <2>3. Held(Sizes(cells), m - 1, m) = cells[m].sz
      BY <1>2, HeldOne
    <2> QED BY <1>1, <1>2, <2>1, <2>2, <2>3
  <1>7. cells[m] \in CellType /\ cells[m].sz \in Nat
    <2>1. cells[m] \in CellType
      BY <1>2
    <2> QED BY <2>1 DEF CellType
  <1>8. Taken(Front(cells)) = Taken(cells) - cells[m].sz /\ Taken(Front(cells)) \in Nat
    BY <1>5, <1>6, <1>7
  <1>9. Taken(Front(cells)) <= U /\ Taken(Front(cells)) > 0
    BY <1>1, <1>6, <1>7, <1>8, UIs
  <1>10. Front(cells) # << >>
    BY <1>9, TakenEmpty
  <1>11. Last(Front(cells)) \in CellType
    <2>1. PICK t \in Seq(CellType) : t = Front(cells)
      BY <1>4
    <2>2. t[Len(t)] \in CellType
      BY <1>10, <2>1
    <2> QED BY <2>1, <2>2 DEF Last
  <1>12. Taken(<<cells[m]>>) <= U
    <2>1. PICK c \in CellType : c = cells[m]
      BY <1>7
    <2>2. <<c>> \in Seq(CellType) /\ Len(<<c>>) = 1 /\ <<c>>[1] = c /\ 1 \in 1 .. Len(<<c>>) /\ 0 = 1 - 1
      OBVIOUS
    <2>3. Taken(<<c>>) = Held(Sizes(<<c>>), 0, 1) /\ Held(Sizes(<<c>>), 1 - 1, 1) = <<c>>[1].sz
      BY <2>2, TakenParts
    <2> QED BY <1>1, <2>1, <2>2, <2>3
  <1> QED BY <1>1, <1>2, <1>3, <1>4, <1>7, <1>9, <1>10, <1>11, <1>12

\* An appended row leaves a full table, which is too full only by the row.
LEMMA AppendedIs ==
    ASSUME BtreeInv, Busy, Depth > 1, Appended
    PROVE  /\ intkey /\ op.kind = "insert" /\ node[Here].leaf /\ LastLeaf(node, Above.pg, Here)
           /\ node[Here].cell \in Seq(CellType) /\ node[Here].cell # << >>
           /\ ~(Taken(node[Here].cell) <= U)
           /\ Taken(node[Here].cell) - node[Here].cell[Len(node[Here].cell)].sz <= U
           /\ node[Here].cell[Len(node[Here].cell)].sz <= U
  <1>1. /\ op \in Inserts \cup Deletes /\ TreeIn(intkey, node, file) /\ Nodes(node)
        /\ Depth \in Nat \ {0} /\ Here \in DOMAIN node
        /\ HereFits(node[Here], Depth, op) /\ (Overflows(node[Here]) <=> ~Fits(node[Here]))
    BY BusyIs
  <1>2. PICK path : path = cur[w].path
    OBVIOUS
  <1>3. PICK n \in Nat \ {0} : n = Depth /\ n > 1
    BY <1>1
  <1>4. /\ Above.pg \in DOMAIN node /\ ~node[Above.pg].leaf
        /\ Child(node[Above.pg], Above.ix) = Here
        /\ \A i \in 1 .. n - 1 : \A j \in Turns(node[Above.pg]) : path[i].pg # Child(node[Above.pg], j)
        /\ \A j \in Turns(node[Above.pg]) : Child(node[Above.pg], j) \in DOMAIN node \ {ROOT}
        /\ Above.ix \in Turns(node[Above.pg]) /\ Above = path[n - 1]
    BY <1>2, <1>3, AboveIs
  <1>5. intkey /\ node[Here].leaf /\ ~Fits(node[Here]) /\ op.at = Len(node[Here].cell)
        /\ Above.ix = Len(node[Above.pg].cell) + 1
    BY <1>1 DEF Appended
  <1>6. op.kind = "insert"
    <2>1. op.kind \in {"insert", "delete"}
      BY DEF Busy
    <2>2. op.kind # "delete"
      BY <1>1, <1>5 DEF HereFits
    <2> QED BY <2>1, <2>2
  <1>7. op.at \in 1 .. Len(node[Here].cell) /\ Taken(node[Here].cell) - node[Here].cell[op.at].sz <= U
    BY <1>1, <1>5, <1>6 DEF HereFits
  <1>8. node[Above.pg].right = Here
    <2>1. Len(node[Above.pg].cell) \in Nat
      BY <1>1, <1>4, NodeIs
    <2>2. ~(Above.ix <= Len(node[Above.pg].cell))
      BY <1>5, <2>1
    <2> QED BY <1>4, <2>2 DEF Child
  <1>9. Above.pg # Here /\ Here # ROOT
    <2>1. n - 1 \in 1 .. n - 1
      BY <1>3
    <2>2. path[n - 1].pg # Here
      BY <1>4, <2>1
    <2> QED BY <1>4, <2>2
  <1>10. LastLeaf(node, Above.pg, Here)
    BY <1>1, <1>4, <1>5, <1>8, <1>9 DEF LastLeaf
  <1>11. node[Here].cell \in Seq(CellType)
    BY <1>1, NodeIs
  <1>12. node[Here].cell[Len(node[Here].cell)].sz <= U
    <2>1. Shapes(intkey, node)
      BY <1>1 DEF TreeIn
    <2>2. Len(node[Here].cell) \in 1 .. Len(node[Here].cell)
      BY <1>5, <1>7
    <2>3. CellFits(intkey, node[Here].leaf, node[Here].cell[Len(node[Here].cell)])
      BY <1>1, <2>1, <2>2 DEF Shapes
    <2> QED BY <1>5, <2>3 DEF CellFits
  <1>13. node[Here].cell # << >>
    <2>1. Len(node[Here].cell) # 0
      BY <1>5, <1>7
    <2> QED BY <2>1
  <1> QED BY <1>5, <1>6, <1>7, <1>10, <1>11, <1>12, <1>13 DEF Fits

\* A divider is a cell.
LEMMA DividerIs ==
    ASSUME NEW k \in Keys, NEW left \in Nat
    PROVE  LET d == Cell(k, [sz |-> DIVIDER], << >>, left) IN
           d \in CellType /\ d.left = left /\ d.ovf = << >> /\ d.sz = DIVIDER /\ d.sz = 1
  <1>1. << >> \in Seq(Nat) /\ DIVIDER \in Nat \ {0} /\ DIVIDER = 1
    BY DEF DIVIDER
  <1> QED BY <1>1 DEF Cell, CellType

\* A row appended gets a page of its own.
LEMMA QuickKeeps ==
    ASSUME BtreeInv, balance_quick
    PROVE  BtreeInv'
  <1>1. /\ Busy /\ Depth > 1 /\ Appended /\ UNCHANGED <<scene, writes, op>>
        /\ GoTo(Front(cur[w].path))
    BY DEF balance_quick, BalanceStep
  <1>2. PICK a : a = allocateBtreePage(file, 0)
    OBVIOUS
  <1>3. PICK kept : kept = Front(node[Here].cell)
    OBVIOUS
  <1>4. PICK divider : divider = Cell(Last(kept).key, [sz |-> DIVIDER], << >>, Here)
    OBVIOUS
  <1>5. PICK P, H, q, last : P = Above.pg /\ H = Here /\ q = a.pg /\ last = Last(node[Here].cell)
    OBVIOUS
  <1>6. PICK g : g = WithPage([node EXCEPT ![H].cell = kept, ![P].cell = Append(@, divider), ![P].right = q],
                    q, Leaf(<<last>>))
    OBVIOUS
  <1>7. file' = a.file /\ node' = g
    BY <1>2, <1>3, <1>4, <1>5, <1>6 DEF balance_quick
  <1>8. /\ op \in Inserts \cup Deletes /\ op # Idle /\ TreeIn(intkey, node, file) /\ Nodes(node)
        /\ IsPath(node, cur[w].path) /\ Depth \in Nat \ {0}
    BY <1>1, BusyIs
  <1>9. /\ intkey /\ op.kind = "insert" /\ node[H].leaf /\ LastLeaf(node, P, H)
        /\ node[H].cell \in Seq(CellType) /\ node[H].cell # << >>
        /\ ~(Taken(node[H].cell) <= U)
        /\ Taken(node[H].cell) - node[H].cell[Len(node[H].cell)].sz <= U
        /\ node[H].cell[Len(node[H].cell)].sz <= U
    BY <1>1, <1>5, AppendedIs
  <1>10. /\ kept \in Seq(CellType) /\ Len(kept) = Len(node[H].cell) - 1
         /\ \A x \in 1 .. Len(node[H].cell) - 1 : kept[x] = node[H].cell[x]
         /\ Taken(kept) <= U /\ kept # << >>
         /\ Last(kept) \in CellType /\ last = node[H].cell[Len(node[H].cell)]
         /\ last \in CellType /\ Taken(<<last>>) <= U
         /\ Len(node[H].cell) \in Nat /\ Len(node[H].cell) > 0
    <2>1. PICK cells \in Seq(CellType) : cells = node[H].cell
      BY <1>9
    <2>2. /\ Front(cells) \in Seq(CellType) /\ Len(Front(cells)) = Len(cells) - 1
          /\ \A x \in 1 .. Len(cells) - 1 : Front(cells)[x] = cells[x]
          /\ Taken(Front(cells)) <= U /\ Front(cells) # << >>
          /\ Last(Front(cells)) \in CellType /\ Last(cells) = cells[Len(cells)]
          /\ Last(cells) \in CellType /\ Taken(<<Last(cells)>>) <= U
          /\ Len(cells) \in Nat /\ Len(cells) > 0
      BY <1>9, <2>1, LastSplit
    <2>3. Front(cells) = kept /\ Last(cells) = last
      BY <1>3, <1>5, <2>1
    <2> QED BY <2>1, <2>2, <2>3
  <1>11. Taking(file, a) /\ FileOK(file)
    <2>1. FileOK(file)
      BY <1>8 DEF TreeIn, Owned
    <2> QED BY <1>2, <2>1, PageTaken
  <1>12. q \notin DOMAIN node /\ q # ROOT /\ q \in Nat
    BY <1>5, <1>8, <1>11, TakenIsNew
  <1>13. P \in DOMAIN node /\ H \in DOMAIN node /\ P # H /\ H \in Nat /\ ~node[P].leaf
    <2>1. P \in DOMAIN node /\ H \in DOMAIN node /\ P # H /\ ~node[P].leaf
      BY <1>9 DEF LastLeaf
    <2> QED BY <1>8, <2>1, NodeIs
  <1>14. /\ divider \in CellType /\ divider.left = H /\ divider.ovf = << >> /\ divider.sz = DIVIDER
    <2>1. Last(kept).key \in Keys
      BY <1>10 DEF CellType
    <2> QED BY <1>4, <1>5, <1>13, <2>1, DividerIs
  <1>15. MovesLast(node, P, H, q, last, kept, divider, g)
    BY <1>6, <1>10, <1>12, <1>13, <1>14 DEF MovesLast
  <1>16. PICK m \in Nat : m = Len(node[H].cell)
    BY <1>10
  <1>17. Parts(node[H].cell, m, kept, last, divider, H)
    BY <1>10, <1>14, <1>16 DEF Parts
  <1>18. TreeIn(intkey, g, a.file)
    <2>1. TreeIn(TRUE, node, file)
      BY <1>8, <1>9 DEF TreeIn, Shapes, CellFits
    <2>2. TakesPage(file, a, q)
      BY <1>5, <1>11 DEF TakesPage
    <2>3. TreeIn(TRUE, g, a.file)
      BY <1>9, <1>14, <1>15, <1>17, <2>1, <2>2, LastMoved
    <2> QED BY <1>9, <2>3 DEF TreeIn, Shapes, CellFits
  <1>19. MovedLast(node, P, H, q, last, kept, divider, g)
    BY <1>8, <1>15, MovesLastIs
  <1>20. PICK path : path = cur[w].path
    OBVIOUS
  <1>21. PICK n \in Nat \ {0} : n = Depth /\ n > 1
    BY <1>1, <1>8
  <1>22. /\ P = path[n - 1].pg /\ H = path[n].pg /\ \A i \in 1 .. n : path[i].pg \in DOMAIN node
         /\ \A i \in 1 .. n - 2 : path[i].pg # P
         /\ \A i \in 1 .. n - 1 : path[i].pg # H
    <2>1. /\ Above = path[n - 1] /\ Here = path[n].pg /\ Child(node[Above.pg], Above.ix) = Here
          /\ Above.ix \in Turns(node[Above.pg])
          /\ \A i \in 1 .. n : path[i].pg \in DOMAIN node
          /\ \A i \in 1 .. n - 2 : path[i].pg # Above.pg
          /\ \A i \in 1 .. n - 1 : \A j \in Turns(node[Above.pg]) : path[i].pg # Child(node[Above.pg], j)
      BY <1>1, <1>20, <1>21, AboveIs, SMTT(30)
    <2>2. \A i \in 1 .. n - 1 : path[i].pg # Child(node[Above.pg], Above.ix)
      BY <2>1
    <2> QED BY <1>5, <2>1, <2>2
  <1>23. Rebalanced(g, path, n, op)
    <2>1. \A i \in 1 .. n - 1 : path[i].pg \in DOMAIN g
      BY <1>19, <1>21, <1>22 DEF MovedLast
    <2>2. \A i \in 1 .. n - 2 : g[path[i].pg] = node[path[i].pg]
      <3>1. \A i \in 1 .. n - 2 : i \in 1 .. n - 1 /\ i \in 1 .. n
        BY <1>21
      <3> QED BY <1>19, <1>22, <3>1 DEF MovedLast
    <2>3. ASSUME NEW p \in DOMAIN g, \A i \in 1 .. n - 1 : path[i].pg # p
          PROVE  \/ Fits(g[p]) /\ g[p].cell # << >>
                 \/ p \in DOMAIN node /\ p # path[n].pg /\ g[p] = node[p]
      <3>1. p # P
        <4>1. n - 1 \in 1 .. n - 1
          BY <1>21
        <4> QED BY <1>22, <2>3, <4>1
      <3>2. CASE p = H
        BY <1>10, <1>19, <3>2 DEF MovedLast, Fits
      <3>3. CASE p = q
        <4>1. g[q].cell = <<last>>
          BY <1>19 DEF MovedLast
        <4>2. <<last>> # << >>
          OBVIOUS
        <4> QED BY <1>10, <3>3, <4>1, <4>2 DEF Fits
      <3>4. CASE p # H /\ p # q
        BY <1>19, <1>22, <3>1, <3>4 DEF MovedLast
      <3> QED BY <3>2, <3>3, <3>4
    <2>4. HereFits(g[P], n - 1, op)
      <3>1. g[P].cell # << >> /\ ~g[P].leaf
        <4>1. node[P].cell \in Seq(CellType)
          BY <1>8, <1>13, NodeIs
        <4>2. g[P].cell = Append(node[P].cell, divider) /\ g[P].leaf = node[P].leaf
          BY <1>19 DEF MovedLast
        <4>3. node[P].leaf \in BOOLEAN
          BY <1>8, <1>13, NodeIs
        <4> QED BY <1>13, <1>14, <4>1, <4>2, <4>3
      <3> QED BY <1>9, <3>1 DEF HereFits
    <2> QED BY <1>22, <2>1, <2>2, <2>3, <2>4 DEF Rebalanced
  <1>24. CursorsIn(intkey, g, cur', op) /\ BusyFits(g, cur'[w].path, op)
    <2>1. Rebalanced(g, cur[w].path, Depth, op)
      BY <1>20, <1>21, <1>23
    <2> QED BY <1>1, <2>1, UpOneKeeps
  <1>25. TreeLeft(node', file', cur', op')
    BY <1>1, <1>7, <1>8, <1>18, <1>24 DEF TreeLeft
  <1>26. writes' \in 0 .. scene.writes
    BY <1>1 DEF BtreeInv
  <1> QED BY <1>1, <1>25, <1>26, InvLeft

--------------------------------------------------------------------------------
(* What hangs from a page. *)

Under(nd, p) == {q \in DOMAIN nd : \E way : IsWay(nd, way, p) /\ Last(way).pg = q}

\* A page hangs from itself.
LEMMA UnderSelf ==
    ASSUME NEW nd, Nodes(nd), NEW p \in DOMAIN nd
    PROVE  p \in Under(nd, p)
  <1>1. p \in Nat
    BY NodeIs
  <1>2. IsWay(nd, <<Step(p, 1)>>, p) /\ Last(<<Step(p, 1)>>) = Step(p, 1) /\ Step(p, 1).pg = p
    BY <1>1, OneStep
  <1> QED BY <1>2 DEF Under

\* So does what hangs from a child.
LEMMA UnderChild ==
    ASSUME NEW nd, Nodes(nd), NEW p \in DOMAIN nd, ~nd[p].leaf, NEW j \in Turns(nd[p]),
           NEW q \in Under(nd, Child(nd[p], j))
    PROVE  q \in Under(nd, p)
  <1>1. p \in Nat /\ j \in Nat
    BY NodeIs DEF Turns
  <1>2. PICK way : way = <<Step(p, j)>>
    OBVIOUS
  <1>3. IsWay(nd, way, p) /\ Last(way) = Step(p, j) /\ Step(p, j).pg = p /\ Step(p, j).ix = j
    BY <1>1, <1>2, OneStep
  <1>4. PICK down : IsWay(nd, down, Child(nd[p], j)) /\ Last(down).pg = q
    BY DEF Under
  <1>5. /\ ~nd[Last(way).pg].leaf /\ Last(way).ix \in Turns(nd[Last(way).pg])
        /\ IsWay(nd, down, Child(nd[Last(way).pg], Last(way).ix))
    BY <1>3, <1>4
  <1>6. IsWay(nd, way \o down, p) /\ Last(way \o down) = Last(down)
    BY <1>3, <1>5, WaysJoin
  <1>7. q \in DOMAIN nd
    BY DEF Under
  <1> QED BY <1>4, <1>6, <1>7 DEF Under

\* A way without its first step.
LEMMA WayTail ==
    ASSUME NEW nd, NEW way, NEW pg, IsWay(nd, way, pg), Len(way) > 1
    PROVE  /\ IsWay(nd, Tail(way), Child(nd[pg], way[1].ix)) /\ Last(Tail(way)) = Last(way)
           /\ ~nd[pg].leaf /\ way[1].ix \in Turns(nd[pg]) /\ pg \in DOMAIN nd
  <1>1. /\ way \in Seq(StepType) /\ way # << >> /\ way[1].pg = pg
        /\ \A i \in 1 .. Len(way) : way[i].pg \in DOMAIN nd
        /\ \A i \in 1 .. Len(way) - 1 :
              /\ ~nd[way[i].pg].leaf
              /\ way[i].ix \in Turns(nd[way[i].pg])
              /\ Child(nd[way[i].pg], way[i].ix) = way[i + 1].pg
    BY DEF IsWay
  <1>2. PICK n \in Nat : n = Len(way) /\ n > 1
    BY <1>1
  <1>3. PICK t \in Seq(StepType) : t = Tail(way)
    <2>1. way \in Seq(StepType) /\ way # << >>
      BY <1>1
    <2>2. Tail(way) \in Seq(StepType)
      BY <2>1
    <2> QED BY <2>2
  <1>4. Len(t) = n - 1 /\ \A i \in 1 .. n - 1 : t[i] = way[i + 1]
    <2>1. way \in Seq(StepType) /\ way # << >>
      BY <1>1
    <2> QED BY <1>2, <1>3, <2>1
  <1>5. 1 \in 1 .. n - 1 /\ 1 \in 1 .. n
    BY <1>2
  <1>6. ~nd[pg].leaf /\ way[1].ix \in Turns(nd[pg]) /\ Child(nd[pg], way[1].ix) = way[2].pg /\ pg \in DOMAIN nd
    BY <1>1, <1>2, <1>5
  <1>7. t[1] = way[2] /\ t # << >>
    BY <1>2, <1>4, <1>5
  <1>8. \A i \in 1 .. n - 1 : t[i].pg \in DOMAIN nd
    <2>1. \A i \in 1 .. n - 1 : i + 1 \in 1 .. n
      BY <1>2
    <2> QED BY <1>1, <1>2, <1>4, <2>1
  <1>9. \A i \in 1 .. (n - 1) - 1 :
              /\ ~nd[t[i].pg].leaf
              /\ t[i].ix \in Turns(nd[t[i].pg])
              /\ Child(nd[t[i].pg], t[i].ix) = t[i + 1].pg
    <2> TAKE i \in 1 .. (n - 1) - 1
    <2>1. i + 1 \in 1 .. n - 1 /\ i \in 1 .. n - 1
      BY <1>2
    <2>2. t[i] = way[i + 1] /\ t[i + 1] = way[(i + 1) + 1]
      BY <1>4, <2>1
    <2> QED BY <1>1, <1>2, <2>1, <2>2
  <1>10. IsWay(nd, t, way[2].pg)
    BY <1>4, <1>7, <1>8, <1>9 DEF IsWay
  <1>11. Last(t) = Last(way)
    <2>1. n - 1 \in 1 .. n - 1 /\ (n - 1) + 1 = n
      BY <1>2
    <2>2. t[n - 1] = way[n]
      BY <1>4, <2>1
    <2> QED BY <1>2, <1>4, <2>2 DEF Last
  <1> QED BY <1>3, <1>6, <1>10, <1>11

\* What hangs from a page hangs from one of its children, or is the page.
LEMMA UnderSplit ==
    ASSUME NEW nd, Nodes(nd), NEW p \in DOMAIN nd, NEW q \in Under(nd, p), q # p
    PROVE  ~nd[p].leaf /\ \E j \in Turns(nd[p]) : q \in Under(nd, Child(nd[p], j))
  <1>1. PICK way : IsWay(nd, way, p) /\ Last(way).pg = q
    BY DEF Under
  <1>2. Len(way) > 1
    <2>1. Len(way) \in Nat \ {0} /\ Last(way) = way[Len(way)] /\ way[1].pg = p
      BY <1>1, WayLast DEF IsWay
    <2> QED BY <1>1, <2>1
  <1>3. /\ IsWay(nd, Tail(way), Child(nd[p], way[1].ix)) /\ Last(Tail(way)) = Last(way)
        /\ ~nd[p].leaf /\ way[1].ix \in Turns(nd[p])
    BY <1>1, <1>2, WayTail
  <1>4. q \in DOMAIN nd
    BY DEF Under
  <1>5. q \in Under(nd, Child(nd[p], way[1].ix))
    BY <1>1, <1>3, <1>4 DEF Under
  <1> QED BY <1>3, <1>5

\* A page lies no higher than the page from which it hangs.
LEMMA UnderLevel ==
    ASSUME NEW nd, NEW h, NEW N, Levels(nd, h, N), NEW p \in DOMAIN nd, NEW q \in Under(nd, p)
    PROVE  h[q] <= h[p] /\ h[q] \in Nat /\ h[p] \in Nat /\ q \in DOMAIN nd
  <1>1. PICK way : IsWay(nd, way, p) /\ Last(way).pg = q
    BY DEF Under
  <1>2. Len(way) \in Nat \ {0} /\ Last(way) = way[Len(way)]
    BY <1>1, WayLast
  <1>3. \A i \in 1 .. Len(way) : h[way[i].pg] + (i - 1) = h[p] /\ h[way[i].pg] \in Nat
    BY <1>1, WayLevels
  <1>4. PICK n \in Nat \ {0} : n = Len(way)
    BY <1>2
  <1>5. h[q] + (n - 1) = h[p] /\ h[q] \in Nat
    BY <1>1, <1>2, <1>3, <1>4
  <1>6. h[p] \in Nat
    BY <1>4, <1>5
  <1>7. q \in DOMAIN nd
    BY DEF Under
  <1> QED BY <1>4, <1>5, <1>6, <1>7

\* Ways from one level to one page start at one page.
LEMMA OneWayUp ==
    ASSUME NEW nd, NEW h, NEW N, Levels(nd, h, N), OneParent(nd),
           NEW a, NEW b, h[a] = h[b], NEW q, q \in Under(nd, a), q \in Under(nd, b)
    PROVE  a = b
  <1>1. PICK way : IsWay(nd, way, a) /\ Last(way).pg = q
    BY DEF Under
  <1>2. PICK other : IsWay(nd, other, b) /\ Last(other).pg = q
    BY DEF Under
  <1>3. PICK n \in Nat \ {0} : n = Len(way) /\ Last(way) = way[n]
    BY <1>1, WayLast
  <1>4. PICK m \in Nat \ {0} : m = Len(other) /\ Last(other) = other[m]
    BY <1>2, WayLast
  <1>5. h[way[n].pg] + (n - 1) = h[a] /\ h[way[n].pg] \in Nat
    <2>1. \A i \in 1 .. Len(way) : h[way[i].pg] + (i - 1) = h[a] /\ h[way[i].pg] \in Nat
      BY <1>1, WayLevels
    <2> QED BY <1>3, <2>1
  <1>6. h[other[m].pg] + (m - 1) = h[b] /\ h[other[m].pg] \in Nat
    <2>1. \A i \in 1 .. Len(other) : h[other[i].pg] + (i - 1) = h[b] /\ h[other[i].pg] \in Nat
      BY <1>2, WayLevels
    <2> QED BY <1>4, <2>1
  <1>7. n = m
    <2>1. h[way[n].pg] = h[other[m].pg]
      BY <1>1, <1>2, <1>3, <1>4
    <2> QED BY <1>5, <1>6, <2>1
  <1> DEFINE T == {i \in 1 .. n : way[i].pg = other[i].pg}
  <1>8. n \in T
    BY <1>1, <1>2, <1>3, <1>4, <1>7
  <1>9. PICK i \in T : \A j \in T : i <= j
    <2>1. T \subseteq Nat /\ T # {}
      BY <1>8
    <2> QED BY <2>1, LeastOf
  <1>10. CASE i = 1
    <2>1. way[1].pg = a /\ other[1].pg = b
      BY <1>1, <1>2 DEF IsWay
    <2> QED BY <1>10, <2>1
  <1>11. CASE i # 1
    <2>1. PICK k \in Nat : k = i - 1 /\ k \in 1 .. n - 1 /\ k + 1 = i /\ k \in 1 .. n
      BY <1>11
    <2>2. /\ ~nd[way[k].pg].leaf /\ way[k].ix \in Turns(nd[way[k].pg]) /\ way[k].pg \in DOMAIN nd
          /\ Child(nd[way[k].pg], way[k].ix) = way[i].pg
      BY <1>1, <1>3, <2>1 DEF IsWay
    <2>3. /\ ~nd[other[k].pg].leaf /\ other[k].ix \in Turns(nd[other[k].pg]) /\ other[k].pg \in DOMAIN nd
          /\ Child(nd[other[k].pg], other[k].ix) = other[i].pg
      BY <1>2, <1>4, <1>7, <2>1 DEF IsWay
    <2>4. <<way[k].pg, way[k].ix>> \in KidSpots(nd) /\ KidAt(nd, <<way[k].pg, way[k].ix>>) = way[i].pg
      BY <2>2, KidSpotMade DEF Turns
    <2>5. <<other[k].pg, other[k].ix>> \in KidSpots(nd) /\ KidAt(nd, <<other[k].pg, other[k].ix>>) = other[i].pg
      BY <2>3, KidSpotMade DEF Turns
    <2>6. <<way[k].pg, way[k].ix>> = <<other[k].pg, other[k].ix>>
      BY <2>4, <2>5 DEF OneParent
    <2>7. k \in T
      BY <2>1, <2>6
    <2> QED BY <1>9, <2>1, <2>7
  <1> QED BY <1>10, <1>11

\* Nothing hangs from two children of a page.
LEMMA UnderApart ==
    ASSUME NEW nd, Levelled(nd), OneParent(nd), NEW p \in DOMAIN nd, ~nd[p].leaf,
           NEW i \in Turns(nd[p]), NEW j \in Turns(nd[p]),
           NEW q, q \in Under(nd, Child(nd[p], i)), q \in Under(nd, Child(nd[p], j))
    PROVE  i = j
  <1>1. PICK h, N : Levels(nd, h, N)
    BY DEF Levelled
  <1>2. /\ Child(nd[p], i) \in DOMAIN nd /\ Child(nd[p], j) \in DOMAIN nd
        /\ h[Child(nd[p], i)] + 1 = h[p] /\ h[Child(nd[p], j)] + 1 = h[p]
        /\ h[Child(nd[p], i)] \in Nat /\ h[Child(nd[p], j)] \in Nat
    BY <1>1 DEF Levels
  <1>3. h[Child(nd[p], i)] = h[Child(nd[p], j)]
    BY <1>2
  <1>4. Child(nd[p], i) = Child(nd[p], j)
    BY <1>1, <1>3, OneWayUp
  <1>5. <<p, i>> \in KidSpots(nd) /\ <<p, j>> \in KidSpots(nd)
        /\ KidAt(nd, <<p, i>>) = Child(nd[p], i) /\ KidAt(nd, <<p, j>>) = Child(nd[p], j)
    BY KidSpotMade DEF Turns
  <1>6. <<p, i>> = <<p, j>>
    BY <1>4, <1>5 DEF OneParent
  <1> QED BY <1>6

\* All pages hang from the root.
LEMMA UnderRoot ==
    ASSUME NEW nd, Nodes(nd), Levelled(nd), OneParent(nd)
    PROVE  Under(nd, ROOT) = DOMAIN nd
  <1>1. PICK h, N : Levels(nd, h, N)
    BY DEF Levelled
  <1>2. Under(nd, ROOT) \subseteq DOMAIN nd /\ ROOT \in DOMAIN nd
    BY DEF Under, Nodes
  <1>3. N \in Nat /\ \A p \in DOMAIN nd : h[p] \in 0 .. N
    BY <1>1 DEF Levels
  <1> DEFINE T == {i \in 0 .. N : \E p \in DOMAIN nd : p \notin Under(nd, ROOT) /\ i = N - h[p]}
  <1>4. ASSUME T # {} PROVE FALSE
    <2>1. PICK i \in T : \A k \in T : i <= k
      <3>1. T \subseteq Nat
        BY <1>3
      <3> QED BY <1>4, <3>1, LeastOf
    <2>2. PICK p \in DOMAIN nd : p \notin Under(nd, ROOT) /\ i = N - h[p]
      BY <2>1
    <2>3. p # ROOT
      BY <1>2, <2>2, UnderSelf
    <2>4. PICK s \in KidSpots(nd) : KidAt(nd, s) = p
      BY <2>3 DEF OneParent
    <2>5. s[1] \in DOMAIN nd /\ ~nd[s[1]].leaf /\ s[2] \in Turns(nd[s[1]]) /\ Child(nd[s[1]], s[2]) = p
      BY <2>4, KidSpotIs DEF KidAt, Turns
    <2>6. h[p] + 1 = h[s[1]]
      BY <1>1, <2>5 DEF Levels
    <2>7. s[1] \in Under(nd, ROOT)
      <3>1. SUFFICES ASSUME s[1] \notin Under(nd, ROOT) PROVE FALSE
        OBVIOUS
      <3>2. PICK k \in Int : k = N - h[s[1]]
        BY <1>3, <2>5
      <3>3. k \in 0 .. N /\ k < i
        BY <1>3, <2>2, <2>5, <2>6, <3>2
      <3>4. k \in T
        BY <2>5, <3>1, <3>2, <3>3
      <3>5. i \in Int
        BY <1>3, <2>1
      <3> QED BY <2>1, <3>2, <3>3, <3>4, <3>5
    <2>8. PICK way : IsWay(nd, way, ROOT) /\ Last(way).pg = s[1]
      BY <2>7 DEF Under
    <2>9. PICK n : n \in 1 .. Len(way) /\ Last(way) = way[n] /\ n = Len(way)
      BY <2>8, WayLast
    <2>10. PICK ix \in Nat : ix = s[2]
      BY <2>5 DEF Turns
    <2>11. PICK cut : IsWay(nd, cut, ROOT) /\ Last(cut) = Step(way[n].pg, ix)
      <3>1. LET cut == SubSeq(way, 1, n - 1) \o <<Step(way[n].pg, ix)>> IN
            IsWay(nd, cut, ROOT) /\ Last(cut) = Step(way[n].pg, ix)
        BY <2>8, <2>9, WayCut
      <3> QED BY <3>1
    <2>12. Last(cut).pg = s[1] /\ Last(cut).ix = s[2]
      BY <2>8, <2>9, <2>10, <2>11 DEF Step
    <2>13. p \in Nat
      BY NodeIs
    <2>14. IsWay(nd, <<Step(p, 1)>>, p) /\ Last(<<Step(p, 1)>>) = Step(p, 1) /\ Step(p, 1).pg = p
      BY <2>13, OneStep
    <2>15. /\ ~nd[Last(cut).pg].leaf /\ Last(cut).ix \in Turns(nd[Last(cut).pg])
           /\ IsWay(nd, <<Step(p, 1)>>, Child(nd[Last(cut).pg], Last(cut).ix))
      BY <2>5, <2>12, <2>14
    <2>16. IsWay(nd, cut \o <<Step(p, 1)>>, ROOT) /\ Last(cut \o <<Step(p, 1)>>) = Last(<<Step(p, 1)>>)
      BY <2>11, <2>15, WaysJoin
    <2>17. p \in Under(nd, ROOT)
      BY <2>14, <2>16 DEF Under
    <2> QED BY <2>2, <2>17
  <1>5. ASSUME NEW p \in DOMAIN nd PROVE p \in Under(nd, ROOT)
    <2>1. N - h[p] \in 0 .. N
      BY <1>3
    <2> QED BY <1>4, <2>1
  <1> QED BY <1>2, <1>5

--------------------------------------------------------------------------------
(* Lists of pages. *)

\* The list names each page of S once and no other.
Listing(s, S) ==
    /\ s \in Seq(Nat) /\ Pages(s) = S
    /\ \A i, j \in 1 .. Len(s) : s[i] = s[j] => i = j

\* Two lists of different pages.
LEMMA ListingsJoin ==
    ASSUME NEW s, NEW S, Listing(s, S), NEW t, NEW T, Listing(t, T), S \cap T = {}
    PROVE  Listing(s \o t, S \cup T)
  <1>1. s \in Seq(Nat) /\ t \in Seq(Nat) /\ \A i, j \in 1 .. Len(s) : s[i] = s[j] => i = j
    BY DEF Listing
  <1>2. \A i, j \in 1 .. Len(t) : t[i] = t[j] => i = j
    BY DEF Listing
  <1>3. PICK n \in Nat, m \in Nat : n = Len(s) /\ m = Len(t)
    BY <1>1
  <1>4. PICK u \in Seq(Nat) : u = s \o t
    <2>1. s \in Seq(Nat) /\ t \in Seq(Nat)
      BY <1>1
    <2>2. s \o t \in Seq(Nat)
      BY ONLY <2>1
    <2> QED BY <2>2
  <1>20. s \in Seq(Nat) /\ t \in Seq(Nat)
    BY <1>1
  <1>5. Len(u) = n + m
    BY <1>3, <1>4, <1>20
  <1>6. \A i \in 1 .. n : u[i] = s[i] /\ u[i] \in S
    <2>1. \A i \in 1 .. n : u[i] = s[i]
      BY <1>1, <1>3, <1>4
    <2>2. \A i \in 1 .. n : s[i] \in S
      BY <1>3 DEF Listing, Pages
    <2> QED BY <2>1, <2>2
  <1>7. \A i \in 1 .. m : u[n + i] = t[i] /\ u[n + i] \in T
    <2>1. \A i \in 1 .. m : u[n + i] = t[i]
      BY <1>1, <1>3, <1>4
    <2>2. \A i \in 1 .. m : t[i] \in T
      BY <1>3 DEF Listing, Pages
    <2> QED BY <2>1, <2>2
  <1>8. \A i \in 1 .. n + m : i \in 1 .. n \/ \E k \in 1 .. m : i = n + k
    <2> TAKE i \in 1 .. n + m
    <2>1. CASE i <= n
      BY <2>1
    <2>2. CASE ~(i <= n)
      <3>1. i - n \in 1 .. m /\ i = n + (i - n)
        BY <2>2
      <3> QED BY <3>1
    <2> QED BY <2>1, <2>2
  <1>9. \A i, j \in 1 .. n + m : u[i] = u[j] => i = j
    <2> SUFFICES ASSUME NEW i \in 1 .. n + m, NEW j \in 1 .. n + m, u[i] = u[j] PROVE i = j
      OBVIOUS
    <2>1. CASE i \in 1 .. n /\ j \in 1 .. n
      BY <1>1, <1>3, <1>6, <2>1
    <2>2. CASE i \in 1 .. n /\ j \notin 1 .. n
      BY <1>6, <1>7, <1>8, <2>2
    <2>3. CASE i \notin 1 .. n /\ j \in 1 .. n
      <3>1. u[i] \in T
        BY <1>7, <1>8, <2>3
      <3>2. u[j] \in S
        BY <1>6, <2>3
      <3> QED BY <3>1, <3>2
    <2>4. CASE i \notin 1 .. n /\ j \notin 1 .. n
      <3>1. PICK a \in 1 .. m : i = n + a
        BY <1>8, <2>4
      <3>2. PICK b \in 1 .. m : j = n + b
        BY <1>8, <2>4
      <3>3. t[a] = t[b]
        BY <1>7, <3>1, <3>2
      <3>4. a = b
        BY <1>2, <1>3, <3>3
      <3> QED BY <3>1, <3>2, <3>4
    <2> QED BY <2>1, <2>2, <2>3, <2>4
  <1>10. Pages(u) = S \cup T
    <2>1. ASSUME NEW x \in Pages(u) PROVE x \in S \cup T
      <3>1. PICK i \in 1 .. n + m : x = u[i]
        BY <1>5 DEF Pages
      <3> QED BY <1>6, <1>7, <1>8, <3>1
    <2>2. ASSUME NEW x \in S PROVE x \in Pages(u)
      <3>1. PICK i \in 1 .. n : x = s[i]
        BY <1>3 DEF Listing, Pages
      <3>2. i \in 1 .. n + m
        BY <1>3
      <3> QED BY <1>5, <1>6, <3>1, <3>2 DEF Pages
    <2>3. ASSUME NEW x \in T PROVE x \in Pages(u)
      <3>1. PICK i \in 1 .. m : x = t[i]
        BY <1>3 DEF Listing, Pages
      <3>2. n + i \in 1 .. n + m
        BY <1>3
      <3> QED BY <1>5, <1>7, <3>1, <3>2 DEF Pages
    <2> QED BY <2>1, <2>2, <2>3
  <1>11. Listing(u, S \cup T)
    BY <1>5, <1>9, <1>10 DEF Listing
  <1> QED BY <1>4, <1>11

\* No list.
LEMMA ListingNone == Listing(<< >>, {})
  <1>1. << >> \in Seq(Nat) /\ Len(<< >>) = 0 /\ 1 .. 0 = {}
    OBVIOUS
  <1>2. Pages(<< >>) = {}
    BY <1>1 DEF Pages
  <1> QED BY <1>1, <1>2 DEF Listing

\* The list of one page.
LEMMA ListingOne ==
    ASSUME NEW p \in Nat
    PROVE  Listing(<<p>>, {p})
  <1>1. <<p>> \in Seq(Nat) /\ Len(<<p>>) = 1 /\ <<p>>[1] = p /\ \A i \in 1 .. 1 : i = 1
    OBVIOUS
  <1>2. Pages(<<p>>) = {p}
    <2>1. 1 \in 1 .. 1
      OBVIOUS
    <2> QED BY <1>1, <2>1 DEF Pages
  <1> QED BY <1>1, <1>2 DEF Listing

\* The union of lists that share no page.
LEMMA ListingsFlat ==
    ASSUME NEW s \in Seq(Seq(Nat)), NEW F, \A j \in 1 .. Len(s) : Listing(s[j], F[j]),
           \A i, j \in 1 .. Len(s) : \A x : x \in F[i] /\ x \in F[j] => i = j
    PROVE  Listing(FlattenSeq(s), {x \in Nat : \E j \in 1 .. Len(s) : x \in F[j]})
  <1>1. PICK off : RunsThrough(Nat, s, Len(s), FlattenSeq(s), off)
    BY FlattenIs
  <1>2. PICK k \in Nat : k = Len(s)
    OBVIOUS
  <1>3. PICK flat : flat = FlattenSeq(s)
    OBVIOUS
  <1>4. /\ flat \in Seq(Nat) /\ off \in [1 .. k + 1 -> Nat] /\ off[1] = 0 /\ off[k + 1] = Len(flat)
        /\ \A i \in 1 .. k : /\ s[i] \in Seq(Nat) /\ off[i + 1] = off[i] + Len(s[i])
                             /\ \A x \in 1 .. Len(s[i]) : flat[off[i] + x] = s[i][x]
    BY <1>1, <1>2, <1>3 DEF RunsThrough
  <1>5. ASSUME NEW y \in 1 .. Len(flat)
        PROVE  \E i \in 1 .. k : \E x \in 1 .. Len(s[i]) : y = off[i] + x /\ flat[y] = s[i][x]
    <2>1. k # 0
      BY <1>4
    <2>2. Stairs(off, k)
      <3>1. \A i \in 1 .. k : off[i] <= off[i + 1]
        <4> TAKE i \in 1 .. k
        <4>1. Len(s[i]) \in Nat /\ off[i + 1] = off[i] + Len(s[i]) /\ off[i] \in Nat
          BY <1>4
        <4> QED BY <4>1
      <3> QED BY <1>4, <2>1, <3>1 DEF Stairs
    <2>3. y \in 1 .. off[k + 1]
      BY <1>4
    <2>4. PICK i \in 1 .. k : OnStair(off, i, y)
      BY <2>2, <2>3, StairIs
    <2>5. off[i] \in Nat /\ off[i + 1] = off[i] + Len(s[i]) /\ Len(s[i]) \in Nat
      BY <1>4
    <2>6. off[i] < y /\ y <= off[i + 1] /\ y \in Nat
      BY <2>4 DEF OnStair
    <2>7. y - off[i] \in 1 .. Len(s[i]) /\ y = off[i] + (y - off[i])
      BY <2>5, <2>6, SMTT(30)
    <2> QED BY <1>4, <2>7, ZenonT(30)
  <1>6. ASSUME NEW i \in 1 .. k, NEW x \in 1 .. Len(s[i])
        PROVE  off[i] + x \in 1 .. Len(flat) /\ flat[off[i] + x] = s[i][x]
    <2>1. k \in Nat \ {0} /\ i + 1 \in 1 .. k + 1 /\ k + 1 \in 1 .. k + 1
      OBVIOUS
    <2>2. Stairs(off, k)
      <3>1. \A a \in 1 .. k : off[a] <= off[a + 1]
        <4> TAKE a \in 1 .. k
        <4>1. Len(s[a]) \in Nat /\ off[a + 1] = off[a] + Len(s[a]) /\ off[a] \in Nat
          BY <1>4
        <4> QED BY <4>1
      <3> QED BY <1>4, <2>1, <3>1 DEF Stairs
    <2>3. off[i + 1] <= off[k + 1]
      <3>1. i + 1 <= k + 1
        OBVIOUS
      <3> QED BY <2>1, <2>2, <3>1, StairsRise
    <2>4. off[i] \in Nat /\ off[i + 1] = off[i] + Len(s[i]) /\ Len(s[i]) \in Nat
      BY <1>4
    <2>5. off[i] + x \in 1 .. Len(flat)
      <3>1. off[k + 1] = Len(flat) /\ Len(flat) \in Nat
        BY <1>4
      <3>2. off[i] + x <= off[i + 1] /\ off[i + 1] <= Len(flat)
        BY <2>3, <2>4, <3>1
      <3>3. off[i] + x \in Nat /\ off[i] + x >= 1
        BY <2>4, SMTT(30)
      <3> QED BY <2>4, <3>1, <3>2, <3>3
    <2> QED BY <1>4, <2>5
  <1>7. \A y, z \in 1 .. Len(flat) : flat[y] = flat[z] => y = z
    <2> SUFFICES ASSUME NEW y \in 1 .. Len(flat), NEW z \in 1 .. Len(flat), flat[y] = flat[z] PROVE y = z
      OBVIOUS
    <2>1. PICK i \in 1 .. k : \E x \in 1 .. Len(s[i]) : y = off[i] + x /\ flat[y] = s[i][x]
      BY <1>5
    <2>2. PICK a \in 1 .. Len(s[i]) : y = off[i] + a /\ flat[y] = s[i][a]
      BY <2>1
    <2>3. PICK j \in 1 .. k : \E x \in 1 .. Len(s[j]) : z = off[j] + x /\ flat[z] = s[j][x]
      BY <1>5
    <2>4. PICK b \in 1 .. Len(s[j]) : z = off[j] + b /\ flat[z] = s[j][b]
      BY <2>3
    <2>5. s[i][a] \in F[i] /\ s[j][b] \in F[j]
      <3>1. Listing(s[i], F[i]) /\ Listing(s[j], F[j])
        BY <1>2
      <3> QED BY <3>1 DEF Listing, Pages
    <2>6. i = j
      BY <1>2, <2>2, <2>4, <2>5
    <2>7. Listing(s[i], F[i])
      BY <1>2
    <2>8. a = b
      BY <2>2, <2>4, <2>6, <2>7 DEF Listing
    <2> QED BY <2>2, <2>4, <2>6, <2>8
  <1>8. Pages(flat) = {x \in Nat : \E j \in 1 .. k : x \in F[j]}
    <2>1. ASSUME NEW x \in Pages(flat) PROVE x \in Nat /\ \E j \in 1 .. k : x \in F[j]
      <3>1. PICK y \in 1 .. Len(flat) : x = flat[y]
        BY DEF Pages
      <3>2. PICK i \in 1 .. k : \E z \in 1 .. Len(s[i]) : y = off[i] + z /\ flat[y] = s[i][z]
        BY <1>5
      <3>3. PICK z \in 1 .. Len(s[i]) : flat[y] = s[i][z]
        BY <3>2
      <3>4. s[i][z] \in F[i] /\ s[i][z] \in Nat
        <4>1. Listing(s[i], F[i])
          BY <1>2
        <4>2. s[i] \in Seq(Nat) /\ Pages(s[i]) = F[i]
          BY <4>1 DEF Listing
        <4> QED BY <4>2, SMTT(30) DEF Pages
      <3> QED BY <3>1, <3>3, <3>4
    <2>2. ASSUME NEW x \in Nat, NEW j \in 1 .. k, x \in F[j] PROVE x \in Pages(flat)
      <3>1. Listing(s[j], F[j])
        BY <1>2
      <3>2. PICK z \in 1 .. Len(s[j]) : x = s[j][z]
        BY <2>2, <3>1 DEF Listing, Pages
      <3>3. off[j] + z \in 1 .. Len(flat) /\ flat[off[j] + z] = x
        BY <1>6, <3>2
      <3> QED BY <3>3 DEF Pages
    <2> QED BY <2>1, <2>2
  <1>9. Listing(flat, {x \in Nat : \E j \in 1 .. k : x \in F[j]})
    BY <1>4, <1>7, <1>8 DEF Listing
  <1> QED BY <1>2, <1>3, <1>9

--------------------------------------------------------------------------------
(* What clearing a table frees. *)

\* A tree of pages with their overflow pages.
Hangs ==
    /\ Nodes(node) /\ Levelled(node) /\ OneParent(node) /\ OneChain(node)
    /\ DOMAIN node \cap OvfPages(node) = {}

\* The overflow pages of the cells of some pages.
SpotsOn(S) == {s \in CellSpots(node) : s[1] \in S}
OvfOn(S) == OvfOf(node, SpotsOn(S))

\* The pages below a page, and those with the page.
AllOf(p) == Under(node, p) \cup OvfOn(Under(node, p))
Below(p) == (Under(node, p) \ {p}) \cup OvfOn(Under(node, p))

\* What the j-th place of a page leads to.
OfKid(p, j, x) == ~node[p].leaf /\ x \in AllOf(Child(node[p], j))
OfCell(p, j, x) == j \in 1 .. Len(node[p].cell) /\ x \in Pages(node[p].cell[j].ovf)

\* A page on which a cell of some pages spills.
LEMMA OvfOnIs ==
    ASSUME Nodes(node), NEW S, NEW x
    PROVE  /\ x \in OvfOn(S) => \E s \in CellSpots(node) :
                 s[1] \in S /\ \E a \in 1 .. Len(OvfAt(node, s)) : x = OvfAt(node, s)[a]
           /\ \A s \in CellSpots(node) : \A a \in 1 .. Len(OvfAt(node, s)) :
                 s[1] \in S /\ x = OvfAt(node, s)[a] => x \in OvfOn(S) /\ x \in OvfPages(node)
           /\ x \in OvfOn(S) => x \in OvfPages(node) /\ x \in Nat
  <1>1. x \in OvfOn(S) => \E s \in CellSpots(node) :
                 s[1] \in S /\ \E a \in 1 .. Len(OvfAt(node, s)) : x = OvfAt(node, s)[a]
    BY DEF OvfOn, OvfOf, SpotsOn
  <1>2. ASSUME NEW s \in CellSpots(node), NEW a \in 1 .. Len(OvfAt(node, s)), s[1] \in S, x = OvfAt(node, s)[a]
        PROVE  x \in OvfOn(S) /\ x \in OvfPages(node)
    <2>1. OvfAt(node, s) \in Seq(Nat)
      BY CellSpotType
    <2>2. x \in Nat
      BY <1>2, <2>1
    <2> QED BY <1>2, <2>2 DEF OvfOn, OvfOf, SpotsOn, OvfPages
  <1>3. x \in OvfOn(S) => x \in OvfPages(node) /\ x \in Nat
    BY DEF OvfOn, OvfOf, SpotsOn, OvfPages
  <1> QED BY <1>1, <1>2, <1>3

\* The overflow pages of one cell.
LEMMA OfCellIs ==
    ASSUME Nodes(node), NEW p \in DOMAIN node, NEW j, NEW x, OfCell(p, j, x)
    PROVE  /\ <<p, j>> \in CellSpots(node) /\ x \in OvfPages(node) /\ j \in Turns(node[p])
           /\ \E a \in 1 .. Len(OvfAt(node, <<p, j>>)) : x = OvfAt(node, <<p, j>>)[a]
  <1>1. j \in 1 .. Len(node[p].cell) /\ x \in Pages(node[p].cell[j].ovf)
    BY DEF OfCell
  <1>2. <<p, j>> \in CellSpots(node) /\ OvfAt(node, <<p, j>>) = node[p].cell[j].ovf
    BY <1>1, CellSpotMade
  <1>3. PICK a \in 1 .. Len(OvfAt(node, <<p, j>>)) : x = OvfAt(node, <<p, j>>)[a]
    BY <1>1, <1>2 DEF Pages
  <1>4. <<p, j>>[1] = p
    OBVIOUS
  <1>5. x \in OvfPages(node)
    BY <1>2, <1>3, <1>4, OvfOnIs
  <1>6. j \in Turns(node[p])
    <2>1. Len(node[p].cell) \in Nat
      BY NodeIs
    <2> QED BY <1>1, <2>1 DEF Turns
  <1> QED BY <1>2, <1>3, <1>5, <1>6

\* What hangs from a child is not a page on which a cell of the parent spills.
LEMMA KidOrCell ==
    ASSUME Hangs, NEW p \in DOMAIN node, NEW i \in Turns(node[p]), NEW j, NEW x,
           OfKid(p, i, x), OfCell(p, j, x)
    PROVE  FALSE
  <1>1. Nodes(node) /\ Levelled(node) /\ OneChain(node) /\ DOMAIN node \cap OvfPages(node) = {}
    BY DEF Hangs
  <1>2. PICK c : c = Child(node[p], i)
    OBVIOUS
  <1>3. ~node[p].leaf /\ (x \in Under(node, c) \/ x \in OvfOn(Under(node, c)))
    BY <1>2 DEF OfKid, AllOf
  <1>4. /\ <<p, j>> \in CellSpots(node) /\ x \in OvfPages(node)
        /\ \E a \in 1 .. Len(OvfAt(node, <<p, j>>)) : x = OvfAt(node, <<p, j>>)[a]
    BY <1>1, OfCellIs
  <1>5. x \notin Under(node, c)
    BY <1>1, <1>4 DEF Under
  <1>6. PICK s \in CellSpots(node) :
          s[1] \in Under(node, c) /\ \E a \in 1 .. Len(OvfAt(node, s)) : x = OvfAt(node, s)[a]
    BY <1>1, <1>3, <1>5, OvfOnIs
  <1>7. s = <<p, j>>
    BY <1>1, <1>4, <1>6 DEF OneChain, OnceIn
  <1>8. p \in Under(node, c)
    BY <1>6, <1>7
  <1>9. PICK h, N : Levels(node, h, N)
    BY <1>1 DEF Levelled
  <1>10. c \in DOMAIN node /\ h[c] + 1 = h[p]
    BY <1>2, <1>3, <1>9 DEF Levels
  <1>11. h[p] <= h[c] /\ h[p] \in Nat /\ h[c] \in Nat
    BY <1>8, <1>9, <1>10, UnderLevel
  <1> QED BY <1>10, <1>11

\* Nothing hangs from two places of a page.
LEMMA PlacesApart ==
    ASSUME Hangs, NEW p \in DOMAIN node, NEW i \in Turns(node[p]), NEW j \in Turns(node[p]), NEW x,
           OfKid(p, i, x) \/ OfCell(p, i, x), OfKid(p, j, x) \/ OfCell(p, j, x)
    PROVE  i = j
  <1>1. Nodes(node) /\ Levelled(node) /\ OneParent(node) /\ OneChain(node) /\ DOMAIN node \cap OvfPages(node) = {}
    BY DEF Hangs
  <1>2. CASE OfKid(p, i, x) /\ OfKid(p, j, x)
    <2>1. PICK c, d : c = Child(node[p], i) /\ d = Child(node[p], j)
      OBVIOUS
    <2>2. /\ ~node[p].leaf /\ (x \in Under(node, c) \/ x \in OvfOn(Under(node, c)))
          /\ (x \in Under(node, d) \/ x \in OvfOn(Under(node, d)))
      BY <1>2, <2>1 DEF OfKid, AllOf
    <2>3. x \in OvfOn(Under(node, c)) \/ x \in OvfOn(Under(node, d)) => x \notin DOMAIN node
      BY <1>1, OvfOnIs
    <2>4. CASE x \in DOMAIN node
      <3>1. x \in Under(node, Child(node[p], i)) /\ x \in Under(node, Child(node[p], j))
        BY <2>1, <2>2, <2>3, <2>4
      <3> QED BY <1>1, <2>2, <3>1, UnderApart
    <2>5. CASE x \notin DOMAIN node
      <3>1. x \in OvfOn(Under(node, c)) /\ x \in OvfOn(Under(node, d))
        BY <2>2, <2>5 DEF Under
      <3>2. PICK s \in CellSpots(node) :
              s[1] \in Under(node, c) /\ \E a \in 1 .. Len(OvfAt(node, s)) : x = OvfAt(node, s)[a]
        BY <1>1, <3>1, OvfOnIs
      <3>3. PICK v \in CellSpots(node) :
              v[1] \in Under(node, d) /\ \E a \in 1 .. Len(OvfAt(node, v)) : x = OvfAt(node, v)[a]
        BY <1>1, <3>1, OvfOnIs
      <3>4. s = v
        BY <1>1, <3>2, <3>3 DEF OneChain, OnceIn
      <3>5. s[1] \in Under(node, Child(node[p], i)) /\ s[1] \in Under(node, Child(node[p], j))
        BY <2>1, <3>2, <3>3, <3>4
      <3> QED BY <1>1, <2>2, <3>5, UnderApart
    <2> QED BY <2>4, <2>5
  <1>3. CASE OfCell(p, i, x) /\ OfCell(p, j, x)
    <2>1. /\ <<p, i>> \in CellSpots(node)
          /\ \E a \in 1 .. Len(OvfAt(node, <<p, i>>)) : x = OvfAt(node, <<p, i>>)[a]
      BY <1>1, <1>3, OfCellIs
    <2>2. /\ <<p, j>> \in CellSpots(node)
          /\ \E a \in 1 .. Len(OvfAt(node, <<p, j>>)) : x = OvfAt(node, <<p, j>>)[a]
      BY <1>1, <1>3, OfCellIs
    <2>3. <<p, i>> = <<p, j>>
      BY <1>1, <2>1, <2>2 DEF OneChain, OnceIn
    <2> QED BY <2>3
  <1>4. ~(OfKid(p, i, x) /\ OfCell(p, j, x)) /\ ~(OfKid(p, j, x) /\ OfCell(p, i, x))
    BY KidOrCell
  <1> QED BY <1>2, <1>3, <1>4

\* What is below a page is what its places lead to.
LEMMA BelowIs ==
    ASSUME Hangs, NEW p \in DOMAIN node, NEW x
    PROVE  x \in Below(p) <=> \E j \in Turns(node[p]) : OfKid(p, j, x) \/ OfCell(p, j, x)
  <1>1. Nodes(node) /\ Levelled(node)
    BY DEF Hangs
  <1>2. PICK h, N : Levels(node, h, N)
    BY <1>1 DEF Levelled
  <1>3. ASSUME x \in Under(node, p), x # p
        PROVE  \E j \in Turns(node[p]) : OfKid(p, j, x)
    <2>1. ~node[p].leaf /\ \E j \in Turns(node[p]) : x \in Under(node, Child(node[p], j))
      BY <1>1, <1>3, UnderSplit
    <2> QED BY <2>1 DEF OfKid, AllOf
  <1>4. ASSUME x \in OvfOn(Under(node, p))
        PROVE  \E j \in Turns(node[p]) : OfKid(p, j, x) \/ OfCell(p, j, x)
    <2>1. PICK s \in CellSpots(node) :
            s[1] \in Under(node, p) /\ \E a \in 1 .. Len(OvfAt(node, s)) : x = OvfAt(node, s)[a]
      BY <1>1, <1>4, OvfOnIs
    <2>2. PICK a \in 1 .. Len(OvfAt(node, s)) : x = OvfAt(node, s)[a]
      BY <2>1
    <2>3. s = <<s[1], s[2]>> /\ s[2] \in 1 .. Len(node[s[1]].cell)
      BY CellSpotIs
    <2>4. CASE s[1] = p
      <3>1. Len(node[p].cell) \in Nat
        BY <1>1, NodeIs
      <3>2. s[2] \in Turns(node[p])
        BY <2>3, <2>4, <3>1 DEF Turns
      <3>3. OfCell(p, s[2], x)
        BY <2>2, <2>3, <2>4 DEF OfCell, OvfAt, Pages
      <3> QED BY <3>2, <3>3
    <2>5. CASE s[1] # p
      <3>1. ~node[p].leaf /\ \E j \in Turns(node[p]) : s[1] \in Under(node, Child(node[p], j))
        BY <1>1, <2>1, <2>5, UnderSplit
      <3>2. PICK j \in Turns(node[p]) : s[1] \in Under(node, Child(node[p], j))
        BY <3>1
      <3>3. x \in OvfOn(Under(node, Child(node[p], j)))
        BY <1>1, <2>2, <3>2, OvfOnIs
      <3> QED BY <3>1, <3>3 DEF OfKid, AllOf
    <2> QED BY <2>4, <2>5
  <1>5. ASSUME NEW j \in Turns(node[p]), OfKid(p, j, x)
        PROVE  x \in Below(p)
    <2>1. PICK c : c = Child(node[p], j)
      OBVIOUS
    <2>2. ~node[p].leaf /\ (x \in Under(node, c) \/ x \in OvfOn(Under(node, c)))
      BY <1>5, <2>1 DEF OfKid, AllOf
    <2>3. \A q \in Under(node, c) : q \in Under(node, p)
      BY <1>1, <2>1, <2>2, UnderChild
    <2>4. CASE x \in Under(node, c)
      <3>1. c \in DOMAIN node /\ h[c] + 1 = h[p]
        BY <1>2, <2>1, <2>2 DEF Levels
      <3>2. h[x] <= h[c] /\ h[x] \in Nat /\ h[c] \in Nat
        BY <1>2, <2>4, <3>1, UnderLevel
      <3>3. x # p
        BY <3>1, <3>2
      <3> QED BY <2>3, <2>4, <3>3 DEF Below
    <2>5. CASE x \in OvfOn(Under(node, c))
      <3>1. PICK s \in CellSpots(node) :
              s[1] \in Under(node, c) /\ \E a \in 1 .. Len(OvfAt(node, s)) : x = OvfAt(node, s)[a]
        BY <1>1, <2>5, OvfOnIs
      <3>2. x \in OvfOn(Under(node, p))
        BY <1>1, <2>3, <3>1, OvfOnIs
      <3> QED BY <3>2 DEF Below
    <2> QED BY <2>2, <2>4, <2>5
  <1>6. ASSUME NEW j \in Turns(node[p]), OfCell(p, j, x)
        PROVE  x \in Below(p)
    <2>1. /\ <<p, j>> \in CellSpots(node)
          /\ \E a \in 1 .. Len(OvfAt(node, <<p, j>>)) : x = OvfAt(node, <<p, j>>)[a]
      BY <1>1, <1>6, OfCellIs
    <2>2. <<p, j>>[1] \in Under(node, p)
      BY <1>1, UnderSelf
    <2>3. x \in OvfOn(Under(node, p))
      BY <1>1, <2>1, <2>2, OvfOnIs
    <2> QED BY <2>3 DEF Below
  <1> QED BY <1>3, <1>4, <1>5, <1>6 DEF Below

\* The recursion of clearDatabasePage.
BelowOf(freed, p, j) ==
    IF node[p].leaf THEN << >> ELSE freed[Child(node[p], j)] \o <<Child(node[p], j)>>
PartsOf(freed, p) == [j \in DOMAIN node[p].cell |-> BelowOf(freed, p, j) \o node[p].cell[j].ovf]
PageFreedOf(freed, p) == FlattenSeq(PartsOf(freed, p)) \o BelowOf(freed, p, Len(node[p].cell) + 1)
ClearedOf(freed) == [p \in DOMAIN node |-> PageFreedOf(freed, p)]

KidSet(p, j) == {x \in Nat : OfKid(p, j, x)}
CellSet(p, j) == {x \in Nat : OfCell(p, j, x)}

\* What hangs from a child is listed when what is below the child is.
LEMMA KidListed ==
    ASSUME Hangs, NEW p \in DOMAIN node, NEW j \in Turns(node[p]), NEW freed,
           ~node[p].leaf => Listing(freed[Child(node[p], j)], Below(Child(node[p], j)))
    PROVE  Listing(BelowOf(freed, p, j), KidSet(p, j))
  <1>1. Nodes(node) /\ Levelled(node) /\ DOMAIN node \cap OvfPages(node) = {}
    BY DEF Hangs
  <1>2. CASE node[p].leaf
    <2>1. BelowOf(freed, p, j) = << >> /\ KidSet(p, j) = {}
      BY <1>2 DEF BelowOf, KidSet, OfKid
    <2> QED BY <2>1, ListingNone
  <1>3. CASE ~node[p].leaf
    <2>1. PICK c : c = Child(node[p], j)
      OBVIOUS
    <2>2. c \in DOMAIN node /\ c \in Nat
      <3>1. c \in DOMAIN node
        BY <1>1, <1>3, <2>1 DEF Levelled, Levels
      <3> QED BY <1>1, <3>1 DEF Nodes
    <2>3. Listing(freed[c], Below(c)) /\ Listing(<<c>>, {c})
      BY <1>3, <2>1, <2>2, ListingOne
    <2>4. c \notin Below(c)
      <3>1. c \in OvfOn(Under(node, c)) => c \in OvfPages(node)
        BY <1>1, OvfOnIs
      <3> QED BY <1>1, <2>2, <3>1 DEF Below
    <2>5. Below(c) \cap {c} = {}
      BY <2>4
    <2>6. Listing(freed[c] \o <<c>>, Below(c) \cup {c})
      BY <2>3, <2>5, ListingsJoin
    <2>7. Below(c) \cup {c} = KidSet(p, j)
      <3>1. c \in Under(node, c)
        BY <1>1, <2>2, UnderSelf
      <3>2. Below(c) \cup {c} = AllOf(c)
        BY <3>1 DEF Below, AllOf
      <3>3. AllOf(c) \subseteq Nat
        <4>1. \A x \in OvfOn(Under(node, c)) : x \in Nat
          BY <1>1, OvfOnIs
        <4>2. Under(node, c) \subseteq Nat
          BY <1>1 DEF Under, Nodes
        <4> QED BY <4>1, <4>2 DEF AllOf
      <3> QED BY <1>3, <2>1, <3>2, <3>3 DEF KidSet, OfKid
    <2>8. BelowOf(freed, p, j) = freed[c] \o <<c>>
      BY <1>3, <2>1 DEF BelowOf
    <2> QED BY <2>6, <2>7, <2>8
  <1> QED BY <1>2, <1>3

\* The overflow pages of a cell are listed by the cell.
LEMMA CellListed ==
    ASSUME Hangs, NEW p \in DOMAIN node, NEW j \in 1 .. Len(node[p].cell)
    PROVE  Listing(node[p].cell[j].ovf, CellSet(p, j))
  <1>1. Nodes(node) /\ OneChain(node)
    BY DEF Hangs
  <1>2. <<p, j>> \in CellSpots(node) /\ OvfAt(node, <<p, j>>) = node[p].cell[j].ovf
    BY CellSpotMade
  <1>3. node[p].cell[j].ovf \in Seq(Nat)
    BY <1>1, <1>2, CellSpotType
  <1>4. Pages(node[p].cell[j].ovf) = CellSet(p, j)
    BY <1>3 DEF Pages, CellSet, OfCell
  <1>5. \A a, b \in 1 .. Len(node[p].cell[j].ovf) :
           node[p].cell[j].ovf[a] = node[p].cell[j].ovf[b] => a = b
    BY <1>1, <1>2 DEF OneChain, OnceIn
  <1> QED BY <1>3, <1>4, <1>5 DEF Listing

\* So what is below a page is listed when what is below its children is.
LEMMA PageListedWhole ==
    ASSUME Hangs, NEW p \in DOMAIN node, NEW freed,
           ~node[p].leaf => \A j \in Turns(node[p]) :
                               Listing(freed[Child(node[p], j)], Below(Child(node[p], j)))
    PROVE  Listing(PageFreedOf(freed, p), Below(p))
  <1>1. Nodes(node)
    BY DEF Hangs
  <1>2. PICK n \in Nat : n = Len(node[p].cell) /\ DOMAIN node[p].cell = 1 .. n
    BY <1>1, NodeIs
  <1>3. Turns(node[p]) = 1 .. n + 1
    BY <1>2 DEF Turns
  <1>4. \A j \in 1 .. n + 1 : Listing(BelowOf(freed, p, j), KidSet(p, j))
    BY <1>3, KidListed
  <1>5. \A j \in 1 .. n : j \in 1 .. n + 1
    OBVIOUS
  <1> DEFINE F == [j \in 1 .. n |-> KidSet(p, j) \cup CellSet(p, j)]
             s == PartsOf(freed, p)
  <1>6. \A j \in 1 .. n : Listing(s[j], F[j])
    <2> TAKE j \in 1 .. n
    <2>1. Listing(BelowOf(freed, p, j), KidSet(p, j)) /\ Listing(node[p].cell[j].ovf, CellSet(p, j))
      BY <1>2, <1>4, <1>5, CellListed
    <2>2. KidSet(p, j) \cap CellSet(p, j) = {}
      BY <1>3, <1>5, KidOrCell DEF KidSet, CellSet
    <2>3. Listing(BelowOf(freed, p, j) \o node[p].cell[j].ovf, KidSet(p, j) \cup CellSet(p, j))
      BY <2>1, <2>2, ListingsJoin
    <2>4. s[j] = BelowOf(freed, p, j) \o node[p].cell[j].ovf
      BY <1>2 DEF PartsOf
    <2> QED BY <2>3, <2>4
  <1>7. s \in Seq(Seq(Nat)) /\ Len(s) = n
    <2>1. \A j \in 1 .. n : s[j] \in Seq(Nat)
      BY <1>6 DEF Listing
    <2>2. s = [j \in 1 .. n |-> s[j]]
      BY <1>2 DEF PartsOf
    <2> HIDE DEF s
    <2>3. s \in [1 .. n -> Seq(Nat)]
      BY <2>1, <2>2
    <2> QED BY <2>3
  <1>8. \A i, j \in 1 .. n : \A x : x \in F[i] /\ x \in F[j] => i = j
    <2> SUFFICES ASSUME NEW i \in 1 .. n, NEW j \in 1 .. n, NEW x, x \in F[i], x \in F[j] PROVE i = j
      OBVIOUS
    <2>1. (OfKid(p, i, x) \/ OfCell(p, i, x)) /\ (OfKid(p, j, x) \/ OfCell(p, j, x))
      BY DEF KidSet, CellSet
    <2> QED BY <1>3, <1>5, <2>1, PlacesApart
  <1>9. Listing(FlattenSeq(s), {x \in Nat : \E j \in 1 .. n : x \in F[j]})
    <2> HIDE DEF F, s
    <2>1. \A j \in 1 .. Len(s) : Listing(s[j], F[j])
      BY <1>6, <1>7
    <2>2. \A i, j \in 1 .. Len(s) : \A x : x \in F[i] /\ x \in F[j] => i = j
      BY <1>7, <1>8
    <2>3. Listing(FlattenSeq(s), {x \in Nat : \E j \in 1 .. Len(s) : x \in F[j]})
      BY <1>7, <2>1, <2>2, ListingsFlat
    <2> QED BY <1>7, <2>3
  <1> DEFINE A == {x \in Nat : \E j \in 1 .. n : x \in F[j]}
             B == KidSet(p, n + 1)
  <1>10. A \cap B = {}
    <2>1. SUFFICES ASSUME NEW x \in A, x \in B PROVE FALSE
      OBVIOUS
    <2>2. PICK j \in 1 .. n : x \in F[j]
      OBVIOUS
    <2>3. OfKid(p, j, x) \/ OfCell(p, j, x)
      BY <2>2 DEF KidSet, CellSet
    <2>4. OfKid(p, n + 1, x)
      BY <2>1 DEF KidSet
    <2>5. n + 1 \in 1 .. n + 1
      OBVIOUS
    <2>6. j = n + 1
      BY <1>3, <1>5, <2>3, <2>4, <2>5, PlacesApart
    <2> QED BY <2>6
  <1>11. Listing(BelowOf(freed, p, n + 1), B)
    <2>1. n + 1 \in 1 .. n + 1
      OBVIOUS
    <2> QED BY <1>4, <2>1
  <1>12. Listing(FlattenSeq(s) \o BelowOf(freed, p, n + 1), A \cup B)
    <2>1. Listing(FlattenSeq(s), A)
      BY <1>9
    <2> HIDE DEF s, A, B
    <2> QED BY <1>10, <1>11, <2>1, ListingsJoin
  <1>13. A \cup B = Below(p)
    <2>1. ASSUME NEW x \in A \cup B PROVE x \in Below(p)
      <3>1. CASE x \in B
        <4>1. OfKid(p, n + 1, x) /\ n + 1 \in 1 .. n + 1
          BY <3>1 DEF KidSet
        <4> QED BY <1>3, <4>1, BelowIs
      <3>2. CASE x \in A
        <4>1. PICK j \in 1 .. n : x \in F[j]
          BY <3>2
        <4>2. OfKid(p, j, x) \/ OfCell(p, j, x)
          BY <4>1 DEF KidSet, CellSet
        <4> QED BY <1>3, <1>5, <4>2, BelowIs
      <3> QED BY <2>1, <3>1, <3>2
    <2>2. ASSUME NEW x \in Below(p) PROVE x \in A \cup B
      <3>1. x \in Nat
        <4>1. x \in OvfOn(Under(node, p)) => x \in Nat
          BY <1>1, OvfOnIs
        <4> QED BY <1>1, <4>1 DEF Below, Under, Nodes
      <3>2. PICK j \in 1 .. n + 1 : OfKid(p, j, x) \/ OfCell(p, j, x)
        BY <1>3, <2>2, BelowIs
      <3>3. CASE j \in 1 .. n
        <4>1. x \in F[j]
          BY <3>1, <3>2, <3>3 DEF KidSet, CellSet
        <4> QED BY <3>1, <3>3, <4>1
      <3>4. CASE j \notin 1 .. n
        <4>1. j = n + 1
          BY <3>4
        <4>2. ~OfCell(p, n + 1, x)
          BY <1>2 DEF OfCell
        <4> QED BY <3>1, <3>2, <4>1, <4>2 DEF KidSet
      <3> QED BY <3>3, <3>4
    <2> QED BY <2>1, <2>2
  <1>14. PageFreedOf(freed, p) = FlattenSeq(s) \o BelowOf(freed, p, n + 1)
    BY <1>2 DEF PageFreedOf
  <1> QED BY <1>12, <1>13, <1>14

\* What one page frees is a list of pages.
LEMMA PageFreedType ==
    ASSUME Hangs, NEW p \in DOMAIN node, NEW freed \in [DOMAIN node -> Seq(Nat)]
    PROVE  PageFreedOf(freed, p) \in Seq(Nat)
  <1>1. Nodes(node) /\ Levelled(node)
    BY DEF Hangs
  <1>2. PICK n \in Nat : n = Len(node[p].cell) /\ DOMAIN node[p].cell = 1 .. n /\ node[p].cell \in Seq(CellType)
    BY <1>1, NodeIs
  <1>3. Turns(node[p]) = 1 .. n + 1
    BY <1>2 DEF Turns
  <1>4. \A j \in 1 .. n + 1 : BelowOf(freed, p, j) \in Seq(Nat)
    <2> TAKE j \in 1 .. n + 1
    <2>1. CASE node[p].leaf
      BY <2>1 DEF BelowOf
    <2>2. CASE ~node[p].leaf
      <3>1. PICK c : c = Child(node[p], j)
        OBVIOUS
      <3>2. c \in DOMAIN node
        BY <1>1, <1>3, <2>2, <3>1 DEF Levelled, Levels
      <3>3. c \in Nat
        BY <1>1, <3>2 DEF Nodes
      <3>4. freed[c] \in Seq(Nat) /\ <<c>> \in Seq(Nat)
        BY <3>2, <3>3
      <3>5. freed[c] \o <<c>> \in Seq(Nat)
        BY <3>4
      <3> QED BY <2>2, <3>1, <3>5 DEF BelowOf
    <2> QED BY <2>1, <2>2
  <1>5. PICK s : s = PartsOf(freed, p)
    OBVIOUS
  <1>6. s \in Seq(Seq(Nat))
    <2>1. ASSUME NEW j \in 1 .. n PROVE s[j] \in Seq(Nat)
      <3>1. node[p].cell[j] \in CellType
        BY <1>2
      <3>2. node[p].cell[j].ovf \in Seq(Nat)
        BY <3>1 DEF CellType
      <3>3. BelowOf(freed, p, j) \in Seq(Nat)
        BY <1>4
      <3>4. BelowOf(freed, p, j) \o node[p].cell[j].ovf \in Seq(Nat)
        BY <3>2, <3>3
      <3>5. s[j] = BelowOf(freed, p, j) \o node[p].cell[j].ovf
        BY <1>2, <1>5 DEF PartsOf
      <3> QED BY <3>4, <3>5
    <2>2. s = [j \in 1 .. n |-> s[j]]
      BY <1>2, <1>5 DEF PartsOf
    <2>3. s \in [1 .. n -> Seq(Nat)]
      BY <2>1, <2>2
    <2> QED BY <2>3
  <1>7. PICK off : RunsThrough(Nat, s, Len(s), FlattenSeq(s), off)
    BY <1>6, FlattenIs
  <1>8. FlattenSeq(s) \in Seq(Nat)
    BY <1>7 DEF RunsThrough
  <1>9. BelowOf(freed, p, n + 1) \in Seq(Nat)
    BY <1>4
  <1>10. FlattenSeq(s) \o BelowOf(freed, p, n + 1) \in Seq(Nat)
    BY <1>8, <1>9
  <1> QED BY <1>2, <1>5, <1>10 DEF PageFreedOf

\* It depends on what the page's children free.
LEMMA PageFreedSame ==
    ASSUME Hangs, NEW p \in DOMAIN node, NEW f, NEW g,
           ~node[p].leaf => \A j \in Turns(node[p]) : f[Child(node[p], j)] = g[Child(node[p], j)]
    PROVE  PageFreedOf(f, p) = PageFreedOf(g, p)
  <1>1. Nodes(node)
    BY DEF Hangs
  <1>2. PICK n \in Nat : n = Len(node[p].cell) /\ DOMAIN node[p].cell = 1 .. n
    BY <1>1, NodeIs
  <1>3. \A j \in 1 .. n + 1 : BelowOf(f, p, j) = BelowOf(g, p, j)
    BY <1>2 DEF BelowOf, Turns
  <1>4. \A j \in 1 .. n : j \in 1 .. n + 1
    OBVIOUS
  <1>5. PartsOf(f, p) = PartsOf(g, p)
    BY <1>2, <1>3, <1>4 DEF PartsOf
  <1>6. n + 1 \in 1 .. n + 1
    OBVIOUS
  <1> QED BY <1>2, <1>3, <1>5, <1>6 DEF PageFreedOf

\* The recursion has a solution.
LEMMA ClearedExists ==
    ASSUME Hangs
    PROVE  \E freed : freed = ClearedOf(freed)
  <1>1. PICK h, N : Levels(node, h, N)
    BY DEF Hangs, Levelled
  <1> DEFINE D == DOMAIN node
             S == Seq(Nat)
             G == [p \in D |-> [s \in [D -> S] |-> PageFreedOf(s, p)]]
  <1>2. N \in Nat /\ h \in [D -> 0 .. N] /\ S # {}
    <2>1. << >> \in S
      OBVIOUS
    <2> QED BY <1>1, <2>1 DEF Levels
  <1>3. G \in [D -> [[D -> S] -> S]]
    <2>1. \A p \in D : \A s \in [D -> S] : PageFreedOf(s, p) \in S
      BY PageFreedType
    <2> QED BY <2>1
  <1>4. \A p \in D : \A f, g \in [D -> S] :
           (\A q \in D : h[q] < h[p] => f[q] = g[q]) => G[p][f] = G[p][g]
    <2> SUFFICES ASSUME NEW p \in D, NEW f \in [D -> S], NEW g \in [D -> S],
                        \A q \in D : h[q] < h[p] => f[q] = g[q]
                 PROVE  G[p][f] = G[p][g]
      OBVIOUS
    <2>1. ASSUME ~node[p].leaf, NEW j \in Turns(node[p])
          PROVE  f[Child(node[p], j)] = g[Child(node[p], j)]
      <3>1. PICK c : c = Child(node[p], j)
        OBVIOUS
      <3>2. c \in D /\ h[c] + 1 = h[p]
        BY <1>1, <2>1, <3>1 DEF Levels
      <3>3. h[c] \in Nat /\ h[p] \in Nat
        BY <1>2, <3>2
      <3>4. h[c] < h[p]
        BY <3>2, <3>3
      <3> QED BY <3>1, <3>2, <3>4
    <2>2. PageFreedOf(f, p) = PageFreedOf(g, p)
      BY <2>1, PageFreedSame
    <2> QED BY <2>2
  <1>5. Recursive(D, S, N, h, G)
    <2> HIDE DEF G, S, D
    <2> QED BY <1>2, <1>3, <1>4 DEF Recursive
  <1>6. PICK freed : Solves(D, S, G, freed)
    <2> HIDE DEF G, S, D
    <2> QED BY <1>5, RecursionExists
  <1>7. freed = ClearedOf(freed)
    BY <1>6 DEF Solves, ClearedOf
  <1> QED BY <1>7

\* Clearing the table frees every page but the root once.
LEMMA ClearedIs ==
    ASSUME Hangs
    PROVE  Listing(clearDatabasePage(ROOT), Below(ROOT))
  <1>1. PICK h, N : Levels(node, h, N)
    BY DEF Hangs, Levelled
  <1>2. PICK freed : freed = (CHOOSE f : f = ClearedOf(f))
    OBVIOUS
  <1>3. freed = ClearedOf(freed)
    BY <1>2, ClearedExists
  <1>4. clearDatabasePage(ROOT) = freed[ROOT]
    BY <1>2 DEF clearDatabasePage, ClearedOf, PageFreedOf, PartsOf, BelowOf
  <1>5. \A p \in DOMAIN node : freed[p] = PageFreedOf(freed, p)
    BY <1>3 DEF ClearedOf
  <1>6. \A p \in DOMAIN node : h[p] \in Nat
    BY <1>1 DEF Levels
  <1> DEFINE T == {h[p] : p \in {q \in DOMAIN node : ~Listing(freed[q], Below(q))}}
  <1>7. ASSUME T # {} PROVE FALSE
    <2>1. T \subseteq Nat
      BY <1>6
    <2>2. PICK n \in T : \A x \in T : n <= x
      <3> HIDE DEF T
      <3> QED BY <1>7, <2>1, LeastOf
    <2>3. PICK p \in DOMAIN node : ~Listing(freed[p], Below(p)) /\ n = h[p]
      BY <2>2
    <2>4. ASSUME ~node[p].leaf, NEW j \in Turns(node[p])
          PROVE  Listing(freed[Child(node[p], j)], Below(Child(node[p], j)))
      <3>1. PICK c : c = Child(node[p], j)
        OBVIOUS
      <3>2. c \in DOMAIN node /\ h[c] + 1 = h[p]
        BY <1>1, <2>4, <3>1 DEF Levels
      <3>3. ~(h[p] <= h[c])
        BY <1>6, <3>2
      <3>4. h[c] \notin T
        <4> HIDE DEF T
        <4> QED BY <2>2, <2>3, <3>3
      <3> QED BY <3>1, <3>2, <3>4
    <2>5. Listing(PageFreedOf(freed, p), Below(p))
      BY <2>4, PageListedWhole
    <2> QED BY <1>5, <2>3, <2>5
  <1>8. ROOT \in DOMAIN node
    BY DEF Hangs, Nodes
  <1> QED BY <1>4, <1>7, <1>8

\* Clearing the table leaves an empty one and every cursor saved.
LEMMA ClearKeeps ==
    ASSUME BtreeInv, sqlite3BtreeClearTable
    PROVE  BtreeInv'
  <1>1. /\ op = Idle /\ writes < scene.writes /\ writes' = writes + 1
        /\ file' = FreeMany(file, clearDatabasePage(ROOT))
        /\ node' = [pg \in {ROOT} |-> Leaf(<< >>)]
        /\ cur' = [c \in Cursors |-> saveCursorPosition(cur[c])]
        /\ UNCHANGED <<scene, op>>
    BY DEF sqlite3BtreeClearTable
  <1>2. TreeIn(intkey, node, file) /\ writes \in 0 .. scene.writes /\ scene \in Scenes
    BY DEF BtreeInv
  <1>3. /\ Hangs /\ FileOK(file) /\ Used(file) = (DOMAIN node \ {ROOT}) \cup OvfPages(node)
        /\ DOMAIN node \cap OvfPages(node) = {} /\ Nodes(node) /\ Levelled(node) /\ OneParent(node)
    BY <1>2 DEF TreeIn, Owned, Hangs
  <1>4. PICK s : s = clearDatabasePage(ROOT)
    OBVIOUS
  <1>5. Below(ROOT) = Used(file)
    <2>1. Under(node, ROOT) = DOMAIN node
      BY <1>3, UnderRoot
    <2>2. SpotsOn(DOMAIN node) = CellSpots(node)
      BY CellSpotIs DEF SpotsOn
    <2> QED BY <1>3, <2>1, <2>2 DEF Below, OvfOn, OvfPages
  <1>6. Listing(s, Used(file))
    BY <1>3, <1>4, <1>5, ClearedIs
  <1>7. AreUsed(file, s) /\ {s[i] : i \in 1 .. Len(s)} = Used(file)
    <2>1. s \in Seq(Nat) /\ Pages(s) = Used(file) /\ \A i, j \in 1 .. Len(s) : s[i] = s[j] => i = j
      BY <1>6 DEF Listing
    <2>2. \A i \in 1 .. Len(s) : s[i] \in Used(file)
      BY <2>1 DEF Pages
    <2> QED BY <2>1, <2>2 DEF AreUsed, Pages
  <1>8. FileOK(file') /\ Used(file') = {}
    BY <1>1, <1>3, <1>4, <1>7, ManyFreed
  <1>9. TreeIn(intkey, node', file') /\ IdleFits(node')
    BY <1>1, <1>8, EmptyTree
  <1>10. CursorsIn(intkey, node', cur', op')
    <2>1. \A c \in Cursors : /\ cur'[c] = saveCursorPosition(cur[c])
                             /\ saveCursorPosition(cur[c]) \in CursorType
                             /\ SoundIn(intkey, node', saveCursorPosition(cur[c]))
      BY <1>1, OthersSaved
    <2>2. cur' \in [Cursors -> CursorType]
      BY <1>1, <2>1
    <2> QED BY <1>1, <2>1, <2>2 DEF CursorsIn
  <1>11. TreeLeft(node', file', cur', op')
    BY <1>1, <1>9, <1>10 DEF TreeLeft
  <1>12. writes' \in 0 .. scene.writes
    <2>1. scene.writes \in Nat
      BY <1>2, SceneIs
    <2> QED BY <1>1, <1>2, <2>1
  <1> QED BY <1>1, <1>11, <1>12, InvLeft

--------------------------------------------------------------------------------
(* The pages of siblings in ascending order. *)

\* A list has as many places as pages.
LEMMA ListingCount ==
    ASSUME NEW s, NEW S, Listing(s, S)
    PROVE  IsFiniteSet(S) /\ Cardinality(S) = Len(s) /\ S \subseteq Nat
  <1>1. s \in Seq(Nat) /\ Pages(s) = S /\ \A i, j \in 1 .. Len(s) : s[i] = s[j] => i = j
    BY DEF Listing
  <1>2. PICK n \in Nat : n = Len(s)
    BY <1>1
  <1>3. DOMAIN s = 1 .. n /\ \A i \in 1 .. n : s[i] \in S /\ s[i] \in Nat
    <2>1. s \in Seq(Nat)
      BY <1>1
    <2>2. DOMAIN s = 1 .. n /\ \A i \in 1 .. n : s[i] \in Nat
      BY <1>2, <2>1
    <2> QED BY <1>1, <1>2, <2>2 DEF Pages
  <1>4. s \in [1 .. n -> S]
    <2>1. s = [i \in 1 .. n |-> s[i]]
      <3>1. s \in Seq(Nat)
        BY <1>1
      <3> QED BY <1>2, <3>1
    <2> QED BY <1>3, <2>1
  <1>5. \A x \in S : \E i \in 1 .. n : s[i] = x
    BY <1>1, <1>2 DEF Pages
  <1>6. s \in Bijection(1 .. n, S)
    BY <1>1, <1>2, <1>3, <1>4, <1>5 DEF Bijection, Injection, Surjection, IsInjective
  <1>7. ExistsBijection(1 .. n, S)
    BY <1>6 DEF ExistsBijection
  <1>8. IsFiniteSet(S) /\ Cardinality(S) = n
    BY <1>7, FS_NatBijection, FS_CountingElements
  <1>9. S \subseteq Nat
    BY <1>1, <1>3 DEF Pages
  <1> QED BY <1>2, <1>8, <1>9

Rank(S, p) == Cardinality({q \in S : q <= p})

\* Greater pages rank higher.
LEMMA RankIs ==
    ASSUME NEW S, S \subseteq Nat, IsFiniteSet(S), NEW k \in Nat, Cardinality(S) = k
    PROVE  /\ \A p \in S : Rank(S, p) \in 1 .. k
           /\ \A p, r \in S : Rank(S, p) = Rank(S, r) => p = r
  <1>1. ASSUME NEW p \in S
        PROVE  IsFiniteSet({q \in S : q <= p}) /\ Rank(S, p) \in 1 .. k /\ Rank(S, p) \in Nat
    <2> DEFINE T == {q \in S : q <= p}
    <2>1. T \in SUBSET S /\ p \in T
      OBVIOUS
    <2> HIDE DEF T
    <2>2. IsFiniteSet(T) /\ Cardinality(T) <= k
      BY <2>1, FS_Subset
    <2>3. Cardinality(T) \in Nat
      BY <2>2, FS_CardinalityType
    <2>4. Cardinality(T) # 0
      BY <2>1, <2>2, FS_EmptySet
    <2>5. Cardinality(T) \in 1 .. k
      BY <2>2, <2>3, <2>4
    <2> QED BY <2>2, <2>3, <2>5 DEF T, Rank
  <1>2. ASSUME NEW p \in S, NEW r \in S, p < r
        PROVE  Rank(S, p) # Rank(S, r)
    <2> DEFINE T == {q \in S : q <= p}
               V == {q \in S : q <= r}
    <2>1. T \in SUBSET V /\ r \in V /\ r \notin T
      <3>1. \A q \in S : q \in Nat
        OBVIOUS
      <3>2. \A q \in S : q <= p => q <= r
        BY <1>2, <3>1
      <3>3. ~(r <= p) /\ r <= r
        BY <1>2, <3>1
      <3> QED BY <3>2, <3>3
    <2>2. IsFiniteSet(V)
      BY <1>1
    <2> HIDE DEF T, V
    <2>3. Cardinality(V) = Cardinality(T) => V = T
      BY <2>1, <2>2, FS_Subset
    <2>4. Cardinality(V) # Cardinality(T)
      BY <2>1, <2>3
    <2> QED BY <2>4 DEF T, V, Rank
  <1>3. ASSUME NEW p \in S, NEW r \in S, Rank(S, p) = Rank(S, r)
        PROVE  p = r
    <2>1. p \in Nat /\ r \in Nat
      OBVIOUS
    <2>2. ~(p < r)
      BY <1>2, <1>3
    <2>3. ~(r < p)
      BY <1>2, <1>3
    <2> QED BY <2>1, <2>2, <2>3
  <1> QED BY <1>1, <1>3

\* Ascending lists the pages of a set.
LEMMA AscendingIs ==
    ASSUME NEW S, S \subseteq Nat, IsFiniteSet(S), NEW k \in Nat, Cardinality(S) = k
    PROVE  /\ Ascending(S) \in [1 .. k -> S]
           /\ \A i, j \in 1 .. k : Ascending(S)[i] = Ascending(S)[j] => i = j
           /\ \A p \in S : \E i \in 1 .. k : Ascending(S)[i] = p
  <1>1. /\ \A p \in S : Rank(S, p) \in 1 .. k
        /\ \A p, r \in S : Rank(S, p) = Rank(S, r) => p = r
    BY RankIs
  <1> DEFINE f == [p \in S |-> Rank(S, p)]
  <1>2. f \in Injection(S, 1 .. k)
    BY <1>1 DEF Injection, IsInjective
  <1>3. IsFiniteSet(1 .. k) /\ Cardinality(1 .. k) = k
    BY FS_Interval
  <1>4. f \in Surjection(S, 1 .. k)
    <2> HIDE DEF f
    <2> QED BY <1>2, <1>3, FS_Injection
  <1>5. \A i \in 1 .. k : \E p \in S : Rank(S, p) = i
    BY <1>4 DEF Surjection
  <1>6. Ascending(S) = [i \in 1 .. k |-> CHOOSE p \in S : Rank(S, p) = i]
    BY DEF Ascending, Rank
  <1>7. \A i \in 1 .. k : Ascending(S)[i] \in S /\ Rank(S, Ascending(S)[i]) = i
    BY <1>5, <1>6
  <1>8. Ascending(S) \in [1 .. k -> S]
    BY <1>6, <1>7
  <1>9. \A p \in S : \E i \in 1 .. k : Ascending(S)[i] = p
    BY <1>1, <1>7
  <1> QED BY <1>7, <1>8, <1>9

--------------------------------------------------------------------------------
(* The siblings. *)

Family(P, d, k, olds) ==
    /\ P \in DOMAIN node /\ ~node[P].leaf /\ d \in Nat /\ k \in Nat \ {0}
    /\ d + k <= Len(node[P].cell) + 1
    /\ olds = [j \in 1 .. k |-> Child(node[P], d + j)]

\* Siblings are different pages, all leaves or none, and not the parent.
LEMMA FamilyIs ==
    ASSUME Nodes(node), Levelled(node), OneParent(node), NEW P, NEW d, NEW k, NEW olds, Family(P, d, k, olds)
    PROVE  /\ olds \in Seq(Nat) /\ Len(olds) = k /\ DOMAIN olds = 1 .. k
           /\ \A i \in 1 .. k : /\ olds[i] \in DOMAIN node /\ olds[i] # ROOT /\ olds[i] # P
                                /\ olds[i] = Child(node[P], d + i) /\ d + i \in Turns(node[P])
           /\ \A i, j \in 1 .. k : olds[i] = olds[j] => i = j
           /\ \A i, j \in 1 .. k : node[olds[i]].leaf = node[olds[j]].leaf
           /\ P \in Nat /\ Len(node[P].cell) \in Nat
  <1>1. PICK h, N : Levels(node, h, N)
    BY DEF Levelled
  <1>2. /\ P \in DOMAIN node /\ ~node[P].leaf /\ d \in Nat /\ k \in Nat \ {0}
        /\ d + k <= Len(node[P].cell) + 1 /\ olds = [j \in 1 .. k |-> Child(node[P], d + j)]
    BY DEF Family
  <1>3. PICK n \in Nat : n = Len(node[P].cell) /\ P \in Nat
    BY <1>2, NodeIs
  <1>4. \A i \in 1 .. k : d + i \in 1 .. n + 1
    BY <1>2, <1>3
  <1>5. \A i \in 1 .. k : d + i \in Turns(node[P])
    BY <1>3, <1>4 DEF Turns
  <1>6. \A i \in 1 .. k : olds[i] = Child(node[P], d + i)
    BY <1>2
  <1>7. \A i \in 1 .. k : olds[i] \in DOMAIN node /\ olds[i] # ROOT /\ h[olds[i]] + 1 = h[P]
    BY <1>1, <1>2, <1>5, <1>6 DEF Levels
  <1>8. \A i \in 1 .. k : olds[i] \in Nat /\ h[olds[i]] \in Nat /\ h[P] \in Nat
    BY <1>1, <1>2, <1>7 DEF Levels, Nodes
  <1>9. \A i \in 1 .. k : olds[i] # P
    BY <1>7, <1>8
  <1>10. \A i, j \in 1 .. k : olds[i] = olds[j] => i = j
    <2> SUFFICES ASSUME NEW i \in 1 .. k, NEW j \in 1 .. k, olds[i] = olds[j] PROVE i = j
      OBVIOUS
    <2>1. /\ <<P, d + i>> \in KidSpots(node) /\ KidAt(node, <<P, d + i>>) = olds[i]
          /\ <<P, d + j>> \in KidSpots(node) /\ KidAt(node, <<P, d + j>>) = olds[j]
      BY <1>2, <1>3, <1>4, <1>6, KidSpotMade
    <2>2. <<P, d + i>> = <<P, d + j>>
      BY <2>1 DEF OneParent
    <2>3. d + i = d + j
      BY <2>2
    <2> QED BY <1>2, <2>3
  <1>11. \A i, j \in 1 .. k : node[olds[i]].leaf = node[olds[j]].leaf
    <2> SUFFICES ASSUME NEW i \in 1 .. k, NEW j \in 1 .. k PROVE node[olds[i]].leaf = node[olds[j]].leaf
      OBVIOUS
    <2>1. h[olds[i]] = h[olds[j]]
      BY <1>7, <1>8
    <2>2. (node[olds[i]].leaf <=> h[olds[i]] = 0) /\ (node[olds[j]].leaf <=> h[olds[j]] = 0)
      BY <1>1, <1>7 DEF Levels
    <2>3. node[olds[i]].leaf \in BOOLEAN /\ node[olds[j]].leaf \in BOOLEAN
      BY <1>7, NodeIs
    <2> QED BY <2>1, <2>2, <2>3
  <1>12. olds \in Seq(Nat) /\ Len(olds) = k /\ DOMAIN olds = 1 .. k
    <2>1. olds \in [1 .. k -> Nat] /\ k \in Nat
      BY <1>2, <1>6, <1>8
    <2> QED BY <2>1
  <1> QED BY <1>3, <1>5, <1>6, <1>7, <1>9, <1>10, <1>11, <1>12

SkipIs(skip, olds) == skip = IF intkey /\ node[olds[1]].leaf THEN 0 ELSE 1

\* The cells of the siblings with the dividers between them, by their places.
Gather(P, d, k, olds, skip, cells, st) ==
    /\ cells \in Seq(CellType)
    /\ st \in [1 .. k + 1 -> Nat] /\ st[1] = 0 /\ st[k + 1] = Len(cells) + skip
    /\ \A i \in 1 .. k :
          /\ st[i + 1] = st[i] + Len(node[olds[i]].cell) + skip
          /\ \A x \in 1 .. Len(node[olds[i]].cell) : cells[st[i] + x] = node[olds[i]].cell[x]
    /\ \A i \in 1 .. k - 1 : skip = 1 =>
          cells[st[i + 1]] = [node[P].cell[d + i] EXCEPT !.left = IF node[olds[1]].leaf THEN 0 ELSE node[olds[i]].right]

GatheredCells(cells, P, d, k, olds) == cells = Gathered(olds, SubSeq(node[P].cell, d + 1, d + k - 1))

\* One run of cells with the divider after it.
RunOf(P, d, k, olds, i) ==
    node[olds[i]].cell
    \o (IF i = k \/ (intkey /\ node[olds[1]].leaf) THEN << >>
        ELSE <<[node[P].cell[d + i] EXCEPT !.left = IF node[olds[1]].leaf THEN 0 ELSE node[olds[i]].right]>>)

\* A run has the cells of a sibling and, but for the last, its divider.
LEMMA RunIs ==
    ASSUME Nodes(node), Levelled(node), OneParent(node), NEW P, NEW d, NEW k, NEW olds, Family(P, d, k, olds),
           NEW skip, SkipIs(skip, olds), NEW i \in 1 .. k
    PROVE  LET s == RunOf(P, d, k, olds, i)
               len == Len(node[olds[i]].cell)
           IN /\ s \in Seq(CellType) /\ len \in Nat
              /\ Len(s) = len + (IF i = k THEN 0 ELSE skip)
              /\ \A x \in 1 .. len : s[x] = node[olds[i]].cell[x]
              /\ i # k /\ skip = 1 =>
                    s[len + 1] = [node[P].cell[d + i] EXCEPT !.left =
                                    IF node[olds[1]].leaf THEN 0 ELSE node[olds[i]].right]
  <1>1. /\ olds[i] \in DOMAIN node /\ P \in DOMAIN node /\ k \in Nat \ {0} /\ d \in Nat
        /\ Len(node[P].cell) \in Nat /\ d + k <= Len(node[P].cell) + 1
    BY FamilyIs DEF Family
  <1>2. node[olds[i]].cell \in Seq(CellType) /\ node[olds[i]].right \in Nat /\ Len(node[olds[i]].cell) \in Nat
    BY <1>1, NodeIs
  <1>3. PICK c : c = [node[P].cell[d + i] EXCEPT !.left = IF node[olds[1]].leaf THEN 0 ELSE node[olds[i]].right]
    OBVIOUS
  <1>4. PICK cells \in Seq(CellType) : cells = node[olds[i]].cell
    BY <1>2
  <1>5. i # k => c \in CellType
    <2> SUFFICES ASSUME i # k PROVE c \in CellType
      OBVIOUS
    <2>1. d + i \in 1 .. Len(node[P].cell)
      BY <1>1
    <2>2. node[P].cell \in Seq(CellType)
      BY <1>1, NodeIs
    <2>3. node[P].cell[d + i] \in CellType
      BY <2>1, <2>2
    <2>4. PICK left \in Nat : left = IF node[olds[1]].leaf THEN 0 ELSE node[olds[i]].right
      BY <1>2
    <2> QED BY <1>3, <2>3, <2>4 DEF CellType
  <1>6. CASE i = k \/ (intkey /\ node[olds[1]].leaf)
    <2>1. RunOf(P, d, k, olds, i) = cells
      <3>1. cells \o << >> = cells
        OBVIOUS
      <3> QED BY <1>4, <1>6, <3>1 DEF RunOf
    <2>2. i = k \/ skip = 0
      BY <1>6 DEF SkipIs
    <2> QED BY <1>2, <1>4, <2>1, <2>2
  <1>7. CASE ~(i = k \/ (intkey /\ node[olds[1]].leaf))
    <2>1. RunOf(P, d, k, olds, i) = cells \o <<c>>
      BY <1>3, <1>4, <1>7 DEF RunOf
    <2>2. skip = 1 /\ i # k
      BY <1>7 DEF SkipIs
    <2>3. c \in CellType
      BY <1>5, <2>2
    <2>4. /\ cells \o <<c>> \in Seq(CellType) /\ Len(cells \o <<c>>) = Len(cells) + 1
          /\ \A x \in 1 .. Len(cells) : (cells \o <<c>>)[x] = cells[x]
          /\ (cells \o <<c>>)[Len(cells) + 1] = c
      BY <2>3
    <2> QED BY <1>2, <1>3, <1>4, <2>1, <2>2, <2>4
  <1> QED BY <1>6, <1>7

\* Gathered gathers.
LEMMA GatheredIs ==
    ASSUME Nodes(node), Levelled(node), OneParent(node), NEW P, NEW d, NEW k, NEW olds, Family(P, d, k, olds),
           NEW skip, SkipIs(skip, olds), NEW cells, GatheredCells(cells, P, d, k, olds)
    PROVE  \E st : Gather(P, d, k, olds, skip, cells, st)
  <1>1. /\ olds \in Seq(Nat) /\ Len(olds) = k /\ DOMAIN olds = 1 .. k /\ k \in Nat \ {0} /\ d \in Nat
        /\ Len(node[P].cell) \in Nat /\ d + k <= Len(node[P].cell) + 1 /\ P \in DOMAIN node
    <2>1. /\ olds \in Seq(Nat) /\ Len(olds) = k
      BY FamilyIs
    <2>2. DOMAIN olds = 1 .. k
      BY <2>1
    <2>3. k \in Nat \ {0} /\ d \in Nat /\ P \in DOMAIN node /\ d + k <= Len(node[P].cell) + 1
      BY DEF Family
    <2>4. Len(node[P].cell) \in Nat
      BY <2>3, NodeIs
    <2> QED BY <2>1, <2>2, <2>3, <2>4
  <1>2. PICK s : s = [i \in 1 .. k |-> RunOf(P, d, k, olds, i)]
    OBVIOUS
  <1>3. cells = FlattenSeq(s)
    <2>1. PICK dividers : dividers = SubSeq(node[P].cell, d + 1, d + k - 1)
      OBVIOUS
    <2>2. \A j \in 1 .. k - 1 : dividers[j] = node[P].cell[d + j]
      <3>1. node[P].cell \in Seq(CellType)
        BY <1>1, NodeIs
      <3>2. PICK n \in Nat : n = Len(node[P].cell)
        BY <1>1
      <3>3. d \in 0 .. n /\ d + k - 1 \in 0 .. n /\ d <= d + k - 1 /\ d + k - 1 - d = k - 1
        BY <1>1, <3>2
      <3>4. LET t == SubSeq(node[P].cell, d + 1, d + k - 1) IN
            \A j \in 1 .. (d + k - 1) - d : t[j] = node[P].cell[d + j]
        BY <3>1, <3>2, <3>3, PartOfCells
      <3>5. LET t == SubSeq(node[P].cell, d + 1, d + k - 1) IN
            \A j \in 1 .. k - 1 : t[j] = node[P].cell[d + j]
        <4>1. 1 .. (d + k - 1) - d = 1 .. k - 1
          BY <1>1, <3>2
        <4> QED BY <3>4, <4>1
      <3> QED BY <2>1, <3>5
    <2>3. ASSUME NEW j \in 1 .. k
          PROVE  node[olds[j]].cell
                 \o (IF j = Len(olds) \/ (intkey /\ node[olds[1]].leaf) THEN << >>
                     ELSE <<[dividers[j] EXCEPT !.left = IF node[olds[1]].leaf THEN 0 ELSE node[olds[j]].right]>>)
                 = s[j]
      <3>1. CASE j = k
        BY <1>1, <1>2, <3>1 DEF RunOf
      <3>2. CASE j # k
        <4>1. j \in 1 .. k - 1
          BY <1>1, <3>2
        <4>2. dividers[j] = node[P].cell[d + j]
          BY <2>2, <4>1
        <4> QED BY <1>1, <1>2, <3>2, <4>2 DEF RunOf
      <3> QED BY <3>1, <3>2
    <2>4. Gathered(olds, dividers)
          = FlattenSeq([j \in 1 .. k |->
               node[olds[j]].cell
                 \o (IF j = Len(olds) \/ (intkey /\ node[olds[1]].leaf) THEN << >>
                     ELSE <<[dividers[j] EXCEPT !.left = IF node[olds[1]].leaf THEN 0 ELSE node[olds[j]].right]>>)])
      BY <1>1 DEF Gathered
    <2>5. [j \in 1 .. k |->
               node[olds[j]].cell
                 \o (IF j = Len(olds) \/ (intkey /\ node[olds[1]].leaf) THEN << >>
                     ELSE <<[dividers[j] EXCEPT !.left = IF node[olds[1]].leaf THEN 0 ELSE node[olds[j]].right]>>)]
          = s
      BY <1>2, <2>3
    <2> QED BY <2>1, <2>4, <2>5 DEF GatheredCells
  <1>4. \A i \in 1 .. k :
              /\ s[i] \in Seq(CellType) /\ Len(node[olds[i]].cell) \in Nat
              /\ Len(s[i]) = Len(node[olds[i]].cell) + (IF i = k THEN 0 ELSE skip)
              /\ \A x \in 1 .. Len(node[olds[i]].cell) : s[i][x] = node[olds[i]].cell[x]
              /\ i # k /\ skip = 1 =>
                    s[i][Len(node[olds[i]].cell) + 1] = [node[P].cell[d + i] EXCEPT !.left =
                                    IF node[olds[1]].leaf THEN 0 ELSE node[olds[i]].right]
    BY <1>2, RunIs
  <1>5. s \in Seq(Seq(CellType)) /\ Len(s) = k
    <2>1. s \in [1 .. k -> Seq(CellType)] /\ k \in Nat
      BY <1>1, <1>2, <1>4
    <2> QED BY <2>1
  <1>6. PICK off : RunsThrough(CellType, s, Len(s), FlattenSeq(s), off)
    BY <1>5, FlattenIs
  <1>7. /\ cells \in Seq(CellType) /\ off \in [1 .. k + 1 -> Nat] /\ off[1] = 0 /\ off[k + 1] = Len(cells)
        /\ \A i \in 1 .. k : /\ off[i + 1] = off[i] + Len(s[i])
                             /\ \A x \in 1 .. Len(s[i]) : cells[off[i] + x] = s[i][x]
    BY <1>3, <1>5, <1>6 DEF RunsThrough
  <1>8. skip \in 0 .. 1
    BY DEF SkipIs
  <1> DEFINE st == [i \in 1 .. k + 1 |-> IF i = k + 1 THEN off[i] + skip ELSE off[i]]
  <1>9. /\ st \in [1 .. k + 1 -> Nat] /\ st[1] = 0 /\ st[k + 1] = Len(cells) + skip
        /\ \A i \in 1 .. k : st[i] = off[i] /\ off[i] \in Nat
    <2>1. \A i \in 1 .. k + 1 : off[i] \in Nat
      BY <1>7
    <2>2. 1 \in 1 .. k + 1 /\ 1 # k + 1 /\ k + 1 \in 1 .. k + 1 /\ \A i \in 1 .. k : i \in 1 .. k + 1 /\ i # k + 1
      BY <1>1
    <2> QED BY <1>7, <1>8, <2>1, <2>2
  <1>10. \A i \in 1 .. k : st[i + 1] = IF i = k THEN off[i + 1] + skip ELSE off[i + 1]
    <2>1. \A i \in 1 .. k : i + 1 \in 1 .. k + 1 /\ (i + 1 = k + 1 <=> i = k)
      BY <1>1
    <2> QED BY <2>1
  <1> HIDE DEF st
  <1>11. ASSUME NEW i \in 1 .. k
         PROVE  /\ st[i + 1] = st[i] + Len(node[olds[i]].cell) + skip
                /\ \A x \in 1 .. Len(node[olds[i]].cell) : cells[st[i] + x] = node[olds[i]].cell[x]
    <2>1. PICK len \in Nat : len = Len(node[olds[i]].cell)
      BY <1>4
    <2>2. Len(s[i]) = len + (IF i = k THEN 0 ELSE skip)
      BY <1>4, <2>1
    <2>3. PICK n \in Nat : n = Len(s[i])
      BY <1>4
    <2>4. off[i + 1] = off[i] + n /\ st[i] = off[i] /\ off[i] \in Nat
      BY <1>7, <1>9, <2>3
    <2>5. st[i + 1] = st[i] + len + skip
      <3>1. CASE i = k
        BY <1>8, <1>10, <2>2, <2>3, <2>4, <3>1
      <3>2. CASE i # k
        BY <1>8, <1>10, <2>2, <2>3, <2>4, <3>2
      <3> QED BY <3>1, <3>2
    <2>6. \A x \in 1 .. len : x \in 1 .. n
      BY <1>8, <2>2, <2>3
    <2>7. \A x \in 1 .. len : cells[st[i] + x] = node[olds[i]].cell[x]
      <3> TAKE x \in 1 .. len
      <3>1. x \in 1 .. Len(s[i])
        BY <2>3, <2>6
      <3>2. cells[off[i] + x] = s[i][x]
        BY <1>7, <3>1
      <3>3. x \in 1 .. Len(node[olds[i]].cell)
        BY <2>1
      <3>4. s[i][x] = node[olds[i]].cell[x]
        BY <1>4, <3>3
      <3> QED BY <2>4, <3>2, <3>4
    <2> QED BY <2>1, <2>5, <2>7
  <1>12. ASSUME NEW i \in 1 .. k - 1, skip = 1
         PROVE  cells[st[i + 1]] = [node[P].cell[d + i] EXCEPT !.left =
                                      IF node[olds[1]].leaf THEN 0 ELSE node[olds[i]].right]
    <2>1. i \in 1 .. k /\ i # k /\ i + 1 \in 1 .. k
      BY <1>1
    <2>2. PICK len \in Nat : len = Len(node[olds[i]].cell)
      BY <1>4, <2>1
    <2>3. Len(s[i]) = len + 1
      BY <1>4, <1>12, <2>1, <2>2
    <2>4. off[i + 1] = off[i] + (len + 1) /\ off[i] \in Nat /\ st[i + 1] = off[i + 1]
      BY <1>7, <1>9, <2>1, <2>3
    <2>5. len + 1 \in 1 .. Len(s[i])
      BY <2>3
    <2>6. cells[off[i] + (len + 1)] = s[i][len + 1]
      BY <1>7, <2>1, <2>5
    <2>7. s[i][len + 1] = [node[P].cell[d + i] EXCEPT !.left = IF node[olds[1]].leaf THEN 0 ELSE node[olds[i]].right]
      BY <1>4, <1>12, <2>1, <2>2
    <2> QED BY <2>4, <2>6, <2>7
  <1>13. Gather(P, d, k, olds, skip, cells, st)
    BY <1>7, <1>9, <1>11, <1>12 DEF Gather
  <1> QED BY <1>13

\* What Gather says of one sibling, in numbers.
LEMMA GatherAt ==
    ASSUME Nodes(node), Levelled(node), OneParent(node), NEW P, NEW d, NEW k, NEW olds, Family(P, d, k, olds),
           NEW skip, SkipIs(skip, olds), NEW cells, NEW st, Gather(P, d, k, olds, skip, cells, st)
    PROVE  /\ Stairs(st, k) /\ k \in Nat \ {0} /\ skip \in 0 .. 1 /\ cells \in Seq(CellType) /\ Len(cells) \in Nat
           /\ st[k + 1] = Len(cells) + skip
           /\ \A i \in 1 .. k :
                 /\ st[i] \in Nat /\ st[i + 1] \in Nat /\ Len(node[olds[i]].cell) \in Nat
                 /\ st[i + 1] = st[i] + Len(node[olds[i]].cell) + skip
                 /\ st[i + 1] <= Len(cells) + skip
                 /\ node[olds[i]].cell \in Seq(CellType)
                 /\ \A x \in 1 .. Len(node[olds[i]].cell) : cells[st[i] + x] = node[olds[i]].cell[x]
  <1>1. k \in Nat \ {0} /\ \A i \in 1 .. k : i \in 1 .. k + 1 /\ i + 1 \in 1 .. k + 1
    <2>1. k \in Nat \ {0}
      BY DEF Family
    <2> QED BY <2>1
  <1>2. skip \in 0 .. 1
    BY DEF SkipIs
  <1>3. cells \in Seq(CellType) /\ st \in [1 .. k + 1 -> Nat] /\ st[1] = 0 /\ st[k + 1] = Len(cells) + skip
    BY DEF Gather
  <1>4. Len(cells) \in Nat
    BY <1>3
  <1>5. \A i \in 1 .. k : st[i] \in Nat /\ st[i + 1] \in Nat
    BY <1>1, <1>3
  <1>6. \A i \in 1 .. k : olds[i] \in DOMAIN node
    BY FamilyIs
  <1>7. \A i \in 1 .. k : node[olds[i]].cell \in Seq(CellType) /\ Len(node[olds[i]].cell) \in Nat
    BY <1>6, NodeIs
  <1>8. \A i \in 1 .. k : /\ st[i + 1] = st[i] + Len(node[olds[i]].cell) + skip
                          /\ \A x \in 1 .. Len(node[olds[i]].cell) : cells[st[i] + x] = node[olds[i]].cell[x]
    BY DEF Gather
  <1>9. Stairs(st, k)
    <2>1. ASSUME NEW i \in 1 .. k PROVE st[i] <= st[i + 1]
      <3>1. PICK len \in Nat : len = Len(node[olds[i]].cell)
        BY <1>7
      <3>2. st[i + 1] = st[i] + len + skip
        BY <1>8, <3>1
      <3> QED BY <1>2, <1>5, <3>2
    <2> QED BY <1>1, <1>3, <2>1 DEF Stairs
  <1>10. ASSUME NEW i \in 1 .. k PROVE st[i + 1] <= Len(cells) + skip
    <2>1. i + 1 \in 1 .. k + 1 /\ k + 1 \in 1 .. k + 1 /\ i + 1 <= k + 1
      BY <1>1
    <2>2. st[i + 1] <= st[k + 1]
      BY <1>9, <2>1, StairsRise
    <2> QED BY <1>3, <2>2
  <1> QED BY <1>1, <1>2, <1>3, <1>4, <1>5, <1>7, <1>8, <1>9, <1>10

\* Every gathered cell is one of a sibling or a divider between two.
LEMMA GatheredFit ==
    ASSUME Nodes(node), Levelled(node), OneParent(node), Shapes(intkey, node), intkey \in BOOLEAN,
           NEW P, NEW d, NEW k, NEW olds, Family(P, d, k, olds),
           NEW skip, SkipIs(skip, olds), NEW cells, NEW st, Gather(P, d, k, olds, skip, cells, st),
           NEW c \in 1 .. Len(cells)
    PROVE  CellFits(intkey, node[olds[1]].leaf, cells[c])
  <1>1. /\ Stairs(st, k) /\ k \in Nat \ {0} /\ skip \in 0 .. 1 /\ Len(cells) \in Nat
        /\ st[k + 1] = Len(cells) + skip
    BY GatherAt
  <1>2. c \in 1 .. st[k + 1] /\ c \in Nat
    BY <1>1
  <1>3. PICK i \in 1 .. k : OnStair(st, i, c)
    BY <1>1, <1>2, StairIs
  <1>4. st[i] < c /\ c <= st[i + 1]
    BY <1>3 DEF OnStair
  <1>5. PICK len \in Nat : len = Len(node[olds[i]].cell)
    BY GatherAt
  <1>6. st[i] \in Nat /\ st[i + 1] \in Nat /\ st[i + 1] = st[i] + len + skip
    BY <1>5, GatherAt
  <1>7. olds[i] \in DOMAIN node /\ olds[1] \in DOMAIN node /\ P \in DOMAIN node /\ ~node[P].leaf
    <2>1. 1 \in 1 .. k
      BY <1>1
    <2>2. olds[i] \in DOMAIN node /\ olds[1] \in DOMAIN node
      BY <2>1, FamilyIs
    <2> QED BY <2>2 DEF Family
  <1>8. node[olds[i]].leaf = node[olds[1]].leaf
    <2>1. 1 \in 1 .. k
      BY <1>1
    <2> QED BY <2>1, FamilyIs
  <1>9. CASE c - st[i] <= len
    <2>1. c - st[i] \in 1 .. len /\ st[i] + (c - st[i]) = c
      BY <1>2, <1>4, <1>6, <1>9
    <2>2. PICK x \in 1 .. len : st[i] + x = c
      BY <2>1
    <2>3. cells[c] = node[olds[i]].cell[x]
      <3>1. \A y \in 1 .. Len(node[olds[i]].cell) : cells[st[i] + y] = node[olds[i]].cell[y]
        BY GatherAt
      <3>2. x \in 1 .. Len(node[olds[i]].cell)
        BY <1>5
      <3> QED BY <2>2, <3>1, <3>2
    <2>4. CellFits(intkey, node[olds[i]].leaf, node[olds[i]].cell[x])
      BY <1>5, <1>7 DEF Shapes
    <2> QED BY <1>8, <2>3, <2>4
  <1>10. CASE ~(c - st[i] <= len)
    <2>1. skip = 1 /\ c = st[i + 1]
      BY <1>1, <1>2, <1>4, <1>6, <1>10, PastPage
    <2>2. i # k
      BY <1>1, <2>1
    <2>3. i \in 1 .. k - 1
      BY <1>1, <2>2
    <2>4. PICK left : left = IF node[olds[1]].leaf THEN 0 ELSE node[olds[i]].right
      OBVIOUS
    <2>5. cells[c] = [node[P].cell[d + i] EXCEPT !.left = left]
      BY <2>1, <2>3, <2>4 DEF Gather
    <2>6. d + i \in 1 .. Len(node[P].cell)
      <3>1. d \in Nat /\ d + k <= Len(node[P].cell) + 1
        BY DEF Family
      <3>2. Len(node[P].cell) \in Nat
        BY <1>7, NodeIs
      <3> QED BY <1>1, <2>3, <3>1, <3>2
    <2>7. CellFits(intkey, node[P].leaf, node[P].cell[d + i])
      BY <1>7, <2>6 DEF Shapes
    <2>8. node[P].cell[d + i] \in CellType
      <3>1. node[P].cell \in Seq(CellType)
        BY <1>7, NodeIs
      <3> QED BY <2>6, <3>1
    <2>9. cells[c].sz = node[P].cell[d + i].sz /\ cells[c].ovf = node[P].cell[d + i].ovf
      BY <2>5, <2>8 DEF CellType
    <2>10. ~(intkey /\ node[olds[1]].leaf)
      BY <2>1 DEF SkipIs
    <2> QED BY <1>7, <2>7, <2>9, <2>10 DEF CellFits
  <1> QED BY <1>9, <1>10

\* What Divide asks of the cells.
LEMMA GatheredDivisible ==
    ASSUME Nodes(node), Levelled(node), OneParent(node), Shapes(intkey, node), intkey \in BOOLEAN,
           NEW P, NEW d, NEW k, NEW olds, Family(P, d, k, olds),
           NEW skip, SkipIs(skip, olds), NEW cells, NEW st, Gather(P, d, k, olds, skip, cells, st)
    PROVE  Divisible(Sizes(cells), skip)
  <1>1. skip \in 0 .. 1 /\ cells \in Seq(CellType) /\ Len(cells) \in Nat
    BY GatherAt
  <1>2. /\ Sizes(cells) \in Seq(Nat \ {0}) /\ Len(Sizes(cells)) = Len(cells)
        /\ \A j \in 1 .. Len(cells) : Sizes(cells)[j] = cells[j].sz /\ cells[j].sz \in Nat \ {0}
    BY <1>1, SizesAre
  <1>3. U \in Nat /\ U \div 4 \in Nat /\ U \div 4 >= 1 /\ U \div 4 <= U
    BY UIs
  <1>4. \A j \in 1 .. Len(cells) : CellFits(intkey, node[olds[1]].leaf, cells[j])
    BY GatheredFit
  <1>5. ASSUME NEW j \in 1 .. Len(cells)
        PROVE  cells[j].sz <= IF skip = 1 THEN U \div 4 ELSE U
    <2>1. CellFits(intkey, node[olds[1]].leaf, cells[j]) /\ cells[j].sz \in Nat
      BY <1>2, <1>4
    <2>2. PICK z \in Nat : z = cells[j].sz
      BY <2>1
    <2>3. PICK q \in Nat : q = U \div 4 /\ q >= 1 /\ q <= U
      BY <1>3
    <2>4. CASE skip = 1
      <3>1. ~(intkey /\ node[olds[1]].leaf)
        BY <2>4 DEF SkipIs
      <3>2. z <= q \/ z = 1
        BY <2>1, <2>2, <2>3, <3>1 DEF CellFits, DIVIDER
      <3> QED BY <2>2, <2>3, <2>4, <3>2
    <2>5. CASE skip # 1
      <3>1. intkey /\ node[olds[1]].leaf
        BY <2>5 DEF SkipIs
      <3>2. z <= U
        BY <2>1, <2>2, <3>1 DEF CellFits
      <3> QED BY <2>2, <2>5, <3>2
    <2> QED BY <2>4, <2>5
  <1>6. \A j \in 1 .. Len(Sizes(cells)) : Sizes(cells)[j] <= IF skip = 1 THEN U \div 4 ELSE U
    BY <1>2, <1>5
  <1> QED BY <1>1, <1>2, <1>3, <1>6 DEF Divisible

\* A sibling's cells take no more than all of them do.
LEMMA GatheredHolds ==
    ASSUME Nodes(node), Levelled(node), OneParent(node),
           NEW P, NEW d, NEW k, NEW olds, Family(P, d, k, olds),
           NEW skip, SkipIs(skip, olds), NEW cells, NEW st, Gather(P, d, k, olds, skip, cells, st),
           NEW i \in 1 .. k
    PROVE  /\ Len(node[olds[i]].cell) <= Len(cells) /\ Len(node[olds[i]].cell) \in Nat /\ Len(cells) \in Nat
           /\ Taken(node[olds[i]].cell) <= Taken(cells)
           /\ Taken(node[olds[i]].cell) \in Nat /\ Taken(cells) \in Nat
  <1>1. skip \in 0 .. 1 /\ cells \in Seq(CellType) /\ Len(cells) \in Nat
    BY GatherAt
  <1>2. PICK t : t = node[olds[i]].cell
    OBVIOUS
  <1>3. t \in Seq(CellType) /\ Len(t) \in Nat
    BY <1>2, GatherAt
  <1>4. PICK m \in Nat : m = Len(cells)
    BY <1>1
  <1>5. PICK len \in Nat : len = Len(t)
    BY <1>3
  <1>6. PICK a \in Nat : a = st[i]
    BY GatherAt
  <1>7. a + len <= m
    <2>1. st[i + 1] = st[i] + Len(node[olds[i]].cell) + skip /\ st[i + 1] <= Len(cells) + skip
      BY GatherAt
    <2>2. a + len + skip <= m + skip
      BY <1>2, <1>4, <1>5, <1>6, <2>1
    <2> QED BY <1>1, <2>2
  <1>8. \A x \in 1 .. len : cells[a + x] = t[x]
    BY <1>2, <1>5, <1>6, GatherAt
  <1>9. SameCells(cells, a, t, 0, len)
    <2>1. \A x \in 1 .. len : cells[a + x].sz = t[0 + x].sz
      BY <1>8
    <2> QED BY <1>1, <1>3, <1>4, <1>5, <1>7, <2>1 DEF SameCells
  <1>10. Held(Sizes(cells), a, a + len) = Held(Sizes(t), 0, 0 + len)
    BY <1>9, SameTaken
  <1>11. Taken(t) = Held(Sizes(t), 0, len) /\ Taken(t) \in Nat
    BY <1>3, <1>5, TakenParts
  <1>12. Held(Sizes(cells), a, a + len) = Taken(t)
    <2>1. 0 + len = len
      OBVIOUS
    <2> QED BY <1>10, <1>11, <2>1
  <1> DEFINE z == Sizes(cells)
  <1>13. /\ Taken(cells) \in Nat /\ Taken(cells) = Held(z, 0, m)
         /\ \A p, q, r \in 0 .. m : /\ p <= q => Held(z, p, q) \in Nat
                                   /\ Held(z, p, q) + Held(z, q, r) = Held(z, p, r)
    <2>1. /\ Taken(cells) \in Nat /\ Taken(cells) = Held(Sizes(cells), 0, Len(cells))
          /\ \A p, q, r \in 0 .. Len(cells) :
                /\ p <= q => Held(Sizes(cells), p, q) \in Nat
                /\ Held(Sizes(cells), p, q) + Held(Sizes(cells), q, r) = Held(Sizes(cells), p, r)
      BY <1>1, TakenParts
    <2> QED BY <1>4, <2>1
  <1> HIDE DEF z
  <1>14. 0 \in 0 .. m /\ a \in 0 .. m /\ a + len \in 0 .. m /\ m \in 0 .. m /\ 0 <= a /\ a + len <= m
    BY <1>7
  <1>15. Held(z, 0, a) \in Nat /\ Held(z, a + len, m) \in Nat
    BY <1>13, <1>14
  <1>16. Held(z, 0, a) + Held(z, a, a + len) = Held(z, 0, a + len)
    BY <1>13, <1>14
  <1>17. Held(z, 0, a + len) + Held(z, a + len, m) = Held(z, 0, m)
    BY <1>13, <1>14
  <1>18. Held(z, a, a + len) = Taken(t)
    BY <1>12 DEF z
  <1>19. Taken(t) <= Taken(cells)
    BY <1>11, <1>13, <1>15, <1>16, <1>17, <1>18
  <1>20. len <= m
    BY <1>7
  <1> QED BY <1>2, <1>3, <1>4, <1>5, <1>11, <1>13, <1>19, <1>20

\* The siblings as they were: what an Assembly of them is made of.
Group(A, P, d, k, olds, skip, cells) ==
    /\ PagesOf(A, node, P, Pages(olds))
    /\ A.lo = SubSeq(node[P].cell, 1, d) /\ A.hi = SubSeq(node[P].cell, d + k, Len(node[P].cell))
    /\ A.cells = cells /\ A.leaf = node[olds[1]].leaf /\ A.skip = skip
    /\ A.top = node[P].right /\ A.right = node[olds[k]].right

GroupParts(A, P, d, k, olds, skip, cells, n) ==
    /\ AssemblyType(A) /\ A.P = P /\ DOMAIN A.others = DOMAIN node \ (Pages(olds) \cup {P})
    /\ \A p \in DOMAIN node : p \notin Pages(olds) /\ p # P => A.others[p] = node[p]
    /\ n \in Nat /\ n = Len(node[P].cell) /\ node[P].cell \in Seq(CellType)
    /\ A.lo \in Seq(CellType) /\ A.hi \in Seq(CellType) /\ Len(A.lo) = d /\ Len(A.hi) = n - (d + k - 1)
    /\ d \in Nat /\ k \in Nat \ {0} /\ d + k <= n + 1
    /\ \A x \in 1 .. d : A.lo[x] = node[P].cell[x]
    /\ \A x \in 1 .. n - (d + k - 1) : A.hi[x] = node[P].cell[(d + k - 1) + x]
    /\ A.cells = cells /\ A.leaf = node[olds[1]].leaf /\ A.skip = skip
    /\ A.top = node[P].right /\ A.right = node[olds[k]].right

\* The numbers and the kinds of its parts.
LEMMA GroupIs ==
    ASSUME Nodes(node), Levelled(node), OneParent(node),
           NEW P, NEW d, NEW k, NEW olds, Family(P, d, k, olds),
           NEW skip, SkipIs(skip, olds), intkey \in BOOLEAN, NEW cells \in Seq(CellType),
           NEW A, Group(A, P, d, k, olds, skip, cells), NEW n, n = Len(node[P].cell)
    PROVE  GroupParts(A, P, d, k, olds, skip, cells, n)
  <1>1. /\ P \in DOMAIN node /\ d \in Nat /\ k \in Nat \ {0} /\ d + k <= Len(node[P].cell) + 1
    BY DEF Family
  <1>2. node[P].cell \in Seq(CellType) /\ Len(node[P].cell) \in Nat /\ node[P].right \in Nat
    BY <1>1, NodeIs
  <1>3. \A i \in 1 .. k : olds[i] \in DOMAIN node /\ olds[i] # ROOT
    BY FamilyIs
  <1>4. 1 \in 1 .. k /\ k \in 1 .. k
    BY <1>1
  <1>5. node[olds[1]].leaf \in BOOLEAN /\ node[olds[k]].right \in Nat
    <2>1. olds[1] \in DOMAIN node /\ olds[k] \in DOMAIN node
      BY <1>3, <1>4
    <2> QED BY <2>1, NodeIs
  <1>6. ROOT \notin Pages(olds)
    <2>1. Len(olds) = k
      BY FamilyIs
    <2> QED BY <1>3, <2>1 DEF Pages
  <1>7. PICK c \in Seq(CellType) : c = node[P].cell
    BY <1>2
  <1>8. n \in Nat /\ n = Len(c)
    BY <1>2, <1>7
  <1>9. A.lo \in Seq(CellType) /\ Len(A.lo) = d /\ \A x \in 1 .. d : A.lo[x] = c[x]
    <2>1. 0 \in 0 .. Len(c) /\ d \in 0 .. Len(c) /\ 0 <= d
      BY <1>1, <1>7, <1>8
    <2>2. LET t == SubSeq(c, 0 + 1, d) IN
          t \in Seq(CellType) /\ Len(t) = d - 0 /\ \A j \in 1 .. d - 0 : t[j] = c[0 + j]
      BY <2>1, PartOfCells
    <2>3. 0 + 1 = 1 /\ d - 0 = d
      BY <1>1
    <2>4. A.lo = SubSeq(c, 1, d)
      BY <1>7 DEF Group
    <2>5. A.lo \in Seq(CellType) /\ Len(A.lo) = d /\ \A j \in 1 .. d : A.lo[j] = c[0 + j]
      BY <2>2, <2>3, <2>4
    <2> QED BY <2>5
  <1>10. /\ A.hi \in Seq(CellType) /\ Len(A.hi) = n - (d + k - 1)
         /\ \A x \in 1 .. n - (d + k - 1) : A.hi[x] = c[(d + k - 1) + x]
    <2>1. PICK a \in Nat : a = d + k - 1
      BY <1>1
    <2>2. a \in 0 .. Len(c) /\ Len(c) \in 0 .. Len(c) /\ a <= Len(c)
      BY <1>1, <1>7, <1>8, <2>1
    <2>3. LET t == SubSeq(c, a + 1, Len(c)) IN
          t \in Seq(CellType) /\ Len(t) = Len(c) - a /\ \A j \in 1 .. Len(c) - a : t[j] = c[a + j]
      BY <2>2, PartOfCells
    <2>4. a + 1 = d + k
      BY <1>1, <2>1
    <2>5. A.hi = SubSeq(c, a + 1, Len(c))
      BY <1>7, <2>4 DEF Group
    <2>6. /\ A.hi \in Seq(CellType) /\ Len(A.hi) = n - a
          /\ \A x \in 1 .. n - a : A.hi[x] = c[a + x]
      BY <1>8, <2>3, <2>5
    <2> QED BY <2>1, <2>6
  <1>11. /\ A.cells = cells /\ A.leaf = node[olds[1]].leaf /\ A.skip = skip
         /\ A.top = node[P].right /\ A.right = node[olds[k]].right
    BY DEF Group
  <1>12. CellsTyped(A)
    <2>1. A.skip \in 0 .. 1 /\ (A.skip = 0 => A.leaf)
      BY <1>11 DEF SkipIs
    <2> QED BY <1>2, <1>5, <1>9, <1>10, <1>11, <2>1 DEF CellsTyped
  <1>13. PagesOf(A, node, P, Pages(olds))
    BY DEF Group
  <1>14. /\ AssemblyType(A) /\ A.P = P /\ DOMAIN A.others = DOMAIN node \ (Pages(olds) \cup {P})
         /\ \A p \in DOMAIN node : p \notin Pages(olds) /\ p # P => A.others[p] = node[p]
    BY <1>1, <1>6, <1>12, <1>13, PagesOfIs
  <1> QED BY <1>1, <1>2, <1>7, <1>8, <1>9, <1>10, <1>11, <1>14 DEF GroupParts

\* The tree before a balance is an assembly of the siblings.
LEMMA OldAssembly ==
    ASSUME Nodes(node), Levelled(node), OneParent(node), Shapes(intkey, node), intkey \in BOOLEAN,
           NEW P, NEW d, NEW k, NEW olds, Family(P, d, k, olds),
           NEW skip, SkipIs(skip, olds), NEW cells, NEW st, Gather(P, d, k, olds, skip, cells, st),
           NEW A, Group(A, P, d, k, olds, skip, cells)
    PROVE  Assembly(node, A, k, olds, st)
  <1>1. /\ Stairs(st, k) /\ k \in Nat \ {0} /\ skip \in 0 .. 1 /\ cells \in Seq(CellType) /\ Len(cells) \in Nat
        /\ st[k + 1] = Len(cells) + skip
    BY GatherAt
  <1>2. PICK n : n = Len(node[P].cell)
    OBVIOUS
  <1>3. GroupParts(A, P, d, k, olds, skip, cells, n)
    BY <1>1, <1>2, GroupIs
  <1>4. /\ AssemblyType(A) /\ A.P = P /\ DOMAIN A.others = DOMAIN node \ (Pages(olds) \cup {P})
        /\ \A p \in DOMAIN node : p \notin Pages(olds) /\ p # P => A.others[p] = node[p]
    BY <1>3 DEF GroupParts
  <1>5. /\ n \in Nat /\ n = Len(node[P].cell) /\ node[P].cell \in Seq(CellType)
        /\ Len(A.lo) = d /\ Len(A.hi) = n - (d + k - 1)
        /\ d \in Nat /\ k \in Nat \ {0} /\ d + k <= n + 1
        /\ \A x \in 1 .. d : A.lo[x] = node[P].cell[x]
        /\ \A x \in 1 .. n - (d + k - 1) : A.hi[x] = node[P].cell[(d + k - 1) + x]
    BY <1>3 DEF GroupParts
  <1>6. /\ A.cells = cells /\ A.leaf = node[olds[1]].leaf /\ A.skip = skip
        /\ A.top = node[P].right /\ A.right = node[olds[k]].right
    BY <1>3 DEF GroupParts
  <1>7. /\ olds \in Seq(Nat) /\ Len(olds) = k /\ DOMAIN olds = 1 .. k
        /\ \A i \in 1 .. k : /\ olds[i] \in DOMAIN node /\ olds[i] # ROOT /\ olds[i] # P
                             /\ olds[i] = Child(node[P], d + i) /\ d + i \in Turns(node[P])
        /\ \A i, j \in 1 .. k : olds[i] = olds[j] => i = j
        /\ \A i, j \in 1 .. k : node[olds[i]].leaf = node[olds[j]].leaf
    BY FamilyIs
  <1>8. P \in DOMAIN node /\ ~node[P].leaf
    BY DEF Family
  <1>20. n \in Nat /\ d \in Nat /\ k \in Nat \ {0} /\ d + k <= n + 1
    BY <1>5
  <1>9. Assembled(node, A, k, olds, st)
    <2>1. olds \in [1 .. k -> Nat]
      BY <1>7
    <2>2. Pages(olds) = {olds[i] : i \in 1 .. k}
      BY <1>7 DEF Pages
    <2>3. \A i \in 1 .. k : olds[i] # A.P /\ olds[i] \notin DOMAIN A.others
      BY <1>4, <1>7, <2>2
    <2>4. DOMAIN node = DOMAIN A.others \cup {A.P} \cup {olds[i] : i \in 1 .. k}
      <3>1. {olds[i] : i \in 1 .. k} \subseteq DOMAIN node
        BY <1>7
      <3> QED BY <1>4, <1>8, <2>2, <3>1
    <2>5. \A p \in DOMAIN A.others : node[p] = A.others[p]
      BY <1>4
    <2> QED BY <1>1, <1>7, <2>1, <2>3, <2>4, <2>5 DEF Assembled
  <1>10. LaidOut(node, A, k, olds, st)
    <2>1. st \in [1 .. k + 1 -> Nat] /\ st[1] = 0 /\ st[k + 1] = Len(A.cells) + A.skip
      BY <1>1, <1>6 DEF Stairs
    <2>2. ASSUME NEW i \in 1 .. k
          PROVE  /\ st[i + 1] = st[i] + Len(node[olds[i]].cell) + A.skip
                 /\ node[olds[i]].leaf = A.leaf
                 /\ \A x \in 1 .. Len(node[olds[i]].cell) : node[olds[i]].cell[x] = A.cells[st[i] + x]
                 /\ ~A.leaf => node[olds[i]].right = IF i = k THEN A.right ELSE A.cells[st[i + 1]].left
      <3>1. /\ st[i + 1] = st[i] + Len(node[olds[i]].cell) + skip
            /\ \A x \in 1 .. Len(node[olds[i]].cell) : cells[st[i] + x] = node[olds[i]].cell[x]
        BY GatherAt
      <3>2. node[olds[i]].leaf = A.leaf
        <4>1. 1 \in 1 .. k
          BY <1>1
        <4> QED BY <1>6, <1>7, <4>1
      <3>3. ASSUME ~A.leaf, i # k
            PROVE  node[olds[i]].right = cells[st[i + 1]].left
        <4>1. i \in 1 .. k - 1
          BY <1>1, <3>3
        <4>2. skip = 1 /\ ~node[olds[1]].leaf
          BY <1>6, <3>3 DEF SkipIs
        <4>3. PICK right : right = node[olds[i]].right
          OBVIOUS
        <4>4. cells[st[i + 1]] = [node[P].cell[d + i] EXCEPT !.left = right]
          BY <4>1, <4>2, <4>3 DEF Gather
        <4>5. d + i \in 1 .. Len(node[P].cell)
          BY <1>5, <4>1
        <4>6. node[P].cell[d + i] \in CellType
          BY <1>5, <4>5
        <4>7. cells[st[i + 1]].left = right
          BY <4>4, <4>6 DEF CellType
        <4> QED BY <4>3, <4>7
      <3>4. ~A.leaf => node[olds[i]].right = IF i = k THEN A.right ELSE A.cells[st[i + 1]].left
        BY <1>6, <3>3
      <3> QED BY <1>6, <3>1, <3>2, <3>4
    <2> QED BY <2>1, <2>2 DEF LaidOut
  <1>11. Above1(node, A, k, olds, st)
    <2>1. PICK nx \in Nat : nx = n - (d + k - 1)
      BY <1>20
    <2>2. ~node[A.P].leaf /\ Len(node[A.P].cell) = Len(A.lo) + (k - 1) + Len(A.hi)
      <3>1. Len(A.lo) = d /\ Len(A.hi) = nx /\ Len(node[A.P].cell) = n
        BY <1>4, <1>5, <2>1
      <3>2. n = d + (k - 1) + nx
        BY <1>20, <2>1
      <3> QED BY <1>4, <1>8, <3>1, <3>2
    <2>3. \A x \in 1 .. Len(A.lo) : node[A.P].cell[x] = A.lo[x]
      BY <1>4, <1>5
    <2>4. \A x \in 1 .. nx : node[A.P].cell[d + (k - 1) + x] = A.hi[x]
      <3>1. d + (k - 1) = d + k - 1
        BY <1>5
      <3> QED BY <1>4, <1>5, <2>1, <3>1
    <2>5. \A x \in 1 .. Len(A.hi) : node[A.P].cell[Len(A.lo) + (k - 1) + x].ovf = A.hi[x].ovf
      BY <1>5, <2>1, <2>4
    <2>6. ASSUME NEW i \in 1 .. k - 1
          PROVE  node[A.P].cell[Len(A.lo) + i].ovf = IF A.skip = 1 THEN A.cells[st[i + 1]].ovf ELSE << >>
      <3>1. d + i \in 1 .. Len(node[P].cell)
        BY <1>5, SMTT(30)
      <3>2. node[P].cell[d + i] \in CellType
        BY <1>5, <3>1
      <3>3. CASE skip = 1
        <4>1. PICK left : left = IF node[olds[1]].leaf THEN 0 ELSE node[olds[i]].right
          OBVIOUS
        <4>2. cells[st[i + 1]] = [node[P].cell[d + i] EXCEPT !.left = left]
          BY <3>3, <4>1 DEF Gather
        <4>3. cells[st[i + 1]].ovf = node[P].cell[d + i].ovf
          BY <3>2, <4>2 DEF CellType
        <4> QED BY <1>4, <1>5, <1>6, <3>3, <4>3
      <3>4. CASE skip # 1
        <4>1. intkey
          BY <3>4 DEF SkipIs
        <4>2. CellFits(intkey, node[P].leaf, node[P].cell[d + i])
          BY <1>8, <3>1 DEF Shapes
        <4>3. node[P].cell[d + i].ovf = << >>
          BY <1>8, <4>1, <4>2 DEF CellFits
        <4> QED BY <1>4, <1>5, <1>6, <3>4, <4>3
      <3> QED BY <3>3, <3>4
    <2>7. \A i \in 1 .. k : Child(node[A.P], Len(A.lo) + i) = olds[i]
      BY <1>4, <1>5, <1>7
    <2>8. ASSUME NEW x \in 1 .. nx
          PROVE  Child(node[A.P], d + k + x) = IF x < nx THEN A.hi[x + 1].left ELSE A.top
      <3>1. CASE x < nx
        <4>1. x + 1 \in 1 .. nx /\ d + k + x <= n /\ d + (k - 1) + (x + 1) = d + k + x
          BY <1>20, <2>1, <3>1
        <4>2. node[A.P].cell[d + k + x] = A.hi[x + 1]
          BY <2>4, <4>1
        <4> QED BY <1>4, <1>5, <3>1, <4>1, <4>2 DEF Child
      <3>2. CASE ~(x < nx)
        <4>1. ~(d + k + x <= n)
          BY <1>20, <2>1, <3>2
        <4> QED BY <1>4, <1>5, <1>6, <3>2, <4>1 DEF Child
      <3> QED BY <3>1, <3>2
    <2>9. \A x \in 1 .. Len(A.hi) : Child(node[A.P], Len(A.lo) + k + x) = AfterKid(A, x)
      BY <1>5, <2>1, <2>8 DEF AfterKid
    <2> QED BY <2>2, <2>3, <2>5, <2>6, <2>7, <2>9 DEF Above1
  <1> QED BY <1>4, <1>9, <1>10, <1>11 DEF Assembly

\* What the division of the cells looks like when there are any.
Cuts(cells, skip, cnt, k, m) ==
    /\ cells \in Seq(CellType) /\ m = Len(cells) /\ m \in Nat \ {0} /\ skip \in 0 .. 1
    /\ cnt \in Seq(0 .. m) /\ Len(cnt) = k /\ k \in Nat \ {0} /\ cnt[k] = m
    /\ \A i \in 1 .. k : /\ StartOf(cnt, skip, i) < cnt[i]
                         /\ Held(Sizes(cells), StartOf(cnt, skip, i), cnt[i]) <= U

CutBy(cells, skip, cnt, k) == cnt = Divide(Sizes(cells), skip) /\ k = Len(cnt)

\* Divide makes such a division.
LEMMA CutsIs ==
    ASSUME NEW cells \in Seq(CellType), cells # << >>, NEW skip, Divisible(Sizes(cells), skip),
           NEW cnt, NEW k, CutBy(cells, skip, cnt, k), NEW m, m = Len(cells)
    PROVE  Cuts(cells, skip, cnt, k, m)
  <1>1. m \in Nat \ {0}
    <2>1. Len(cells) \in Nat /\ Len(cells) # 0
      OBVIOUS
    <2> QED BY <2>1
  <1>2. Len(Sizes(cells)) = m
    BY SizesAre
  <1>3. Divided(Sizes(cells), skip, cnt) /\ k = Len(cnt)
    BY DivideIs DEF CutBy
  <1>4. skip \in 0 .. 1
    BY DEF Divisible
  <1>5. /\ cnt \in Seq(0 .. m) /\ k >= 1 /\ cnt[k] = m
        /\ \A i \in 1 .. k : /\ m > 0 => StartOf(cnt, skip, i) < cnt[i]
                             /\ Held(Sizes(cells), StartOf(cnt, skip, i), cnt[i]) <= U
    BY <1>2, <1>3 DEF Divided
  <1>6. k \in Nat
    BY <1>3, <1>5
  <1> QED BY <1>1, <1>3, <1>4, <1>5, <1>6 DEF Cuts

\* Where a page starts and ends.
LEMMA CutAt ==
    ASSUME NEW cells, NEW skip, NEW cnt, NEW k, NEW m, Cuts(cells, skip, cnt, k, m), NEW i \in 1 .. k
    PROVE  /\ k \in Nat \ {0} /\ m \in Nat \ {0} /\ skip \in 0 .. 1
           /\ cnt[i] \in 0 .. m /\ StartOf(cnt, skip, i) \in Nat /\ StartOf(cnt, skip, i) < cnt[i]
           /\ i # k => /\ i + 1 \in 1 .. k /\ StartOf(cnt, skip, i + 1) = cnt[i] + skip
                       /\ cnt[i] + skip < m /\ cnt[i] + 1 \in 1 .. m
  <1>1. k \in Nat \ {0} /\ m \in Nat \ {0} /\ skip \in 0 .. 1 /\ \A j \in 1 .. k : cnt[j] \in 0 .. m
    <2>1. k \in Nat \ {0} /\ m \in Nat \ {0} /\ skip \in 0 .. 1 /\ cnt \in Seq(0 .. m) /\ Len(cnt) = k
      BY DEF Cuts
    <2> QED BY <2>1
  <1>2. \A j \in 1 .. k : StartOf(cnt, skip, j) < cnt[j]
    BY DEF Cuts
  <1>3. StartOf(cnt, skip, i) \in Nat
    <2>1. CASE i = 1
      BY <2>1 DEF StartOf
    <2>2. CASE i # 1
      <3>1. i - 1 \in 1 .. k
        BY <1>1, <2>2
      <3> QED BY <1>1, <2>2, <3>1 DEF StartOf
    <2> QED BY <2>1, <2>2
  <1>4. ASSUME i # k
        PROVE  /\ i + 1 \in 1 .. k /\ StartOf(cnt, skip, i + 1) = cnt[i] + skip
               /\ cnt[i] + skip < m /\ cnt[i] + 1 \in 1 .. m
    <2>1. i + 1 \in 1 .. k /\ i + 1 # 1 /\ (i + 1) - 1 = i
      BY <1>1, <1>4
    <2>2. StartOf(cnt, skip, i + 1) = cnt[i] + skip
      BY <2>1 DEF StartOf
    <2>3. cnt[i] + skip < cnt[i + 1]
      BY <1>2, <2>1, <2>2
    <2>4. cnt[i] \in 0 .. m /\ cnt[i + 1] \in 0 .. m
      BY <1>1, <2>1
    <2> QED BY <1>1, <2>1, <2>2, <2>3, <2>4
  <1> QED BY <1>1, <1>2, <1>3, <1>4

SkipHere(skip) == skip = IF intkey /\ node[Here].leaf THEN 0 ELSE 1

\* A page of the new ones: what it holds and where its last child is.
PageMade(s, cells, skip, cnt, k, i, right) ==
    /\ s \in NodeType /\ s.leaf = node[Here].leaf /\ s.cell # << >> /\ Fits(s)
    /\ Len(s.cell) = cnt[i] - StartOf(cnt, skip, i) /\ Len(s.cell) \in Nat
    /\ \A x \in 1 .. Len(s.cell) : s.cell[x] = cells[StartOf(cnt, skip, i) + x]
    /\ ~node[Here].leaf => s.right = IF i = k THEN right ELSE cells[cnt[i] + 1].left

\* Sibling makes such a page.
LEMMA SiblingIs ==
    ASSUME NEW cells, NEW skip, NEW cnt, NEW k, NEW m, Cuts(cells, skip, cnt, k, m), SkipHere(skip),
           node[Here].leaf \in BOOLEAN, NEW right \in Nat, NEW i \in 1 .. k
    PROVE  PageMade(Sibling(cells, cnt, i, right), cells, skip, cnt, k, i, right)
  <1>1. /\ k \in Nat \ {0} /\ m \in Nat \ {0} /\ skip \in 0 .. 1
        /\ cnt[i] \in 0 .. m /\ StartOf(cnt, skip, i) \in Nat /\ StartOf(cnt, skip, i) < cnt[i]
    BY CutAt
  <1>2. cells \in Seq(CellType) /\ m = Len(cells) /\ Len(cnt) = k
    BY DEF Cuts
  <1>3. PICK from \in Nat : from = StartOf(cnt, skip, i)
    BY <1>1
  <1>4. PICK upto \in Nat : upto = cnt[i]
    BY <1>1
  <1>5. from \in 0 .. Len(cells) /\ upto \in 0 .. Len(cells) /\ from <= upto /\ from < upto
    BY <1>1, <1>2, <1>3, <1>4
  <1>6. PICK part : part = SubSeq(cells, from + 1, upto)
    OBVIOUS
  <1>7. part \in Seq(CellType) /\ Len(part) = upto - from /\ \A j \in 1 .. upto - from : part[j] = cells[from + j]
    BY <1>2, <1>5, <1>6, PartOfCells
  <1>8. Taken(part) <= U
    <2>1. Taken(part) = Held(Sizes(cells), from, upto)
      BY <1>2, <1>5, <1>6, TakenOfPart
    <2>2. Held(Sizes(cells), from, upto) <= U
      BY <1>3, <1>4 DEF Cuts
    <2> QED BY <2>1, <2>2
  <1>9. part # << >>
    <2>1. Len(part) # 0
      BY <1>5, <1>7
    <2> QED BY <1>7, <2>1
  <1>10. PICK last : last = IF node[Here].leaf THEN 0 ELSE IF i = k THEN right ELSE cells[cnt[i] + 1].left
    OBVIOUS
  <1>11. last \in Nat
    <2>1. CASE ~node[Here].leaf /\ i # k
      <3>1. cnt[i] + 1 \in 1 .. Len(cells)
        BY <1>2, <2>1, CutAt
      <3>2. cells[cnt[i] + 1] \in CellType
        BY <1>2, <3>1
      <3> QED BY <1>10, <2>1, <3>2 DEF CellType
    <2>2. CASE ~(~node[Here].leaf /\ i # k)
      BY <1>10, <2>2
    <2> QED BY <2>1, <2>2
  <1>12. Sibling(cells, cnt, i, right) = [leaf |-> node[Here].leaf, cell |-> part, right |-> last]
    <2>1. from = IF i = 1 THEN 0 ELSE cnt[i - 1] + (IF intkey /\ node[Here].leaf THEN 0 ELSE 1)
      BY <1>3 DEF StartOf, SkipHere
    <2> QED BY <1>2, <1>4, <1>6, <1>10, <2>1 DEF Sibling
  <1>13. PICK s : s = Sibling(cells, cnt, i, right)
    OBVIOUS
  <1>14. s \in NodeType /\ s.leaf = node[Here].leaf /\ s.cell = part /\ s.right = last
    BY <1>7, <1>11, <1>12, <1>13 DEF NodeType
  <1>15. Len(s.cell) = cnt[i] - StartOf(cnt, skip, i) /\ Len(s.cell) \in Nat
    BY <1>3, <1>4, <1>5, <1>7, <1>14
  <1>16. \A x \in 1 .. Len(s.cell) : s.cell[x] = cells[StartOf(cnt, skip, i) + x]
    BY <1>3, <1>7, <1>14
  <1>17. Fits(s) /\ s.cell # << >>
    BY <1>8, <1>9, <1>14 DEF Fits
  <1>18. ~node[Here].leaf => s.right = IF i = k THEN right ELSE cells[cnt[i] + 1].left
    BY <1>10, <1>14
  <1> QED BY <1>13, <1>14, <1>15, <1>16, <1>17, <1>18 DEF PageMade

\* The dividers between the new pages.
DividersOf(dv, cells, cnt, k, pgs) ==
    dv = [j \in 1 .. k - 1 |->
            IF intkey /\ node[Here].leaf
            THEN Cell(DividerKey(cells, cnt[j]), [sz |-> DIVIDER], << >>, pgs[j])
            ELSE [cells[cnt[j] + 1] EXCEPT !.left = pgs[j]]]

DividersMade(dv, cells, skip, cnt, k, pgs) ==
    /\ dv \in Seq(CellType) /\ Len(dv) = k - 1
    /\ \A j \in 1 .. k - 1 : /\ dv[j] \in CellType /\ dv[j].left = pgs[j]
                             /\ dv[j].ovf = IF skip = 1 THEN cells[cnt[j] + 1].ovf ELSE << >>
                             /\ CellFits(intkey, FALSE, dv[j])

\* A divider is the cell between two pages, or a key of its own in a table's leaves.
LEMMA DividersAre ==
    ASSUME NEW cells, NEW skip, NEW cnt, NEW k, NEW m, Cuts(cells, skip, cnt, k, m), SkipHere(skip),
           \A c \in 1 .. Len(cells) : CellFits(intkey, node[Here].leaf, cells[c]),
           NEW pgs \in [1 .. k -> Nat], NEW dv, DividersOf(dv, cells, cnt, k, pgs)
    PROVE  DividersMade(dv, cells, skip, cnt, k, pgs)
  <1>1. k \in Nat \ {0} /\ cells \in Seq(CellType) /\ m = Len(cells) /\ m \in Nat \ {0}
    BY DEF Cuts
  <1>2. ASSUME NEW j \in 1 .. k - 1
        PROVE  /\ dv[j] \in CellType /\ dv[j].left = pgs[j]
               /\ dv[j].ovf = IF skip = 1 THEN cells[cnt[j] + 1].ovf ELSE << >>
               /\ CellFits(intkey, FALSE, dv[j])
    <2>1. j \in 1 .. k /\ j # k
      BY <1>1
    <2>2. cnt[j] + 1 \in 1 .. m /\ cnt[j] \in 0 .. m /\ StartOf(cnt, skip, j) < cnt[j] /\ StartOf(cnt, skip, j) \in Nat
      BY <2>1, CutAt
    <2>3. cnt[j] \in 1 .. m
      BY <1>1, <2>2
    <2>4. pgs[j] \in Nat
      BY <2>1
    <2>5. cells[cnt[j]] \in CellType /\ cells[cnt[j] + 1] \in CellType
      BY <1>1, <2>2, <2>3
    <2>6. CASE intkey /\ node[Here].leaf
      <3>1. PICK key \in Keys : key = DividerKey(cells, cnt[j])
        BY <2>5 DEF DividerKey, CellType
      <3>2. dv[j] = Cell(key, [sz |-> DIVIDER], << >>, pgs[j])
        BY <2>6, <3>1 DEF DividersOf
      <3>3. dv[j] \in CellType /\ dv[j].left = pgs[j] /\ dv[j].ovf = << >> /\ dv[j].sz = DIVIDER
        BY <2>4, <3>2, DividerIs
      <3>4. skip # 1
        BY <2>6 DEF SkipHere
      <3> QED BY <2>6, <3>3, <3>4 DEF CellFits
    <2>7. CASE ~(intkey /\ node[Here].leaf)
      <3>1. PICK c \in CellType : c = cells[cnt[j] + 1]
        BY <2>5
      <3>2. dv[j] = [c EXCEPT !.left = pgs[j]]
        BY <2>7, <3>1 DEF DividersOf
      <3>3. dv[j] \in CellType /\ dv[j].left = pgs[j] /\ dv[j].ovf = c.ovf /\ dv[j].sz = c.sz
        BY <2>4, <3>2 DEF CellType
      <3>4. skip = 1
        BY <2>7 DEF SkipHere
      <3>5. CellFits(intkey, node[Here].leaf, c)
        BY <1>1, <2>2, <3>1
      <3>6. CellFits(intkey, FALSE, dv[j])
        BY <2>7, <3>3, <3>5 DEF CellFits
      <3> QED BY <3>1, <3>3, <3>4, <3>6
    <2> QED BY <2>6, <2>7
  <1>3. dv \in [1 .. k - 1 -> CellType]
    <2>1. dv = [j \in 1 .. k - 1 |-> dv[j]]
      BY DEF DividersOf
    <2> QED BY <1>2, <2>1
  <1>4. k - 1 \in Nat
    BY <1>1
  <1>5. dv \in Seq(CellType) /\ Len(dv) = k - 1
    BY <1>3, <1>4
  <1> QED BY <1>2, <1>5 DEF DividersMade

\* The page above: what was before the siblings, the dividers, what was after.
AboveOf(above, par, lo, hi, dv, last) ==
    above = IF hi = << >> THEN [par EXCEPT !.cell = lo \o dv, !.right = last]
            ELSE [par EXCEPT !.cell = (lo \o dv) \o [hi EXCEPT ![1].left = last]]

AboveMade(above, par, lo, hi, dv, last) ==
    /\ above \in NodeType /\ above.leaf = par.leaf
    /\ Len(above.cell) = Len(lo) + Len(dv) + Len(hi)
    /\ \A x \in 1 .. Len(lo) : above.cell[x] = lo[x]
    /\ \A j \in 1 .. Len(dv) : above.cell[Len(lo) + j] = dv[j]
    /\ \A x \in 1 .. Len(hi) :
          /\ above.cell[Len(lo) + Len(dv) + x].ovf = hi[x].ovf
          /\ above.cell[Len(lo) + Len(dv) + x].sz = hi[x].sz
          /\ above.cell[Len(lo) + Len(dv) + x].left = IF x = 1 THEN last ELSE hi[x].left
    /\ above.right = IF Len(hi) = 0 THEN last ELSE par.right

\* Its cells, by their places.
LEMMA AboveIsMade ==
    ASSUME NEW par \in NodeType, NEW lo \in Seq(CellType), NEW hi \in Seq(CellType), NEW dv \in Seq(CellType),
           NEW last \in Nat, NEW above, AboveOf(above, par, lo, hi, dv, last)
    PROVE  AboveMade(above, par, lo, hi, dv, last)
  <1>1. PICK a \in Nat : a = Len(lo)
    OBVIOUS
  <1>2. PICK b \in Nat : b = Len(dv)
    OBVIOUS
  <1>3. PICK c \in Nat : c = Len(hi)
    OBVIOUS
  <1>4. PICK before : before = lo \o dv
    OBVIOUS
  <1>5. /\ before \in Seq(CellType) /\ Len(before) = a + b
        /\ \A x \in 1 .. a : before[x] = lo[x]
        /\ \A j \in 1 .. b : before[a + j] = dv[j]
    BY <1>1, <1>2, <1>4
  <1>6. par.leaf \in BOOLEAN /\ par.right \in Nat /\ par.cell \in Seq(CellType) /\ par = [leaf |-> par.leaf, cell |-> par.cell, right |-> par.right]
    BY DEF NodeType
  <1>7. CASE c = 0
    <2>1. hi = << >>
      <3>1. Len(hi) = 0
        BY <1>3, <1>7
      <3>2. hi \in Seq(CellType) /\ (Len(hi) = 0 => hi = << >>)
        OBVIOUS
      <3> QED BY <3>1, <3>2
    <2>2. above = [par EXCEPT !.cell = before, !.right = last]
      BY <1>4, <2>1 DEF AboveOf
    <2>3. above = [leaf |-> par.leaf, cell |-> before, right |-> last]
      BY <1>6, <2>2
    <2>4. above \in NodeType
      BY <1>5, <1>6, <2>3 DEF NodeType
    <2>5. above.leaf = par.leaf /\ above.cell = before /\ above.right = last
      BY <2>3
    <2>6. a + b + c = a + b
      BY <1>7
    <2> QED BY <1>1, <1>2, <1>3, <1>5, <1>7, <2>4, <2>5, <2>6 DEF AboveMade
  <1>8. CASE c # 0
    <2>1. hi # << >> /\ 1 \in 1 .. c
      BY <1>3, <1>8
    <2>2. hi[1] \in CellType
      BY <1>3, <2>1
    <2>3. PICK first : first = [hi[1] EXCEPT !.left = last]
      OBVIOUS
    <2>4. first \in CellType /\ first.left = last /\ first.ovf = hi[1].ovf /\ first.sz = hi[1].sz
      BY <2>2, <2>3 DEF CellType
    <2>5. PICK after : after = [hi EXCEPT ![1] = first]
      OBVIOUS
    <2>6. /\ after \in Seq(CellType) /\ Len(after) = c
          /\ \A x \in 1 .. c : after[x] = IF x = 1 THEN first ELSE hi[x]
      BY <1>3, <2>1, <2>4, <2>5
    <2>7. [hi EXCEPT ![1].left = last] = after
      BY <2>3, <2>5
    <2>8. PICK all : all = before \o after
      OBVIOUS
    <2>9. /\ all \in Seq(CellType) /\ Len(all) = (a + b) + c
          /\ \A x \in 1 .. a + b : all[x] = before[x]
          /\ \A x \in 1 .. c : all[(a + b) + x] = after[x]
      <3>1. before \in Seq(CellType) /\ after \in Seq(CellType)
        BY <1>5, <2>6
      <3>2. /\ before \o after \in Seq(CellType) /\ Len(before \o after) = Len(before) + Len(after)
            /\ \A x \in 1 .. Len(before) : (before \o after)[x] = before[x]
            /\ \A x \in 1 .. Len(after) : (before \o after)[Len(before) + x] = after[x]
        BY <3>1
      <3>3. Len(before) = a + b /\ Len(after) = c
        BY <1>5, <2>6
      <3> QED BY <2>8, <3>2, <3>3
    <2>10. above = [par EXCEPT !.cell = all]
      BY <1>4, <2>1, <2>7, <2>8 DEF AboveOf
    <2>11. above = [leaf |-> par.leaf, cell |-> all, right |-> par.right]
      BY <1>6, <2>10
    <2>12. above \in NodeType
      BY <1>6, <2>9, <2>11 DEF NodeType
    <2>13. above.leaf = par.leaf /\ above.cell = all /\ above.right = par.right
      BY <2>11
    <2>14. \A x \in 1 .. a : all[x] = lo[x]
      <3>1. \A x \in 1 .. a : x \in 1 .. a + b
        OBVIOUS
      <3> QED BY <1>5, <2>9, <3>1
    <2>15. \A j \in 1 .. b : all[a + j] = dv[j]
      <3>1. \A j \in 1 .. b : a + j \in 1 .. a + b
        OBVIOUS
      <3> QED BY <1>5, <2>9, <3>1
    <2>16. \A x \in 1 .. c : /\ all[(a + b) + x].ovf = hi[x].ovf
                             /\ all[(a + b) + x].sz = hi[x].sz
                             /\ all[(a + b) + x].left = IF x = 1 THEN last ELSE hi[x].left
      BY <2>4, <2>6, <2>9
    <2> QED BY <1>1, <1>2, <1>3, <1>8, <2>9, <2>12, <2>13, <2>14, <2>15, <2>16 DEF AboveMade
  <1> QED BY <1>7, <1>8

\* The siblings of the page w is on, as an Assembly.
GroupHere(A, P, cells, skip) ==
    /\ AssemblyType(A) /\ A.P = P /\ P \in DOMAIN node /\ ~node[P].leaf
    /\ A.cells = cells /\ A.skip = skip /\ A.leaf = node[Here].leaf /\ A.top = node[P].right

NewPages(A, P, k, pgs) ==
    /\ pgs \in [1 .. k -> Nat]
    /\ \A i, j \in 1 .. k : pgs[i] = pgs[j] => i = j
    /\ \A i \in 1 .. k : pgs[i] # P /\ pgs[i] \notin DOMAIN A.others

Regrouped(g, A, P, cells, skip, cnt, k, pgs, dv) ==
    /\ DOMAIN g = DOMAIN A.others \cup {P} \cup {pgs[i] : i \in 1 .. k}
    /\ g = [p \in DOMAIN g |-> g[p]]
    /\ \A p \in DOMAIN A.others : g[p] = A.others[p]
    /\ \A i \in 1 .. k : PageMade(g[pgs[i]], cells, skip, cnt, k, i, A.right)
    /\ AboveMade(g[P], node[P], A.lo, A.hi, dv, pgs[k])

\* The pages of the new tree.
LEMMA RegroupedNodes ==
    ASSUME NEW A, NEW P, NEW cells, NEW skip, GroupHere(A, P, cells, skip),
           NEW k, NEW pgs, NewPages(A, P, k, pgs), NEW cnt, NEW dv,
           NEW g, Regrouped(g, A, P, cells, skip, cnt, k, pgs, dv)
    PROVE  Nodes(g)
  <1>1. /\ A.others \in [DOMAIN A.others -> NodeType] /\ DOMAIN A.others \subseteq Nat
        /\ P \in Nat /\ ROOT \in DOMAIN A.others \cup {P}
    BY DEF GroupHere, AssemblyType
  <1>2. \A i \in 1 .. k : pgs[i] \in Nat /\ g[pgs[i]] \in NodeType
    BY DEF NewPages, Regrouped, PageMade
  <1>3. g[P] \in NodeType
    BY DEF Regrouped, AboveMade
  <1>4. DOMAIN g = DOMAIN A.others \cup {P} \cup {pgs[i] : i \in 1 .. k} /\ g = [p \in DOMAIN g |-> g[p]]
    BY DEF Regrouped
  <1>5. \A p \in DOMAIN A.others : g[p] \in NodeType
    BY <1>1 DEF Regrouped
  <1>6. \A p \in DOMAIN g : g[p] \in NodeType
    BY <1>2, <1>3, <1>4, <1>5
  <1>7. g \in [DOMAIN g -> NodeType]
    BY <1>4, <1>6
  <1>8. DOMAIN g \subseteq Nat /\ ROOT \in DOMAIN g
    BY <1>1, <1>2, <1>4
  <1> QED BY <1>7, <1>8 DEF Nodes

StartsOf(st, cnt, skip, k) == st = [i \in 1 .. k + 1 |-> StartOf(cnt, skip, i)]

\* Where the pages start among the cells.
LEMMA CutStairs ==
    ASSUME NEW cells, NEW skip, NEW cnt, NEW k, NEW m, Cuts(cells, skip, cnt, k, m),
           NEW st, StartsOf(st, cnt, skip, k)
    PROVE  /\ st \in [1 .. k + 1 -> Nat] /\ st[1] = 0 /\ st[k + 1] = Len(cells) + skip
           /\ \A i \in 1 .. k : st[i] = StartOf(cnt, skip, i) /\ st[i + 1] = cnt[i] + skip
  <1>1. k \in Nat \ {0} /\ skip \in 0 .. 1 /\ cnt[k] = m /\ m = Len(cells) /\ m \in Nat
    BY DEF Cuts
  <1>2. \A i \in 1 .. k : i \in 1 .. k + 1 /\ i + 1 \in 1 .. k + 1 /\ i + 1 # 1 /\ (i + 1) - 1 = i
    BY <1>1
  <1>3. \A i \in 1 .. k : st[i] = StartOf(cnt, skip, i) /\ st[i + 1] = cnt[i] + skip
    <2>1. \A i \in 1 .. k + 1 : st[i] = StartOf(cnt, skip, i)
      BY DEF StartsOf
    <2> QED BY <1>2, <2>1 DEF StartOf
  <1>4. \A i \in 1 .. k : st[i] \in Nat /\ st[i + 1] \in Nat
    <2>1. ASSUME NEW i \in 1 .. k PROVE st[i] \in Nat /\ st[i + 1] \in Nat
      <3>1. cnt[i] \in 0 .. m /\ StartOf(cnt, skip, i) \in Nat
        BY CutAt
      <3>2. st[i] = StartOf(cnt, skip, i) /\ st[i + 1] = cnt[i] + skip
        BY <1>3
      <3> QED BY <1>1, <3>1, <3>2
    <2> QED BY <2>1
  <1>5. 1 \in 1 .. k /\ k \in 1 .. k
    BY <1>1
  <1>6. st[1] = 0
    BY <1>3, <1>5 DEF StartOf
  <1>7. st[k + 1] = Len(cells) + skip
    BY <1>1, <1>3, <1>5
  <1>8. \A i \in 1 .. k + 1 : st[i] \in Nat
    <2>1. \A i \in 1 .. k + 1 : i \in 1 .. k \/ i = k + 1
      BY <1>1
    <2> QED BY <1>4, <1>5, <2>1
  <1>9. st \in [1 .. k + 1 -> Nat]
    BY <1>8 DEF StartsOf
  <1> QED BY <1>3, <1>6, <1>7, <1>9

\* The new tree is an assembly of the same cells.
LEMMA NewAssembly ==
    ASSUME NEW A, NEW P, NEW cells, NEW skip, GroupHere(A, P, cells, skip), SkipHere(skip),
           NEW cnt, NEW k, NEW m, Cuts(cells, skip, cnt, k, m),
           NEW pgs, NewPages(A, P, k, pgs), NEW dv, DividersMade(dv, cells, skip, cnt, k, pgs),
           NEW g, Regrouped(g, A, P, cells, skip, cnt, k, pgs, dv),
           NEW st, StartsOf(st, cnt, skip, k)
    PROVE  Assembly(g, A, k, pgs, st)
  <1>1. /\ st \in [1 .. k + 1 -> Nat] /\ st[1] = 0 /\ st[k + 1] = Len(cells) + skip
        /\ \A i \in 1 .. k : st[i] = StartOf(cnt, skip, i) /\ st[i + 1] = cnt[i] + skip
    BY CutStairs
  <1>2. k \in Nat \ {0} /\ skip \in 0 .. 1
    BY DEF Cuts
  <1>3. Nodes(g)
    BY RegroupedNodes
  <1>4. /\ AssemblyType(A) /\ A.P = P /\ A.cells = cells /\ A.skip = skip /\ A.leaf = node[Here].leaf
        /\ A.top = node[P].right /\ ~node[P].leaf
    BY DEF GroupHere
  <1>5. Assembled(g, A, k, pgs, st)
    BY <1>2, <1>3, <1>4 DEF Assembled, NewPages, Regrouped
  <1>6. ASSUME NEW i \in 1 .. k
        PROVE  /\ st[i + 1] = st[i] + Len(g[pgs[i]].cell) + skip
               /\ g[pgs[i]].leaf = A.leaf
               /\ \A x \in 1 .. Len(g[pgs[i]].cell) : g[pgs[i]].cell[x] = cells[st[i] + x]
               /\ ~A.leaf => g[pgs[i]].right = IF i = k THEN A.right ELSE cells[st[i + 1]].left
    <2>1. PageMade(g[pgs[i]], cells, skip, cnt, k, i, A.right)
      BY DEF Regrouped
    <2>2. st[i] = StartOf(cnt, skip, i) /\ st[i + 1] = cnt[i] + skip
      BY <1>1
    <2>3. PICK s : s = g[pgs[i]]
      OBVIOUS
    <2>4. /\ s.leaf = node[Here].leaf /\ Len(s.cell) = cnt[i] - st[i] /\ Len(s.cell) \in Nat
          /\ \A x \in 1 .. Len(s.cell) : s.cell[x] = cells[st[i] + x]
          /\ ~node[Here].leaf => s.right = IF i = k THEN A.right ELSE cells[cnt[i] + 1].left
      BY <2>1, <2>2, <2>3 DEF PageMade
    <2>5. st[i + 1] = st[i] + Len(s.cell) + skip
      <3>1. cnt[i] \in 0 .. m /\ StartOf(cnt, skip, i) \in Nat /\ m \in Nat
        BY CutAt
      <3>2. PICK len \in Nat : len = Len(s.cell)
        BY <2>4
      <3> QED BY <1>2, <2>2, <2>4, <3>1, <3>2
    <2>6. ~A.leaf => st[i + 1] = cnt[i] + 1
      BY <1>4, <2>2 DEF SkipHere
    <2> QED BY <1>4, <2>3, <2>4, <2>5, <2>6
  <1>7. LaidOut(g, A, k, pgs, st)
    <2>1. \A i \in 1 .. k :
             /\ st[i + 1] = st[i] + Len(g[pgs[i]].cell) + A.skip
             /\ g[pgs[i]].leaf = A.leaf
             /\ \A x \in 1 .. Len(g[pgs[i]].cell) : g[pgs[i]].cell[x] = A.cells[st[i] + x]
             /\ ~A.leaf => g[pgs[i]].right = IF i = k THEN A.right ELSE A.cells[st[i + 1]].left
      BY <1>4, <1>6
    <2>2. st[k + 1] = Len(A.cells) + A.skip
      BY <1>1, <1>4
    <2> QED BY <1>1, <2>1, <2>2 DEF LaidOut
  <1>8. AboveMade(g[P], node[P], A.lo, A.hi, dv, pgs[k])
    BY DEF Regrouped
  <1>9. PICK a \in Nat : a = Len(A.lo)
    <2>1. A.lo \in Seq(CellType)
      BY <1>4 DEF AssemblyType
    <2> QED BY <2>1
  <1>10. PICK c \in Nat : c = Len(A.hi)
    <2>1. A.hi \in Seq(CellType)
      BY <1>4 DEF AssemblyType
    <2> QED BY <2>1
  <1>11. PICK n : n = g[P]
    OBVIOUS
  <1>12. /\ n.leaf = node[P].leaf /\ Len(n.cell) = a + Len(dv) + c
         /\ \A x \in 1 .. a : n.cell[x] = A.lo[x]
         /\ \A j \in 1 .. Len(dv) : n.cell[a + j] = dv[j]
         /\ \A x \in 1 .. c :
               /\ n.cell[a + Len(dv) + x].ovf = A.hi[x].ovf
               /\ n.cell[a + Len(dv) + x].left = IF x = 1 THEN pgs[k] ELSE A.hi[x].left
         /\ n.right = IF c = 0 THEN pgs[k] ELSE node[P].right
    BY <1>8, <1>9, <1>10, <1>11 DEF AboveMade
  <1>13. Len(dv) = k - 1
    BY DEF DividersMade
  <1>14. \A j \in 1 .. k - 1 : /\ dv[j].left = pgs[j]
                               /\ dv[j].ovf = IF skip = 1 THEN cells[cnt[j] + 1].ovf ELSE << >>
    BY DEF DividersMade
  <1>15. Above1(g, A, k, pgs, st)
    <2>1. ~n.leaf /\ Len(n.cell) = a + (k - 1) + c
      BY <1>4, <1>12, <1>13
    <2>2. ASSUME NEW i \in 1 .. k - 1
          PROVE  n.cell[a + i].ovf = IF skip = 1 THEN cells[st[i + 1]].ovf ELSE << >>
      <3>1. n.cell[a + i] = dv[i]
        BY <1>12, <1>13
      <3>2. i \in 1 .. k
        BY <1>2
      <3>3. st[i + 1] = cnt[i] + skip
        BY <1>1, <3>2
      <3> QED BY <1>14, <3>1, <3>3
    <2>3. ASSUME NEW i \in 1 .. k
          PROVE  Child(n, a + i) = pgs[i]
      <3>1. CASE i # k
        <4>1. i \in 1 .. k - 1 /\ a + i <= a + (k - 1) + c
          BY <1>2, <3>1
        <4>2. n.cell[a + i] = dv[i]
          BY <1>12, <1>13, <4>1
        <4> QED BY <1>14, <2>1, <4>1, <4>2 DEF Child
      <3>2. CASE i = k /\ c # 0
        <4>1. a + i <= a + (k - 1) + c /\ a + i = a + (k - 1) + 1 /\ 1 \in 1 .. c
          BY <1>2, <3>2
        <4>2. n.cell[a + (k - 1) + 1].left = pgs[k]
          BY <1>12, <1>13, <4>1
        <4>3. n.cell[a + i].left = pgs[k]
          BY <4>1, <4>2
        <4>4. a + i <= Len(n.cell)
          BY <2>1, <4>1
        <4> QED BY <3>2, <4>3, <4>4 DEF Child
      <3>3. CASE i = k /\ c = 0
        <4>1. ~(a + i <= a + (k - 1) + c)
          BY <1>2, <3>3
        <4>2. n.right = pgs[k]
          BY <1>12, <3>3
        <4> QED BY <2>1, <3>3, <4>1, <4>2 DEF Child
      <3> QED BY <3>1, <3>2, <3>3
    <2>4. ASSUME NEW x \in 1 .. c
          PROVE  Child(n, a + k + x) = IF x < c THEN A.hi[x + 1].left ELSE A.top
      <3>1. CASE x < c
        <4>1. x + 1 \in 1 .. c /\ x + 1 # 1 /\ a + k + x <= a + (k - 1) + c /\ a + (k - 1) + (x + 1) = a + k + x
          BY <1>2, <3>1
        <4>2. n.cell[a + (k - 1) + (x + 1)].left = A.hi[x + 1].left
          BY <1>12, <1>13, <4>1
        <4>3. n.cell[a + k + x].left = A.hi[x + 1].left
          BY <4>1, <4>2
        <4>4. a + k + x <= Len(n.cell)
          BY <2>1, <4>1
        <4> QED BY <3>1, <4>3, <4>4 DEF Child
      <3>2. CASE ~(x < c)
        <4>1. ~(a + k + x <= a + (k - 1) + c) /\ c # 0
          BY <1>2, <3>2
        <4>2. n.right = A.top
          BY <1>4, <1>12, <4>1
        <4> QED BY <2>1, <3>2, <4>1, <4>2 DEF Child
      <3> QED BY <3>1, <3>2
    <2>5. \A x \in 1 .. c : n.cell[a + (k - 1) + x].ovf = A.hi[x].ovf
      BY <1>12, <1>13
    <2>6. \A x \in 1 .. c : Child(n, a + k + x) = AfterKid(A, x)
      BY <1>10, <2>4 DEF AfterKid
    <2>7. g[A.P] = n
      BY <1>4, <1>11
    <2> QED BY <1>4, <1>9, <1>10, <1>12, <2>1, <2>2, <2>3, <2>5, <2>6, <2>7 DEF Above1
  <1> QED BY <1>4, <1>5, <1>7, <1>15 DEF Assembly

\* Every cell of the new tree fits where it is.
LEMMA RegroupedShapes ==
    ASSUME Nodes(node), Shapes(intkey, node), intkey \in BOOLEAN,
           NEW A, NEW P, NEW d, NEW k0, NEW olds, NEW skip, NEW cells, NEW n,
           GroupParts(A, P, d, k0, olds, skip, cells, n), GroupHere(A, P, cells, skip),
           NEW cnt, NEW k, NEW m, Cuts(cells, skip, cnt, k, m),
           \A c \in 1 .. Len(cells) : CellFits(intkey, node[Here].leaf, cells[c]),
           NEW pgs, NewPages(A, P, k, pgs), NEW dv, DividersMade(dv, cells, skip, cnt, k, pgs),
           NEW g, Regrouped(g, A, P, cells, skip, cnt, k, pgs, dv)
    PROVE  Shapes(intkey, g)
  <1>1. DOMAIN g = DOMAIN A.others \cup {P} \cup {pgs[i] : i \in 1 .. k}
    BY DEF Regrouped
  <1>2. ASSUME NEW p \in DOMAIN A.others, NEW j \in 1 .. Len(g[p].cell)
        PROVE  CellFits(intkey, g[p].leaf, g[p].cell[j])
    <2>1. g[p] = node[p] /\ p \in DOMAIN node
      BY DEF Regrouped, GroupParts
    <2> QED BY <2>1 DEF Shapes
  <1>3. ASSUME NEW i \in 1 .. k, NEW j \in 1 .. Len(g[pgs[i]].cell)
        PROVE  CellFits(intkey, g[pgs[i]].leaf, g[pgs[i]].cell[j])
    <2>1. PageMade(g[pgs[i]], cells, skip, cnt, k, i, A.right)
      BY DEF Regrouped
    <2>2. PICK s : s = g[pgs[i]]
      OBVIOUS
    <2>3. PICK from : from = StartOf(cnt, skip, i)
      OBVIOUS
    <2>4. /\ s.leaf = node[Here].leaf /\ Len(s.cell) = cnt[i] - from /\ Len(s.cell) \in Nat
          /\ s.cell[j] = cells[from + j]
      BY <2>1, <2>2, <2>3 DEF PageMade
    <2>5. cnt[i] \in 0 .. m /\ from \in Nat /\ m \in Nat
      BY <2>3, CutAt
    <2>6. m = Len(cells)
      BY DEF Cuts
    <2>7. PICK len \in Nat : len = Len(s.cell)
      BY <2>4
    <2>8. j \in 1 .. len
      BY <2>2, <2>7
    <2>9. from + j \in 1 .. m
      BY <2>4, <2>5, <2>7, <2>8
    <2> QED BY <2>2, <2>4, <2>6, <2>9
  <1>4. ASSUME NEW j \in 1 .. Len(g[P].cell)
        PROVE  CellFits(intkey, g[P].leaf, g[P].cell[j])
    <2>1. AboveMade(g[P], node[P], A.lo, A.hi, dv, pgs[k])
      BY DEF Regrouped
    <2>2. P \in DOMAIN node /\ ~node[P].leaf
      BY DEF GroupHere
    <2>3. \A x \in 1 .. n : CellFits(intkey, node[P].leaf, node[P].cell[x])
      BY <2>2 DEF Shapes, GroupParts
    <2>4. node[P].leaf = FALSE
      <3>1. node[P].leaf \in BOOLEAN
        BY <2>2, NodeIs
      <3> QED BY <2>2, <3>1
    <2>5. PICK a \in Nat : a = d /\ a = Len(A.lo)
      BY DEF GroupParts
    <2>6. PICK c : c = Len(A.hi)
      OBVIOUS
    <2>7. n \in Nat /\ d \in Nat /\ k0 \in Nat \ {0} /\ d + k0 <= n + 1 /\ c = n - (d + k0 - 1)
      BY <2>6 DEF GroupParts
    <2>8. c \in Nat
      BY <2>7
    <2>9. PICK b \in Nat : b = k - 1 /\ b = Len(dv)
      <3>1. k \in Nat \ {0}
        BY DEF Cuts
      <3>2. Len(dv) = k - 1
        BY DEF DividersMade
      <3> QED BY <3>1, <3>2
    <2>10. PICK s : s = g[P]
      OBVIOUS
    <2>11. /\ s.leaf = node[P].leaf /\ Len(s.cell) = a + b + c
           /\ \A x \in 1 .. a : s.cell[x] = A.lo[x]
           /\ \A x \in 1 .. b : s.cell[a + x] = dv[x]
           /\ \A x \in 1 .. c : /\ s.cell[a + b + x].ovf = A.hi[x].ovf
                                /\ s.cell[a + b + x].sz = A.hi[x].sz
      BY <2>1, <2>5, <2>6, <2>9, <2>10 DEF AboveMade
    <2>12. j \in 1 .. a + b + c
      BY <2>10, <2>11
    <2>13. CASE j <= a
      <3>1. j \in 1 .. a /\ j \in 1 .. n
        BY <2>5, <2>7, <2>12, <2>13
      <3>2. s.cell[j] = node[P].cell[j]
        <4>1. A.lo[j] = node[P].cell[j]
          BY <2>5, <3>1 DEF GroupParts
        <4> QED BY <2>11, <3>1, <4>1
      <3> QED BY <2>3, <2>10, <2>11, <3>1, <3>2
    <2>14. CASE j > a /\ j <= a + b
      <3>1. PICK x \in 1 .. b : j = a + x
        <4>1. j - a \in 1 .. b /\ j = a + (j - a)
          BY <2>12, <2>14
        <4> QED BY <4>1
      <3>2. s.cell[j] = dv[x]
        BY <2>11, <3>1
      <3>3. CellFits(intkey, FALSE, dv[x])
        BY <2>9, <3>1 DEF DividersMade
      <3> QED BY <2>4, <2>10, <2>11, <3>2, <3>3
    <2>15. CASE j > a + b
      <3>1. PICK x \in 1 .. c : j = a + b + x
        <4>1. j - (a + b) \in 1 .. c /\ j = a + b + (j - (a + b))
          BY <2>8, <2>12, <2>15
        <4> QED BY <4>1
      <3>2. s.cell[j].ovf = A.hi[x].ovf /\ s.cell[j].sz = A.hi[x].sz
        BY <2>11, <3>1
      <3>3. (d + k0 - 1) + x \in 1 .. n
        BY <2>7, <2>8, <3>1
      <3>4. A.hi[x] = node[P].cell[(d + k0 - 1) + x]
        BY <2>6, <2>7, <3>1 DEF GroupParts
      <3>5. CellFits(intkey, node[P].leaf, A.hi[x])
        BY <2>3, <3>3, <3>4
      <3>6. CellFits(intkey, node[P].leaf, s.cell[j])
        BY <3>2, <3>5 DEF CellFits
      <3> QED BY <2>10, <2>11, <3>6
    <2> QED BY <2>12, <2>13, <2>14, <2>15
  <1> QED BY <1>1, <1>2, <1>3, <1>4 DEF Shapes

\* A part of a list of pages lists its own pages.
LEMMA ListingPart ==
    ASSUME NEW s, NEW S, Listing(s, S), NEW a \in Nat, NEW b \in Nat, a <= b, b <= Len(s)
    PROVE  /\ Listing(SubSeq(s, a + 1, b), {s[i] : i \in a + 1 .. b})
           /\ Len(SubSeq(s, a + 1, b)) = b - a
  <1>1. s \in Seq(Nat) /\ \A i, j \in 1 .. Len(s) : s[i] = s[j] => i = j
    BY DEF Listing
  <1>2. PICK m \in Nat : m = Len(s)
    BY <1>1
  <1>3. a \in 0 .. Len(s) /\ b \in 0 .. Len(s)
    BY <1>2
  <1>4. /\ SubSeq(s, a + 1, b) \in Seq(Nat) /\ Len(SubSeq(s, a + 1, b)) = b - a
        /\ \A j \in 1 .. b - a : SubSeq(s, a + 1, b)[j] = s[a + j]
    <2>1. Len(s) \in Nat /\ a + 1 \in Nat /\ \A j \in a + 1 .. b : s[j] \in Nat
      BY <1>1, <1>3
    <2>2. SubSeq(s, a + 1, b) \in Seq(Nat)
      BY <1>1, <2>1
    <2>3. Len(SubSeq(s, a + 1, b)) = b - a
      BY <1>1, <2>1
    <2>4. \A j \in 1 .. b - a : SubSeq(s, a + 1, b)[j] = s[a + j]
      BY <1>1, <2>1
    <2> QED BY <2>2, <2>3, <2>4
  <1>5. PICK t : /\ t = SubSeq(s, a + 1, b)
                 /\ t \in Seq(Nat) /\ Len(t) = b - a /\ \A j \in 1 .. b - a : t[j] = s[a + j]
    BY <1>4, Zenon
  <1>6. PICK n \in Nat : n = b - a
    OBVIOUS
  <1>7. \A i, j \in 1 .. n : t[i] = t[j] => i = j
    <2> SUFFICES ASSUME NEW i \in 1 .. n, NEW j \in 1 .. n, t[i] = t[j] PROVE i = j
      OBVIOUS
    <2>1. a + i \in 1 .. m /\ a + j \in 1 .. m
      BY <1>2, <1>6
    <2>2. s[a + i] = s[a + j]
      BY <1>5, <1>6
    <2>3. a + i = a + j
      BY <1>1, <1>2, <2>1, <2>2
    <2> QED BY <2>3
  <1>8. {t[j] : j \in 1 .. n} = {s[i] : i \in a + 1 .. b}
    <2>1. ASSUME NEW j \in 1 .. n PROVE \E i \in a + 1 .. b : t[j] = s[i]
      <3>1. a + j \in a + 1 .. b /\ t[j] = s[a + j]
        BY <1>5, <1>6
      <3> QED BY <3>1
    <2>2. ASSUME NEW i \in a + 1 .. b PROVE \E j \in 1 .. n : t[j] = s[i]
      <3>1. i - a \in 1 .. n /\ a + (i - a) = i
        BY <1>6
      <3>2. t[i - a] = s[a + (i - a)]
        BY <1>5, <1>6, <3>1
      <3>3. t[i - a] = s[i]
        BY <3>1, <3>2
      <3> QED BY <3>1, <3>3
    <2>3. {t[j] : j \in 1 .. n} \subseteq {s[i] : i \in a + 1 .. b}
      <3> SUFFICES ASSUME NEW x \in {t[j] : j \in 1 .. n} PROVE x \in {s[i] : i \in a + 1 .. b}
        OBVIOUS
      <3>1. PICK j \in 1 .. n : x = t[j]
        OBVIOUS
      <3>2. PICK i \in a + 1 .. b : t[j] = s[i]
        BY <2>1
      <3> QED BY <3>1, <3>2
    <2>4. {s[i] : i \in a + 1 .. b} \subseteq {t[j] : j \in 1 .. n}
      <3> SUFFICES ASSUME NEW x \in {s[i] : i \in a + 1 .. b} PROVE x \in {t[j] : j \in 1 .. n}
        OBVIOUS
      <3>1. PICK i \in a + 1 .. b : x = s[i]
        OBVIOUS
      <3>2. PICK j \in 1 .. n : t[j] = s[i]
        BY <2>2
      <3> QED BY <3>1, <3>2
    <2> QED BY <2>3, <2>4
  <1> QED BY <1>4, <1>5, <1>6, <1>7, <1>8, ZenonT(30) DEF Listing, Pages

\* The pages of the new siblings: as many of the old ones as are needed, and new ones.
ChosenFrom(f, olds, k0, k, new, pgs) ==
    /\ new = AllocateMany(f, olds[1], k - k0)
    /\ pgs = Ascending(ToSet(SubSeq(olds, 1, Min({k, k0})) \o new.pgs))

Chosen(f, olds, k0, k, new, pgs, gone) ==
    /\ pgs \in [1 .. k -> Nat] /\ \A i, j \in 1 .. k : pgs[i] = pgs[j] => i = j
    /\ gone \subseteq Pages(olds)
    /\ {pgs[i] : i \in 1 .. k} = (Pages(olds) \ gone) \cup Pages(new.pgs)
    /\ Listing(SubSeq(olds, k + 1, k0), gone)
    /\ FileOK(new.file) /\ Used(new.file) = Used(f) \cup Pages(new.pgs)
    /\ \A x \in Pages(new.pgs) : x \notin Used(f) /\ x \in Nat /\ x >= 3
    /\ \A x \in gone : \E i \in k + 1 .. k0 : x = olds[i]
    /\ k = 1 => pgs[1] = olds[1] /\ gone = {olds[i] : i \in 2 .. k0}

\* They are k pages, and the old ones that go are those past the k-th.
LEMMA ChosenIs ==
    ASSUME NEW f, FileOK(f), NEW olds, NEW k0 \in Nat \ {0}, Listing(olds, Pages(olds)), Len(olds) = k0,
           \A i \in 1 .. k0 : olds[i] \in Used(f),
           NEW k \in Nat \ {0}, NEW new, NEW pgs, ChosenFrom(f, olds, k0, k, new, pgs)
    PROVE  \E gone : Chosen(f, olds, k0, k, new, pgs, gone)
  <1>1. /\ olds \in Seq(Nat) /\ \A i, j \in 1 .. k0 : olds[i] = olds[j] => i = j
    BY DEF Listing
  <1>2. olds[1] \in Nat
    <2>1. 1 \in 1 .. Len(olds)
      OBVIOUS
    <2> QED BY <1>1, <2>1
  <1>3. PICK N \in Nat : (k - k0 >= 0 => N = k - k0) /\ (k - k0 < 0 => N = 0) /\ Taken1(f, new, N)
    <2>1. k - k0 \in Int
      OBVIOUS
    <2>2. LET M == Max({0, k - k0}) IN
          M \in Nat /\ (k - k0 >= 0 => M = k - k0) /\ (k - k0 < 0 => M = 0)
          /\ Taken1(f, AllocateMany(f, olds[1], k - k0), M)
      BY <1>2, <2>1, ManyTaken
    <2> QED BY <2>2 DEF ChosenFrom
  <1>4. PICK a \in Nat : a = Min({k, k0}) /\ a <= k /\ a <= k0 /\ (a = k \/ a = k0)
    <2>1. {k, k0} \subseteq Nat /\ {k, k0} # {}
      OBVIOUS
    <2>2. Min({k, k0}) \in {k, k0} /\ \A y \in {k, k0} : Min({k, k0}) <= y
      BY <2>1, MinIs
    <2> QED BY <2>2
  <1>5. a + N = k /\ a >= 1
    BY <1>3, <1>4
  <1>6. /\ FileOK(new.file) /\ new.pgs \in Seq(Nat) /\ Len(new.pgs) = N
        /\ \A i \in 1 .. N : new.pgs[i] >= 3 /\ new.pgs[i] \notin Used(f)
        /\ \A i, j \in 1 .. N : new.pgs[i] = new.pgs[j] => i = j
        /\ Used(new.file) = Used(f) \cup {new.pgs[i] : i \in 1 .. N}
    BY <1>3 DEF Taken1
  <1>7. Listing(new.pgs, Pages(new.pgs))
    BY <1>6 DEF Listing
  <1> DEFINE kept == {olds[i] : i \in 1 .. a}
             gone == {olds[i] : i \in a + 1 .. k0}
             S == kept \cup Pages(new.pgs)
  <1>8. Listing(SubSeq(olds, 1, a), kept) /\ Len(SubSeq(olds, 1, a)) = a
    <2>1. a <= Len(olds) /\ 0 <= a
      BY <1>4
    <2>2. /\ Listing(SubSeq(olds, 0 + 1, a), {olds[i] : i \in 0 + 1 .. a})
          /\ Len(SubSeq(olds, 0 + 1, a)) = a - 0
      BY <2>1, ListingPart
    <2>3. 0 + 1 = 1 /\ a - 0 = a
      OBVIOUS
    <2> QED BY <2>2, <2>3
  <1>9. Listing(SubSeq(olds, k + 1, k0), gone)
    <2>1. CASE k <= k0
      <3>1. a = k /\ k0 <= Len(olds)
        BY <1>4, <2>1
      <3>2. Listing(SubSeq(olds, k + 1, k0), {olds[i] : i \in k + 1 .. k0})
        BY <2>1, <3>1, ListingPart
      <3> QED BY <3>1, <3>2
    <2>2. CASE ~(k <= k0)
      <3>1. a = k0
        BY <1>4, <2>2
      <3>2. gone = {}
        <4>1. a + 1 .. k0 = {}
          BY <3>1
        <4> QED BY <4>1
      <3>3. SubSeq(olds, k + 1, k0) = << >>
        <4>1. k + 1 > k0
          BY <2>2
        <4>2. SubSeq(olds, k + 1, k0) \in Seq(Nat) /\ Len(SubSeq(olds, k + 1, k0)) = 0
          BY <1>1, <4>1
        <4> QED BY <4>2
      <3> QED BY <3>2, <3>3, ListingNone
    <2> QED BY <2>1, <2>2
  <1>10. Pages(olds) = {olds[i] : i \in 1 .. k0}
    BY DEF Pages
  <1>11. kept \subseteq Pages(olds) /\ gone \subseteq Pages(olds)
    <2>1. \A i \in 1 .. a : i \in 1 .. k0
      BY <1>4
    <2>2. \A i \in a + 1 .. k0 : i \in 1 .. k0
      BY <1>4
    <2> QED BY <1>10, <2>1, <2>2
  <1>12. kept = Pages(olds) \ gone
    <2>1. ASSUME NEW i \in 1 .. k0 PROVE olds[i] \in kept <=> olds[i] \notin gone
      <3>1. CASE i \in 1 .. a
        <4>1. olds[i] \in kept
          BY <3>1
        <4>2. ASSUME olds[i] \in gone PROVE FALSE
          <5>1. PICK j \in a + 1 .. k0 : olds[i] = olds[j]
            BY <4>2
          <5>2. j \in 1 .. k0 /\ i # j
            BY <1>4, <3>1
          <5> QED BY <1>1, <5>1, <5>2
        <4> QED BY <4>1, <4>2
      <3>2. CASE i \notin 1 .. a
        <4>1. i \in a + 1 .. k0
          BY <1>4, <3>2
        <4>2. olds[i] \in gone
          BY <4>1
        <4>3. ASSUME olds[i] \in kept PROVE FALSE
          <5>1. PICK j \in 1 .. a : olds[i] = olds[j]
            BY <4>3
          <5>2. j \in 1 .. k0 /\ i # j
            BY <1>4, <3>2
          <5> QED BY <1>1, <5>1, <5>2
        <4> QED BY <4>2, <4>3
      <3> QED BY <3>1, <3>2
    <2> HIDE DEF kept, gone
    <2> QED BY <1>10, <1>11, <2>1
  <1>13. \A x \in Pages(new.pgs) : x \notin Used(f) /\ x \in Nat /\ x >= 3
    BY <1>6 DEF Pages
  <1>14. kept \cap Pages(new.pgs) = {}
    <2>1. \A x \in kept : x \in Used(f)
      <3>1. \A i \in 1 .. a : i \in 1 .. k0
        BY <1>4
      <3> QED BY <3>1
    <2> QED BY <1>13, <2>1
  <1>15. Listing(SubSeq(olds, 1, a) \o new.pgs, S)
    <2> HIDE DEF kept
    <2> QED BY <1>7, <1>8, <1>14, ListingsJoin
  <1>16. Len(SubSeq(olds, 1, a) \o new.pgs) = k
    <2>1. SubSeq(olds, 1, a) \in Seq(Nat) /\ new.pgs \in Seq(Nat)
      BY <1>6, <1>8 DEF Listing
    <2>2. Len(SubSeq(olds, 1, a) \o new.pgs) = Len(SubSeq(olds, 1, a)) + Len(new.pgs)
      BY <2>1
    <2> QED BY <1>5, <1>6, <1>8, <2>2
  <1>17. PICK all : all = SubSeq(olds, 1, a) \o new.pgs
    OBVIOUS
  <1>18. IsFiniteSet(S) /\ Cardinality(S) = k /\ S \subseteq Nat
    <2> HIDE DEF S
    <2> QED BY <1>15, <1>16, ListingCount
  <1>19. ToSet(all) = S
    <2>1. all \in Seq(Nat) /\ Pages(all) = S
      BY <1>15, <1>17 DEF Listing
    <2>2. ToSet(all) = {all[i] : i \in DOMAIN all}
      BY DEF ToSet
    <2>3. DOMAIN all = 1 .. Len(all)
      BY <2>1
    <2> QED BY <2>1, <2>2, <2>3 DEF Pages
  <1>20. pgs = Ascending(S)
    BY <1>4, <1>17, <1>19 DEF ChosenFrom
  <1>21. /\ pgs \in [1 .. k -> S] /\ \A i, j \in 1 .. k : pgs[i] = pgs[j] => i = j
         /\ \A p \in S : \E i \in 1 .. k : pgs[i] = p
    <2> HIDE DEF S
    <2>1. k \in Nat /\ IsFiniteSet(S) /\ Cardinality(S) = k /\ S \subseteq Nat
      BY <1>18
    <2>2. /\ Ascending(S) \in [1 .. k -> S]
          /\ \A i, j \in 1 .. k : Ascending(S)[i] = Ascending(S)[j] => i = j
          /\ \A p \in S : \E i \in 1 .. k : Ascending(S)[i] = p
      BY <2>1, AscendingIs
    <2> QED BY <1>20, <2>2
  <1>22. pgs \in [1 .. k -> Nat] /\ {pgs[i] : i \in 1 .. k} = S
    <2> HIDE DEF S
    <2>1. \A i \in 1 .. k : pgs[i] \in S /\ pgs[i] \in Nat
      BY <1>18, <1>21
    <2> QED BY <1>21, <2>1
  <1>23. \A x \in gone : \E i \in k + 1 .. k0 : x = olds[i]
    <2> SUFFICES ASSUME NEW x \in gone PROVE \E i \in k + 1 .. k0 : x = olds[i]
      OBVIOUS
    <2>1. PICK i \in a + 1 .. k0 : x = olds[i]
      BY DEF gone
    <2>2. a = k
      BY <1>4, <2>1
    <2> QED BY <2>1, <2>2
  <1>24. k = 1 => pgs[1] = olds[1] /\ gone = {olds[i] : i \in 2 .. k0}
    <2> SUFFICES ASSUME k = 1 PROVE pgs[1] = olds[1] /\ gone = {olds[i] : i \in 2 .. k0}
      OBVIOUS
    <2>1. a = 1 /\ N = 0 /\ 1 \in 1 .. k
      BY <1>5
    <2>2. Pages(new.pgs) = {}
      <3>1. 1 .. N = {}
        BY <2>1
      <3> QED BY <1>6, <3>1 DEF Pages
    <2>3. kept = {olds[1]}
      <3>1. 1 .. a = {1}
        BY <2>1
      <3> QED BY <3>1
    <2>4. pgs[1] \in S
      BY <1>21, <2>1
    <2>5. gone = {olds[i] : i \in 2 .. k0}
      <3>1. a + 1 = 2
        BY <2>1
      <3> QED BY <3>1
    <2> QED BY <2>2, <2>3, <2>4, <2>5
  <1>25. Used(new.file) = Used(f) \cup Pages(new.pgs)
    BY <1>6 DEF Pages
  <1>26. {pgs[i] : i \in 1 .. k} = (Pages(olds) \ gone) \cup Pages(new.pgs)
    <2>1. S = (Pages(olds) \ gone) \cup Pages(new.pgs)
      BY <1>12
    <2> QED BY <1>22, <2>1
  <1> HIDE DEF gone, kept, S
  <1>27. Chosen(f, olds, k0, k, new, pgs, gone)
    BY <1>6, <1>9, <1>11, <1>13, <1>21, <1>22, <1>23, <1>24, <1>25, <1>26 DEF Chosen
  <1> QED BY <1>27

\* The chosen pages are none of the pages that stay as they are.
LEMMA ChosenNew ==
    ASSUME Nodes(node), Levelled(node), OneParent(node), Owned(node, file),
           NEW P, NEW d, NEW k0, NEW olds, Family(P, d, k0, olds),
           NEW skip, NEW cells, NEW n, NEW A, GroupParts(A, P, d, k0, olds, skip, cells, n),
           NEW k, NEW new, NEW pgs, NEW gone, Chosen(file, olds, k0, k, new, pgs, gone)
    PROVE  /\ NewPages(A, P, k, pgs)
           /\ DOMAIN A.others \cup {P} \cup {pgs[i] : i \in 1 .. k} = (DOMAIN node \cup Pages(new.pgs)) \ gone
           /\ \A x \in Pages(new.pgs) : x \notin Used(file) /\ x # ROOT
           /\ \A x \in gone : x \in DOMAIN node /\ x # ROOT
           /\ \A x \in Pages(olds) : x \in DOMAIN node /\ x # ROOT /\ x # P /\ x \in Used(file)
  <1>1. /\ pgs \in [1 .. k -> Nat] /\ \A i, j \in 1 .. k : pgs[i] = pgs[j] => i = j
        /\ gone \subseteq Pages(olds)
        /\ {pgs[i] : i \in 1 .. k} = (Pages(olds) \ gone) \cup Pages(new.pgs)
        /\ \A x \in Pages(new.pgs) : x \notin Used(file) /\ x \in Nat /\ x >= 3
    BY DEF Chosen
  <1>2. DOMAIN A.others = DOMAIN node \ (Pages(olds) \cup {P})
    BY DEF GroupParts
  <1>3. P \in DOMAIN node
    BY DEF Family
  <1>4. Used(file) = (DOMAIN node \ {ROOT}) \cup OvfPages(node)
    BY DEF Owned
  <1>5. \A x \in Pages(olds) : x \in DOMAIN node /\ x # ROOT /\ x # P
    BY FamilyIs DEF Pages
  <1>6. \A x \in Pages(new.pgs) : x # ROOT
    BY <1>1 DEF ROOT
  <1>7. \A x \in Pages(new.pgs) : x \notin DOMAIN node
    BY <1>1, <1>4, <1>6
  <1>8. \A i \in 1 .. k : pgs[i] # P /\ pgs[i] \notin DOMAIN A.others
    <2>1. \A i \in 1 .. k : pgs[i] \in (Pages(olds) \ gone) \cup Pages(new.pgs)
      BY <1>1
    <2> QED BY <1>2, <1>3, <1>5, <1>7, <2>1
  <1>9. DOMAIN A.others \cup {P} \cup {pgs[i] : i \in 1 .. k} = (DOMAIN node \cup Pages(new.pgs)) \ gone
    <2>1. PICK S : S = {pgs[i] : i \in 1 .. k}
      OBVIOUS
    <2>2. S = (Pages(olds) \ gone) \cup Pages(new.pgs)
      BY <1>1, <2>1
    <2>3. gone \subseteq DOMAIN node /\ P \notin gone /\ \A x \in gone : x \notin Pages(new.pgs)
      BY <1>1, <1>5, <1>7
    <2> QED BY <1>1, <1>2, <1>3, <1>5, <2>1, <2>2, <2>3
  <1>10. NewPages(A, P, k, pgs)
    BY <1>1, <1>8 DEF NewPages
  <1>11. \A x \in Pages(olds) : x \in Used(file)
    BY <1>4, <1>5
  <1>12. \A x \in gone : x \in DOMAIN node /\ x # ROOT
    BY <1>1, <1>5
  <1> QED BY <1>1, <1>5, <1>6, <1>9, <1>10, <1>11, <1>12

\* The siblings of a balance, gathered and divided anew.
Balancing(P, d, k0, olds, skip, cells, cnt, k, m, new, pgs, gone, dv, A) ==
    /\ Family(P, d, k0, olds) /\ SkipIs(skip, olds) /\ SkipHere(skip)
    /\ node[Here].leaf \in BOOLEAN /\ node[Here].leaf = node[olds[1]].leaf
    /\ Cuts(cells, skip, cnt, k, m) /\ Chosen(file, olds, k0, k, new, pgs, gone)
    /\ DividersOf(dv, cells, cnt, k, pgs) /\ Group(A, P, d, k0, olds, skip, cells)

TreeKept(g, new, gone) ==
    /\ Nodes(g) /\ Shapes(intkey, g) /\ OneParent(g) /\ Levelled(g)
    /\ OvfPages(g) = OvfPages(node) /\ OneChain(g)
    /\ DOMAIN g = (DOMAIN node \cup Pages(new.pgs)) \ gone

\* The tree keeps its shape, its cells and its overflow chains.
LEMMA TreeRegrouped ==
    ASSUME TreeIn(intkey, node, file), intkey \in BOOLEAN,
           NEW P, NEW d, NEW k0, NEW olds, NEW skip, NEW cells, NEW cnt, NEW k, NEW m, NEW new, NEW pgs, NEW gone,
           NEW dv, NEW A, Balancing(P, d, k0, olds, skip, cells, cnt, k, m, new, pgs, gone, dv, A),
           NEW st, Gather(P, d, k0, olds, skip, cells, st),
           NEW g, Regrouped(g, A, P, cells, skip, cnt, k, pgs, dv)
    PROVE  TreeKept(g, new, gone)
  <1>1. Nodes(node) /\ Shapes(intkey, node) /\ Levelled(node) /\ OneParent(node) /\ Owned(node, file)
    BY DEF TreeIn
  <1>2. /\ Family(P, d, k0, olds) /\ SkipIs(skip, olds) /\ SkipHere(skip)
        /\ node[Here].leaf \in BOOLEAN /\ node[Here].leaf = node[olds[1]].leaf
        /\ Cuts(cells, skip, cnt, k, m) /\ Chosen(file, olds, k0, k, new, pgs, gone)
        /\ DividersOf(dv, cells, cnt, k, pgs) /\ Group(A, P, d, k0, olds, skip, cells)
    BY DEF Balancing
  <1>3. cells \in Seq(CellType)
    BY <1>2 DEF Cuts
  <1>4. PICK n : n = Len(node[P].cell)
    OBVIOUS
  <1>5. GroupParts(A, P, d, k0, olds, skip, cells, n)
    BY <1>1, <1>2, <1>3, <1>4, GroupIs
  <1>6. Assembly(node, A, k0, olds, st)
    BY <1>1, <1>2, OldAssembly
  <1>7. /\ NewPages(A, P, k, pgs)
        /\ DOMAIN A.others \cup {P} \cup {pgs[i] : i \in 1 .. k} = (DOMAIN node \cup Pages(new.pgs)) \ gone
    BY <1>1, <1>2, <1>5, ChosenNew
  <1>8. \A c \in 1 .. Len(cells) : CellFits(intkey, node[Here].leaf, cells[c])
    <2>1. \A c \in 1 .. Len(cells) : CellFits(intkey, node[olds[1]].leaf, cells[c])
      BY <1>1, <1>2, GatheredFit
    <2> QED BY <1>2, <2>1
  <1>9. pgs \in [1 .. k -> Nat]
    BY <1>7 DEF NewPages
  <1>10. DividersMade(dv, cells, skip, cnt, k, pgs)
    BY <1>2, <1>8, <1>9, DividersAre
  <1>11. GroupHere(A, P, cells, skip)
    <2>1. P \in DOMAIN node /\ ~node[P].leaf
      BY <1>2 DEF Family
    <2>2. /\ AssemblyType(A) /\ A.P = P /\ A.cells = cells /\ A.leaf = node[olds[1]].leaf /\ A.skip = skip
          /\ A.top = node[P].right
      BY <1>5 DEF GroupParts
    <2> QED BY <1>2, <2>1, <2>2 DEF GroupHere
  <1>12. PICK st1 : st1 = [i \in 1 .. k + 1 |-> StartOf(cnt, skip, i)]
    OBVIOUS
  <1>13. StartsOf(st1, cnt, skip, k)
    BY <1>12 DEF StartsOf
  <1>14. Assembly(g, A, k, pgs, st1)
    BY <1>2, <1>7, <1>10, <1>11, <1>13, NewAssembly
  <1>15. /\ OneParent(g) /\ Levelled(g)
         /\ OvfPages(g) = OvfPages(node) /\ (OneChain(node) => OneChain(g))
    BY <1>1, <1>6, <1>14, LaidOutAnew
  <1>16. OneChain(g)
    BY <1>1, <1>15 DEF Owned
  <1>17. Nodes(g)
    BY <1>7, <1>11, RegroupedNodes
  <1>18. Shapes(intkey, g)
    BY <1>1, <1>2, <1>5, <1>7, <1>8, <1>10, <1>11, RegroupedShapes
  <1>19. DOMAIN g = (DOMAIN node \cup Pages(new.pgs)) \ gone
    <2>1. DOMAIN g = DOMAIN A.others \cup {P} \cup {pgs[i] : i \in 1 .. k}
      BY DEF Regrouped
    <2> QED BY <1>7, <2>1
  <1> QED BY <1>15, <1>16, <1>17, <1>18, <1>19 DEF TreeKept

FreedAfter(h, new, olds, k0, k) == h = FreeMany(new.file, SubSeq(olds, k + 1, k0))

\* The old siblings that are no longer needed go to the free list.
LEMMA ChosenFreed ==
    ASSUME NEW f, NEW olds, NEW k0, NEW k, NEW new, NEW pgs, NEW gone, Chosen(f, olds, k0, k, new, pgs, gone),
           \A x \in gone : x \in Used(f), NEW h, FreedAfter(h, new, olds, k0, k)
    PROVE  FileOK(h) /\ Used(h) = (Used(f) \cup Pages(new.pgs)) \ gone
  <1>1. /\ Listing(SubSeq(olds, k + 1, k0), gone)
        /\ FileOK(new.file) /\ Used(new.file) = Used(f) \cup Pages(new.pgs)
    BY DEF Chosen
  <1>2. PICK list : list = SubSeq(olds, k + 1, k0)
    OBVIOUS
  <1>3. /\ list \in Seq(Nat) /\ Pages(list) = gone
        /\ \A i, j \in 1 .. Len(list) : list[i] = list[j] => i = j
    BY <1>1, <1>2 DEF Listing
  <1>4. AreUsed(new.file, list)
    <2>1. \A i \in 1 .. Len(list) : list[i] \in gone
      BY <1>3 DEF Pages
    <2> QED BY <1>1, <1>3, <2>1 DEF AreUsed
  <1>5. /\ FileOK(FreeMany(new.file, list))
        /\ Used(FreeMany(new.file, list)) = Used(new.file) \ {list[i] : i \in 1 .. Len(list)}
    BY <1>1, <1>4, ManyFreed
  <1>6. h = FreeMany(new.file, list)
    BY <1>2 DEF FreedAfter
  <1>7. {list[i] : i \in 1 .. Len(list)} = gone
    BY <1>3 DEF Pages
  <1> QED BY <1>1, <1>5, <1>6, <1>7

AllFreedAfter(h, new, olds, pgs, k0, k) == h = FreeMany(new.file, <<pgs[1]>> \o SubSeq(olds, k + 1, k0))

\* When the root takes the last page in, all siblings go to the free list.
LEMMA AllFreed ==
    ASSUME NEW f, NEW olds, NEW k0, NEW k, NEW new, NEW pgs, NEW gone, Chosen(f, olds, k0, k, new, pgs, gone),
           k = 1, k0 \in Nat \ {0}, Listing(olds, Pages(olds)), Len(olds) = k0,
           \A x \in Pages(olds) : x \in Used(f),
           NEW h, AllFreedAfter(h, new, olds, pgs, k0, k)
    PROVE  FileOK(h) /\ Used(h) = Used(f) \ Pages(olds) /\ Pages(new.pgs) = {} /\ pgs[1] \in Pages(olds)
  <1>1. /\ Listing(SubSeq(olds, k + 1, k0), gone)
        /\ FileOK(new.file) /\ Used(new.file) = Used(f) \cup Pages(new.pgs)
        /\ pgs[1] = olds[1] /\ gone = {olds[i] : i \in 2 .. k0}
        /\ {pgs[i] : i \in 1 .. k} = (Pages(olds) \ gone) \cup Pages(new.pgs)
        /\ \A x \in Pages(new.pgs) : x \notin Used(f)
    BY DEF Chosen
  <1>2. olds \in Seq(Nat) /\ \A i, j \in 1 .. k0 : olds[i] = olds[j] => i = j
    BY DEF Listing
  <1>3. 1 \in 1 .. k0 /\ \A i \in 1 .. k0 : i = 1 \/ i \in 2 .. k0
    OBVIOUS
  <1>4. Pages(olds) = {olds[i] : i \in 1 .. k0}
    BY DEF Pages
  <1>5. pgs[1] \in Pages(olds) /\ olds[1] \in Pages(olds) /\ olds[1] \in Nat
    BY <1>1, <1>2, <1>3, <1>4
  <1>6. Pages(new.pgs) = {}
    <2>1. {pgs[i] : i \in 1 .. k} = {pgs[1]}
      <3>1. 1 .. k = {1}
        OBVIOUS
      <3> QED BY <3>1
    <2>2. \A x \in Pages(new.pgs) : x = pgs[1]
      BY <1>1, <2>1
    <2> QED BY <1>1, <1>5, <2>2
  <1>7. {pgs[1]} \cap gone = {}
    <2> SUFFICES ASSUME olds[1] \in gone PROVE FALSE
      BY <1>1
    <2>1. PICK i \in 2 .. k0 : olds[1] = olds[i]
      BY <1>1
    <2>2. i \in 1 .. k0 /\ i # 1
      OBVIOUS
    <2> QED BY <1>2, <1>3, <2>1, <2>2
  <1>8. Pages(olds) = {pgs[1]} \cup gone
    <2>1. \A i \in 1 .. k0 : olds[i] \in {pgs[1]} \cup gone
      BY <1>1, <1>3
    <2>2. gone \subseteq Pages(olds)
      BY DEF Chosen
    <2> QED BY <1>4, <1>5, <2>1, <2>2
  <1>9. Listing(<<pgs[1]>>, {pgs[1]})
    BY <1>1, <1>5, ListingOne
  <1>10. PICK list : list = <<pgs[1]>> \o SubSeq(olds, k + 1, k0)
    OBVIOUS
  <1>11. Listing(list, Pages(olds))
    <2>1. Listing(<<pgs[1]>> \o SubSeq(olds, k + 1, k0), {pgs[1]} \cup gone)
      BY <1>1, <1>7, <1>9, ListingsJoin
    <2> QED BY <1>8, <1>10, <2>1
  <1>12. /\ list \in Seq(Nat) /\ Pages(list) = Pages(olds)
         /\ \A i, j \in 1 .. Len(list) : list[i] = list[j] => i = j
    BY <1>11 DEF Listing
  <1>13. AreUsed(new.file, list)
    <2>1. \A i \in 1 .. Len(list) : list[i] \in Pages(olds)
      BY <1>12 DEF Pages
    <2> QED BY <1>1, <1>12, <2>1 DEF AreUsed
  <1>14. /\ FileOK(FreeMany(new.file, list))
         /\ Used(FreeMany(new.file, list)) = Used(new.file) \ {list[i] : i \in 1 .. Len(list)}
    BY <1>1, <1>13, ManyFreed
  <1>15. h = FreeMany(new.file, list)
    BY <1>10 DEF AllFreedAfter
  <1>16. {list[i] : i \in 1 .. Len(list)} = Pages(olds)
    BY <1>12 DEF Pages
  <1>17. Used(h) = Used(f) \ Pages(olds)
    BY <1>1, <1>6, <1>14, <1>15, <1>16
  <1> QED BY <1>5, <1>6, <1>14, <1>15, <1>17

\* The siblings list each once.
LEMMA FamilyListed ==
    ASSUME Nodes(node), Levelled(node), OneParent(node),
           NEW P, NEW d, NEW k, NEW olds, Family(P, d, k, olds)
    PROVE  Listing(olds, Pages(olds)) /\ Len(olds) = k /\ k \in Nat \ {0}
  <1>1. /\ olds \in Seq(Nat) /\ Len(olds) = k /\ \A i, j \in 1 .. k : olds[i] = olds[j] => i = j
    BY FamilyIs
  <1>2. k \in Nat \ {0}
    BY DEF Family
  <1> QED BY <1>1, <1>2 DEF Listing

\* What a balance among siblings leaves of the tree and the file.
LEMMA NonrootTree ==
    ASSUME TreeIn(intkey, node, file), intkey \in BOOLEAN,
           NEW P, NEW d, NEW k0, NEW olds, NEW skip, NEW cells, NEW cnt, NEW k, NEW m, NEW new, NEW pgs, NEW gone,
           NEW dv, NEW A, Balancing(P, d, k0, olds, skip, cells, cnt, k, m, new, pgs, gone, dv, A),
           NEW st, Gather(P, d, k0, olds, skip, cells, st),
           NEW g, Regrouped(g, A, P, cells, skip, cnt, k, pgs, dv), NEW h, FreedAfter(h, new, olds, k0, k)
    PROVE  TreeIn(intkey, g, h)
  <1>1. Nodes(node) /\ Levelled(node) /\ OneParent(node) /\ Owned(node, file)
    BY DEF TreeIn
  <1>2. /\ Family(P, d, k0, olds) /\ SkipIs(skip, olds) /\ Chosen(file, olds, k0, k, new, pgs, gone)
        /\ Group(A, P, d, k0, olds, skip, cells) /\ cells \in Seq(CellType)
    BY DEF Balancing, Cuts
  <1>3. PICK n : n = Len(node[P].cell)
    OBVIOUS
  <1>4. GroupParts(A, P, d, k0, olds, skip, cells, n)
    BY <1>1, <1>2, <1>3, GroupIs
  <1>5. /\ \A x \in Pages(new.pgs) : x \notin Used(file) /\ x # ROOT
        /\ \A x \in gone : x \in DOMAIN node /\ x # ROOT
        /\ \A x \in Pages(olds) : x \in Used(file)
    BY <1>1, <1>2, <1>4, ChosenNew
  <1>6. gone \subseteq Pages(olds)
    BY <1>2 DEF Chosen
  <1>7. FileOK(h) /\ Used(h) = (Used(file) \cup Pages(new.pgs)) \ gone
    BY <1>2, <1>5, <1>6, ChosenFreed
  <1>8. /\ Nodes(g) /\ Shapes(intkey, g) /\ OneParent(g) /\ Levelled(g)
        /\ OvfPages(g) = OvfPages(node) /\ OneChain(g)
        /\ DOMAIN g = (DOMAIN node \cup Pages(new.pgs)) \ gone
    <2>1. TreeKept(g, new, gone)
      BY TreeRegrouped
    <2> QED BY <2>1 DEF TreeKept
  <1>9. Owned(g, h)
    BY <1>1, <1>5, <1>7, <1>8, OwnedAnew
  <1> QED BY <1>8, <1>9 DEF TreeIn

\* The root takes the only page below it in.
TakenIn(g1, g, A, pgs) ==
    /\ g1 = [p \in DOMAIN g1 |-> g1[p]] /\ DOMAIN g1 = DOMAIN A.others \cup {ROOT}
    /\ \A p \in DOMAIN A.others : g1[p] = A.others[p]
    /\ g1[ROOT] = g[pgs[1]]

\* What is left of the tree and the file then.
LEMMA CollapsedTree ==
    ASSUME TreeIn(intkey, node, file), intkey \in BOOLEAN,
           NEW P, NEW d, NEW k0, NEW olds, NEW skip, NEW cells, NEW cnt, NEW k, NEW m, NEW new, NEW pgs, NEW gone,
           NEW dv, NEW A, Balancing(P, d, k0, olds, skip, cells, cnt, k, m, new, pgs, gone, dv, A),
           NEW st, Gather(P, d, k0, olds, skip, cells, st),
           NEW g, Regrouped(g, A, P, cells, skip, cnt, k, pgs, dv), P = ROOT, g[P].cell = << >>, k = 1,
           g[P].right = pgs[1],
           NEW g1, TakenIn(g1, g, A, pgs), NEW h, AllFreedAfter(h, new, olds, pgs, k0, k)
    PROVE  TreeIn(intkey, g1, h)
  <1>1. Nodes(node) /\ Levelled(node) /\ OneParent(node) /\ Owned(node, file)
    BY DEF TreeIn
  <1>2. /\ Family(P, d, k0, olds) /\ SkipIs(skip, olds) /\ Chosen(file, olds, k0, k, new, pgs, gone)
        /\ Group(A, P, d, k0, olds, skip, cells) /\ cells \in Seq(CellType)
    BY DEF Balancing, Cuts
  <1>3. PICK n : n = Len(node[P].cell)
    OBVIOUS
  <1>4. GroupParts(A, P, d, k0, olds, skip, cells, n)
    BY <1>1, <1>2, <1>3, GroupIs
  <1>5. /\ NewPages(A, P, k, pgs)
        /\ \A x \in Pages(olds) : x \in DOMAIN node /\ x # ROOT /\ x # P /\ x \in Used(file)
    BY <1>1, <1>2, <1>4, ChosenNew
  <1>6. Listing(olds, Pages(olds)) /\ Len(olds) = k0 /\ k0 \in Nat \ {0}
    BY <1>1, <1>2, FamilyListed
  <1>7. FileOK(h) /\ Used(h) = Used(file) \ Pages(olds) /\ Pages(new.pgs) = {} /\ pgs[1] \in Pages(olds)
    BY <1>2, <1>5, <1>6, AllFreed
  <1>8. /\ Nodes(g) /\ Shapes(intkey, g) /\ OneParent(g) /\ Levelled(g)
        /\ OvfPages(g) = OvfPages(node) /\ OneChain(g)
    <2>1. TreeKept(g, new, gone)
      BY TreeRegrouped
    <2> QED BY <2>1 DEF TreeKept
  <1>9. /\ DOMAIN g = DOMAIN A.others \cup {P} \cup {pgs[i] : i \in 1 .. k}
        /\ \A p \in DOMAIN A.others : g[p] = A.others[p]
    BY DEF Regrouped
  <1>10. {pgs[i] : i \in 1 .. k} = {pgs[1]} /\ 1 \in 1 .. k
    <2>1. 1 .. k = {1}
      OBVIOUS
    <2> QED BY <2>1
  <1>11. /\ pgs[1] # ROOT /\ pgs[1] \notin DOMAIN A.others
         /\ DOMAIN A.others = DOMAIN node \ (Pages(olds) \cup {ROOT}) /\ ROOT \in DOMAIN node
    <2>1. DOMAIN A.others = DOMAIN node \ (Pages(olds) \cup {P}) /\ P \in DOMAIN node
      BY <1>2, <1>4 DEF GroupParts, Family
    <2> QED BY <1>5, <1>7, <1>10, <2>1 DEF NewPages
  <1>12. /\ g1 = [p \in DOMAIN g1 |-> g1[p]] /\ DOMAIN g1 = DOMAIN A.others \cup {ROOT}
         /\ \A p \in DOMAIN A.others : g1[p] = A.others[p]
         /\ g1[ROOT] = g[pgs[1]]
    BY DEF TakenIn
  <1>13. pgs[1] \in DOMAIN g /\ DOMAIN g = DOMAIN g1 \cup {pgs[1]}
    BY <1>9, <1>10, <1>12
  <1>14. \A p \in DOMAIN g1 : g1[p] = IF p = ROOT THEN g[pgs[1]] ELSE g[p]
    BY <1>9, <1>12
  <1>15. Nodes(g1)
    <2>1. g \in [DOMAIN g -> NodeType] /\ DOMAIN g \subseteq Nat /\ ROOT \in DOMAIN g
      BY <1>8 DEF Nodes
    <2>2. \A p \in DOMAIN g1 : p \in DOMAIN g
      BY <1>13
    <2>3. \A p \in DOMAIN g1 : g1[p] \in NodeType
      BY <1>13, <1>14, <2>1, <2>2
    <2>4. g1 \in [DOMAIN g1 -> NodeType]
      BY <1>12, <2>3
    <2> QED BY <1>12, <2>1, <2>2, <2>4 DEF Nodes
  <1>16. Deepened(g1, g, pgs[1])
    <2>1. ~g[ROOT].leaf
      <3>1. AboveMade(g[P], node[P], A.lo, A.hi, dv, pgs[k])
        BY DEF Regrouped
      <3>2. g[P].leaf = node[P].leaf
        BY <3>1 DEF AboveMade
      <3>3. ~node[P].leaf
        BY <1>2 DEF Family
      <3> QED BY <3>2, <3>3
    <2>2. pgs[1] \notin DOMAIN g1
      BY <1>11, <1>12
    <2>3. \A p \in DOMAIN g1 : p # ROOT => g[p] = g1[p]
      BY <1>14
    <2> QED BY <1>8, <1>12, <1>13, <1>15, <2>1, <2>2, <2>3 DEF Deepened
  <1>17. OneParent(g1) /\ Levelled(g1)
    BY <1>8, <1>16, TreeRaised
  <1>18. OvfPages(g1) = OvfPages(node) /\ OneChain(g1)
    BY <1>8, <1>16, DeepChains
  <1>19. Shapes(intkey, g1)
    <2>1. ASSUME NEW p \in DOMAIN g1, NEW j \in 1 .. Len(g1[p].cell)
          PROVE  CellFits(intkey, g1[p].leaf, g1[p].cell[j])
      <3>1. CASE p = ROOT
        <4>1. g1[p] = g[pgs[1]]
          BY <1>12, <3>1
        <4> QED BY <1>8, <1>13, <4>1 DEF Shapes
      <3>2. CASE p # ROOT
        <4>1. g1[p] = g[p] /\ p \in DOMAIN g
          BY <1>13, <1>14, <3>2
        <4> QED BY <1>8, <4>1 DEF Shapes
      <3> QED BY <3>1, <3>2
    <2> QED BY <2>1 DEF Shapes
  <1>20. Owned(g1, h)
    <2>1. \A x \in {} : x \notin Used(file) /\ x # ROOT
      OBVIOUS
    <2>2. \A x \in Pages(olds) : x \in DOMAIN node /\ x # ROOT
      BY <1>5
    <2>3. Used(h) = (Used(file) \cup {}) \ Pages(olds)
      BY <1>7
    <2>4. DOMAIN g1 = (DOMAIN node \cup {}) \ Pages(olds)
      BY <1>5, <1>11, <1>12
    <2> QED BY <1>1, <1>7, <1>18, <2>1, <2>2, <2>3, <2>4, OwnedAnew
  <1> QED BY <1>15, <1>17, <1>19, <1>20 DEF TreeIn

\* The siblings that balance_nonroot takes: w's page is one of them.
SiblingsOf(P, d, k, olds) ==
    /\ P = Above.pg /\ d = FirstSibling(Len(node[P].cell), Above.ix)
    /\ k = IF Len(node[P].cell) < 2 THEN Len(node[P].cell) + 1 ELSE 3
    /\ olds = [j \in 1 .. k |-> Child(node[P], d + j)]

\* They are neighbours.
LEMMA FamilyHere ==
    ASSUME BtreeInv, Busy, Depth > 1, NEW P, NEW d, NEW k, NEW olds, SiblingsOf(P, d, k, olds)
    PROVE  /\ Family(P, d, k, olds) /\ P = Above.pg
           /\ \E i \in 1 .. k : olds[i] = Here
           /\ node[Here].leaf \in BOOLEAN /\ node[Here].leaf = node[olds[1]].leaf
           /\ (k = 1 => node[P].cell = << >>)
  <1>1. Nodes(node) /\ Levelled(node) /\ OneParent(node) /\ Depth \in Nat \ {0}
    BY BusyIs DEF TreeIn
  <1>2. PICK n \in Nat \ {0} : n = Depth
    BY <1>1
  <1>3. PICK path : path = cur[w].path
    OBVIOUS
  <1>4. /\ Above.pg \in DOMAIN node /\ ~node[Above.pg].leaf /\ Above.ix \in Turns(node[Above.pg])
        /\ Here \in DOMAIN node /\ Child(node[Above.pg], Above.ix) = Here
    <2>1. n > 1
      BY <1>2
    <2> QED BY <1>2, <1>3, <2>1, AboveIs
  <1>5. P = Above.pg /\ P \in DOMAIN node /\ ~node[P].leaf
    BY <1>4 DEF SiblingsOf
  <1>6. PICK c \in Nat : c = Len(node[P].cell)
    BY <1>1, <1>5, NodeIs
  <1>7. PICK ix \in 1 .. c + 1 : ix = Above.ix
    BY <1>4, <1>5, <1>6 DEF Turns
  <1>8. d = FirstSibling(c, ix) /\ k = IF c < 2 THEN c + 1 ELSE 3
    BY <1>6, <1>7 DEF SiblingsOf
  <1>9. /\ d \in Nat /\ k \in Nat \ {0} /\ d + k <= c + 1 /\ k <= 3
        /\ ix \in d + 1 .. d + k /\ (k = 1 <=> c = 0)
    <2>1. CASE c < 2
      BY <1>7, <1>8, <2>1 DEF FirstSibling
    <2>2. CASE ~(c < 2)
      BY <1>7, <1>8, <2>2 DEF FirstSibling
    <2> QED BY <2>1, <2>2
  <1>10. olds = [j \in 1 .. k |-> Child(node[P], d + j)]
    BY DEF SiblingsOf
  <1>11. Family(P, d, k, olds)
    BY <1>5, <1>6, <1>9, <1>10 DEF Family
  <1>12. PICK i \in 1 .. k : d + i = ix
    <2>1. ix - d \in 1 .. k /\ d + (ix - d) = ix
      BY <1>9
    <2> QED BY <2>1
  <1>13. olds[i] = Here
    BY <1>4, <1>5, <1>7, <1>10, <1>12
  <1>14. node[Here].leaf = node[olds[1]].leaf
    <2>1. 1 \in 1 .. k
      BY <1>9
    <2>2. node[olds[i]].leaf = node[olds[1]].leaf
      BY <1>1, <1>11, <2>1, FamilyIs
    <2> QED BY <1>13, <2>2
  <1>15. node[Here].leaf \in BOOLEAN
    BY <1>1, <1>4, NodeIs
  <1>16. k = 1 => node[P].cell = << >>
    BY <1>1, <1>5, <1>6, <1>9, NodeIs
  <1> QED BY <1>5, <1>11, <1>13, <1>14, <1>15, <1>16

\* There is a cell to divide, and more than a page of them when a row was put in.
LEMMA CellsThere ==
    ASSUME BtreeInv, Busy, Depth > 1, NEW P, NEW d, NEW k, NEW olds, SiblingsOf(P, d, k, olds),
           NEW skip, SkipIs(skip, olds), NEW cells, NEW st, Gather(P, d, k, olds, skip, cells, st)
    PROVE  /\ cells # << >>
           /\ op.kind = "insert" /\ node[Here].leaf => ~(Taken(cells) <= U)
  <1>1. /\ Nodes(node) /\ Levelled(node) /\ OneParent(node) /\ Depth \in Nat \ {0}
        /\ OffWay(node, cur[w].path) /\ UpWay(node, cur[w].path, op) /\ HereFits(node[Here], Depth, op)
        /\ Depth = Len(cur[w].path) /\ Here \in DOMAIN node
    BY BusyIs DEF TreeIn
  <1>2. /\ Family(P, d, k, olds) /\ P = Above.pg
        /\ \E i \in 1 .. k : olds[i] = Here
        /\ (k = 1 => node[P].cell = << >>)
    BY FamilyHere
  <1>3. PICK h \in 1 .. k : olds[h] = Here
    BY <1>2
  <1>4. /\ olds \in Seq(Nat) /\ Len(olds) = k
        /\ \A i \in 1 .. k : olds[i] \in DOMAIN node /\ olds[i] = Child(node[P], d + i) /\ d + i \in Turns(node[P])
        /\ \A i, j \in 1 .. k : olds[i] = olds[j] => i = j
    BY <1>1, <1>2, FamilyIs, SMTT(30)
  <1>5. PICK n \in Nat \ {0} : n = Depth
    BY <1>1
  <1>6. n > 1
    BY <1>5
  <1>7. PICK path : path = cur[w].path
    OBVIOUS
  <1>8. /\ n = Len(path) /\ Above = path[n - 1] /\ Here = path[n].pg
        /\ \A i \in 1 .. n - 1 : \A j \in Turns(node[Above.pg]) : path[i].pg # Child(node[Above.pg], j)
    BY <1>5, <1>6, <1>7, AboveIs
  <1>9. ASSUME NEW i \in 1 .. k, node[olds[i]].cell # << >>
        PROVE  cells # << >>
    <2>1. Len(node[olds[i]].cell) <= Len(cells) /\ Len(node[olds[i]].cell) \in Nat /\ Len(cells) \in Nat
      BY <1>1, <1>2, GatheredHolds
    <2>2. Len(node[olds[i]].cell) # 0
      BY <1>1, <1>4, <1>9, NodeIs
    <2>3. Len(cells) # 0
      BY <2>1, <2>2
    <2> QED BY <2>3
  <1>10. ASSUME k # 1 PROVE cells # << >>
    <2>1. k \in Nat \ {0}
      BY <1>2 DEF Family
    <2>2. PICK i \in 1 .. k : i # h
      <3>1. 1 \in 1 .. k /\ 2 \in 1 .. k
        BY <1>10, <2>1
      <3> QED BY <3>1
    <2>3. olds[i] # Here
      BY <1>3, <1>4, <2>2
    <2>4. \A j \in 1 .. n - 1 : path[j].pg # olds[i]
      BY <1>2, <1>4, <1>8, SMTT(30)
    <2>5. \A j \in 1 .. Len(path) : path[j].pg # olds[i]
      <3>1. \A j \in 1 .. n : j \in 1 .. n - 1 \/ j = n
        BY <1>6
      <3> QED BY <1>8, <2>3, <2>4, <3>1
    <2>6. node[olds[i]].cell # << >>
      BY <1>1, <1>4, <1>7, <2>5 DEF OffWay
    <2> QED BY <1>9, <2>6
  <1>11. ASSUME ~Fits(node[Here]) PROVE cells # << >>
    <2>1. node[Here].cell # << >>
      BY <1>11, TakenEmpty, UIs DEF Fits
    <2> QED BY <1>3, <1>9, <2>1
  <1>12. ASSUME k = 1 PROVE cells # << >>
    <2>1. node[P].cell = << >>
      BY <1>2, <1>12
    <2>2. n - 1 \in 1 .. Len(path) - 1 /\ PageOn(node, path, n - 1).cell = << >>
      BY <1>2, <1>6, <1>8, <2>1 DEF PageOn
    <2>3. ~Fits(PageOn(node, path, Len(path)))
      BY <1>1, <1>7, <2>2 DEF UpWay
    <2>4. ~Fits(node[Here])
      BY <1>8, <2>3 DEF PageOn
    <2> QED BY <1>11, <2>4
  <1>13. ASSUME op.kind = "insert", node[Here].leaf PROVE ~(Taken(cells) <= U)
    <2>1. ~Fits(node[Here])
      BY <1>1, <1>13 DEF HereFits
    <2>2. Taken(node[Here].cell) <= Taken(cells) /\ Taken(node[Here].cell) \in Nat /\ Taken(cells) \in Nat
      BY <1>1, <1>2, <1>3, GatheredHolds
    <2> QED BY <2>1, <2>2, UIs DEF Fits
  <1> QED BY <1>10, <1>12, <1>13

\* A delete that keeps its place balances no page.
LEMMA NoSkipnext ==
    ASSUME BtreeInv, BalanceStep, Depth > 1, op.kind = "delete"
    PROVE  ~op.skipnext
  <1> SUFFICES ASSUME op.skipnext PROVE FALSE
    OBVIOUS
  <1>1. Busy /\ ~Balanced
    BY DEF BalanceStep
  <1>2. /\ HereFits(node[Here], Depth, op) /\ Depth \in Nat \ {0}
        /\ (Overflows(node[Here]) <=> ~Fits(node[Here]))
        /\ nFree(node[Here]) = U - Taken(node[Here].cell)
    BY <1>1, BusyIs
  <1>3. node[Here].leaf /\ U - Taken(node[Here].cell) <= nMin
    BY <1>2 DEF HereFits
  <1>4. Fits(node[Here])
    BY <1>2, <1>3 DEF HereFits
  <1>5. Balanced
    BY <1>2, <1>3, <1>4 DEF Balanced
  <1> QED BY <1>1, <1>5

\* The sizes allow to go on above the siblings: all pages but P are full enough.
LEMMA RegroupedFits ==
    ASSUME BtreeInv, BalanceStep, NEW path, path = cur[w].path, NEW n \in Nat \ {0}, n = Depth, n > 1,
           NEW P, NEW d, NEW k0, NEW olds, SiblingsOf(P, d, k0, olds),
           NEW A, NEW skip, NEW cells, NEW c, GroupParts(A, P, d, k0, olds, skip, cells, c),
           NEW cnt, NEW k, NEW pgs, NEW dv, NEW g, Regrouped(g, A, P, cells, skip, cnt, k, pgs, dv),
           n = 2 => g[P].cell # << >>
    PROVE  Rebalanced(g, path, n, op)
  <1>1. Busy
    BY DEF BalanceStep
  <1>2. Nodes(node) /\ Levelled(node) /\ OneParent(node)
    BY <1>1, BusyIs DEF TreeIn
  <1>3. /\ Above = path[n - 1] /\ Here = path[n].pg /\ ~node[Above.pg].leaf
        /\ \A i \in 1 .. n : path[i].pg \in DOMAIN node
        /\ \A i \in 1 .. n - 2 : path[i].pg # Above.pg
        /\ \A i \in 1 .. n - 1 : \A j \in Turns(node[Above.pg]) : path[i].pg # Child(node[Above.pg], j)
    BY <1>1, AboveIs, SMTT(30)
  <1>4. Family(P, d, k0, olds) /\ P = Above.pg /\ \E i \in 1 .. k0 : olds[i] = Here
    BY <1>1, FamilyHere
  <1>5. /\ Len(olds) = k0
        /\ \A i \in 1 .. k0 : olds[i] = Child(node[P], d + i) /\ d + i \in Turns(node[P])
    BY <1>2, <1>4, FamilyIs
  <1>6. Pages(olds) = {olds[i] : i \in 1 .. k0}
    BY <1>5 DEF Pages
  <1>7. Here \in Pages(olds) /\ \A i \in 1 .. n - 1 : path[i].pg \notin Pages(olds)
    BY <1>3, <1>4, <1>5, <1>6, SMTT(30)
  <1>8. /\ DOMAIN A.others = DOMAIN node \ (Pages(olds) \cup {P})
        /\ \A p \in DOMAIN node : p \notin Pages(olds) /\ p # P => A.others[p] = node[p]
    BY DEF GroupParts
  <1>9. /\ DOMAIN g = DOMAIN A.others \cup {P} \cup {pgs[i] : i \in 1 .. k}
        /\ \A p \in DOMAIN A.others : g[p] = A.others[p]
        /\ \A i \in 1 .. k : Fits(g[pgs[i]]) /\ g[pgs[i]].cell # << >>
        /\ g[P].leaf = node[P].leaf
    BY DEF Regrouped, PageMade, AboveMade
  <1>10. \A p \in DOMAIN A.others : p \in DOMAIN node /\ p # Here /\ g[p] = node[p]
    BY <1>7, <1>8, <1>9
  <1>11. P = path[n - 1].pg
    BY <1>3, <1>4
  <1>12. \A i \in 1 .. n - 2 : path[i].pg \in DOMAIN A.others
    <2>1. \A i \in 1 .. n - 2 : i \in 1 .. n /\ i \in 1 .. n - 1
      OBVIOUS
    <2> QED BY <1>3, <1>4, <1>7, <1>8, <2>1
  <1>13. \A i \in 1 .. n - 1 : path[i].pg \in DOMAIN g
    <2>1. \A i \in 1 .. n - 1 : i \in 1 .. n - 2 \/ i = n - 1
      OBVIOUS
    <2> QED BY <1>9, <1>11, <1>12, <2>1
  <1>14. \A i \in 1 .. n - 2 : g[path[i].pg] = node[path[i].pg]
    BY <1>10, <1>12
  <1>15. ASSUME NEW p \in DOMAIN g, \A i \in 1 .. n - 1 : path[i].pg # p
         PROVE  \/ Fits(g[p]) /\ g[p].cell # << >>
                \/ p \in DOMAIN node /\ p # path[n].pg /\ g[p] = node[p]
    <2>1. n - 1 \in 1 .. n - 1
      OBVIOUS
    <2>2. p # P
      BY <1>11, <1>15, <2>1
    <2>3. CASE p \in DOMAIN A.others
      BY <1>3, <1>10, <2>3
    <2>4. CASE p \in {pgs[i] : i \in 1 .. k}
      BY <1>9, <2>4
    <2> QED BY <1>9, <2>2, <2>3, <2>4
  <1>16. HereFits(g[P], n - 1, op)
    <2>1. ~g[P].leaf
      BY <1>3, <1>4, <1>9
    <2>2. n - 1 = 1 => g[P].cell # << >>
      OBVIOUS
    <2>3. op.kind = "delete" => ~op.skipnext
      BY NoSkipnext
    <2> QED BY <2>1, <2>2, <2>3 DEF HereFits
  <1> QED BY <1>11, <1>13, <1>14, <1>15, <1>16 DEF Rebalanced

\* The same when the root takes the only page in.
LEMMA CollapsedFits ==
    ASSUME BtreeInv, BalanceStep, Depth = 2,
           NEW P, NEW d, NEW k0, NEW olds, SiblingsOf(P, d, k0, olds),
           NEW A, NEW skip, NEW cells, NEW c, GroupParts(A, P, d, k0, olds, skip, cells, c),
           SkipIs(skip, olds), NEW st, Gather(P, d, k0, olds, skip, cells, st),
           NEW cnt, NEW k, NEW m, Cuts(cells, skip, cnt, k, m), k = 1,
           NEW pgs, NEW dv, NEW g, Regrouped(g, A, P, cells, skip, cnt, k, pgs, dv),
           NEW g1, TakenIn(g1, g, A, pgs)
    PROVE  P = ROOT /\ Rebalanced(g1, cur[w].path, Depth, op)
  <1>1. Busy
    BY DEF BalanceStep
  <1>2. Nodes(node) /\ Levelled(node) /\ OneParent(node) /\ node[Here].leaf \in BOOLEAN
    BY <1>1, BusyIs, NodeIs DEF TreeIn
  <1>3. PICK path : path = cur[w].path
    OBVIOUS
  <1>4. /\ Above = path[1] /\ Here = path[2].pg /\ path[1].pg = ROOT
    <2>1. PICK n \in Nat \ {0} : n = Depth /\ n = 2
      OBVIOUS
    <2>2. n > 1 /\ n - 1 = 1
      BY <2>1
    <2>3. Above = path[n - 1] /\ Here = path[n].pg /\ path[1].pg = ROOT
      BY <1>1, <1>3, <2>1, <2>2, AboveIs
    <2> QED BY <2>1, <2>2, <2>3
  <1>5. Family(P, d, k0, olds) /\ P = Above.pg /\ \E i \in 1 .. k0 : olds[i] = Here
    BY <1>1, FamilyHere
  <1>6. P = ROOT
    BY <1>4, <1>5
  <1>7. Here \in Pages(olds)
    <2>1. Len(olds) = k0
      BY <1>2, <1>5, FamilyIs
    <2> QED BY <1>5, <2>1 DEF Pages
  <1>8. /\ DOMAIN A.others = DOMAIN node \ (Pages(olds) \cup {P})
        /\ \A p \in DOMAIN node : p \notin Pages(olds) /\ p # P => A.others[p] = node[p]
    BY DEF GroupParts
  <1>9. /\ DOMAIN g1 = DOMAIN A.others \cup {ROOT} /\ g1[ROOT] = g[pgs[1]]
        /\ \A p \in DOMAIN A.others : g1[p] = A.others[p]
    BY DEF TakenIn
  <1>10. PageMade(g1[ROOT], cells, skip, cnt, k, 1, A.right)
    <2>1. 1 \in 1 .. k
      OBVIOUS
    <2> QED BY <1>9, <2>1 DEF Regrouped
  <1>11. g1[ROOT].leaf = node[Here].leaf /\ g1[ROOT].cell # << >> /\ Fits(g1[ROOT])
    BY <1>10 DEF PageMade
  <1>12. Taken(cells) <= U
    <2>1. /\ cells \in Seq(CellType) /\ m = Len(cells) /\ cnt[1] = m /\ 1 \in 1 .. k
          /\ Held(Sizes(cells), StartOf(cnt, skip, 1), cnt[1]) <= U
      BY DEF Cuts
    <2>2. StartOf(cnt, skip, 1) = 0
      BY DEF StartOf
    <2> QED BY <2>1, <2>2, TakenParts
  <1>13. ~(op.kind = "insert" /\ g1[ROOT].leaf)
    <2>1. op.kind = "insert" /\ node[Here].leaf => ~(Taken(cells) <= U)
      BY <1>1, CellsThere
    <2> QED BY <1>11, <1>12, <2>1
  <1>14. HereFits(g1[ROOT], 1, op)
    <2>1. op.kind = "delete" => ~op.skipnext
      BY NoSkipnext
    <2> QED BY <1>11, <1>13, <2>1 DEF HereFits
  <1>15. \A p \in DOMAIN g1 : p # ROOT => p \in DOMAIN node /\ p # Here /\ g1[p] = node[p]
    BY <1>6, <1>7, <1>8, <1>9
  <1>16. Rebalanced(g1, path, 2, op)
    <2>1. \A i \in 1 .. 2 - 1 : i = 1
      OBVIOUS
    <2>2. \A i \in 1 .. 2 - 2 : FALSE
      OBVIOUS
    <2>3. 2 - 1 = 1 /\ 1 \in 1 .. 2 - 1
      OBVIOUS
    <2> QED BY <1>4, <1>9, <1>14, <1>15, <2>1, <2>2, <2>3 DEF Rebalanced
  <1> QED BY <1>3, <1>6, <1>16

--------------------------------------------------------------------------------
(* balance_nonroot as a whole. *)

\* What it computes: siblings, their cells, the cuts, the pages and the parent.
NonrootParts(P, d, k0, olds, cells, skip, cnt, k, new, pgs, dv, lo, hi, above) ==
    /\ SiblingsOf(P, d, k0, olds) /\ GatheredCells(cells, P, d, k0, olds) /\ SkipHere(skip)
    /\ CutBy(cells, skip, cnt, k) /\ ChosenFrom(file, olds, k0, k, new, pgs)
    /\ DividersOf(dv, cells, cnt, k, pgs) /\ AboveOf(above, node[P], lo, hi, dv, pgs[k])
    /\ lo = SubSeq(node[P].cell, 1, d) /\ hi = SubSeq(node[P].cell, d + k0, Len(node[P].cell))

\* The pages it writes: all but `kept', which stay.
SiblingAt(pg, olds, k0, cells, cnt, k, pgs) ==
    Sibling(cells, cnt, CHOOSE i \in 1 .. k : pgs[i] = pg, node[olds[k0]].right)
KeptPages(P, olds) == DOMAIN node \ (ToSet(olds) \cup {P})
Remade(g, P, olds, k0, cells, cnt, k, pgs, above) ==
    g = [pg \in KeptPages(P, olds) \cup (ToSet(pgs) \cup {P}) |->
            IF pg \in KeptPages(P, olds) THEN node[pg]
            ELSE IF pg = P THEN above ELSE SiblingAt(pg, olds, k0, cells, cnt, k, pgs)]
Shallower(g, P, olds, k0, cells, cnt, k, pgs) ==
    g = [pg \in KeptPages(P, olds) \cup {ROOT} |->
            IF pg \in KeptPages(P, olds) THEN node[pg] ELSE SiblingAt(pgs[1], olds, k0, cells, cnt, k, pgs)]
NonrootLeft(P, olds, k0, cells, cnt, k, new, pgs, above) ==
    /\ GoTo(Front(cur[w].path))
    /\ IF Depth = 2 /\ above.cell = << >>
       THEN /\ pgs[1] \in ToSet(pgs) => Shallower(node', P, olds, k0, cells, cnt, k, pgs)
            /\ AllFreedAfter(file', new, olds, pgs, k0, k)
       ELSE /\ Remade(node', P, olds, k0, cells, cnt, k, pgs, above)
            /\ file' = FreeMany(new.file, << >> \o SubSeq(olds, k + 1, k0))

\* The action computes these and leaves those.
LEMMA NonrootIs ==
    ASSUME balance_nonroot
    PROVE  \E P, d, k0, olds, cells, skip, cnt, k, new, pgs, dv, lo, hi, above :
              /\ NonrootParts(P, d, k0, olds, cells, skip, cnt, k, new, pgs, dv, lo, hi, above)
              /\ NonrootLeft(P, olds, k0, cells, cnt, k, new, pgs, above)
  <1> DEFINE P == Above.pg
             par == node[P]
             n == Len(par.cell)
             d == FirstSibling(n, Above.ix)
             k0 == IF n < 2 THEN n + 1 ELSE 3
             olds == [j \in 1 .. k0 |-> Child(par, d + j)]
             cells == Gathered(olds, SubSeq(par.cell, d + 1, d + k0 - 1))
             leafData == intkey /\ node[Here].leaf
             skip == IF leafData THEN 0 ELSE 1
             cnt == Divide(Sizes(cells), skip)
             k == Len(cnt)
             new == AllocateMany(file, olds[1], k - k0)
             pgs == Ascending(ToSet(SubSeq(olds, 1, Min({k, k0})) \o new.pgs))
             right == node[olds[k0]].right
             siblings == [pg \in ToSet(pgs) |->
                            Sibling(cells, cnt, CHOOSE i \in 1 .. k : pgs[i] = pg, right)]
             dv == [j \in 1 .. k - 1 |->
                      IF leafData THEN Cell(DividerKey(cells, cnt[j]), [sz |-> DIVIDER], << >>, pgs[j])
                      ELSE [cells[cnt[j] + 1] EXCEPT !.left = pgs[j]]]
             lo == SubSeq(par.cell, 1, d)
             hi == SubSeq(par.cell, d + k0, n)
             above == IF hi = << >> THEN [par EXCEPT !.cell = lo \o dv, !.right = pgs[k]]
                      ELSE [par EXCEPT !.cell = (lo \o dv) \o [hi EXCEPT ![1].left = pgs[k]]]
             shallower == Depth = 2 /\ above.cell = << >>
             kept == DOMAIN node \ (ToSet(olds) \cup {P})
             changed == IF shallower THEN {ROOT} ELSE ToSet(pgs) \cup {P}
  <1>1. /\ node' = [pg \in kept \cup changed |->
                       IF pg \in kept THEN node[pg]
                       ELSE IF shallower THEN siblings[pgs[1]]
                       ELSE IF pg = P THEN above ELSE siblings[pg]]
        /\ file' = FreeMany(new.file, (IF shallower THEN <<pgs[1]>> ELSE << >>) \o SubSeq(olds, k + 1, k0))
        /\ GoTo(Front(cur[w].path))
    BY DEF balance_nonroot
  <1>2. NonrootParts(P, d, k0, olds, cells, skip, cnt, k, new, pgs, dv, lo, hi, above)
    <2>1. SiblingsOf(P, d, k0, olds)
      BY DEF SiblingsOf
    <2>2. GatheredCells(cells, P, d, k0, olds)
      BY DEF GatheredCells
    <2>3. SkipHere(skip) /\ CutBy(cells, skip, cnt, k)
      BY DEF SkipHere, CutBy
    <2>4. ChosenFrom(file, olds, k0, k, new, pgs)
      BY DEF ChosenFrom
    <2>5. DividersOf(dv, cells, cnt, k, pgs)
      BY DEF DividersOf
    <2>6. AboveOf(above, node[P], lo, hi, dv, pgs[k])
      BY DEF AboveOf
    <2>7. lo = SubSeq(node[P].cell, 1, d) /\ hi = SubSeq(node[P].cell, d + k0, Len(node[P].cell))
      OBVIOUS
    <2> HIDE DEF P, par, n, d, k0, olds, cells, leafData, skip, cnt, k, new, pgs, dv, lo, hi, above
    <2> QED BY <2>1, <2>2, <2>3, <2>4, <2>5, <2>6, <2>7 DEF NonrootParts
  <1>3. kept = KeptPages(P, olds) /\ right = node[olds[k0]].right
    BY DEF KeptPages
  <1>4. siblings = [pg \in ToSet(pgs) |-> SiblingAt(pg, olds, k0, cells, cnt, k, pgs)]
    BY DEF SiblingAt
  <1>5. /\ shallower <=> Depth = 2 /\ above.cell = << >>
        /\ shallower => changed = {ROOT}
        /\ ~shallower => changed = ToSet(pgs) \cup {P}
    OBVIOUS
  <1> HIDE DEF P, par, n, d, k0, olds, cells, leafData, skip, cnt, k, new, pgs, dv, lo, hi, above,
               right, siblings, shallower, kept, changed
  <1>6. ASSUME shallower, pgs[1] \in ToSet(pgs) PROVE Shallower(node', P, olds, k0, cells, cnt, k, pgs)
    <2>1. node' = [pg \in kept \cup {ROOT} |-> IF pg \in kept THEN node[pg] ELSE siblings[pgs[1]]]
      BY <1>1, <1>5, <1>6
    <2>2. siblings[pgs[1]] = SiblingAt(pgs[1], olds, k0, cells, cnt, k, pgs)
      BY <1>4, <1>6
    <2> QED BY <1>3, <2>1, <2>2 DEF Shallower
  <1>7. ASSUME ~shallower PROVE Remade(node', P, olds, k0, cells, cnt, k, pgs, above)
    <2>1. node' = [pg \in kept \cup (ToSet(pgs) \cup {P}) |->
                      IF pg \in kept THEN node[pg] ELSE IF pg = P THEN above ELSE siblings[pg]]
      BY <1>1, <1>5, <1>7
    <2>2. \A pg \in ToSet(pgs) : siblings[pg] = SiblingAt(pg, olds, k0, cells, cnt, k, pgs)
      BY <1>4
    <2> QED BY <1>3, <2>1, <2>2 DEF Remade
  <1>8. NonrootLeft(P, olds, k0, cells, cnt, k, new, pgs, above)
    <2>1. shallower => AllFreedAfter(file', new, olds, pgs, k0, k)
      BY <1>1 DEF AllFreedAfter
    <2>2. ~shallower => file' = FreeMany(new.file, << >> \o SubSeq(olds, k + 1, k0))
      BY <1>1
    <2> QED BY <1>1, <1>5, <1>6, <1>7, <2>1, <2>2 DEF NonrootLeft
  <1> QED BY <1>2, <1>8

\* The pages by number.
LEMMA SetsOf ==
    ASSUME Nodes(node), Levelled(node), OneParent(node), NEW P, NEW d, NEW k0, NEW olds, Family(P, d, k0, olds),
           NEW A, NEW k, NEW pgs, NewPages(A, P, k, pgs)
    PROVE  ToSet(olds) = Pages(olds) /\ ToSet(pgs) = {pgs[i] : i \in 1 .. k}
  <1>1. DOMAIN olds = 1 .. k0 /\ Len(olds) = k0
    BY FamilyIs
  <1>2. DOMAIN pgs = 1 .. k
    BY DEF NewPages
  <1>3. ToSet(olds) = {olds[i] : i \in DOMAIN olds} /\ ToSet(pgs) = {pgs[i] : i \in DOMAIN pgs}
    BY DEF ToSet
  <1> QED BY <1>1, <1>2, <1>3 DEF Pages

\* The pages as they are written.
LEMMA RemadeIs ==
    ASSUME Nodes(node), Levelled(node), OneParent(node), node[Here].leaf \in BOOLEAN,
           NEW P, NEW d, NEW k0, NEW olds, Family(P, d, k0, olds),
           NEW A, NEW skip, NEW cells, NEW c, GroupParts(A, P, d, k0, olds, skip, cells, c), SkipHere(skip),
           NEW cnt, NEW k, NEW m, Cuts(cells, skip, cnt, k, m), NEW pgs, NewPages(A, P, k, pgs),
           NEW dv, NEW above, AboveMade(above, node[P], A.lo, A.hi, dv, pgs[k]),
           NEW g, Remade(g, P, olds, k0, cells, cnt, k, pgs, above)
    PROVE  Regrouped(g, A, P, cells, skip, cnt, k, pgs, dv) /\ g[P] = above
  <1>1. /\ pgs \in [1 .. k -> Nat] /\ \A i, j \in 1 .. k : pgs[i] = pgs[j] => i = j
        /\ \A i \in 1 .. k : pgs[i] # P /\ pgs[i] \notin DOMAIN A.others
    BY DEF NewPages
  <1>2. ToSet(olds) = Pages(olds) /\ ToSet(pgs) = {pgs[i] : i \in 1 .. k}
    BY SetsOf
  <1>3. /\ DOMAIN A.others = DOMAIN node \ (Pages(olds) \cup {P})
        /\ \A p \in DOMAIN node : p \notin Pages(olds) /\ p # P => A.others[p] = node[p]
        /\ A.right = node[olds[k0]].right /\ AssemblyType(A)
    BY DEF GroupParts
  <1>4. KeptPages(P, olds) = DOMAIN A.others
    BY <1>2, <1>3 DEF KeptPages
  <1>5. PICK kept : kept = KeptPages(P, olds)
    OBVIOUS
  <1>6. g = [pg \in kept \cup (ToSet(pgs) \cup {P}) |->
                IF pg \in kept THEN node[pg]
                ELSE IF pg = P THEN above ELSE SiblingAt(pg, olds, k0, cells, cnt, k, pgs)]
    BY <1>5 DEF Remade
  <1>7. k \in Nat /\ A.right \in Nat
    BY <1>3 DEF Cuts, AssemblyType
  <1>8. P \notin kept /\ g[P] = above
    <2>1. P \notin kept
      BY <1>3, <1>4, <1>5
    <2> QED BY <1>6, <2>1
  <1>9. \A p \in DOMAIN A.others : g[p] = A.others[p]
    <2>1. \A p \in kept : g[p] = node[p]
      BY <1>6
    <2> QED BY <1>3, <1>4, <1>5, <2>1
  <1>10. ASSUME NEW i \in 1 .. k
         PROVE  PageMade(g[pgs[i]], cells, skip, cnt, k, i, A.right)
    <2>1. pgs[i] \in ToSet(pgs) /\ pgs[i] \notin kept /\ pgs[i] # P
      BY <1>1, <1>2, <1>4, <1>5
    <2>2. g[pgs[i]] = SiblingAt(pgs[i], olds, k0, cells, cnt, k, pgs)
      BY <1>6, <2>1
    <2>3. SiblingAt(pgs[i], olds, k0, cells, cnt, k, pgs) = Sibling(cells, cnt, i, node[olds[k0]].right)
      <3>1. (CHOOSE j \in 1 .. k : pgs[j] = pgs[i]) = i
        BY <1>1
      <3> QED BY <3>1 DEF SiblingAt
    <2>4. PageMade(Sibling(cells, cnt, i, A.right), cells, skip, cnt, k, i, A.right)
      BY <1>7, SiblingIs
    <2> QED BY <1>3, <2>2, <2>3, <2>4
  <1>11. DOMAIN g = DOMAIN A.others \cup {P} \cup {pgs[i] : i \in 1 .. k} /\ g = [p \in DOMAIN g |-> g[p]]
    <2>1. DOMAIN g = kept \cup (ToSet(pgs) \cup {P})
      BY <1>6
    <2>2. g = [p \in DOMAIN g |-> g[p]]
      BY <1>6
    <2> QED BY <1>2, <1>4, <1>5, <2>1, <2>2
  <1>12. AboveMade(g[P], node[P], A.lo, A.hi, dv, pgs[k])
    BY <1>8
  <1> QED BY <1>8, <1>9, <1>10, <1>11, <1>12 DEF Regrouped

\* The pages when the root takes the only one in, of those there would be else.
LEMMA ShallowerIs ==
    ASSUME Nodes(node), Levelled(node), OneParent(node),
           NEW P, NEW d, NEW k0, NEW olds, Family(P, d, k0, olds), P = ROOT,
           NEW A, NEW skip, NEW cells, NEW c, GroupParts(A, P, d, k0, olds, skip, cells, c),
           NEW cnt, NEW k \in Nat \ {0}, NEW pgs, NewPages(A, P, k, pgs), NEW above,
           NEW g, Remade(g, P, olds, k0, cells, cnt, k, pgs, above),
           NEW g1, Shallower(g1, P, olds, k0, cells, cnt, k, pgs)
    PROVE  TakenIn(g1, g, A, pgs)
  <1>1. /\ pgs \in [1 .. k -> Nat]
        /\ \A i \in 1 .. k : pgs[i] # P /\ pgs[i] \notin DOMAIN A.others
    BY DEF NewPages
  <1>2. ToSet(olds) = Pages(olds) /\ ToSet(pgs) = {pgs[i] : i \in 1 .. k}
    BY SetsOf
  <1>3. /\ DOMAIN A.others = DOMAIN node \ (Pages(olds) \cup {P})
        /\ \A p \in DOMAIN node : p \notin Pages(olds) /\ p # P => A.others[p] = node[p]
    BY DEF GroupParts
  <1>4. KeptPages(P, olds) = DOMAIN A.others
    BY <1>2, <1>3 DEF KeptPages
  <1>5. PICK kept : kept = KeptPages(P, olds)
    OBVIOUS
  <1>6. PICK s : s = SiblingAt(pgs[1], olds, k0, cells, cnt, k, pgs)
    OBVIOUS
  <1>7. g1 = [pg \in kept \cup {ROOT} |-> IF pg \in kept THEN node[pg] ELSE s]
    BY <1>5, <1>6 DEF Shallower
  <1>8. ROOT \notin kept
    BY <1>3, <1>4, <1>5
  <1>9. g[pgs[1]] = s
    <2>1. 1 \in 1 .. k
      OBVIOUS
    <2>2. pgs[1] \in ToSet(pgs) /\ pgs[1] \notin kept /\ pgs[1] # P
      BY <1>1, <1>2, <1>4, <1>5, <2>1
    <2>3. g = [pg \in kept \cup (ToSet(pgs) \cup {P}) |->
                  IF pg \in kept THEN node[pg]
                  ELSE IF pg = P THEN above ELSE SiblingAt(pg, olds, k0, cells, cnt, k, pgs)]
      BY <1>5 DEF Remade
    <2> QED BY <1>6, <2>2, <2>3
  <1>10. g1[ROOT] = s /\ DOMAIN g1 = kept \cup {ROOT} /\ g1 = [p \in DOMAIN g1 |-> g1[p]]
    BY <1>7, <1>8
  <1>11. \A p \in kept : g1[p] = node[p]
    BY <1>7
  <1> QED BY <1>3, <1>4, <1>5, <1>9, <1>10, <1>11 DEF TakenIn

\* An assembly of the siblings.
LEMMA GroupMade ==
    ASSUME NEW P, NEW d, NEW k, NEW olds, NEW skip, NEW cells
    PROVE  \E A : Group(A, P, d, k, olds, skip, cells)
  <1> DEFINE A == [P |-> P, others |-> [p \in DOMAIN node \ (Pages(olds) \cup {P}) |-> node[p]],
                   lo |-> SubSeq(node[P].cell, 1, d), hi |-> SubSeq(node[P].cell, d + k, Len(node[P].cell)),
                   cells |-> cells, leaf |-> node[olds[1]].leaf, skip |-> skip,
                   top |-> node[P].right, right |-> node[olds[k]].right]
  <1>1. Group(A, P, d, k, olds, skip, cells)
    BY DEF Group, PagesOf
  <1> HIDE DEF A
  <1> QED BY <1>1

\* What is known of the siblings, the cuts and the pages of balance_nonroot.
NonrootKnown(P, d, k0, olds, cells, skip, cnt, k, m, new, pgs, gone, dv, above, A, st, c) ==
    /\ Balancing(P, d, k0, olds, skip, cells, cnt, k, m, new, pgs, gone, dv, A)
    /\ Family(P, d, k0, olds) /\ SkipIs(skip, olds) /\ SkipHere(skip) /\ node[Here].leaf \in BOOLEAN
    /\ Gather(P, d, k0, olds, skip, cells, st) /\ Cuts(cells, skip, cnt, k, m)
    /\ GroupParts(A, P, d, k0, olds, skip, cells, c) /\ NewPages(A, P, k, pgs)
    /\ AboveMade(above, node[P], A.lo, A.hi, dv, pgs[k]) /\ k \in Nat \ {0}
    /\ Chosen(file, olds, k0, k, new, pgs, gone)
    /\ above.cell = << >> => k = 1 /\ above.right = pgs[1]

\* balance_nonroot computes such siblings, cuts and pages.
LEMMA NonrootKnownIs ==
    ASSUME BtreeInv, Busy, Depth > 1,
           NEW P, NEW d, NEW k0, NEW olds, NEW cells, NEW skip, NEW cnt, NEW k, NEW new, NEW pgs, NEW dv,
           NEW lo, NEW hi, NEW above,
           NonrootParts(P, d, k0, olds, cells, skip, cnt, k, new, pgs, dv, lo, hi, above)
    PROVE  \E m, gone, A, st, c :
              NonrootKnown(P, d, k0, olds, cells, skip, cnt, k, m, new, pgs, gone, dv, above, A, st, c)
  <1>1. /\ SiblingsOf(P, d, k0, olds) /\ GatheredCells(cells, P, d, k0, olds) /\ SkipHere(skip)
        /\ CutBy(cells, skip, cnt, k) /\ ChosenFrom(file, olds, k0, k, new, pgs)
        /\ DividersOf(dv, cells, cnt, k, pgs) /\ AboveOf(above, node[P], lo, hi, dv, pgs[k])
        /\ lo = SubSeq(node[P].cell, 1, d) /\ hi = SubSeq(node[P].cell, d + k0, Len(node[P].cell))
    BY DEF NonrootParts
  <1>2. /\ Nodes(node) /\ Shapes(intkey, node) /\ Levelled(node) /\ OneParent(node) /\ Owned(node, file)
        /\ intkey \in BOOLEAN
    BY BusyIs DEF TreeIn
  <1>3. /\ Family(P, d, k0, olds) /\ node[Here].leaf \in BOOLEAN /\ node[Here].leaf = node[olds[1]].leaf
    BY <1>1, FamilyHere
  <1>4. SkipIs(skip, olds)
    BY <1>1, <1>3 DEF SkipHere, SkipIs
  <1>5. PICK st : Gather(P, d, k0, olds, skip, cells, st)
    BY <1>1, <1>2, <1>3, <1>4, GatheredIs
  <1>6. cells # << >>
    BY <1>1, <1>4, <1>5, CellsThere
  <1>7. Divisible(Sizes(cells), skip)
    BY <1>2, <1>3, <1>4, <1>5, GatheredDivisible
  <1>8. cells \in Seq(CellType)
    BY <1>5 DEF Gather
  <1>9. PICK m : m = Len(cells)
    OBVIOUS
  <1>10. Cuts(cells, skip, cnt, k, m)
    BY <1>1, <1>6, <1>7, <1>8, <1>9, CutsIs
  <1>11. k \in Nat \ {0}
    BY <1>10 DEF Cuts
  <1>12. Listing(olds, Pages(olds)) /\ Len(olds) = k0 /\ k0 \in Nat \ {0}
    BY <1>2, <1>3, FamilyListed
  <1>13. FileOK(file) /\ \A i \in 1 .. k0 : olds[i] \in Used(file)
    <2>1. \A i \in 1 .. k0 : olds[i] \in DOMAIN node /\ olds[i] # ROOT
      BY <1>2, <1>3, FamilyIs
    <2> QED BY <1>2, <2>1 DEF Owned
  <1>14. PICK gone : Chosen(file, olds, k0, k, new, pgs, gone)
    BY <1>1, <1>11, <1>12, <1>13, ChosenIs
  <1>15. PICK A : Group(A, P, d, k0, olds, skip, cells)
    BY GroupMade
  <1>16. PICK c : c = Len(node[P].cell)
    OBVIOUS
  <1>17. GroupParts(A, P, d, k0, olds, skip, cells, c)
    BY <1>2, <1>3, <1>4, <1>8, <1>15, <1>16, GroupIs
  <1>18. Balancing(P, d, k0, olds, skip, cells, cnt, k, m, new, pgs, gone, dv, A)
    BY <1>1, <1>3, <1>4, <1>10, <1>14, <1>15 DEF Balancing
  <1>19. NewPages(A, P, k, pgs)
    BY <1>2, <1>3, <1>14, <1>17, ChosenNew
  <1>20. pgs \in [1 .. k -> Nat]
    BY <1>19 DEF NewPages
  <1>21. DividersMade(dv, cells, skip, cnt, k, pgs)
    <2>1. \A x \in 1 .. Len(cells) : CellFits(intkey, node[olds[1]].leaf, cells[x])
      BY <1>2, <1>3, <1>4, <1>5, GatheredFit
    <2>2. \A x \in 1 .. Len(cells) : CellFits(intkey, node[Here].leaf, cells[x])
      BY <1>3, <2>1
    <2> QED BY <1>1, <1>10, <1>20, <2>2, DividersAre
  <1>22. dv \in Seq(CellType) /\ Len(dv) = k - 1
    BY <1>21 DEF DividersMade
  <1>23. lo \in Seq(CellType) /\ hi \in Seq(CellType) /\ A.lo = lo /\ A.hi = hi
    <2>1. A.lo = lo /\ A.hi = hi
      BY <1>1, <1>15 DEF Group
    <2> QED BY <1>17, <2>1 DEF GroupParts
  <1>24. AboveMade(above, node[P], lo, hi, dv, pgs[k])
    <2>1. node[P] \in NodeType
      <3>1. P \in DOMAIN node
        BY <1>3 DEF Family
      <3> QED BY <1>2, <3>1, NodeIs
    <2>2. PICK last \in Nat : last = pgs[k]
      <3>1. k \in 1 .. k
        BY <1>11
      <3> QED BY <1>20, <3>1
    <2>3. AboveOf(above, node[P], lo, hi, dv, last)
      BY <1>1, <2>2
    <2>4. PICK par \in NodeType : par = node[P]
      BY <2>1
    <2>5. AboveOf(above, par, lo, hi, dv, last)
      BY <2>3, <2>4
    <2>6. AboveMade(above, par, lo, hi, dv, last)
      BY <1>22, <1>23, <2>5, AboveIsMade
    <2> QED BY <2>2, <2>4, <2>6
  <1>25. ASSUME above.cell = << >> PROVE k = 1 /\ above.right = pgs[1]
    <2>1. PICK a \in Nat : a = Len(lo)
      BY <1>23
    <2>2. PICK b \in Nat : b = Len(hi)
      BY <1>23
    <2>3. Len(above.cell) = 0
      BY <1>25
    <2>4. a + (k - 1) + b = 0
      BY <1>22, <1>24, <2>1, <2>2, <2>3 DEF AboveMade
    <2>5. k = 1 /\ b = 0
      BY <1>11, <2>4
    <2>6. above.right = pgs[k]
      BY <1>24, <2>2, <2>5 DEF AboveMade
    <2> QED BY <2>5, <2>6
  <1>26. AboveMade(above, node[P], A.lo, A.hi, dv, pgs[k])
    BY <1>23, <1>24
  <1>27. NonrootKnown(P, d, k0, olds, cells, skip, cnt, k, m, new, pgs, gone, dv, above, A, st, c)
    BY <1>1, <1>3, <1>4, <1>5, <1>10, <1>11, <1>14, <1>17, <1>18, <1>19, <1>25, <1>26 DEF NonrootKnown
  <1> QED BY <1>27

\* Balancing a page with its siblings keeps the invariant.
LEMMA NonrootKeeps ==
    ASSUME BtreeInv, balance_nonroot
    PROVE  BtreeInv'
  <1>1. BalanceStep /\ Busy /\ Depth > 1 /\ UNCHANGED <<scene, writes, op>>
    BY DEF balance_nonroot, BalanceStep
  <1>2. /\ op \in Inserts \cup Deletes /\ op # Idle /\ TreeIn(intkey, node, file) /\ intkey \in BOOLEAN
        /\ Nodes(node) /\ Levelled(node) /\ OneParent(node)
    BY <1>1, BusyIs DEF TreeIn
  <1>3. PICK P, d, k0, olds, cells, skip, cnt, k, new, pgs, dv, lo, hi, above :
           /\ NonrootParts(P, d, k0, olds, cells, skip, cnt, k, new, pgs, dv, lo, hi, above)
           /\ NonrootLeft(P, olds, k0, cells, cnt, k, new, pgs, above)
    BY NonrootIs
  <1>4. PICK m, gone, A, st, c :
           NonrootKnown(P, d, k0, olds, cells, skip, cnt, k, m, new, pgs, gone, dv, above, A, st, c)
    BY <1>1, <1>3, NonrootKnownIs
  <1>5. SiblingsOf(P, d, k0, olds) /\ P = Above.pg
    BY <1>3 DEF NonrootParts, SiblingsOf
  <1>6. /\ Balancing(P, d, k0, olds, skip, cells, cnt, k, m, new, pgs, gone, dv, A)
        /\ Family(P, d, k0, olds) /\ SkipIs(skip, olds) /\ SkipHere(skip) /\ node[Here].leaf \in BOOLEAN
        /\ Gather(P, d, k0, olds, skip, cells, st) /\ Cuts(cells, skip, cnt, k, m)
        /\ GroupParts(A, P, d, k0, olds, skip, cells, c) /\ NewPages(A, P, k, pgs)
        /\ AboveMade(above, node[P], A.lo, A.hi, dv, pgs[k]) /\ k \in Nat \ {0}
        /\ Chosen(file, olds, k0, k, new, pgs, gone)
        /\ above.cell = << >> => k = 1 /\ above.right = pgs[1]
    BY <1>4 DEF NonrootKnown
  <1>7. PICK g : Remade(g, P, olds, k0, cells, cnt, k, pgs, above)
    BY DEF Remade
  <1>8. Regrouped(g, A, P, cells, skip, cnt, k, pgs, dv) /\ g[P] = above
    BY <1>2, <1>6, <1>7, RemadeIs
  <1>9. GoTo(Front(cur[w].path))
    BY <1>3 DEF NonrootLeft
  <1>12. PICK s : s = node'
    OBVIOUS
  <1>10. ASSUME ~(Depth = 2 /\ above.cell = << >>)
         PROVE  TreeIn(intkey, s, file') /\ Rebalanced(s, cur[w].path, Depth, op)
    <2>1. Remade(node', P, olds, k0, cells, cnt, k, pgs, above)
          /\ file' = FreeMany(new.file, << >> \o SubSeq(olds, k + 1, k0))
      BY <1>3, <1>10 DEF NonrootLeft
    <2>2. node' = g
      BY <1>7, <2>1 DEF Remade
    <2>3. FreedAfter(file', new, olds, k0, k)
      <3>1. SubSeq(olds, k + 1, k0) \in Seq(Nat)
        BY <1>6 DEF Chosen, Listing
      <3>2. << >> \o SubSeq(olds, k + 1, k0) = SubSeq(olds, k + 1, k0)
        BY <3>1
      <3> QED BY <2>1, <3>2 DEF FreedAfter
    <2>4. TreeIn(intkey, g, file')
      BY <1>2, <1>6, <1>8, <2>3, NonrootTree
    <2>5. Rebalanced(g, cur[w].path, Depth, op)
      <3>1. PICK path : path = cur[w].path
        OBVIOUS
      <3>2. PICK n \in Nat \ {0} : n = Depth
        BY <1>1, BusyIs
      <3>3. n > 1 /\ (n = 2 => g[P].cell # << >>)
        BY <1>1, <1>8, <1>10, <3>2
      <3>4. Rebalanced(g, path, n, op)
        BY <1>1, <1>5, <1>6, <1>8, <3>1, <3>2, <3>3, RegroupedFits
      <3> QED BY <3>1, <3>2, <3>4
    <2> QED BY <1>12, <2>2, <2>4, <2>5
  <1>11. ASSUME Depth = 2, above.cell = << >>
         PROVE  TreeIn(intkey, s, file') /\ Rebalanced(s, cur[w].path, Depth, op)
    <2>1. k = 1 /\ above.right = pgs[1]
      BY <1>6, <1>11
    <2>2. P = ROOT
      <3>1. PICK n \in Nat \ {0} : n = Depth /\ n = 2
        BY <1>11
      <3>2. PICK path : path = cur[w].path
        OBVIOUS
      <3>3. n > 1 /\ n - 1 = 1
        BY <3>1
      <3>4. Above = path[n - 1] /\ path[1].pg = ROOT
        BY <1>1, <3>1, <3>2, <3>3, AboveIs
      <3> QED BY <1>5, <3>3, <3>4
    <2>3. pgs[1] \in ToSet(pgs)
      <3>1. 1 \in 1 .. k /\ pgs \in [1 .. k -> Nat]
        BY <2>1, <1>6 DEF NewPages
      <3> QED BY <3>1 DEF ToSet
    <2>4. Shallower(node', P, olds, k0, cells, cnt, k, pgs) /\ AllFreedAfter(file', new, olds, pgs, k0, k)
      BY <1>3, <1>11, <2>3 DEF NonrootLeft
    <2>5. PICK g1 : g1 = node'
      OBVIOUS
    <2>6. PICK h1 : h1 = file'
      OBVIOUS
    <2>7. TakenIn(g1, g, A, pgs)
      BY <1>2, <1>6, <1>7, <2>2, <2>4, <2>5, ShallowerIs
    <2>8. TreeIn(intkey, g1, h1)
      <3>1. g[P].cell = << >> /\ g[P].right = pgs[1] /\ AllFreedAfter(h1, new, olds, pgs, k0, k)
        BY <1>8, <1>11, <2>1, <2>4, <2>6
      <3> QED BY <1>2, <1>6, <1>8, <2>1, <2>2, <2>7, <3>1, CollapsedTree
    <2>9. Rebalanced(g1, cur[w].path, Depth, op)
      BY <1>1, <1>5, <1>6, <1>8, <1>11, <2>1, <2>7, CollapsedFits
    <2> QED BY <1>12, <2>5, <2>6, <2>8, <2>9
  <1>13. TreeIn(intkey, s, file') /\ Rebalanced(s, cur[w].path, Depth, op)
    BY <1>10, <1>11
  <1>14. CursorsIn(intkey, s, cur', op) /\ BusyFits(s, cur'[w].path, op)
    BY <1>1, <1>9, <1>13, UpOneKeeps
  <1>15. TreeLeft(node', file', cur', op')
    BY <1>1, <1>2, <1>12, <1>13, <1>14 DEF TreeLeft
  <1>16. writes' \in 0 .. scene.writes
    BY <1>1 DEF BtreeInv
  <1> QED BY <1>1, <1>15, <1>16, InvLeft

--------------------------------------------------------------------------------
(* The invariant of the specification. *)

\* Every step keeps the invariant.
LEMMA StepKeeps == BtreeInv /\ [BtreeNext]_btreeVars => BtreeInv'
  <1> SUFFICES ASSUME BtreeInv, [BtreeNext]_btreeVars PROVE BtreeInv'
    OBVIOUS
  <1>1. CASE sqlite3BtreeClearTable
    BY <1>1, ClearKeeps
  <1>2. ASSUME NEW save \in BOOLEAN, sqlite3BtreeDelete(save) PROVE BtreeInv'
    BY <1>2, DeleteKeeps
  <1>3. ASSUME NEW k \in scene.keys, NEW row \in scene.rows, NEW flags \in Flags, sqlite3BtreeInsert(k, row, flags)
        PROVE  BtreeInv'
    BY <1>3, InsertKeeps
  <1>4. CASE balance_deeper
    BY <1>4, DeeperKeeps
  <1>5. CASE balance_quick
    BY <1>5, QuickKeeps
  <1>6. CASE balance_nonroot
    BY <1>6, NonrootKeeps
  <1>7. CASE balance_again
    BY <1>7, AgainKeeps
  <1>8. CASE balance_done
    BY <1>8, DoneKeeps
  <1>9. CASE Read
    BY <1>9, ReadKeeps
  <1>10. CASE UNCHANGED btreeVars
    BY <1>10 DEF BtreeInv, btreeVars, intkey
  <1> QED BY <1>1, <1>2, <1>3, <1>4, <1>5, <1>6, <1>7, <1>8, <1>9, <1>10 DEF BtreeNext, Write, Balance

\* The pages form one tree whose leaves are equally deep, each page and overflow
\* page has one user, pages fit but for those that balance() is at, and cursors
\* are on entries or know what to seek: btree.c from insertCell to balance().
THEOREM TreeInvariant == BtreeSpec => []BtreeInv
  <1>1. BtreeInit => BtreeInv
    BY InvInit
  <1>2. BtreeInv /\ [BtreeNext]_btreeVars => BtreeInv'
    BY StepKeeps
  <1> QED BY <1>1, <1>2, PTL DEF BtreeSpec

\* The entry of a cursor.
LEMMA CursorOn ==
    ASSUME BtreeInv, NEW c \in Cursors
    PROVE  /\ cur[c].state \in {"INVALID", "VALID", "SKIPNEXT", "REQUIRESEEK"}
           /\ cur[c].state \in {"VALID", "SKIPNEXT"} => IsPath(node, cur[c].path)
           /\ op = Idle /\ cur[c].state \in {"VALID", "SKIPNEXT"} => EntryIn(intkey, node, cur[c].path)
           /\ cur[c].valid => cur[c].state \in {"VALID", "SKIPNEXT"} /\ cur[c].key \in Keys
  <1>1. CursorsIn(intkey, node, cur, op)
    BY DEF BtreeInv
  <1>2. CASE op = Idle
    <2>1. SoundIn(intkey, node, cur[c])
      BY <1>1, <1>2 DEF CursorsIn
    <2>2. KeptIn(intkey, cur[c]) /\ (cur[c].state \in {"VALID", "SKIPNEXT"} => EntryIn(intkey, node, cur[c].path))
      BY <2>1 DEF SoundIn
    <2> QED BY <2>2 DEF KeptIn, EntryIn, CursorType
  <1>3. CASE op # Idle /\ c # w
    <2>1. KeptIn(intkey, cur[c]) /\ cur[c].state \in {"INVALID", "REQUIRESEEK"}
      BY <1>1, <1>3 DEF CursorsIn
    <2> QED BY <1>3, <2>1 DEF KeptIn
  <1>4. CASE op # Idle /\ c = w
    <2>1. cur[c] \in CursorType /\ ~cur[c].valid /\ IsPath(node, cur[c].path)
      BY <1>1, <1>4 DEF CursorsIn
    <2> QED BY <1>4, <2>1 DEF CursorType
  <1> QED BY <1>2, <1>3, <1>4

\* The types: cursors are on pages and entries of the tree.
LEMMA TypeOfInv == BtreeInv => BtreeTypeOK
  <1> SUFFICES ASSUME BtreeInv PROVE BtreeTypeOK
    OBVIOUS
  <1>1. scene \in Scenes /\ writes \in 0 .. scene.writes /\ Nodes(node)
    BY DEF BtreeInv, TreeIn
  <1>2. ASSUME NEW pg \in DOMAIN node, NEW j \in DOMAIN node[pg].cell
        PROVE  node[pg].cell[j].key \in Keys
    <2>1. node[pg].cell \in Seq(CellType)
      BY <1>1, NodeIs
    <2>2. node[pg].cell[j] \in CellType
      BY <1>2, <2>1
    <2> QED BY <2>2 DEF CellType
  <1>3. ASSUME NEW c \in Cursors, cur[c].state \in {"VALID", "SKIPNEXT"}
        PROVE  /\ \A i \in DOMAIN cur[c].path : cur[c].path[i].pg \in DOMAIN node
               /\ op = Idle => Last(cur[c].path).ix \in DOMAIN node[Last(cur[c].path).pg].cell
    <2>1. IsPath(node, cur[c].path) /\ (op = Idle => EntryIn(intkey, node, cur[c].path))
      BY <1>3, CursorOn
    <2>2. cur[c].path \in Seq(StepType) /\ \A i \in 1 .. Len(cur[c].path) : cur[c].path[i].pg \in DOMAIN node
      BY <2>1 DEF IsPath, IsWay
    <2>3. DOMAIN cur[c].path = 1 .. Len(cur[c].path)
      BY <2>2
    <2>4. Last(cur[c].path).pg \in DOMAIN node
      BY <2>1, WayLast DEF IsPath
    <2>5. DOMAIN node[Last(cur[c].path).pg].cell = 1 .. Len(node[Last(cur[c].path).pg].cell)
      BY <1>1, <2>4, NodeIs
    <2> QED BY <2>1, <2>2, <2>3, <2>5 DEF EntryIn
  <1>4. ASSUME NEW c \in Cursors, cur[c].valid
        PROVE  cur[c].state \in {"VALID", "SKIPNEXT"} /\ cur[c].key # 0
    BY <1>4, CursorOn, BtreeAssumption
  <1>5. \A c \in Cursors : cur[c].state \in {"INVALID", "VALID", "SKIPNEXT", "REQUIRESEEK"}
    BY CursorOn
  <1> QED BY <1>1, <1>2, <1>3, <1>4, <1>5 DEF BtreeTypeOK

\* Cursors are on pages and entries of the tree, also while balance() moves them:
\* getCellInfo, saveAllCursors, btreeRestoreCursorPosition.
THEOREM CursorsOnTree == BtreeSpec => []BtreeTypeOK
  BY TreeInvariant, TypeOfInv, PTL

\* Between calls pages fit.
LEMMA FitsOfInv == BtreeInv => PagesFit
  <1> SUFFICES ASSUME BtreeInv, op = Idle, NEW pg \in DOMAIN node
               PROVE  /\ ~Overflows(node[pg])
                      /\ pg # ROOT \/ ~node[pg].leaf => node[pg].cell # << >>
    BY DEF PagesFit
  <1>1. IdleFits(node) /\ Nodes(node)
    BY DEF BtreeInv, TreeIn
  <1>2. Fits(node[pg]) /\ (node[pg].cell = << >> => pg = ROOT /\ node[pg].leaf)
    BY <1>1 DEF IdleFits
  <1>3. Taken(node[pg].cell) \in Nat /\ U \in Nat
    BY <1>1, NodeIs, TakenParts, UIs
  <1>4. nFree(node[pg]) = U - Taken(node[pg].cell)
    BY DEF nFree, Taken
  <1> QED BY <1>2, <1>3, <1>4 DEF Overflows, Fits

\* After balance() no page is too full and none but the root is empty.
THEOREM PagesFitAlways == BtreeSpec => []PagesFit
  BY TreeInvariant, FitsOfInv, PTL

--------------------------------------------------------------------------------
(* The pages of the file and what refers to them. *)

\* The three kinds of references: to a child, to a page of an overflow chain and
\* to a page of the free list.
KidRef(r, p, j) ==
    p \in DOMAIN node /\ ~node[p].leaf /\ j \in 1 .. Len(node[p].cell) + 1 /\ r = <<p, j, 1>>
OvfRef(r, p, j, a) ==
    /\ p \in DOMAIN node /\ j \in 1 .. Len(node[p].cell) /\ a \in 1 .. Len(node[p].cell[j].ovf)
    /\ r = <<p, j, IF node[p].leaf THEN a ELSE a + 1>>
FreeRef(r, t, i) ==
    t \in DOMAIN file.trunk /\ i \in 0 .. Len(file.trunk[t].leaves) /\ r = <<0, t, i + 1>>

\* What the j-th place of a page refers to.
LEMMA ChainIs ==
    ASSUME Nodes(node), NEW p \in DOMAIN node, NEW j \in 1 .. Len(node[p].cell) + 1
    PROVE  /\ ~node[p].leaf =>
                 /\ 1 \in DOMAIN Chain(node[p], j) /\ Chain(node[p], j)[1] = Child(node[p], j)
                 /\ j \in 1 .. Len(node[p].cell) =>
                       \A a \in 1 .. Len(node[p].cell[j].ovf) :
                          /\ a + 1 \in DOMAIN Chain(node[p], j)
                          /\ Chain(node[p], j)[a + 1] = node[p].cell[j].ovf[a]
                 /\ \A i \in DOMAIN Chain(node[p], j) :
                       \/ i = 1
                       \/ /\ j \in 1 .. Len(node[p].cell)
                          /\ \E a \in 1 .. Len(node[p].cell[j].ovf) : i = a + 1
           /\ node[p].leaf =>
                 /\ j \in 1 .. Len(node[p].cell) => Chain(node[p], j) = node[p].cell[j].ovf
                 /\ j \notin 1 .. Len(node[p].cell) => Chain(node[p], j) = << >>
           /\ j \in 1 .. Len(node[p].cell) => node[p].cell[j].ovf \in Seq(Nat)
           /\ node[p].leaf \in BOOLEAN /\ Len(node[p].cell) \in Nat
  <1>1. node[p].cell \in Seq(CellType) /\ node[p].leaf \in BOOLEAN /\ Len(node[p].cell) \in Nat
    BY NodeIs
  <1>2. PICK s : s = IF j <= Len(node[p].cell) THEN node[p].cell[j].ovf ELSE << >>
    OBVIOUS
  <1>3. s \in Seq(Nat)
    <2>1. ASSUME j <= Len(node[p].cell) PROVE node[p].cell[j].ovf \in Seq(Nat)
      <3>1. j \in 1 .. Len(node[p].cell)
        BY <1>1, <2>1
      <3>2. node[p].cell[j] \in CellType
        BY <1>1, <3>1
      <3> QED BY <3>2 DEF CellType
    <2> QED BY <1>2, <2>1
  <1>4. j \in 1 .. Len(node[p].cell) <=> j <= Len(node[p].cell)
    BY <1>1
  <1>5. j \in 1 .. Len(node[p].cell) => s = node[p].cell[j].ovf
    BY <1>2, <1>4
  <1>6. ASSUME node[p].leaf PROVE Chain(node[p], j) = s
    <2>1. Chain(node[p], j) = << >> \o s
      BY <1>2, <1>6 DEF Chain
    <2> QED BY <1>3, <2>1
  <1>7. ASSUME ~node[p].leaf
        PROVE  /\ DOMAIN Chain(node[p], j) = 1 .. Len(s) + 1 /\ Len(s) \in Nat
               /\ Chain(node[p], j)[1] = Child(node[p], j)
               /\ \A a \in 1 .. Len(s) : Chain(node[p], j)[a + 1] = s[a]
    <2>1. PICK x : x = Child(node[p], j)
      OBVIOUS
    <2>2. Chain(node[p], j) = <<x>> \o s
      BY <1>2, <1>7, <2>1 DEF Chain
    <2>3. x \in Nat
      <3>1. CASE j <= Len(node[p].cell)
        <4>1. node[p].cell[j] \in CellType
          BY <1>1, <1>4, <3>1
        <4> QED BY <2>1, <3>1, <4>1 DEF Child, CellType
      <3>2. CASE ~(j <= Len(node[p].cell))
        <4>1. node[p].right \in Nat
          BY NodeIs
        <4> QED BY <2>1, <3>2, <4>1 DEF Child
      <3> QED BY <3>1, <3>2
    <2>4. PICK c : c = <<x>> \o s
      OBVIOUS
    <2>5. <<x>> \in Seq(Nat) /\ Len(<<x>>) = 1 /\ <<x>>[1] = x
      BY <2>3
    <2>6. Len(c) = 1 + Len(s) /\ c \in Seq(Nat) /\ c[1] = x /\ Len(s) \in Nat
      BY <1>3, <2>4, <2>5
    <2>7. \A a \in 1 .. Len(s) : c[a + 1] = s[a]
      BY <1>3, <2>4, <2>5
    <2>8. DOMAIN c = 1 .. Len(s) + 1
      BY <2>6
    <2> QED BY <2>1, <2>2, <2>4, <2>6, <2>7, <2>8
  <1>8. ASSUME ~node[p].leaf
        PROVE  /\ 1 \in DOMAIN Chain(node[p], j) /\ Chain(node[p], j)[1] = Child(node[p], j)
               /\ \A a \in 1 .. Len(s) : a + 1 \in DOMAIN Chain(node[p], j) /\ Chain(node[p], j)[a + 1] = s[a]
               /\ \A i \in DOMAIN Chain(node[p], j) : i = 1 \/ \E a \in 1 .. Len(s) : i = a + 1
    <2>1. PICK n \in Nat : n = Len(s)
      BY <1>3
    <2>2. 1 \in 1 .. n + 1 /\ \A a \in 1 .. n : a + 1 \in 1 .. n + 1
      OBVIOUS
    <2>3. ASSUME NEW i \in 1 .. n + 1 PROVE i = 1 \/ \E a \in 1 .. n : i = a + 1
      <3>1. i # 1 => i - 1 \in 1 .. n /\ i = (i - 1) + 1
        OBVIOUS
      <3> QED BY <3>1
    <2> QED BY <1>7, <1>8, <2>1, <2>2, <2>3
  <1>9. ~(j \in 1 .. Len(node[p].cell)) => s = << >> /\ Len(s) = 0
    BY <1>2, <1>4
  <1>10. ASSUME ~node[p].leaf, NEW i \in DOMAIN Chain(node[p], j), i # 1
         PROVE  j \in 1 .. Len(node[p].cell) /\ \E a \in 1 .. Len(node[p].cell[j].ovf) : i = a + 1
    <2>1. PICK a \in 1 .. Len(s) : i = a + 1
      BY <1>8, <1>10
    <2>2. j \in 1 .. Len(node[p].cell)
      BY <1>9, <2>1
    <2> QED BY <1>5, <2>1, <2>2
  <1> QED BY <1>1, <1>3, <1>5, <1>6, <1>8, <1>9, <1>10

\* The references, one by one.
LEMMA ReferencesAre ==
    ASSUME NEW r
    PROVE  r \in References <=>
              \/ \E p \in DOMAIN node : \E j \in Places(p) : \E i \in DOMAIN Chain(node[p], j) : r = <<p, j, i>>
              \/ \E t \in DOMAIN file.trunk : \E i \in DOMAIN TrunkChain(file.trunk[t]) : r = <<0, t, i>>
  <1> DEFINE place(p, j) == {<<p, j, i>> : i \in DOMAIN Chain(node[p], j)}
             page(p) == UNION {place(p, j) : j \in Places(p)}
             pages == UNION {page(p) : p \in DOMAIN node}
             list(t) == {<<0, t, i>> : i \in DOMAIN TrunkChain(file.trunk[t])}
             lists == UNION {list(t) : t \in DOMAIN file.trunk}
  <1>1. References = pages \cup lists
    BY DEF References
  <1>2. \A p, j : r \in place(p, j) <=> \E i \in DOMAIN Chain(node[p], j) : r = <<p, j, i>>
    OBVIOUS
  <1>3. \A t : r \in list(t) <=> \E i \in DOMAIN TrunkChain(file.trunk[t]) : r = <<0, t, i>>
    OBVIOUS
  <1> HIDE DEF place, list
  <1>4. \A p : r \in page(p) <=> \E j \in Places(p) : r \in place(p, j)
    OBVIOUS
  <1>5. r \in lists <=> \E t \in DOMAIN file.trunk : r \in list(t)
    OBVIOUS
  <1> HIDE DEF page, lists
  <1>6. r \in pages <=> \E p \in DOMAIN node : r \in page(p)
    OBVIOUS
  <1> HIDE DEF pages
  <1> QED BY <1>1, <1>2, <1>3, <1>4, <1>5, <1>6

\* No page has the number 0.
LEMMA NumberedFrom2 ==
    ASSUME Nodes(node), Owned(node, file)
    PROVE  \A p \in DOMAIN node : p \in Nat /\ p >= 2 /\ p # 0
  <1>1. DOMAIN node \ {ROOT} \subseteq 3 .. file.nPage /\ file.nPage \in Nat
    BY DEF Owned, Used, FileOK, FileType
  <1> QED BY <1>1 DEF Nodes, ROOT

\* The references of the three kinds and the pages they are to.
LEMMA RefMade ==
    ASSUME Nodes(node), Owned(node, file), NEW r
    PROVE  /\ \A p, j : KidRef(r, p, j) =>
                 r \in References /\ <<p, j>> \in KidSpots(node) /\ PageAt(r) = KidAt(node, <<p, j>>)
           /\ \A p, j, a : OvfRef(r, p, j, a) =>
                 r \in References /\ <<p, j>> \in CellSpots(node) /\ PageAt(r) = OvfAt(node, <<p, j>>)[a]
           /\ \A t, i : FreeRef(r, t, i) =>
                 r \in References /\ <<t, i>> \in Spots(file) /\ PageAt(r) = FreeAt(file, <<t, i>>)
  <1>1. ASSUME NEW p \in DOMAIN node, NEW j \in 1 .. Len(node[p].cell) + 1, NEW i \in DOMAIN Chain(node[p], j),
               r = <<p, j, i>>
        PROVE  r \in References /\ PageAt(r) = Chain(node[p], j)[i]
    <2>1. r[1] # 0 /\ r[1] = p /\ r[2] = j /\ r[3] = i
      BY <1>1, NumberedFrom2
    <2>2. PageAt(r) = Chain(node[p], j)[i]
      BY <2>1 DEF PageAt
    <2>3. r \in References
      BY <1>1, ReferencesAre DEF Places
    <2> QED BY <2>2, <2>3
  <1>2. ASSUME NEW p, NEW j, KidRef(r, p, j)
        PROVE  r \in References /\ <<p, j>> \in KidSpots(node) /\ PageAt(r) = KidAt(node, <<p, j>>)
    <2>1. p \in DOMAIN node /\ ~node[p].leaf /\ j \in 1 .. Len(node[p].cell) + 1 /\ r = <<p, j, 1>>
      BY <1>2 DEF KidRef
    <2>2. 1 \in DOMAIN Chain(node[p], j) /\ Chain(node[p], j)[1] = Child(node[p], j)
      BY <2>1, ChainIs
    <2>3. r \in References /\ PageAt(r) = Child(node[p], j)
      BY <1>1, <2>1, <2>2
    <2> QED BY <2>1, <2>3, KidSpotMade
  <1>3. ASSUME NEW p, NEW j, NEW a, OvfRef(r, p, j, a)
        PROVE  r \in References /\ <<p, j>> \in CellSpots(node) /\ PageAt(r) = OvfAt(node, <<p, j>>)[a]
    <2>1. /\ p \in DOMAIN node /\ j \in 1 .. Len(node[p].cell) /\ a \in 1 .. Len(node[p].cell[j].ovf)
          /\ r = <<p, j, IF node[p].leaf THEN a ELSE a + 1>>
      BY <1>3 DEF OvfRef
    <2>2. <<p, j>> \in CellSpots(node) /\ OvfAt(node, <<p, j>>) = node[p].cell[j].ovf
      BY <2>1, CellSpotMade
    <2>3. j \in 1 .. Len(node[p].cell) + 1
      BY <2>1, NodeIs
    <2>4. PICK i : i = IF node[p].leaf THEN a ELSE a + 1
      OBVIOUS
    <2>5. i \in DOMAIN Chain(node[p], j) /\ Chain(node[p], j)[i] = node[p].cell[j].ovf[a]
      <3>1. CASE node[p].leaf
        <4>1. Chain(node[p], j) = node[p].cell[j].ovf /\ node[p].cell[j].ovf \in Seq(Nat)
          BY <2>1, <2>3, <3>1, ChainIs
        <4> QED BY <2>1, <2>4, <3>1, <4>1
      <3>2. CASE ~node[p].leaf
        BY <2>1, <2>3, <2>4, <3>2, ChainIs
      <3> QED BY <3>1, <3>2
    <2>6. r = <<p, j, i>>
      BY <2>1, <2>4
    <2> QED BY <1>1, <2>1, <2>2, <2>3, <2>5, <2>6
  <1>4. ASSUME NEW t, NEW i, FreeRef(r, t, i)
        PROVE  r \in References /\ <<t, i>> \in Spots(file) /\ PageAt(r) = FreeAt(file, <<t, i>>)
    <2>1. t \in DOMAIN file.trunk /\ i \in 0 .. Len(file.trunk[t].leaves) /\ r = <<0, t, i + 1>>
      BY <1>4 DEF FreeRef
    <2>2. file.trunk \in Seq(TrunkType)
      BY DEF Owned, FileOK, FileType
    <2>3. file.trunk[t] \in TrunkType
      BY <2>1, <2>2
    <2>4. PICK x \in TrunkType : x = file.trunk[t]
      BY <2>3
    <2>5. x.leaves \in Seq(Nat) /\ x.pg \in Nat
      BY DEF TrunkType
    <2>6. /\ i + 1 \in DOMAIN TrunkChain(x) /\ TrunkChain(x)[i + 1] = Listed(x, i)
      <3>1. TrunkChain(x) = <<x.pg>> \o x.leaves /\ <<x.pg>> \in Seq(Nat) /\ Len(<<x.pg>>) = 1 /\ <<x.pg>>[1] = x.pg
        BY <2>5 DEF TrunkChain
      <3>2. i \in 0 .. Len(x.leaves) /\ Len(x.leaves) \in Nat
        BY <2>1, <2>4, <2>5
      <3>3. DOMAIN TrunkChain(x) = 1 .. 1 + Len(x.leaves)
        BY <2>5, <3>1
      <3>4. CASE i = 0
        BY <2>5, <3>1, <3>2, <3>3, <3>4 DEF Listed
      <3>5. CASE i # 0
        BY <2>5, <3>1, <3>2, <3>3, <3>5 DEF Listed
      <3> QED BY <3>4, <3>5
    <2>7. PageAt(r) = FreeAt(file, <<t, i>>)
      BY <2>1, <2>4, <2>6 DEF PageAt, FreeAt
    <2>8. <<t, i>> \in Spots(file)
      BY <2>1, <2>3 DEF Spots, TrunkType
    <2>9. r \in References
      <3>1. t \in DOMAIN file.trunk /\ i + 1 \in DOMAIN TrunkChain(file.trunk[t]) /\ r = <<0, t, i + 1>>
        BY <2>1, <2>4, <2>6
      <3> QED BY <3>1, ReferencesAre
    <2> QED BY <2>7, <2>8, <2>9
  <1> QED BY <1>2, <1>3, <1>4

\* There are no others.
LEMMA RefIs ==
    ASSUME Nodes(node), Owned(node, file), NEW r \in References
    PROVE  \/ \E p, j : KidRef(r, p, j)
           \/ \E p, j, a : OvfRef(r, p, j, a)
           \/ \E t, i : FreeRef(r, t, i)
  <1>1. CASE \E p \in DOMAIN node : \E j \in Places(p) : \E i \in DOMAIN Chain(node[p], j) : r = <<p, j, i>>
    <2>10. PICK p \in DOMAIN node : \E j \in Places(p) : \E i \in DOMAIN Chain(node[p], j) : r = <<p, j, i>>
      BY <1>1
    <2>1. PICK j \in 1 .. Len(node[p].cell) + 1 : \E i \in DOMAIN Chain(node[p], j) : r = <<p, j, i>>
      BY <2>10 DEF Places
    <2>2. PICK i \in DOMAIN Chain(node[p], j) : r = <<p, j, i>>
      BY <2>1
    <2>3. node[p].leaf \in BOOLEAN
      BY ChainIs
    <2>4. CASE ~node[p].leaf /\ i = 1
      BY <2>2, <2>4 DEF KidRef
    <2>5. CASE ~node[p].leaf /\ i # 1
      <3>1. j \in 1 .. Len(node[p].cell) /\ \E a \in 1 .. Len(node[p].cell[j].ovf) : i = a + 1
        BY <2>5, ChainIs
      <3> QED BY <2>2, <2>5, <3>1 DEF OvfRef
    <2>6. CASE node[p].leaf
      <3>1. j \in 1 .. Len(node[p].cell)
        <4>1. j \notin 1 .. Len(node[p].cell) => Chain(node[p], j) = << >>
          BY <2>6, ChainIs
        <4> QED BY <4>1
      <3>2. Chain(node[p], j) = node[p].cell[j].ovf /\ node[p].cell[j].ovf \in Seq(Nat)
        BY <2>6, <3>1, ChainIs
      <3>3. i \in 1 .. Len(node[p].cell[j].ovf)
        BY <3>2, SMTT(30)
      <3> QED BY <2>2, <2>6, <3>1, <3>3 DEF OvfRef
    <2> QED BY <2>3, <2>4, <2>5, <2>6
  <1>2. CASE \E t \in DOMAIN file.trunk : \E i \in DOMAIN TrunkChain(file.trunk[t]) : r = <<0, t, i>>
    <2>1. PICK t \in DOMAIN file.trunk : \E i \in DOMAIN TrunkChain(file.trunk[t]) : r = <<0, t, i>>
      BY <1>2
    <2>2. PICK i \in DOMAIN TrunkChain(file.trunk[t]) : r = <<0, t, i>>
      BY <2>1
    <2>3. file.trunk[t] \in TrunkType
      BY DEF Owned, FileOK, FileType
    <2>4. PICK x \in TrunkType : x = file.trunk[t]
      BY <2>3
    <2>5. x.leaves \in Seq(Nat) /\ <<x.pg>> \in Seq(Nat) /\ Len(<<x.pg>>) = 1
      BY DEF TrunkType
    <2>6. DOMAIN TrunkChain(x) = 1 .. 1 + Len(x.leaves) /\ Len(x.leaves) \in Nat
      BY <2>5 DEF TrunkChain
    <2>7. i - 1 \in 0 .. Len(x.leaves) /\ i = (i - 1) + 1
      BY <2>4, <2>6
    <2> QED BY <2>2, <2>4, <2>7 DEF FreeRef
  <1> QED BY <1>1, <1>2, ReferencesAre

\* The pages that each kind of reference is to.
LEMMA RefTo ==
    ASSUME Nodes(node), Levelled(node), Owned(node, file), NEW r
    PROVE  /\ \A p, j : KidRef(r, p, j) => PageAt(r) \in DOMAIN node \ {ROOT}
           /\ \A p, j, a : OvfRef(r, p, j, a) => PageAt(r) \in OvfPages(node)
           /\ \A t, i : FreeRef(r, t, i) => PageAt(r) \in FreePages(file)
  <1>1. ASSUME NEW p, NEW j, KidRef(r, p, j) PROVE PageAt(r) \in DOMAIN node \ {ROOT}
    <2>1. <<p, j>> \in KidSpots(node) /\ PageAt(r) = KidAt(node, <<p, j>>)
      BY <1>1, RefMade
    <2>2. p \in DOMAIN node /\ ~node[p].leaf /\ j \in Turns(node[p])
      BY <1>1 DEF KidRef, Turns
    <2>3. PICK h, N : Levels(node, h, N)
      BY DEF Levelled
    <2>4. Child(node[p], j) \in DOMAIN node \ {ROOT}
      BY <2>2, <2>3 DEF Levels
    <2> QED BY <2>1, <2>4 DEF KidAt
  <1>2. ASSUME NEW p, NEW j, NEW a, OvfRef(r, p, j, a) PROVE PageAt(r) \in OvfPages(node)
    <2>1. <<p, j>> \in CellSpots(node) /\ PageAt(r) = OvfAt(node, <<p, j>>)[a]
      BY <1>2, RefMade
    <2>2. a \in 1 .. Len(OvfAt(node, <<p, j>>))
      BY <1>2 DEF OvfRef, OvfAt
    <2>3. OvfAt(node, <<p, j>>) \in Seq(Nat)
      BY <2>1, CellSpotType
    <2>4. PICK s \in Seq(Nat) : s = OvfAt(node, <<p, j>>)
      BY <2>3
    <2>5. PageAt(r) \in Nat
      BY <2>1, <2>2, <2>4
    <2> QED BY <2>1, <2>2, <2>5 DEF OvfPages, OvfOf
  <1>3. ASSUME NEW t, NEW i, FreeRef(r, t, i) PROVE PageAt(r) \in FreePages(file)
    BY <1>3, RefMade DEF FreePages
  <1> QED BY <1>1, <1>2, <1>3

\* The three kinds of pages are different.
LEMMA KindsDiffer ==
    ASSUME Owned(node, file), NEW x
    PROVE  /\ ~(x \in DOMAIN node \ {ROOT} /\ x \in OvfPages(node))
           /\ ~(x \in DOMAIN node \ {ROOT} /\ x \in FreePages(file))
           /\ ~(x \in OvfPages(node) /\ x \in FreePages(file))
           /\ x \in 3 .. file.nPage <=> \/ x \in DOMAIN node \ {ROOT}
                                        \/ x \in OvfPages(node) \/ x \in FreePages(file)
  <1>1. DOMAIN node \cap OvfPages(node) = {} /\ Used(file) = (DOMAIN node \ {ROOT}) \cup OvfPages(node)
    BY DEF Owned
  <1>2. \A y \in FreePages(file) : y \in 3 .. file.nPage
    BY DEF Owned, FileOK, FreePages
  <1>3. Used(file) = (3 .. file.nPage) \ FreePages(file)
    BY DEF Used
  <1> QED BY <1>1, <1>2, <1>3

\* No page is referred to twice.
LEMMA ReferredOnce ==
    ASSUME Nodes(node), Levelled(node), OneParent(node), Owned(node, file),
           NEW r \in References, NEW s \in References, PageAt(r) = PageAt(s)
    PROVE  r = s
  <1>1. ASSUME NEW p, NEW j, KidRef(r, p, j) PROVE r = s
    <2>1. PageAt(r) \in DOMAIN node \ {ROOT}
      BY <1>1, RefTo
    <2>2. PICK q, k : KidRef(s, q, k)
      BY <2>1, RefIs, RefTo, KindsDiffer
    <2>3. /\ <<p, j>> \in KidSpots(node) /\ PageAt(r) = KidAt(node, <<p, j>>)
          /\ <<q, k>> \in KidSpots(node) /\ PageAt(s) = KidAt(node, <<q, k>>)
      BY <1>1, <2>2, RefMade
    <2>4. <<p, j>> = <<q, k>>
      BY <2>3 DEF OneParent
    <2> QED BY <1>1, <2>2, <2>4 DEF KidRef
  <1>2. ASSUME NEW p, NEW j, NEW a, OvfRef(r, p, j, a) PROVE r = s
    <2>1. PageAt(r) \in OvfPages(node)
      BY <1>2, RefTo
    <2>2. PICK q, k, b : OvfRef(s, q, k, b)
      BY <2>1, RefIs, RefTo, KindsDiffer
    <2>3. /\ <<p, j>> \in CellSpots(node) /\ PageAt(r) = OvfAt(node, <<p, j>>)[a]
          /\ <<q, k>> \in CellSpots(node) /\ PageAt(s) = OvfAt(node, <<q, k>>)[b]
      BY <1>2, <2>2, RefMade
    <2>4. a \in 1 .. Len(OvfAt(node, <<p, j>>)) /\ b \in 1 .. Len(OvfAt(node, <<q, k>>))
      BY <1>2, <2>2 DEF OvfRef, OvfAt
    <2>5. OnceIn(node, CellSpots(node))
      BY DEF Owned, OneChain
    <2>6. <<p, j>> = <<q, k>> /\ a = b
      <3>1. PICK u \in CellSpots(node) : u = <<p, j>>
        BY <2>3
      <3>2. PICK v \in CellSpots(node) : v = <<q, k>>
        BY <2>3
      <3>3. a \in 1 .. Len(OvfAt(node, u)) /\ b \in 1 .. Len(OvfAt(node, v)) /\ OvfAt(node, u)[a] = OvfAt(node, v)[b]
        BY <2>3, <2>4, <3>1, <3>2
      <3>4. u = v /\ a = b
        BY <2>5, <3>3 DEF OnceIn
      <3> QED BY <3>1, <3>2, <3>4
    <2> QED BY <1>2, <2>2, <2>6 DEF OvfRef
  <1>3. ASSUME NEW t, NEW i, FreeRef(r, t, i) PROVE r = s
    <2>1. PageAt(r) \in FreePages(file)
      BY <1>3, RefTo
    <2>2. PICK q, k : FreeRef(s, q, k)
      BY <2>1, RefIs, RefTo, KindsDiffer
    <2>3. /\ <<t, i>> \in Spots(file) /\ PageAt(r) = FreeAt(file, <<t, i>>)
          /\ <<q, k>> \in Spots(file) /\ PageAt(s) = FreeAt(file, <<q, k>>)
      BY <1>3, <2>2, RefMade
    <2>4. <<t, i>> = <<q, k>>
      BY <2>3 DEF Owned, FileOK
    <2> QED BY <1>3, <2>2, <2>4 DEF FreeRef
  <1> QED BY <1>1, <1>2, <1>3, RefIs

\* Every page is referred to.
LEMMA ReferredTo ==
    ASSUME Nodes(node), Levelled(node), OneParent(node), Owned(node, file), NEW x \in 3 .. file.nPage
    PROVE  \E r \in References : PageAt(r) = x
  <1>1. ASSUME x \in DOMAIN node \ {ROOT} PROVE \E r \in References : PageAt(r) = x
    <2>1. PICK s \in KidSpots(node) : KidAt(node, s) = x
      BY <1>1 DEF OneParent
    <2>2. PICK p, j : p = s[1] /\ j = s[2]
      OBVIOUS
    <2>3. s = <<p, j>> /\ KidRef(<<p, j, 1>>, p, j)
      BY <2>2, KidSpotIs DEF KidRef
    <2> QED BY <2>1, <2>3, RefMade
  <1>2. ASSUME x \in OvfPages(node) PROVE \E r \in References : PageAt(r) = x
    <2>1. PICK s \in CellSpots(node) : \E a \in 1 .. Len(OvfAt(node, s)) : x = OvfAt(node, s)[a]
      BY <1>2 DEF OvfPages, OvfOf
    <2>2. PICK a \in 1 .. Len(OvfAt(node, s)) : x = OvfAt(node, s)[a]
      BY <2>1
    <2>3. PICK p, j : p = s[1] /\ j = s[2]
      OBVIOUS
    <2>4. s = <<p, j>> /\ p \in DOMAIN node /\ j \in 1 .. Len(node[p].cell)
      BY <2>3, CellSpotIs
    <2>5. PICK r : r = <<p, j, IF node[p].leaf THEN a ELSE a + 1>>
      OBVIOUS
    <2>6. OvfRef(r, p, j, a)
      BY <2>3, <2>4, <2>5 DEF OvfRef, OvfAt
    <2>7. r \in References /\ PageAt(r) = OvfAt(node, <<p, j>>)[a]
      BY <2>6, RefMade
    <2> QED BY <2>2, <2>4, <2>7
  <1>3. ASSUME x \in FreePages(file) PROVE \E r \in References : PageAt(r) = x
    <2>1. PICK s \in Spots(file) : FreeAt(file, s) = x
      BY <1>3 DEF FreePages
    <2>2. PICK t, i : t = s[1] /\ i = s[2]
      OBVIOUS
    <2>3. s = <<t, i>> /\ t \in DOMAIN file.trunk /\ i \in Nat /\ i <= Len(file.trunk[t].leaves)
      BY <2>2 DEF Spots
    <2>4. file.trunk[t] \in TrunkType
      BY <2>3 DEF Owned, FileOK, FileType
    <2>5. Len(file.trunk[t].leaves) \in Nat
      BY <2>4 DEF TrunkType
    <2>6. FreeRef(<<0, t, i + 1>>, t, i)
      BY <2>3, <2>5 DEF FreeRef
    <2>7. <<0, t, i + 1>> \in References /\ PageAt(<<0, t, i + 1>>) = FreeAt(file, <<t, i>>)
      BY <2>6, RefMade
    <2> QED BY <2>1, <2>3, <2>7
  <1> QED BY <1>1, <1>2, <1>3, KindsDiffer

\* The pages of the tree are the root and the children.
LEMMA TreeOfChildren ==
    ASSUME Nodes(node), Levelled(node), OneParent(node)
    PROVE  DOMAIN node =
              {ROOT} \cup UNION {{Child(node[pg], j) : j \in Places(pg)} : pg \in DOMAIN node \ Leaves}
  <1> DEFINE below(pg) == {Child(node[pg], j) : j \in Places(pg)}
             all == UNION {below(pg) : pg \in DOMAIN node \ Leaves}
  <1>1. PICK h, N : Levels(node, h, N)
    BY DEF Levelled
  <1>2. \A pg \in DOMAIN node \ Leaves : ~node[pg].leaf /\ Places(pg) = Turns(node[pg])
    BY DEF Leaves, Places, Turns
  <1>3. \A pg \in DOMAIN node \ Leaves : \A x \in below(pg) : x \in DOMAIN node
    BY <1>1, <1>2 DEF Levels
  <1>4. ASSUME NEW x \in DOMAIN node, x # ROOT
        PROVE  \E pg \in DOMAIN node \ Leaves : x \in below(pg)
    <2>1. PICK s \in KidSpots(node) : KidAt(node, s) = x
      BY <1>4 DEF OneParent
    <2>2. s[1] \in DOMAIN node /\ ~node[s[1]].leaf /\ s[2] \in Turns(node[s[1]])
      BY KidSpotIs DEF Turns
    <2>3. s[1] \in DOMAIN node \ Leaves
      BY <2>2 DEF Leaves
    <2> QED BY <1>2, <2>1, <2>2, <2>3 DEF KidAt
  <1> HIDE DEF below
  <1>5. ROOT \in DOMAIN node
    BY DEF Nodes
  <1>6. DOMAIN node = {ROOT} \cup all
    BY <1>3, <1>4, <1>5
  <1> QED BY <1>6 DEF below

\* The pages of the file have one user each.
LEMMA PartitionOfInv == BtreeInv => PagesPartition
  <1> SUFFICES ASSUME BtreeInv PROVE PagesPartition
    OBVIOUS
  <1>1. Nodes(node) /\ Levelled(node) /\ OneParent(node) /\ Owned(node, file)
    BY DEF BtreeInv, TreeIn
  <1>2. \A r, s \in References : PageAt(r) = PageAt(s) => r = s
    BY <1>1, ReferredOnce
  <1>3. {PageAt(r) : r \in References} = 3 .. file.nPage
    <2>1. \A x \in 3 .. file.nPage : \E r \in References : PageAt(r) = x
      BY <1>1, ReferredTo
    <2>2. ASSUME NEW r \in References PROVE PageAt(r) \in 3 .. file.nPage
      BY <1>1, RefIs, RefTo, KindsDiffer
    <2> QED BY <2>1, <2>2
  <1> QED BY <1>1, <1>2, <1>3, TreeOfChildren DEF PagesPartition

\* Every page of the file but the root is used once: as a page of the tree below
\* its parent, in the overflow chain of a cell, or on the free list.  No insert,
\* delete, clear or step of balance() loses one or gives it two users:
\* allocateBtreePage, freePage2, clearCell, balance_nonroot.
THEOREM PagesUsedOnce == BtreeSpec => []PagesPartition
  BY TreeInvariant, PartitionOfInv, PTL

================================================================================
