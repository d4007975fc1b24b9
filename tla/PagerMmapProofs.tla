----------------------------- MODULE PagerMmapProofs ---------------------------
(****************************************************************************)
(* Proofs about SQLite's pager with mapped reads on the Virtual Memory        *)
(* Engine, for every number of pages, frames and cursors: as long as no page  *)
(* is mapped twice at the same time, pointers stay valid, the page cache and  *)
(* the file agree, and the engine never stops.                                *)
(****************************************************************************)
EXTENDS PagerMmap, VmemProofs

\* The page of each mapping is marked, so that the engine keeps it in place.
MappedMarked ==
    \A h \in DOMAIN mapped :
        /\ mapped[h].page # 0
        /\ stick[mapped[h].page]
        /\ mapped[h].frame = slot[mapped[h].page]

\* Whoever unmaps a page is the last to do so.
MappedOnce ==
    /\ \A h, k \in DOMAIN mapped : mapped[h].page = mapped[k].page => h = k
    /\ \A p \in pending : p # 0 /\ stick[p] /\ p \notin MappedPages

\* A page the pager may read was written before, or mapped; a page past the end
\* of the file is in the page cache until it is written.
FileKnown ==
    /\ \A p \in 0 .. dbSize - 1 : p \in Touched \/ p \in dirty
    /\ \A p \in used .. dbSize - 1 : p \in dirty

\* The inductive invariant.
PagerInv ==
    /\ IInv
    /\ CacheOnlyIfBuilt
    /\ PagerTypeOK
    /\ MappedMarked
    /\ MappedOnce
    /\ FileKnown
    /\ CacheCoherent
    /\ EngineNeverHalts

--------------------------------------------------------------------------------
(* What a call of the engine does to the pages that are marked. *)

\* Referencing a page marks it and leaves the marked pages where they are.
LEMMA ReferenceMarks ==
    ASSUME IInv, NEW p \in Pages, NEW d \in Data, Reference(p, d)
    PROVE  /\ stick' \in [Pages -> BOOLEAN]
           /\ stick'[p] = WARM_FETCH
           /\ \A r \in Pages : stick[r] => stick'[r] /\ slot'[r] = slot[r]
           /\ WARM_FETCH => p \in hash' /\ slot'[p] \in Slots
  <1>1. stick \in [Pages -> BOOLEAN] /\ WARM_FETCH \in BOOLEAN
    BY PageQueueAssumption DEF IInv, TypeOK, QueueTypeOK
  <1>2. \A r \in Pages : stick[r] => WARM_FETCH
    BY DEF IInv, StuckInFront
  <1>3. stick' \in [Pages -> BOOLEAN] /\ stick'[p] = WARM_FETCH
        /\ \A r \in Pages : stick[r] => stick'[r]
    <2>1. CASE Hit(p)
      BY <2>1, <1>1, <1>2 DEF Hit
    <2>2. CASE Fill(p)
      BY <2>2, <1>1, <1>2 DEF Fill
    <2>3. CASE Replace(p)
      <3>1. Rear \in Pages /\ Rear # p
        BY <2>3, ReplaceFacts
      <3> QED BY <3>1, <2>3, <1>1, <1>2 DEF Replace
    <2> QED BY <2>1, <2>2, <2>3 DEF Reference
  <1>4. \A r \in Pages : stick[r] => slot'[r] = slot[r]
    BY ReferenceKeepsStuck
  <1>5. p \in hash'
    BY DEF Reference, Hit, Fill, Replace
  <1>6. slot'[p] \in Slots
    <2>1. CASE Hit(p) /\ slot' = slot
      BY <2>1, CachedSlot DEF Hit
    <2>2. CASE Fill(p) /\ slot' = [slot EXCEPT ![p] = GetFreeWarm(free_warm)]
      <3>1. Len(queue) < WARM_PAGES
        BY <2>2, IInvQueue, QueueElements, PageQueueAssumption
        DEF Fill, AreAllFramesFull, QueueInv, QueueConsistent
      <3>2. free_warm \in 0 .. WARM_PAGES - 1
        BY <3>1, IInvQueue, QueueElements, PageQueueAssumption
        DEF IInv, FramesConsistent, TypeOK, QueueInv
      <3>3. GetFreeWarm(free_warm) \in Slots
        BY <3>2, PageQueueAssumption DEF GetFreeWarm, Slots, NoSlot
      <3> QED BY <3>3, <2>2 DEF IInv, TypeOK
    <2>3. CASE Replace(p) /\ slot' = [slot EXCEPT ![Rear] = NoSlot,
                                                  ![p] = GetFreeWarm(slot[Rear])]
      <3>1. GetFreeWarm(slot[Rear]) \in Slots
        BY <2>3, ReplaceFacts
      <3> QED BY <3>1, <2>3 DEF IInv, TypeOK
    <2> QED BY <2>1, <2>2, <2>3 DEF Reference
  <1> QED BY <1>3, <1>4, <1>5, <1>6

\* So does every read and write.
LEMMA CopyToKeepsMarks ==
    ASSUME IInv, NEW p \in Pages, NEW d \in Data, CopyTo(p, d),
           NEW r \in Pages, stick[r]
    PROVE  stick'[r] /\ slot'[r] = slot[r]
  BY ReferenceMarks DEF CopyTo, queueVars, cacheVars

LEMMA CopyFromKeepsMarks ==
    ASSUME IInv, NEW p \in Pages, CopyFrom(p),
           NEW r \in Pages, stick[r]
    PROVE  stick'[r] /\ slot'[r] = slot[r]
  BY FrameType, ReferenceMarks DEF CopyFrom, queueVars, cacheVars

--------------------------------------------------------------------------------
(* What the calls of the engine do, as the pager sees it. *)

LEMMA PageUpFacts ==
    ASSUME IInv, COLD_HASH, NEW p \in Pages, PageUp(p), ~Refused(p)
    PROVE  /\ Contents' = Contents /\ Touched' = Touched \cup {p} /\ halted' = "no"
           /\ p # 0 /\ p \in hash' /\ stick'[p] /\ slot'[p] \in Slots
           /\ \A r \in Pages : stick[r] => stick'[r] /\ slot'[r] = slot[r]
  <1>1. Reference(p, Frame(p)) /\ p # 0 /\ WARM_FETCH /\ halted = "no" /\ UNCHANGED zero_page
    BY DEF PageUp
  <1>2. Contents[p] = Frame(p)
    BY <1>1 DEF Contents
  <1>3. Contents' = [Contents EXCEPT ![p] = Frame(p)] /\ Touched' = Touched \cup {p}
        /\ (halted' = "no" \/ halted' = halted)
    BY <1>1, FrameType, ReferenceContents
  <1>4. Contents' = Contents
    BY <1>2, <1>3 DEF Contents
  <1> QED BY <1>1, <1>3, <1>4, FrameType, ReferenceMarks

LEMMA CopyFromFacts ==
    ASSUME IInv, CacheOnlyIfBuilt, COLD_HASH,
           NEW p \in Pages, p \in Touched, CopyFrom(p)
    PROVE  /\ Contents' = Contents /\ Touched' = Touched /\ halted' = "no"
           /\ buf' = Contents[p]
           /\ \A r \in Pages : stick[r] => stick'[r] /\ slot'[r] = slot[r]
  <1>1. Store!Read(p)
    BY CopyFromReads DEF Store!ReadFails
  <1>2. halted = "no"
    BY DEF CopyFrom
  <1> QED BY <1>1, <1>2, CopyFromKeepsMarks DEF Store!Read

LEMMA CopyToFacts ==
    ASSUME IInv, CacheOnlyIfBuilt, COLD_HASH,
           NEW p \in Pages, NEW d \in Data, CopyTo(p, d)
    PROVE  /\ Contents' = [Contents EXCEPT ![p] = d]
           /\ Touched' = Touched \cup {p} /\ halted' = "no"
           /\ \A r \in Pages : stick[r] => stick'[r] /\ slot'[r] = slot[r]
  <1>1. Store!Write(p, d)
    BY CopyToWrites
  <1>2. halted = "no"
    BY DEF CopyTo
  <1> QED BY <1>1, <1>2, CopyToKeepsMarks DEF Store!Write

LEMMA PageDownFacts ==
    ASSUME IInv, NEW p \in Pages, stick[p], PageDown(p)
    PROVE  /\ Contents' = Contents /\ Touched' = Touched /\ halted' = "no"
           /\ slot' = slot /\ stick' = [stick EXCEPT ![p] = FALSE]
  <1>1. p \in hash
    BY DEF IInv, StuckInFront
  <1>2. DeReferencePage(p) /\ UNCHANGED <<cacheVars, zero_page, buf, halted>> /\ halted = "no"
    BY <1>1 DEF PageDown
  <1>3. Contents' = Contents /\ Touched' = Touched
    BY <1>2 DEF DeReferencePage, cacheVars, Contents, Touched, Frame, Loaded
  <1> QED BY <1>2, <1>3 DEF DeReferencePage, cacheVars

LEMMA NoCallFacts ==
    ASSUME UNCHANGED vars
    PROVE  /\ Contents' = Contents /\ Touched' = Touched /\ halted' = halted
           /\ slot' = slot /\ stick' = stick /\ TypeOK' = TypeOK
  BY DEF vars, Contents, Touched, Frame, Loaded, TypeOK, QueueTypeOK

\* The engine's part of the invariant survives every call of it.
LEMMA CallKeepsEngine ==
    ASSUME PagerInv, [Next]_vars
    PROVE  IInv' /\ CacheOnlyIfBuilt' /\ TypeOK'
  <1>1. IInv' /\ CacheOnlyIfBuilt'
    BY NextKeepsIInv, NextKeepsCacheOnlyIfBuilt DEF PagerInv
  <1> QED BY <1>1 DEF IInv

\* The pages in the page cache, and those of the file, are pages of the engine.
LEMMA PagerPages ==
    ASSUME PagerInv
    PROVE  /\ used \in Nat /\ dbSize \in Nat /\ used <= dbSize /\ dbSize <= COLD_PAGES
           /\ \A p \in DOMAIN pcache : p \in Pages /\ p < dbSize
           /\ \A h \in DOMAIN mapped : mapped[h].page \in Pages
  BY PageQueueAssumption DEF PagerInv, PagerTypeOK, Pages

--------------------------------------------------------------------------------
(* One lemma per action of the pager. *)

LEMMA GetPageMMapKeeps ==
    ASSUME PagerInv, COLD_HASH, ~SHARED, NEW h \in Handles, NEW p \in Pages,
           GetPageMMap(h, p)
    PROVE  PagerInv'
  <1>1. IInv' /\ CacheOnlyIfBuilt' /\ TypeOK'
    <2>1. Next
      BY DEF GetPageMMap, Next
    <2> QED BY <2>1, CallKeepsEngine
  <1>2. /\ Contents' = Contents /\ Touched' = Touched \cup {p} /\ halted' = "no"
        /\ p # 0 /\ stick'[p] /\ slot'[p] \in Slots
        /\ \A r \in Pages : stick[r] => stick'[r] /\ slot'[r] = slot[r]
    BY PageUpFacts DEF GetPageMMap, PagerInv
  <1>3. UNCHANGED <<pcache, dirty, dbSize, used>> /\ FileKnown' /\ CacheCoherent'
        /\ EngineNeverHalts'
    BY <1>2 DEF GetPageMMap, PagerInv, FileKnown, CacheCoherent, EngineNeverHalts
  <1>4. CASE pending' = {p} /\ mapped' = mapped
    <2>1. PagerTypeOK'
      BY <1>1, <1>3, <1>4 DEF GetPageMMap, PagerInv, PagerTypeOK
    <2>2. MappedMarked'
      BY <1>2, <1>4, PagerPages DEF PagerInv, MappedMarked
    <2>3. MappedOnce'
      BY <1>2, <1>4 DEF GetPageMMap, PagerInv, MappedOnce, MappedPages
    <2> QED BY <1>1, <1>3, <2>1, <2>2, <2>3 DEF PagerInv
  <1>5. CASE /\ mapped' = With(mapped, h, [page |-> p, frame |-> slot'[p]])
             /\ pending' = {}
    <2>1. /\ DOMAIN mapped' = DOMAIN mapped \cup {h} /\ h \notin DOMAIN mapped
          /\ mapped'[h] = [page |-> p, frame |-> slot'[p]]
          /\ \A k \in DOMAIN mapped : mapped'[k] = mapped[k]
      BY <1>5 DEF GetPageMMap, With
    <2>2. PagerTypeOK'
      BY <1>1, <1>2, <1>3, <1>5, <2>1 DEF GetPageMMap, PagerInv, PagerTypeOK
    <2>3. MappedMarked'
      BY <1>2, <2>1, PagerPages DEF PagerInv, MappedMarked
    <2>4. MappedOnce'
      BY <1>5, <2>1 DEF GetPageMMap, PagerInv, MappedOnce, MappedPages
    <2> QED BY <1>1, <1>3, <2>2, <2>3, <2>4 DEF PagerInv
  <1> QED BY <1>4, <1>5 DEF GetPageMMap

LEMMA GiveBackKeeps ==
    ASSUME PagerInv, GiveBack
    PROVE  PagerInv'
  <1>1. PICK p \in pending : PageDown(p)
    BY DEF GiveBack
  <1>2. p \in Pages /\ stick[p] /\ p \notin MappedPages
    BY DEF PagerInv, PagerTypeOK, MappedOnce
  <1>3. IInv' /\ CacheOnlyIfBuilt' /\ TypeOK'
    <2>1. Next
      BY <1>1, <1>2 DEF Next
    <2> QED BY <2>1, CallKeepsEngine
  <1>4. /\ Contents' = Contents /\ Touched' = Touched /\ halted' = "no"
        /\ slot' = slot /\ stick' = [stick EXCEPT ![p] = FALSE]
    BY <1>1, <1>2, PageDownFacts DEF PagerInv
  <1>5. UNCHANGED <<eState, mapped, pcache, dirty, dbSize, used>> /\ pending' = {}
    BY DEF GiveBack
  <1>6. PagerTypeOK' /\ FileKnown' /\ CacheCoherent' /\ EngineNeverHalts'
    BY <1>3, <1>4, <1>5
    DEF PagerInv, PagerTypeOK, FileKnown, CacheCoherent, EngineNeverHalts
  <1>7. MappedMarked'
    <2>1. \A k \in DOMAIN mapped : mapped[k].page # p /\ mapped[k].page \in Pages
      BY <1>2, PagerPages DEF MappedPages
    <2> QED BY <1>4, <1>5, <2>1 DEF PagerInv, MappedMarked, IInv, TypeOK, QueueTypeOK
  <1>8. MappedOnce'
    BY <1>5 DEF PagerInv, MappedOnce
  <1> QED BY <1>3, <1>6, <1>7, <1>8 DEF PagerInv

LEMMA ReleaseMapPageKeeps ==
    ASSUME PagerInv, NEW h \in Handles, ReleaseMapPage(h)
    PROVE  PagerInv'
  <1> DEFINE p == mapped[h].page
  <1>1. h \in DOMAIN mapped /\ PageDown(p) /\ p \in Pages /\ stick[p]
    BY PagerPages DEF ReleaseMapPage, PagerInv, MappedMarked
  <1>2. IInv' /\ CacheOnlyIfBuilt' /\ TypeOK'
    <2>1. Next
      BY <1>1 DEF Next
    <2> QED BY <2>1, CallKeepsEngine
  <1>3. /\ Contents' = Contents /\ Touched' = Touched /\ halted' = "no"
        /\ slot' = slot /\ stick' = [stick EXCEPT ![p] = FALSE]
    BY <1>1, PageDownFacts DEF PagerInv
  <1>4. /\ DOMAIN mapped' = DOMAIN mapped \ {h}
        /\ \A k \in DOMAIN mapped' : mapped'[k] = mapped[k]
        /\ UNCHANGED <<eState, pcache, dirty, dbSize, used, pending>> /\ pending = {}
    BY DEF ReleaseMapPage, Restrict
  <1>5. PagerTypeOK' /\ FileKnown' /\ CacheCoherent' /\ EngineNeverHalts'
    BY <1>2, <1>3, <1>4
    DEF PagerInv, PagerTypeOK, FileKnown, CacheCoherent, EngineNeverHalts
  <1>6. MappedMarked'
    <2>1. \A k \in DOMAIN mapped' : mapped[k].page # p /\ mapped[k].page \in Pages
      BY <1>1, <1>4, PagerPages DEF PagerInv, MappedOnce
    <2> QED BY <1>3, <1>4, <2>1 DEF PagerInv, MappedMarked, IInv, TypeOK, QueueTypeOK
  <1>7. MappedOnce'
    BY <1>4 DEF PagerInv, MappedOnce
  <1> QED BY <1>2, <1>5, <1>6, <1>7 DEF PagerInv

LEMMA GetPageNormalKeeps ==
    ASSUME PagerInv, COLD_HASH, NEW p \in Pages, GetPageNormal(p)
    PROVE  PagerInv'
  <1>1. IInv' /\ CacheOnlyIfBuilt' /\ TypeOK'
    <2>1. Next
      BY DEF GetPageNormal, Next
    <2> QED BY <2>1, CallKeepsEngine
  <1>2. p \in Touched
    BY PagerPages DEF GetPageNormal, PagerInv, PagerTypeOK, FileKnown
  <1>3. /\ Contents' = Contents /\ Touched' = Touched /\ halted' = "no"
        /\ buf' = Contents[p]
        /\ \A r \in Pages : stick[r] => stick'[r] /\ slot'[r] = slot[r]
    BY <1>2, CopyFromFacts DEF GetPageNormal, PagerInv
  <1>4. /\ DOMAIN pcache' = DOMAIN pcache \cup {p} /\ pcache'[p] = buf'
        /\ \A r \in DOMAIN pcache : pcache'[r] = pcache[r]
        /\ UNCHANGED <<eState, mapped, dirty, dbSize, used, pending>> /\ pending = {}
    BY DEF GetPageNormal, With
  <1>5. PagerTypeOK'
    <2>1. buf' \in Data
      BY <1>1 DEF TypeOK
    <2>2. p \in 0 .. dbSize - 1
      BY PagerPages DEF GetPageNormal
    <2> QED BY <1>1, <1>4, <2>1, <2>2 DEF PagerInv, PagerTypeOK
  <1>6. FileKnown' /\ CacheCoherent' /\ EngineNeverHalts'
    BY <1>3, <1>4 DEF PagerInv, FileKnown, CacheCoherent, EngineNeverHalts
  <1>7. MappedMarked' /\ MappedOnce'
    BY <1>3, <1>4, PagerPages DEF PagerInv, MappedMarked, MappedOnce
  <1> QED BY <1>1, <1>5, <1>6, <1>7 DEF PagerInv

LEMMA DropPageKeeps ==
    ASSUME PagerInv, NEW p \in Pages, DropPage(p)
    PROVE  PagerInv'
  <1>1. UNCHANGED vars
    BY DEF DropPage
  <1>2. IInv' /\ CacheOnlyIfBuilt' /\ TypeOK'
    BY <1>1, CallKeepsEngine
  <1>3. /\ DOMAIN pcache' = DOMAIN pcache \ {p} /\ p \notin dirty
        /\ \A r \in DOMAIN pcache' : pcache'[r] = pcache[r]
        /\ UNCHANGED <<eState, mapped, dirty, dbSize, used, pending>>
    BY DEF DropPage, Restrict
  <1>4. PagerTypeOK'
    BY <1>2, <1>3 DEF PagerInv, PagerTypeOK
  <1>5. FileKnown' /\ CacheCoherent' /\ EngineNeverHalts' /\ MappedMarked' /\ MappedOnce'
    BY <1>1, <1>3, NoCallFacts
    DEF PagerInv, FileKnown, CacheCoherent, EngineNeverHalts, MappedMarked, MappedOnce,
        MappedPages
  <1> QED BY <1>2, <1>4, <1>5 DEF PagerInv

LEMMA NewPageKeeps ==
    ASSUME PagerInv, NewPage
    PROVE  PagerInv'
  <1>1. UNCHANGED vars
    BY DEF NewPage
  <1>2. IInv' /\ CacheOnlyIfBuilt' /\ TypeOK'
    BY <1>1, CallKeepsEngine
  <1>3. /\ DOMAIN pcache' = DOMAIN pcache \cup {dbSize} /\ pcache'[dbSize] = zeros
        /\ dbSize \notin DOMAIN pcache /\ dirty' = dirty \cup {dbSize}
        /\ \A r \in DOMAIN pcache : pcache'[r] = pcache[r]
        /\ dbSize' = dbSize + 1 /\ dbSize < COLD_PAGES
        /\ UNCHANGED <<eState, mapped, used, pending>>
    <2>1. dbSize \notin DOMAIN pcache
      BY PagerPages
    <2> QED BY <2>1 DEF NewPage, With
  <1>4. PagerTypeOK'
    <2>1. dbSize \in 0 .. dbSize' - 1 /\ dbSize' \in 0 .. COLD_PAGES /\ used \in 0 .. dbSize'
          /\ 0 .. dbSize - 1 \subseteq 0 .. dbSize' - 1
      BY <1>3, PagerPages, PageQueueAssumption
    <2>2. \A r \in DOMAIN pcache' : pcache'[r] \in Data
      BY <1>3, AESCtrAssumption DEF PagerInv, PagerTypeOK
    <2> QED BY <1>2, <1>3, <2>1, <2>2 DEF PagerInv, PagerTypeOK
  <1>5. FileKnown'
    <2>1. \A r \in 0 .. dbSize' - 1 : r = dbSize \/ r \in 0 .. dbSize - 1
      BY <1>3, PagerPages
    <2>2. \A r \in used .. dbSize' - 1 : r = dbSize \/ r \in used .. dbSize - 1
      BY <1>3, PagerPages
    <2> QED BY <1>1, <1>3, <2>1, <2>2, NoCallFacts DEF PagerInv, FileKnown
  <1>6. CacheCoherent' /\ EngineNeverHalts' /\ MappedMarked' /\ MappedOnce'
    BY <1>1, <1>3, NoCallFacts
    DEF PagerInv, CacheCoherent, EngineNeverHalts, MappedMarked, MappedOnce, MappedPages
  <1> QED BY <1>2, <1>4, <1>5, <1>6 DEF PagerInv

LEMMA ModifyPageKeeps ==
    ASSUME PagerInv, NEW p \in Pages, NEW d \in Data, ModifyPage(p, d)
    PROVE  PagerInv'
  <1>1. UNCHANGED vars
    BY DEF ModifyPage
  <1>2. IInv' /\ CacheOnlyIfBuilt' /\ TypeOK'
    BY <1>1, CallKeepsEngine
  <1>3. /\ p \in DOMAIN pcache /\ pcache' = [pcache EXCEPT ![p] = d]
        /\ dirty' = dirty \cup {p}
        /\ UNCHANGED <<eState, mapped, dbSize, used, pending>>
    BY DEF ModifyPage
  <1>4. PagerTypeOK'
    BY <1>2, <1>3 DEF PagerInv, PagerTypeOK
  <1>5. FileKnown' /\ CacheCoherent' /\ EngineNeverHalts' /\ MappedMarked' /\ MappedOnce'
    BY <1>1, <1>3, NoCallFacts
    DEF PagerInv, FileKnown, CacheCoherent, EngineNeverHalts, MappedMarked, MappedOnce,
        MappedPages
  <1> QED BY <1>2, <1>4, <1>5 DEF PagerInv

LEMMA WritePageKeeps ==
    ASSUME PagerInv, COLD_HASH, NEW p \in Pages, WritePage(p),
           eState' \in {"READER", "WRITER", "COMMIT"}
    PROVE  PagerInv'
  <1>1. /\ p \in dirty /\ p \in DOMAIN pcache /\ pcache[p] \in Data
        /\ p < dbSize /\ CopyTo(p, pcache[p])
    BY PagerPages DEF WritePage, PagerInv, PagerTypeOK
  <1>2. IInv' /\ CacheOnlyIfBuilt' /\ TypeOK'
    <2>1. Next
      BY <1>1 DEF Next
    <2> QED BY <2>1, CallKeepsEngine
  <1>3. /\ Contents' = [Contents EXCEPT ![p] = pcache[p]]
        /\ Touched' = Touched \cup {p} /\ halted' = "no"
        /\ \A r \in Pages : stick[r] => stick'[r] /\ slot'[r] = slot[r]
    BY <1>1, CopyToFacts DEF PagerInv
  <1>4. /\ dirty' = dirty \ {p}
        /\ used' = (IF p < used THEN used ELSE p + 1)
        /\ UNCHANGED <<mapped, pcache, dbSize, pending>>
    BY DEF WritePage
  <1>5. PagerTypeOK'
    <2>1. used' \in 0 .. dbSize
      BY <1>1, <1>4, PagerPages DEF Pages
    <2> QED BY <1>2, <1>4, <2>1 DEF PagerInv, PagerTypeOK
  <1>6. FileKnown'
    <2>1. \A r \in used' .. dbSize - 1 : r \in used .. dbSize - 1 /\ r # p
      BY <1>1, <1>4, PagerPages DEF Pages
    <2> QED BY <1>3, <1>4, <2>1 DEF PagerInv, FileKnown
  <1>7. CacheCoherent'
    <2>1. \A r \in Pages : Contents'[r] = IF r = p THEN pcache[p] ELSE Contents[r]
      BY <1>3 DEF Contents
    <2>2. \A r \in DOMAIN pcache : r \in Pages /\ (r # p /\ r \notin dirty => pcache[r] = Contents[r])
      BY PagerPages DEF PagerInv, CacheCoherent
    <2> QED BY <1>4, <2>1, <2>2 DEF CacheCoherent
  <1>8. EngineNeverHalts'
    BY <1>3 DEF EngineNeverHalts
  <1>9. MappedMarked' /\ MappedOnce'
    BY <1>3, <1>4, PagerPages
    DEF PagerInv, PagerTypeOK, MappedMarked, MappedOnce, MappedPages
  <1> QED BY <1>2, <1>5, <1>6, <1>7, <1>8, <1>9 DEF PagerInv

\* BeginWrite, CommitDone and stuttering change eState at most.
LEMMA OnlyStateKeeps ==
    ASSUME PagerInv, UNCHANGED <<vars, mapped, pcache, dirty, dbSize, used, pending>>,
           eState' \in {"READER", "WRITER", "COMMIT"}
    PROVE  PagerInv'
  <1>1. IInv' /\ CacheOnlyIfBuilt' /\ TypeOK'
    BY CallKeepsEngine
  <1>2. PagerTypeOK'
    BY <1>1 DEF PagerInv, PagerTypeOK
  <1>3. FileKnown' /\ CacheCoherent' /\ EngineNeverHalts' /\ MappedMarked' /\ MappedOnce'
    BY NoCallFacts
    DEF PagerInv, FileKnown, CacheCoherent, EngineNeverHalts, MappedMarked, MappedOnce,
        MappedPages
  <1> QED BY <1>1, <1>2, <1>3 DEF PagerInv

--------------------------------------------------------------------------------
LEMMA PagerInitInv == PagerInit => PagerInv
  <1> SUFFICES ASSUME PagerInit PROVE PagerInv
    OBVIOUS
  <1>1. IInv /\ CacheOnlyIfBuilt
    BY InitIInv DEF PagerInit, Init, QueueInit, CacheOnlyIfBuilt
  <1>2. DOMAIN mapped = {} /\ DOMAIN pcache = {}
    BY DEF PagerInit
  <1>3. PagerTypeOK
    BY <1>1, <1>2, PageQueueAssumption DEF PagerInit, PagerTypeOK, IInv
  <1>4. FileKnown /\ CacheCoherent /\ EngineNeverHalts /\ MappedMarked /\ MappedOnce
    BY <1>2 DEF PagerInit, Init, FileKnown, CacheCoherent, EngineNeverHalts,
                MappedMarked, MappedOnce
  <1> QED BY <1>1, <1>3, <1>4 DEF PagerInv

LEMMA PagerNextKeepsInv ==
    ASSUME COLD_HASH, ~SHARED
    PROVE  PagerInv /\ [PagerNext]_allVars => PagerInv'
  <1> SUFFICES ASSUME PagerInv, [PagerNext]_allVars PROVE PagerInv'
    OBVIOUS
  <1> eState \in {"READER", "WRITER", "COMMIT"}
    BY DEF PagerInv, PagerTypeOK
  <1>1. CASE \E h \in Handles, p \in Pages : GetPageMMap(h, p)
    BY <1>1, GetPageMMapKeeps
  <1>2. CASE \E h \in Handles : ReleaseMapPage(h)
    BY <1>2, ReleaseMapPageKeeps
  <1>3. CASE \E p \in Pages : GetPageNormal(p)
    BY <1>3, GetPageNormalKeeps
  <1>4. CASE \E p \in Pages : DropPage(p)
    BY <1>4, DropPageKeeps
  <1>5. CASE \E p \in Pages : SpillPage(p)
    BY <1>5, WritePageKeeps DEF SpillPage
  <1>6. CASE \E p \in Pages : CommitPage(p)
    BY <1>6, WritePageKeeps DEF CommitPage
  <1>7. CASE \E p \in Pages, d \in Data : ModifyPage(p, d)
    BY <1>7, ModifyPageKeeps
  <1>8. CASE GiveBack
    BY <1>8, GiveBackKeeps
  <1>9. CASE BeginWrite
    BY <1>9, OnlyStateKeeps DEF BeginWrite
  <1>10. CASE NewPage
    BY <1>10, NewPageKeeps
  <1>11. CASE CommitDone
    BY <1>11, OnlyStateKeeps DEF CommitDone
  <1>12. CASE UNCHANGED allVars
    BY <1>12, OnlyStateKeeps DEF allVars, pagerVars
  <1> QED BY <1>1, <1>2, <1>3, <1>4, <1>5, <1>6, <1>7, <1>8, <1>9, <1>10, <1>11, <1>12
          DEF PagerNext

\* The invariant of the pager and the engine together, with hashes and with no
\* page mapped twice at the same time.
THEOREM PagerSpecInv ==
    ASSUME COLD_HASH, ~SHARED
    PROVE  PagerSpec => []PagerInv
  BY PagerInitInv, PagerNextKeepsInv, PTL DEF PagerSpec

\* The state of the pager is well typed; in particular the file never has more
\* pages than the database, and every dirty page is in the page cache
\* (pager.c:5516-5543, sgxvfs.c:140-175).
THEOREM SpecPagerTypeOK ==
    ASSUME COLD_HASH, ~SHARED
    PROVE  PagerSpec => []PagerTypeOK
  <1>1. PagerInv => PagerTypeOK
    BY DEF PagerInv
  <1> QED BY <1>1, PagerSpecInv, PTL

\* A pointer handed to SQLite leads to the frame of its page until SQLite gives
\* it back (vmem.c:212-344, sgxvfs.c:300-323).
THEOREM SpecMappingsValid ==
    ASSUME COLD_HASH, ~SHARED
    PROVE  PagerSpec => []MappingsValid
  <1>1. PagerInv => MappingsValid
    <2> SUFFICES ASSUME PagerInv, NEW h \in DOMAIN mapped
                 PROVE  mapped[h].page \in hash /\ mapped[h].frame = slot[mapped[h].page]
      BY DEF MappingsValid
    <2> QED BY PagerPages DEF PagerInv, MappedMarked, IInv, StuckInFront
  <1> QED BY <1>1, PagerSpecInv, PTL

\* What the page cache holds unmodified is what the engine holds
\* (vmem.c:396-473, pager.c:5516-5543).
THEOREM SpecCacheCoherent ==
    ASSUME COLD_HASH, ~SHARED
    PROVE  PagerSpec => []CacheCoherent
  <1>1. PagerInv => CacheCoherent
    BY DEF PagerInv
  <1> QED BY <1>1, PagerSpecInv, PTL

\* The engine neither crashes nor raises a false alarm under the pager's calls
\* (vmem.c:310-334, sgxvfs.c:128-131).
THEOREM SpecEngineNeverHalts ==
    ASSUME COLD_HASH, ~SHARED
    PROVE  PagerSpec => []EngineNeverHalts
  <1>1. PagerInv => EngineNeverHalts
    BY DEF PagerInv
  <1> QED BY <1>1, PagerSpecInv, PTL

==============================================================================
