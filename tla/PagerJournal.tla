------------------------------ MODULE PagerJournal ------------------------------
(****************************************************************************)
(* Transactions of SQLite's pager on the sgx file system: the rollback       *)
(* journal (journal_mode=DELETE), statement savepoints with their            *)
(* sub-journal, spilling of dirty pages, the free list of the b-tree layer,  *)
(* commit and rollback.  One connection, one thread; an action is one call   *)
(* into the pager.  Files behave as module SqliteFiles has them, on which    *)
(* src/Enclave/sgxvfs.c is checked: a journal write may fail with NOMEM, and *)
(* a block below the end of the database that was never written is a hole.   *)
(*                                                                           *)
(* Page 1 stands for the free list's trunk as well: its content is the set   *)
(* of free leaf pages.  A journal is a sequence of blocks, a header (of      *)
(* sectorSize = PAGE_SIZE bytes) or a record each, at offsets from 0.        *)
(****************************************************************************)
EXTENDS Integers, Sequences

CONSTANTS
    Data,          \* contents of pages other than page 1
    zeros,         \* an all-zero page
    junk,          \* what a short read leaves in a page: old heap memory
    hole,          \* a block of the database file that was not written since
                   \* the file grew past it
    Bounds         \* bounds [pages, journal, savepoints, sub] on the size of the
                   \* database, the length of a journal that is synced, nested
                   \* savepoints and the length of the sub-journal: a behaviour
                   \* has one of them

ASSUME JournalAssumption ==
    /\ zeros \in Data
    /\ junk \notin Data
    /\ hole \notin Data \cup {junk}
    /\ \A b \in Bounds : /\ b.pages \in Nat \ {0}
                         /\ {b.journal, b.savepoints, b.sub} \subseteq Nat

VARIABLES
    bound,       \* the bounds of this behaviour
    eState,      \* "READER", WRITER_: "LOCKED", "CACHEMOD", "DBMOD", "FINISHED";
                 \* or "ERROR"
    rc,          \* "OK", the error that the current statement has met, or
                 \* "INTRUSION" for an enclave that spins
    file,        \* the database file
    dbSize,      \* pages in the database, as the transaction sees it
    dbOrigSize,  \* pages when the transaction began
    dbFileSize,  \* pages in the file, as the pager believes
    cache,       \* the page cache: page -> content and PGHDR flags
    jOpen,       \* the journal is open
    jfile,       \* its blocks
    journalOff,  \* where the next one goes
    journalHdr,  \* the offset of its last header
    nRec,        \* records since
    inJournal,   \* pages that need not be journalled (pInJournal)
    savepoints,  \* aSavepoint
    sub,         \* the records of the sub-journal
    hasContent   \* pages freed in this transaction (BtShared.pHasContent)

\* History: what the client has written, when it began, and at each savepoint.
VARIABLES view, begun, saved

fileVars == <<file, dbFileSize>>
journalVars == <<jOpen, jfile, journalOff, journalHdr, nRec, inJournal>>
savepointVars == <<savepoints, sub>>
auxVars == <<view, begun, saved>>
vars == <<bound, eState, rc, fileVars, dbSize, dbOrigSize, cache, journalVars,
          savepointVars, hasContent, auxVars>>

MAX(x, y) == IF x < y THEN y ELSE x

\* The pages of an image that hold something: all but the free ones.
Live(image) == DOMAIN image \ image[1]

Header(n, valid) == [nRec |-> n, magic |-> valid]
Record(p, d) == [pgno |-> p, data |-> d]

\* A page as it enters the cache.
Clean(d) == [data |-> d, dirty |-> FALSE, needSync |-> FALSE, dontWrite |-> FALSE]

\* The cache with a frame for page p.
Cached(c, p, page) ==
    [q \in DOMAIN c \cup {p} |-> IF q = p THEN page ELSE c[q]]

\* A plausible mistake: PGHDR_NEED_SYNC outlives the transaction.
CleanedNotSynced(c) == [p \in DOMAIN c |-> [c[p] EXCEPT !.dirty = FALSE]]

CleanAll(c) == [p \in DOMAIN c |->
                   [c[p] EXCEPT !.dirty = FALSE, !.needSync = FALSE]]
UpTo(c, n) == [p \in DOMAIN c \cap 1 .. n |-> c[p]]

\* pHasContent, empty where the code has NULL.
NoBitvec == [size |-> 0, pages |-> {}]
HasContent(p) ==
    /\ hasContent.pages # {}
    /\ p > hasContent.size \/ p \in hasContent.pages
SetHasContent(p) ==
    IF hasContent = NoBitvec THEN [size |-> dbSize, pages |-> {p}]
    ELSE IF p <= hasContent.size
    THEN [hasContent EXCEPT !.pages = @ \cup {p}]
    ELSE hasContent

\* The file after a write of block p, with holes if that is beyond the end.
Written(f, p, d) ==
    [i \in 1 .. MAX(Len(f), p) |->
        IF i = p THEN d ELSE IF i \in DOMAIN f THEN f[i] ELSE hole]

\* A plausible mistake: only the commit keeps count of what it writes.
NotGrown(n, p) == n

\* dbFileSize after a write of block p.
FileGrown(n, p) == MAX(n, p)

\* An error is persistent if it is one of two kinds.
pager_error(state, err) == IF err \in {"FULL", "IOERR"} THEN "ERROR" ELSE state

\* A database of one page.
PagerJournalInit ==
    /\ bound \in Bounds
    /\ eState = "READER" /\ rc = "OK"
    /\ file = <<{}>> /\ dbSize = 1 /\ dbOrigSize = 1 /\ dbFileSize = 1
    /\ cache = <<Clean({})>>
    /\ jOpen = FALSE /\ jfile = << >> /\ journalOff = 0 /\ journalHdr = 0
    /\ nRec = 0 /\ inJournal = {}
    /\ savepoints = << >> /\ sub = << >>
    /\ hasContent = NoBitvec
    /\ view = file /\ begun = file /\ saved = << >>

--------------------------------------------------------------------------------
(* Reading *)

\* getPageNormal of a page that is not in the cache.  readDbPage makes nothing
\* of a short read.  The b-tree reads no page of the free list.
GetPage(p) ==
    /\ rc = "OK"
    /\ p \in Live(view) \ DOMAIN cache
    /\ cache' = Cached(cache, p, Clean(IF p \in DOMAIN file THEN file[p] ELSE junk))
    /\ UNCHANGED <<bound, eState, rc, fileVars, dbSize, dbOrigSize, journalVars,
                   savepointVars, hasContent, auxVars>>

\* A clean page leaves the cache; page 1 is held throughout.
DropPage(p) ==
    /\ rc = "OK"
    /\ p \in DOMAIN cache \ {1}
    /\ ~cache[p].dirty
    /\ cache' = [q \in DOMAIN cache \ {p} |-> cache[q]]
    /\ UNCHANGED <<bound, eState, rc, fileVars, dbSize, dbOrigSize, journalVars,
                   savepointVars, hasContent, auxVars>>

--------------------------------------------------------------------------------
(* Writing *)

sqlite3PagerBegin ==
    /\ eState = "READER" /\ rc = "OK"
    /\ eState' = "LOCKED"
    /\ dbOrigSize' = dbSize
    /\ dbFileSize' = dbSize
    /\ journalOff' = 0
    /\ begun' = view
    /\ UNCHANGED <<bound, rc, file, dbSize, cache, jOpen, jfile, journalHdr, nRec,
                   inJournal, savepointVars, hasContent, view, saved>>

\* Some savepoint has no copy of page p yet.
subjRequiresPage(sps, p) ==
    \E i \in DOMAIN sps : p <= sps[i].nOrig /\ p \notin sps[i].inSavepoint

addToSavepointBitvecs(sps, p) ==
    [i \in DOMAIN sps |->
        IF p <= sps[i].nOrig
        THEN [sps[i] EXCEPT !.inSavepoint = @ \cup {p}] ELSE sps[i]]

\* Page p need not be added to the journal again: sqlite3PagerWrite returns at
\* once.
Writeable(p) ==
    /\ eState \in {"CACHEMOD", "DBMOD"}
    /\ p \in DOMAIN cache
    /\ cache[p].dirty /\ ~cache[p].dontWrite
    /\ p \in inJournal \/ p > dbOrigSize
    /\ ~subjRequiresPage(savepoints, p)

\* The journal that pager_write finds: its first call opens it, with a header.
OpenedJournal == IF eState = "LOCKED" THEN <<Header(0, FALSE)>> ELSE jfile

\* pager_write of page p, after which the client sets its content to d.  c, inJ
\* and sps are the cache and the bit vectors with what sqlite3PagerGet did.
\* Writing to the journal may fail: a record is then not there, but its page is
\* marked; a journal without a header stays open.
PagerWrite(c, inJ, sps, p, d) ==
    LET opening == eState = "LOCKED"
        off == IF opening THEN 1 ELSE journalOff
        add == p <= dbOrigSize /\ p \notin inJ
        mark == p > dbOrigSize /\ eState # "DBMOD"
        sps1 == IF add THEN addToSavepointBitvecs(sps, p) ELSE sps
        subj == subjRequiresPage(sps1, p)
        dirtied(x) == [c EXCEPT ![p] = [data |-> x, dirty |-> TRUE,
                                        needSync |-> @.needSync \/ add \/ mark,
                                        dontWrite |-> FALSE]]
    IN
    /\ rc = "OK"
    /\ eState \in {"LOCKED", "CACHEMOD", "DBMOD"}
    /\ subj => Len(sub) < bound.sub
    /\ jOpen' = TRUE
    /\ journalHdr' = IF opening THEN 0 ELSE journalHdr
    /\ UNCHANGED <<fileVars, dbOrigSize>>
    /\ \/ /\ eState' = IF opening THEN "CACHEMOD" ELSE eState
          /\ jfile' = IF add THEN Append(OpenedJournal, Record(p, c[p].data))
                      ELSE OpenedJournal
          /\ journalOff' = IF add THEN off + 1 ELSE off
          /\ nRec' = (IF opening THEN 0 ELSE nRec) + IF add THEN 1 ELSE 0
          /\ inJournal' = IF add THEN inJ \cup {p} ELSE inJ
          /\ savepoints' = IF subj THEN addToSavepointBitvecs(sps1, p) ELSE sps1
          /\ sub' = IF subj THEN Append(sub, Record(p, c[p].data)) ELSE sub
          /\ cache' = dirtied(d)
          /\ dbSize' = MAX(dbSize, p)
          /\ UNCHANGED rc
       \/ /\ add
          /\ rc' = "NOMEM"
          /\ eState' = IF opening THEN "CACHEMOD" ELSE eState
          /\ jfile' = OpenedJournal
          /\ journalOff' = off
          /\ nRec' = IF opening THEN 0 ELSE nRec
          /\ inJournal' = inJ
          /\ savepoints' = sps
          /\ cache' = dirtied(c[p].data)
          /\ UNCHANGED <<sub, dbSize>>
       \/ /\ opening
          /\ rc' = "NOMEM"
          /\ jfile' = << >>
          /\ journalOff' = 1
          /\ nRec' = 0
          /\ inJournal' = {}
          /\ UNCHANGED <<eState, savepoints, cache, sub, dbSize>>

\* The client changes a page, or page 1 before the free list.
WritePage(p, d) ==
    /\ p \in Live(view) \cap DOMAIN cache
    /\ PagerWrite(cache, inJournal, savepoints, p, d)
    /\ view' = [view EXCEPT ![p] = d]
    /\ UNCHANGED <<bound, hasContent, begun, saved>>

\* freePage2: page p becomes a leaf of the free list.
FreePage(p) ==
    /\ rc = "OK"
    /\ Writeable(1)
    /\ p \in Live(view) \ {1}
    /\ cache' = [q \in DOMAIN cache |->
                    IF q = 1 THEN [cache[1] EXCEPT !.data = @ \cup {p}]
                    ELSE IF q = p /\ cache[p].dirty /\ savepoints = << >>
                    THEN [cache[p] EXCEPT !.dontWrite = TRUE]
                    ELSE cache[q]]
    /\ hasContent' = SetHasContent(p)
    /\ view' = [view EXCEPT ![1] = @ \cup {p}]
    /\ UNCHANGED <<bound, eState, rc, fileVars, dbSize, dbOrigSize, journalVars,
                   savepointVars, begun, saved>>

\* A plausible mistake: a page of the free list never has content to keep.
NeverContent(p) == TRUE

NoContent(p) == ~HasContent(p)

\* What the pager has for page p of the free list.  A page that this transaction
\* freed is read again: a rollback may need its content.  d is what a hole reads
\* as: zeros, or what the file had there before it was truncated.
Found(p, d) ==
    IF NoContent(p)
    THEN IF p \in DOMAIN cache THEN [cache[p] EXCEPT !.data = zeros] ELSE Clean(zeros)
    ELSE IF p \in DOMAIN cache THEN cache[p]
    ELSE Clean(IF p \notin DOMAIN file THEN junk
               ELSE IF file[p] = hole THEN d ELSE file[p])

\* allocateBtreePage from the free list.
ReusePage(p, d) ==
    LET page == Found(p, d)
        trunk == [cache[1] EXCEPT !.data = @ \ {p}]
    IN
    /\ Writeable(1)
    /\ p \in view[1]
    /\ PagerWrite(Cached(Cached(cache, p, page), 1, trunk),
                  IF NoContent(p) /\ p <= dbOrigSize
                  THEN inJournal \cup {p} ELSE inJournal,
                  IF NoContent(p)
                  THEN addToSavepointBitvecs(savepoints, p) ELSE savepoints,
                  p, page.data)
    /\ view' = [view EXCEPT ![1] = @ \ {p}, ![p] = page.data]
    /\ UNCHANGED <<bound, hasContent, begun, saved>>

\* The same where that read meets a hole and there is no frame that could give
\* zeros for it (nnI): copy_from takes it for an intrusion.
ReuseHole(p) ==
    /\ rc = "OK"
    /\ Writeable(1)
    /\ p \in view[1] \ DOMAIN cache
    /\ ~NoContent(p)
    /\ p \in DOMAIN file /\ file[p] = hole
    /\ rc' = "INTRUSION"
    /\ UNCHANGED <<bound, eState, fileVars, dbSize, dbOrigSize, cache, journalVars,
                   savepointVars, hasContent, auxVars>>

\* allocateBtreePage with an empty free list.
AppendPage ==
    LET p == dbSize + 1
        page == IF p \in DOMAIN cache THEN [cache[p] EXCEPT !.data = zeros]
                ELSE Clean(zeros)
    IN
    /\ Writeable(1)
    /\ view[1] = {}
    /\ p <= bound.pages
    /\ PagerWrite(Cached(cache, p, page), inJournal,
                  addToSavepointBitvecs(savepoints, p), p, zeros)
    /\ view' = Append(view, zeros)
    /\ UNCHANGED <<bound, hasContent, begun, saved>>

--------------------------------------------------------------------------------
(* Spilling and committing *)

\* syncJournal: the last header says how many records follow it.
HeaderCounted == [jfile EXCEPT ![journalHdr + 1] = Header(nRec, TRUE)]

\* The savepoints that have seen no header since they were opened see this one.
SetHdrOffset ==
    [i \in DOMAIN savepoints |->
        IF savepoints[i].iHdrOffset = 0
        THEN [savepoints[i] EXCEPT !.iHdrOffset = journalOff] ELSE savepoints[i]]

\* A plausible mistake: a page is spilled without a look at the journal.
NeverNeedsSync(p) == FALSE

NeedsSync(p) == cache[p].needSync \/ eState = "CACHEMOD"

\* pagerStress writes an unreferenced dirty page to make room.  The journal is
\* synced first, and its next records follow a new header.
Spill(p) ==
    LET c == IF NeedsSync(p)
             THEN [q \in DOMAIN cache |-> [cache[q] EXCEPT !.needSync = FALSE]]
             ELSE cache
        stored == p <= dbSize /\ ~cache[p].dontWrite
    IN
    /\ file' = IF stored THEN Written(file, p, cache[p].data) ELSE file
    /\ dbFileSize' = IF stored THEN FileGrown(dbFileSize, p) ELSE dbFileSize
    /\ cache' = [c EXCEPT ![p].dirty = FALSE]

\* The new header may not fit: syncJournal fails, and pagerStress with it.
pagerStress(p) ==
    /\ rc = "OK"
    /\ eState \in {"CACHEMOD", "DBMOD"}
    /\ p \in DOMAIN cache \ {1}
    /\ cache[p].dirty
    /\ \/ /\ NeedsSync(p)
          /\ Len(jfile) < bound.journal
          /\ journalHdr' = journalOff
          /\ journalOff' = journalOff + 1
          /\ nRec' = 0
          /\ savepoints' = SetHdrOffset
          /\ \/ /\ jfile' = Append(HeaderCounted, Header(0, FALSE))
                /\ eState' = "DBMOD"
                /\ Spill(p)
                /\ UNCHANGED rc
             \/ /\ jfile' = HeaderCounted
                /\ rc' = "NOMEM"
                /\ eState' = pager_error(eState, rc')
                /\ UNCHANGED <<fileVars, cache>>
       \/ /\ ~NeedsSync(p)
          /\ Spill(p)
          /\ UNCHANGED <<eState, rc, journalHdr, journalOff, nRec, savepoints,
                         jfile>>
    /\ UNCHANGED <<bound, dbSize, dbOrigSize, jOpen, inJournal, sub, hasContent, auxVars>>

\* Page 1 gets a new change counter (its sqlite3PagerWrite comes first), then
\* everything dirty goes to the file.
sqlite3PagerCommitPhaseOne ==
    LET stored == {p \in DOMAIN cache :
                      cache[p].dirty /\ p <= dbSize /\ ~cache[p].dontWrite}
        top == CHOOSE n \in stored \cup {dbFileSize} :
                  \A p \in stored \cup {dbFileSize} : p <= n
        size == MAX(Len(file), top)
        list == [i \in 1 .. size |->
                    IF i \in stored THEN cache[i].data
                    ELSE IF i \in DOMAIN file THEN file[i] ELSE hole]
    IN
    /\ rc = "OK"
    /\ Writeable(1)
    /\ jfile' = HeaderCounted
    /\ journalHdr' = journalOff
    /\ file' = IF dbSize > top /\ size < dbSize
               THEN Written(list, dbSize, zeros) ELSE list
    /\ dbFileSize' = MAX(dbSize, top)
    /\ cache' = CleanAll(cache)
    /\ eState' = "FINISHED"
    /\ UNCHANGED <<bound, rc, dbSize, dbOrigSize, jOpen, journalOff, nRec, inJournal,
                   savepointVars, hasContent, auxVars>>

\* pager_end_transaction closes the journal, which frees it.
EndTransaction ==
    /\ eState' = "READER"
    /\ rc' = "OK"
    /\ jOpen' = FALSE
    /\ jfile' = << >>
    /\ journalOff' = 0
    /\ journalHdr' = 0
    /\ nRec' = 0
    /\ inJournal' = {}
    /\ savepoints' = << >>
    /\ sub' = << >>
    /\ hasContent' = NoBitvec
    /\ saved' = << >>

sqlite3PagerCommitPhaseTwo ==
    /\ rc = "OK"
    /\ eState \in {"LOCKED", "FINISHED"}
    /\ EndTransaction
    /\ cache' = UpTo(CleanAll(cache), dbSize)
    /\ IF dbFileSize > dbSize
       THEN file' = SubSeq(file, 1, dbSize) /\ dbFileSize' = dbSize
       ELSE UNCHANGED fileVars
    /\ begun' = view
    /\ UNCHANGED <<bound, dbSize, dbOrigSize, view>>

--------------------------------------------------------------------------------
(* Rolling back *)

\* A playback finds a header at off.  The last one, still being filled, is
\* believed without its magic, and counts what follows it.
HeaderAt(off, szJ) ==
    /\ off < szJ /\ off < Len(jfile)
    /\ off = journalHdr \/ jfile[off + 1].magic
RecordsAfter(off, szJ) ==
    IF jfile[off + 1].nRec = 0 /\ off = journalHdr
    THEN szJ - off - 1 ELSE jfile[off + 1].nRec

\* The playback of one header and its records: where the next header is
\* expected, and the offsets of the records read so far.
Playback(s, szJ) ==
    IF HeaderAt(s.off, szJ)
    THEN LET n == RecordsAfter(s.off, szJ)
         IN [off |-> s.off + n + 1, records |-> s.records \cup (s.off + 1 .. s.off + n)]
    ELSE s

\* The offsets of the records that are read from the header at `from' on, in a
\* journal of size szJ.
Replayed(from, szJ) ==
    LET played[k \in 0 .. szJ] ==
            IF k = 0 THEN [off |-> from, records |-> {}]
            ELSE Playback(played[k - 1], szJ)
    IN played[szJ].records

\* A record of the main journal that is synced.
IsSynced(off) == off < journalHdr

\* A plausible mistake: a page that is not in the cache is taken to be unsynced.
CachedAndSynced(p) == p \in DOMAIN cache /\ ~cache[p].needSync

\* The record of the main journal for a page of the sub-journal is synced.
OriginalSynced(p) == p \in DOMAIN cache => ~cache[p].needSync

\* sqlite3PagerRollback.  With an open journal pager_playback truncates the
\* database and copies the original pages back, to the file too if that may
\* have been written.
sqlite3PagerRollback ==
    LET offs == Replayed(0, Len(jfile))
        from(p) == {o \in offs : jfile[o + 1].pgno = p}
        orig(p) == jfile[(CHOOSE o \in from(p) : TRUE) + 1].data
        restored == {p \in 1 .. dbOrigSize : from(p) # {}}
        synced == {p \in restored : \E o \in from(p) : IsSynced(o)}
    IN
    /\ eState # "READER" /\ rc # "INTRUSION"
    /\ EndTransaction
    /\ IF eState = "LOCKED"
       THEN /\ cache' = UpTo(CleanAll(cache), dbSize)
            /\ UNCHANGED <<fileVars, dbSize>>
       ELSE /\ dbSize' = dbOrigSize
            /\ cache' = [p \in DOMAIN UpTo(cache, dbOrigSize) |->
                            IF p \in restored
                            THEN [CleanAll(cache)[p] EXCEPT !.data = orig(p)]
                            ELSE CleanAll(cache)[p]]
            /\ IF eState = "CACHEMOD"
               THEN UNCHANGED fileVars
               ELSE /\ file' = [i \in 1 .. dbOrigSize |->
                                  IF i \in synced THEN orig(i)
                                  ELSE IF i \in DOMAIN file THEN file[i]
                                  ELSE hole]
                    /\ dbFileSize' = dbOrigSize
    /\ view' = begun
    /\ UNCHANGED <<bound, dbOrigSize, begun>>

sqlite3PagerOpenSavepoint ==
    /\ rc = "OK"
    /\ eState \in {"LOCKED", "CACHEMOD", "DBMOD"}
    /\ Len(savepoints) < bound.savepoints
    /\ savepoints' = Append(savepoints,
           [nOrig |-> dbSize, inSavepoint |-> {}, iHdrOffset |-> 0,
            iOffset |-> IF jOpen /\ journalOff > 0 THEN journalOff ELSE 1,
            iSubRec |-> Len(sub)])
    /\ saved' = Append(saved, view)
    /\ UNCHANGED <<bound, eState, rc, fileVars, dbSize, dbOrigSize, cache, journalVars,
                   sub, hasContent, view, begun>>

\* sqlite3PagerSavepoint(SAVEPOINT_RELEASE) of savepoint n.
ReleaseSavepoint(n) ==
    /\ rc = "OK"
    /\ eState \in {"LOCKED", "CACHEMOD", "DBMOD"}
    /\ n \in DOMAIN savepoints
    /\ savepoints' = SubSeq(savepoints, 1, n - 1)
    /\ saved' = SubSeq(saved, 1, n - 1)
    /\ sub' = IF n = 1 THEN << >> ELSE sub
    /\ UNCHANGED <<bound, eState, rc, fileVars, dbSize, dbOrigSize, cache, journalVars,
                   hasContent, view, begun>>

\* pagerPlaybackSavepoint: the records of the main journal since the savepoint,
\* first up to the next header, then the later ones, and then those of the
\* sub-journal; of a page the first one counts.  The playback stops with an
\* error at a header that could not be written.
RollbackToSavepoint(n) ==
    LET s == savepoints[n]
        hdr == IF s.iHdrOffset = 0 THEN journalOff ELSE s.iHdrOffset
        offs == (s.iOffset .. hdr - 1) \cup Replayed(hdr, journalOff)
        missing == hdr < journalOff /\ journalOff > Len(jfile)
        subs == IF missing THEN {} ELSE s.iSubRec + 1 .. Len(sub)
        main(p) == {o \in offs : jfile[o + 1].pgno = p}
        minor(p) == {k \in subs : sub[k].pgno = p}
        first(K) == CHOOSE k \in K : \A j \in K : k <= j
        restored == {p \in 1 .. s.nOrig : main(p) \cup minor(p) # {}}
        orig(p) == IF main(p) # {} THEN jfile[first(main(p)) + 1].data
                   ELSE sub[first(minor(p))].data
        synced(p) == IF main(p) # {} THEN IsSynced(first(main(p)))
                     ELSE OriginalSynced(p)
        stored == {p \in restored : eState = "DBMOD" /\ synced(p)}
        size == CHOOSE m \in stored \cup {Len(file)} :
                   \A p \in stored \cup {Len(file)} : p <= m
    IN
    /\ rc \in {"OK", "NOMEM"}
    /\ eState \in {"LOCKED", "CACHEMOD", "DBMOD"}
    /\ n \in DOMAIN savepoints
    /\ savepoints' = SubSeq(savepoints, 1, n)
    /\ saved' = SubSeq(saved, 1, n)
    /\ view' = saved[n]
    /\ IF ~jOpen
       THEN rc' = "OK" /\ UNCHANGED <<fileVars, dbSize, cache, journalOff>>
       ELSE /\ dbSize' = s.nOrig
            /\ cache' = [p \in DOMAIN cache |->
                            IF p \in restored
                            THEN [cache[p] EXCEPT !.data = orig(p)] ELSE cache[p]]
            /\ file' = [i \in 1 .. size |->
                           IF i \in stored THEN orig(i)
                           ELSE IF i \in DOMAIN file THEN file[i] ELSE hole]
            /\ dbFileSize' = FileGrown(dbFileSize, size)
            /\ rc' = IF missing THEN "IOERR" ELSE "OK"
            /\ UNCHANGED journalOff
    /\ UNCHANGED <<bound, eState, dbOrigSize, jOpen, jfile, journalHdr, nRec, inJournal,
                   sub, hasContent, begun>>

--------------------------------------------------------------------------------
PagerJournalNext ==
    \/ \E p \in 1 .. bound.pages :
          \/ GetPage(p) \/ DropPage(p) \/ FreePage(p) \/ ReuseHole(p)
          \/ pagerStress(p)
          \/ \E d \in Data : ReusePage(p, d)
          \/ p = 1 /\ WritePage(1, view[1])
          \/ p # 1 /\ \E d \in Data : WritePage(p, d)
    \/ AppendPage
    \/ sqlite3PagerBegin
    \/ sqlite3PagerCommitPhaseOne \/ sqlite3PagerCommitPhaseTwo
    \/ sqlite3PagerRollback
    \/ sqlite3PagerOpenSavepoint
    \/ \E n \in 1 .. bound.savepoints : ReleaseSavepoint(n) \/ RollbackToSavepoint(n)

PagerJournalSpec == PagerJournalInit /\ [][PagerJournalNext]_vars

--------------------------------------------------------------------------------
PageData(p) == IF p = 1 THEN SUBSET (2 .. bound.pages) ELSE Data \cup {junk}

\* The pager's view of its files and its cache has the right shape.
JournalTypeOK ==
    /\ eState \in {"READER", "LOCKED", "CACHEMOD", "DBMOD", "FINISHED", "ERROR"}
    /\ rc \in {"OK", "NOMEM", "IOERR", "INTRUSION"}
    /\ {dbSize, dbOrigSize, Len(file)} \subseteq 1 .. bound.pages
    /\ \A i \in DOMAIN file : file[i] \in PageData(i) \cup {hole}
    /\ DOMAIN cache \subseteq 1 .. bound.pages
    /\ \A p \in DOMAIN cache :
          /\ cache[p].data \in PageData(p)
          /\ cache[p].needSync => cache[p].dirty
    /\ rc = "OK" /\ jOpen /\ eState # "LOCKED" => Len(jfile) = journalOff
    /\ Len(savepoints) = Len(saved)

\* A page reads as the client last wrote it, cached or not, through spills and
\* evictions; after a rollback, to a savepoint or of the transaction, it reads
\* as it did there, whatever failed in between (pager.c:2745, 3342, 4498).
ReadsAsWritten ==
    rc = "OK" =>
        /\ dbSize = Len(view)
        /\ \A p \in Live(view) :
              IF p \in DOMAIN cache THEN cache[p].data = view[p]
              ELSE p \in DOMAIN file /\ file[p] = view[p]

\* A page of the database as it was when the transaction began is overwritten
\* in the file only after it is in a part of the journal that is synced and
\* counted in its header (pager.c:4173-4282).
WriteAhead ==
    LET counted == Replayed(0, Len(jfile)) \cap 0 .. journalHdr - 1
    IN eState # "READER" =>
           \A p \in Live(begun) \cap DOMAIN file :
               file[p] = begun[p] \/
               \E o \in counted : jfile[o + 1] = Record(p, begun[p])

\* The pager knows the size of the database file without asking for it
\* (pager.c:2613 wonders; 2092, 4378, 6411 rely on it).
DbFileSizeExact == eState # "READER" => dbFileSize = Len(file)

\* copy_from reports an intrusion only if somebody else wrote the block
\* (sgxvfs.c:128-131).  No other transaction of the model writes the file.
NoFalseIntrusion == rc # "INTRUSION"

--------------------------------------------------------------------------------
(* The promise of module PageTransactions, kept with a cache and three files. *)

\* What the client would read of page p.
Shows(p) ==
    IF p \in DOMAIN cache THEN cache[p].data
    ELSE IF p \in DOMAIN file THEN file[p] ELSE junk

\* An image, without page 1 and the pages that it lists as free.
InUse(image) == [p \in Live(image) \ {1} |-> image[p]]

\* The pages in use, as the client would read them, and at each savepoint.
Database == [p \in 2 .. dbSize \ Shows(1) |-> Shows(p)]
Stack == [i \in DOMAIN saved |-> InUse(saved[i])]

Promise == INSTANCE PageTransactions WITH
    Pages <- UNION {2 .. b.pages : b \in Bounds},
    Contents <- Data \cup {junk},
    pages <- Database,
    inTrans <- eState # "READER",
    failed <- rc # "OK",
    committed <- InUse(begun),
    stack <- Stack

\* Page cache, file, journal and sub-journal together are transactions with
\* nested savepoints: whatever is spilled, evicted, freed, reused, or fails on the
\* way, what the client reads changes only as it asks, and a rollback brings back
\* just what was there (pager.c:5726-6810).
ImplementsPageTransactions == Promise!PagesSpec

================================================================================
