-------------------------- MODULE PagerJournalProofs --------------------------
EXTENDS PagerJournal, WellFoundedInduction, TLAPS

--------------------------------------------------------------------------------
\* The contents of a page: data, what a hole or memory holds, or a free list.
Contents == Data \cup {junk, hole} \cup SUBSET Nat

\* A header and a record differ in shape.
HeaderBlocks == [nRec : Nat, magic : BOOLEAN]
RecordBlocks == [pgno : Nat, data : Contents]
Blocks == HeaderBlocks \cup RecordBlocks

\* The offsets of the headers and of the records of a journal.
HeadersOf(j) == {o \in 0 .. Len(j) - 1 : j[o + 1] \in HeaderBlocks}
RecordsOf(j) == {o \in 0 .. Len(j) - 1 : j[o + 1] \notin HeaderBlocks}
Records == RecordsOf(jfile)

\* A cached page.
Frames(p) == [data : PageData(p), dirty : BOOLEAN, needSync : BOOLEAN, dontWrite : BOOLEAN]
\* A savepoint of the pager.
Savepoints == [nOrig : Nat, inSavepoint : SUBSET Nat, iHdrOffset : Nat, iOffset : Nat,
               iSubRec : Nat]

\* An image of the database: what the free pages hold is of no interest.
IsImage(v) ==
    /\ v \in Seq(Contents)
    /\ Len(v) \in 1 .. bound.pages
    /\ v[1] \subseteq 2 .. Len(v)
    /\ \A p \in 2 .. Len(v) : v[p] \in Data \cup {junk}

\* The state and the error code are among those the pager has.
States == /\ bound \in Bounds
          /\ eState \in {"READER", "LOCKED", "CACHEMOD", "DBMOD", "FINISHED"}
          /\ rc \in {"OK", "NOMEM", "IOERR", "INTRUSION"}

\* The database file, and its size.
FileOK == /\ file \in Seq(Contents)
          /\ Len(file) \in 1 .. bound.pages
          /\ \A i \in DOMAIN file : file[i] \in PageData(i) \cup {hole}
          /\ dbFileSize = Len(file)

\* The cache holds page 1, and a page to be synced is dirty.
CacheOK == /\ cache = [p \in DOMAIN cache |-> cache[p]]
           /\ DOMAIN cache \subseteq 1 .. bound.pages /\ 1 \in DOMAIN cache
           /\ \A p \in DOMAIN cache : cache[p] \in Frames(p) /\ (cache[p].needSync => cache[p].dirty)
           /\ eState \in {"READER", "LOCKED", "FINISHED"} => \A p \in DOMAIN cache : ~cache[p].dirty

\* The journals, the savepoints and the bitvec of freed pages have their types.
JournalOK == /\ jOpen \in BOOLEAN
             /\ jfile \in Seq(Blocks)
             /\ journalOff \in Nat /\ journalHdr \in Nat /\ nRec \in Nat
             /\ inJournal \subseteq Nat
             /\ sub \in Seq(RecordBlocks)
             /\ savepoints \in Seq(Savepoints)
             /\ hasContent \in [size : Nat, pages : SUBSET Nat]
             /\ hasContent = NoBitvec \/ hasContent.pages # {}

\* The images have their types, and each savepoint has one.
ImagesOK == /\ IsImage(view) /\ IsImage(begun)
            /\ saved \in Seq(Seq(Contents))
            /\ \A i \in DOMAIN saved : IsImage(saved[i])
            /\ Len(saved) = Len(savepoints)

\* The sizes the pager remembers are those of the images, and in order.
Sizes == /\ dbSize = Len(view)
         /\ dbOrigSize \in 1 .. bound.pages
         /\ Len(begun) <= Len(file)
         /\ eState \in {"READER", "LOCKED", "CACHEMOD"} => Len(file) = Len(begun)
         /\ eState = "FINISHED" => dbSize <= Len(file)
         /\ eState # "READER" => dbOrigSize = Len(begun) /\ Len(begun) <= dbSize
         /\ \A i \in DOMAIN savepoints :
               /\ savepoints[i].nOrig = Len(saved[i])
               /\ Len(begun) <= Len(saved[i]) /\ Len(saved[i]) <= dbSize
               /\ \A j \in 1 .. i : Len(saved[j]) <= Len(saved[i])

\* No page has been written.
Unwritten ==
    /\ eState \in {"READER", "LOCKED"} =>
          /\ jfile = << >> /\ inJournal = {} /\ sub = << >> /\ journalHdr = 0
          /\ Len(view) = Len(begun)
          /\ rc = "OK" => view = begun
          /\ \A i \in DOMAIN saved : saved[i] = begun
    /\ eState = "READER" => ~jOpen /\ rc = "OK" /\ savepoints = << >>
    /\ eState = "LOCKED" => journalOff = IF jOpen THEN 1 ELSE 0

\* A journal with its last header at hdr: every header before that one counts
\* the records up to the next.
Chained(j, hdr) ==
    /\ 0 \in HeadersOf(j) /\ hdr \in HeadersOf(j) \cup {Len(j)}
    /\ \A h \in HeadersOf(j) :
          /\ h <= hdr
          /\ h < hdr => /\ j[h + 1].magic
                       /\ h + j[h + 1].nRec + 1 \in HeadersOf(j) \cup {hdr}
                       /\ \A o \in h + 1 .. h + j[h + 1].nRec : o \notin HeadersOf(j)

\* The last header is still being filled, with n records so far.
Filling(j, hdr, n) ==
    /\ hdr < Len(j)
    /\ j[hdr + 1] \in HeaderBlocks /\ j[hdr + 1].nRec = 0
    /\ Len(j) = hdr + 1 + n

\* The main journal: counted headers and one that is being filled, or one that could
\* not be written.
Layout ==
    eState \in {"CACHEMOD", "DBMOD", "FINISHED"} =>
        /\ jOpen
        /\ Chained(jfile, journalHdr)
        /\ \/ /\ Filling(jfile, journalHdr, nRec)
              /\ journalOff = Len(jfile) /\ eState # "FINISHED"
           \/ /\ journalHdr = Len(jfile)
              /\ IF eState = "FINISHED" THEN journalOff = Len(jfile)
                 ELSE journalOff = Len(jfile) + 1 /\ rc \in {"NOMEM", "IOERR"}

\* What a savepoint knows of the journal: where it was then, and the first header
\* since, if there is one.
MarkIn(s, j, hdr) ==
    /\ s.iOffset \in 1 .. Len(j)
    /\ s.iHdrOffset = 0 => hdr < s.iOffset
    /\ s.iHdrOffset # 0 =>
          /\ s.iHdrOffset >= s.iOffset
          /\ s.iHdrOffset \in HeadersOf(j) \cup {hdr}
          /\ \A o \in s.iOffset .. s.iHdrOffset - 1 : o \notin HeadersOf(j)

Marks ==
    \A i \in DOMAIN savepoints :
        /\ eState = "LOCKED" => savepoints[i].iOffset = 1 /\ savepoints[i].iHdrOffset = 0
        /\ eState \in {"CACHEMOD", "DBMOD"} => MarkIn(savepoints[i], jfile, journalHdr)

\* Savepoints nest.
Nested ==
    \A i \in DOMAIN savepoints :
        /\ savepoints[i].iSubRec <= Len(sub)
        /\ \A j \in 1 .. i : /\ savepoints[j].iOffset <= savepoints[i].iOffset
                             /\ savepoints[j].iSubRec <= savepoints[i].iSubRec

\* A page is in the main journal at most once, and dirty until its record is counted.
MainRecords ==
    /\ \A o \in Records :
          LET r == jfile[o + 1] IN
          /\ r \in RecordBlocks
          /\ r.pgno \in inJournal /\ r.pgno \in 1 .. Len(begun) /\ r.data \in PageData(r.pgno)
          /\ o >= journalHdr => r.pgno \in DOMAIN cache /\ cache[r.pgno].needSync
          /\ eState = "CACHEMOD" => r.pgno \in DOMAIN cache /\ cache[r.pgno].dirty
    /\ \A o, q \in Records : jfile[o + 1].pgno = jfile[q + 1].pgno => o = q

\* A page is in the sub-journal once it needs no record in the main one.
SubRecords ==
    \A k \in DOMAIN sub :
        LET r == sub[k] IN
        /\ r.pgno \in inJournal \/ r.pgno > Len(begun)
        /\ r.pgno \in 1 .. bound.pages /\ r.data \in PageData(r.pgno)
        /\ eState = "CACHEMOD" => r.pgno \in DOMAIN cache /\ cache[r.pgno].dirty

\* Page p reads as d.
Reads(p, d) ==
    IF p \in DOMAIN cache
    THEN /\ cache[p].data = d
         /\ ~cache[p].dirty => p \in DOMAIN file /\ file[p] = d
         /\ cache[p].dirty => ~cache[p].dontWrite
    ELSE p \in DOMAIN file /\ file[p] = d

\* The client reads what it has written.
ViewReads == rc = "OK" => \A p \in Live(view) : Reads(p, view[p])

\* What the database began with is in the file, or in the main journal before the
\* file is overwritten.
BegunKept ==
    \A p \in Live(begun) :
        /\ eState \in {"READER", "LOCKED", "CACHEMOD"} => file[p] = begun[p]
        /\ p \notin inJournal => file[p] = begun[p] /\ (p \in DOMAIN cache => cache[p].data = begun[p])
        /\ p \in inJournal =>
              \E o \in Records : /\ jfile[o + 1] = Record(p, begun[p])
                                 /\ file[p] = begun[p] \/ o < journalHdr

\* The records of page p since savepoint s.
MainSince(s, p) == {o \in Records : o >= s.iOffset /\ jfile[o + 1].pgno = p}
SubSince(s, p) == {k \in DOMAIN sub : k > s.iSubRec /\ sub[k].pgno = p}

\* The first of them holds d.
Copied(s, p, d) ==
    \/ \E o \in MainSince(s, p) : jfile[o + 1].data = d
    \/ /\ MainSince(s, p) = {}
       /\ \E k \in SubSince(s, p) : sub[k].data = d /\ \A j \in SubSince(s, p) : k <= j

\* What the database was at a savepoint reads unchanged, or is in a journal.
SavedKept ==
    \A i \in DOMAIN saved : \A p \in Live(saved[i]) :
        LET s == savepoints[i] IN
        /\ p \notin s.inSavepoint =>
              Reads(p, saved[i][p]) /\ MainSince(s, p) = {} /\ SubSince(s, p) = {}
        /\ p \in s.inSavepoint => Copied(s, p, saved[i][p])
        /\ p \in DOMAIN cache /\ cache[p].dirty => ~cache[p].dontWrite

\* A page that was live and has been freed is known to have content.
Kept(early, late) == \A p \in late[1] \cap Live(early) : HasContent(p)
FreedKept ==
    /\ Kept(begun, view)
    /\ \A i \in DOMAIN saved :
          /\ Kept(begun, saved[i]) /\ Kept(saved[i], view)
          /\ \A j \in 1 .. i - 1 : Kept(saved[j], saved[i])

JInv == /\ States /\ FileOK /\ CacheOK /\ JournalOK /\ ImagesOK /\ Sizes
        /\ Unwritten /\ Layout /\ Marks /\ Nested /\ MainRecords /\ SubRecords
        /\ ViewReads /\ BegunKept /\ SavedKept /\ FreedKept

--------------------------------------------------------------------------------
(* Sequences of blocks *)

LEMMA RecordIsNoHeader ==
    ASSUME NEW p, NEW d PROVE Record(p, d) \notin HeaderBlocks
  BY DEF Record, HeaderBlocks

LEMMA HeaderIsHeader ==
    ASSUME NEW n \in Nat, NEW m \in BOOLEAN
    PROVE  /\ Header(n, m) \in HeaderBlocks
           /\ Header(n, m).nRec = n /\ Header(n, m).magic = m
  BY DEF Header, HeaderBlocks

\* Every block is a header or a record.
LEMMA Partition ==
    ASSUME NEW j \in Seq(Blocks)
    PROVE  /\ HeadersOf(j) \cup RecordsOf(j) = 0 .. Len(j) - 1
           /\ HeadersOf(j) \cap RecordsOf(j) = {}
           /\ \A o \in RecordsOf(j) : j[o + 1] \in RecordBlocks
           /\ \A h \in HeadersOf(j) : j[h + 1] \in HeaderBlocks
  BY DEF HeadersOf, RecordsOf, Blocks

\* A new journal: one header.
LEMMA NewJournal ==
    ASSUME NEW b \in HeaderBlocks, b.nRec = 0
    PROVE  /\ <<b>> \in Seq(Blocks) /\ Len(<<b>>) = 1
           /\ HeadersOf(<<b>>) = {0} /\ RecordsOf(<<b>>) = {} /\ RecordsOf(<< >>) = {}
           /\ Chained(<<b>>, 0) /\ Filling(<<b>>, 0, 0)
  <1> DEFINE j == <<b>>
  <1>1. j \in Seq(Blocks) /\ Len(j) = 1 /\ j[1] = b
    BY DEF Blocks
  <1>2. RecordsOf(<< >>) = {}
    BY DEF RecordsOf
  <1> HIDE DEF j
  <1>3. HeadersOf(j) = {0}
    BY <1>1 DEF HeadersOf
  <1>4. RecordsOf(j) = {}
    BY <1>1 DEF RecordsOf
  <1>5. Chained(j, 0)
    BY <1>1, <1>3 DEF Chained
  <1>6. Filling(j, 0, 0)
    BY <1>1 DEF Filling
  <1> QED BY <1>1, <1>2, <1>3, <1>4, <1>5, <1>6 DEF j

\* A record is added to a journal.
LEMMA RecordAdded ==
    ASSUME NEW j \in Seq(Blocks), NEW hdr \in Nat, NEW b \in Blocks, b \notin HeaderBlocks
    PROVE  LET k == Append(j, b) IN
           /\ k \in Seq(Blocks) /\ Len(k) = Len(j) + 1 /\ k[Len(j) + 1] = b
           /\ \A o \in 0 .. Len(j) - 1 : k[o + 1] = j[o + 1]
           /\ HeadersOf(k) = HeadersOf(j)
           /\ RecordsOf(k) = RecordsOf(j) \cup {Len(j)} /\ Len(j) \notin RecordsOf(j)
           /\ Chained(j, hdr) /\ hdr < Len(j) => Chained(k, hdr)
           /\ \A n \in Nat : Filling(j, hdr, n) => Filling(k, hdr, n + 1)
           /\ \A s \in Savepoints : MarkIn(s, j, hdr) => MarkIn(s, k, hdr)
  <1> DEFINE k == Append(j, b)
  <1>1. k \in Seq(Blocks) /\ Len(k) = Len(j) + 1 /\ k[Len(j) + 1] = b /\ Len(j) \in Nat
    OBVIOUS
  <1>2. \A o \in 0 .. Len(j) - 1 : k[o + 1] = j[o + 1]
    OBVIOUS
  <1> HIDE DEF k
  <1>3. HeadersOf(k) = HeadersOf(j)
    <2>1. ASSUME NEW o \in 0 .. Len(j) PROVE k[o + 1] \in HeaderBlocks <=> o < Len(j) /\ j[o + 1] \in HeaderBlocks
      BY <1>1, <1>2, o \in 0 .. Len(j) - 1 \/ o = Len(j)
    <2> QED BY <1>1, <2>1 DEF HeadersOf
  <1>4. RecordsOf(k) = RecordsOf(j) \cup {Len(j)} /\ Len(j) \notin RecordsOf(j)
    BY <1>1, <1>2 DEF RecordsOf
  <1>5. HeadersOf(j) \subseteq 0 .. Len(j) - 1
    BY DEF HeadersOf
  <1>6. ASSUME Chained(j, hdr), hdr < Len(j) PROVE Chained(k, hdr)
    <2>1. hdr \in HeadersOf(j) /\ \A h \in HeadersOf(j) : k[h + 1] = j[h + 1]
      BY <1>1, <1>2, <1>5, <1>6 DEF Chained
    <2> QED BY <1>3, <1>6, <2>1 DEF Chained
  <1>7. ASSUME NEW n \in Nat, Filling(j, hdr, n) PROVE Filling(k, hdr, n + 1)
    <2>1. hdr \in 0 .. Len(j) - 1 /\ j[hdr + 1] \in HeaderBlocks /\ j[hdr + 1].nRec = 0
          /\ Len(j) = hdr + 1 + n
      BY <1>7 DEF Filling
    <2>2. k[hdr + 1] = j[hdr + 1]
      BY <1>2, <2>1
    <2> QED BY <1>1, <2>1, <2>2 DEF Filling
  <1>8. ASSUME NEW s \in Savepoints, MarkIn(s, j, hdr) PROVE MarkIn(s, k, hdr)
    BY <1>1, <1>3, <1>8 DEF MarkIn, Savepoints
  <1> QED BY <1>1, <1>2, <1>3, <1>4, <1>6, <1>7, <1>8 DEF k

\* The last header gets its count, and another one is due after it.
LEMMA HeaderCloses ==
    ASSUME NEW j \in Seq(Blocks), NEW hdr \in Nat, NEW n \in Nat,
           Chained(j, hdr), Filling(j, hdr, n),
           NEW b \in HeaderBlocks, b.nRec = n, b.magic
    PROVE  LET k == [j EXCEPT ![hdr + 1] = b] IN
           /\ k \in Seq(Blocks) /\ Len(k) = Len(j)
           /\ HeadersOf(k) = HeadersOf(j) /\ RecordsOf(k) = RecordsOf(j)
           /\ \A o \in RecordsOf(j) : k[o + 1] = j[o + 1]
           /\ Chained(k, Len(j))
  <1> DEFINE k == [j EXCEPT ![hdr + 1] = b]
  <1>1. b \in HeaderBlocks /\ b \in Blocks
    BY DEF Blocks
  <1>2. hdr + 1 \in 1 .. Len(j) /\ Len(j) = hdr + 1 + n /\ j[hdr + 1] \in HeaderBlocks /\ Len(j) \in Nat
    BY DEF Filling
  <1>3. k \in Seq(Blocks) /\ Len(k) = Len(j) /\ k[hdr + 1] = b
    BY <1>1, <1>2
  <1>4. \A o \in 0 .. Len(j) - 1 : o # hdr => k[o + 1] = j[o + 1]
    BY <1>1, <1>2
  <1> HIDE DEF k
  <1>5. hdr \in HeadersOf(j) /\ HeadersOf(j) \subseteq 0 .. Len(j) - 1
    BY <1>2 DEF HeadersOf
  <1>6. HeadersOf(k) = HeadersOf(j)
    BY <1>1, <1>3, <1>4, <1>5 DEF HeadersOf
  <1>7. RecordsOf(k) = RecordsOf(j)
    BY <1>3, <1>6 DEF HeadersOf, RecordsOf
  <1>8. \A o \in RecordsOf(j) : k[o + 1] = j[o + 1]
    BY <1>4, <1>5 DEF HeadersOf, RecordsOf
  <1>9. Chained(k, Len(j))
    <2>1. 0 \in HeadersOf(k) /\ \A h \in HeadersOf(k) : h \in Nat /\ h < Len(j) /\ h <= hdr
      BY <1>5, <1>6 DEF Chained
    <2>2. ASSUME NEW h \in HeadersOf(k)
          PROVE  /\ k[h + 1].magic
                 /\ h + k[h + 1].nRec + 1 \in HeadersOf(k) \cup {Len(j)}
                 /\ \A o \in h + 1 .. h + k[h + 1].nRec : o \notin HeadersOf(k)
      <3>1. CASE h = hdr
        <4>1. k[h + 1].nRec = n /\ k[h + 1].magic
          BY <1>1, <1>3, <3>1
        <4> QED BY <1>2, <2>1, <3>1, <4>1
      <3>2. CASE h # hdr
        <4>1. h < hdr /\ k[h + 1] = j[h + 1]
          BY <1>4, <2>1, <3>2
        <4> QED BY <1>5, <1>6, <4>1 DEF Chained
      <3> QED BY <3>1, <3>2
    <2> QED BY <1>2, <1>3, <2>1, <2>2 DEF Chained
  <1> QED BY <1>3, <1>6, <1>7, <1>8, <1>9 DEF k

\* The next header is written.
LEMMA HeaderAdded ==
    ASSUME NEW j \in Seq(Blocks), Chained(j, Len(j)), NEW b \in HeaderBlocks, b.nRec = 0
    PROVE  LET k == Append(j, b) IN
           /\ k \in Seq(Blocks) /\ Len(k) = Len(j) + 1
           /\ RecordsOf(k) = RecordsOf(j)
           /\ \A o \in RecordsOf(j) : k[o + 1] = j[o + 1]
           /\ HeadersOf(k) = HeadersOf(j) \cup {Len(j)}
           /\ Chained(k, Len(j)) /\ Filling(k, Len(j), 0)
  <1> DEFINE k == Append(j, b)
  <1>1. b \in HeaderBlocks /\ b \in Blocks
    BY DEF Blocks
  <1>2. k \in Seq(Blocks) /\ Len(k) = Len(j) + 1 /\ k[Len(j) + 1] = b /\ Len(j) \in Nat
    BY <1>1
  <1>3. \A o \in 0 .. Len(j) - 1 : k[o + 1] = j[o + 1]
    BY <1>1
  <1> HIDE DEF k
  <1>4. HeadersOf(k) = HeadersOf(j) \cup {Len(j)}
    <2>1. ASSUME NEW o \in 0 .. Len(j) PROVE k[o + 1] \in HeaderBlocks <=> o = Len(j) \/ j[o + 1] \in HeaderBlocks
      BY <1>1, <1>2, <1>3, o \in 0 .. Len(j) - 1 \/ o = Len(j)
    <2> QED BY <1>2, <2>1 DEF HeadersOf
  <1>5. RecordsOf(k) = RecordsOf(j)
    <2>1. ASSUME NEW o \in 0 .. Len(j) PROVE k[o + 1] \notin HeaderBlocks <=> o < Len(j) /\ j[o + 1] \notin HeaderBlocks
      BY <1>1, <1>2, <1>3, o \in 0 .. Len(j) - 1 \/ o = Len(j)
    <2> QED BY <1>2, <2>1 DEF RecordsOf
  <1>6. \A o \in RecordsOf(j) : k[o + 1] = j[o + 1]
    BY <1>3 DEF RecordsOf
  <1>7. Chained(k, Len(j))
    <2>1. \A h \in HeadersOf(j) : h \in Nat /\ h < Len(j) /\ k[h + 1] = j[h + 1]
      BY <1>3 DEF HeadersOf
    <2>2. ASSUME NEW h \in HeadersOf(j)
          PROVE  /\ k[h + 1].magic
                 /\ h + k[h + 1].nRec + 1 \in HeadersOf(k)
                 /\ \A o \in h + 1 .. h + k[h + 1].nRec : o \notin HeadersOf(k)
      <3>1. /\ j[h + 1].magic
            /\ h + j[h + 1].nRec + 1 \in HeadersOf(j) \cup {Len(j)}
            /\ \A o \in h + 1 .. h + j[h + 1].nRec : o \notin HeadersOf(j)
            /\ j[h + 1].nRec \in Nat
        BY <2>1 DEF Chained, HeadersOf, HeaderBlocks
      <3>2. h + j[h + 1].nRec + 1 <= Len(j)
        BY <2>1, <3>1
      <3> QED BY <1>4, <2>1, <3>1, <3>2
    <2> QED BY <1>2, <1>4, <2>1, <2>2 DEF Chained
  <1>8. Filling(k, Len(j), 0)
    BY <1>2 DEF Filling
  <1> QED BY <1>2, <1>4, <1>5, <1>6, <1>7, <1>8 DEF k

\* A savepoint opened now, and one that has seen no header before this one.
LEMMA NewMark ==
    ASSUME NEW j \in Seq(Blocks), NEW hdr \in Nat, hdr < Len(j),
           NEW s \in Savepoints, s.iOffset = Len(j), s.iHdrOffset = 0
    PROVE  MarkIn(s, j, hdr)
  BY DEF MarkIn, Savepoints

--------------------------------------------------------------------------------
(* What a playback reads *)

LEMMA SmallestOf ==
    ASSUME NEW T, T \subseteq Nat, T # {}
    PROVE  \E x \in T : \A y \in T : x <= y
  <1>1. PICK x \in T : \A y \in T : <<y, x>> \notin OpToRel(<, Nat)
    BY NatLessThanWellFounded, WFMin, Zenon
  <1>2. \A y \in T : y \in Nat
    OBVIOUS
  <1>3. \A y \in T : ~(y < x)
    BY <1>1, <1>2, Zenon DEF OpToRel
  <1> QED BY <1>2, <1>3

\* A playback of n headers, as a function of how many have been read.
Plays(n, szJ, init, f) ==
    f = [k \in 0 .. n |-> IF k = 0 THEN init ELSE Playback(f[k - 1], szJ)]

LEMMA PlaysExist ==
    ASSUME NEW szJ, NEW init
    PROVE  \A n \in Nat : \E f : Plays(n, szJ, init, f)
  <1> DEFINE T == {n \in Nat : ~\E f : Plays(n, szJ, init, f)}
  <1>1. SUFFICES ASSUME T # {} PROVE FALSE
    BY Zenon
  <1>2. PICK x \in T : \A y \in T : x <= y
    BY <1>1, SmallestOf
  <1>3. x \in Nat /\ ~\E f : Plays(x, szJ, init, f)
    BY <1>2
  <1>4. CASE x = 0
    <2> DEFINE f == [k \in 0 .. 0 |-> init]
    <2>1. f = [k \in 0 .. 0 |-> IF k = 0 THEN init ELSE Playback(f[k - 1], szJ)]
      OBVIOUS
    <2>2. Plays(x, szJ, init, f)
      BY <1>4, <2>1 DEF Plays
    <2> QED BY <1>3, <2>2
  <1>5. CASE x # 0
    <2>1. x - 1 \in Nat /\ x - 1 \notin T
      BY <1>2, <1>3, <1>5
    <2>2. PICK f : Plays(x - 1, szJ, init, f)
      BY <2>1
    <2> DEFINE g == [k \in 0 .. x |-> IF k = x THEN Playback(f[x - 1], szJ) ELSE f[k]]
    <2>3. ASSUME NEW k \in 0 .. x
          PROVE  g[k] = IF k = 0 THEN init ELSE Playback(g[k - 1], szJ)
      <3>1. k \in Nat /\ (k # 0 => k - 1 \in 0 .. x /\ g[k - 1] = f[k - 1])
        BY <1>3, <1>5
      <3>2. CASE k = x
        BY <1>5, <3>1, <3>2
      <3>3. CASE k # x
        <4>1. k \in 0 .. x - 1 /\ g[k] = f[k]
          BY <1>3, <3>3
        <4>2. f[k] = IF k = 0 THEN init ELSE Playback(f[k - 1], szJ)
          BY <2>2, <4>1 DEF Plays
        <4> QED BY <3>1, <4>1, <4>2
      <3> QED BY <3>2, <3>3
    <2>4. g = [k \in 0 .. x |-> g[k]]
      OBVIOUS
    <2> HIDE DEF g
    <2>5. Plays(x, szJ, init, g)
      BY <2>3, <2>4 DEF Plays
    <2> QED BY <1>3, <2>5
  <1> QED BY <1>4, <1>5

\* How the records of a well-formed journal of size szJ are played back.
Playable(szJ) ==
    /\ jfile \in Seq(Blocks) /\ journalHdr \in Nat /\ szJ \in Nat
    /\ Chained(jfile, journalHdr)
    /\ \/ szJ = Len(jfile) /\ Filling(jfile, journalHdr, szJ - journalHdr - 1)
       \/ journalHdr = Len(jfile) /\ Len(jfile) <= szJ

\* Where a playback may look for a header.
Starts(szJ) == HeadersOf(jfile) \cup {Len(jfile), szJ}

\* One header is played back.
LEMMA PlaybackStep ==
    ASSUME NEW szJ, Playable(szJ), NEW from \in Nat, NEW s,
           s.off \in Starts(szJ), from <= s.off,
           s.records = {o \in Records : from < o /\ o < s.off}
    PROVE  LET t == Playback(s, szJ) IN
           /\ t.off \in Starts(szJ) /\ from <= t.off
           /\ t.records = {o \in Records : from < o /\ o < t.off}
           /\ s.off \notin HeadersOf(jfile) => t = s
           /\ s.off \in HeadersOf(jfile) => s.off < t.off
  <1> DEFINE h == s.off
             n == RecordsAfter(h, szJ)
             t == Playback(s, szJ)
  <1>1. jfile \in Seq(Blocks) /\ journalHdr \in Nat /\ szJ \in Nat /\ Len(jfile) \in Nat
        /\ Len(jfile) <= szJ /\ h \in Nat
    BY DEF Playable, Starts, HeadersOf
  <1>2. CASE h \notin HeadersOf(jfile)
    <2>1. ~HeaderAt(h, szJ)
      BY <1>1, <1>2 DEF HeaderAt, Starts
    <2> QED BY <1>2, <2>1 DEF Playback
  <1>3. CASE h \in HeadersOf(jfile)
    <2>1. h < Len(jfile) /\ jfile[h + 1].nRec \in Nat
      BY <1>3 DEF HeadersOf, HeaderBlocks
    <2>2. /\ HeaderAt(h, szJ)
          /\ n \in Nat /\ h + n + 1 \in HeadersOf(jfile) \cup {Len(jfile)}
          /\ \A o \in h + 1 .. h + n : o \notin HeadersOf(jfile)
      <3>1. CASE h = journalHdr
        <4>1. szJ = Len(jfile) /\ Filling(jfile, journalHdr, szJ - journalHdr - 1)
          BY <2>1, <3>1 DEF Playable
        <4>2. n = szJ - h - 1
          BY <3>1, <4>1 DEF RecordsAfter, Filling
        <4>3. \A o \in HeadersOf(jfile) : o <= h
          BY <3>1 DEF Playable, Chained
        <4> QED BY <1>1, <2>1, <3>1, <4>1, <4>2, <4>3 DEF HeaderAt
      <3>2. CASE h # journalHdr
        <4>1. n = jfile[h + 1].nRec
          BY <3>2 DEF RecordsAfter
        <4>2. h < journalHdr
          BY <1>1, <1>3, <3>2 DEF Playable, Chained
        <4>3. /\ jfile[h + 1].magic
              /\ h + n + 1 \in HeadersOf(jfile) \cup {journalHdr}
              /\ journalHdr \in HeadersOf(jfile) \cup {Len(jfile)}
              /\ \A o \in h + 1 .. h + n : o \notin HeadersOf(jfile)
          BY <1>3, <4>1, <4>2 DEF Playable, Chained
        <4> QED BY <1>1, <2>1, <4>1, <4>3 DEF HeaderAt
      <3> QED BY <3>1, <3>2
    <2> HIDE DEF n
    <2>3. t.off = h + n + 1 /\ t.records = s.records \cup (h + 1 .. h + n)
      BY <2>2 DEF Playback, n
    <2>4. h + n + 1 <= Len(jfile)
      BY <1>1, <2>2 DEF HeadersOf
    <2>5. ASSUME NEW o \in h + 1 .. h + n PROVE o \in Records
      BY <1>1, <2>2, <2>4, SMTT(30) DEF Records, RecordsOf, HeadersOf
    <2>6. h \notin Records /\ \A o \in Records : o \in Nat
      BY <1>3 DEF Records, RecordsOf, HeadersOf
    <2>7. t.records = {o \in Records : from < o /\ o < h + n + 1}
      <3>1. ASSUME NEW o \in t.records PROVE o \in Records /\ from < o /\ o < h + n + 1
        <4>1. CASE o \in s.records
          BY <1>1, <2>2, <2>6, <4>1
        <4>2. CASE o \in h + 1 .. h + n
          BY <1>1, <2>2, <2>5, <4>2
        <4> QED BY <2>3, <4>1, <4>2
      <3>2. ASSUME NEW o \in Records, from < o, o < h + n + 1 PROVE o \in t.records
        <4>1. o < h \/ o \in h + 1 .. h + n
          BY <1>1, <2>2, <2>6, <3>2
        <4> QED BY <2>3, <3>2, <4>1
      <3> QED BY <3>1, <3>2
    <2> QED BY <1>1, <1>3, <2>2, <2>3, <2>7 DEF Starts
  <1> QED BY <1>2, <1>3

\* A playback that starts at a header, or at the end, reads every record after it.
LEMMA PlaybackReadsAll ==
    ASSUME NEW szJ, Playable(szJ), NEW from \in Starts(szJ)
    PROVE  Replayed(from, szJ) = {o \in Records : from < o}
  <1> DEFINE init == [off |-> from, records |-> {}]
             played == CHOOSE f : Plays(szJ, szJ, init, f)
  <1>1. szJ \in Nat /\ Len(jfile) \in Nat /\ Len(jfile) <= szJ /\ from \in Nat
    BY DEF Playable, Starts, HeadersOf, Filling
  <1>2. Plays(szJ, szJ, init, played)
    BY <1>1, PlaysExist, Zenon
  <1>3. Replayed(from, szJ) = played[szJ].records
    BY DEF Replayed, Plays
  <1> HIDE DEF played
  <1> DEFINE Good(k) == /\ played[k].off \in Starts(szJ) /\ from <= played[k].off
                        /\ played[k].records = {o \in Records : from < o /\ o < played[k].off}
                        /\ played[k].off \in HeadersOf(jfile) => k <= played[k].off
  <1>4. Good(0)
    <2>1. played[0] = init
      BY <1>1, <1>2 DEF Plays
    <2>2. \A o \in Records : o \in Nat
      BY DEF Records, RecordsOf
    <2> QED BY <1>1, <2>1, <2>2
  <1>5. ASSUME NEW k \in 1 .. szJ, Good(k - 1) PROVE Good(k)
    <2>1. played[k] = Playback(played[k - 1], szJ)
      <3>1. k \in 0 .. szJ /\ k # 0
        BY <1>1
      <3> QED BY <1>2, <3>1 DEF Plays
    <2>2. /\ played[k].off \in Starts(szJ) /\ from <= played[k].off
          /\ played[k].records = {o \in Records : from < o /\ o < played[k].off}
          /\ played[k - 1].off \notin HeadersOf(jfile) => played[k].off = played[k - 1].off
          /\ played[k - 1].off \in HeadersOf(jfile) => played[k - 1].off < played[k].off
      BY <1>1, <1>5, <2>1, PlaybackStep
    <2>3. played[k - 1].off \in Nat /\ played[k].off \in Nat
      BY <1>1, <1>5, <2>2 DEF Starts, HeadersOf
    <2> QED BY <1>5, <2>2, <2>3
  <1>6. Good(szJ)
    <2> DEFINE T == {k \in 0 .. szJ : ~Good(k)}
    <2> HIDE DEF Good
    <2>1. SUFFICES ASSUME T # {} PROVE FALSE
      BY <1>1
    <2>2. T \subseteq Nat
      BY <1>1
    <2>3. PICK k \in T : \A y \in T : k <= y
      BY <2>1, <2>2, SmallestOf
    <2>4. k # 0 /\ k \in 0 .. szJ
      BY <1>4, <2>3
    <2>5. k \in 1 .. szJ /\ k - 1 \in 0 .. szJ /\ k - 1 \notin T
      BY <1>1, <2>3, <2>4
    <2> QED BY <1>5, <2>3, <2>5
  <1>7. played[szJ].off \notin HeadersOf(jfile) /\ Len(jfile) <= played[szJ].off
    BY <1>1, <1>6 DEF HeadersOf, Starts
  <1>8. \A o \in Records : o < Len(jfile) /\ o \in Nat
    BY DEF Records, RecordsOf
  <1> QED BY <1>1, <1>3, <1>6, <1>7, <1>8 DEF Starts, HeadersOf

\* There is nothing to read in an empty journal.
LEMMA PlaybackOfNothing ==
    ASSUME jfile = << >>, NEW szJ \in Nat, NEW from \in Nat
    PROVE  Replayed(from, szJ) = {}
  <1> DEFINE init == [off |-> from, records |-> {}]
             played == CHOOSE f : Plays(szJ, szJ, init, f)
             T == {k \in 0 .. szJ : played[k] # init}
  <1>1. Plays(szJ, szJ, init, played)
    BY PlaysExist, Zenon
  <1>2. Replayed(from, szJ) = played[szJ].records
    BY DEF Replayed, Plays
  <1> HIDE DEF played, init
  <1>3. ASSUME NEW k \in 0 .. szJ, k # 0 => played[k - 1] = init PROVE played[k] = init
    <2>1. played[k] = IF k = 0 THEN init ELSE Playback(played[k - 1], szJ)
      BY <1>1 DEF Plays
    <2>2. Playback(init, szJ) = init
      <3>1. ~HeaderAt(init.off, szJ)
        BY SMT DEF HeaderAt, init
      <3> QED BY <3>1 DEF Playback
    <2> QED BY <1>3, <2>1, <2>2
  <1>4. T = {}
    <2>1. SUFFICES ASSUME T # {} PROVE FALSE
      OBVIOUS
    <2>2. PICK k \in T : \A y \in T : k <= y
      <3>1. T \subseteq Nat
        OBVIOUS
      <3> QED BY <2>1, <3>1, SmallestOf
    <2>3. k # 0 => k - 1 \in 0 .. szJ /\ k - 1 \notin T
      BY <2>2
    <2> QED BY <1>3, <2>2, <2>3
  <1>5. played[szJ] = init
    BY <1>4
  <1> QED BY <1>2, <1>5 DEF init

--------------------------------------------------------------------------------
(* What does not change *)

LEMMA StatesSame == ASSUME States, UNCHANGED <<bound, eState, rc>> PROVE States'
  BY DEF States

LEMMA FileSame == ASSUME FileOK, UNCHANGED <<bound, file, dbFileSize>> PROVE FileOK'
  BY DEF FileOK, PageData

LEMMA CacheSame ==
    ASSUME CacheOK, UNCHANGED <<bound, cache>>,
           eState' = eState \/ eState' \notin {"READER", "LOCKED", "FINISHED"}
    PROVE  CacheOK'
  BY DEF CacheOK, Frames, PageData

LEMMA JournalSame ==
    ASSUME JournalOK,
           UNCHANGED <<jOpen, jfile, journalOff, journalHdr, nRec, inJournal, savepoints, sub,
                       hasContent>>
    PROVE  JournalOK'
  BY DEF JournalOK

LEMMA ImagesSame ==
    ASSUME ImagesOK, UNCHANGED <<bound, view, begun, saved>>, Len(savepoints') = Len(savepoints)
    PROVE  ImagesOK'
  BY DEF ImagesOK, IsImage

LEMMA UnwrittenSame ==
    ASSUME Unwritten,
           UNCHANGED <<eState, rc, jOpen, jfile, journalOff, journalHdr, inJournal, savepoints,
                       sub, view, begun, saved>>
    PROVE  Unwritten'
  BY DEF Unwritten

LEMMA LayoutSame ==
    ASSUME Layout, UNCHANGED <<eState, rc, jOpen, jfile, journalOff, journalHdr, nRec>>
    PROVE  Layout'
  BY DEF Layout

LEMMA MarksSame ==
    ASSUME Marks, UNCHANGED <<eState, savepoints, jfile, journalHdr>> PROVE Marks'
  BY DEF Marks

LEMMA NestedSame == ASSUME Nested, UNCHANGED <<savepoints, sub>> PROVE Nested'
  BY DEF Nested

LEMMA FreedSame ==
    ASSUME FreedKept, UNCHANGED <<view, begun, saved, hasContent>> PROVE FreedKept'
  BY DEF FreedKept, Kept, HasContent, Live

LEMMA RecordsSame == ASSUME UNCHANGED jfile PROVE Records' = Records
  BY DEF Records

--------------------------------------------------------------------------------
(* Reading *)

LEMMA PagesPositive ==
    ASSUME States, JournalAssumption PROVE bound.pages \in Nat \ {0}
  BY DEF States, JournalAssumption

\* The live pages of an image hold data.
LEMMA LiveData ==
    ASSUME States, JournalAssumption, NEW v, IsImage(v), NEW p \in Live(v)
    PROVE  /\ p \in 1 .. Len(v) /\ Len(v) <= bound.pages /\ p \in 1 .. bound.pages
           /\ v[p] \in PageData(p)
  <1>1. p \in 1 .. Len(v) /\ p \notin v[1] /\ Len(v) \in 1 .. bound.pages /\ bound.pages \in Nat
    BY PagesPositive DEF Live, IsImage
  <1>2. CASE p = 1
    BY <1>1, <1>2 DEF IsImage, PageData
  <1>3. CASE p # 1
    BY <1>1, <1>3 DEF IsImage, PageData
  <1> QED BY <1>1, <1>2, <1>3

LEMMA OneLive ==
    ASSUME NEW v, IsImage(v) PROVE 1 \in Live(v)
  BY DEF IsImage, Live

\* Only clean pages enter or leave the cache, and what enters it is what the file
\* holds.
LEMMA CleanPagesMove ==
    ASSUME JInv, JournalAssumption, CacheOK',
           UNCHANGED <<bound, eState, rc, file, dbFileSize, dbSize, dbOrigSize, jOpen, jfile,
                       journalOff, journalHdr, nRec, inJournal, savepoints, sub, hasContent,
                       view, begun, saved>>,
           \A q \in DOMAIN cache : cache[q].dirty => q \in DOMAIN cache',
           \A q \in DOMAIN cache \cap DOMAIN cache' : cache'[q] = cache[q],
           \A q \in DOMAIN cache' \ DOMAIN cache :
              q \in DOMAIN file /\ cache'[q].data = file[q] /\ ~cache'[q].dirty
    PROVE  JInv'
  <1>1. States' /\ FileOK' /\ JournalOK' /\ ImagesOK'
    BY StatesSame, FileSame, JournalSame, ImagesSame DEF JInv
  <1>2. Unwritten' /\ Layout' /\ Marks' /\ Nested' /\ FreedKept' /\ Records' = Records
    <2>1. Unwritten'
      BY UnwrittenSame DEF JInv
    <2>2. Layout'
      BY LayoutSame DEF JInv
    <2>3. Marks' /\ Nested'
      BY MarksSame, NestedSame DEF JInv
    <2>4. FreedKept' /\ Records' = Records
      BY FreedSame, RecordsSame DEF JInv
    <2> QED BY <2>1, <2>2, <2>3, <2>4
  <1>3. Sizes'
    BY DEF JInv, Sizes
  <1>4. ASSUME NEW q, NEW d, Reads(q, d) PROVE Reads(q, d)'
    BY <1>4 DEF Reads
  <1>5. MainRecords'
    <2>1. \A q \in DOMAIN cache : cache[q].dirty => q \in DOMAIN cache' /\ cache'[q] = cache[q]
      OBVIOUS
    <2>2. \A q \in DOMAIN cache : cache[q].needSync => cache[q].dirty
      BY DEF JInv, CacheOK
    <2> QED BY <1>2, <2>1, <2>2 DEF JInv, MainRecords, PageData
  <1>6. SubRecords'
    BY DEF JInv, SubRecords, PageData
  <1>7. ViewReads'
    BY <1>4 DEF JInv, ViewReads, Live
  <1>8. BegunKept'
    BY <1>2 DEF JInv, BegunKept, Live
  <1>9. SavedKept'
    <2>1. ASSUME NEW s, NEW p
          PROVE  /\ MainSince(s, p)' = MainSince(s, p) /\ SubSince(s, p)' = SubSince(s, p)
                 /\ \A d : Copied(s, p, d)' = Copied(s, p, d)
      BY <1>2 DEF MainSince, SubSince, Copied
    <2>2. ASSUME NEW i \in DOMAIN saved, NEW p \in Live(saved[i])
          PROVE  LET s == savepoints[i] IN
                 /\ p \notin s.inSavepoint =>
                       Reads(p, saved[i][p])' /\ MainSince(s, p)' = {} /\ SubSince(s, p)' = {}
                 /\ p \in s.inSavepoint => Copied(s, p, saved[i][p])'
                 /\ p \in DOMAIN cache' /\ cache'[p].dirty => ~cache'[p].dontWrite
      <3> DEFINE s == savepoints[i]
      <3>1. /\ p \notin s.inSavepoint =>
                 Reads(p, saved[i][p]) /\ MainSince(s, p) = {} /\ SubSince(s, p) = {}
            /\ p \in s.inSavepoint => Copied(s, p, saved[i][p])
            /\ p \in DOMAIN cache /\ cache[p].dirty => ~cache[p].dontWrite
        BY <2>2 DEF JInv, SavedKept
      <3> QED BY <1>4, <2>1, <3>1
    <2> QED BY <2>2 DEF SavedKept, Live
  <1> QED BY <1>1, <1>2, <1>3, <1>5, <1>6, <1>7, <1>8, <1>9 DEF JInv

LEMMA InitKeeps == ASSUME JournalAssumption, PagerJournalInit PROVE JInv
  <1> USE DEF PagerJournalInit
  <1>1. States /\ bound.pages \in Nat \ {0}
    BY DEF States, JournalAssumption
  <1>2. {} \in Contents
    BY DEF Contents
  <1>3. file \in Seq(Contents) /\ Len(file) = 1 /\ file[1] = {} /\ DOMAIN file = {1}
    BY <1>2
  <1>4. FileOK
    BY <1>1, <1>3 DEF FileOK, PageData
  <1>5. CacheOK
    <2> DEFINE page == Clean({})
    <2>1. page \in [data : SUBSET Nat, dirty : BOOLEAN, needSync : BOOLEAN, dontWrite : BOOLEAN]
          /\ page.data = {} /\ ~page.dirty /\ ~page.needSync
      BY DEF Clean
    <2> HIDE DEF page
    <2>2. cache = <<page>>
      BY DEF page
    <2>3. DOMAIN cache = {1} /\ cache[1] = page /\ cache = [p \in DOMAIN cache |-> cache[p]]
      BY <2>2
    <2>4. page \in Frames(1)
      BY <2>1 DEF Frames, PageData
    <2>5. DOMAIN cache \subseteq 1 .. bound.pages
      BY <1>1, <2>3
    <2> QED BY <2>1, <2>3, <2>4, <2>5 DEF CacheOK
  <1>6. JournalOK
    <2>1. hasContent \in [size : Nat, pages : SUBSET Nat]
      BY DEF NoBitvec
    <2>2. jfile \in Seq(Blocks) /\ sub \in Seq(RecordBlocks) /\ savepoints \in Seq(Savepoints)
      OBVIOUS
    <2> QED BY <2>1, <2>2 DEF JournalOK
  <1>7. IsImage(view) /\ IsImage(begun)
    BY <1>1, <1>3 DEF IsImage
  <1>8. ImagesOK /\ Sizes
    BY <1>1, <1>3, <1>7 DEF ImagesOK, Sizes
  <1>9. Unwritten /\ Layout /\ Marks /\ Nested
    BY DEF Unwritten, Layout, Marks, Nested
  <1>10. MainRecords /\ SubRecords
    BY DEF MainRecords, SubRecords, Records, RecordsOf
  <1>11. ViewReads /\ BegunKept
    <2>1. Live(view) = {1} /\ Live(begun) = {1} /\ view[1] = {} /\ begun[1] = {}
      BY <1>3 DEF Live
    <2>2. cache[1] = Clean({}) /\ DOMAIN cache = {1}
      OBVIOUS
    <2>3. cache[1].data = {} /\ ~cache[1].dirty
      BY <2>2 DEF Clean
    <2> QED BY <1>3, <2>1, <2>2, <2>3 DEF ViewReads, BegunKept, Reads
  <1>12. SavedKept /\ FreedKept
    BY <1>3 DEF SavedKept, FreedKept, Kept, Live
  <1> QED BY <1>1, <1>4, <1>5, <1>6, <1>8, <1>9, <1>10, <1>11, <1>12 DEF JInv

LEMMA GetPageKeeps ==
    ASSUME JInv, JournalAssumption, NEW p \in 1 .. bound.pages, GetPage(p)
    PROVE  JInv'
  <1> DEFINE page == Clean(IF p \in DOMAIN file THEN file[p] ELSE junk)
  <1>1. /\ rc = "OK" /\ p \in Live(view) /\ p \notin DOMAIN cache
        /\ cache' = Cached(cache, p, page)
        /\ UNCHANGED <<bound, eState, rc, file, dbFileSize, dbSize, dbOrigSize, jOpen, jfile,
                       journalOff, journalHdr, nRec, inJournal, savepoints, sub, hasContent,
                       view, begun, saved>>
    BY DEF GetPage, fileVars, journalVars, savepointVars, auxVars
  <1>2. p \in DOMAIN file /\ file[p] = view[p]
    BY <1>1 DEF JInv, ViewReads, Reads
  <1>3. /\ DOMAIN cache' = DOMAIN cache \cup {p} /\ cache'[p] = Clean(file[p])
        /\ \A q \in DOMAIN cache \ {p} : cache'[q] = cache[q]
        /\ cache' = [q \in DOMAIN cache' |-> cache'[q]]
    <2>1. page = Clean(file[p])
      BY <1>2
    <2> HIDE DEF page
    <2>2. /\ DOMAIN cache' = DOMAIN cache \cup {p} /\ cache'[p] = page
          /\ \A q \in DOMAIN cache \ {p} : cache'[q] = cache[q]
          /\ cache' = [q \in DOMAIN cache' |-> cache'[q]]
      BY <1>1 DEF Cached
    <2> QED BY <2>1, <2>2
  <1>4. cache'[p].data = file[p] /\ ~cache'[p].dirty /\ cache'[p] \in Frames(p)
        /\ ~cache'[p].needSync
    <2>1. file[p] \in PageData(p)
      BY <1>1, <1>2, LiveData DEF JInv, ImagesOK
    <2> QED BY <1>3, <2>1 DEF Clean, Frames
  <1>5. CacheOK'
    BY <1>1, <1>3, <1>4 DEF JInv, CacheOK, Frames, PageData
  <1>6. \A q \in DOMAIN cache' \ DOMAIN cache : q = p
    BY <1>3
  <1> QED BY <1>1, <1>2, <1>3, <1>4, <1>5, <1>6, CleanPagesMove

LEMMA DropPageKeeps ==
    ASSUME JInv, JournalAssumption, NEW p, DropPage(p) PROVE JInv'
  <1>1. /\ p \in DOMAIN cache /\ p # 1 /\ ~cache[p].dirty
        /\ cache' = [q \in DOMAIN cache \ {p} |-> cache[q]]
        /\ UNCHANGED <<bound, eState, rc, file, dbFileSize, dbSize, dbOrigSize, jOpen, jfile,
                       journalOff, journalHdr, nRec, inJournal, savepoints, sub, hasContent,
                       view, begun, saved>>
    BY DEF DropPage, fileVars, journalVars, savepointVars, auxVars
  <1>2. DOMAIN cache' = DOMAIN cache \ {p} /\ \A q \in DOMAIN cache' : cache'[q] = cache[q]
    BY <1>1
  <1>3. CacheOK'
    <2>1. cache' = [q \in DOMAIN cache' |-> cache'[q]]
      BY <1>1
    <2> QED BY <1>1, <1>2, <2>1 DEF JInv, CacheOK, Frames, PageData
  <1> QED BY <1>1, <1>2, <1>3, CleanPagesMove

LEMMA ReuseHoleKeeps ==
    ASSUME JInv, JournalAssumption, NEW p, ReuseHole(p) PROVE JInv'
  <1>1. /\ rc = "OK" /\ rc' = "INTRUSION" /\ eState \in {"CACHEMOD", "DBMOD"}
        /\ UNCHANGED <<bound, eState, file, dbFileSize, dbSize, dbOrigSize, jOpen, jfile, cache,
                       journalOff, journalHdr, nRec, inJournal, savepoints, sub, hasContent,
                       view, begun, saved>>
    BY DEF ReuseHole, Writeable, fileVars, journalVars, savepointVars, auxVars
  <1>2. States' /\ FileOK' /\ CacheOK' /\ JournalOK' /\ ImagesOK'
    <2>1. States'
      BY <1>1 DEF JInv, States
    <2> QED BY <1>1, <2>1, FileSame, CacheSame, JournalSame, ImagesSame DEF JInv
  <1>3. Sizes' /\ Unwritten'
    BY <1>1 DEF JInv, Sizes, Unwritten
  <1>4. Layout'
    BY <1>1 DEF JInv, Layout
  <1>5. Marks' /\ Nested' /\ FreedKept'
    BY <1>1, MarksSame, NestedSame, FreedSame DEF JInv
  <1>6. MainRecords' /\ SubRecords'
    BY <1>1 DEF JInv, MainRecords, SubRecords, Records, PageData
  <1>7. ViewReads'
    BY <1>1 DEF ViewReads
  <1>8. BegunKept'
    BY <1>1 DEF JInv, BegunKept, Records, Live
  <1>9. SavedKept'
    BY <1>1 DEF JInv, SavedKept, Records, Live, Reads, MainSince, SubSince, Copied
  <1> QED BY <1>2, <1>3, <1>4, <1>5, <1>6, <1>7, <1>8, <1>9 DEF JInv

LEMMA BeginKeeps ==
    ASSUME JInv, JournalAssumption, sqlite3PagerBegin PROVE JInv'
  <1>1. /\ eState = "READER" /\ rc = "OK" /\ eState' = "LOCKED" /\ dbOrigSize' = dbSize
        /\ dbFileSize' = dbSize /\ journalOff' = 0 /\ begun' = view
        /\ UNCHANGED <<bound, rc, file, dbSize, cache, jOpen, jfile, journalHdr, nRec,
                       inJournal, savepoints, sub, hasContent, view, saved>>
    BY DEF sqlite3PagerBegin, savepointVars
  <1>2. /\ jfile = << >> /\ inJournal = {} /\ sub = << >> /\ journalHdr = 0 /\ ~jOpen
        /\ savepoints = << >> /\ DOMAIN saved = {} /\ Records = {} /\ Records' = {}
        /\ view = begun /\ Len(file) = Len(view) /\ dbSize = Len(view)
    <2>1. /\ jfile = << >> /\ inJournal = {} /\ sub = << >> /\ journalHdr = 0 /\ ~jOpen
          /\ savepoints = << >> /\ view = begun /\ Len(view) = Len(begun)
      BY <1>1 DEF JInv, Unwritten
    <2>2. DOMAIN saved = {}
      BY <2>1 DEF JInv, ImagesOK
    <2>3. Records = {} /\ Records' = {}
      BY <1>1, <2>1, NewJournal DEF Records, RecordsOf
    <2>4. Len(file) = Len(view) /\ dbSize = Len(view)
      BY <1>1, <2>1 DEF JInv, Sizes
    <2> QED BY <2>1, <2>2, <2>3, <2>4
  <1>3. States' /\ FileOK' /\ CacheOK' /\ JournalOK'
    BY <1>1, <1>2 DEF JInv, States, FileOK, CacheOK, JournalOK, Frames, PageData
  <1>4. ImagesOK'
    BY <1>1, <1>2 DEF JInv, ImagesOK, IsImage
  <1>5. Sizes'
    BY <1>1, <1>2 DEF JInv, Sizes, ImagesOK, IsImage, FileOK
  <1>6. Unwritten' /\ Layout' /\ Marks' /\ Nested'
    BY <1>1, <1>2 DEF JInv, Unwritten, Layout, Marks, Nested
  <1>7. MainRecords' /\ SubRecords'
    BY <1>1, <1>2 DEF MainRecords, SubRecords
  <1>8. ViewReads' /\ BegunKept'
    BY <1>1, <1>2 DEF JInv, ViewReads, BegunKept, Live, Reads
  <1>9. SavedKept' /\ FreedKept'
    BY <1>1, <1>2 DEF SavedKept, FreedKept, Kept, Live
  <1> QED BY <1>3, <1>4, <1>5, <1>6, <1>7, <1>8, <1>9 DEF JInv

--------------------------------------------------------------------------------
(* Writing a page *)

LEMMA PageDataTyped ==
    ASSUME NEW p, NEW d \in PageData(p)
    PROVE  d \in Contents /\ (p \in Nat => Record(p, d) \in RecordBlocks /\ Record(p, d) \in Blocks)
  <1>1. d \in Contents
    BY DEF PageData, Contents
  <1> QED BY <1>1 DEF Record, RecordBlocks, Blocks

LEMMA RecordFields ==
    ASSUME NEW p, NEW d PROVE Record(p, d).pgno = p /\ Record(p, d).data = d
  BY DEF Record

\* The journal as pager_write finds it is one that is being filled.
LEMMA Opened ==
    ASSUME JInv, rc = "OK", eState \in {"LOCKED", "CACHEMOD", "DBMOD"}
    PROVE  LET j == OpenedJournal IN
           /\ j \in Seq(Blocks) /\ journalHdr \in Nat /\ Len(j) >= 1
           /\ Chained(j, journalHdr)
           /\ Filling(j, journalHdr, IF eState = "LOCKED" THEN 0 ELSE nRec)
           /\ nRec \in Nat
           /\ Len(j) = IF eState = "LOCKED" THEN 1 ELSE journalOff
           /\ RecordsOf(j) = Records
           /\ \A o \in Records : j[o + 1] = jfile[o + 1]
           /\ \A i \in DOMAIN savepoints : MarkIn(savepoints[i], j, journalHdr)
           /\ eState = "LOCKED" => journalHdr = 0
  <1>1. CASE eState = "LOCKED"
    <2> DEFINE b == Header(0, FALSE)
    <2>1. OpenedJournal = <<b>> /\ b \in HeaderBlocks /\ b.nRec = 0
      BY <1>1, HeaderIsHeader DEF OpenedJournal
    <2> HIDE DEF b
    <2>2. jfile = << >> /\ journalHdr = 0 /\ nRec \in Nat
      BY <1>1 DEF JInv, Unwritten, JournalOK
    <2>3. Records = {}
      BY <2>1, <2>2, NewJournal DEF Records
    <2>4. ASSUME NEW i \in DOMAIN savepoints PROVE MarkIn(savepoints[i], <<b>>, 0)
      <3>1. savepoints[i].iOffset = 1 /\ savepoints[i].iHdrOffset = 0
        BY <1>1 DEF JInv, Marks
      <3>2. Len(<<b>>) = 1
        OBVIOUS
      <3> QED BY <3>1, <3>2 DEF MarkIn
    <2>5. /\ <<b>> \in Seq(Blocks) /\ Len(<<b>>) = 1 /\ RecordsOf(<<b>>) = {}
          /\ Chained(<<b>>, 0) /\ Filling(<<b>>, 0, 0)
      BY <2>1, NewJournal
    <2> QED BY <1>1, <2>1, <2>2, <2>3, <2>4, <2>5
  <1>2. CASE eState # "LOCKED"
    <2>1. OpenedJournal = jfile /\ eState \in {"CACHEMOD", "DBMOD"}
      BY <1>2 DEF OpenedJournal
    <2>2. /\ jfile \in Seq(Blocks) /\ journalHdr \in Nat /\ nRec \in Nat
          /\ Chained(jfile, journalHdr) /\ Filling(jfile, journalHdr, nRec)
          /\ journalOff = Len(jfile)
      BY <2>1 DEF JInv, JournalOK, Layout
    <2>3. Len(jfile) >= 1
      BY <2>2 DEF Filling
    <2>4. \A i \in DOMAIN savepoints : MarkIn(savepoints[i], jfile, journalHdr)
      BY <2>1 DEF JInv, Marks
    <2> QED BY <1>2, <2>1, <2>2, <2>3, <2>4 DEF Records
  <1> QED BY <1>1, <1>2

LEMMA MarkInSame ==
    ASSUME NEW s, NEW t, s.iOffset = t.iOffset, s.iHdrOffset = t.iHdrOffset, NEW j, NEW hdr,
           MarkIn(s, j, hdr)
    PROVE  MarkIn(t, j, hdr)
  BY DEF MarkIn

\* Everything but the bit vector of a savepoint.
SameMark(s, t) ==
    /\ t.nOrig = s.nOrig /\ t.iHdrOffset = s.iHdrOffset /\ t.iOffset = s.iOffset
    /\ t.iSubRec = s.iSubRec

LEMMA Bitvecs ==
    ASSUME NEW sps \in Seq(Savepoints), NEW p \in Nat, NEW new, new = addToSavepointBitvecs(sps, p)
    PROVE  /\ new \in Seq(Savepoints) /\ Len(new) = Len(sps)
           /\ \A i \in DOMAIN sps :
                 /\ SameMark(sps[i], new[i])
                 /\ \A q : q \in new[i].inSavepoint <=>
                              q \in sps[i].inSavepoint \/ (q = p /\ p <= sps[i].nOrig)
  <1>1. ASSUME NEW i \in DOMAIN sps
        PROVE  /\ new[i] \in Savepoints /\ SameMark(sps[i], new[i])
               /\ \A q : q \in new[i].inSavepoint <=>
                            q \in sps[i].inSavepoint \/ (q = p /\ p <= sps[i].nOrig)
    <2> DEFINE s == sps[i]
    <2>1. s \in Savepoints
      OBVIOUS
    <2>2. new[i] = IF p <= s.nOrig THEN [s EXCEPT !.inSavepoint = s.inSavepoint \cup {p}] ELSE s
      BY DEF addToSavepointBitvecs
    <2> HIDE DEF s
    <2>3. CASE p <= s.nOrig
      <3> DEFINE v == s.inSavepoint \cup {p}
      <3>1. v \in SUBSET Nat
        BY <2>1 DEF Savepoints
      <3>2. new[i] = [s EXCEPT !.inSavepoint = v]
        BY <2>2, <2>3
      <3>3. \A q : q \in v <=> q \in s.inSavepoint \/ (q = p /\ p <= s.nOrig)
        BY <2>3
      <3> HIDE DEF v
      <3>4. new[i] \in Savepoints /\ new[i].inSavepoint = v /\ SameMark(s, new[i])
        BY <2>1, <3>1, <3>2 DEF Savepoints, SameMark
      <3> QED BY <3>3, <3>4 DEF s
    <2>4. CASE ~(p <= s.nOrig)
      <3>1. new[i] = s
        BY <2>2, <2>4
      <3>2. \A q : q \in new[i].inSavepoint <=> q \in s.inSavepoint \/ (q = p /\ p <= s.nOrig)
        BY <2>4, <3>1, Zenon
      <3>3. SameMark(s, new[i])
        BY <3>1 DEF SameMark
      <3> QED BY <2>1, <3>1, <3>2, <3>3 DEF s
    <2> QED BY <2>3, <2>4
  <1>2. new \in Seq(Savepoints) /\ Len(new) = Len(sps)
    <2>1. new = [i \in 1 .. Len(sps) |-> new[i]]
      BY DEF addToSavepointBitvecs
    <2>2. \A i \in 1 .. Len(sps) : new[i] \in Savepoints
      BY <1>1
    <2>3. new \in [1 .. Len(sps) -> Savepoints]
      BY <2>1, <2>2
    <2> QED BY <2>3
  <1> QED BY <1>1, <1>2

\* What the callers of PagerWrite make of the cache, the bit vector and the
\* savepoints before.
Prepared(c, inJ, sps, p) ==
    /\ p \in 1 .. bound.pages
    /\ c = [q \in DOMAIN c |-> c[q]] /\ DOMAIN c = DOMAIN cache \cup {p}
    /\ \A q \in DOMAIN c : c[q] \in Frames(q) /\ (c[q].needSync => c[q].dirty)
    /\ \A q \in DOMAIN cache :
          /\ c[q].dirty = cache[q].dirty /\ c[q].needSync = cache[q].needSync
          /\ c[q].dontWrite = cache[q].dontWrite
          /\ q \notin {1, p} => c[q] = cache[q]
    /\ p = 1 => c = cache
    /\ \/ c[1] = cache[1]
       \/ /\ 1 \in inJournal /\ \A i \in DOMAIN savepoints : 1 \in savepoints[i].inSavepoint
          /\ cache[1].dirty /\ ~cache[1].dontWrite
    /\ inJournal \subseteq inJ /\ inJ \subseteq inJournal \cup {p}
    /\ p \in inJ \ inJournal => p \notin Live(begun)
    /\ sps \in Seq(Savepoints) /\ Len(sps) = Len(savepoints)
    /\ \A i \in DOMAIN savepoints :
          /\ SameMark(savepoints[i], sps[i])
          /\ \A q : q # p => (q \in sps[i].inSavepoint <=> q \in savepoints[i].inSavepoint)
          /\ p \in savepoints[i].inSavepoint => p \in sps[i].inSavepoint
          /\ p \in Live(saved[i]) /\ p \in sps[i].inSavepoint => p \in savepoints[i].inSavepoint
          /\ p \in Live(saved[i]) /\ p \notin sps[i].inSavepoint => c[p].data = saved[i][p]
    /\ p \notin inJ /\ p \in Live(begun) => c[p].data = begun[p]

\* What they make of the image.
Shown(c, p, d) ==
    /\ UNCHANGED <<bound, hasContent, begun, saved>>
    /\ IsImage(view') /\ FreedKept'
    /\ Len(view') = MAX(dbSize, p) /\ view'[p] = d
    /\ p > dbSize => p > dbOrigSize /\ eState # "LOCKED"
    /\ \A q \in Live(view') \ {p} :
          \/ q \in Live(view) /\ view'[q] = view[q] /\ (q = 1 => c[1] = cache[1])
          \/ q = 1 /\ view'[1] = c[1].data /\ cache[1].dirty /\ ~cache[1].dontWrite

\* pager_write adds page p to the main journal.
Adds(inJ, p) == p <= dbOrigSize /\ p \notin inJ

\* The first case of PagerWrite: all goes well.
Success(c, inJ, sps, p, d) ==
    /\ rc = "OK" /\ eState \in {"LOCKED", "CACHEMOD", "DBMOD"}
    /\ jOpen' = TRUE
    /\ journalHdr' = IF eState = "LOCKED" THEN 0 ELSE journalHdr
    /\ UNCHANGED <<rc, file, dbFileSize, dbOrigSize>>
    /\ eState' = IF eState = "LOCKED" THEN "CACHEMOD" ELSE eState
    /\ jfile' = IF Adds(inJ, p) THEN Append(OpenedJournal, Record(p, c[p].data)) ELSE OpenedJournal
    /\ LET off == IF eState = "LOCKED" THEN 1 ELSE journalOff
       IN journalOff' = IF Adds(inJ, p) THEN off + 1 ELSE off
    /\ nRec' = (IF eState = "LOCKED" THEN 0 ELSE nRec) + IF Adds(inJ, p) THEN 1 ELSE 0
    /\ inJournal' = IF Adds(inJ, p) THEN inJ \cup {p} ELSE inJ
    /\ LET sps1 == IF Adds(inJ, p) THEN addToSavepointBitvecs(sps, p) ELSE sps
           subj == subjRequiresPage(sps1, p)
       IN /\ savepoints' = IF subj THEN addToSavepointBitvecs(sps1, p) ELSE sps1
          /\ sub' = IF subj THEN Append(sub, Record(p, c[p].data)) ELSE sub
    /\ \E sync \in BOOLEAN :
          /\ cache' = [c EXCEPT ![p] = [data |-> d, dirty |-> TRUE, needSync |-> sync,
                                        dontWrite |-> FALSE]]
          /\ c[p].needSync \/ Adds(inJ, p) => sync
    /\ dbSize' = MAX(dbSize, p)

\* The second: the record could not be written.
Failure(c, inJ, sps, p) ==
    /\ rc = "OK" /\ eState \in {"LOCKED", "CACHEMOD", "DBMOD"}
    /\ jOpen' = TRUE
    /\ journalHdr' = IF eState = "LOCKED" THEN 0 ELSE journalHdr
    /\ UNCHANGED <<file, dbFileSize, dbOrigSize, sub, dbSize>>
    /\ Adds(inJ, p)
    /\ rc' = "NOMEM"
    /\ eState' = IF eState = "LOCKED" THEN "CACHEMOD" ELSE eState
    /\ jfile' = OpenedJournal
    /\ journalOff' = IF eState = "LOCKED" THEN 1 ELSE journalOff
    /\ nRec' = IF eState = "LOCKED" THEN 0 ELSE nRec
    /\ inJournal' = inJ
    /\ savepoints' = sps
    /\ \E sync \in BOOLEAN :
          /\ cache' = [c EXCEPT ![p] = [data |-> c[p].data, dirty |-> TRUE, needSync |-> sync,
                                        dontWrite |-> FALSE]]
          /\ c[p].needSync \/ Adds(inJ, p) => sync

\* The third: the journal could not be opened.
Unopened ==
    /\ rc = "OK" /\ eState = "LOCKED" /\ jOpen' = TRUE
    /\ journalHdr' = 0 /\ rc' = "NOMEM" /\ jfile' = << >> /\ journalOff' = 1 /\ nRec' = 0
    /\ inJournal' = {}
    /\ UNCHANGED <<file, dbFileSize, dbOrigSize, eState, savepoints, cache, sub, dbSize>>

LEMMA PagerWriteCases ==
    ASSUME NEW c, NEW inJ, NEW sps, NEW p, NEW d, PagerWrite(c, inJ, sps, p, d),
           \A q \in DOMAIN c : c[q].needSync \in BOOLEAN, p \in DOMAIN c
    PROVE  Success(c, inJ, sps, p, d) \/ Failure(c, inJ, sps, p) \/ Unopened
  <1> DEFINE opening == eState = "LOCKED"
             off == IF opening THEN 1 ELSE journalOff
             mark == p > dbOrigSize /\ eState # "DBMOD"
             sps1 == IF Adds(inJ, p) THEN addToSavepointBitvecs(sps, p) ELSE sps
             subj == subjRequiresPage(sps1, p)
             dirtied(x) == [c EXCEPT ![p] = [data |-> x, dirty |-> TRUE,
                                needSync |-> c[p].needSync \/ Adds(inJ, p) \/ mark, dontWrite |-> FALSE]]
  <1>1. /\ rc = "OK" /\ eState \in {"LOCKED", "CACHEMOD", "DBMOD"} /\ jOpen' = TRUE
        /\ journalHdr' = IF opening THEN 0 ELSE journalHdr
        /\ UNCHANGED <<file, dbFileSize, dbOrigSize>>
    BY DEF PagerWrite, fileVars
  <1>2. \/ /\ eState' = IF opening THEN "CACHEMOD" ELSE eState
           /\ jfile' = IF Adds(inJ, p) THEN Append(OpenedJournal, Record(p, c[p].data))
                       ELSE OpenedJournal
           /\ journalOff' = IF Adds(inJ, p) THEN off + 1 ELSE off
           /\ nRec' = (IF opening THEN 0 ELSE nRec) + IF Adds(inJ, p) THEN 1 ELSE 0
           /\ inJournal' = IF Adds(inJ, p) THEN inJ \cup {p} ELSE inJ
           /\ savepoints' = IF subj THEN addToSavepointBitvecs(sps1, p) ELSE sps1
           /\ sub' = IF subj THEN Append(sub, Record(p, c[p].data)) ELSE sub
           /\ cache' = dirtied(d)
           /\ dbSize' = MAX(dbSize, p)
           /\ UNCHANGED rc
        \/ /\ Adds(inJ, p)
           /\ rc' = "NOMEM"
           /\ eState' = IF opening THEN "CACHEMOD" ELSE eState
           /\ jfile' = OpenedJournal
           /\ journalOff' = off
           /\ nRec' = IF opening THEN 0 ELSE nRec
           /\ inJournal' = inJ
           /\ savepoints' = sps
           /\ cache' = dirtied(c[p].data)
           /\ UNCHANGED <<sub, dbSize>>
        \/ /\ opening
           /\ rc' = "NOMEM"
           /\ jfile' = << >>
           /\ journalOff' = 1
           /\ nRec' = 0
           /\ inJournal' = {}
           /\ UNCHANGED <<eState, savepoints, cache, sub, dbSize>>
    BY Zenon DEF PagerWrite, Adds
  <1>3. (c[p].needSync \/ Adds(inJ, p) \/ mark) \in BOOLEAN
    OBVIOUS
  <1>4. \A x : \E sync \in BOOLEAN :
          /\ dirtied(x) = [c EXCEPT ![p] = [data |-> x, dirty |-> TRUE, needSync |-> sync,
                                            dontWrite |-> FALSE]]
          /\ c[p].needSync \/ Adds(inJ, p) => sync
    BY <1>3, Zenon
  <1> HIDE DEF dirtied
  <1> QED BY <1>1, <1>2, <1>4, Zenon DEF Success, Failure, Unopened

LEMMA SuccessJournal ==
    ASSUME JInv, NEW c, NEW inJ, NEW sps, NEW p, NEW d, Prepared(c, inJ, sps, p),
           Success(c, inJ, sps, p, d)
    PROVE  /\ jfile' \in Seq(Blocks) /\ journalHdr' = journalHdr /\ nRec' \in Nat
           /\ Chained(jfile', journalHdr') /\ Filling(jfile', journalHdr', nRec')
           /\ journalOff' = Len(jfile')
           /\ \A o \in Records : jfile'[o + 1] = jfile[o + 1]
           /\ ~Adds(inJ, p) => Records' = Records
           /\ Adds(inJ, p) =>
                 \E o \in Nat \ Records :
                    /\ Records' = Records \cup {o}
                    /\ jfile'[o + 1] = Record(p, c[p].data) /\ o >= journalHdr
                    /\ \A i \in DOMAIN savepoints : savepoints[i].iOffset <= o
           /\ \A i \in DOMAIN savepoints : MarkIn(savepoints[i], jfile', journalHdr')
  <1> DEFINE j == OpenedJournal
             n == IF eState = "LOCKED" THEN 0 ELSE nRec
  <1>1. /\ j \in Seq(Blocks) /\ journalHdr \in Nat /\ Len(j) >= 1 /\ Chained(j, journalHdr)
        /\ Filling(j, journalHdr, n) /\ n \in Nat
        /\ Len(j) = IF eState = "LOCKED" THEN 1 ELSE journalOff
        /\ RecordsOf(j) = Records
        /\ \A o \in Records : j[o + 1] = jfile[o + 1]
        /\ \A i \in DOMAIN savepoints : MarkIn(savepoints[i], j, journalHdr)
        /\ journalHdr' = journalHdr
    BY Opened DEF Success
  <1>2. savepoints \in Seq(Savepoints)
    BY DEF JInv, JournalOK
  <1> HIDE DEF j, n
  <1>3. CASE ~Adds(inJ, p)
    <2>1. jfile' = j /\ journalOff' = Len(j) /\ nRec' = n + 0 /\ Records' = RecordsOf(j)
      BY <1>1, <1>3 DEF Success, Records, j, n
    <2>2. nRec' = n
      BY <1>1, <2>1
    <2> QED BY <1>1, <1>3, <2>1, <2>2
  <1>4. CASE Adds(inJ, p)
    <2> DEFINE b == Record(p, c[p].data)
               o == Len(j)
    <2>1. b \in Blocks /\ b \notin HeaderBlocks
      <3>1. p \in Nat /\ c[p].data \in PageData(p)
        BY DEF Prepared, Frames
      <3> QED BY <3>1, PageDataTyped, RecordIsNoHeader
    <2>2. jfile' = Append(j, b) /\ journalOff' = Len(j) + 1 /\ nRec' = n + 1
          /\ Records' = RecordsOf(Append(j, b))
      BY <1>1, <1>4 DEF Success, Records, j, n
    <2> HIDE DEF b
    <2>3. journalHdr < Len(j)
      BY <1>1 DEF Filling
    <2>4. /\ jfile' \in Seq(Blocks) /\ Len(jfile') = Len(j) + 1 /\ jfile'[o + 1] = b
          /\ \A q \in 0 .. Len(j) - 1 : jfile'[q + 1] = j[q + 1]
          /\ Records' = RecordsOf(j) \cup {o} /\ o \notin RecordsOf(j)
          /\ Chained(jfile', journalHdr)
          /\ Filling(jfile', journalHdr, n + 1)
          /\ \A s \in Savepoints : MarkIn(s, j, journalHdr) => MarkIn(s, jfile', journalHdr)
      BY <1>1, <2>1, <2>2, <2>3, RecordAdded, SMTT(30)
    <2>5. \A q \in Records : jfile'[q + 1] = jfile[q + 1]
      BY <1>1, <2>4 DEF RecordsOf
    <2>6. ASSUME NEW i \in DOMAIN savepoints
          PROVE  savepoints[i].iOffset <= o /\ MarkIn(savepoints[i], jfile', journalHdr)
      <3>1. savepoints[i] \in Savepoints /\ MarkIn(savepoints[i], j, journalHdr)
        BY <1>1, <1>2
      <3> QED BY <2>4, <3>1 DEF MarkIn
    <2>7. o \in Nat \ Records /\ Records' = Records \cup {o} /\ jfile'[o + 1] = b /\ o >= journalHdr
      BY <1>1, <2>3, <2>4
    <2>8. nRec' \in Nat /\ journalOff' = Len(jfile')
      BY <1>1, <2>2, <2>4
    <2> QED BY <1>1, <1>4, <2>2, <2>4, <2>5, <2>6, <2>7, <2>8 DEF b
  <1> QED BY <1>3, <1>4

LEMMA SuccessSavepoints ==
    ASSUME JInv, NEW c, NEW inJ, NEW sps, NEW p, NEW d, Prepared(c, inJ, sps, p),
           Success(c, inJ, sps, p, d)
    PROVE  /\ savepoints' \in Seq(Savepoints) /\ Len(savepoints') = Len(savepoints)
           /\ \A i \in DOMAIN savepoints :
                 /\ SameMark(savepoints[i], savepoints'[i])
                 /\ \A q : q # p => (q \in savepoints'[i].inSavepoint
                                        <=> q \in savepoints[i].inSavepoint)
                 /\ p \in savepoints[i].inSavepoint => p \in savepoints'[i].inSavepoint
                 /\ p <= savepoints[i].nOrig => p \in savepoints'[i].inSavepoint
           /\ sub' \in {sub, Append(sub, Record(p, c[p].data))}
           /\ Adds(inJ, p) => sub' = sub
           /\ ~Adds(inJ, p) =>
                 \A i \in DOMAIN savepoints :
                    p <= savepoints[i].nOrig /\ p \notin sps[i].inSavepoint
                       => sub' = Append(sub, Record(p, c[p].data))
  <1> DEFINE sps1 == IF Adds(inJ, p) THEN addToSavepointBitvecs(sps, p) ELSE sps
             sps2 == addToSavepointBitvecs(sps1, p)
  <1>1. /\ p \in Nat /\ sps \in Seq(Savepoints) /\ Len(sps) = Len(savepoints)
        /\ \A i \in DOMAIN savepoints :
              /\ SameMark(savepoints[i], sps[i])
              /\ \A q : q # p => (q \in sps[i].inSavepoint <=> q \in savepoints[i].inSavepoint)
              /\ p \in savepoints[i].inSavepoint => p \in sps[i].inSavepoint
        /\ savepoints \in Seq(Savepoints)
    BY DEF Prepared, JInv, JournalOK
  <1>2. DOMAIN sps = DOMAIN savepoints
    BY <1>1
  <1>3. /\ sps1 \in Seq(Savepoints) /\ Len(sps1) = Len(sps)
        /\ \A i \in DOMAIN sps :
              /\ SameMark(sps[i], sps1[i])
              /\ \A q : q # p => (q \in sps1[i].inSavepoint <=> q \in sps[i].inSavepoint)
              /\ p \in sps[i].inSavepoint => p \in sps1[i].inSavepoint
              /\ Adds(inJ, p) /\ p <= sps[i].nOrig => p \in sps1[i].inSavepoint
        /\ ~Adds(inJ, p) => sps1 = sps
    <2>1. CASE Adds(inJ, p)
      <3>1. sps1 = addToSavepointBitvecs(sps, p)
        BY <2>1
      <3> HIDE DEF sps1
      <3>2. /\ sps1 \in Seq(Savepoints) /\ Len(sps1) = Len(sps)
            /\ \A i \in DOMAIN sps :
                  /\ SameMark(sps[i], sps1[i])
                  /\ \A q : q \in sps1[i].inSavepoint <=>
                               q \in sps[i].inSavepoint \/ (q = p /\ p <= sps[i].nOrig)
        BY <1>1, <3>1, Bitvecs
      <3>3. \A i \in DOMAIN sps : p \in sps[i].inSavepoint => p \in sps1[i].inSavepoint
        BY <3>2
      <3>4. \A i \in DOMAIN sps : p <= sps[i].nOrig => p \in sps1[i].inSavepoint
        BY <3>2
      <3> QED BY <2>1, <3>2, <3>3, <3>4
    <2>2. CASE ~Adds(inJ, p)
      BY <1>1, <2>2 DEF SameMark
    <2> QED BY <2>1, <2>2
  <1>4. DOMAIN sps1 = DOMAIN sps
    BY <1>1, <1>3
  <1>5. /\ savepoints' = IF subjRequiresPage(sps1, p) THEN sps2 ELSE sps1
        /\ sub' = IF subjRequiresPage(sps1, p) THEN Append(sub, Record(p, c[p].data)) ELSE sub
    BY DEF Success
  <1>6. subjRequiresPage(sps1, p) <=> \E i \in DOMAIN sps1 : p <= sps1[i].nOrig /\ p \notin sps1[i].inSavepoint
    BY DEF subjRequiresPage
  <1> HIDE DEF sps1
  <1>7. /\ sps2 \in Seq(Savepoints) /\ Len(sps2) = Len(sps1)
        /\ \A i \in DOMAIN sps1 :
              /\ SameMark(sps1[i], sps2[i])
              /\ \A q : q \in sps2[i].inSavepoint <=>
                           q \in sps1[i].inSavepoint \/ (q = p /\ p <= sps1[i].nOrig)
    BY <1>1, <1>3, Bitvecs
  <1> HIDE DEF sps2
  <1>8. /\ savepoints' \in Seq(Savepoints) /\ Len(savepoints') = Len(savepoints)
        /\ \A i \in DOMAIN sps1 :
              /\ SameMark(sps1[i], savepoints'[i])
              /\ \A q : q # p => (q \in savepoints'[i].inSavepoint <=> q \in sps1[i].inSavepoint)
              /\ p \in sps1[i].inSavepoint => p \in savepoints'[i].inSavepoint
              /\ p <= sps1[i].nOrig => p \in savepoints'[i].inSavepoint
    <2>1. CASE subjRequiresPage(sps1, p)
      BY <1>1, <1>3, <1>5, <1>7, <2>1
    <2>2. CASE ~subjRequiresPage(sps1, p)
      BY <1>1, <1>3, <1>5, <1>6, <2>2 DEF SameMark
    <2> QED BY <2>1, <2>2
  <1>9. ASSUME NEW i \in DOMAIN savepoints
        PROVE  /\ SameMark(savepoints[i], savepoints'[i])
               /\ \A q : q # p => (q \in savepoints'[i].inSavepoint
                                      <=> q \in savepoints[i].inSavepoint)
               /\ p \in savepoints[i].inSavepoint => p \in savepoints'[i].inSavepoint
               /\ p <= savepoints[i].nOrig => p \in savepoints'[i].inSavepoint
    BY <1>1, <1>2, <1>3, <1>4, <1>8, SMTT(30) DEF SameMark
  <1>10. Adds(inJ, p) => sub' = sub
    BY <1>3, <1>4, <1>5, <1>6 DEF SameMark
  <1>11. ASSUME ~Adds(inJ, p), NEW i \in DOMAIN savepoints, p <= savepoints[i].nOrig,
                p \notin sps[i].inSavepoint
         PROVE  sub' = Append(sub, Record(p, c[p].data))
    BY <1>1, <1>2, <1>3, <1>5, <1>6, <1>11 DEF SameMark
  <1> QED BY <1>5, <1>8, <1>9, <1>10, <1>11

\* The cache after a page is made dirty, whatever its new content.
\* What pager_write makes of the cache c: only page p changes.
Dirtied(c, p, page) == cache' = [c EXCEPT ![p] = page]

OnlyDirtied(c, p, page) ==
    /\ DOMAIN cache' = DOMAIN cache \cup {p} /\ cache'[p] = page
    /\ \A q \in DOMAIN cache' \ {p} :
          /\ q \in DOMAIN cache /\ cache'[q] = c[q]
          /\ cache'[q].dirty = cache[q].dirty /\ cache'[q].needSync = cache[q].needSync
          /\ cache'[q].dontWrite = cache[q].dontWrite
          /\ q # 1 => cache'[q] = cache[q]

LEMMA DirtiedCache ==
    ASSUME JInv, NEW c, NEW inJ, NEW sps, NEW p, Prepared(c, inJ, sps, p),
           NEW new \in Frames(p), new.dirty, bound' = bound,
           eState' \notin {"READER", "LOCKED", "FINISHED"}, Dirtied(c, p, new)
    PROVE  CacheOK' /\ OnlyDirtied(c, p, new)
  <1>3. DOMAIN c = DOMAIN cache \cup {p} /\ c = [q \in DOMAIN c |-> c[q]]
    BY DEF Prepared
  <1>4. /\ DOMAIN cache' = DOMAIN c /\ cache'[p] = new
        /\ \A q \in DOMAIN c \ {p} : cache'[q] = c[q]
        /\ cache' = [q \in DOMAIN cache' |-> cache'[q]]
    BY <1>3 DEF Dirtied
  <1>5. CacheOK'
    <2>1. DOMAIN cache' \subseteq 1 .. bound.pages /\ 1 \in DOMAIN cache'
      BY <1>3, <1>4 DEF JInv, CacheOK, Prepared
    <2>2. ASSUME NEW q \in DOMAIN cache'
          PROVE  cache'[q] \in Frames(q)' /\ (cache'[q].needSync => cache'[q].dirty)
      <3>1. Frames(q)' = Frames(q)
        BY DEF Frames, PageData
      <3>2. CASE q = p
        BY <1>4, <3>1, <3>2
      <3>3. CASE q # p
        <4>1. q \in DOMAIN c /\ cache'[q] = c[q]
          BY <1>4, <3>3
        <4> QED BY <3>1, <4>1 DEF Prepared
      <3> QED BY <3>2, <3>3
    <2> QED BY <1>4, <2>1, <2>2 DEF CacheOK
  <1>6. ASSUME NEW q \in DOMAIN cache' \ {p}
        PROVE  /\ q \in DOMAIN cache /\ cache'[q] = c[q]
               /\ cache'[q].dirty = cache[q].dirty /\ cache'[q].needSync = cache[q].needSync
               /\ cache'[q].dontWrite = cache[q].dontWrite
               /\ q # 1 => cache'[q] = cache[q]
    BY <1>3, <1>4 DEF Prepared
  <1> QED BY <1>3, <1>4, <1>5, <1>6 DEF OnlyDirtied

LEMMA IsImageSame ==
    ASSUME NEW v, IsImage(v), bound' = bound PROVE IsImage(v)'
  BY DEF IsImage

LEMMA PagesTyped ==
    ASSUME NEW p, bound' = bound PROVE PageData(p)' = PageData(p)
  BY DEF PageData

LEMMA SuccessKeeps ==
    ASSUME JInv, JournalAssumption, NEW c, NEW inJ, NEW sps, NEW p, NEW d \in PageData(p),
           Prepared(c, inJ, sps, p), Shown(c, p, d), Success(c, inJ, sps, p, d)
    PROVE  JInv'
  <1>0. /\ p \in 1 .. bound.pages /\ bound.pages \in Nat /\ p \in Nat /\ p >= 1
        /\ c[p].data \in PageData(p)
        /\ rc = "OK" /\ rc' = rc /\ eState \in {"LOCKED", "CACHEMOD", "DBMOD"}
        /\ eState' = (IF eState = "LOCKED" THEN "CACHEMOD" ELSE eState)
        /\ eState' \in {"CACHEMOD", "DBMOD"}
        /\ UNCHANGED <<bound, file, dbFileSize, dbOrigSize, hasContent, begun, saved>>
        /\ jOpen' = TRUE /\ dbSize' = MAX(dbSize, p)
        /\ inJournal \subseteq inJournal' /\ inJournal' \subseteq inJournal \cup {p}
        /\ Adds(inJ, p) => p \in inJournal'
        /\ ~Adds(inJ, p) => inJournal' = inJ
        /\ IsImage(view') /\ FreedKept' /\ Len(view') = MAX(dbSize, p) /\ view'[p] = d
        /\ dbOrigSize = Len(begun) /\ Len(begun) <= dbSize /\ dbSize = Len(view)
        /\ dbSize \in Nat /\ Len(begun) \in Nat
    <2>1. p \in 1 .. bound.pages /\ bound.pages \in Nat
      BY PagesPositive DEF JInv, Prepared
    <2>2. c[p].data \in PageData(p)
      BY DEF Prepared, Frames
    <2>3. /\ inJournal \subseteq inJournal' /\ inJournal' \subseteq inJournal \cup {p}
          /\ Adds(inJ, p) => p \in inJournal'
          /\ ~Adds(inJ, p) => inJournal' = inJ
      BY DEF Prepared, Success
    <2>4. /\ rc = "OK" /\ rc' = rc /\ eState \in {"LOCKED", "CACHEMOD", "DBMOD"}
          /\ eState' = (IF eState = "LOCKED" THEN "CACHEMOD" ELSE eState)
          /\ UNCHANGED <<bound, file, dbFileSize, dbOrigSize, hasContent, begun, saved>>
          /\ jOpen' = TRUE /\ dbSize' = MAX(dbSize, p)
          /\ IsImage(view') /\ FreedKept' /\ Len(view') = MAX(dbSize, p) /\ view'[p] = d
      BY DEF Success, Shown
    <2>5. dbOrigSize = Len(begun) /\ Len(begun) <= dbSize /\ dbSize = Len(view)
          /\ dbSize \in Nat /\ Len(begun) \in Nat
      <3>1. Len(view) \in Nat /\ Len(begun) \in Nat
        BY DEF JInv, ImagesOK, IsImage
      <3> QED BY <2>4, <3>1 DEF JInv, Sizes
    <2> QED BY <2>1, <2>2, <2>3, <2>4, <2>5
  <1>1. PICK sync \in BOOLEAN :
           /\ cache' = [c EXCEPT ![p] = [data |-> d, dirty |-> TRUE, needSync |-> sync,
                                         dontWrite |-> FALSE]]
           /\ c[p].needSync \/ Adds(inJ, p) => sync
    BY DEF Success
  <1>2. /\ CacheOK' /\ DOMAIN cache' = DOMAIN cache \cup {p}
        /\ cache'[p].data = d /\ cache'[p].dirty /\ ~cache'[p].dontWrite
        /\ cache'[p].needSync = sync
        /\ \A q \in DOMAIN cache' \ {p} :
              /\ q \in DOMAIN cache /\ cache'[q] = c[q]
              /\ cache'[q].dirty = cache[q].dirty /\ cache'[q].needSync = cache[q].needSync
              /\ cache'[q].dontWrite = cache[q].dontWrite
              /\ q # 1 => cache'[q] = cache[q]
    <2> DEFINE new == [data |-> d, dirty |-> TRUE, needSync |-> sync, dontWrite |-> FALSE]
    <2>1. bound' = bound /\ eState' \notin {"READER", "LOCKED", "FINISHED"}
      BY <1>0
    <2>2. new \in Frames(p) /\ new.dirty /\ new.data = d /\ ~new.dontWrite /\ new.needSync = sync
      BY DEF Frames
    <2>3. Dirtied(c, p, new)
      BY <1>1 DEF Dirtied
    <2> HIDE DEF new
    <2>4. CacheOK' /\ OnlyDirtied(c, p, new)
      BY <2>1, <2>2, <2>3, DirtiedCache
    <2> QED BY <2>2, <2>4 DEF OnlyDirtied
  <1>3. /\ jfile' \in Seq(Blocks) /\ journalHdr' = journalHdr /\ nRec' \in Nat
        /\ Chained(jfile', journalHdr') /\ Filling(jfile', journalHdr', nRec')
        /\ journalOff' = Len(jfile')
        /\ \A o \in Records : jfile'[o + 1] = jfile[o + 1]
        /\ ~Adds(inJ, p) => Records' = Records
        /\ Adds(inJ, p) =>
              \E o \in Nat \ Records :
                 /\ Records' = Records \cup {o}
                 /\ jfile'[o + 1] = Record(p, c[p].data) /\ o >= journalHdr
                 /\ \A i \in DOMAIN savepoints : savepoints[i].iOffset <= o
        /\ \A i \in DOMAIN savepoints : MarkIn(savepoints[i], jfile', journalHdr')
    BY SuccessJournal
  <1>4. /\ savepoints' \in Seq(Savepoints) /\ Len(savepoints') = Len(savepoints)
        /\ \A i \in DOMAIN savepoints :
              /\ SameMark(savepoints[i], savepoints'[i])
              /\ \A q : q # p => (q \in savepoints'[i].inSavepoint
                                     <=> q \in savepoints[i].inSavepoint)
              /\ p \in savepoints[i].inSavepoint => p \in savepoints'[i].inSavepoint
              /\ p <= savepoints[i].nOrig => p \in savepoints'[i].inSavepoint
        /\ sub' \in {sub, Append(sub, Record(p, c[p].data))}
        /\ Adds(inJ, p) => sub' = sub
        /\ ~Adds(inJ, p) =>
              \A i \in DOMAIN savepoints :
                 p <= savepoints[i].nOrig /\ p \notin sps[i].inSavepoint
                    => sub' = Append(sub, Record(p, c[p].data))
    BY SuccessSavepoints
  <1>5. savepoints \in Seq(Savepoints) /\ DOMAIN savepoints' = DOMAIN savepoints
        /\ Len(saved) = Len(savepoints) /\ DOMAIN saved = DOMAIN savepoints
        /\ sub \in Seq(RecordBlocks) /\ journalHdr \in Nat
    BY <1>4 DEF JInv, JournalOK, ImagesOK
  <1>6. /\ sub' \in Seq(RecordBlocks) /\ Len(sub) <= Len(sub')
        /\ \A k \in DOMAIN sub : k \in DOMAIN sub' /\ sub'[k] = sub[k]
        /\ \A k \in DOMAIN sub' \ DOMAIN sub :
              k = Len(sub) + 1 /\ sub'[k] = Record(p, c[p].data) /\ ~Adds(inJ, p)
    <2>1. Record(p, c[p].data) \in RecordBlocks
      BY <1>0, PageDataTyped
    <2>2. CASE sub' = sub
      BY <1>5, <2>2
    <2>3. CASE sub' # sub
      <3> DEFINE b == Record(p, c[p].data)
      <3>1. sub' = Append(sub, b) /\ ~Adds(inJ, p) /\ b \in RecordBlocks
        BY <1>4, <2>1, <2>3
      <3> HIDE DEF b
      <3>2. sub' \in Seq(RecordBlocks) /\ Len(sub') = Len(sub) + 1 /\ sub'[Len(sub) + 1] = b
            /\ \A k \in DOMAIN sub : k \in DOMAIN sub' /\ sub'[k] = sub[k]
        BY <1>5, <3>1
      <3>3. \A k \in DOMAIN sub' \ DOMAIN sub : k = Len(sub) + 1
        BY <1>5, <3>2
      <3> QED BY <1>5, <3>1, <3>2, <3>3 DEF b
    <2> QED BY <2>2, <2>3
  <1>7. States' /\ FileOK' /\ ImagesOK'
    <2>1. States'
      BY <1>0 DEF JInv, States
    <2>2. FileOK'
      BY <1>0, FileSame DEF JInv
    <2>3. ImagesOK'
      <3>1. IsImage(view)' /\ IsImage(begun)'
        BY <1>0 DEF JInv, ImagesOK, IsImage
      <3>2. \A i \in DOMAIN saved' : IsImage(saved[i])'
        BY <1>0 DEF JInv, ImagesOK, IsImage
      <3> QED BY <1>0, <1>4, <3>1, <3>2 DEF JInv, ImagesOK
    <2> QED BY <2>1, <2>2, <2>3
  <1>8. JournalOK'
    BY <1>0, <1>3, <1>4, <1>5, <1>6, SMTT(30) DEF JInv, JournalOK, NoBitvec
  <1>9. Sizes'
    <2>1. dbSize <= dbSize' /\ dbSize' = Len(view')
      BY <1>0 DEF MAX
    <2>2. dbOrigSize' \in 1 .. bound'.pages /\ Len(begun') <= Len(file')
          /\ (eState' = "CACHEMOD" => Len(file') = Len(begun'))
      BY <1>0 DEF JInv, Sizes
    <2>3. ASSUME NEW i \in DOMAIN savepoints
          PROVE  /\ savepoints'[i].nOrig = Len(saved[i]) /\ Len(begun) <= Len(saved[i])
                 /\ Len(saved[i]) <= dbSize'
                 /\ \A j \in 1 .. i : Len(saved[j]) <= Len(saved[i])
      <3>1. Len(saved[i]) \in Nat
        BY <1>5 DEF JInv, ImagesOK, IsImage
      <3>2. /\ savepoints[i].nOrig = Len(saved[i]) /\ Len(begun) <= Len(saved[i])
            /\ Len(saved[i]) <= dbSize
            /\ \A j \in 1 .. i : Len(saved[j]) <= Len(saved[i])
        BY DEF JInv, Sizes
      <3>3. savepoints'[i].nOrig = savepoints[i].nOrig
        BY <1>4 DEF SameMark
      <3> QED BY <1>0, <2>1, <3>1, <3>2, <3>3
    <2> QED BY <1>0, <1>5, <2>1, <2>2, <2>3 DEF Sizes
  <1>10. Unwritten' /\ Layout'
    BY <1>0, <1>3 DEF Unwritten, Layout
  <1>11. Marks'
    BY <1>0, <1>3, <1>4, <1>5, MarkInSame DEF Marks, SameMark
  <1>12. Nested'
    <2>1. ASSUME NEW i \in DOMAIN savepoints, NEW j \in 1 .. i
          PROVE  /\ savepoints'[i].iSubRec <= Len(sub')
                 /\ savepoints'[j].iOffset <= savepoints'[i].iOffset
                 /\ savepoints'[j].iSubRec <= savepoints'[i].iSubRec
      <3>1. j \in DOMAIN savepoints
        BY <1>5
      <3>2. /\ savepoints[i].iSubRec <= Len(sub)
            /\ savepoints[j].iOffset <= savepoints[i].iOffset
            /\ savepoints[j].iSubRec <= savepoints[i].iSubRec
        BY DEF JInv, Nested
      <3>3. savepoints[i] \in Savepoints /\ Len(sub) \in Nat /\ Len(sub') \in Nat
        BY <1>5, <1>6
      <3>4. SameMark(savepoints[i], savepoints'[i]) /\ SameMark(savepoints[j], savepoints'[j])
        BY <1>4, <3>1
      <3> QED BY <1>6, <3>2, <3>3, <3>4 DEF SameMark, Savepoints
    <2>2. ASSUME NEW i \in DOMAIN savepoints PROVE savepoints'[i].iSubRec <= Len(sub')
      <3>1. i \in 1 .. i
        BY <1>5
      <3> QED BY <2>1, <3>1
    <2> QED BY <1>5, <2>1, <2>2 DEF Nested
  <1>13. MainRecords'
    <2>1. ASSUME NEW o \in Records
          PROVE  LET r == jfile'[o + 1] IN
                 /\ r = jfile[o + 1] /\ r \in RecordBlocks /\ r.pgno \in inJournal
                 /\ r.pgno \in inJournal' /\ r.pgno \in 1 .. Len(begun)
                 /\ r.data \in PageData(r.pgno)
                 /\ o >= journalHdr => r.pgno \in DOMAIN cache' /\ cache'[r.pgno].needSync
                 /\ eState' = "CACHEMOD" => r.pgno \in DOMAIN cache' /\ cache'[r.pgno].dirty
      <3> DEFINE r == jfile[o + 1]
      <3>1. /\ r \in RecordBlocks /\ r.pgno \in inJournal
            /\ r.pgno \in 1 .. Len(begun) /\ r.data \in PageData(r.pgno)
            /\ o >= journalHdr => r.pgno \in DOMAIN cache /\ cache[r.pgno].needSync
            /\ eState = "CACHEMOD" => r.pgno \in DOMAIN cache /\ cache[r.pgno].dirty
        BY DEF JInv, MainRecords
      <3>2. jfile'[o + 1] = r /\ r.pgno \in inJournal'
        BY <1>0, <1>3, <3>1
      <3>3. eState = "LOCKED" => FALSE
        BY NewJournal DEF JInv, Unwritten, Records, RecordsOf
      <3> HIDE DEF r
      <3>4. ASSUME NEW q \in DOMAIN cache
            PROVE  /\ q \in DOMAIN cache' /\ (cache[q].needSync => cache'[q].needSync)
                   /\ cache[q].dirty => cache'[q].dirty
        <4>1. CASE q = p
          <5>1. c[p].needSync = cache[p].needSync
            BY <4>1 DEF Prepared
          <5> QED BY <1>1, <1>2, <4>1, <5>1
        <4>2. CASE q # p
          BY <1>2, <4>2
        <4> QED BY <4>1, <4>2
      <3> QED BY <1>0, <3>1, <3>2, <3>3, <3>4 DEF r
    <2>2. CASE ~Adds(inJ, p)
      <3>1. Records' = Records /\ UNCHANGED <<bound, begun, journalHdr>>
        BY <1>0, <1>3, <2>2
      <3>2. \A o \in Records : jfile'[o + 1] = jfile[o + 1]
        BY <1>3
      <3>3. \A o, q \in Records : jfile[o + 1].pgno = jfile[q + 1].pgno => o = q
        BY DEF JInv, MainRecords
      <3>4. \A o, q \in Records' : jfile'[o + 1].pgno = jfile'[q + 1].pgno => o = q
        BY <3>1, <3>2, <3>3
      <3> QED BY <2>1, <3>1, <3>4, PagesTyped DEF MainRecords
    <2>3. CASE Adds(inJ, p)
      <3>1. PICK o1 \in Nat \ Records :
               /\ Records' = Records \cup {o1} /\ jfile'[o1 + 1] = Record(p, c[p].data)
        BY <1>3, <2>3
      <3>2. UNCHANGED <<bound, begun, journalHdr>>
        BY <1>0, <1>3
      <3>3. /\ jfile'[o1 + 1] \in RecordBlocks /\ jfile'[o1 + 1].pgno = p
            /\ jfile'[o1 + 1].data \in PageData(p) /\ p \in inJournal' /\ p \in 1 .. Len(begun)
            /\ p \notin inJournal /\ p \in DOMAIN cache' /\ cache'[p].needSync /\ cache'[p].dirty
        <4>1. jfile'[o1 + 1] \in RecordBlocks /\ jfile'[o1 + 1].pgno = p
              /\ jfile'[o1 + 1].data = c[p].data
          BY <1>0, <3>1, PageDataTyped, RecordFields
        <4>2. p \notin inJournal /\ p <= Len(begun)
          BY <1>0, <2>3 DEF Adds, Prepared
        <4> QED BY <1>0, <1>1, <1>2, <2>3, <4>1, <4>2
      <3>4. \A o \in Records : jfile'[o + 1] = jfile[o + 1] /\ jfile[o + 1].pgno \in inJournal
        BY <2>1
      <3>5. \A o, q \in Records : jfile[o + 1].pgno = jfile[q + 1].pgno => o = q
        BY DEF JInv, MainRecords
      <3>6. \A o, q \in Records' : jfile'[o + 1].pgno = jfile'[q + 1].pgno => o = q
        BY <3>1, <3>3, <3>4, <3>5
      <3>7. \A o \in Records' : o = o1 \/ o \in Records
        BY <3>1
      <3> QED BY <2>1, <3>2, <3>3, <3>6, <3>7, PagesTyped DEF MainRecords
    <2> QED BY <2>2, <2>3
  <1>13a. eState = "LOCKED" => Records = {} /\ DOMAIN sub = {}
    BY NewJournal DEF JInv, Unwritten, Records, RecordsOf
  <1>13b. ASSUME NEW q \in DOMAIN cache, cache[q].dirty
          PROVE  q \in DOMAIN cache' /\ cache'[q].dirty
    BY <1>2, <1>13b
  <1>13c. ASSUME NEW q, q # p, q # 1 \/ c[1] = cache[1]
          PROVE  /\ q \in DOMAIN cache' => q \in DOMAIN cache /\ cache'[q] = cache[q]
                 /\ \A v : Reads(q, v) => Reads(q, v)'
    <2>1. q \in DOMAIN cache' => q \in DOMAIN cache /\ cache'[q] = cache[q]
      BY <1>2, <1>13c
    <2>2. q \in DOMAIN cache => q \in DOMAIN cache'
      BY <1>2
    <2> QED BY <1>0, <2>1, <2>2 DEF Reads
  <1>13d. 1 \in DOMAIN cache /\ (c[1] # cache[1] =>
             /\ 1 \in inJournal /\ \A i \in DOMAIN savepoints : 1 \in savepoints[i].inSavepoint)
    BY DEF Prepared, JInv, CacheOK
  <1>14. SubRecords'
    <2>1. ASSUME NEW k \in DOMAIN sub'
          PROVE  LET r == sub'[k] IN
                 /\ r.pgno \in inJournal' \/ r.pgno > Len(begun)
                 /\ r.pgno \in 1 .. bound.pages /\ r.data \in PageData(r.pgno)
                 /\ eState' = "CACHEMOD" => r.pgno \in DOMAIN cache' /\ cache'[r.pgno].dirty
      <3>1. CASE k \in DOMAIN sub
        <4>1. LET r == sub[k] IN
              /\ r.pgno \in inJournal \/ r.pgno > Len(begun)
              /\ r.pgno \in 1 .. bound.pages /\ r.data \in PageData(r.pgno)
              /\ eState = "CACHEMOD" => r.pgno \in DOMAIN cache /\ cache[r.pgno].dirty
          BY <3>1 DEF JInv, SubRecords
        <4>2. sub'[k] = sub[k] /\ eState # "LOCKED"
          BY <1>6, <1>13a, <3>1
        <4> QED BY <1>0, <1>13b, <4>1, <4>2
      <3>2. CASE k \notin DOMAIN sub
        <4>0. sub'[k] = Record(p, c[p].data) /\ ~Adds(inJ, p)
          BY <1>6, <3>2, Zenon
        <4>1. sub'[k].pgno = p /\ sub'[k].data = c[p].data /\ ~Adds(inJ, p)
          BY <4>0, RecordFields
        <4>2. p \in inJournal' \/ p > Len(begun)
          BY <1>0, <4>1 DEF Adds
        <4> QED BY <1>0, <1>2, <4>1, <4>2
      <3> QED BY <3>1, <3>2
    <2> QED BY <1>0, <2>1, PagesTyped DEF SubRecords
  <1>15. ViewReads'
    <2>1. ASSUME NEW q \in Live(view') PROVE Reads(q, view[q])'
      <3>1. CASE q = p
        BY <1>0, <1>2, <3>1 DEF Reads
      <3>2. CASE q # p /\ q \in Live(view) /\ view'[q] = view[q] /\ (q = 1 => c[1] = cache[1])
        <4>1. Reads(q, view[q])
          BY <1>0, <3>2 DEF JInv, ViewReads
        <4> QED BY <1>13c, <3>2, <4>1
      <3>3. CASE q # p /\ q = 1 /\ view'[1] = c[1].data /\ cache[1].dirty /\ ~cache[1].dontWrite
        <4>1. 1 \in DOMAIN cache' /\ cache'[1].data = view'[1] /\ cache'[1].dirty
              /\ ~cache'[1].dontWrite
          BY <1>2, <1>13d, <3>3
        <4> QED BY <3>3, <4>1 DEF Reads
      <3> QED BY <3>1, <3>2, <3>3 DEF Shown
    <2> QED BY <2>1 DEF ViewReads, Live
  <1>16. BegunKept'
    <2>1. ASSUME NEW q \in Live(begun)
          PROVE  /\ eState' \in {"READER", "LOCKED", "CACHEMOD"} => file[q] = begun[q]
                 /\ q \notin inJournal' =>
                       file[q] = begun[q] /\ (q \in DOMAIN cache' => cache'[q].data = begun[q])
                 /\ q \in inJournal' =>
                       \E o \in Records' : /\ jfile'[o + 1] = Record(q, begun[q])
                                           /\ file[q] = begun[q] \/ o < journalHdr
      <3>1. /\ eState \in {"READER", "LOCKED", "CACHEMOD"} => file[q] = begun[q]
            /\ q \notin inJournal =>
                  file[q] = begun[q] /\ (q \in DOMAIN cache => cache[q].data = begun[q])
            /\ q \in inJournal =>
                  \E o \in Records : /\ jfile[o + 1] = Record(q, begun[q])
                                     /\ file[q] = begun[q] \/ o < journalHdr
        BY DEF JInv, BegunKept
      <3>2. q \in 1 .. Len(begun)
        BY DEF Live
      <3>3. ASSUME q \notin inJournal'
            PROVE  file[q] = begun[q] /\ (q \in DOMAIN cache' => cache'[q].data = begun[q])
        <4>1. q \notin inJournal /\ q # p
          BY <1>0, <3>2, <3>3 DEF Adds
        <4>2. q # 1 \/ c[1] = cache[1]
          BY <1>13d, <4>1
        <4> QED BY <1>13c, <3>1, <4>1, <4>2
      <3>4. ASSUME q \in inJournal'
            PROVE  \E o \in Records' : /\ jfile'[o + 1] = Record(q, begun[q])
                                       /\ file[q] = begun[q] \/ o < journalHdr
        <4>1. CASE q \in inJournal
          <5>1. PICK o \in Records : /\ jfile[o + 1] = Record(q, begun[q])
                                     /\ file[q] = begun[q] \/ o < journalHdr
            BY <3>1, <4>1
          <5>2. o \in Records' /\ jfile'[o + 1] = jfile[o + 1]
            BY <1>3, <5>1
          <5> QED BY <5>1, <5>2
        <4>2. CASE q \notin inJournal
          <5>1. q = p /\ file[p] = begun[p]
            BY <1>0, <3>1, <3>4, <4>2
          <5>2. p \notin inJ /\ c[p].data = begun[p]
            BY <4>2, <5>1 DEF Prepared
          <5>3. Adds(inJ, p)
            BY <1>0, <3>2, <5>1, <5>2 DEF Adds
          <5>4. PICK o \in Records' : jfile'[o + 1] = Record(p, c[p].data)
            BY <1>3, <5>3
          <5> QED BY <5>1, <5>2, <5>4
        <4> QED BY <4>1, <4>2
      <3> QED BY <1>0, <3>1, <3>3, <3>4
    <2>2. UNCHANGED <<file, begun, journalHdr>> /\ Live(begun)' = Live(begun)
      BY <1>0, <1>3 DEF Live
    <2>3. \A q, v : Record(q, v)' = Record(q, v)
      BY DEF Record
    <2> QED BY <2>1, <2>2, <2>3 DEF BegunKept
  <1>17. SavedKept'
    <2>1. ASSUME NEW i \in DOMAIN saved, NEW q \in Live(saved[i]), NEW s, NEW t, NEW v,
                 s = savepoints[i], t = savepoints'[i], v = saved[i][q]
          PROVE  /\ q \notin t.inSavepoint =>
                       Reads(q, v)' /\ MainSince(t, q)' = {} /\ SubSince(t, q)' = {}
                 /\ q \in t.inSavepoint => Copied(t, q, v)'
                 /\ q \in DOMAIN cache' /\ cache'[q].dirty => ~cache'[q].dontWrite
      <3>1. /\ q \notin s.inSavepoint =>
                  Reads(q, v) /\ MainSince(s, q) = {} /\ SubSince(s, q) = {}
            /\ q \in s.inSavepoint => Copied(s, q, v)
            /\ q \in DOMAIN cache /\ cache[q].dirty => ~cache[q].dontWrite
        BY <2>1 DEF JInv, SavedKept
      <3>2. /\ SameMark(s, t) /\ s \in Savepoints
            /\ q # p => (q \in t.inSavepoint <=> q \in s.inSavepoint)
            /\ p \in s.inSavepoint => p \in t.inSavepoint
            /\ p <= s.nOrig => p \in t.inSavepoint
            /\ c[1] # cache[1] => 1 \in s.inSavepoint
        BY <1>4, <1>5, <1>13d, <2>1
      <3>3. t.iOffset = s.iOffset /\ t.iSubRec = s.iSubRec /\ s.iOffset \in Nat /\ s.iSubRec \in Nat
        BY <3>2 DEF SameMark, Savepoints
      <3>4. q <= s.nOrig /\ q \in 1 .. Len(saved[i]) /\ s.iSubRec <= Len(sub)
        BY <1>5, <2>1 DEF JInv, Sizes, Nested, Live
      <3>5. q \in DOMAIN cache' /\ cache'[q].dirty => ~cache'[q].dontWrite
        BY <1>2, <3>1
      <3>6. ~Adds(inJ, p) => MainSince(t, q)' = MainSince(s, q)
        <4>1. ASSUME ~Adds(inJ, p) PROVE Records' = Records
          BY <1>3, <4>1
        <4> QED BY <1>3, <3>3, <4>1 DEF MainSince
      <3>7. /\ \A o \in MainSince(s, q) : o \in MainSince(t, q)' /\ jfile'[o + 1] = jfile[o + 1]
            /\ \A k \in SubSince(s, q) : k \in SubSince(t, q)' /\ sub'[k] = sub[k]
            /\ \A k \in SubSince(t, q)' \ SubSince(s, q) : k = Len(sub) + 1 /\ q = p
        <4>1. \A o \in MainSince(s, q) : o \in MainSince(t, q)' /\ jfile'[o + 1] = jfile[o + 1]
          <5>1. \A o \in Records : o \in Records' /\ jfile'[o + 1] = jfile[o + 1]
            BY <1>3
          <5> QED BY <3>3, <5>1 DEF MainSince
        <4>2. \A k \in SubSince(s, q) : k \in SubSince(t, q)' /\ sub'[k] = sub[k]
          BY <1>6, <3>3 DEF SubSince
        <4>3. ASSUME NEW k \in SubSince(t, q)' \ SubSince(s, q)
              PROVE  k = Len(sub) + 1 /\ q = p
          <5>1. k \in DOMAIN sub' \ DOMAIN sub /\ sub'[k].pgno = q
            BY <1>6, <3>3, <4>3 DEF SubSince
          <5>2. k = Len(sub) + 1 /\ sub'[k] = Record(p, c[p].data)
            BY <1>6, <5>1, Zenon
          <5> QED BY <5>1, <5>2, RecordFields
        <4> QED BY <4>1, <4>2, <4>3
      <3>8. CASE q # p
        <4>1. MainSince(t, q)' = MainSince(s, q)
          <5>1. CASE Adds(inJ, p)
            <6>1. PICK o1 \in Nat \ Records :
                     Records' = Records \cup {o1} /\ jfile'[o1 + 1] = Record(p, c[p].data)
              BY <1>3, <5>1
            <6>2. jfile'[o1 + 1].pgno = p
              BY <6>1, RecordFields
            <6>3. \A o \in MainSince(t, q)' : o \in MainSince(s, q)
              BY <1>3, <3>3, <3>8, <6>1, <6>2 DEF MainSince
            <6> QED BY <3>7, <6>3
          <5> QED BY <3>6, <5>1
        <4>2. SubSince(t, q)' = SubSince(s, q)
          BY <3>7, <3>8
        <4>3. q \notin t.inSavepoint => Reads(q, v)'
          <5>1. ASSUME q \notin t.inSavepoint PROVE q # 1 \/ c[1] = cache[1]
            BY <3>2, <3>8, <5>1
          <5> QED BY <1>13c, <3>1, <3>2, <3>8, <5>1
        <4>4. Copied(s, q, v) => Copied(t, q, v)'
          BY <3>7, <4>1, <4>2 DEF Copied
        <4> QED BY <3>1, <3>2, <3>5, <3>8, <4>1, <4>2, <4>3, <4>4
      <3>9. CASE q = p
        <4>1. p \in t.inSavepoint
          BY <3>2, <3>4, <3>9
        <4>2. CASE p \in s.inSavepoint
          <5>1. Copied(s, p, v)
            BY <3>1, <3>9, <4>2
          <5>2. ~Adds(inJ, p)
            <6>1. CASE \E o \in MainSince(s, p) : jfile[o + 1].data = v
              <7>1. p \in inJournal
                BY <6>1 DEF MainSince, JInv, MainRecords
              <7> QED BY <7>1 DEF Adds, Prepared
            <6>2. CASE \E k \in SubSince(s, p) : sub[k].data = v
              <7>1. p \in inJournal \/ p > Len(begun)
                BY <6>2 DEF SubSince, JInv, SubRecords
              <7> QED BY <1>0, <7>1 DEF Adds, Prepared
            <6> QED BY <5>1, <6>1, <6>2 DEF Copied
          <5>3. MainSince(t, p)' = MainSince(s, p)
            BY <3>6, <3>9, <5>2
          <5>4. \A k \in SubSince(s, p) : k <= Len(sub) + 1
            BY <1>5 DEF SubSince
          <5>5. Copied(t, p, v)'
            BY <3>7, <3>9, <5>1, <5>3, <5>4 DEF Copied
          <5> QED BY <3>5, <3>9, <4>1, <5>5
        <4>3. CASE p \notin s.inSavepoint
          <5>1. MainSince(s, p) = {} /\ SubSince(s, p) = {}
            BY <3>1, <3>9, <4>3
          <5>2. p \notin sps[i].inSavepoint /\ c[p].data = v
            BY <1>5, <2>1, <3>9, <4>3 DEF Prepared
          <5>3. CASE Adds(inJ, p)
            <6>1. PICK o1 \in Records' : jfile'[o1 + 1] = Record(p, c[p].data) /\ s.iOffset <= o1
              BY <1>3, <1>5, <2>1, <5>3
            <6>2. jfile'[o1 + 1].pgno = p /\ jfile'[o1 + 1].data = v
              BY <5>2, <6>1, RecordFields
            <6>3. o1 \in MainSince(t, p)'
              BY <3>3, <6>1, <6>2 DEF MainSince, Records, RecordsOf
            <6>4. Copied(t, p, v)'
              BY <6>2, <6>3 DEF Copied
            <6> QED BY <3>5, <3>9, <4>1, <6>4
          <5>4. CASE ~Adds(inJ, p)
            <6>1. sub' = Append(sub, Record(p, c[p].data))
              BY <1>4, <1>5, <2>1, <3>4, <3>9, <5>2, <5>4
            <6>2. Len(sub) + 1 \in DOMAIN sub' /\ sub'[Len(sub) + 1] = Record(p, c[p].data)
              <7> DEFINE b == Record(p, c[p].data)
              <7>1. b \in RecordBlocks
                BY <1>0, PageDataTyped
              <7> HIDE DEF b
              <7>2. sub' = Append(sub, b)
                BY <6>1 DEF b
              <7>3. Len(sub) + 1 \in DOMAIN sub' /\ sub'[Len(sub) + 1] = b
                BY <1>5, <7>1, <7>2
              <7> QED BY <7>3 DEF b
            <6>3. sub'[Len(sub) + 1].pgno = p /\ sub'[Len(sub) + 1].data = v
              BY <5>2, <6>2, RecordFields
            <6>4. Len(sub) + 1 \in SubSince(t, p)'
              BY <1>5, <3>3, <3>4, <6>2, <6>3 DEF SubSince
            <6>5. \A k \in SubSince(t, p)' : k = Len(sub) + 1
              BY <3>7, <3>9, <5>1
            <6>6. MainSince(t, p)' = {}
              BY <3>6, <3>9, <5>1, <5>4
            <6>7. Copied(t, p, v)'
              BY <1>5, <6>3, <6>4, <6>5, <6>6 DEF Copied
            <6> QED BY <3>5, <3>9, <4>1, <6>7
          <5> QED BY <5>3, <5>4
        <4> QED BY <4>2, <4>3
      <3> QED BY <3>8, <3>9
    <2> QED BY <1>0, <2>1 DEF SavedKept, Live
  <1> QED BY <1>0, <1>2, <1>7, <1>8, <1>9, <1>10, <1>11, <1>12, <1>13, <1>14, <1>15, <1>16, <1>17 DEF JInv

LEMMA FailureKeeps ==
    ASSUME JInv, JournalAssumption, NEW c, NEW inJ, NEW sps, NEW p, NEW d,
           Prepared(c, inJ, sps, p), Shown(c, p, d), Failure(c, inJ, sps, p)
    PROVE  JInv'
  <1>1. /\ p \in 1 .. bound.pages /\ p <= dbSize /\ dbSize \in Nat
        /\ c[p].data \in PageData(p)
        /\ rc' = "NOMEM" /\ eState \in {"LOCKED", "CACHEMOD", "DBMOD"}
        /\ eState' = (IF eState = "LOCKED" THEN "CACHEMOD" ELSE eState)
        /\ eState' \in {"CACHEMOD", "DBMOD"}
        /\ UNCHANGED <<bound, file, dbFileSize, dbOrigSize, hasContent, begun, saved, dbSize, sub>>
        /\ jOpen' = TRUE /\ inJournal' = inJ /\ savepoints' = sps
        /\ inJournal \subseteq inJ /\ inJ \subseteq inJournal \cup {p}
        /\ IsImage(view') /\ FreedKept' /\ Len(view') = dbSize
    <2>1. p \in 1 .. bound.pages /\ c[p].data \in PageData(p)
          /\ inJournal \subseteq inJ /\ inJ \subseteq inJournal \cup {p}
      BY DEF Prepared, Frames
    <2>2. /\ rc' = "NOMEM" /\ eState \in {"LOCKED", "CACHEMOD", "DBMOD"}
          /\ eState' = (IF eState = "LOCKED" THEN "CACHEMOD" ELSE eState)
          /\ UNCHANGED <<bound, file, dbFileSize, dbOrigSize, hasContent, begun, saved, dbSize, sub>>
          /\ jOpen' = TRUE /\ inJournal' = inJ /\ savepoints' = sps
          /\ p <= dbOrigSize
      BY DEF Failure, Shown, Adds
    <2>3. p <= dbSize /\ dbSize \in Nat
      <3>1. dbOrigSize = Len(begun) /\ Len(begun) <= dbSize /\ dbSize = Len(view)
        BY <2>2 DEF JInv, Sizes
      <3>2. Len(view) \in Nat /\ Len(begun) \in Nat
        BY DEF JInv, ImagesOK, IsImage
      <3> QED BY <2>1, <2>2, <3>1, <3>2, PagesPositive DEF JInv
    <2>4. IsImage(view') /\ FreedKept' /\ Len(view') = dbSize
      BY <2>1, <2>3, PagesPositive DEF Shown, MAX, JInv
    <2> QED BY <2>1, <2>2, <2>3, <2>4
  <1>2. PICK sync \in BOOLEAN :
           /\ cache' = [c EXCEPT ![p] = [data |-> c[p].data, dirty |-> TRUE, needSync |-> sync,
                                         dontWrite |-> FALSE]]
           /\ c[p].needSync => sync
    BY DEF Failure
  <1>3. /\ CacheOK' /\ DOMAIN cache' = DOMAIN cache \cup {p}
        /\ cache'[p].data = c[p].data /\ cache'[p].dirty /\ ~cache'[p].dontWrite
        /\ cache'[p].needSync = sync
        /\ \A q \in DOMAIN cache' \ {p} :
              /\ q \in DOMAIN cache /\ cache'[q] = c[q]
              /\ cache'[q].dirty = cache[q].dirty /\ cache'[q].needSync = cache[q].needSync
              /\ cache'[q].dontWrite = cache[q].dontWrite
              /\ q # 1 => cache'[q] = cache[q]
    <2> DEFINE new == [data |-> c[p].data, dirty |-> TRUE, needSync |-> sync, dontWrite |-> FALSE]
    <2>1. bound' = bound /\ eState' \notin {"READER", "LOCKED", "FINISHED"}
      BY <1>1
    <2>2. new \in Frames(p) /\ new.dirty /\ new.data = c[p].data /\ ~new.dontWrite
          /\ new.needSync = sync
      BY <1>1 DEF Frames
    <2>3. Dirtied(c, p, new)
      BY <1>2 DEF Dirtied
    <2> HIDE DEF new
    <2>4. CacheOK' /\ OnlyDirtied(c, p, new)
      BY <2>1, <2>2, <2>3, DirtiedCache
    <2> QED BY <2>2, <2>4 DEF OnlyDirtied
  <1>4. /\ jfile' \in Seq(Blocks) /\ journalHdr' = journalHdr /\ journalHdr \in Nat /\ nRec' \in Nat
        /\ Chained(jfile', journalHdr') /\ Filling(jfile', journalHdr', nRec')
        /\ journalOff' = Len(jfile')
        /\ Records' = Records /\ \A o \in Records : jfile'[o + 1] = jfile[o + 1]
        /\ \A i \in DOMAIN savepoints : MarkIn(savepoints[i], jfile', journalHdr')
    <2>1. rc = "OK" /\ eState \in {"LOCKED", "CACHEMOD", "DBMOD"} /\ jfile' = OpenedJournal
          /\ nRec' = (IF eState = "LOCKED" THEN 0 ELSE nRec)
          /\ journalOff' = (IF eState = "LOCKED" THEN 1 ELSE journalOff)
          /\ journalHdr' = IF eState = "LOCKED" THEN 0 ELSE journalHdr
      BY DEF Failure
    <2> QED BY <2>1, Opened DEF Records
  <1>5. /\ savepoints \in Seq(Savepoints) /\ sps \in Seq(Savepoints) /\ Len(sps) = Len(savepoints)
        /\ DOMAIN sps = DOMAIN savepoints
        /\ Len(saved) = Len(savepoints) /\ DOMAIN saved = DOMAIN savepoints
        /\ sub \in Seq(RecordBlocks)
        /\ \A i \in DOMAIN savepoints : SameMark(savepoints[i], sps[i])
    BY DEF JInv, JournalOK, ImagesOK, Prepared
  <1>6. 1 \in DOMAIN cache /\ (c[1] # cache[1] =>
             /\ 1 \in inJournal /\ \A i \in DOMAIN savepoints : 1 \in savepoints[i].inSavepoint)
    BY DEF Prepared, JInv, CacheOK
  <1>7. eState = "LOCKED" => Records = {} /\ DOMAIN sub = {}
    BY NewJournal DEF JInv, Unwritten, Records, RecordsOf
  <1>8. ASSUME NEW q \in DOMAIN cache
        PROVE  /\ q \in DOMAIN cache' /\ (cache[q].needSync => cache'[q].needSync)
               /\ cache[q].dirty => cache'[q].dirty
    <2>1. CASE q = p
      <3>1. c[p].needSync = cache[p].needSync
        BY <2>1 DEF Prepared
      <3> QED BY <1>2, <1>3, <2>1, <3>1
    <2>2. CASE q # p
      BY <1>3, <2>2
    <2> QED BY <2>1, <2>2
  <1>9. ASSUME NEW q, q # p, q # 1 \/ c[1] = cache[1]
        PROVE  /\ q \in DOMAIN cache' => q \in DOMAIN cache /\ cache'[q] = cache[q]
               /\ \A v : Reads(q, v) => Reads(q, v)'
    <2>1. q \in DOMAIN cache' => q \in DOMAIN cache /\ cache'[q] = cache[q]
      BY <1>3, <1>9
    <2>2. q \in DOMAIN cache => q \in DOMAIN cache'
      BY <1>3
    <2> QED BY <1>1, <2>1, <2>2 DEF Reads
  <1>10. States' /\ FileOK' /\ ImagesOK' /\ JournalOK'
    <2>1. States'
      BY <1>1 DEF JInv, States
    <2>2. FileOK'
      BY <1>1, FileSame DEF JInv
    <2>3. ImagesOK'
      <3>1. IsImage(view)' /\ IsImage(begun)'
        BY <1>1 DEF JInv, ImagesOK, IsImage
      <3>2. \A i \in DOMAIN saved' : IsImage(saved[i])'
        BY <1>1 DEF JInv, ImagesOK, IsImage
      <3> QED BY <1>1, <1>5, <3>1, <3>2 DEF JInv, ImagesOK
    <2>4. JournalOK'
      <3>1. inJ \subseteq Nat
        BY <1>1, PagesPositive DEF JInv, JournalOK
      <3> QED BY <1>1, <1>4, <1>5, <3>1 DEF JInv, JournalOK, NoBitvec
    <2> QED BY <2>1, <2>2, <2>3, <2>4
  <1>11. Sizes'
    <2>1. \A i \in DOMAIN savepoints : sps[i].nOrig = savepoints[i].nOrig
      BY <1>5 DEF SameMark
    <2> QED BY <1>1, <1>5, <2>1 DEF JInv, Sizes
  <1>12. Unwritten' /\ Layout'
    BY <1>1, <1>4 DEF Unwritten, Layout
  <1>13. Marks'
    BY <1>1, <1>4, <1>5, MarkInSame DEF Marks, SameMark
  <1>14. Nested'
    <2>1. \A i \in DOMAIN savepoints : sps[i].iOffset = savepoints[i].iOffset
                                       /\ sps[i].iSubRec = savepoints[i].iSubRec
      BY <1>5 DEF SameMark
    <2>2. \A i \in DOMAIN savepoints : \A j \in 1 .. i : j \in DOMAIN savepoints
      BY <1>5
    <2> QED BY <1>1, <1>5, <2>1, <2>2 DEF JInv, Nested
  <1>15. MainRecords'
    <2>1. ASSUME NEW o \in Records
          PROVE  LET r == jfile[o + 1] IN
                 /\ jfile'[o + 1] = r /\ r \in RecordBlocks
                 /\ r.pgno \in inJournal' /\ r.pgno \in 1 .. Len(begun)
                 /\ r.data \in PageData(r.pgno)
                 /\ o >= journalHdr => r.pgno \in DOMAIN cache' /\ cache'[r.pgno].needSync
                 /\ eState' = "CACHEMOD" => r.pgno \in DOMAIN cache' /\ cache'[r.pgno].dirty
      <3> DEFINE r == jfile[o + 1]
      <3>1. /\ r \in RecordBlocks /\ r.pgno \in inJournal
            /\ r.pgno \in 1 .. Len(begun) /\ r.data \in PageData(r.pgno)
            /\ o >= journalHdr => r.pgno \in DOMAIN cache /\ cache[r.pgno].needSync
            /\ eState = "CACHEMOD" => r.pgno \in DOMAIN cache /\ cache[r.pgno].dirty
        BY DEF JInv, MainRecords
      <3>2. jfile'[o + 1] = r /\ r.pgno \in inJournal'
        BY <1>1, <1>4, <3>1
      <3> HIDE DEF r
      <3> QED BY <1>1, <1>7, <1>8, <3>1, <3>2 DEF r
    <2>2. \A o, q \in Records : jfile[o + 1].pgno = jfile[q + 1].pgno => o = q
      BY DEF JInv, MainRecords
    <2>3. \A o, q \in Records' : jfile'[o + 1].pgno = jfile'[q + 1].pgno => o = q
      BY <1>4, <2>2
    <2> QED BY <1>1, <1>4, <2>1, <2>3, PagesTyped DEF MainRecords
  <1>16. SubRecords'
    <2>1. ASSUME NEW k \in DOMAIN sub
          PROVE  LET r == sub[k] IN
                 /\ r.pgno \in inJournal' \/ r.pgno > Len(begun)
                 /\ r.pgno \in 1 .. bound.pages /\ r.data \in PageData(r.pgno)
                 /\ eState' = "CACHEMOD" => r.pgno \in DOMAIN cache' /\ cache'[r.pgno].dirty
      BY <1>1, <1>7, <1>8 DEF JInv, SubRecords
    <2> QED BY <1>1, <2>1, PagesTyped DEF SubRecords
  <1>17. ViewReads'
    BY <1>1 DEF ViewReads
  <1>18. BegunKept'
    <2>1. ASSUME NEW q \in Live(begun)
          PROVE  /\ eState' \in {"READER", "LOCKED", "CACHEMOD"} => file[q] = begun[q]
                 /\ q \notin inJ =>
                       file[q] = begun[q] /\ (q \in DOMAIN cache' => cache'[q].data = begun[q])
                 /\ q \in inJ =>
                       \E o \in Records : /\ jfile[o + 1] = Record(q, begun[q])
                                          /\ file[q] = begun[q] \/ o < journalHdr
      <3>1. /\ eState \in {"READER", "LOCKED", "CACHEMOD"} => file[q] = begun[q]
            /\ q \notin inJournal =>
                  file[q] = begun[q] /\ (q \in DOMAIN cache => cache[q].data = begun[q])
            /\ q \in inJournal =>
                  \E o \in Records : /\ jfile[o + 1] = Record(q, begun[q])
                                     /\ file[q] = begun[q] \/ o < journalHdr
        BY DEF JInv, BegunKept
      <3>2. ASSUME q \notin inJ
            PROVE  file[q] = begun[q] /\ (q \in DOMAIN cache' => cache'[q].data = begun[q])
        <4>1. q \notin inJournal
          BY <1>1, <3>2
        <4>2. CASE q = p
          <5>1. c[p].data = begun[p]
            BY <3>2, <4>2 DEF Prepared
          <5> QED BY <1>3, <3>1, <4>1, <4>2, <5>1
        <4>3. CASE q # p
          <5>1. q # 1 \/ c[1] = cache[1]
            BY <1>6, <4>1
          <5> QED BY <1>9, <3>1, <4>1, <4>3, <5>1
        <4> QED BY <4>2, <4>3
      <3>3. ASSUME q \in inJ PROVE q \in inJournal
        BY <1>1, <3>3 DEF Prepared
      <3> QED BY <1>1, <3>1, <3>2, <3>3
    <2>2. UNCHANGED <<file, begun, journalHdr>> /\ Live(begun)' = Live(begun)
      BY <1>1, <1>4 DEF Live
    <2>3. \A q, v : Record(q, v)' = Record(q, v)
      BY DEF Record
    <2> QED BY <1>1, <1>4, <2>1, <2>2, <2>3 DEF BegunKept
  <1>19. SavedKept'
    <2>1. ASSUME NEW i \in DOMAIN saved, NEW q \in Live(saved[i]), NEW s, NEW t, NEW v,
                 s = savepoints[i], t = sps[i], v = saved[i][q]
          PROVE  /\ q \notin t.inSavepoint =>
                       Reads(q, v)' /\ MainSince(t, q)' = {} /\ SubSince(t, q)' = {}
                 /\ q \in t.inSavepoint => Copied(t, q, v)'
                 /\ q \in DOMAIN cache' /\ cache'[q].dirty => ~cache'[q].dontWrite
      <3>1. /\ q \notin s.inSavepoint =>
                  Reads(q, v) /\ MainSince(s, q) = {} /\ SubSince(s, q) = {}
            /\ q \in s.inSavepoint => Copied(s, q, v)
            /\ q \in DOMAIN cache /\ cache[q].dirty => ~cache[q].dontWrite
        BY <2>1 DEF JInv, SavedKept
      <3>2. /\ t.iOffset = s.iOffset /\ t.iSubRec = s.iSubRec
            /\ c[1] # cache[1] => 1 \in s.inSavepoint
        BY <1>5, <1>6, <2>1 DEF SameMark
      <3>3. MainSince(t, q)' = MainSince(s, q) /\ SubSince(t, q)' = SubSince(s, q)
        BY <1>1, <1>4, <3>2 DEF MainSince, SubSince
      <3>4. Copied(s, q, v) => Copied(t, q, v)'
        <4>1. \A o \in MainSince(s, q) : jfile'[o + 1] = jfile[o + 1]
          BY <1>4 DEF MainSince
        <4> QED BY <1>1, <3>3, <4>1 DEF Copied
      <3>5. q \in DOMAIN cache' /\ cache'[q].dirty => ~cache'[q].dontWrite
        BY <1>3, <3>1
      <3>6. q \in t.inSavepoint <=> q \in s.inSavepoint
        BY <1>5, <2>1 DEF Prepared
      <3>7. ASSUME q \notin t.inSavepoint PROVE Reads(q, v)'
        <4>1. CASE q = p
          <5>1. cache'[p].data = v
            BY <1>3, <1>5, <2>1, <3>7, <4>1 DEF Prepared
          <5> QED BY <1>3, <4>1, <5>1 DEF Reads
        <4>2. CASE q # p
          <5>1. q # 1 \/ c[1] = cache[1]
            BY <3>2, <3>6, <3>7
          <5> QED BY <1>9, <3>1, <3>6, <3>7, <4>2, <5>1
        <4> QED BY <4>1, <4>2
      <3> QED BY <3>1, <3>3, <3>4, <3>5, <3>6, <3>7
    <2> QED BY <1>1, <2>1 DEF SavedKept, Live
  <1> QED BY <1>1, <1>3, <1>10, <1>11, <1>12, <1>13, <1>14, <1>15, <1>16, <1>17, <1>18, <1>19 DEF JInv

LEMMA UnopenedKeeps ==
    ASSUME JInv, JournalAssumption, NEW c, NEW p, NEW d, Shown(c, p, d), Unopened,
           p \in Nat
    PROVE  JInv'
  <1>1. /\ rc' = "NOMEM" /\ eState = "LOCKED" /\ jOpen' = TRUE /\ journalHdr' = 0
        /\ jfile' = << >> /\ journalOff' = 1 /\ nRec' = 0 /\ inJournal' = {}
        /\ UNCHANGED <<bound, file, dbFileSize, dbOrigSize, hasContent, begun, saved, dbSize, sub,
                       eState, savepoints, cache>>
        /\ IsImage(view') /\ FreedKept' /\ Len(view') = dbSize /\ dbSize = Len(view)
    <2>1. /\ rc' = "NOMEM" /\ eState = "LOCKED" /\ jOpen' = TRUE /\ journalHdr' = 0
          /\ jfile' = << >> /\ journalOff' = 1 /\ nRec' = 0 /\ inJournal' = {}
          /\ UNCHANGED <<bound, file, dbFileSize, dbOrigSize, hasContent, begun, saved, dbSize, sub,
                         eState, savepoints, cache>>
          /\ IsImage(view') /\ FreedKept'
          /\ Len(view') = MAX(dbSize, p) /\ ~(p > dbSize)
      BY DEF Unopened, Shown
    <2>2. dbSize = Len(view) /\ Len(view) \in Nat
      BY DEF JInv, Sizes, ImagesOK, IsImage
    <2> QED BY <2>1, <2>2 DEF MAX
  <1>2. /\ jfile = << >> /\ inJournal = {} /\ sub = << >> /\ journalHdr = 0
        /\ Records = {} /\ Records' = {}
    <2>1. jfile = << >> /\ inJournal = {} /\ sub = << >> /\ journalHdr = 0
      BY <1>1 DEF JInv, Unwritten
    <2> QED BY <1>1, <2>1, NewJournal DEF Records, RecordsOf
  <1>3. States' /\ FileOK' /\ CacheOK' /\ JournalOK'
    <2>1. States'
      BY <1>1 DEF JInv, States
    <2>2. FileOK'
      BY <1>1, FileSame DEF JInv
    <2>3. CacheOK'
      BY <1>1, CacheSame DEF JInv
    <2>4. JournalOK'
      BY <1>1, <1>2 DEF JInv, JournalOK, NoBitvec
    <2> QED BY <2>1, <2>2, <2>3, <2>4
  <1>4. ImagesOK'
    BY <1>1 DEF JInv, ImagesOK, IsImage
  <1>5. Sizes'
    BY <1>1 DEF JInv, Sizes
  <1>6. Unwritten'
    BY <1>1, <1>2 DEF JInv, Unwritten, Sizes
  <1>7. Layout' /\ Marks' /\ Nested'
    BY <1>1, <1>2 DEF JInv, Layout, Marks, Nested
  <1>8. MainRecords' /\ SubRecords' /\ ViewReads'
    BY <1>1, <1>2 DEF MainRecords, SubRecords, ViewReads
  <1>9. BegunKept'
    BY <1>1, <1>2 DEF JInv, BegunKept, Live
  <1>10. SavedKept'
    <2>1. ASSUME NEW s, NEW q
          PROVE  /\ MainSince(s, q)' = {} /\ MainSince(s, q) = {}
                 /\ SubSince(s, q)' = SubSince(s, q)
      BY <1>1, <1>2 DEF MainSince, SubSince
    <2>2. ASSUME NEW s, NEW q, NEW v, Copied(s, q, v) PROVE Copied(s, q, v)'
      BY <1>1, <2>1, <2>2 DEF Copied
    <2>3. ASSUME NEW q, NEW v, Reads(q, v) PROVE Reads(q, v)'
      BY <1>1, <2>3 DEF Reads
    <2> QED BY <1>1, <2>1, <2>2, <2>3 DEF JInv, SavedKept, Live
  <1> QED BY <1>1, <1>3, <1>4, <1>5, <1>6, <1>7, <1>8, <1>9, <1>10 DEF JInv

\* Whatever pager_write does.
LEMMA WriteKeeps ==
    ASSUME JInv, JournalAssumption, NEW c, NEW inJ, NEW sps, NEW p, NEW d \in PageData(p),
           Prepared(c, inJ, sps, p), Shown(c, p, d), PagerWrite(c, inJ, sps, p, d)
    PROVE  JInv'
  <1>1. (\A q \in DOMAIN c : c[q].needSync \in BOOLEAN) /\ p \in DOMAIN c
    BY DEF Prepared, Frames
  <1>2. p \in Nat
    BY PagesPositive DEF JInv, Prepared
  <1>3. Success(c, inJ, sps, p, d) \/ Failure(c, inJ, sps, p) \/ Unopened
    BY <1>1, PagerWriteCases
  <1>4. CASE Success(c, inJ, sps, p, d)
    BY <1>4, SuccessKeeps
  <1>5. CASE Failure(c, inJ, sps, p)
    BY <1>5, FailureKeeps
  <1>6. CASE Unopened
    BY <1>2, <1>6, UnopenedKeeps
  <1> QED BY <1>3, <1>4, <1>5, <1>6

\* WritePage: the client changes a page.
LEMMA WritePageKeeps ==
    ASSUME JInv, JournalAssumption, NEW p, NEW d, WritePage(p, d),
           (p = 1 /\ d = view[1]) \/ (p # 1 /\ d \in Data)
    PROVE  JInv'
  <1>1. /\ p \in Live(view) /\ p \in DOMAIN cache /\ PagerWrite(cache, inJournal, savepoints, p, d)
        /\ view' = [view EXCEPT ![p] = d]
        /\ UNCHANGED <<bound, hasContent, begun, saved>>
    BY DEF WritePage
  <1>2. rc = "OK"
    BY <1>1 DEF PagerWrite
  <1>3. /\ p \in 1 .. Len(view) /\ p \in 1 .. bound.pages /\ IsImage(view) /\ dbSize = Len(view)
        /\ 1 \in Live(view) /\ view[1] \in PageData(1) /\ Len(view) \in Nat
    <2>1. IsImage(view) /\ dbSize = Len(view)
      BY DEF JInv, ImagesOK, Sizes
    <2>2. 1 \in Live(view)
      BY <2>1, OneLive
    <2>3. p \in 1 .. Len(view) /\ p \in 1 .. bound.pages /\ view[1] \in PageData(1)
      BY <1>1, <2>1, <2>2, LiveData DEF JInv
    <2> QED BY <2>1, <2>2, <2>3 DEF IsImage
  <1>4. d \in PageData(p) /\ (p = 1 => d = view[1]) /\ (p # 1 => d \in Data)
    BY <1>3 DEF PageData
  <1>5. Prepared(cache, inJournal, savepoints, p)
    <2>1. /\ cache = [q \in DOMAIN cache |-> cache[q]] /\ DOMAIN cache = DOMAIN cache \cup {p}
          /\ \A q \in DOMAIN cache : cache[q] \in Frames(q) /\ (cache[q].needSync => cache[q].dirty)
      BY <1>1 DEF JInv, CacheOK
    <2>2. savepoints \in Seq(Savepoints) /\ DOMAIN saved = DOMAIN savepoints
      BY DEF JInv, JournalOK, ImagesOK
    <2>3. ASSUME NEW i \in DOMAIN savepoints, p \in Live(saved[i]), p \notin savepoints[i].inSavepoint
          PROVE  cache[p].data = saved[i][p]
      BY <1>1, <2>2, <2>3 DEF JInv, SavedKept, Reads
    <2>4. ASSUME p \notin inJournal, p \in Live(begun) PROVE cache[p].data = begun[p]
      BY <1>1, <2>4 DEF JInv, BegunKept
    <2>5. \A i \in DOMAIN savepoints : SameMark(savepoints[i], savepoints[i])
      BY DEF SameMark
    <2> QED BY <1>3, <2>1, <2>2, <2>3, <2>4, <2>5 DEF Prepared
  <1>6. Shown(cache, p, d)
    <2>1. /\ DOMAIN view' = DOMAIN view /\ Len(view') = Len(view) /\ view'[p] = d
          /\ \A q \in DOMAIN view \ {p} : view'[q] = view[q]
          /\ view' \in Seq(Contents)
      <3>1. view \in Seq(Contents) /\ d \in Contents
        BY <1>3, <1>4, PageDataTyped DEF IsImage
      <3> QED BY <1>1, <1>3, <3>1
    <2>2. view'[1] = view[1]
      BY <1>3, <1>4, <2>1
    <2>3. IsImage(view')
      BY <1>3, <1>4, <2>1, <2>2, SMTT(30) DEF IsImage
    <2>4. FreedKept'
      BY <1>1, <2>2 DEF JInv, FreedKept, Kept, HasContent, Live
    <2>5. Len(view') = MAX(dbSize, p) /\ ~(p > dbSize)
      BY <1>3, <2>1 DEF MAX
    <2>6. \A q \in Live(view') \ {p} : q \in Live(view) /\ view'[q] = view[q]
      BY <2>1, <2>2 DEF Live
    <2> QED BY <1>1, <2>1, <2>3, <2>4, <2>5, <2>6 DEF Shown
  <1> QED BY <1>1, <1>4, <1>5, <1>6, WriteKeeps

\* Page 1 is in both journals as far as it has to be, and dirty.
LEMMA TrunkWriteable ==
    ASSUME JInv, JournalAssumption, Writeable(1)
    PROVE  /\ eState \in {"CACHEMOD", "DBMOD"} /\ 1 \in DOMAIN cache
           /\ cache[1].dirty /\ ~cache[1].dontWrite /\ 1 \in inJournal
           /\ \A i \in DOMAIN savepoints : 1 \in savepoints[i].inSavepoint
  <1>1. /\ eState \in {"CACHEMOD", "DBMOD"} /\ 1 \in DOMAIN cache
        /\ cache[1].dirty /\ ~cache[1].dontWrite /\ (1 \in inJournal \/ 1 > dbOrigSize)
        /\ ~subjRequiresPage(savepoints, 1)
    BY DEF Writeable
  <1>2. dbOrigSize \in Nat /\ dbOrigSize >= 1
    BY PagesPositive DEF JInv, Sizes
  <1>3. \A i \in DOMAIN savepoints : 1 <= savepoints[i].nOrig
    <2>1. \A i \in DOMAIN savepoints : i \in DOMAIN saved /\ savepoints[i].nOrig = Len(saved[i])
      BY DEF JInv, Sizes, ImagesOK, JournalOK
    <2>2. \A i \in DOMAIN saved : Len(saved[i]) \in 1 .. bound.pages
      BY DEF JInv, ImagesOK, IsImage
    <2> QED BY <2>1, <2>2, PagesPositive DEF JInv
  <1> QED BY <1>1, <1>2, <1>3 DEF subjRequiresPage

LEMMA AppendPageKeeps ==
    ASSUME JInv, JournalAssumption, AppendPage
    PROVE  JInv'
  <1> DEFINE p == dbSize + 1
             page == IF p \in DOMAIN cache THEN [cache[p] EXCEPT !.data = zeros] ELSE Clean(zeros)
             c == Cached(cache, p, page)
             sps == addToSavepointBitvecs(savepoints, p)
  <1>1. /\ Writeable(1) /\ view[1] = {} /\ p <= bound.pages
        /\ PagerWrite(c, inJournal, sps, p, zeros)
        /\ view' = Append(view, zeros)
        /\ UNCHANGED <<bound, hasContent, begun, saved>>
    BY DEF AppendPage
  <1>2. /\ IsImage(view) /\ dbSize = Len(view) /\ dbSize \in Nat /\ dbSize >= 1
        /\ dbOrigSize <= dbSize /\ dbOrigSize \in Nat /\ Len(begun) <= dbSize /\ Len(begun) \in Nat
        /\ eState \in {"CACHEMOD", "DBMOD"}
        /\ \A i \in DOMAIN savepoints : /\ Len(saved[i]) <= dbSize /\ Len(saved[i]) \in Nat
                                        /\ savepoints[i].nOrig = Len(saved[i])
        /\ savepoints \in Seq(Savepoints) /\ DOMAIN saved = DOMAIN savepoints
        /\ bound.pages \in Nat /\ view \in Seq(Contents)
    <2>1. eState \in {"CACHEMOD", "DBMOD"}
      BY <1>1, TrunkWriteable
    <2>2. IsImage(view) /\ IsImage(begun) /\ dbSize = Len(view) /\ dbOrigSize = Len(begun)
          /\ Len(begun) <= dbSize
      BY <2>1 DEF JInv, ImagesOK, Sizes
    <2>3. savepoints \in Seq(Savepoints) /\ DOMAIN saved = DOMAIN savepoints
      BY DEF JInv, JournalOK, ImagesOK
    <2>4. \A i \in DOMAIN savepoints : /\ Len(saved[i]) <= dbSize /\ Len(saved[i]) \in Nat
                                       /\ savepoints[i].nOrig = Len(saved[i])
      BY <2>3 DEF JInv, ImagesOK, Sizes, IsImage
    <2> QED BY <2>1, <2>2, <2>3, <2>4, PagesPositive DEF IsImage, JInv
  <1>3. p \in 1 .. bound.pages /\ p # 1 /\ p > dbSize /\ zeros \in PageData(p) /\ zeros \in Contents
    BY <1>1, <1>2 DEF JournalAssumption, PageData, Contents
  <1>4. /\ page \in Frames(p) /\ (page.needSync => page.dirty)
        /\ p \in DOMAIN cache =>
              /\ page.dirty = cache[p].dirty /\ page.needSync = cache[p].needSync
              /\ page.dontWrite = cache[p].dontWrite
    <2>1. CASE p \in DOMAIN cache
      <3>1. cache[p] \in Frames(p) /\ (cache[p].needSync => cache[p].dirty)
        BY <2>1 DEF JInv, CacheOK
      <3>2. page = [cache[p] EXCEPT !.data = zeros]
        BY <2>1
      <3> QED BY <1>3, <3>1, <3>2 DEF Frames
    <2>2. CASE p \notin DOMAIN cache
      BY <1>3, <2>2 DEF Clean, Frames
    <2> QED BY <2>1, <2>2
  <1> HIDE DEF page
  <1>5. /\ DOMAIN c = DOMAIN cache \cup {p} /\ c[p] = page
        /\ \A q \in DOMAIN cache \ {p} : c[q] = cache[q]
        /\ c = [q \in DOMAIN c |-> c[q]]
    BY DEF Cached
  <1>6. /\ sps \in Seq(Savepoints) /\ Len(sps) = Len(savepoints)
        /\ \A i \in DOMAIN savepoints :
              /\ SameMark(savepoints[i], sps[i])
              /\ \A q : q \in sps[i].inSavepoint <=>
                           q \in savepoints[i].inSavepoint \/ (q = p /\ p <= savepoints[i].nOrig)
    <2>1. p \in Nat
      BY <1>2
    <2> QED BY <1>2, <2>1, Bitvecs
  <1> HIDE DEF c, sps
  <1>7. \A i \in DOMAIN savepoints : ~(p <= savepoints[i].nOrig)
    BY <1>2
  <1>8. Prepared(c, inJournal, sps, p)
    <2>1. \A q \in DOMAIN c : c[q] \in Frames(q) /\ (c[q].needSync => c[q].dirty)
      <3>1. \A q \in DOMAIN cache : cache[q] \in Frames(q) /\ (cache[q].needSync => cache[q].dirty)
        BY DEF JInv, CacheOK
      <3> QED BY <1>4, <1>5, <3>1
    <2>2. \A q \in DOMAIN cache :
             /\ c[q].dirty = cache[q].dirty /\ c[q].needSync = cache[q].needSync
             /\ c[q].dontWrite = cache[q].dontWrite
             /\ q \notin {1, p} => c[q] = cache[q]
      BY <1>4, <1>5
    <2>3. c[1] = cache[1]
      <3>1. 1 \in DOMAIN cache
        BY DEF JInv, CacheOK
      <3> QED BY <1>3, <1>5, <3>1
    <2>4. ASSUME NEW i \in DOMAIN savepoints
          PROVE  /\ SameMark(savepoints[i], sps[i])
                 /\ \A q : q \in sps[i].inSavepoint <=> q \in savepoints[i].inSavepoint
                 /\ p \notin Live(saved[i])
      <3>1. p \notin Live(saved[i])
        BY <1>2 DEF Live
      <3>2. \A q : q \in sps[i].inSavepoint <=> q \in savepoints[i].inSavepoint
        BY <1>6, <1>7
      <3> QED BY <1>6, <3>1, <3>2
    <2>5. p \notin Live(begun)
      BY <1>2 DEF Live, JInv, ImagesOK, IsImage
    <2> HIDE DEF p
    <2> QED BY <1>3, <1>5, <1>6, <2>1, <2>2, <2>3, <2>4, <2>5 DEF Prepared
  <1>9. Shown(c, p, zeros)
    <2>1. /\ Len(view') = Len(view) + 1 /\ view'[p] = zeros /\ view' \in Seq(Contents)
          /\ \A q \in 1 .. Len(view) : view'[q] = view[q]
      BY <1>1, <1>2, <1>3
    <2>2. view'[1] = {}
      BY <1>1, <1>2, <2>1
    <2>3. IsImage(view')
      <3>1. ASSUME NEW q \in 2 .. Len(view') PROVE view'[q] \in Data \cup {junk}
        <4>1. CASE q = p
          BY <2>1, <4>1 DEF JournalAssumption
        <4>2. CASE q # p
          <5>1. q \in 2 .. Len(view)
            BY <1>2, <2>1, <4>2
          <5> QED BY <2>1, <5>1, <1>2 DEF IsImage
        <4> QED BY <4>1, <4>2
      <3>2. Len(view') \in 1 .. bound.pages
        BY <1>2, <1>3, <2>1
      <3> QED BY <2>1, <2>2, <3>1, <3>2 DEF IsImage
    <2>4. FreedKept'
      BY <1>1, <2>2 DEF JInv, FreedKept, Kept, HasContent, Live
    <2>5. Len(view') = MAX(dbSize, p)
      BY <1>2, <2>1 DEF MAX
    <2>6. ASSUME NEW q \in Live(view') \ {p}
          PROVE  q \in Live(view) /\ view'[q] = view[q]
      <3>1. q \in 1 .. Len(view')
        BY <2>1 DEF Live
      <3>2. q \in 1 .. Len(view)
        BY <1>2, <2>1, <3>1
      <3> QED BY <1>1, <1>2, <2>1, <3>2 DEF Live
    <2>7. c[1] = cache[1]
      <3>1. 1 \in DOMAIN cache
        BY DEF JInv, CacheOK
      <3> QED BY <1>3, <1>5, <3>1
    <2>8. p > dbOrigSize /\ eState # "LOCKED"
      BY <1>2
    <2> HIDE DEF p
    <2> QED BY <1>1, <2>1, <2>3, <2>4, <2>5, <2>6, <2>7, <2>8 DEF Shown
  <1>10. PagerWrite(c, inJournal, sps, p, zeros)
    BY <1>1 DEF c, sps, page
  <1> HIDE DEF p
  <1> QED BY <1>3, <1>8, <1>9, <1>10, WriteKeeps

LEMMA FoundPage ==
    ASSUME JInv, JournalAssumption, NEW p \in 2 .. bound.pages, NEW d \in Data
    PROVE  LET page == Found(p, d) IN
           /\ page \in Frames(p) /\ (page.needSync => page.dirty)
           /\ p \in DOMAIN cache =>
                 /\ page.dirty = cache[p].dirty /\ page.needSync = cache[p].needSync
                 /\ page.dontWrite = cache[p].dontWrite
           /\ ~NoContent(p) /\ p \in DOMAIN cache => page = cache[p]
           /\ ~NoContent(p) /\ p \notin DOMAIN cache /\ p \in DOMAIN file /\ file[p] # hole =>
                 page.data = file[p]
  <1> DEFINE page == Found(p, d)
  <1>1. PageData(p) = Data \cup {junk} /\ zeros \in Data
    BY DEF PageData, JournalAssumption
  <1>2. \A x \in Data \cup {junk} :
           /\ Clean(x) \in Frames(p) /\ ~Clean(x).needSync /\ Clean(x).data = x
    BY <1>1 DEF Clean, Frames
  <1>3. CASE NoContent(p) /\ p \in DOMAIN cache
    <2>1. cache[p] \in Frames(p) /\ (cache[p].needSync => cache[p].dirty)
      BY <1>3 DEF JInv, CacheOK
    <2>2. page = [cache[p] EXCEPT !.data = zeros]
      BY <1>3 DEF Found
    <2> HIDE DEF page
    <2> QED BY <1>1, <1>3, <2>1, <2>2 DEF Frames, page
  <1>4. CASE NoContent(p) /\ p \notin DOMAIN cache
    <2>1. page = Clean(zeros)
      BY <1>4 DEF Found
    <2> QED BY <1>1, <1>2, <1>4, <2>1
  <1>5. CASE ~NoContent(p) /\ p \in DOMAIN cache
    <2>1. cache[p] \in Frames(p) /\ (cache[p].needSync => cache[p].dirty)
      BY <1>5 DEF JInv, CacheOK
    <2>2. page = cache[p]
      BY <1>5 DEF Found
    <2> QED BY <1>5, <2>1, <2>2
  <1>6. CASE ~NoContent(p) /\ p \notin DOMAIN cache
    <2> DEFINE x == IF p \notin DOMAIN file THEN junk ELSE IF file[p] = hole THEN d ELSE file[p]
    <2>1. page = Clean(x)
      BY <1>6 DEF Found
    <2>2. x \in Data \cup {junk}
      BY <1>1, <1>6 DEF JInv, FileOK
    <2>3. p \in DOMAIN file /\ file[p] # hole => x = file[p]
      OBVIOUS
    <2> HIDE DEF x
    <2> QED BY <1>2, <1>6, <2>1, <2>2, <2>3
  <1> QED BY <1>3, <1>4, <1>5, <1>6

LEMMA ReusePageKeeps ==
    ASSUME JInv, JournalAssumption, NEW p, NEW d \in Data, ReusePage(p, d)
    PROVE  JInv'
  <1> DEFINE page == Found(p, d)
             trunk == [cache[1] EXCEPT !.data = @ \ {p}]
             c == Cached(Cached(cache, p, page), 1, trunk)
             inJ == IF NoContent(p) /\ p <= dbOrigSize THEN inJournal \cup {p} ELSE inJournal
             sps == IF NoContent(p) THEN addToSavepointBitvecs(savepoints, p) ELSE savepoints
  <1>1. /\ Writeable(1) /\ p \in view[1]
        /\ PagerWrite(c, inJ, sps, p, page.data)
        /\ view' = [view EXCEPT ![1] = @ \ {p}, ![p] = page.data]
        /\ UNCHANGED <<bound, hasContent, begun, saved>>
    BY DEF ReusePage, Found
  <1>2. rc = "OK"
    BY <1>1 DEF PagerWrite
  <1>3. /\ eState \in {"CACHEMOD", "DBMOD"} /\ 1 \in DOMAIN cache
        /\ cache[1].dirty /\ ~cache[1].dontWrite /\ 1 \in inJournal
        /\ \A i \in DOMAIN savepoints : 1 \in savepoints[i].inSavepoint
    BY <1>1, TrunkWriteable
  <1>4. /\ IsImage(view) /\ dbSize = Len(view) /\ Len(view) \in 1 .. bound.pages
        /\ p \in 2 .. Len(view) /\ p \in 2 .. bound.pages /\ p # 1 /\ p \in 1 .. bound.pages
        /\ bound.pages \in Nat /\ view \in Seq(Contents) /\ view[1] \subseteq 2 .. Len(view)
    <2>1. IsImage(view) /\ dbSize = Len(view)
      BY DEF JInv, ImagesOK, Sizes
    <2>2. view \in Seq(Contents) /\ Len(view) \in 1 .. bound.pages /\ view[1] \subseteq 2 .. Len(view)
      BY <2>1 DEF IsImage
    <2>3. bound.pages \in Nat
      BY PagesPositive DEF JInv
    <2> QED BY <1>1, <2>1, <2>2, <2>3
  <1>5. /\ page \in Frames(p) /\ (page.needSync => page.dirty)
        /\ p \in DOMAIN cache =>
              /\ page.dirty = cache[p].dirty /\ page.needSync = cache[p].needSync
              /\ page.dontWrite = cache[p].dontWrite
        /\ ~NoContent(p) /\ p \in DOMAIN cache => page = cache[p]
        /\ ~NoContent(p) /\ p \notin DOMAIN cache /\ p \in DOMAIN file /\ file[p] # hole =>
              page.data = file[p]
    BY <1>4, FoundPage
  <1>6. page.data \in PageData(p) /\ PageData(p) = Data \cup {junk}
    BY <1>4, <1>5 DEF Frames, PageData
  <1>7. /\ trunk \in Frames(1) /\ (trunk.needSync => trunk.dirty)
        /\ trunk.dirty = cache[1].dirty /\ trunk.needSync = cache[1].needSync
        /\ trunk.dontWrite = cache[1].dontWrite /\ trunk.data = view[1] \ {p}
    <2>1. cache[1] \in Frames(1) /\ (cache[1].needSync => cache[1].dirty)
      BY <1>3 DEF JInv, CacheOK
    <2>2. cache[1].data = view[1]
      BY <1>2, <1>3, <1>4, OneLive DEF JInv, ViewReads, Reads
    <2> DEFINE x == cache[1].data \ {p}
    <2>3. x \in PageData(1)
      BY <2>1 DEF Frames, PageData
    <2>4. trunk = [cache[1] EXCEPT !.data = x]
      OBVIOUS
    <2>5. x = view[1] \ {p}
      BY <2>2
    <2> HIDE DEF x, trunk
    <2> QED BY <2>1, <2>3, <2>4, <2>5 DEF Frames
  <1> HIDE DEF page, trunk
  <1>8. /\ DOMAIN c = DOMAIN cache \cup {p} /\ c[p] = page /\ c[1] = trunk
        /\ \A q \in DOMAIN cache \ {1, p} : c[q] = cache[q]
        /\ c = [q \in DOMAIN c |-> c[q]]
    BY <1>3, <1>4 DEF Cached
  <1>9. NoContent(p) =>
           p \notin Live(begun) /\ \A i \in DOMAIN savepoints : p \notin Live(saved[i])
    <2>1. p \in Live(begun) => HasContent(p)
      BY <1>1 DEF JInv, FreedKept, Kept
    <2>2. \A i \in DOMAIN savepoints : p \in Live(saved[i]) => HasContent(p)
      BY <1>1 DEF JInv, FreedKept, Kept, ImagesOK
    <2> QED BY <2>1, <2>2 DEF NoContent
  <1>10. /\ sps \in Seq(Savepoints) /\ Len(sps) = Len(savepoints)
         /\ \A i \in DOMAIN savepoints :
               /\ SameMark(savepoints[i], sps[i])
               /\ \A q : q # p => (q \in sps[i].inSavepoint <=> q \in savepoints[i].inSavepoint)
               /\ p \in savepoints[i].inSavepoint => p \in sps[i].inSavepoint
         /\ ~NoContent(p) => sps = savepoints
    <2>1. savepoints \in Seq(Savepoints) /\ p \in Nat
      BY <1>4 DEF JInv, JournalOK
    <2>2. CASE NoContent(p)
      <3>1. sps = addToSavepointBitvecs(savepoints, p)
        BY <2>2
      <3> HIDE DEF sps
      <3>2. /\ sps \in Seq(Savepoints) /\ Len(sps) = Len(savepoints)
            /\ \A i \in DOMAIN savepoints :
                  /\ SameMark(savepoints[i], sps[i])
                  /\ \A q : q \in sps[i].inSavepoint <=>
                               q \in savepoints[i].inSavepoint \/ (q = p /\ p <= savepoints[i].nOrig)
        BY <2>1, <3>1, Bitvecs
      <3>3. ASSUME NEW i \in DOMAIN savepoints
            PROVE  /\ \A q : q # p => (q \in sps[i].inSavepoint <=> q \in savepoints[i].inSavepoint)
                   /\ p \in savepoints[i].inSavepoint => p \in sps[i].inSavepoint
        BY <3>2
      <3> QED BY <2>2, <3>2, <3>3
    <2>3. CASE ~NoContent(p)
      BY <2>1, <2>3 DEF SameMark
    <2> QED BY <2>2, <2>3
  <1>11. /\ inJournal \subseteq inJ /\ inJ \subseteq inJournal \cup {p}
         /\ ~NoContent(p) => inJ = inJournal
    OBVIOUS
  <1> HIDE DEF c, sps, inJ
  <1>12. Prepared(c, inJ, sps, p)
    <2>1. \A q \in DOMAIN c : c[q] \in Frames(q) /\ (c[q].needSync => c[q].dirty)
      <3>1. \A q \in DOMAIN cache : cache[q] \in Frames(q) /\ (cache[q].needSync => cache[q].dirty)
        BY DEF JInv, CacheOK
      <3> QED BY <1>5, <1>7, <1>8, <3>1
    <2>2. \A q \in DOMAIN cache :
             /\ c[q].dirty = cache[q].dirty /\ c[q].needSync = cache[q].needSync
             /\ c[q].dontWrite = cache[q].dontWrite
             /\ q \notin {1, p} => c[q] = cache[q]
      BY <1>4, <1>5, <1>7, <1>8
    <2>3. ASSUME p \in inJ \ inJournal PROVE p \notin Live(begun)
      BY <1>9, <1>11, <2>3
    <2>4. ASSUME NEW i \in DOMAIN savepoints, p \in Live(saved[i])
          PROVE  /\ p \in sps[i].inSavepoint => p \in savepoints[i].inSavepoint
                 /\ p \notin sps[i].inSavepoint => c[p].data = saved[i][p]
      <3>1. ~NoContent(p) /\ sps = savepoints
        BY <1>9, <1>10, <2>4
      <3>2. ASSUME p \notin sps[i].inSavepoint PROVE c[p].data = saved[i][p]
        <4>1. i \in DOMAIN saved
          BY DEF JInv, ImagesOK
        <4>2. Reads(p, saved[i][p])
          BY <2>4, <3>1, <3>2, <4>1 DEF JInv, SavedKept
        <4>3. saved[i][p] # hole
          <5>1. saved[i][p] \in PageData(p)
            BY <2>4, <4>1, LiveData DEF JInv, ImagesOK
          <5> QED BY <1>6, <5>1 DEF JournalAssumption
        <4> QED BY <1>5, <1>8, <3>1, <4>2, <4>3 DEF Reads
      <3> QED BY <3>1, <3>2
    <2>5. ASSUME p \notin inJ, p \in Live(begun) PROVE c[p].data = begun[p]
      <3>1. ~NoContent(p) /\ p \notin inJournal
        BY <1>9, <1>11, <2>5
      <3>2. file[p] = begun[p] /\ (p \in DOMAIN cache => cache[p].data = begun[p])
        BY <2>5, <3>1 DEF JInv, BegunKept
      <3>3. begun[p] # hole
        <4>1. begun[p] \in PageData(p)
          BY <2>5, LiveData DEF JInv, ImagesOK
        <4> QED BY <1>6, <4>1 DEF JournalAssumption
      <3>4. p \in DOMAIN file
        <4>1. p \in 1 .. Len(begun)
          BY <2>5 DEF Live, JInv, ImagesOK, IsImage
        <4> QED BY <4>1 DEF JInv, Sizes, FileOK, ImagesOK, IsImage
      <3> QED BY <1>5, <1>8, <3>1, <3>2, <3>3, <3>4
    <2> QED BY <1>3, <1>4, <1>8, <1>10, <1>11, <2>1, <2>2, <2>3, <2>4, <2>5 DEF Prepared
  <1>13. Shown(c, p, page.data)
    <2> DEFINE x == page.data
               free == view[1] \ {p}
    <2>1. x \in Contents /\ free \in Contents /\ x \in Data \cup {junk}
      <3>1. free \in SUBSET Nat
        BY <1>4
      <3> QED BY <1>6, <3>1, PageDataTyped DEF Contents
    <2>2. view' = [[view EXCEPT ![1] = free] EXCEPT ![p] = x]
      BY <1>1
    <2> HIDE DEF x, free
    <2>3. /\ Len(view') = Len(view) /\ view'[p] = x /\ view'[1] = free /\ view' \in Seq(Contents)
          /\ \A q \in 2 .. Len(view) : q # p => view'[q] = view[q]
      <3> DEFINE w == [view EXCEPT ![1] = free]
      <3>1. w \in Seq(Contents) /\ Len(w) = Len(view) /\ w[1] = free
            /\ \A q \in 2 .. Len(view) : w[q] = view[q]
        BY <1>4, <2>1
      <3>2. view' = [w EXCEPT ![p] = x]
        BY <2>2
      <3> HIDE DEF w
      <3> QED BY <1>4, <2>1, <3>1, <3>2
    <2>4. free \subseteq view[1]
      BY DEF free
    <2>5. IsImage(view')
      <3>1. \A q \in 2 .. Len(view) : view'[q] \in Data \cup {junk}
        BY <1>4, <2>1, <2>3 DEF IsImage
      <3>2. free \subseteq 2 .. Len(view)
        BY <1>4, <2>4
      <3> QED BY <1>4, <2>3, <3>1, <3>2 DEF IsImage
    <2>6. FreedKept'
      BY <1>1, <2>3, <2>4 DEF JInv, FreedKept, Kept, HasContent, Live
    <2>7. Len(view') = MAX(dbSize, p) /\ ~(p > dbSize)
      BY <1>4, <2>3 DEF MAX
    <2>8. ASSUME NEW q \in Live(view') \ {p}
          PROVE  \/ q \in Live(view) /\ view'[q] = view[q] /\ q # 1
                 \/ q = 1 /\ view'[1] = c[1].data /\ cache[1].dirty /\ ~cache[1].dontWrite
      <3>1. CASE q = 1
        BY <1>3, <1>7, <1>8, <2>3, <3>1 DEF free
      <3>2. CASE q # 1
        <4>1. q \in 2 .. Len(view) /\ q # p /\ q \notin free
          BY <1>4, <2>3, <3>2 DEF Live
        <4>2. q \notin view[1]
          BY <4>1 DEF free
        <4> QED BY <1>4, <2>3, <3>2, <4>1, <4>2 DEF Live
      <3> QED BY <3>1, <3>2
    <2> QED BY <1>1, <2>3, <2>5, <2>6, <2>7, <2>8 DEF Shown, x
  <1>14. PagerWrite(c, inJ, sps, p, page.data)
    BY <1>1 DEF c, inJ, sps, page
  <1> QED BY <1>6, <1>12, <1>13, <1>14, WriteKeeps

--------------------------------------------------------------------------------
(* Freeing a page *)

\* A page that is freed has content, and those that were freed before still have.
LEMMA ContentMarked ==
    ASSUME hasContent \in [size : Nat, pages : SUBSET Nat],
           hasContent = NoBitvec \/ hasContent.pages # {},
           dbSize \in Nat, NEW p \in Nat, hasContent' = SetHasContent(p)
    PROVE  /\ hasContent' \in [size : Nat, pages : SUBSET Nat] /\ hasContent'.pages # {}
           /\ HasContent(p)' /\ \A q : HasContent(q) => HasContent(q)'
  <1>1. CASE hasContent = NoBitvec
    <2>1. hasContent' = [size |-> dbSize, pages |-> {p}]
      BY <1>1 DEF SetHasContent
    <2>2. hasContent.pages = {}
      BY <1>1 DEF NoBitvec
    <2> QED BY <2>1, <2>2 DEF HasContent
  <1>2. CASE hasContent # NoBitvec /\ p <= hasContent.size
    <2> DEFINE all == hasContent.pages \cup {p}
    <2>1. all \in SUBSET Nat /\ all # {} /\ p \in all /\ hasContent.pages \subseteq all
      OBVIOUS
    <2>2. hasContent' = [hasContent EXCEPT !.pages = all]
      BY <1>2 DEF SetHasContent
    <2> HIDE DEF all
    <2>3. hasContent' \in [size : Nat, pages : SUBSET Nat] /\ hasContent'.pages = all
          /\ hasContent'.size = hasContent.size
      BY <2>1, <2>2
    <2>4. \A q : HasContent(q) => HasContent(q)'
      BY <2>1, <2>3 DEF HasContent
    <2>5. HasContent(p)'
      BY <2>1, <2>3 DEF HasContent
    <2> QED BY <2>1, <2>3, <2>4, <2>5
  <1>3. CASE hasContent # NoBitvec /\ ~(p <= hasContent.size)
    <2>1. hasContent' = hasContent
      BY <1>3 DEF SetHasContent
    <2>2. p > hasContent.size /\ hasContent.pages # {}
      BY <1>3
    <2> QED BY <2>1, <2>2 DEF HasContent
  <1> QED BY <1>1, <1>2, <1>3

\* A savepoint keeps all but its iHdrOffset.
SameButHdr(s, t) ==
    /\ t.nOrig = s.nOrig /\ t.inSavepoint = s.inSavepoint /\ t.iOffset = s.iOffset
    /\ t.iSubRec = s.iSubRec

\* No record is added or removed, and no header moves back.
JournalMoves ==
    /\ Records' = Records /\ \A o \in Records : jfile'[o + 1] = jfile[o + 1]
    /\ journalHdr' \in Nat /\ journalHdr <= journalHdr'
    /\ savepoints' \in Seq(Savepoints) /\ Len(savepoints') = Len(savepoints)
    /\ \A i \in DOMAIN savepoints : SameButHdr(savepoints[i], savepoints'[i])
    /\ sub' = sub

LEMMA NothingMoves ==
    ASSUME JInv, UNCHANGED <<jfile, journalHdr, savepoints, sub>> PROVE JournalMoves
  BY RecordsSame DEF JournalMoves, JInv, JournalOK, SameButHdr

LEMMA SavedMoves ==
    ASSUME JInv, JournalMoves, UNCHANGED saved,
           \A i \in DOMAIN saved : \A q \in Live(saved[i]) :
              q \notin savepoints[i].inSavepoint /\ Reads(q, saved[i][q]) => Reads(q, saved[i][q])',
           \A i \in DOMAIN saved : \A q \in Live(saved[i]) :
              q \in DOMAIN cache' /\ cache'[q].dirty /\ cache'[q].dontWrite =>
                 q \in DOMAIN cache /\ cache[q].dirty /\ cache[q].dontWrite
    PROVE  SavedKept'
  <1>1. DOMAIN saved = DOMAIN savepoints
    BY DEF JInv, ImagesOK, JournalOK
  <1>2. ASSUME NEW i \in DOMAIN saved, NEW q \in Live(saved[i]), NEW s, NEW t, NEW v,
               s = savepoints[i], t = savepoints'[i], v = saved[i][q]
        PROVE  /\ q \notin t.inSavepoint =>
                     Reads(q, v)' /\ MainSince(t, q)' = {} /\ SubSince(t, q)' = {}
               /\ q \in t.inSavepoint => Copied(t, q, v)'
               /\ q \in DOMAIN cache' /\ cache'[q].dirty => ~cache'[q].dontWrite
    <2>1. /\ q \notin s.inSavepoint =>
                Reads(q, v) /\ MainSince(s, q) = {} /\ SubSince(s, q) = {}
          /\ q \in s.inSavepoint => Copied(s, q, v)
          /\ q \in DOMAIN cache /\ cache[q].dirty => ~cache[q].dontWrite
      BY <1>2 DEF JInv, SavedKept
    <2>2. t.inSavepoint = s.inSavepoint /\ t.iOffset = s.iOffset /\ t.iSubRec = s.iSubRec
      BY <1>1, <1>2 DEF JournalMoves, SameButHdr
    <2>3. MainSince(t, q)' = MainSince(s, q) /\ SubSince(t, q)' = SubSince(s, q)
      BY <2>2 DEF MainSince, SubSince, JournalMoves
    <2>4. Copied(s, q, v) => Copied(t, q, v)'
      <3>1. sub' = sub /\ \A o \in MainSince(s, q) : jfile'[o + 1] = jfile[o + 1]
        BY DEF MainSince, JournalMoves
      <3> QED BY <2>3, <3>1 DEF Copied
    <2>5. q \notin s.inSavepoint => Reads(q, v)'
      BY <1>2, <2>1
    <2>6. q \in DOMAIN cache' /\ cache'[q].dirty => ~cache'[q].dontWrite
      BY <2>1
    <2> QED BY <2>1, <2>2, <2>3, <2>4, <2>5, <2>6
  <1> QED BY <1>2 DEF SavedKept, Live

\* What the journals and the savepoints keep in any such step.
LEMMA NestedMoves == ASSUME JInv, JournalMoves PROVE Nested'
  <1>1. \A i \in DOMAIN savepoints : \A j \in 1 .. i : j \in DOMAIN savepoints
    BY DEF JInv, JournalOK
  <1>2. \A i \in DOMAIN savepoints : savepoints'[i].iOffset = savepoints[i].iOffset
                                     /\ savepoints'[i].iSubRec = savepoints[i].iSubRec
    BY DEF JournalMoves, SameButHdr
  <1>3. DOMAIN savepoints' = DOMAIN savepoints /\ sub' = sub
    BY DEF JournalMoves, JInv, JournalOK
  <1> QED BY <1>1, <1>2, <1>3 DEF JInv, Nested

LEMMA FreePageKeeps ==
    ASSUME JInv, JournalAssumption, NEW p, FreePage(p) PROVE JInv'
  <1>1. /\ rc = "OK" /\ Writeable(1) /\ p \in Live(view) /\ p # 1
        /\ cache' = [q \in DOMAIN cache |->
                        IF q = 1 THEN [cache[1] EXCEPT !.data = @ \cup {p}]
                        ELSE IF q = p /\ cache[p].dirty /\ savepoints = << >>
                        THEN [cache[p] EXCEPT !.dontWrite = TRUE]
                        ELSE cache[q]]
        /\ hasContent' = SetHasContent(p)
        /\ view' = [view EXCEPT ![1] = @ \cup {p}]
        /\ UNCHANGED <<bound, eState, rc, file, dbFileSize, dbSize, dbOrigSize, jOpen, jfile,
                       journalOff, journalHdr, nRec, inJournal, savepoints, sub, begun, saved>>
    BY DEF FreePage, fileVars, journalVars, savepointVars
  <1>2. /\ eState \in {"CACHEMOD", "DBMOD"} /\ 1 \in DOMAIN cache
        /\ cache[1].dirty /\ ~cache[1].dontWrite /\ 1 \in inJournal
        /\ \A i \in DOMAIN savepoints : 1 \in savepoints[i].inSavepoint
    BY <1>1, TrunkWriteable
  <1>3. /\ IsImage(view) /\ dbSize = Len(view) /\ Len(view) \in 1 .. bound.pages
        /\ p \in 2 .. Len(view) /\ p \in 2 .. bound.pages /\ bound.pages \in Nat
        /\ view \in Seq(Contents) /\ view[1] \subseteq 2 .. Len(view) /\ p \notin view[1]
    <2>1. IsImage(view) /\ dbSize = Len(view)
      BY DEF JInv, ImagesOK, Sizes
    <2>2. p \in 1 .. Len(view) /\ p \notin view[1]
      BY <1>1, <2>1 DEF Live, IsImage
    <2> QED BY <1>1, <2>1, <2>2, PagesPositive DEF IsImage, JInv
  <1>4. \A q \in DOMAIN cache : cache[q] \in Frames(q) /\ (cache[q].needSync => cache[q].dirty)
    BY DEF JInv, CacheOK
  <1>5. cache[1].data = view[1]
    BY <1>1, <1>2, <1>3, OneLive DEF JInv, ViewReads, Reads
  <1> DEFINE free == view[1] \cup {p}
  <1>6. /\ DOMAIN cache' = DOMAIN cache /\ cache' = [q \in DOMAIN cache' |-> cache'[q]]
        /\ \A q \in DOMAIN cache :
              /\ cache'[q] \in Frames(q) /\ cache'[q].dirty = cache[q].dirty
              /\ cache'[q].needSync = cache[q].needSync
              /\ q # 1 => cache'[q].data = cache[q].data
              /\ q \notin {1, p} => cache'[q] = cache[q]
              /\ q # 1 /\ savepoints # << >> => cache'[q] = cache[q]
        /\ cache'[1].data = free /\ ~cache'[1].dontWrite
    <2>1. DOMAIN cache' = DOMAIN cache /\ cache' = [q \in DOMAIN cache' |-> cache'[q]]
      BY <1>1
    <2>2. cache'[1] \in Frames(1) /\ cache'[1].data = free /\ cache'[1].dirty = cache[1].dirty
          /\ cache'[1].needSync = cache[1].needSync /\ ~cache'[1].dontWrite
      <3>1. cache'[1] = [cache[1] EXCEPT !.data = free]
        BY <1>1, <1>2, <1>5
      <3>2. free \in PageData(1)
        BY <1>3 DEF PageData
      <3> HIDE DEF free
      <3> QED BY <1>2, <1>4, <3>1, <3>2 DEF Frames
    <2>3. ASSUME NEW q \in DOMAIN cache, q # 1
          PROVE  /\ cache'[q] \in Frames(q) /\ cache'[q].dirty = cache[q].dirty
                 /\ cache'[q].needSync = cache[q].needSync
                 /\ cache'[q].data = cache[q].data
                 /\ q # p => cache'[q] = cache[q]
                 /\ savepoints # << >> => cache'[q] = cache[q]
      <3>1. CASE q = p /\ cache[p].dirty /\ savepoints = << >>
        <4>1. cache'[q] = [cache[q] EXCEPT !.dontWrite = TRUE]
          BY <1>1, <2>3, <3>1
        <4> QED BY <1>4, <3>1, <4>1 DEF Frames
      <3>2. CASE ~(q = p /\ cache[p].dirty /\ savepoints = << >>)
        <4>1. cache'[q] = cache[q]
          BY <1>1, <2>3, <3>2
        <4> QED BY <1>4, <4>1
      <3> QED BY <3>1, <3>2
    <2> QED BY <2>1, <2>2, <2>3
  <1>7. /\ Len(view') = Len(view) /\ view'[1] = free /\ view' \in Seq(Contents)
        /\ \A q \in 2 .. Len(view) : view'[q] = view[q]
    <2>1. free \in Contents
      <3>1. free \in SUBSET Nat
        BY <1>3
      <3> QED BY <3>1 DEF Contents
    <2>2. view' = [view EXCEPT ![1] = free]
      BY <1>1
    <2> HIDE DEF free
    <2> QED BY <1>3, <2>1, <2>2
  <1>8. /\ HasContent(p)' /\ \A q : HasContent(q) => HasContent(q)'
        /\ hasContent' \in [size : Nat, pages : SUBSET Nat] /\ hasContent'.pages # {}
    <2>1. hasContent \in [size : Nat, pages : SUBSET Nat]
          /\ (hasContent = NoBitvec \/ hasContent.pages # {})
      BY DEF JInv, JournalOK
    <2>2. p \in Nat /\ dbSize \in Nat
      BY <1>3
    <2> QED BY <1>1, <2>1, <2>2, ContentMarked
  <1>9. States' /\ FileOK'
    BY <1>1, StatesSame, FileSame DEF JInv
  <1>10. CacheOK'
    <2>1. \A q : Frames(q)' = Frames(q)
      BY <1>1 DEF Frames, PageData
    <2>2. DOMAIN cache' \subseteq 1 .. bound'.pages /\ 1 \in DOMAIN cache'
      BY <1>1, <1>6 DEF JInv, CacheOK
    <2>3. \A q \in DOMAIN cache' : cache'[q] \in Frames(q)' /\ (cache'[q].needSync => cache'[q].dirty)
      BY <1>4, <1>6, <2>1
    <2>4. eState' \notin {"READER", "LOCKED", "FINISHED"}
      BY <1>1, <1>2
    <2> QED BY <1>6, <2>2, <2>3, <2>4 DEF CacheOK
  <1>11. JournalOK'
    BY <1>1, <1>8 DEF JInv, JournalOK, NoBitvec
  <1>12. ImagesOK'
    <2>1. IsImage(view)'
      <3>1. free \subseteq 2 .. Len(view)
        BY <1>3
      <3> QED BY <1>1, <1>3, <1>7, <3>1 DEF IsImage
    <2>2. IsImage(begun)' /\ \A i \in DOMAIN saved' : IsImage(saved[i])'
      BY <1>1 DEF JInv, ImagesOK, IsImage
    <2> QED BY <1>1, <2>1, <2>2 DEF JInv, ImagesOK
  <1>13. Sizes'
    BY <1>1, <1>7 DEF JInv, Sizes
  <1>14. Unwritten' /\ Layout' /\ Marks' /\ Nested'
    <2>1. Unwritten'
      BY <1>1, <1>2 DEF Unwritten
    <2> QED BY <1>1, <2>1, LayoutSame, MarksSame, NestedSame DEF JInv
  <1>15. MainRecords'
    BY <1>1, <1>6, RecordsSame, PagesTyped DEF JInv, MainRecords
  <1>16. SubRecords'
    BY <1>1, <1>6, PagesTyped DEF JInv, SubRecords
  <1>17. ASSUME NEW q, NEW v, q \notin {1, p} \/ (q # 1 /\ savepoints # << >>), Reads(q, v)
         PROVE  Reads(q, v)'
    <2>1. q \in DOMAIN cache => cache'[q] = cache[q]
      BY <1>6, <1>17
    <2> QED BY <1>1, <1>6, <1>17, <2>1 DEF Reads
  <1>18. ViewReads'
    <2>1. ASSUME NEW q \in Live(view') PROVE Reads(q, view[q])'
      <3>1. CASE q = 1
        BY <1>2, <1>6, <1>7, <3>1 DEF Reads
      <3>2. CASE q # 1
        <4>1. q \in 2 .. Len(view) /\ q \notin free
          BY <1>3, <1>7, <3>2 DEF Live
        <4>2. q # p /\ q \in Live(view) /\ view'[q] = view[q]
          BY <1>3, <1>7, <4>1 DEF Live
        <4>3. Reads(q, view[q])
          BY <1>1, <4>2 DEF JInv, ViewReads
        <4> QED BY <1>17, <3>2, <4>2, <4>3
      <3> QED BY <3>1, <3>2
    <2> QED BY <2>1 DEF ViewReads, Live
  <1>19. BegunKept'
    <2>1. \A q \in DOMAIN cache' : q \notin inJournal => cache'[q].data = cache[q].data
      BY <1>2, <1>6
    <2> QED BY <1>1, <1>6, <2>1, RecordsSame DEF JInv, BegunKept, Live
  <1>20. SavedKept'
    <2>1. JournalMoves
      BY <1>1, NothingMoves
    <2>2. DOMAIN saved = DOMAIN savepoints /\ (savepoints = << >> => DOMAIN saved = {})
      BY DEF JInv, ImagesOK, JournalOK
    <2>3. ASSUME NEW i \in DOMAIN saved, NEW q \in Live(saved[i]),
                 q \notin savepoints[i].inSavepoint, Reads(q, saved[i][q])
          PROVE  Reads(q, saved[i][q])'
      <3>1. q # 1 /\ savepoints # << >>
        BY <1>2, <2>2, <2>3
      <3> QED BY <1>1, <1>17, <2>3, <3>1
    <2>4. ASSUME NEW i \in DOMAIN saved, NEW q \in Live(saved[i]), q \in DOMAIN cache',
                 cache'[q].dirty, cache'[q].dontWrite
          PROVE  q \in DOMAIN cache /\ cache[q].dirty /\ cache[q].dontWrite
      <3>1. q # 1 /\ savepoints # << >>
        BY <1>6, <2>2, <2>4
      <3> QED BY <1>6, <2>4, <3>1
    <2> QED BY <1>1, <2>1, <2>3, <2>4, SavedMoves
  <1>21. FreedKept'
    <2>1. ASSUME NEW u, NEW w, Kept(u, w) PROVE Kept(u, w)'
      BY <1>8, <2>1 DEF Kept, Live
    <2>2. ASSUME NEW u, Kept(u, view) PROVE Kept(u, view)'
      <3>1. \A q \in view'[1] : q = p \/ q \in view[1]
        BY <1>7
      <3> QED BY <1>8, <2>2, <3>1 DEF Kept, Live
    <2>3. Kept(begun, view)'
      BY <1>1, <2>2 DEF JInv, FreedKept
    <2>4. ASSUME NEW i \in DOMAIN saved
          PROVE  /\ Kept(begun, saved[i])' /\ Kept(saved[i], view)'
                 /\ \A j \in 1 .. i - 1 : Kept(saved[j], saved[i])'
      BY <1>1, <2>1, <2>2 DEF JInv, FreedKept
    <2> QED BY <1>1, <2>3, <2>4 DEF FreedKept
  <1> QED BY <1>9, <1>10, <1>11, <1>12, <1>13, <1>14, <1>15, <1>16, <1>18, <1>19, <1>20, <1>21 DEF JInv

--------------------------------------------------------------------------------
(* Spilling a page *)

\* The journal with the count of its last header, before a next one.
LEMMA JournalCounted ==
    ASSUME JInv, rc = "OK", eState \in {"CACHEMOD", "DBMOD"}
    PROVE  LET k == HeaderCounted IN
           /\ k \in Seq(Blocks) /\ Len(k) = Len(jfile) /\ journalOff = Len(jfile)
           /\ Len(jfile) \in Nat /\ journalHdr \in Nat /\ journalHdr < Len(jfile)
           /\ HeadersOf(k) = HeadersOf(jfile) /\ RecordsOf(k) = Records
           /\ \A o \in Records : k[o + 1] = jfile[o + 1]
           /\ \A o \in Records : o < Len(jfile)
           /\ Chained(k, Len(jfile))
  <1> DEFINE b == Header(nRec, TRUE)
  <1>1. /\ jfile \in Seq(Blocks) /\ journalHdr \in Nat /\ nRec \in Nat
        /\ Chained(jfile, journalHdr) /\ Filling(jfile, journalHdr, nRec)
        /\ journalOff = Len(jfile)
    BY DEF JInv, JournalOK, Layout
  <1>2. b \in HeaderBlocks /\ b.nRec = nRec /\ b.magic
    BY <1>1, HeaderIsHeader
  <1>3. HeaderCounted = [jfile EXCEPT ![journalHdr + 1] = b]
    BY DEF HeaderCounted
  <1> HIDE DEF b
  <1>4. journalHdr < Len(jfile) /\ Len(jfile) \in Nat
    BY <1>1 DEF Filling
  <1>5. \A o \in Records : o < Len(jfile)
    BY DEF Records, RecordsOf
  <1>6. LET k == [jfile EXCEPT ![journalHdr + 1] = b] IN
        /\ k \in Seq(Blocks) /\ Len(k) = Len(jfile)
        /\ HeadersOf(k) = HeadersOf(jfile) /\ RecordsOf(k) = RecordsOf(jfile)
        /\ \A o \in RecordsOf(jfile) : k[o + 1] = jfile[o + 1]
        /\ Chained(k, Len(jfile))
    BY <1>1, <1>2, HeaderCloses
  <1>7. LET k == HeaderCounted IN
        /\ k \in Seq(Blocks) /\ Len(k) = Len(jfile)
        /\ HeadersOf(k) = HeadersOf(jfile) /\ RecordsOf(k) = RecordsOf(jfile)
        /\ \A o \in RecordsOf(jfile) : k[o + 1] = jfile[o + 1]
        /\ Chained(k, Len(jfile))
    BY <1>3, <1>6
  <1> QED BY <1>1, <1>4, <1>5, <1>7 DEF Records

LEMMA HdrMarked ==
    ASSUME JInv, rc = "OK", eState \in {"CACHEMOD", "DBMOD"}
    PROVE  LET new == SetHdrOffset IN
           /\ new \in Seq(Savepoints) /\ Len(new) = Len(savepoints)
           /\ \A i \in DOMAIN savepoints :
                 /\ SameButHdr(savepoints[i], new[i])
                 /\ \A k \in Seq(Blocks) :
                       HeadersOf(k) \cup {Len(jfile)} = HeadersOf(jfile) \cup {Len(jfile)}
                       /\ Len(k) >= Len(jfile) => MarkIn(new[i], k, Len(jfile))
  <1> DEFINE new == SetHdrOffset
  <1>1. /\ jfile \in Seq(Blocks) /\ journalHdr \in Nat /\ Len(jfile) \in Nat
        /\ journalOff = Len(jfile) /\ journalHdr < Len(jfile) /\ savepoints \in Seq(Savepoints)
        /\ journalHdr \in HeadersOf(jfile) /\ \A h \in HeadersOf(jfile) : h \in Nat /\ h <= journalHdr
    <2>1. /\ Chained(jfile, journalHdr) /\ journalHdr < Len(jfile) /\ journalOff = Len(jfile)
          /\ jfile \in Seq(Blocks) /\ journalHdr \in Nat /\ savepoints \in Seq(Savepoints)
      BY DEF JInv, JournalOK, Layout, Filling
    <2>2. Len(jfile) \in Nat /\ \A h \in HeadersOf(jfile) : h \in Nat
      BY <2>1 DEF HeadersOf
    <2>3. /\ journalHdr \in HeadersOf(jfile) \cup {Len(jfile)}
          /\ \A h \in HeadersOf(jfile) : h <= journalHdr
      BY <2>1 DEF Chained
    <2>4. journalHdr \in HeadersOf(jfile)
      BY <2>1, <2>2, <2>3
    <2> QED BY <2>1, <2>2, <2>3, <2>4
  <1>2. ASSUME NEW i \in DOMAIN savepoints
        PROVE  /\ new[i] \in Savepoints /\ SameButHdr(savepoints[i], new[i])
               /\ \A k \in Seq(Blocks) :
                     HeadersOf(k) \cup {Len(jfile)} = HeadersOf(jfile) \cup {Len(jfile)}
                     /\ Len(k) >= Len(jfile) => MarkIn(new[i], k, Len(jfile))
    <2> DEFINE s == savepoints[i]
               t == new[i]
    <2>1. s \in Savepoints /\ MarkIn(s, jfile, journalHdr)
      BY <1>1 DEF JInv, Marks
    <2>2. t = IF s.iHdrOffset = 0 THEN [s EXCEPT !.iHdrOffset = Len(jfile)] ELSE s
      BY <1>1 DEF SetHdrOffset
    <2> HIDE DEF s, t
    <2>3. t \in Savepoints /\ SameButHdr(s, t)
          /\ t.iHdrOffset = (IF s.iHdrOffset = 0 THEN Len(jfile) ELSE s.iHdrOffset)
      <3>1. CASE s.iHdrOffset = 0
        <4>1. t = [s EXCEPT !.iHdrOffset = Len(jfile)]
          BY <2>2, <3>1
        <4> QED BY <1>1, <2>1, <3>1, <4>1 DEF Savepoints, SameButHdr
      <3>2. CASE s.iHdrOffset # 0
        BY <2>1, <2>2, <3>2 DEF SameButHdr
      <3> QED BY <3>1, <3>2
    <2>4. s.iOffset \in 1 .. Len(jfile) /\ t.iOffset = s.iOffset /\ s.iHdrOffset \in Nat
      BY <2>1, <2>3 DEF MarkIn, SameButHdr, Savepoints
    <2>5. ASSUME NEW k \in Seq(Blocks),
                 HeadersOf(k) \cup {Len(jfile)} = HeadersOf(jfile) \cup {Len(jfile)},
                 Len(k) >= Len(jfile)
          PROVE  MarkIn(t, k, Len(jfile))
      <3>1. s.iOffset \in 1 .. Len(k)
        BY <1>1, <2>4, <2>5
      <3>2. CASE s.iHdrOffset = 0
        <4>1. t.iHdrOffset = Len(jfile) /\ journalHdr < s.iOffset
          BY <2>1, <2>3, <3>2 DEF MarkIn
        <4>2. ASSUME NEW o \in s.iOffset .. Len(jfile) - 1 PROVE o \notin HeadersOf(k)
          <5>1. o # Len(jfile) /\ o \notin HeadersOf(jfile)
            BY <1>1, <2>4, <4>1
          <5> QED BY <2>5, <5>1
        <4> QED BY <1>1, <2>4, <3>1, <4>1, <4>2 DEF MarkIn
      <3>3. CASE s.iHdrOffset # 0
        <4>1. /\ t.iHdrOffset = s.iHdrOffset /\ s.iHdrOffset >= s.iOffset
              /\ s.iHdrOffset \in HeadersOf(jfile)
              /\ \A o \in s.iOffset .. s.iHdrOffset - 1 : o \notin HeadersOf(jfile)
          BY <1>1, <2>1, <2>3, <3>3 DEF MarkIn
        <4>2. s.iHdrOffset <= journalHdr
          BY <1>1, <4>1
        <4>3. ASSUME NEW o \in s.iOffset .. s.iHdrOffset - 1 PROVE o \notin HeadersOf(k)
          <5>1. o # Len(jfile) /\ o \notin HeadersOf(jfile)
            BY <1>1, <2>4, <4>1, <4>2
          <5> QED BY <2>5, <5>1
        <4>4. s.iHdrOffset \in HeadersOf(k) \cup {Len(jfile)}
          BY <2>5, <4>1
        <4> QED BY <2>4, <3>1, <3>3, <4>1, <4>3, <4>4 DEF MarkIn
      <3> QED BY <3>2, <3>3
    <2> QED BY <2>3, <2>5 DEF s, t
  <1>3. new \in Seq(Savepoints) /\ Len(new) = Len(savepoints)
    <2>1. new = [i \in 1 .. Len(savepoints) |-> new[i]]
      BY <1>1 DEF SetHdrOffset
    <2>2. \A i \in 1 .. Len(savepoints) : new[i] \in Savepoints
      BY <1>1, <1>2
    <2> HIDE DEF new
    <2>3. new \in [1 .. Len(savepoints) -> Savepoints]
      BY <2>1, <2>2
    <2> QED BY <1>1, <2>3
  <1> QED BY <1>2, <1>3

\* The file after a write.
LEMMA FileWritten ==
    ASSUME JInv, JournalAssumption, NEW p \in 1 .. bound.pages, NEW d \in PageData(p), bound' = bound,
           file' = Written(file, p, d), dbFileSize' = FileGrown(dbFileSize, p)
    PROVE  /\ FileOK' /\ Len(file) <= Len(file') /\ p \in DOMAIN file' /\ file'[p] = d
           /\ \A q \in DOMAIN file : q \in DOMAIN file' /\ (q # p => file'[q] = file[q])
  <1>1. /\ file \in Seq(Contents) /\ Len(file) \in 1 .. bound.pages /\ dbFileSize = Len(file)
        /\ bound.pages \in Nat
        /\ \A i \in DOMAIN file : file[i] \in PageData(i) \cup {hole}
    BY PagesPositive DEF JInv, FileOK
  <1> DEFINE n == MAX(Len(file), p)
  <1>2. n \in 1 .. bound.pages /\ Len(file) <= n /\ p <= n /\ p \in 1 .. n /\ n \in Nat
    BY <1>1 DEF MAX
  <1>3. file' = [i \in 1 .. n |-> IF i = p THEN d ELSE IF i \in DOMAIN file THEN file[i] ELSE hole]
    BY DEF Written
  <1>4. dbFileSize' = n
    BY <1>1 DEF FileGrown
  <1> HIDE DEF n
  <1>5. ASSUME NEW i \in 1 .. n PROVE file'[i] \in PageData(i) \cup {hole}
    BY <1>1, <1>3
  <1>6. \A i \in 1 .. n : file'[i] \in Contents
    <2>1. hole \in Contents
      BY DEF Contents
    <2> QED BY <1>5, <2>1, PageDataTyped
  <1>7. file' \in Seq(Contents) /\ Len(file') = n /\ DOMAIN file' = 1 .. n
    <2>1. file' = [i \in 1 .. n |-> file'[i]]
      BY <1>3
    <2>2. file' \in [1 .. n -> Contents]
      BY <1>6, <2>1
    <2> QED BY <1>2, <2>2
  <1>8. FileOK'
    BY <1>2, <1>4, <1>5, <1>7, PagesTyped DEF FileOK
  <1>9. \A q \in DOMAIN file : q \in DOMAIN file' /\ (q # p => file'[q] = file[q])
    BY <1>1, <1>2, <1>3, <1>7
  <1> QED BY <1>2, <1>3, <1>7, <1>8, <1>9

\* A page is written to the file: the journal is synced as far as its record, or
\* was so before.
LEMMA SpillKeeps ==
    ASSUME JInv, JournalAssumption, NEW p,
           rc = "OK", eState \in {"CACHEMOD", "DBMOD"}, p \in DOMAIN cache, cache[p].dirty,
           Spill(p), JournalMoves, JournalOK', Layout', Marks',
           eState' = "DBMOD",
           IF NeedsSync(p) THEN \A o \in Records : o < journalHdr'
           ELSE journalHdr' = journalHdr,
           UNCHANGED <<bound, rc, dbSize, dbOrigSize, inJournal, hasContent, view, begun, saved>>
    PROVE  JInv'
  <1> DEFINE stored == p <= dbSize /\ ~cache[p].dontWrite
             sync == NeedsSync(p)
  <1>1. /\ IsImage(view) /\ dbSize = Len(view) /\ dbSize \in 1 .. bound.pages /\ bound.pages \in Nat
        /\ IsImage(begun) /\ Len(begun) <= Len(file) /\ Len(begun) \in Nat
        /\ Len(begun) <= dbSize /\ Len(file) \in Nat /\ dbOrigSize = Len(begun)
    <2>1. IsImage(view) /\ IsImage(begun) /\ dbSize = Len(view) /\ Len(begun) <= Len(file)
          /\ Len(begun) <= dbSize /\ dbOrigSize = Len(begun) /\ file \in Seq(Contents)
      BY DEF JInv, ImagesOK, Sizes, FileOK
    <2> QED BY <2>1, PagesPositive DEF IsImage, JInv
  <1>2. /\ p \in 1 .. bound.pages /\ cache[p].data \in PageData(p)
        /\ \A q \in DOMAIN cache : cache[q] \in Frames(q) /\ (cache[q].needSync => cache[q].dirty)
    <2>1. \A q \in DOMAIN cache : cache[q] \in Frames(q) /\ (cache[q].needSync => cache[q].dirty)
      BY DEF JInv, CacheOK
    <2> QED BY <2>1 DEF JInv, CacheOK, Frames
  <1>3. /\ DOMAIN cache' = DOMAIN cache /\ cache' = [q \in DOMAIN cache' |-> cache'[q]]
        /\ \A q \in DOMAIN cache :
              /\ cache'[q] \in Frames(q) /\ cache'[q].data = cache[q].data
              /\ cache'[q].dontWrite = cache[q].dontWrite
              /\ q # p => cache'[q].dirty = cache[q].dirty
              /\ cache'[q].needSync = (~sync /\ cache[q].needSync)
        /\ ~cache'[p].dirty
    <2> DEFINE c == IF sync THEN [q \in DOMAIN cache |-> [cache[q] EXCEPT !.needSync = FALSE]]
                    ELSE cache
    <2>1. cache' = [c EXCEPT ![p].dirty = FALSE]
      BY DEF Spill
    <2>2. /\ DOMAIN c = DOMAIN cache /\ c = [q \in DOMAIN c |-> c[q]]
          /\ \A q \in DOMAIN cache :
              /\ c[q] \in Frames(q) /\ c[q].data = cache[q].data
              /\ c[q].dontWrite = cache[q].dontWrite
              /\ c[q].dirty = cache[q].dirty
              /\ c[q].needSync = (~sync /\ cache[q].needSync)
      <3>1. CASE sync
        <4>1. c = [q \in DOMAIN cache |-> [cache[q] EXCEPT !.needSync = FALSE]]
          BY <3>1
        <4> HIDE DEF c, sync
        <4>2. ASSUME NEW q \in DOMAIN cache
              PROVE  /\ c[q] \in Frames(q) /\ c[q].data = cache[q].data
                     /\ c[q].dontWrite = cache[q].dontWrite
                     /\ c[q].dirty = cache[q].dirty
                     /\ c[q].needSync = FALSE
          <5>1. c[q] = [cache[q] EXCEPT !.needSync = FALSE]
            BY <4>1
          <5>2. cache[q] \in Frames(q)
            BY <1>2
          <5> QED BY <5>1, <5>2 DEF Frames
        <4>3. DOMAIN c = DOMAIN cache /\ c = [q \in DOMAIN c |-> c[q]]
          BY <4>1
        <4> QED BY <3>1, <4>2, <4>3
      <3>2. CASE ~sync
        <4>1. c = cache
          BY <3>2
        <4>2. cache = [q \in DOMAIN cache |-> cache[q]]
          BY DEF JInv, CacheOK
        <4> HIDE DEF c, sync
        <4>3. \A q \in DOMAIN cache : cache[q].needSync \in BOOLEAN
          BY <1>2 DEF Frames
        <4> QED BY <1>2, <3>2, <4>1, <4>2, <4>3
      <3> QED BY <3>1, <3>2
    <2> HIDE DEF c, sync
    <2> DEFINE new == [c[p] EXCEPT !.dirty = FALSE]
    <2>3. cache' = [c EXCEPT ![p] = new]
      BY <2>1
    <2>4. new \in Frames(p) /\ new.data = cache[p].data /\ new.dontWrite = cache[p].dontWrite
          /\ new.needSync = (~sync /\ cache[p].needSync) /\ ~new.dirty
      BY <2>2 DEF Frames
    <2> HIDE DEF new
    <2>5. DOMAIN cache' = DOMAIN c /\ cache'[p] = new /\ \A q \in DOMAIN c \ {p} : cache'[q] = c[q]
      BY <2>2, <2>3
    <2>6. cache' = [q \in DOMAIN cache' |-> cache'[q]]
      BY <2>3
    <2>7. \A q \in DOMAIN cache :
              /\ cache'[q] \in Frames(q) /\ cache'[q].data = cache[q].data
              /\ cache'[q].dontWrite = cache[q].dontWrite
              /\ q # p => cache'[q].dirty = cache[q].dirty
              /\ cache'[q].needSync = (~sync /\ cache[q].needSync)
      BY <2>2, <2>4, <2>5
    <2> QED BY <2>2, <2>4, <2>5, <2>6, <2>7
  <1>4. ~sync => ~cache[p].needSync /\ eState = "DBMOD" /\ ~cache'[p].needSync
    BY <1>3 DEF NeedsSync
  <1>5. /\ FileOK' /\ Len(file) <= Len(file')
        /\ stored => p \in DOMAIN file' /\ file'[p] = cache[p].data
        /\ \A q \in DOMAIN file :
              q \in DOMAIN file' /\ (q # p \/ ~stored => file'[q] = file[q])
    <2>1. CASE stored
      <3>1. file' = Written(file, p, cache[p].data) /\ dbFileSize' = FileGrown(dbFileSize, p)
        BY <2>1 DEF Spill
      <3> QED BY <1>2, <2>1, <3>1, FileWritten
    <2>2. CASE ~stored
      <3>1. file' = file /\ dbFileSize' = dbFileSize
        BY <2>2 DEF Spill
      <3> QED BY <1>1, <2>2, <3>1, FileSame DEF JInv
    <2> QED BY <2>1, <2>2
  <1> HIDE DEF sync
  <1>6. ASSUME NEW q, NEW v, q <= dbSize, Reads(q, v) PROVE Reads(q, v)'
    <2>1. CASE q = p
      <3>1. stored /\ cache[p].data = v
        BY <1>6, <2>1 DEF Reads
      <3> QED BY <1>3, <1>5, <2>1, <3>1 DEF Reads
    <2>2. CASE q # p
      BY <1>3, <1>5, <1>6, <2>2 DEF Reads
    <2> QED BY <2>1, <2>2
  <1>7. States' /\ ImagesOK'
    <2>1. States'
      BY DEF JInv, States
    <2>2. Len(savepoints') = Len(savepoints)
      BY DEF JournalMoves
    <2> QED BY <2>1, <2>2, ImagesSame DEF JInv
  <1>8. CacheOK'
    <2>1. DOMAIN cache' \subseteq 1 .. bound'.pages /\ 1 \in DOMAIN cache'
      BY <1>3 DEF JInv, CacheOK
    <2>2. ASSUME NEW q \in DOMAIN cache'
          PROVE  cache'[q] \in Frames(q)' /\ (cache'[q].needSync => cache'[q].dirty)
      <3>1. Frames(q)' = Frames(q)
        BY DEF Frames, PageData
      <3>2. cache'[q].needSync => cache'[q].dirty
        BY <1>2, <1>3, <1>4
      <3> QED BY <1>3, <3>1, <3>2
    <2> QED BY <1>3, <2>1, <2>2 DEF CacheOK
  <1>9. DOMAIN saved = DOMAIN savepoints /\ DOMAIN savepoints' = DOMAIN savepoints
        /\ savepoints \in Seq(Savepoints)
    BY DEF JInv, ImagesOK, JournalOK, JournalMoves
  <1>10. Sizes'
    <2>1. \A i \in DOMAIN savepoints : savepoints'[i].nOrig = savepoints[i].nOrig
      BY DEF JournalMoves, SameButHdr
    <2>2. Len(file') \in Nat
      BY <1>5 DEF FileOK
    <2>3. Len(begun) <= Len(file')
      BY <1>1, <1>5, <2>2
    <2> QED BY <1>9, <2>1, <2>3 DEF JInv, Sizes
  <1>11. Unwritten'
    BY DEF Unwritten
  <1>12. Nested'
    BY NestedMoves
  <1>13. MainRecords'
    <2>1. ASSUME NEW o \in Records
          PROVE  LET r == jfile[o + 1] IN
                 /\ jfile'[o + 1] = r /\ r \in RecordBlocks
                 /\ r.pgno \in inJournal /\ r.pgno \in 1 .. Len(begun)
                 /\ r.data \in PageData(r.pgno)
                 /\ o >= journalHdr' => r.pgno \in DOMAIN cache' /\ cache'[r.pgno].needSync
      <3> DEFINE r == jfile[o + 1]
      <3>1. /\ r \in RecordBlocks /\ r.pgno \in inJournal
            /\ r.pgno \in 1 .. Len(begun) /\ r.data \in PageData(r.pgno)
            /\ o >= journalHdr => r.pgno \in DOMAIN cache /\ cache[r.pgno].needSync
        BY DEF JInv, MainRecords
      <3>2. jfile'[o + 1] = r /\ journalHdr' \in Nat /\ o \in Nat
        <4>1. jfile'[o + 1] = r /\ journalHdr' \in Nat
          BY DEF JournalMoves
        <4>2. o \in Nat
          BY DEF Records, RecordsOf
        <4> QED BY <4>1, <4>2
      <3> HIDE DEF r
      <3>3. CASE sync
        <4>1. ~(o >= journalHdr')
          BY <3>2, <3>3 DEF sync
        <4> QED BY <3>1, <3>2, <4>1 DEF r
      <3>4. CASE ~sync
        <4>1. journalHdr' = journalHdr
          BY <3>4 DEF sync
        <4> QED BY <1>3, <3>1, <3>2, <3>4, <4>1 DEF r
      <3> QED BY <3>3, <3>4
    <2>2. \A o, q \in Records : jfile[o + 1].pgno = jfile[q + 1].pgno => o = q
      BY DEF JInv, MainRecords
    <2>3. Records' = Records /\ \A o \in Records : jfile'[o + 1] = jfile[o + 1]
      BY DEF JournalMoves
    <2>4. \A o, q \in Records' : jfile'[o + 1].pgno = jfile'[q + 1].pgno => o = q
      BY <2>2, <2>3
    <2> QED BY <2>1, <2>3, <2>4, PagesTyped DEF MainRecords
  <1>14. SubRecords'
    <2>1. sub' = sub
      BY DEF JournalMoves
    <2> QED BY <2>1, PagesTyped DEF JInv, SubRecords
  <1>15. ViewReads'
    <2>1. ASSUME NEW q \in Live(view) PROVE Reads(q, view[q])'
      <3>1. q <= dbSize
        BY <1>1 DEF Live
      <3>2. Reads(q, view[q])
        BY DEF JInv, ViewReads
      <3> QED BY <1>6, <3>1, <3>2
    <2> QED BY <2>1 DEF ViewReads, Live
  <1>16. BegunKept'
    <2>1. ASSUME NEW q \in Live(begun)
          PROVE  /\ q \notin inJournal =>
                       file'[q] = begun[q] /\ (q \in DOMAIN cache' => cache'[q].data = begun[q])
                 /\ q \in inJournal =>
                       \E o \in Records' : /\ jfile'[o + 1] = Record(q, begun[q])
                                           /\ file'[q] = begun[q] \/ o < journalHdr'
      <3>1. /\ q \notin inJournal =>
                  file[q] = begun[q] /\ (q \in DOMAIN cache => cache[q].data = begun[q])
            /\ q \in inJournal =>
                  \E o \in Records : /\ jfile[o + 1] = Record(q, begun[q])
                                     /\ file[q] = begun[q] \/ o < journalHdr
        BY DEF JInv, BegunKept
      <3>2. q \in DOMAIN file
        <4>1. q \in 1 .. Len(begun)
          BY DEF Live
        <4> QED BY <1>1, <4>1 DEF JInv, FileOK
      <3>3. CASE q \notin inJournal
        BY <1>3, <1>5, <3>1, <3>2, <3>3
      <3>4. CASE q \in inJournal
        <4>1. PICK o \in Records : /\ jfile[o + 1] = Record(q, begun[q])
                                   /\ file[q] = begun[q] \/ o < journalHdr
          BY <3>1, <3>4
        <4>2. /\ o \in Records' /\ jfile'[o + 1] = jfile[o + 1] /\ o \in Nat
              /\ journalHdr \in Nat /\ journalHdr' \in Nat /\ journalHdr <= journalHdr'
          <5>1. /\ o \in Records' /\ jfile'[o + 1] = jfile[o + 1]
                /\ journalHdr \in Nat /\ journalHdr' \in Nat /\ journalHdr <= journalHdr'
            BY DEF JournalMoves, JInv, JournalOK
          <5>2. o \in Nat
            BY DEF Records, RecordsOf
          <5> QED BY <5>1, <5>2
        <4>3. CASE q # p
          <5>1. file'[q] = file[q]
            BY <1>5, <3>2, <4>3
          <5> QED BY <3>4, <4>1, <4>2, <5>1
        <4>4. CASE q = p
          <5>1. o < journalHdr'
            <6>1. CASE sync
              BY <6>1 DEF sync
            <6>2. CASE ~sync
              <7>1. jfile[o + 1].pgno = p
                BY <4>1, <4>4, RecordFields
              <7>2. o >= journalHdr => cache[p].needSync
                BY <7>1 DEF JInv, MainRecords
              <7>3. journalHdr' = journalHdr
                BY <6>2 DEF sync
              <7> QED BY <1>4, <4>2, <6>2, <7>2, <7>3
            <6> QED BY <6>1, <6>2
          <5> QED BY <3>4, <4>1, <4>2, <5>1
        <4> QED BY <4>3, <4>4
      <3> QED BY <3>3, <3>4
    <2>2. Live(begun)' = Live(begun)
      BY DEF Live
    <2>3. \A q, v : Record(q, v)' = Record(q, v)
      BY DEF Record
    <2> QED BY <2>1, <2>2, <2>3 DEF BegunKept
  <1>17. SavedKept'
    <2>1. ASSUME NEW i \in DOMAIN saved, NEW q \in Live(saved[i]), Reads(q, saved[i][q])
          PROVE  Reads(q, saved[i][q])'
      <3>1. q <= dbSize
        <4>1. q \in 1 .. Len(saved[i]) /\ Len(saved[i]) \in Nat /\ Len(saved[i]) <= dbSize
          BY <1>9 DEF Live, JInv, ImagesOK, IsImage, Sizes
        <4> QED BY <1>1, <4>1
      <3> QED BY <1>6, <2>1, <3>1
    <2>2. \A q : q \in DOMAIN cache' /\ cache'[q].dirty /\ cache'[q].dontWrite =>
                    q \in DOMAIN cache /\ cache[q].dirty /\ cache[q].dontWrite
      BY <1>3
    <2> QED BY <2>1, <2>2, SavedMoves
  <1>18. FreedKept'
    BY FreedSame DEF JInv
  <1> QED BY <1>5, <1>7, <1>8, <1>10, <1>11, <1>12, <1>13, <1>14, <1>15, <1>16, <1>17, <1>18 DEF JInv

LEMMA StressFails ==
    ASSUME JInv, JournalAssumption, rc = "OK", eState \in {"CACHEMOD", "DBMOD"}, rc' = "NOMEM",
           JournalMoves, JournalOK', Layout', Marks',
           \A o \in Records : o < journalHdr' /\ o \in Nat,
           UNCHANGED <<bound, eState, file, dbFileSize, cache, dbSize, dbOrigSize, inJournal,
                       hasContent, view, begun, saved>>
    PROVE  JInv'
  <1>1. States'
    BY DEF JInv, States
  <1>2. FileOK' /\ CacheOK' /\ FreedKept'
    BY FileSame, CacheSame, FreedSame DEF JInv
  <1>3. Len(savepoints') = Len(savepoints) /\ savepoints \in Seq(Savepoints)
        /\ DOMAIN savepoints' = DOMAIN savepoints
    BY DEF JournalMoves, JInv, JournalOK
  <1>4. ImagesOK'
    BY <1>3, ImagesSame DEF JInv
  <1>5. Sizes'
    <2>1. \A i \in DOMAIN savepoints : savepoints'[i].nOrig = savepoints[i].nOrig
      BY DEF JournalMoves, SameButHdr
    <2> QED BY <1>3, <2>1 DEF JInv, Sizes
  <1>6. Unwritten'
    BY DEF Unwritten
  <1>7. Nested'
    BY NestedMoves
  <1>8. MainRecords'
    <2>1. Records' = Records /\ \A o \in Records : jfile'[o + 1] = jfile[o + 1]
      BY DEF JournalMoves
    <2>2. journalHdr' \in Nat
      BY DEF JournalMoves
    <2>3. ASSUME NEW o \in Records
          PROVE  LET r == jfile[o + 1] IN
                 /\ r \in RecordBlocks
                 /\ r.pgno \in inJournal /\ r.pgno \in 1 .. Len(begun)
                 /\ r.data \in PageData(r.pgno)
                 /\ ~(o >= journalHdr')
                 /\ eState = "CACHEMOD" => r.pgno \in DOMAIN cache /\ cache[r.pgno].dirty
      <3>1. ~(o >= journalHdr')
        BY <2>2
      <3> QED BY <3>1 DEF JInv, MainRecords
    <2>4. \A o, q \in Records : jfile[o + 1].pgno = jfile[q + 1].pgno => o = q
      BY DEF JInv, MainRecords
    <2> QED BY <2>1, <2>3, <2>4, PagesTyped DEF MainRecords
  <1>9. SubRecords'
    <2>1. sub' = sub
      BY DEF JournalMoves
    <2> QED BY <2>1, PagesTyped DEF JInv, SubRecords
  <1>10. ViewReads'
    BY DEF ViewReads
  <1>11. BegunKept'
    <2>1. ASSUME NEW q \in Live(begun), q \in inJournal
          PROVE  \E o \in Records' : /\ jfile'[o + 1] = Record(q, begun[q])
                                     /\ file[q] = begun[q] \/ o < journalHdr'
      <3>1. PICK o \in Records : jfile[o + 1] = Record(q, begun[q])
        BY <2>1 DEF JInv, BegunKept
      <3>2. o \in Records' /\ jfile'[o + 1] = jfile[o + 1]
        BY DEF JournalMoves
      <3> QED BY <3>1, <3>2
    <2>2. Live(begun)' = Live(begun)
      BY DEF Live
    <2>3. \A q, v : Record(q, v)' = Record(q, v)
      BY DEF Record
    <2> QED BY <2>1, <2>2, <2>3 DEF JInv, BegunKept
  <1>12. SavedKept'
    <2>1. \A q, v : Reads(q, v) => Reads(q, v)'
      BY DEF Reads
    <2> QED BY <2>1, SavedMoves
  <1> QED BY <1>1, <1>2, <1>4, <1>5, <1>6, <1>7, <1>8, <1>9, <1>10, <1>11, <1>12 DEF JInv

\* pagerStress.
LEMMA StressKeeps ==
    ASSUME JInv, JournalAssumption, NEW p, pagerStress(p)
    PROVE  JInv'
  <1>1. /\ rc = "OK" /\ eState \in {"CACHEMOD", "DBMOD"} /\ p \in DOMAIN cache /\ cache[p].dirty
        /\ UNCHANGED <<bound, dbSize, dbOrigSize, jOpen, inJournal, sub, hasContent, view, begun,
                       saved>>
    BY DEF pagerStress, auxVars
  <1>2. /\ jfile \in Seq(Blocks) /\ savepoints \in Seq(Savepoints) /\ jOpen
        /\ Chained(jfile, journalHdr) /\ Filling(jfile, journalHdr, nRec)
        /\ journalOff = Len(jfile)
    BY <1>1 DEF JInv, JournalOK, Layout
  <1>3. CASE /\ NeedsSync(p) /\ journalHdr' = journalOff /\ journalOff' = journalOff + 1 /\ nRec' = 0
             /\ savepoints' = SetHdrOffset
    <2> DEFINE k == HeaderCounted
    <2>1. /\ k \in Seq(Blocks) /\ Len(k) = Len(jfile) /\ journalOff = Len(jfile)
          /\ Len(jfile) \in Nat /\ journalHdr \in Nat /\ journalHdr < Len(jfile)
          /\ HeadersOf(k) = HeadersOf(jfile) /\ RecordsOf(k) = Records
          /\ \A o \in Records : k[o + 1] = jfile[o + 1]
          /\ \A o \in Records : o < Len(jfile)
          /\ Chained(k, Len(jfile))
      BY <1>1, JournalCounted
    <2> HIDE DEF k
    <2>2. /\ savepoints' \in Seq(Savepoints) /\ Len(savepoints') = Len(savepoints)
          /\ \A i \in DOMAIN savepoints :
                /\ SameButHdr(savepoints[i], savepoints'[i])
                /\ \A j \in Seq(Blocks) :
                      HeadersOf(j) \cup {Len(jfile)} = HeadersOf(jfile) \cup {Len(jfile)}
                      /\ Len(j) >= Len(jfile) => MarkIn(savepoints'[i], j, Len(jfile))
      BY <1>1, <1>3, HdrMarked
    <2>3. DOMAIN savepoints' = DOMAIN savepoints
      BY <1>2, <2>2
    <2>4. \A o \in Records : o < journalHdr' /\ o \in Nat
      BY <1>3, <2>1 DEF Records, RecordsOf
    <2>5. ASSUME jfile' \in Seq(Blocks), RecordsOf(jfile') = RecordsOf(k),
                 \A o \in RecordsOf(k) : jfile'[o + 1] = k[o + 1]
          PROVE  JournalMoves /\ JournalOK'
      <3>1. Records' = Records /\ \A o \in Records : jfile'[o + 1] = jfile[o + 1]
        BY <2>1, <2>5 DEF Records
      <3>2. journalHdr' \in Nat /\ journalHdr <= journalHdr' /\ journalOff' \in Nat /\ nRec' \in Nat
        BY <1>3, <2>1
      <3>3. JournalMoves
        BY <1>1, <2>2, <3>1, <3>2 DEF JournalMoves
      <3>4. JournalOK'
        BY <1>1, <2>2, <2>5, <3>2 DEF JInv, JournalOK
      <3> QED BY <3>3, <3>4
    <2>6. ASSUME jfile' \in Seq(Blocks), Len(jfile') >= Len(jfile),
                 HeadersOf(jfile') \cup {Len(jfile)} = HeadersOf(jfile) \cup {Len(jfile)},
                 eState' \in {"CACHEMOD", "DBMOD"}
          PROVE  Marks'
      <3>1. \A i \in DOMAIN savepoints : MarkIn(savepoints'[i], jfile', journalHdr')
        BY <1>3, <2>1, <2>2, <2>6
      <3> QED BY <2>3, <2>6, <3>1 DEF Marks
    <2>7. CASE /\ jfile' = Append(HeaderCounted, Header(0, FALSE)) /\ eState' = "DBMOD"
               /\ Spill(p) /\ rc' = rc
      <3> DEFINE b == Header(0, FALSE)
      <3>1. b \in HeaderBlocks /\ b.nRec = 0
        BY HeaderIsHeader
      <3>2. jfile' = Append(k, b)
        BY <2>7 DEF k
      <3> HIDE DEF b
      <3>3. LET j == Append(k, b) IN
            /\ j \in Seq(Blocks) /\ Len(j) = Len(k) + 1
            /\ RecordsOf(j) = RecordsOf(k)
            /\ \A o \in RecordsOf(k) : j[o + 1] = k[o + 1]
            /\ HeadersOf(j) = HeadersOf(k) \cup {Len(k)}
            /\ Chained(j, Len(k)) /\ Filling(j, Len(k), 0)
        BY <2>1, <3>1, HeaderAdded
      <3>4. /\ jfile' \in Seq(Blocks) /\ Len(jfile') = Len(jfile) + 1
            /\ RecordsOf(jfile') = RecordsOf(k)
            /\ \A o \in RecordsOf(k) : jfile'[o + 1] = k[o + 1]
            /\ HeadersOf(jfile') = HeadersOf(jfile) \cup {Len(jfile)}
            /\ Chained(jfile', Len(jfile)) /\ Filling(jfile', Len(jfile), 0)
        BY <2>1, <3>2, <3>3
      <3>5. JournalMoves /\ JournalOK'
        BY <2>5, <3>4
      <3>6. Marks'
        <4>1. HeadersOf(jfile') \cup {Len(jfile)} = HeadersOf(jfile) \cup {Len(jfile)}
          BY <3>4
        <4>2. Len(jfile') >= Len(jfile)
          BY <2>1, <3>4
        <4>3. eState' \in {"CACHEMOD", "DBMOD"}
          BY <2>7
        <4> QED BY <2>6, <3>4, <4>1, <4>2, <4>3
      <3>7. Layout'
        BY <1>1, <1>2, <1>3, <2>1, <2>7, <3>4 DEF Layout
      <3> QED BY <1>1, <1>3, <2>4, <2>7, <3>5, <3>6, <3>7, SpillKeeps
    <2>8. CASE /\ jfile' = HeaderCounted /\ rc' = "NOMEM" /\ eState' = pager_error(eState, rc')
               /\ UNCHANGED <<fileVars, cache>>
      <3>1. jfile' = k
        BY <2>8 DEF k
      <3>2. eState' = eState
        BY <2>8 DEF pager_error
      <3>3. JournalMoves /\ JournalOK'
        BY <2>1, <2>5, <3>1
      <3>4. Marks'
        BY <1>1, <2>1, <2>6, <3>1, <3>2
      <3>5. Layout'
        BY <1>1, <1>2, <1>3, <2>1, <2>8, <3>1, <3>2 DEF Layout
      <3> QED BY <1>1, <2>4, <2>8, <3>2, <3>3, <3>4, <3>5, StressFails DEF fileVars
    <2> QED BY <1>1, <1>3, <2>7, <2>8 DEF pagerStress
  <1>4. CASE /\ ~NeedsSync(p) /\ Spill(p)
             /\ UNCHANGED <<eState, rc, journalHdr, journalOff, nRec, savepoints, jfile>>
    <2>1. eState = "DBMOD"
      BY <1>1, <1>4 DEF NeedsSync
    <2>2. JournalMoves /\ JournalOK' /\ Layout' /\ Marks'
      BY <1>1, <1>4, NothingMoves, JournalSame, LayoutSame, MarksSame DEF JInv
    <2> QED BY <1>1, <1>4, <2>1, <2>2, SpillKeeps
  <1> QED
    <2>1. \/ /\ NeedsSync(p) /\ journalHdr' = journalOff /\ journalOff' = journalOff + 1 /\ nRec' = 0
             /\ savepoints' = SetHdrOffset
          \/ /\ ~NeedsSync(p) /\ Spill(p)
             /\ UNCHANGED <<eState, rc, journalHdr, journalOff, nRec, savepoints, jfile>>
      BY DEF pagerStress
    <2> QED BY <1>3, <1>4, <2>1

--------------------------------------------------------------------------------
(* Committing *)

LEMMA LargestOf ==
    ASSUME NEW T, NEW n \in Nat, T \subseteq 0 .. n, T # {}
    PROVE  \E x \in T : \A y \in T : y <= x
  <1> DEFINE U == {n - y : y \in T}
  <1>1. U \subseteq Nat /\ U # {}
    <2>1. \A y \in T : n - y \in Nat
      OBVIOUS
    <2> QED BY <2>1
  <1>2. PICK u \in U : \A w \in U : u <= w
    BY <1>1, SmallestOf
  <1>3. PICK x \in T : u = n - x
    OBVIOUS
  <1>4. ASSUME NEW y \in T PROVE y <= x
    <2>1. n - x <= n - y
      BY <1>2, <1>3
    <2> QED BY <2>1
  <1> QED BY <1>4

\* What pager_write_pagelist and pager_truncate make of the file.
Listed(stored, top, size, list) ==
    /\ stored = {p \in DOMAIN cache : cache[p].dirty /\ p <= dbSize /\ ~cache[p].dontWrite}
    /\ top = CHOOSE n \in stored \cup {dbFileSize} : \A p \in stored \cup {dbFileSize} : p <= n
    /\ size = MAX(Len(file), top)
    /\ list = [i \in 1 .. size |-> IF i \in stored THEN cache[i].data
                                  ELSE IF i \in DOMAIN file THEN file[i] ELSE hole]
    /\ file' = IF dbSize > top /\ size < dbSize THEN Written(list, dbSize, zeros) ELSE list
    /\ dbFileSize' = MAX(dbSize, top)

LEMMA ListWritten ==
    ASSUME JInv, JournalAssumption, bound' = bound,
           NEW stored, NEW top, NEW size, NEW list, Listed(stored, top, size, list)
    PROVE  /\ FileOK' /\ Len(file) <= Len(file') /\ dbSize <= Len(file')
           /\ \A q \in stored : q \in DOMAIN file' /\ file'[q] = cache[q].data
           /\ \A q \in DOMAIN file \ stored : q \in DOMAIN file' /\ file'[q] = file[q]
  <1>1. /\ file \in Seq(Contents) /\ Len(file) \in 1 .. bound.pages /\ dbFileSize = Len(file)
        /\ bound.pages \in Nat /\ dbSize \in 1 .. bound.pages
        /\ \A i \in DOMAIN file : file[i] \in PageData(i) \cup {hole}
    BY PagesPositive DEF JInv, FileOK, Sizes, ImagesOK, IsImage
  <1>2. /\ stored \subseteq 1 .. bound.pages /\ \A q \in stored : q \in 1 .. dbSize
        /\ \A q \in stored : cache[q].data \in PageData(q)
    <2>1. DOMAIN cache \subseteq 1 .. bound.pages
          /\ \A q \in DOMAIN cache : cache[q].data \in PageData(q)
      BY DEF JInv, CacheOK, Frames
    <2> QED BY <1>1, <2>1 DEF Listed
  <1>3. top \in 1 .. bound.pages /\ Len(file) <= top /\ \A q \in stored : q <= top
    <2> DEFINE T == stored \cup {dbFileSize}
    <2>1. T \subseteq 0 .. bound.pages /\ T # {}
      <3>1. dbFileSize \in 0 .. bound.pages
        BY <1>1
      <3>2. \A q \in stored : q \in 0 .. bound.pages
        BY <1>1, <1>2
      <3> QED BY <3>1, <3>2
    <2>2. \E x \in T : \A y \in T : y <= x
      BY <1>1, <2>1, LargestOf
    <2>3. top \in T /\ \A y \in T : y <= top
      BY <2>2 DEF Listed
    <2> QED BY <1>1, <1>2, <2>3
  <1>4. size = top
    <2>1. size = MAX(Len(file), top)
      BY DEF Listed
    <2> QED BY <1>1, <1>3, <2>1 DEF MAX
  <1>5. /\ DOMAIN list = 1 .. top
        /\ \A i \in 1 .. top : list[i] = IF i \in stored THEN cache[i].data
                                        ELSE IF i \in DOMAIN file THEN file[i] ELSE hole
        /\ list = [i \in 1 .. top |-> list[i]]
    BY <1>4 DEF Listed
  <1>6. \A i \in 1 .. top : list[i] \in PageData(i) \cup {hole}
    BY <1>1, <1>2, <1>5
  <1> DEFINE n == MAX(dbSize, top)
  <1>7. n \in 1 .. bound.pages /\ n \in Nat /\ top <= n /\ dbSize <= n
    BY <1>1, <1>3 DEF MAX
  <1>8. /\ file' = [i \in 1 .. n |-> file'[i]]
        /\ \A i \in 1 .. top : file'[i] = list[i]
        /\ \A i \in 1 .. n : file'[i] \in PageData(i) \cup {hole}
    <2>1. CASE dbSize > top
      <3>1. file' = Written(list, dbSize, zeros) /\ n = dbSize
        <4>1. file' = Written(list, dbSize, zeros)
          BY <1>4, <2>1 DEF Listed
        <4> QED BY <1>1, <1>3, <2>1, <4>1 DEF MAX
      <3>2. Len(list) = top
        BY <1>3, <1>5
      <3>3. MAX(Len(list), dbSize) = n
        BY <1>1, <1>3, <2>1, <3>1, <3>2 DEF MAX
      <3>4. file' = [i \in 1 .. n |-> IF i = dbSize THEN zeros
                                     ELSE IF i \in DOMAIN list THEN list[i] ELSE hole]
        BY <3>1, <3>3 DEF Written
      <3>5. zeros \in PageData(dbSize)
        BY <1>1, <1>3, <2>1 DEF PageData, JournalAssumption
      <3>6. \A i \in 1 .. top : i \in 1 .. n /\ i # dbSize
        BY <1>1, <1>3, <1>7, <2>1
      <3> HIDE DEF n
      <3> QED BY <1>5, <1>6, <3>4, <3>5, <3>6
    <2>2. CASE ~(dbSize > top)
      <3>1. file' = list /\ n = top
        <4>1. file' = list
          BY <2>2 DEF Listed
        <4> QED BY <1>1, <1>3, <2>2, <4>1 DEF MAX
      <3> HIDE DEF n
      <3> QED BY <1>5, <1>6, <3>1
    <2> QED BY <2>1, <2>2
  <1> HIDE DEF n
  <1>9. \A i \in 1 .. n : file'[i] \in Contents
    <2>1. hole \in Contents
      BY DEF Contents
    <2> QED BY <1>8, <2>1, PageDataTyped
  <1>10. file' \in Seq(Contents) /\ Len(file') = n /\ DOMAIN file' = 1 .. n
    <2>1. file' \in [1 .. n -> Contents]
      BY <1>8, <1>9
    <2> QED BY <1>7, <2>1
  <1>11. FileOK'
    <2>1. dbFileSize' = n
      BY DEF n, Listed
    <2> QED BY <1>7, <1>8, <1>10, <2>1, PagesTyped DEF FileOK
  <1>12. \A q \in stored : q \in DOMAIN file' /\ file'[q] = cache[q].data
    <2>1. \A q \in stored : q \in 1 .. top /\ q \in 1 .. n
      BY <1>1, <1>2, <1>3, <1>7
    <2> QED BY <1>5, <1>8, <1>10, <2>1
  <1>13. \A q \in DOMAIN file \ stored : q \in DOMAIN file' /\ file'[q] = file[q]
    <2>1. \A q \in DOMAIN file : q \in 1 .. top /\ q \in 1 .. n
      BY <1>1, <1>3, <1>7
    <2> QED BY <1>5, <1>8, <1>10, <2>1
  <1>14. Len(file) <= Len(file') /\ dbSize <= Len(file')
    BY <1>1, <1>3, <1>7, <1>10
  <1> QED BY <1>11, <1>12, <1>13, <1>14

\* The cache at the end of a transaction.
LEMMA CleanedCache ==
    ASSUME CacheOK, NEW c, c = CleanAll(cache)
    PROVE  /\ DOMAIN c = DOMAIN cache /\ c = [q \in DOMAIN c |-> c[q]]
           /\ \A q \in DOMAIN cache :
                 /\ c[q] \in Frames(q) /\ c[q].data = cache[q].data
                 /\ c[q].dirty = FALSE /\ c[q].needSync = FALSE
  <1>1. /\ DOMAIN c = DOMAIN cache /\ c = [q \in DOMAIN c |-> c[q]]
        /\ \A q \in DOMAIN cache : c[q] = [cache[q] EXCEPT !.dirty = FALSE, !.needSync = FALSE]
    BY DEF CleanAll
  <1>2. ASSUME NEW q \in DOMAIN cache
        PROVE  /\ c[q] \in Frames(q) /\ c[q].data = cache[q].data
               /\ c[q].dirty = FALSE /\ c[q].needSync = FALSE
    <2>1. cache[q] \in Frames(q) /\ c[q] = [cache[q] EXCEPT !.dirty = FALSE, !.needSync = FALSE]
      BY <1>1 DEF CacheOK
    <2> QED BY <2>1 DEF Frames
  <1> QED BY <1>1, <1>2

LEMMA CommitPhaseOneKeeps ==
    ASSUME JInv, JournalAssumption, sqlite3PagerCommitPhaseOne
    PROVE  JInv'
  <1> DEFINE stored == {p \in DOMAIN cache :
                          cache[p].dirty /\ p <= dbSize /\ ~cache[p].dontWrite}
             top == CHOOSE n \in stored \cup {dbFileSize} :
                       \A p \in stored \cup {dbFileSize} : p <= n
             size == MAX(Len(file), top)
             list == [i \in 1 .. size |-> IF i \in stored THEN cache[i].data
                                         ELSE IF i \in DOMAIN file THEN file[i] ELSE hole]
  <1>1. /\ rc = "OK" /\ Writeable(1) /\ jfile' = HeaderCounted /\ journalHdr' = journalOff
        /\ Listed(stored, top, size, list)
        /\ cache' = CleanAll(cache) /\ eState' = "FINISHED"
        /\ UNCHANGED <<bound, rc, dbSize, dbOrigSize, jOpen, journalOff, nRec, inJournal,
                       savepoints, sub, hasContent, view, begun, saved>>
    BY DEF sqlite3PagerCommitPhaseOne, Listed, savepointVars, auxVars
  <1>2. \A q : q \in stored <=>
                  q \in DOMAIN cache /\ cache[q].dirty /\ q <= dbSize /\ ~cache[q].dontWrite
    OBVIOUS
  <1> HIDE DEF stored, top, size, list
  <1>3. eState \in {"CACHEMOD", "DBMOD"}
    BY <1>1, TrunkWriteable
  <1>4. /\ FileOK' /\ Len(file) <= Len(file') /\ dbSize <= Len(file')
        /\ \A q \in stored : q \in DOMAIN file' /\ file'[q] = cache[q].data
        /\ \A q \in DOMAIN file \ stored : q \in DOMAIN file' /\ file'[q] = file[q]
    BY <1>1, ListWritten
  <1>5. /\ DOMAIN cache' = DOMAIN cache /\ cache' = [q \in DOMAIN cache' |-> cache'[q]]
        /\ \A q \in DOMAIN cache :
              /\ cache'[q] \in Frames(q) /\ cache'[q].data = cache[q].data
              /\ cache'[q].dirty = FALSE /\ cache'[q].needSync = FALSE
    <2>1. CacheOK /\ cache' = CleanAll(cache)
      BY <1>1 DEF JInv
    <2> QED BY <2>1, CleanedCache
  <1> DEFINE k == HeaderCounted
  <1>6. /\ k \in Seq(Blocks) /\ Len(k) = Len(jfile) /\ journalOff = Len(jfile)
        /\ Len(jfile) \in Nat /\ journalHdr \in Nat /\ journalHdr < Len(jfile)
        /\ RecordsOf(k) = Records
        /\ \A o \in Records : k[o + 1] = jfile[o + 1]
        /\ \A o \in Records : o < Len(jfile)
        /\ Chained(k, Len(jfile))
    BY <1>1, <1>3, JournalCounted
  <1>7. jfile' = k
    BY <1>1
  <1> HIDE DEF k
  <1>8. savepoints \in Seq(Savepoints)
    BY DEF JInv, JournalOK
  <1>9. JournalMoves
    <2>1. Records' = Records /\ \A o \in Records : jfile'[o + 1] = jfile[o + 1]
      BY <1>6, <1>7 DEF Records
    <2>2. journalHdr' \in Nat /\ journalHdr <= journalHdr'
      BY <1>1, <1>6
    <2> QED BY <1>1, <1>8, <2>1, <2>2 DEF JournalMoves, SameButHdr
  <1>10. \A o \in Records : o < journalHdr' /\ o \in Nat
    BY <1>1, <1>6 DEF Records, RecordsOf
  <1>11. JournalOK'
    BY <1>1, <1>6, <1>7 DEF JInv, JournalOK
  <1>12. Layout'
    <2>1. jOpen
      BY <1>3 DEF JInv, Layout
    <2> QED BY <1>1, <1>6, <1>7, <2>1 DEF Layout
  <1>13. /\ IsImage(view) /\ dbSize = Len(view) /\ dbSize \in Nat
         /\ Len(begun) <= Len(file) /\ Len(begun) \in Nat /\ Len(file) \in Nat
         /\ Len(begun) <= dbSize /\ dbOrigSize = Len(begun)
    BY <1>3 DEF JInv, ImagesOK, Sizes, FileOK, IsImage
  <1>14. ASSUME NEW q, NEW v, q <= dbSize, Reads(q, v) PROVE Reads(q, v)'
    <2>1. CASE q \in DOMAIN cache /\ cache[q].dirty
      <3>1. cache[q].data = v /\ ~cache[q].dontWrite
        BY <1>14, <2>1 DEF Reads
      <3>2. q \in stored
        BY <1>2, <1>14, <2>1, <3>1
      <3> QED BY <1>4, <1>5, <2>1, <3>1, <3>2 DEF Reads
    <2>2. CASE ~(q \in DOMAIN cache /\ cache[q].dirty)
      <3>1. q \in DOMAIN file /\ file[q] = v /\ (q \in DOMAIN cache => cache[q].data = v)
        BY <1>14, <2>2 DEF Reads
      <3>2. q \notin stored
        BY <1>2, <2>2
      <3> QED BY <1>4, <1>5, <3>1, <3>2 DEF Reads
    <2> QED BY <2>1, <2>2
  <1>15. States' /\ ImagesOK' /\ Nested' /\ FreedKept'
    <2>1. States'
      BY <1>1 DEF JInv, States
    <2>2. ImagesOK' /\ Nested' /\ FreedKept'
      BY <1>1, ImagesSame, NestedSame, FreedSame DEF JInv
    <2> QED BY <2>1, <2>2
  <1>16. CacheOK'
    <2>1. DOMAIN cache' \subseteq 1 .. bound'.pages /\ 1 \in DOMAIN cache'
      BY <1>1, <1>5 DEF JInv, CacheOK
    <2>2. ASSUME NEW q \in DOMAIN cache'
          PROVE  /\ cache'[q] \in Frames(q)' /\ (cache'[q].needSync => cache'[q].dirty)
                 /\ ~cache'[q].dirty
      <3>1. Frames(q)' = Frames(q)
        BY <1>1 DEF Frames, PageData
      <3> QED BY <1>5, <3>1
    <2> QED BY <1>5, <2>1, <2>2 DEF CacheOK
  <1>17. Sizes'
    <2>1. Len(file') \in Nat
      BY <1>4 DEF FileOK
    <2>2. Len(begun) <= Len(file')
      BY <1>4, <1>13, <2>1
    <2> QED BY <1>1, <1>4, <1>13, <2>2 DEF JInv, Sizes
  <1>18. Unwritten' /\ Marks'
    BY <1>1 DEF Unwritten, Marks
  <1>19. MainRecords'
    <2>1. Records' = Records /\ \A o \in Records : jfile'[o + 1] = jfile[o + 1]
      BY <1>9 DEF JournalMoves
    <2>2. journalHdr' \in Nat
      BY <1>1, <1>6
    <2>3. ASSUME NEW o \in Records
          PROVE  LET r == jfile[o + 1] IN
                 /\ r \in RecordBlocks
                 /\ r.pgno \in inJournal /\ r.pgno \in 1 .. Len(begun)
                 /\ r.data \in PageData(r.pgno)
                 /\ ~(o >= journalHdr')
      <3>1. ~(o >= journalHdr')
        BY <1>10, <2>2
      <3> QED BY <3>1 DEF JInv, MainRecords
    <2>4. \A o, q \in Records : jfile[o + 1].pgno = jfile[q + 1].pgno => o = q
      BY DEF JInv, MainRecords
    <2> QED BY <1>1, <2>1, <2>3, <2>4, PagesTyped DEF MainRecords
  <1>20. SubRecords'
    BY <1>1, PagesTyped DEF JInv, SubRecords
  <1>21. ViewReads'
    <2>1. ASSUME NEW q \in Live(view) PROVE Reads(q, view[q])'
      <3>1. q <= dbSize
        BY <1>13 DEF Live, IsImage
      <3>2. Reads(q, view[q])
        BY <1>1 DEF JInv, ViewReads
      <3> QED BY <1>1, <1>14, <3>1, <3>2
    <2> QED BY <1>1, <2>1 DEF ViewReads, Live
  <1>22. BegunKept'
    <2>1. ASSUME NEW q \in Live(begun), q \notin inJournal
          PROVE  file'[q] = begun[q] /\ (q \in DOMAIN cache' => cache'[q].data = begun[q])
      <3>1. file[q] = begun[q] /\ (q \in DOMAIN cache => cache[q].data = begun[q])
        BY <2>1 DEF JInv, BegunKept
      <3>2. q \in DOMAIN file
        <4>1. q \in 1 .. Len(begun)
          BY DEF Live, JInv, ImagesOK, IsImage
        <4> QED BY <1>13, <4>1 DEF JInv, FileOK
      <3>3. CASE q \in stored
        BY <1>2, <1>4, <1>5, <3>1, <3>3
      <3>4. CASE q \notin stored
        BY <1>4, <1>5, <3>1, <3>2, <3>4
      <3> QED BY <3>3, <3>4
    <2>2. ASSUME NEW q \in Live(begun), q \in inJournal
          PROVE  \E o \in Records' : /\ jfile'[o + 1] = Record(q, begun[q])
                                     /\ o < journalHdr'
      <3>1. PICK o \in Records : jfile[o + 1] = Record(q, begun[q])
        BY <2>2 DEF JInv, BegunKept
      <3>2. o \in Records' /\ jfile'[o + 1] = jfile[o + 1]
        BY <1>9 DEF JournalMoves
      <3> QED BY <1>10, <3>1, <3>2
    <2>3. Live(begun)' = Live(begun)
      BY <1>1 DEF Live
    <2>4. \A q, v : Record(q, v)' = Record(q, v)
      BY DEF Record
    <2> QED BY <1>1, <2>1, <2>2, <2>3, <2>4 DEF BegunKept
  <1>23. SavedKept'
    <2>1. ASSUME NEW i \in DOMAIN saved, NEW q \in Live(saved[i]), Reads(q, saved[i][q])
          PROVE  Reads(q, saved[i][q])'
      <3>1. q <= dbSize
        <4>1. DOMAIN saved = DOMAIN savepoints
          BY <1>8 DEF JInv, ImagesOK
        <4>2. q \in 1 .. Len(saved[i]) /\ Len(saved[i]) \in Nat /\ Len(saved[i]) <= dbSize
          BY <4>1 DEF Live, JInv, ImagesOK, IsImage, Sizes
        <4> QED BY <1>13, <4>2
      <3> QED BY <1>1, <1>14, <2>1, <3>1
    <2>2. \A q : q \in DOMAIN cache' => ~cache'[q].dirty
      BY <1>5
    <2> QED BY <1>1, <1>9, <2>1, <2>2, SavedMoves
  <1> QED BY <1>4, <1>11, <1>12, <1>15, <1>16, <1>17, <1>18, <1>19, <1>20, <1>21, <1>22, <1>23 DEF JInv

--------------------------------------------------------------------------------
(* Ending a transaction *)

LEMMA CacheEnds ==
    ASSUME CacheOK, bound' = bound, NEW n \in Nat \ {0},
           DOMAIN cache' = DOMAIN cache \cap 1 .. n,
           cache' = [q \in DOMAIN cache' |-> cache'[q]],
           \A q \in DOMAIN cache' : /\ cache'[q] \in Frames(q)
                                    /\ cache'[q].dirty = FALSE /\ cache'[q].needSync = FALSE
    PROVE  CacheOK'
  <1>1. \A q : Frames(q)' = Frames(q)
    BY DEF Frames, PageData
  <1>2. DOMAIN cache' \subseteq 1 .. bound'.pages /\ 1 \in DOMAIN cache'
    BY DEF CacheOK
  <1> QED BY <1>1, <1>2 DEF CacheOK

\* A transaction that ends with image w, which the file and the cache hold.
LEMMA EndKeeps ==
    ASSUME JInv, JournalAssumption, EndTransaction, bound' = bound, dbOrigSize' = dbOrigSize,
           NEW w, IsImage(w), view' = w, begun' = w, dbSize' = Len(w),
           FileOK', Len(file') = Len(w), CacheOK',
           \A q \in Live(w) :
              q \in DOMAIN file' /\ file'[q] = w[q] /\ (q \in DOMAIN cache' => cache'[q].data = w[q])
    PROVE  JInv'
  <1>1. /\ eState' = "READER" /\ rc' = "OK" /\ jOpen' = FALSE /\ jfile' = << >>
        /\ journalOff' = 0 /\ journalHdr' = 0 /\ nRec' = 0 /\ inJournal' = {}
        /\ savepoints' = << >> /\ sub' = << >> /\ hasContent' = NoBitvec /\ saved' = << >>
    BY DEF EndTransaction
  <1>2. DOMAIN savepoints' = {} /\ DOMAIN saved' = {} /\ DOMAIN sub' = {}
        /\ Len(savepoints') = 0 /\ Len(saved') = 0
    BY <1>1
  <1>3. States'
    BY <1>1 DEF JInv, States
  <1>4. JournalOK'
    <2>1. hasContent' \in [size : Nat, pages : SUBSET Nat]
      BY <1>1 DEF NoBitvec
    <2>2. jfile' \in Seq(Blocks) /\ sub' \in Seq(RecordBlocks) /\ savepoints' \in Seq(Savepoints)
      BY <1>1
    <2> QED BY <1>1, <2>1, <2>2 DEF JournalOK
  <1>5. ImagesOK'
    <2>1. IsImage(view)' /\ IsImage(begun)'
      BY DEF IsImage
    <2>2. saved' \in Seq(Seq(Contents))
      BY <1>1
    <2> QED BY <1>2, <2>1, <2>2 DEF ImagesOK
  <1>6. Sizes'
    <2>1. dbOrigSize' \in 1 .. bound'.pages
      BY DEF JInv, Sizes
    <2>2. Len(w) \in Nat
      BY DEF IsImage
    <2> QED BY <1>1, <1>2, <2>1, <2>2 DEF Sizes
  <1>7. Unwritten'
    BY <1>1, <1>2 DEF Unwritten
  <1>8. Layout'
    BY <1>1 DEF Layout
  <1>9. Marks' /\ Nested'
    BY <1>2 DEF Marks, Nested
  <1>10. Records' = {}
    BY <1>1 DEF Records, RecordsOf
  <1>11. MainRecords' /\ SubRecords'
    BY <1>2, <1>10 DEF MainRecords, SubRecords
  <1>12. \A q \in DOMAIN cache' : ~cache'[q].dirty
    BY <1>1 DEF CacheOK
  <1>13. ViewReads'
    <2>1. ASSUME NEW q \in Live(w) PROVE Reads(q, w[q])'
      BY <1>12 DEF Reads
    <2>2. ASSUME NEW q \in Live(w) PROVE Reads(q, view[q])'
      BY <1>12 DEF Reads
    <2> QED BY <2>2 DEF ViewReads, Live
  <1>14. BegunKept'
    <2>1. Live(begun)' = Live(w)
      BY DEF Live
    <2> QED BY <1>1, <2>1 DEF BegunKept
  <1>15. SavedKept'
    BY <1>2 DEF SavedKept
  <1>16. FreedKept'
    BY <1>2 DEF FreedKept, Kept, Live
  <1> QED BY <1>3, <1>4, <1>5, <1>6, <1>7, <1>8, <1>9, <1>11, <1>13, <1>14, <1>15, <1>16 DEF JInv

\* The cache that a commit, or a rollback of nothing, leaves.
LEMMA UpToCache ==
    ASSUME CacheOK, bound' = bound, NEW n \in Nat \ {0}, cache' = UpTo(CleanAll(cache), n)
    PROVE  /\ CacheOK' /\ DOMAIN cache' = DOMAIN cache \cap 1 .. n
           /\ \A q \in DOMAIN cache' : cache'[q].data = cache[q].data
  <1> DEFINE c == CleanAll(cache)
  <1>1. /\ DOMAIN c = DOMAIN cache
        /\ \A q \in DOMAIN cache :
              /\ c[q] \in Frames(q) /\ c[q].data = cache[q].data
              /\ c[q].dirty = FALSE /\ c[q].needSync = FALSE
    BY CleanedCache
  <1>2. cache' = UpTo(c, n)
    OBVIOUS
  <1> HIDE DEF c
  <1>3. /\ DOMAIN cache' = DOMAIN cache \cap 1 .. n
        /\ cache' = [q \in DOMAIN cache' |-> cache'[q]]
        /\ \A q \in DOMAIN cache' : cache'[q] = c[q]
    BY <1>1, <1>2 DEF UpTo
  <1>4. \A q \in DOMAIN cache' :
           /\ cache'[q] \in Frames(q) /\ cache'[q].data = cache[q].data
           /\ cache'[q].dirty = FALSE /\ cache'[q].needSync = FALSE
    BY <1>1, <1>3
  <1>5. CacheOK'
    BY <1>3, <1>4, CacheEnds
  <1> QED BY <1>3, <1>4, <1>5

LEMMA CommitPhaseTwoKeeps ==
    ASSUME JInv, JournalAssumption, sqlite3PagerCommitPhaseTwo
    PROVE  JInv'
  <1>1. /\ rc = "OK" /\ eState \in {"LOCKED", "FINISHED"} /\ EndTransaction
        /\ cache' = UpTo(CleanAll(cache), dbSize)
        /\ begun' = view /\ UNCHANGED <<bound, dbSize, dbOrigSize, view>>
        /\ dbFileSize > dbSize => file' = SubSeq(file, 1, dbSize) /\ dbFileSize' = dbSize
        /\ ~(dbFileSize > dbSize) => file' = file /\ dbFileSize' = dbFileSize
    BY DEF sqlite3PagerCommitPhaseTwo, fileVars
  <1>2. /\ file \in Seq(Contents) /\ Len(file) \in 1 .. bound.pages /\ dbFileSize = Len(file)
        /\ \A i \in DOMAIN file : file[i] \in PageData(i) \cup {hole}
        /\ IsImage(view) /\ dbSize = Len(view) /\ dbSize \in 1 .. bound.pages
        /\ bound.pages \in Nat
    BY PagesPositive DEF JInv, FileOK, ImagesOK, Sizes, IsImage
  <1>3. dbSize <= Len(file)
    <2>1. CASE eState = "LOCKED"
      BY <1>2, <2>1 DEF JInv, Sizes, Unwritten
    <2>2. CASE eState = "FINISHED"
      BY <2>2 DEF JInv, Sizes
    <2> QED BY <1>1, <2>1, <2>2
  <1>4. file' \in Seq(Contents) /\ Len(file') = dbSize /\ dbFileSize' = dbSize
        /\ \A q \in 1 .. dbSize : q \in DOMAIN file /\ file'[q] = file[q]
    <2>1. CASE dbFileSize > dbSize
      BY <1>1, <1>2, <2>1
    <2>2. CASE ~(dbFileSize > dbSize)
      BY <1>1, <1>2, <1>3, <2>2
    <2> QED BY <2>1, <2>2
  <1>5. FileOK'
    <2>1. \A i \in DOMAIN file' : file'[i] \in PageData(i) \cup {hole}
      BY <1>2, <1>4
    <2> QED BY <1>1, <1>2, <1>4, <2>1, PagesTyped DEF FileOK
  <1>6. /\ CacheOK' /\ DOMAIN cache' = DOMAIN cache \cap 1 .. dbSize
        /\ \A q \in DOMAIN cache' : cache'[q].data = cache[q].data
    <2>1. CacheOK /\ bound' = bound /\ dbSize \in Nat \ {0}
          /\ cache' = UpTo(CleanAll(cache), dbSize)
      BY <1>1, <1>2 DEF JInv
    <2> QED BY <2>1, UpToCache
  <1>7. ASSUME NEW q \in Live(view)
        PROVE  q \in DOMAIN file' /\ file'[q] = view[q]
               /\ (q \in DOMAIN cache' => cache'[q].data = view[q])
    <2>1. Reads(q, view[q]) /\ (q \in DOMAIN cache => ~cache[q].dirty)
      BY <1>1 DEF JInv, ViewReads, CacheOK
    <2>2. q \in 1 .. dbSize
      BY <1>2 DEF Live, IsImage
    <2>3. file[q] = view[q] /\ (q \in DOMAIN cache => cache[q].data = view[q])
      BY <2>1 DEF Reads
    <2> QED BY <1>4, <1>6, <2>2, <2>3
  <1> QED BY <1>1, <1>2, <1>4, <1>5, <1>6, <1>7, EndKeeps

--------------------------------------------------------------------------------
(* Rolling a transaction back *)

\* The records that a playback reads for page p, and what it restores.
From(offs, p) == {o \in offs : jfile[o + 1].pgno = p}
Original(offs, p) == jfile[(CHOOSE o \in From(offs, p) : TRUE) + 1].data
Restored(offs) == {p \in 1 .. dbOrigSize : From(offs, p) # {}}
SyncedPages(offs) == {p \in Restored(offs) : \E o \in From(offs, p) : IsSynced(o)}

\* A rollback that has read the records at offs.
RolledBack(offs) ==
    /\ dbSize' = dbOrigSize
    /\ cache' = [p \in DOMAIN UpTo(cache, dbOrigSize) |->
                    IF p \in Restored(offs)
                    THEN [CleanAll(cache)[p] EXCEPT !.data = Original(offs, p)]
                    ELSE CleanAll(cache)[p]]
    /\ IF eState = "CACHEMOD"
       THEN UNCHANGED fileVars
       ELSE /\ file' = [i \in 1 .. dbOrigSize |->
                          IF i \in SyncedPages(offs) THEN Original(offs, i)
                          ELSE IF i \in DOMAIN file THEN file[i]
                          ELSE hole]
            /\ dbFileSize' = dbOrigSize

LEMMA RecordsPlayedBack ==
    ASSUME JInv, eState \in {"CACHEMOD", "DBMOD", "FINISHED"}
    PROVE  Replayed(0, Len(jfile)) = Records
  <1>1. /\ jfile \in Seq(Blocks) /\ journalHdr \in Nat /\ Len(jfile) \in Nat /\ nRec \in Nat
        /\ Chained(jfile, journalHdr)
        /\ Filling(jfile, journalHdr, nRec) \/ journalHdr = Len(jfile)
    BY DEF JInv, JournalOK, Layout
  <1>2. Playable(Len(jfile))
    <2>1. CASE Filling(jfile, journalHdr, nRec)
      <3>1. nRec = Len(jfile) - journalHdr - 1
        BY <1>1, <2>1 DEF Filling
      <3> QED BY <1>1, <2>1, <3>1 DEF Playable
    <2>2. CASE journalHdr = Len(jfile)
      BY <1>1, <2>2 DEF Playable
    <2> QED BY <1>1, <2>1, <2>2
  <1>3. 0 \in HeadersOf(jfile) /\ 0 \in Starts(Len(jfile))
    BY <1>1 DEF Chained, Starts
  <1>4. Replayed(0, Len(jfile)) = {o \in Records : 0 < o}
    BY <1>2, <1>3, PlaybackReadsAll
  <1>5. \A o \in Records : 0 < o
    <2>1. 0 \notin Records
      BY <1>3 DEF HeadersOf, Records, RecordsOf
    <2>2. \A o \in Records : o \in Nat
      BY DEF Records, RecordsOf
    <2> QED BY <2>1, <2>2
  <1> QED BY <1>4, <1>5

\* What the main journal has of a page of the database as it was.
LEMMA OriginalContent ==
    ASSUME JInv, eState \in {"CACHEMOD", "DBMOD", "FINISHED"}
    PROVE  /\ \A q \in Restored(Records) : Original(Records, q) \in PageData(q)
           /\ \A q \in Live(begun) :
                 /\ q \in Restored(Records) => Original(Records, q) = begun[q]
                 /\ q \notin Restored(Records) =>
                       file[q] = begun[q] /\ (q \in DOMAIN cache => cache[q].data = begun[q])
                 /\ file[q] = begun[q] \/ q \in SyncedPages(Records)
  <1>1. ASSUME NEW q \in Restored(Records) PROVE Original(Records, q) \in PageData(q)
    <2> DEFINE o == CHOOSE x \in From(Records, q) : TRUE
    <2>1. o \in From(Records, q)
      BY DEF Restored
    <2> HIDE DEF o
    <2>2. o \in Records /\ jfile[o + 1].pgno = q
      BY <2>1 DEF From
    <2>3. jfile[o + 1].data \in PageData(q)
      BY <2>2 DEF JInv, MainRecords
    <2> QED BY <2>3 DEF Original, o
  <1>2. ASSUME NEW q \in Live(begun)
        PROVE  /\ q \in Restored(Records) => Original(Records, q) = begun[q]
               /\ q \notin Restored(Records) =>
                     file[q] = begun[q] /\ (q \in DOMAIN cache => cache[q].data = begun[q])
               /\ file[q] = begun[q] \/ q \in SyncedPages(Records)
    <2>1. q \in 1 .. dbOrigSize
      BY DEF Live, JInv, ImagesOK, IsImage, Sizes
    <2>2. CASE q \in inJournal
      <3>1. PICK o \in Records : /\ jfile[o + 1] = Record(q, begun[q])
                                 /\ file[q] = begun[q] \/ o < journalHdr
        BY <2>2 DEF JInv, BegunKept
      <3>2. jfile[o + 1].pgno = q /\ jfile[o + 1].data = begun[q]
        BY <3>1, RecordFields
      <3>3. From(Records, q) = {o}
        BY <3>2 DEF From, JInv, MainRecords
      <3>4. Original(Records, q) = begun[q]
        <4>1. (CHOOSE x \in From(Records, q) : TRUE) = o
          BY <3>3
        <4> QED BY <3>2, <4>1 DEF Original
      <3>5. q \in Restored(Records)
        BY <2>1, <3>3 DEF Restored
      <3>6. o < journalHdr => q \in SyncedPages(Records)
        BY <3>3, <3>5 DEF SyncedPages, IsSynced
      <3> QED BY <3>1, <3>4, <3>5, <3>6
    <2>3. CASE q \notin inJournal
      <3>1. file[q] = begun[q] /\ (q \in DOMAIN cache => cache[q].data = begun[q])
        BY <2>3 DEF JInv, BegunKept
      <3>2. q \notin Restored(Records)
        <4>1. From(Records, q) = {}
          BY <2>3 DEF From, JInv, MainRecords
        <4> QED BY <4>1 DEF Restored
      <3> QED BY <3>1, <3>2
    <2> QED BY <2>2, <2>3
  <1> QED BY <1>1, <1>2

LEMMA RolledBackKeeps ==
    ASSUME JInv, JournalAssumption, eState \in {"CACHEMOD", "DBMOD", "FINISHED"},
           EndTransaction, RolledBack(Records), view' = begun,
           UNCHANGED <<bound, dbOrigSize, begun>>
    PROVE  JInv'
  <1> DEFINE n == dbOrigSize
  <1>1. /\ file \in Seq(Contents) /\ Len(file) \in 1 .. bound.pages /\ dbFileSize = Len(file)
        /\ \A i \in DOMAIN file : file[i] \in PageData(i) \cup {hole}
        /\ IsImage(begun) /\ n = Len(begun) /\ n \in 1 .. bound.pages /\ n <= Len(file)
        /\ n \in Nat \ {0}
        /\ eState = "CACHEMOD" => Len(file) = n
        /\ bound.pages \in Nat
    BY PagesPositive DEF JInv, FileOK, ImagesOK, Sizes, IsImage
  <1>2. /\ \A q \in Restored(Records) : Original(Records, q) \in PageData(q)
        /\ \A q \in Live(begun) :
              /\ q \in Restored(Records) => Original(Records, q) = begun[q]
              /\ q \notin Restored(Records) =>
                    file[q] = begun[q] /\ (q \in DOMAIN cache => cache[q].data = begun[q])
              /\ file[q] = begun[q] \/ q \in SyncedPages(Records)
    BY OriginalContent
  <1> DEFINE c == CleanAll(cache)
  <1>3. /\ DOMAIN c = DOMAIN cache
        /\ \A q \in DOMAIN cache :
              /\ c[q] \in Frames(q) /\ c[q].data = cache[q].data
              /\ c[q].dirty = FALSE /\ c[q].needSync = FALSE
    BY CleanedCache DEF JInv
  <1> HIDE DEF c, n
  <1>4. /\ cache' = [q \in DOMAIN cache' |-> cache'[q]] /\ DOMAIN cache' = DOMAIN cache \cap 1 .. n
        /\ \A q \in DOMAIN cache' :
              /\ q \in Restored(Records) =>
                    cache'[q] = [c[q] EXCEPT !.data = Original(Records, q)]
              /\ q \notin Restored(Records) => cache'[q] = c[q]
    <2>1. cache' = [q \in DOMAIN UpTo(cache, n) |->
                       IF q \in Restored(Records)
                       THEN [c[q] EXCEPT !.data = Original(Records, q)] ELSE c[q]]
      BY DEF RolledBack, c, n
    <2>2. DOMAIN UpTo(cache, n) = DOMAIN cache \cap 1 .. n
      BY DEF UpTo
    <2> QED BY <2>1, <2>2
  <1>5. ASSUME NEW q \in DOMAIN cache'
        PROVE  /\ cache'[q] \in Frames(q) /\ cache'[q].dirty = FALSE /\ cache'[q].needSync = FALSE
               /\ q \in Restored(Records) => cache'[q].data = Original(Records, q)
               /\ q \notin Restored(Records) => cache'[q].data = cache[q].data
    <2>1. CASE q \in Restored(Records)
      <3>1. Original(Records, q) \in PageData(q)
        BY <1>2, <2>1
      <3>2. cache'[q] = [c[q] EXCEPT !.data = Original(Records, q)]
            /\ c[q] \in Frames(q) /\ c[q].dirty = FALSE /\ c[q].needSync = FALSE
        BY <1>3, <1>4, <2>1
      <3> QED BY <2>1, <3>1, <3>2 DEF Frames
    <2>2. CASE q \notin Restored(Records)
      BY <1>3, <1>4, <2>2
    <2> QED BY <2>1, <2>2
  <1>6. CacheOK'
    BY <1>1, <1>4, <1>5, CacheEnds DEF JInv
  <1>7. /\ FileOK' /\ Len(file') = n /\ DOMAIN file' = 1 .. n
        /\ \A q \in Live(begun) : file'[q] = begun[q]
    <2>1. \A q \in Live(begun) : q \in 1 .. n /\ q \in DOMAIN file
      BY <1>1 DEF Live, IsImage
    <2>2. CASE eState = "CACHEMOD"
      <3>1. file' = file /\ dbFileSize' = dbFileSize
        BY <2>2 DEF RolledBack, fileVars
      <3>2. \A q \in Live(begun) : file[q] = begun[q]
        BY <2>2 DEF JInv, BegunKept
      <3>3. FileOK'
        BY <3>1, FileSame DEF JInv
      <3> QED BY <1>1, <2>2, <3>1, <3>2, <3>3
    <2>3. CASE eState # "CACHEMOD"
      <3>1. /\ file' = [i \in 1 .. n |-> IF i \in SyncedPages(Records) THEN Original(Records, i)
                                        ELSE IF i \in DOMAIN file THEN file[i] ELSE hole]
            /\ dbFileSize' = n
        BY <2>3 DEF RolledBack, n
      <3>2. \A i \in SyncedPages(Records) : i \in Restored(Records)
        BY DEF SyncedPages
      <3>3. \A i \in 1 .. n : i \in DOMAIN file /\ file'[i] \in PageData(i) \cup {hole}
        BY <1>1, <1>2, <3>1, <3>2
      <3>4. \A i \in 1 .. n : file'[i] \in Contents
        <4>1. hole \in Contents
          BY DEF Contents
        <4> QED BY <3>3, <4>1, PageDataTyped
      <3>5. file' \in Seq(Contents) /\ Len(file') = n /\ DOMAIN file' = 1 .. n
        <4>1. file' = [i \in 1 .. n |-> file'[i]]
          BY <3>1
        <4>2. file' \in [1 .. n -> Contents]
          BY <3>4, <4>1
        <4> QED BY <1>1, <4>2
      <3>6. FileOK'
        BY <1>1, <3>1, <3>3, <3>5, PagesTyped DEF FileOK
      <3>7. ASSUME NEW q \in Live(begun) PROVE file'[q] = begun[q]
        <4>1. CASE q \in SyncedPages(Records)
          BY <1>2, <2>1, <3>1, <3>2, <4>1
        <4>2. CASE q \notin SyncedPages(Records)
          BY <1>2, <2>1, <3>1, <4>2
        <4> QED BY <4>1, <4>2
      <3> QED BY <3>5, <3>6, <3>7
    <2> QED BY <2>2, <2>3
  <1>8. ASSUME NEW q \in Live(begun)
        PROVE  q \in DOMAIN file' /\ file'[q] = begun[q]
               /\ (q \in DOMAIN cache' => cache'[q].data = begun[q])
    <2>1. q \in DOMAIN file' /\ file'[q] = begun[q]
      BY <1>1, <1>7 DEF Live, IsImage
    <2>2. q \in DOMAIN cache' => cache'[q].data = begun[q]
      <3>1. q \in DOMAIN cache' => q \in DOMAIN cache
        BY <1>4
      <3> QED BY <1>2, <1>5, <3>1
    <2> QED BY <2>1, <2>2
  <1>9. dbSize' = Len(begun)
    BY <1>1 DEF RolledBack, n
  <1> QED BY <1>1, <1>6, <1>7, <1>8, <1>9, EndKeeps

LEMMA RollbackKeeps ==
    ASSUME JInv, JournalAssumption, sqlite3PagerRollback
    PROVE  JInv'
  <1>1. /\ eState # "READER" /\ EndTransaction /\ view' = begun
        /\ UNCHANGED <<bound, dbOrigSize, begun>>
    BY DEF sqlite3PagerRollback
  <1>2. CASE eState = "LOCKED"
    <2>1. /\ cache' = UpTo(CleanAll(cache), dbSize) /\ UNCHANGED <<file, dbFileSize, dbSize>>
      BY <1>2 DEF sqlite3PagerRollback, fileVars
    <2>2. /\ IsImage(begun) /\ dbSize = Len(begun) /\ dbSize \in Nat \ {0}
          /\ Len(file) = dbSize /\ DOMAIN file = 1 .. dbSize
          /\ inJournal = {} /\ CacheOK
      BY <1>2 DEF JInv, ImagesOK, Sizes, Unwritten, IsImage, FileOK
    <2>3. /\ CacheOK' /\ DOMAIN cache' = DOMAIN cache \cap 1 .. dbSize
          /\ \A q \in DOMAIN cache' : cache'[q].data = cache[q].data
      BY <1>1, <2>1, <2>2, UpToCache
    <2>4. FileOK'
      BY <1>1, <2>1, FileSame DEF JInv
    <2>5. ASSUME NEW q \in Live(begun)
          PROVE  q \in DOMAIN file' /\ file'[q] = begun[q]
                 /\ (q \in DOMAIN cache' => cache'[q].data = begun[q])
      <3>1. file[q] = begun[q] /\ (q \in DOMAIN cache => cache[q].data = begun[q])
        BY <2>2 DEF JInv, BegunKept
      <3>2. q \in 1 .. dbSize
        BY <2>2 DEF Live, IsImage
      <3> QED BY <2>1, <2>2, <2>3, <3>1, <3>2
    <2>6. dbSize' = Len(begun) /\ Len(file') = Len(begun)
      BY <2>1, <2>2
    <2> QED BY <1>1, <2>2, <2>3, <2>4, <2>5, <2>6, EndKeeps
  <1>3. CASE eState # "LOCKED"
    <2>1. eState \in {"CACHEMOD", "DBMOD", "FINISHED"}
      BY <1>1, <1>3 DEF JInv, States
    <2>2. RolledBack(Replayed(0, Len(jfile)))
      BY <1>3 DEF sqlite3PagerRollback, RolledBack, Restored, SyncedPages, Original, From
    <2>3. RolledBack(Records)
      BY <2>1, <2>2, RecordsPlayedBack
    <2> QED BY <1>1, <2>1, <2>3, RolledBackKeeps
  <1> QED BY <1>2, <1>3

--------------------------------------------------------------------------------
(* Savepoints *)

\* What does not ask for the savepoints.
LEMMA SavepointsApart ==
    ASSUME JInv, UNCHANGED <<bound, eState, rc, file, dbFileSize, dbSize, dbOrigSize, cache, jOpen,
                             jfile, journalOff, journalHdr, nRec, inJournal, hasContent, view, begun>>
    PROVE  /\ States' /\ FileOK' /\ CacheOK' /\ Layout' /\ MainRecords' /\ ViewReads' /\ BegunKept'
           /\ Records' = Records /\ \A q, v : Reads(q, v) => Reads(q, v)'
  <1>1. States' /\ FileOK' /\ CacheOK' /\ Layout' /\ Records' = Records
    BY StatesSame, FileSame, CacheSame, LayoutSame, RecordsSame DEF JInv
  <1>2. MainRecords'
    BY <1>1, PagesTyped DEF JInv, MainRecords
  <1>3. ViewReads'
    BY DEF JInv, ViewReads, Reads, Live
  <1>4. BegunKept'
    BY <1>1 DEF JInv, BegunKept, Live, Record
  <1>5. \A q, v : Reads(q, v) => Reads(q, v)'
    BY DEF Reads
  <1> QED BY <1>1, <1>2, <1>3, <1>4, <1>5

LEMMA OpenSavepointKeeps ==
    ASSUME JInv, JournalAssumption, sqlite3PagerOpenSavepoint
    PROVE  JInv'
  <1> DEFINE new == [nOrig |-> dbSize, inSavepoint |-> {}, iHdrOffset |-> 0,
                     iOffset |-> IF jOpen /\ journalOff > 0 THEN journalOff ELSE 1,
                     iSubRec |-> Len(sub)]
             L == Len(savepoints)
  <1>1. /\ rc = "OK" /\ eState \in {"LOCKED", "CACHEMOD", "DBMOD"}
        /\ savepoints' = Append(savepoints, new) /\ saved' = Append(saved, view)
        /\ UNCHANGED <<bound, eState, rc, file, dbFileSize, dbSize, dbOrigSize, cache, jOpen,
                       jfile, journalOff, journalHdr, nRec, inJournal, sub, hasContent, view, begun>>
    BY DEF sqlite3PagerOpenSavepoint, fileVars, journalVars
  <1>2. /\ savepoints \in Seq(Savepoints) /\ saved \in Seq(Seq(Contents)) /\ Len(saved) = L
        /\ sub \in Seq(RecordBlocks) /\ journalOff \in Nat
        /\ view \in Seq(Contents) /\ IsImage(view)
        /\ dbSize = Len(view) /\ dbSize \in Nat /\ Len(begun) <= dbSize
        /\ \A i \in DOMAIN savepoints : Len(saved[i]) <= dbSize
    BY <1>1 DEF JInv, JournalOK, ImagesOK, Sizes, IsImage
  <1>3. /\ new \in Savepoints /\ new.nOrig = dbSize /\ new.inSavepoint = {} /\ new.iHdrOffset = 0
        /\ new.iSubRec = Len(sub)
        /\ new.iOffset = IF jOpen /\ journalOff > 0 THEN journalOff ELSE 1
    BY <1>2 DEF Savepoints
  <1> HIDE DEF new
  <1>4. /\ savepoints' \in Seq(Savepoints) /\ Len(savepoints') = L + 1 /\ savepoints'[L + 1] = new
        /\ \A i \in DOMAIN savepoints : savepoints'[i] = savepoints[i]
        /\ DOMAIN savepoints' = DOMAIN savepoints \cup {L + 1} /\ L + 1 \notin DOMAIN savepoints
        /\ L \in Nat /\ DOMAIN savepoints = 1 .. L
    BY <1>1, <1>2, <1>3
  <1>5. /\ saved' \in Seq(Seq(Contents)) /\ Len(saved') = L + 1 /\ saved'[L + 1] = view
        /\ \A i \in DOMAIN savepoints : saved'[i] = saved[i]
        /\ DOMAIN saved' = DOMAIN savepoints \cup {L + 1} /\ DOMAIN saved = DOMAIN savepoints
    BY <1>1, <1>2
  <1> HIDE DEF L
  <1>6. /\ States' /\ FileOK' /\ CacheOK' /\ Layout' /\ MainRecords' /\ ViewReads' /\ BegunKept'
        /\ Records' = Records /\ \A q, v : Reads(q, v) => Reads(q, v)'
    BY <1>1, SavepointsApart
  <1>7. JournalOK'
    BY <1>1, <1>4 DEF JInv, JournalOK
  <1>8. ImagesOK'
    <2>1. \A i \in DOMAIN saved' : IsImage(saved'[i])
      BY <1>2, <1>5 DEF JInv, ImagesOK
    <2>2. \A i \in DOMAIN saved' : IsImage(saved[i])'
      BY <1>1, <2>1 DEF IsImage
    <2>3. IsImage(view)' /\ IsImage(begun)'
      BY <1>1 DEF JInv, ImagesOK, IsImage
    <2> QED BY <1>4, <1>5, <2>2, <2>3 DEF ImagesOK
  <1>9. Sizes'
    <2>1. ASSUME NEW i \in DOMAIN savepoints'
          PROVE  /\ savepoints'[i].nOrig = Len(saved'[i])
                 /\ Len(begun) <= Len(saved'[i]) /\ Len(saved'[i]) <= dbSize
                 /\ \A j \in 1 .. i : Len(saved'[j]) <= Len(saved'[i])
      <3>1. CASE i \in DOMAIN savepoints
        <4>1. \A j \in 1 .. i : j \in DOMAIN savepoints
          BY <1>4, <3>1
        <4> QED BY <1>4, <1>5, <3>1, <4>1 DEF JInv, Sizes
      <3>2. CASE i = L + 1
        <4>1. \A j \in 1 .. i : j \in DOMAIN savepoints \/ j = L + 1
          BY <1>4, <3>2
        <4>2. Len(saved'[L + 1]) = dbSize
          BY <1>2, <1>5
        <4>3. \A j \in 1 .. i : Len(saved'[j]) <= dbSize
          <5>1. ASSUME NEW j \in DOMAIN savepoints PROVE Len(saved'[j]) <= dbSize
            BY <1>2, <1>5
          <5>2. Len(saved'[L + 1]) <= dbSize
            BY <1>2, <4>2
          <5> QED BY <4>1, <5>1, <5>2
        <4> QED BY <1>2, <1>3, <1>4, <3>2, <4>2, <4>3
      <3> QED BY <1>4, <3>1, <3>2
    <2>2. /\ dbSize = Len(view) /\ dbOrigSize \in 1 .. bound.pages /\ Len(begun) <= Len(file)
          /\ (eState = "CACHEMOD" \/ eState = "LOCKED" => Len(file) = Len(begun))
          /\ dbOrigSize = Len(begun) /\ Len(begun) <= dbSize
      BY <1>1 DEF JInv, Sizes
    <2> QED BY <1>1, <2>1, <2>2 DEF Sizes
  <1>10. eState = "LOCKED" => view = begun /\ jfile = << >> /\ new.iOffset = 1
    BY <1>1, <1>3 DEF JInv, Unwritten
  <1>11. Unwritten'
    <2>1. ASSUME eState = "LOCKED"
          PROVE  /\ jfile = << >> /\ inJournal = {} /\ sub = << >> /\ journalHdr = 0
                 /\ Len(view) = Len(begun) /\ view = begun
                 /\ \A i \in DOMAIN saved : saved[i] = begun
                 /\ journalOff = IF jOpen THEN 1 ELSE 0
      BY <1>1, <2>1 DEF JInv, Unwritten
    <2>2. eState = "LOCKED" => \A i \in DOMAIN saved' : saved'[i] = begun
      BY <1>5, <2>1
    <2> QED BY <1>1, <2>1, <2>2 DEF Unwritten
  <1>12. eState # "LOCKED" => /\ MarkIn(new, jfile, journalHdr) /\ new.iOffset = Len(jfile)
                              /\ \A o \in Records : o < Len(jfile) /\ o \in Nat
    <2>1. ASSUME eState # "LOCKED"
          PROVE  jOpen /\ jfile \in Seq(Blocks) /\ journalHdr \in Nat /\ journalHdr < Len(jfile)
                 /\ journalOff = Len(jfile) /\ Len(jfile) \in Nat
      BY <1>1, <2>1 DEF JInv, JournalOK, Layout, Filling
    <2>2. ASSUME eState # "LOCKED" PROVE new.iOffset = Len(jfile)
      BY <1>3, <2>1, <2>2
    <2>3. \A o \in Records : o < Len(jfile) /\ o \in Nat
      BY DEF Records, RecordsOf
    <2> QED BY <1>3, <2>1, <2>2, <2>3, NewMark
  <1>13. Marks'
    <2>1. ASSUME NEW i \in DOMAIN savepoints'
          PROVE  /\ eState = "LOCKED" => savepoints'[i].iOffset = 1 /\ savepoints'[i].iHdrOffset = 0
                 /\ eState # "LOCKED" => MarkIn(savepoints'[i], jfile, journalHdr)
      <3>1. CASE i \in DOMAIN savepoints
        BY <1>1, <1>4, <3>1 DEF JInv, Marks
      <3>2. CASE i = L + 1
        BY <1>3, <1>4, <1>10, <1>12, <3>2
      <3> QED BY <1>4, <3>1, <3>2
    <2> QED BY <1>1, <2>1 DEF Marks
  <1>14. Nested'
    <2>1. ASSUME NEW i \in DOMAIN savepoints
          PROVE  savepoints[i].iOffset <= new.iOffset /\ savepoints[i].iSubRec <= Len(sub)
      <3>1. savepoints[i].iSubRec <= Len(sub)
        BY DEF JInv, Nested
      <3>2. CASE eState = "LOCKED"
        BY <1>10, <3>1, <3>2 DEF JInv, Marks
      <3>3. CASE eState # "LOCKED"
        <4>1. MarkIn(savepoints[i], jfile, journalHdr)
          BY <1>1, <3>3 DEF JInv, Marks
        <4> QED BY <1>12, <3>1, <3>3, <4>1 DEF MarkIn
      <3> QED BY <3>2, <3>3
    <2>2. ASSUME NEW i \in DOMAIN savepoints'
          PROVE  /\ savepoints'[i].iSubRec <= Len(sub)
                 /\ \A j \in 1 .. i : /\ savepoints'[j].iOffset <= savepoints'[i].iOffset
                                      /\ savepoints'[j].iSubRec <= savepoints'[i].iSubRec
      <3>1. CASE i \in DOMAIN savepoints
        <4>1. \A j \in 1 .. i : j \in DOMAIN savepoints
          BY <1>4, <3>1
        <4> QED BY <1>4, <3>1, <4>1 DEF JInv, Nested
      <3>2. CASE i = L + 1
        <4>1. \A j \in 1 .. i : j \in DOMAIN savepoints \/ j = L + 1
          BY <1>4, <3>2
        <4>2. new.iOffset \in Nat /\ new.iSubRec = Len(sub) /\ Len(sub) \in Nat
          BY <1>2, <1>3 DEF Savepoints
        <4> QED BY <1>4, <2>1, <3>2, <4>1, <4>2, SMTT(30)
      <3> QED BY <1>4, <3>1, <3>2
    <2> QED BY <1>1, <2>2 DEF Nested
  <1>15. SubRecords'
    BY <1>1, PagesTyped DEF JInv, SubRecords
  <1>16. SavedKept'
    <2>1. \A s, q : MainSince(s, q)' = MainSince(s, q) /\ SubSince(s, q)' = SubSince(s, q)
      BY <1>1, <1>6 DEF MainSince, SubSince
    <2>2. \A s, q, v : Copied(s, q, v) => Copied(s, q, v)'
      BY <1>1, <2>1 DEF Copied
    <2>3. ASSUME NEW i \in DOMAIN savepoints, NEW q \in Live(saved[i])
          PROVE  LET s == savepoints[i] IN
                 /\ q \notin s.inSavepoint =>
                       Reads(q, saved[i][q]) /\ MainSince(s, q) = {} /\ SubSince(s, q) = {}
                 /\ q \in s.inSavepoint => Copied(s, q, saved[i][q])
                 /\ q \in DOMAIN cache /\ cache[q].dirty => ~cache[q].dontWrite
      BY <1>5 DEF JInv, SavedKept
    <2>4. ASSUME NEW q \in Live(view)
          PROVE  /\ q \notin new.inSavepoint
                 /\ Reads(q, view[q]) /\ MainSince(new, q) = {} /\ SubSince(new, q) = {}
                 /\ q \in DOMAIN cache /\ cache[q].dirty => ~cache[q].dontWrite
      <3>1. Reads(q, view[q])
        BY <1>1 DEF JInv, ViewReads
      <3>2. MainSince(new, q) = {}
        <4>1. CASE eState = "LOCKED"
          <5>1. Records = {}
            BY <1>10, <4>1 DEF Records, RecordsOf
          <5> QED BY <5>1 DEF MainSince
        <4>2. CASE eState # "LOCKED"
          <5>1. \A o \in Records : ~(o >= new.iOffset)
            <6>1. new.iOffset = Len(jfile) /\ new.iOffset \in Nat
              BY <1>3, <1>12, <4>2 DEF Savepoints
            <6>2. \A o \in Records : o < Len(jfile) /\ o \in Nat
              BY <1>12, <4>2
            <6> QED BY <6>1, <6>2
          <5> QED BY <5>1 DEF MainSince
        <4> QED BY <4>1, <4>2
      <3>3. SubSince(new, q) = {}
        BY <1>2, <1>3 DEF SubSince
      <3>4. q \in DOMAIN cache /\ cache[q].dirty => ~cache[q].dontWrite
        BY <3>1 DEF Reads
      <3> QED BY <1>3, <3>1, <3>2, <3>3, <3>4
    <2>5. ASSUME NEW i \in DOMAIN saved', NEW q \in Live(saved'[i])
          PROVE  /\ q \notin savepoints'[i].inSavepoint =>
                       /\ Reads(q, saved[i][q])'
                       /\ MainSince(savepoints[i], q)' = {} /\ SubSince(savepoints[i], q)' = {}
                 /\ q \in savepoints'[i].inSavepoint => Copied(savepoints[i], q, saved[i][q])'
                 /\ q \in DOMAIN cache' /\ cache'[q].dirty => ~cache'[q].dontWrite
      <3>1. CASE i \in DOMAIN savepoints
        <4> DEFINE s == savepoints[i]
                   v == saved[i][q]
        <4>1. saved'[i] = saved[i] /\ savepoints'[i] = s /\ saved'[i][q] = v
          BY <1>4, <1>5, <3>1
        <4>2. /\ q \notin s.inSavepoint => Reads(q, v) /\ MainSince(s, q) = {} /\ SubSince(s, q) = {}
              /\ q \in s.inSavepoint => Copied(s, q, v)
              /\ q \in DOMAIN cache /\ cache[q].dirty => ~cache[q].dontWrite
          BY <2>3, <3>1, <4>1
        <4> QED BY <1>1, <1>6, <2>1, <2>2, <4>1, <4>2
      <3>2. CASE i = L + 1
        <4>1. saved'[i] = view /\ savepoints'[i] = new
          BY <1>4, <1>5, <3>2
        <4>2. /\ q \notin new.inSavepoint
              /\ Reads(q, view[q]) /\ MainSince(new, q) = {} /\ SubSince(new, q) = {}
              /\ q \in DOMAIN cache /\ cache[q].dirty => ~cache[q].dontWrite
          BY <2>4, <4>1
        <4> QED BY <1>1, <1>6, <2>1, <4>1, <4>2
      <3> QED BY <1>5, <3>1, <3>2
    <2>6. \A i \in DOMAIN saved' : Live(saved[i])' = Live(saved'[i])
      BY DEF Live
    <2> QED BY <2>5, <2>6 DEF SavedKept
  <1>17. FreedKept'
    <2>1. Kept(view, view)
      BY DEF Kept, Live
    <2>2. ASSUME NEW i \in DOMAIN saved'
          PROVE  /\ Kept(begun, saved'[i]) /\ Kept(saved'[i], view)
                 /\ \A j \in 1 .. i - 1 : Kept(saved'[j], saved'[i])
      <3>1. CASE i \in DOMAIN savepoints
        <4>1. \A j \in 1 .. i - 1 : j \in DOMAIN savepoints
          BY <1>4, <3>1
        <4> QED BY <1>5, <3>1, <4>1 DEF JInv, FreedKept
      <3>2. CASE i = L + 1
        <4>1. \A j \in 1 .. i - 1 : j \in DOMAIN savepoints
          BY <1>4, <3>2
        <4> QED BY <1>5, <2>1, <3>2, <4>1 DEF JInv, FreedKept
      <3> QED BY <1>5, <3>1, <3>2
    <2>3. \A q : HasContent(q)' <=> HasContent(q)
      BY <1>1 DEF HasContent
    <2>4. Kept(begun, view)' /\ Kept(begun, view)
      BY <1>1, <2>3 DEF Kept, Live, JInv, FreedKept
    <2>5. ASSUME NEW i \in DOMAIN saved'
          PROVE  /\ Kept(begun, saved[i])' /\ Kept(saved[i], view)'
                 /\ \A j \in 1 .. i - 1 : Kept(saved[j], saved[i])'
      BY <1>1, <2>2, <2>3 DEF Kept, Live
    <2> QED BY <2>4, <2>5 DEF FreedKept
  <1> QED BY <1>6, <1>7, <1>8, <1>9, <1>11, <1>13, <1>14, <1>15, <1>16, <1>17 DEF JInv

\* A stack cut to its first m elements.
LEMMA PrefixOf ==
    ASSUME NEW S, NEW s \in Seq(S), NEW m \in 0 .. Len(s), NEW t, t = SubSeq(s, 1, m)
    PROVE  /\ t \in Seq(S) /\ Len(t) = m /\ DOMAIN t = 1 .. m
           /\ \A i \in 1 .. m : t[i] = s[i] /\ i \in DOMAIN s
  OBVIOUS

LEMMA ReleaseSavepointKeeps ==
    ASSUME JInv, JournalAssumption, NEW n, ReleaseSavepoint(n)
    PROVE  JInv'
  <1>1. /\ rc = "OK" /\ eState \in {"LOCKED", "CACHEMOD", "DBMOD"} /\ n \in DOMAIN savepoints
        /\ savepoints' = SubSeq(savepoints, 1, n - 1) /\ saved' = SubSeq(saved, 1, n - 1)
        /\ sub' = IF n = 1 THEN << >> ELSE sub
        /\ UNCHANGED <<bound, eState, rc, file, dbFileSize, dbSize, dbOrigSize, cache, jOpen,
                       jfile, journalOff, journalHdr, nRec, inJournal, hasContent, view, begun>>
    BY DEF ReleaseSavepoint, fileVars, journalVars
  <1>2. /\ savepoints \in Seq(Savepoints) /\ saved \in Seq(Seq(Contents))
        /\ Len(saved) = Len(savepoints)
        /\ sub \in Seq(RecordBlocks)
    BY DEF JInv, JournalOK, ImagesOK
  <1> DEFINE m == n - 1
  <1>3. m \in 0 .. Len(savepoints) /\ m \in 0 .. Len(saved) /\ m \in Nat /\ (n = 1 <=> m = 0)
    <2>1. n \in 1 .. Len(savepoints) /\ Len(savepoints) \in Nat
      BY <1>1, <1>2
    <2> QED BY <1>2, <2>1
  <1>4. savepoints' = SubSeq(savepoints, 1, m) /\ saved' = SubSeq(saved, 1, m)
    BY <1>1
  <1> HIDE DEF m
  <1>5. /\ savepoints' \in Seq(Savepoints) /\ Len(savepoints') = m /\ DOMAIN savepoints' = 1 .. m
        /\ \A i \in 1 .. m : savepoints'[i] = savepoints[i] /\ i \in DOMAIN savepoints
        /\ saved' \in Seq(Seq(Contents)) /\ Len(saved') = m /\ DOMAIN saved' = 1 .. m
        /\ \A i \in 1 .. m : saved'[i] = saved[i] /\ i \in DOMAIN saved
    <2>1. /\ savepoints' \in Seq(Savepoints) /\ Len(savepoints') = m /\ DOMAIN savepoints' = 1 .. m
          /\ \A i \in 1 .. m : savepoints'[i] = savepoints[i] /\ i \in DOMAIN savepoints
      BY <1>2, <1>3, <1>4, PrefixOf
    <2>2. /\ saved' \in Seq(Seq(Contents)) /\ Len(saved') = m /\ DOMAIN saved' = 1 .. m
          /\ \A i \in 1 .. m : saved'[i] = saved[i] /\ i \in DOMAIN saved
      BY <1>2, <1>3, <1>4, PrefixOf
    <2> QED BY <2>1, <2>2
  <1>6. /\ States' /\ FileOK' /\ CacheOK' /\ Layout' /\ MainRecords' /\ ViewReads' /\ BegunKept'
        /\ Records' = Records /\ \A q, v : Reads(q, v) => Reads(q, v)'
    BY <1>1, SavepointsApart
  <1>7. sub' \in Seq(RecordBlocks) /\ (m # 0 => sub' = sub) /\ (m = 0 => sub' = << >>)
    <2>1. CASE m = 0
      <3>1. sub' = << >>
        BY <1>1, <1>3, <2>1
      <3> QED BY <2>1, <3>1
    <2>2. CASE m # 0
      <3>1. sub' = sub
        BY <1>1, <1>3, <2>2
      <3> QED BY <1>2, <2>2, <3>1
    <2> QED BY <2>1, <2>2
  <1>8. JournalOK'
    BY <1>1, <1>5, <1>7 DEF JInv, JournalOK
  <1>9. ImagesOK'
    <2>1. \A i \in DOMAIN saved' : IsImage(saved[i])'
      <3>1. \A i \in DOMAIN saved' : IsImage(saved'[i])
        BY <1>5 DEF JInv, ImagesOK
      <3> QED BY <1>1, <3>1 DEF IsImage
    <2>2. IsImage(view)' /\ IsImage(begun)'
      BY <1>1 DEF JInv, ImagesOK, IsImage
    <2> QED BY <1>5, <2>1, <2>2 DEF ImagesOK
  <1>10. \A i \in 1 .. m : \A j \in 1 .. i : j \in 1 .. m
    BY <1>3
  <1>11. Sizes'
    <2>1. \A i \in DOMAIN savepoints' :
             /\ savepoints'[i].nOrig = Len(saved'[i])
             /\ Len(begun) <= Len(saved'[i]) /\ Len(saved'[i]) <= dbSize
             /\ \A j \in 1 .. i : Len(saved'[j]) <= Len(saved'[i])
      BY <1>5, <1>10 DEF JInv, Sizes
    <2> QED BY <1>1, <2>1 DEF JInv, Sizes
  <1>12. Unwritten'
    <2>1. eState = "LOCKED" =>
             /\ jfile = << >> /\ inJournal = {} /\ sub' = << >> /\ journalHdr = 0
             /\ Len(view) = Len(begun) /\ view = begun
             /\ \A i \in DOMAIN saved' : saved'[i] = begun
             /\ journalOff = IF jOpen THEN 1 ELSE 0
      BY <1>1, <1>5, <1>7 DEF JInv, Unwritten
    <2> QED BY <1>1, <2>1 DEF Unwritten
  <1>13. Marks'
    BY <1>1, <1>5 DEF JInv, Marks
  <1>14. Nested'
    <2>1. ASSUME NEW i \in DOMAIN savepoints'
          PROVE  /\ savepoints'[i].iSubRec <= Len(sub')
                 /\ \A j \in 1 .. i : /\ savepoints'[j].iOffset <= savepoints'[i].iOffset
                                      /\ savepoints'[j].iSubRec <= savepoints'[i].iSubRec
      <3>1. i \in DOMAIN savepoints /\ \A j \in 1 .. i : savepoints'[j] = savepoints[j]
        BY <1>5, <1>10
      <3>2. sub' = sub
        BY <1>3, <1>5, <1>7
      <3> QED BY <1>5, <3>1, <3>2 DEF JInv, Nested
    <2> QED BY <2>1 DEF Nested
  <1>15. SubRecords'
    <2>1. CASE m = 0
      BY <1>7, <2>1 DEF SubRecords
    <2>2. CASE m # 0
      BY <1>1, <1>7, <2>2, PagesTyped DEF JInv, SubRecords
    <2> QED BY <2>1, <2>2
  <1>16. SavedKept'
    <2>1. ASSUME NEW i \in DOMAIN saved', NEW q \in Live(saved'[i])
          PROVE  /\ q \notin savepoints'[i].inSavepoint =>
                       /\ Reads(q, saved[i][q])'
                       /\ MainSince(savepoints[i], q)' = {} /\ SubSince(savepoints[i], q)' = {}
                 /\ q \in savepoints'[i].inSavepoint => Copied(savepoints[i], q, saved[i][q])'
                 /\ q \in DOMAIN cache' /\ cache'[q].dirty => ~cache'[q].dontWrite
      <3> DEFINE s == savepoints[i]
                 v == saved[i][q]
      <3>1. saved'[i] = saved[i] /\ savepoints'[i] = s /\ saved'[i][q] = v /\ i \in DOMAIN saved
            /\ sub' = sub
        BY <1>3, <1>5, <1>7
      <3>2. \A x, y : MainSince(x, y)' = MainSince(x, y) /\ SubSince(x, y)' = SubSince(x, y)
        BY <1>1, <1>6, <3>1 DEF MainSince, SubSince
      <3>3. \A x, y, z : Copied(x, y, z) => Copied(x, y, z)'
        BY <1>1, <3>1, <3>2 DEF Copied
      <3>4. /\ q \notin s.inSavepoint => Reads(q, v) /\ MainSince(s, q) = {} /\ SubSince(s, q) = {}
            /\ q \in s.inSavepoint => Copied(s, q, v)
            /\ q \in DOMAIN cache /\ cache[q].dirty => ~cache[q].dontWrite
        BY <3>1 DEF JInv, SavedKept
      <3> QED BY <1>1, <1>6, <3>1, <3>2, <3>3, <3>4
    <2>2. \A i \in DOMAIN saved' : Live(saved[i])' = Live(saved'[i])
      BY DEF Live
    <2> QED BY <2>1, <2>2 DEF SavedKept
  <1>17. FreedKept'
    <2>1. ASSUME NEW i \in DOMAIN saved'
          PROVE  /\ Kept(begun, saved'[i]) /\ Kept(saved'[i], view)
                 /\ \A j \in 1 .. i - 1 : Kept(saved'[j], saved'[i])
      <3>1. saved'[i] = saved[i] /\ i \in DOMAIN saved
            /\ \A j \in 1 .. i - 1 : saved'[j] = saved[j]
        BY <1>3, <1>5, SMTT(30)
      <3> QED BY <3>1 DEF JInv, FreedKept
    <2>2. Kept(begun, view)
      BY DEF JInv, FreedKept
    <2>3. \A q : HasContent(q)' <=> HasContent(q)
      BY <1>1 DEF HasContent
    <2>4. Kept(begun, view)'
      BY <1>1, <2>2, <2>3 DEF Kept, Live
    <2>5. ASSUME NEW i \in DOMAIN saved'
          PROVE  /\ Kept(begun, saved[i])' /\ Kept(saved[i], view)'
                 /\ \A j \in 1 .. i - 1 : Kept(saved[j], saved[i])'
      BY <1>1, <2>1, <2>3 DEF Kept, Live
    <2> QED BY <2>4, <2>5 DEF FreedKept
  <1> QED BY <1>6, <1>8, <1>9, <1>11, <1>12, <1>13, <1>14, <1>15, <1>16, <1>17 DEF JInv

--------------------------------------------------------------------------------
(* Rolling back to a savepoint *)

\* The records that a playback reads from the sub-journal for page p, and what it
\* restores from both journals.
FromSub(subs, p) == {k \in subs : sub[k].pgno = p}
First(K) == CHOOSE k \in K : \A j \in K : k <= j
RestoredTo(s, offs, subs) == {p \in 1 .. s.nOrig : From(offs, p) \cup FromSub(subs, p) # {}}
OriginalTo(offs, subs, p) ==
    IF From(offs, p) # {} THEN jfile[First(From(offs, p)) + 1].data
    ELSE sub[First(FromSub(subs, p))].data
SyncedTo(offs, p) ==
    IF From(offs, p) # {} THEN IsSynced(First(From(offs, p))) ELSE OriginalSynced(p)
StoredTo(s, offs, subs) ==
    {p \in RestoredTo(s, offs, subs) : eState = "DBMOD" /\ SyncedTo(offs, p)}

\* A rollback to savepoint s that has read the records at offs and those in subs.
RolledBackTo(s, offs, subs, missing) ==
    /\ dbSize' = s.nOrig
    /\ cache' = [p \in DOMAIN cache |->
                    IF p \in RestoredTo(s, offs, subs)
                    THEN [cache[p] EXCEPT !.data = OriginalTo(offs, subs, p)] ELSE cache[p]]
    /\ LET size == CHOOSE m \in StoredTo(s, offs, subs) \cup {Len(file)} :
                      \A p \in StoredTo(s, offs, subs) \cup {Len(file)} : p <= m
       IN /\ file' = [i \in 1 .. size |->
                        IF i \in StoredTo(s, offs, subs) THEN OriginalTo(offs, subs, i)
                        ELSE IF i \in DOMAIN file THEN file[i] ELSE hole]
          /\ dbFileSize' = FileGrown(dbFileSize, size)
    /\ rc' = IF missing THEN "IOERR" ELSE "OK"

\* The records of the main journal since a savepoint.
RecordsSince(s) == {o \in Records : o >= s.iOffset}

\* Where a savepoint's playback expects the first header.
FirstHeader(s) == IF s.iHdrOffset = 0 THEN journalOff ELSE s.iHdrOffset

LEMMA SinceRead ==
    ASSUME JInv, eState \in {"CACHEMOD", "DBMOD"}, NEW s \in Savepoints,
           MarkIn(s, jfile, journalHdr),
           NEW hdr, hdr = FirstHeader(s)
    PROVE  /\ (s.iOffset .. hdr - 1) \cup Replayed(hdr, journalOff) = RecordsSince(s)
           /\ hdr < journalOff /\ journalOff > Len(jfile) <=> journalOff # Len(jfile)
  <1>1. /\ jfile \in Seq(Blocks) /\ journalHdr \in Nat /\ Len(jfile) \in Nat /\ nRec \in Nat
        /\ journalOff \in Nat /\ Chained(jfile, journalHdr)
        /\ \/ Filling(jfile, journalHdr, nRec) /\ journalOff = Len(jfile)
           \/ journalHdr = Len(jfile) /\ journalOff = Len(jfile) + 1
    BY DEF JInv, JournalOK, Layout
  <1>2. /\ s.iOffset \in 1 .. Len(jfile) /\ s.iHdrOffset \in Nat /\ s.iOffset \in Nat
    BY DEF MarkIn, Savepoints
  <1>3. /\ \A h \in HeadersOf(jfile) : h \in Nat /\ h < Len(jfile) /\ h <= journalHdr /\ h \notin Records
        /\ journalHdr \in HeadersOf(jfile) \cup {Len(jfile)}
        /\ \A o \in 0 .. Len(jfile) - 1 : o \in HeadersOf(jfile) \/ o \in Records
        /\ \A o \in Records : o \in Nat /\ o < Len(jfile)
    <2>1. /\ \A h \in HeadersOf(jfile) : h \in Nat /\ h < Len(jfile) /\ h \notin Records
          /\ \A o \in 0 .. Len(jfile) - 1 : o \in HeadersOf(jfile) \/ o \in Records
          /\ \A o \in Records : o \in Nat /\ o < Len(jfile)
      BY <1>1 DEF HeadersOf, Records, RecordsOf
    <2>2. /\ \A h \in HeadersOf(jfile) : h <= journalHdr
          /\ journalHdr \in HeadersOf(jfile) \cup {Len(jfile)}
      BY <1>1 DEF Chained
    <2> QED BY <2>1, <2>2
  <1>4. Playable(journalOff)
    <2>1. CASE Filling(jfile, journalHdr, nRec) /\ journalOff = Len(jfile)
      <3>1. nRec = Len(jfile) - journalHdr - 1
        BY <1>1, <2>1 DEF Filling
      <3> QED BY <1>1, <2>1, <3>1 DEF Playable
    <2>2. CASE journalHdr = Len(jfile) /\ journalOff = Len(jfile) + 1
      BY <1>1, <2>2 DEF Playable
    <2> QED BY <1>1, <2>1, <2>2
  <1>5. /\ hdr \in Starts(journalOff) /\ s.iOffset <= hdr /\ hdr <= Len(jfile) /\ hdr \in Nat
        /\ hdr \notin Records
        /\ \A o \in s.iOffset .. hdr - 1 : o \notin HeadersOf(jfile)
    <2>1. CASE s.iHdrOffset = 0
      <3>1. hdr = journalOff /\ journalHdr < s.iOffset
        BY <2>1 DEF MarkIn, FirstHeader
      <3>2. journalOff = Len(jfile)
        BY <1>1, <1>2, <3>1
      <3>3. hdr \in Starts(journalOff)
        BY <3>1 DEF Starts
      <3>4. \A o \in s.iOffset .. hdr - 1 : o \notin HeadersOf(jfile)
        BY <1>1, <1>2, <1>3, <3>1
      <3> QED BY <1>1, <1>2, <1>3, <3>1, <3>2, <3>3, <3>4
    <2>2. CASE s.iHdrOffset # 0
      <3>1. /\ hdr = s.iHdrOffset /\ hdr >= s.iOffset /\ hdr \in HeadersOf(jfile) \cup {journalHdr}
            /\ \A o \in s.iOffset .. hdr - 1 : o \notin HeadersOf(jfile)
        BY <2>2 DEF MarkIn, FirstHeader
      <3>2. hdr \in HeadersOf(jfile) \cup {Len(jfile)}
        BY <1>3, <3>1
      <3>3. hdr \in Starts(journalOff)
        BY <3>2 DEF Starts
      <3> QED BY <1>1, <1>2, <1>3, <3>1, <3>2, <3>3
    <2> QED BY <2>1, <2>2
  <1>6. Replayed(hdr, journalOff) = {o \in Records : hdr < o}
    BY <1>4, <1>5, PlaybackReadsAll
  <1>7. (s.iOffset .. hdr - 1) \cup {o \in Records : hdr < o} = RecordsSince(s)
    <2>1. ASSUME NEW o \in s.iOffset .. hdr - 1 PROVE o \in RecordsSince(s)
      <3>1. o \in 0 .. Len(jfile) - 1 /\ o >= s.iOffset
        BY <1>1, <1>2, <1>5
      <3> QED BY <1>3, <1>5, <3>1 DEF RecordsSince
    <2>2. ASSUME NEW o \in Records, hdr < o PROVE o \in RecordsSince(s)
      BY <1>2, <1>3, <1>5, <2>2 DEF RecordsSince
    <2>3. ASSUME NEW o \in RecordsSince(s) PROVE o \in s.iOffset .. hdr - 1 \/ hdr < o
      <3>1. o \in Records /\ o \in Nat /\ o >= s.iOffset /\ o # hdr
        BY <1>3, <1>5 DEF RecordsSince
      <3> QED BY <1>2, <1>5, <3>1
    <2>4. \A o \in RecordsSince(s) : o \in Records
      BY DEF RecordsSince
    <2> QED BY <2>1, <2>2, <2>3, <2>4
  <1>8. hdr < journalOff /\ journalOff > Len(jfile) <=> journalOff # Len(jfile)
    BY <1>1, <1>5
  <1> QED BY <1>6, <1>7, <1>8

\* What a playback since savepoint n finds in the journals.
LEMMA FoundSince ==
    ASSUME JInv, NEW n \in DOMAIN savepoints, NEW subs,
           subs = {} \/ subs = savepoints[n].iSubRec + 1 .. Len(sub), NEW q
    PROVE  LET s == savepoints[n]
               offs == RecordsSince(s)
           IN
           /\ From(offs, q) = MainSince(s, q)
           /\ FromSub(subs, q) \subseteq SubSince(s, q) /\ FromSub(subs, q) \subseteq Nat
           /\ subs # {} => FromSub(subs, q) = SubSince(s, q)
           /\ subs = savepoints[n].iSubRec + 1 .. Len(sub) => FromSub(subs, q) = SubSince(s, q)
           /\ From(offs, q) \subseteq Records /\ From(offs, q) \subseteq Nat
           /\ From(offs, q) # {} => First(From(offs, q)) \in From(offs, q)
           /\ FromSub(subs, q) # {} =>
                 /\ First(FromSub(subs, q)) \in FromSub(subs, q)
                 /\ \A k \in FromSub(subs, q) : First(FromSub(subs, q)) <= k
  <1> DEFINE s == savepoints[n]
             offs == RecordsSince(s)
  <1>1. s.iSubRec \in Nat /\ sub \in Seq(RecordBlocks)
    <2>1. savepoints \in Seq(Savepoints) /\ sub \in Seq(RecordBlocks)
      BY DEF JInv, JournalOK
    <2>2. s \in Savepoints
      BY <2>1
    <2> QED BY <2>1, <2>2 DEF Savepoints
  <1> HIDE DEF s
  <1>2. From(offs, q) = MainSince(s, q) /\ From(offs, q) \subseteq Records
    BY DEF From, MainSince, RecordsSince
  <1>3. From(offs, q) \subseteq Nat
    BY <1>2 DEF Records, RecordsOf
  <1>4. subs = s.iSubRec + 1 .. Len(sub) => FromSub(subs, q) = SubSince(s, q)
    <2>1. \A k : k \in s.iSubRec + 1 .. Len(sub) <=> k \in DOMAIN sub /\ k > s.iSubRec
      BY <1>1
    <2> QED BY <2>1 DEF FromSub, SubSince
  <1>5. subs = {} => FromSub(subs, q) = {}
    BY DEF FromSub
  <1>6. subs = {} \/ subs = s.iSubRec + 1 .. Len(sub)
    BY DEF s
  <1>7. FromSub(subs, q) \subseteq SubSince(s, q)
    BY <1>4, <1>5, <1>6
  <1>8. SubSince(s, q) \subseteq Nat
    BY <1>1 DEF SubSince
  <1>9. ASSUME NEW T, T \subseteq Nat, T # {} PROVE First(T) \in T /\ \A k \in T : First(T) <= k
    <2>1. \E x \in T : \A y \in T : x <= y
      BY <1>9, SmallestOf
    <2> QED BY <2>1 DEF First
  <1>10. FromSub(subs, q) \subseteq Nat
    BY <1>7, <1>8
  <1> HIDE DEF offs
  <1>11. From(offs, q) # {} => First(From(offs, q)) \in From(offs, q)
    BY <1>3, <1>9
  <1>12. FromSub(subs, q) # {} =>
            /\ First(FromSub(subs, q)) \in FromSub(subs, q)
            /\ \A k \in FromSub(subs, q) : First(FromSub(subs, q)) <= k
    BY <1>9, <1>10
  <1> QED BY <1>2, <1>3, <1>4, <1>5, <1>6, <1>7, <1>10, <1>11, <1>12 DEF s, offs

\* What a rollback to savepoint n restores.
LEMMA RestoredPages ==
    ASSUME JInv, eState \in {"CACHEMOD", "DBMOD"}, NEW n \in DOMAIN savepoints, NEW subs,
           subs = {} \/ subs = savepoints[n].iSubRec + 1 .. Len(sub), NEW q
    PROVE  LET s == savepoints[n]
               offs == RecordsSince(s)
               R == RestoredTo(s, offs, subs)
               S == StoredTo(s, offs, subs)
           IN
           /\ q \in R => OriginalTo(offs, subs, q) \in PageData(q)
           /\ q \in R => q \in inJournal \/ q > Len(begun)
           /\ q \in R \ S => q \in DOMAIN cache /\ cache[q].dirty
           /\ q \in S => q \in R /\ eState = "DBMOD"
                         /\ \A o \in Records : jfile[o + 1].pgno = q => o < journalHdr
           /\ \A i \in 1 .. n : q \in Live(saved[i]) /\ q \notin savepoints[i].inSavepoint => q \notin R
           /\ q \in Live(saved[n]) /\ q \in s.inSavepoint /\ subs = s.iSubRec + 1 .. Len(sub) =>
                 q \in R /\ OriginalTo(offs, subs, q) = saved[n][q]
  <1> DEFINE s == savepoints[n]
             offs == RecordsSince(s)
             R == RestoredTo(s, offs, subs)
             S == StoredTo(s, offs, subs)
             M == From(offs, q)
             K == FromSub(subs, q)
             m == First(M)
             k == First(K)
  <1>1. /\ M = MainSince(s, q) /\ K \subseteq SubSince(s, q) /\ M \subseteq Records
        /\ M \subseteq Nat /\ K \subseteq Nat
        /\ subs = s.iSubRec + 1 .. Len(sub) => K = SubSince(s, q)
        /\ M # {} => m \in M
        /\ K # {} => k \in K /\ \A j \in K : k <= j
    BY FoundSince
  <1>2. /\ q \in R <=> q \in 1 .. s.nOrig /\ (M # {} \/ K # {})
        /\ q \in S <=> q \in R /\ eState = "DBMOD" /\ SyncedTo(offs, q)
        /\ M # {} => OriginalTo(offs, subs, q) = jfile[m + 1].data
        /\ M = {} => OriginalTo(offs, subs, q) = sub[k].data
        /\ M # {} => (SyncedTo(offs, q) <=> m < journalHdr)
        /\ M = {} => (SyncedTo(offs, q) <=> (q \in DOMAIN cache => ~cache[q].needSync))
    BY DEF RestoredTo, StoredTo, OriginalTo, SyncedTo, IsSynced, OriginalSynced
  <1> HIDE DEF R, S, M, K, m, k, offs
  <1>3. M # {} => /\ m \in Records /\ jfile[m + 1].pgno = q
                  /\ jfile[m + 1].data \in PageData(q) /\ q \in inJournal
                  /\ m >= journalHdr => q \in DOMAIN cache /\ cache[q].needSync
                  /\ eState = "CACHEMOD" => q \in DOMAIN cache /\ cache[q].dirty
                  /\ \A o \in Records : jfile[o + 1].pgno = q => o = m
    <2>1. M # {} => m \in Records /\ jfile[m + 1].pgno = q
      BY <1>1 DEF MainSince
    <2> QED BY <2>1 DEF JInv, MainRecords
  <1>4. K # {} => /\ k \in DOMAIN sub /\ sub[k].pgno = q
                  /\ sub[k].data \in PageData(q) /\ (q \in inJournal \/ q > Len(begun))
                  /\ eState = "CACHEMOD" => q \in DOMAIN cache /\ cache[q].dirty
    <2>1. K # {} => k \in DOMAIN sub /\ sub[k].pgno = q
      BY <1>1 DEF SubSince
    <2> QED BY <2>1 DEF JInv, SubRecords
  <1>5. q \in R => /\ OriginalTo(offs, subs, q) \in PageData(q)
                   /\ q \in inJournal \/ q > Len(begun)
                   /\ eState = "CACHEMOD" => q \in DOMAIN cache /\ cache[q].dirty
    BY <1>2, <1>3, <1>4
  <1>6. journalHdr \in Nat /\ \A o \in Records : o \in Nat
    <2>1. journalHdr \in Nat
      BY DEF JInv, JournalOK
    <2>2. \A o \in Records : o \in Nat
      BY DEF Records, RecordsOf
    <2> QED BY <2>1, <2>2
  <1>7. \A p \in DOMAIN cache : cache[p].needSync => cache[p].dirty
    BY DEF JInv, CacheOK
  <1>8. ASSUME q \in R, q \notin S PROVE q \in DOMAIN cache /\ cache[q].dirty
    <2>1. CASE eState = "CACHEMOD"
      BY <1>5, <1>8, <2>1
    <2>2. CASE eState = "DBMOD"
      <3>1. ~SyncedTo(offs, q)
        BY <1>2, <1>8, <2>2
      <3>2. CASE M # {}
        BY <1>2, <1>3, <1>6, <1>7, <3>1, <3>2
      <3>3. CASE M = {}
        BY <1>2, <1>7, <3>1, <3>3
      <3> QED BY <3>2, <3>3
    <2> QED BY <2>1, <2>2
  <1>9. ASSUME q \in S, NEW o \in Records, jfile[o + 1].pgno = q PROVE o < journalHdr
    <2>1. SyncedTo(offs, q)
      BY <1>2, <1>9
    <2>2. CASE M # {}
      <3>1. o = m
        BY <1>3, <1>9, <2>2
      <3> QED BY <1>2, <2>1, <2>2, <3>1
    <2>3. CASE M = {}
      <3>1. q \in DOMAIN cache => ~cache[q].needSync
        BY <1>2, <2>1, <2>3
      <3>2. o >= journalHdr => q \in DOMAIN cache /\ cache[q].needSync
        BY <1>9 DEF JInv, MainRecords
      <3> QED BY <1>6, <3>1, <3>2
    <2> QED BY <2>2, <2>3
  <1>10. ASSUME NEW i \in 1 .. n, q \in Live(saved[i]), q \notin savepoints[i].inSavepoint
         PROVE  q \notin R
    <2>1. /\ savepoints \in Seq(Savepoints) /\ sub \in Seq(RecordBlocks)
          /\ DOMAIN saved = DOMAIN savepoints
      BY DEF JInv, JournalOK, ImagesOK
    <2>2. i \in DOMAIN savepoints /\ i \in DOMAIN saved
      BY <2>1
    <2> DEFINE t == savepoints[i]
    <2>3. MainSince(t, q) = {} /\ SubSince(t, q) = {}
      BY <1>10, <2>2 DEF JInv, SavedKept
    <2>4. t.iOffset <= s.iOffset /\ t.iSubRec <= s.iSubRec
      BY DEF JInv, Nested
    <2>5. t.iOffset \in Nat /\ s.iOffset \in Nat /\ t.iSubRec \in Nat /\ s.iSubRec \in Nat
      <3>1. t \in Savepoints /\ s \in Savepoints
        BY <2>1, <2>2
      <3> QED BY <3>1 DEF Savepoints
    <2> HIDE DEF s, t
    <2>6. MainSince(s, q) = {}
      <3>1. \A o \in Records : o >= s.iOffset => o >= t.iOffset
        BY <1>6, <2>4, <2>5
      <3> QED BY <2>3, <3>1 DEF MainSince
    <2>7. SubSince(s, q) = {}
      <3>1. \A j \in DOMAIN sub : j > s.iSubRec => j > t.iSubRec
        BY <2>1, <2>4, <2>5
      <3> QED BY <2>3, <3>1 DEF SubSince
    <2> QED BY <1>1, <1>2, <2>6, <2>7
  <1>11. ASSUME q \in Live(saved[n]), q \in s.inSavepoint, subs = s.iSubRec + 1 .. Len(sub)
         PROVE  q \in R /\ OriginalTo(offs, subs, q) = saved[n][q]
    <2>1. /\ DOMAIN saved = DOMAIN savepoints /\ s.nOrig = Len(saved[n])
          /\ IsImage(saved[n])
      BY DEF JInv, JournalOK, ImagesOK, Sizes
    <2>2. q \in 1 .. s.nOrig
      BY <1>11, <2>1 DEF Live, IsImage
    <2>3. Copied(s, q, saved[n][q])
      BY <1>11, <2>1 DEF JInv, SavedKept
    <2> HIDE DEF s
    <2>4. K = SubSince(s, q)
      BY <1>1, <1>11
    <2>5. CASE M # {}
      <3>1. \E o \in M : jfile[o + 1].data = saved[n][q]
        BY <1>1, <2>3, <2>5 DEF Copied
      <3>2. \A o \in M : o = m
        BY <1>1, <1>3, <2>5 DEF MainSince
      <3> QED BY <1>2, <2>2, <2>5, <3>1, <3>2
    <2>6. CASE M = {}
      <3>1. PICK j \in K : sub[j].data = saved[n][q] /\ \A x \in K : j <= x
        BY <1>1, <2>3, <2>4, <2>6 DEF Copied
      <3>2. K # {}
        BY <3>1
      <3>3. k \in K /\ \A x \in K : k <= x
        BY <1>1, <3>2
      <3>4. k <= j /\ j <= k /\ j \in Nat /\ k \in Nat
        BY <1>1, <3>1, <3>3
      <3>5. k = j
        BY <3>4
      <3> QED BY <1>2, <2>2, <2>6, <3>1, <3>2, <3>5
    <2> QED BY <2>5, <2>6
  <1>12. q \in S => q \in R /\ eState = "DBMOD"
    BY <1>2
  <1> QED BY <1>5, <1>8, <1>9, <1>10, <1>11, <1>12 DEF R, S, offs

\* The file and the cache after a rollback to savepoint n.
LEMMA FileRestored ==
    ASSUME JInv, JournalAssumption, eState \in {"CACHEMOD", "DBMOD"}, bound' = bound,
           NEW n \in DOMAIN savepoints,
           NEW subs, subs = {} \/ subs = savepoints[n].iSubRec + 1 .. Len(sub), NEW missing,
           NEW R, R = RestoredTo(savepoints[n], RecordsSince(savepoints[n]), subs),
           NEW S, S = StoredTo(savepoints[n], RecordsSince(savepoints[n]), subs),
           RolledBackTo(savepoints[n], RecordsSince(savepoints[n]), subs, missing)
    PROVE  /\ FileOK' /\ Len(file) <= Len(file')
           /\ eState = "CACHEMOD" => Len(file') = Len(file)
           /\ \A q \in S : q \in DOMAIN file' /\ file'[q] = OriginalTo(RecordsSince(savepoints[n]), subs, q)
           /\ \A q \in DOMAIN file \ S : q \in DOMAIN file' /\ file'[q] = file[q]
  <1> DEFINE Orig(q) == OriginalTo(RecordsSince(savepoints[n]), subs, q)
  <1>1. /\ file \in Seq(Contents) /\ Len(file) \in 1 .. bound.pages /\ dbFileSize = Len(file)
        /\ bound.pages \in Nat
        /\ \A i \in DOMAIN file : file[i] \in PageData(i) \cup {hole}
    BY PagesPositive DEF JInv, FileOK
  <1>2. \A q \in S : q \in R /\ eState = "DBMOD"
    BY RestoredPages
  <1>3. \A q \in R : Orig(q) \in PageData(q)
    BY RestoredPages
  <1>4. S \subseteq 1 .. bound.pages
    <2>1. /\ DOMAIN saved = DOMAIN savepoints /\ savepoints[n].nOrig = Len(saved[n])
          /\ IsImage(saved[n])
      BY DEF JInv, JournalOK, ImagesOK, Sizes
    <2>2. Len(saved[n]) \in Nat /\ Len(saved[n]) <= bound.pages
      BY <1>1, <2>1 DEF IsImage
    <2>3. \A q \in R : q \in 1 .. Len(saved[n])
      BY <2>1 DEF RestoredTo
    <2> QED BY <1>1, <1>2, <2>2, <2>3
  <1> DEFINE size == CHOOSE m \in S \cup {Len(file)} : \A p \in S \cup {Len(file)} : p <= m
  <1>5. /\ file' = [i \in 1 .. size |-> IF i \in S THEN Orig(i)
                                       ELSE IF i \in DOMAIN file THEN file[i] ELSE hole]
        /\ dbFileSize' = FileGrown(dbFileSize, size)
    BY DEF RolledBackTo
  <1>6. size \in S \cup {Len(file)} /\ \A p \in S \cup {Len(file)} : p <= size
    <2> DEFINE T == S \cup {Len(file)}
    <2>1. T \subseteq 0 .. bound.pages /\ T # {}
      BY <1>1, <1>4
    <2>2. \E x \in T : \A y \in T : y <= x
      BY <1>1, <2>1, LargestOf
    <2> QED BY <2>2
  <1> HIDE DEF size
  <1>7. size \in 1 .. bound.pages /\ size \in Nat /\ Len(file) <= size /\ \A q \in S : q \in 1 .. size
    BY <1>1, <1>4, <1>6
  <1>8. \A i \in 1 .. size : file'[i] \in PageData(i) \cup {hole}
    BY <1>1, <1>2, <1>3, <1>5
  <1>9. file' \in Seq(Contents) /\ Len(file') = size /\ DOMAIN file' = 1 .. size
    <2>1. \A i \in 1 .. size : file'[i] \in Contents
      <3>1. hole \in Contents
        BY DEF Contents
      <3> QED BY <1>8, <3>1, PageDataTyped
    <2>2. file' = [i \in 1 .. size |-> file'[i]]
      BY <1>5
    <2>3. file' \in [1 .. size -> Contents]
      BY <2>1, <2>2
    <2> QED BY <1>7, <2>3
  <1>10. FileOK'
    <2>1. dbFileSize' = size
      BY <1>1, <1>5, <1>7 DEF FileGrown, MAX
    <2> QED BY <1>7, <1>8, <1>9, <2>1, PagesTyped DEF FileOK
  <1>11. eState = "CACHEMOD" => Len(file') = Len(file)
    <2>1. eState = "CACHEMOD" => S = {}
      BY <1>2
    <2> QED BY <1>6, <1>9, <2>1
  <1>12. \A q \in S : q \in DOMAIN file' /\ file'[q] = Orig(q)
    BY <1>5, <1>7, <1>9
  <1>13. \A q \in DOMAIN file \ S : q \in DOMAIN file' /\ file'[q] = file[q]
    <2>1. \A q \in DOMAIN file : q \in 1 .. size
      BY <1>1, <1>7
    <2> QED BY <1>5, <1>9, <2>1
  <1> QED BY <1>7, <1>9, <1>10, <1>11, <1>12, <1>13

LEMMA CacheRestored ==
    ASSUME JInv, eState \in {"CACHEMOD", "DBMOD"}, eState' = eState, bound' = bound,
           NEW n \in DOMAIN savepoints,
           NEW subs, subs = {} \/ subs = savepoints[n].iSubRec + 1 .. Len(sub), NEW missing,
           NEW R, R = RestoredTo(savepoints[n], RecordsSince(savepoints[n]), subs),
           RolledBackTo(savepoints[n], RecordsSince(savepoints[n]), subs, missing)
    PROVE  /\ CacheOK' /\ DOMAIN cache' = DOMAIN cache
           /\ \A q \in DOMAIN cache :
                 /\ cache'[q].dirty = cache[q].dirty /\ cache'[q].needSync = cache[q].needSync
                 /\ cache'[q].dontWrite = cache[q].dontWrite
                 /\ q \in R => cache'[q].data = OriginalTo(RecordsSince(savepoints[n]), subs, q)
                 /\ q \notin R => cache'[q].data = cache[q].data
  <1> DEFINE Orig(q) == OriginalTo(RecordsSince(savepoints[n]), subs, q)
  <1>1. \A q \in R : Orig(q) \in PageData(q)
    BY RestoredPages
  <1>2. cache' = [q \in DOMAIN cache |-> IF q \in R THEN [cache[q] EXCEPT !.data = Orig(q)]
                                        ELSE cache[q]]
    BY DEF RolledBackTo
  <1>3. DOMAIN cache' = DOMAIN cache /\ cache' = [q \in DOMAIN cache' |-> cache'[q]]
    BY <1>2
  <1>4. ASSUME NEW q \in DOMAIN cache
        PROVE  /\ cache'[q] \in Frames(q)
               /\ cache'[q].dirty = cache[q].dirty /\ cache'[q].needSync = cache[q].needSync
               /\ cache'[q].dontWrite = cache[q].dontWrite
               /\ q \in R => cache'[q].data = Orig(q)
               /\ q \notin R => cache'[q].data = cache[q].data
    <2>1. cache[q] \in Frames(q)
      BY DEF JInv, CacheOK
    <2>2. CASE q \in R
      <3>1. cache'[q] = [cache[q] EXCEPT !.data = Orig(q)] /\ Orig(q) \in PageData(q)
        BY <1>1, <1>2, <2>2
      <3> QED BY <2>1, <2>2, <3>1 DEF Frames
    <2>3. CASE q \notin R
      BY <1>2, <2>1, <2>3
    <2> QED BY <2>2, <2>3
  <1>5. CacheOK'
    <2>1. \A q : Frames(q)' = Frames(q)
      BY DEF Frames, PageData
    <2>2. /\ DOMAIN cache \subseteq 1 .. bound.pages /\ 1 \in DOMAIN cache
          /\ \A q \in DOMAIN cache : cache[q].needSync => cache[q].dirty
      BY DEF JInv, CacheOK
    <2> QED BY <1>3, <1>4, <2>1, <2>2 DEF CacheOK
  <1> QED BY <1>3, <1>4, <1>5

\* What a rollback to savepoint n leaves, whatever it restores.
Cut(n) ==
    /\ savepoints' = SubSeq(savepoints, 1, n) /\ saved' = SubSeq(saved, 1, n)
    /\ view' = saved[n] /\ rc' \in {"OK", "IOERR"}
    /\ UNCHANGED <<bound, eState, dbOrigSize, jOpen, jfile, journalOff, journalHdr, nRec,
                   inJournal, sub, hasContent, begun>>
    /\ DOMAIN cache' = DOMAIN cache
    /\ \A q \in DOMAIN cache : /\ cache'[q].dirty = cache[q].dirty
                               /\ cache'[q].needSync = cache[q].needSync
                               /\ cache'[q].dontWrite = cache[q].dontWrite

LEMMA CutStack ==
    ASSUME JInv, NEW n \in DOMAIN savepoints, Cut(n)
    PROVE  /\ savepoints' \in Seq(Savepoints) /\ Len(savepoints') = n /\ DOMAIN savepoints' = 1 .. n
           /\ saved' \in Seq(Seq(Contents)) /\ Len(saved') = n /\ DOMAIN saved' = 1 .. n
           /\ \A i \in 1 .. n : /\ savepoints'[i] = savepoints[i] /\ saved'[i] = saved[i]
                                /\ i \in DOMAIN savepoints /\ i \in DOMAIN saved
                                /\ \A j \in 1 .. i : j \in 1 .. n
           /\ n \in 1 .. n /\ n \in Nat
  <1>1. /\ savepoints \in Seq(Savepoints) /\ saved \in Seq(Seq(Contents))
        /\ Len(saved) = Len(savepoints)
        /\ savepoints' = SubSeq(savepoints, 1, n) /\ saved' = SubSeq(saved, 1, n)
    BY DEF JInv, JournalOK, ImagesOK, Cut
  <1>2. n \in 0 .. Len(savepoints) /\ n \in 0 .. Len(saved) /\ n \in Nat /\ n \in 1 .. n
    BY <1>1
  <1>3. /\ savepoints' \in Seq(Savepoints) /\ Len(savepoints') = n /\ DOMAIN savepoints' = 1 .. n
        /\ \A i \in 1 .. n : savepoints'[i] = savepoints[i] /\ i \in DOMAIN savepoints
    BY <1>1, <1>2, PrefixOf
  <1>4. /\ saved' \in Seq(Seq(Contents)) /\ Len(saved') = n /\ DOMAIN saved' = 1 .. n
        /\ \A i \in 1 .. n : saved'[i] = saved[i] /\ i \in DOMAIN saved
    BY <1>1, <1>2, PrefixOf
  <1>5. \A i \in 1 .. n : \A j \in 1 .. i : j \in 1 .. n
    BY <1>2
  <1> QED BY <1>2, <1>3, <1>4, <1>5

LEMMA CutKeeps ==
    ASSUME JInv, NEW n \in DOMAIN savepoints, Cut(n)
    PROVE  /\ States' /\ JournalOK' /\ ImagesOK' /\ Marks' /\ Nested' /\ MainRecords' /\ SubRecords'
           /\ FreedKept' /\ Records' = Records
           /\ \A x, y, z : Copied(x, y, z) => Copied(x, y, z)'
           /\ \A x, y : MainSince(x, y)' = MainSince(x, y) /\ SubSince(x, y)' = SubSince(x, y)
  <1>1. /\ savepoints' \in Seq(Savepoints) /\ Len(savepoints') = n /\ DOMAIN savepoints' = 1 .. n
        /\ saved' \in Seq(Seq(Contents)) /\ Len(saved') = n /\ DOMAIN saved' = 1 .. n
        /\ \A i \in 1 .. n : /\ savepoints'[i] = savepoints[i] /\ saved'[i] = saved[i]
                             /\ i \in DOMAIN savepoints /\ i \in DOMAIN saved
                             /\ \A j \in 1 .. i : j \in 1 .. n
        /\ n \in 1 .. n /\ n \in Nat
    BY CutStack
  <1>2. /\ view' = saved[n] /\ rc' \in {"OK", "IOERR"}
        /\ UNCHANGED <<bound, eState, dbOrigSize, jOpen, jfile, journalOff, journalHdr, nRec,
                       inJournal, sub, hasContent, begun>>
        /\ DOMAIN cache' = DOMAIN cache
        /\ \A q \in DOMAIN cache : /\ cache'[q].dirty = cache[q].dirty
                                   /\ cache'[q].needSync = cache[q].needSync
                                   /\ cache'[q].dontWrite = cache[q].dontWrite
    BY DEF Cut
  <1>3. States'
    BY <1>2 DEF JInv, States
  <1>4. JournalOK'
    BY <1>1, <1>2 DEF JInv, JournalOK
  <1>5. ImagesOK'
    <2>1. \A i \in DOMAIN saved' : IsImage(saved[i])'
      BY <1>1, <1>2 DEF JInv, ImagesOK, IsImage
    <2>2. IsImage(begun)'
      BY <1>2 DEF JInv, ImagesOK, IsImage
    <2>3. IsImage(view)'
      <3>1. IsImage(saved[n])
        BY <1>1 DEF JInv, ImagesOK
      <3> QED BY <1>2, <3>1 DEF IsImage
    <2> QED BY <1>1, <2>1, <2>2, <2>3 DEF ImagesOK
  <1>6. Marks'
    BY <1>1, <1>2 DEF JInv, Marks
  <1>7. Nested'
    <2>1. ASSUME NEW i \in DOMAIN savepoints'
          PROVE  /\ savepoints'[i].iSubRec <= Len(sub')
                 /\ \A j \in 1 .. i : /\ savepoints'[j].iOffset <= savepoints'[i].iOffset
                                      /\ savepoints'[j].iSubRec <= savepoints'[i].iSubRec
      <3>1. i \in DOMAIN savepoints /\ \A j \in 1 .. i : savepoints'[j] = savepoints[j]
        BY <1>1
      <3> QED BY <1>1, <1>2, <3>1 DEF JInv, Nested
    <2> QED BY <2>1 DEF Nested
  <1>8. Records' = Records
    BY <1>2, RecordsSame
  <1>9. MainRecords'
    <2>1. ASSUME NEW o \in Records
          PROVE  LET r == jfile[o + 1] IN
                 /\ r \in RecordBlocks
                 /\ r.pgno \in inJournal /\ r.pgno \in 1 .. Len(begun) /\ r.data \in PageData(r.pgno)
                 /\ o >= journalHdr => r.pgno \in DOMAIN cache' /\ cache'[r.pgno].needSync
                 /\ eState = "CACHEMOD" => r.pgno \in DOMAIN cache' /\ cache'[r.pgno].dirty
      <3> DEFINE r == jfile[o + 1]
      <3>1. /\ r \in RecordBlocks
            /\ r.pgno \in inJournal /\ r.pgno \in 1 .. Len(begun) /\ r.data \in PageData(r.pgno)
            /\ o >= journalHdr => r.pgno \in DOMAIN cache /\ cache[r.pgno].needSync
            /\ eState = "CACHEMOD" => r.pgno \in DOMAIN cache /\ cache[r.pgno].dirty
        BY DEF JInv, MainRecords
      <3> HIDE DEF r
      <3>2. /\ o >= journalHdr => r.pgno \in DOMAIN cache' /\ cache'[r.pgno].needSync
            /\ eState = "CACHEMOD" => r.pgno \in DOMAIN cache' /\ cache'[r.pgno].dirty
        BY <1>2, <3>1
      <3> QED BY <3>1, <3>2 DEF r
    <2>2. \A o, q \in Records : jfile[o + 1].pgno = jfile[q + 1].pgno => o = q
      BY DEF JInv, MainRecords
    <2> QED BY <1>2, <1>8, <2>1, <2>2, PagesTyped DEF MainRecords
  <1>10. SubRecords'
    BY <1>2, PagesTyped DEF JInv, SubRecords
  <1>11. FreedKept'
    <2>1. ASSUME NEW i \in 1 .. n
          PROVE  /\ Kept(begun, saved'[i])
                 /\ \A j \in 1 .. i - 1 : Kept(saved'[j], saved'[i])
      <3>1. saved'[i] = saved[i] /\ i \in DOMAIN saved
            /\ \A j \in 1 .. i - 1 : saved'[j] = saved[j]
        BY <1>1
      <3> QED BY <3>1 DEF JInv, FreedKept
    <2>2. ASSUME NEW i \in 1 .. n PROVE Kept(saved'[i], saved[n])
      <3>1. CASE i = n
        <4>1. saved'[i] = saved[n]
          BY <1>1, <3>1
        <4> QED BY <4>1 DEF Kept, Live
      <3>2. CASE i # n
        <4>1. i \in 1 .. n - 1 /\ n \in DOMAIN saved
          BY <1>1, <3>2
        <4> QED BY <1>1, <4>1 DEF JInv, FreedKept
      <3> QED BY <3>1, <3>2
    <2>3. Kept(begun, saved[n])
      BY <1>1, <2>1
    <2> QED BY <1>1, <1>2, <2>1, <2>2, <2>3 DEF FreedKept, Kept, HasContent, Live
  <1>12. \A x, y : MainSince(x, y)' = MainSince(x, y) /\ SubSince(x, y)' = SubSince(x, y)
    BY <1>2, <1>8 DEF MainSince, SubSince
  <1>13. \A x, y, z : Copied(x, y, z) => Copied(x, y, z)'
    BY <1>2, <1>12 DEF Copied
  <1> QED BY <1>3, <1>4, <1>5, <1>6, <1>7, <1>8, <1>9, <1>10, <1>11, <1>12, <1>13

\* The savepoints keep what they can restore.
LEMMA CutSaved ==
    ASSUME JInv, NEW n \in DOMAIN savepoints, Cut(n),
           \A i \in 1 .. n : \A q \in Live(saved[i]) :
              q \notin savepoints[i].inSavepoint /\ Reads(q, saved[i][q]) => Reads(q, saved[i][q])'
    PROVE  SavedKept'
  <1>1. /\ DOMAIN saved' = 1 .. n
        /\ \A i \in 1 .. n : /\ savepoints'[i] = savepoints[i] /\ saved'[i] = saved[i]
                             /\ i \in DOMAIN saved
    BY CutStack
  <1>2. /\ \A x, y, z : Copied(x, y, z) => Copied(x, y, z)'
        /\ \A x, y : MainSince(x, y)' = MainSince(x, y) /\ SubSince(x, y)' = SubSince(x, y)
    BY CutKeeps
  <1>3. /\ DOMAIN cache' = DOMAIN cache
        /\ \A q \in DOMAIN cache : /\ cache'[q].dirty = cache[q].dirty
                                   /\ cache'[q].dontWrite = cache[q].dontWrite
    BY DEF Cut
  <1>4. ASSUME NEW i \in 1 .. n, NEW q \in Live(saved[i]), NEW s, s = savepoints[i],
               NEW v, v = saved[i][q]
        PROVE  /\ q \notin s.inSavepoint =>
                     Reads(q, v)' /\ MainSince(s, q)' = {} /\ SubSince(s, q)' = {}
               /\ q \in s.inSavepoint => Copied(s, q, v)'
               /\ q \in DOMAIN cache' /\ cache'[q].dirty => ~cache'[q].dontWrite
    <2>1. /\ q \notin s.inSavepoint => Reads(q, v) /\ MainSince(s, q) = {} /\ SubSince(s, q) = {}
          /\ q \in s.inSavepoint => Copied(s, q, v)
          /\ q \in DOMAIN cache /\ cache[q].dirty => ~cache[q].dontWrite
      BY <1>1, <1>4 DEF JInv, SavedKept
    <2> QED BY <1>1, <1>2, <1>3, <1>4, <2>1
  <1>5. \A i \in 1 .. n : Live(saved[i])' = Live(saved[i])
    BY <1>1 DEF Live
  <1> QED BY <1>1, <1>4, <1>5 DEF SavedKept

\* Nothing has been written.
LEMMA NothingRolledBackTo ==
    ASSUME JInv, JournalAssumption, NEW n \in DOMAIN savepoints, Cut(n), eState = "LOCKED",
           UNCHANGED <<file, dbFileSize, dbSize, cache>>
    PROVE  JInv'
  <1>1. /\ savepoints' \in Seq(Savepoints) /\ Len(savepoints') = n /\ DOMAIN savepoints' = 1 .. n
        /\ saved' \in Seq(Seq(Contents)) /\ Len(saved') = n /\ DOMAIN saved' = 1 .. n
        /\ \A i \in 1 .. n : /\ savepoints'[i] = savepoints[i] /\ saved'[i] = saved[i]
                             /\ i \in DOMAIN savepoints /\ i \in DOMAIN saved
                             /\ \A j \in 1 .. i : j \in 1 .. n
        /\ n \in 1 .. n /\ n \in Nat
    BY CutStack
  <1>2. /\ States' /\ JournalOK' /\ ImagesOK' /\ Marks' /\ Nested' /\ MainRecords' /\ SubRecords'
        /\ FreedKept' /\ Records' = Records
    BY CutKeeps
  <1>3. /\ view' = saved[n] /\ rc' \in {"OK", "IOERR"}
        /\ UNCHANGED <<bound, eState, dbOrigSize, jOpen, jfile, journalOff, journalHdr, nRec,
                       inJournal, sub, hasContent, begun>>
    BY DEF Cut
  <1>4. /\ jfile = << >> /\ inJournal = {} /\ sub = << >> /\ journalHdr = 0
        /\ Len(view) = Len(begun) /\ \A i \in DOMAIN saved : saved[i] = begun
        /\ journalOff = IF jOpen THEN 1 ELSE 0
    BY DEF JInv, Unwritten
  <1>5. view' = begun
    BY <1>1, <1>3, <1>4
  <1>6. FileOK' /\ CacheOK'
    BY <1>3, FileSame, CacheSame DEF JInv
  <1>7. \A q, v : Reads(q, v) => Reads(q, v)'
    BY DEF Reads
  <1>8. Sizes'
    <2>1. /\ dbSize = Len(view) /\ dbOrigSize \in 1 .. bound.pages /\ Len(begun) <= Len(file)
          /\ Len(file) = Len(begun) /\ dbOrigSize = Len(begun) /\ Len(begun) <= dbSize
      BY DEF JInv, Sizes
    <2>2. \A i \in DOMAIN savepoints' :
             /\ savepoints'[i].nOrig = Len(saved'[i])
             /\ Len(begun) <= Len(saved'[i]) /\ Len(saved'[i]) <= dbSize
             /\ \A j \in 1 .. i : Len(saved'[j]) <= Len(saved'[i])
      BY <1>1 DEF JInv, Sizes
    <2> QED BY <1>3, <1>4, <1>5, <2>1, <2>2 DEF Sizes
  <1>9. Unwritten'
    BY <1>1, <1>3, <1>4, <1>5 DEF Unwritten
  <1>10. Layout'
    BY <1>3 DEF Layout
  <1>11. BegunKept'
    BY <1>2, <1>3 DEF JInv, BegunKept, Live, Record
  <1>12. ViewReads'
    <2>1. ASSUME NEW q \in Live(begun) PROVE Reads(q, begun[q])'
      <3>1. file[q] = begun[q] /\ (q \in DOMAIN cache => cache[q].data = begun[q])
        BY <1>4 DEF JInv, BegunKept
      <3>2. q \in DOMAIN file
        <4>1. q \in 1 .. Len(begun)
          BY DEF Live, JInv, ImagesOK, IsImage
        <4> QED BY <4>1 DEF JInv, FileOK, Sizes
      <3>3. q \in DOMAIN cache => ~cache[q].dirty
        BY DEF JInv, CacheOK
      <3> QED BY <1>3, <3>1, <3>2, <3>3 DEF Reads
    <2> QED BY <1>3, <1>5, <2>1 DEF ViewReads, Live
  <1>13. SavedKept'
    <2>1. ASSUME NEW i \in 1 .. n, NEW q \in Live(saved[i]), Reads(q, saved[i][q])
          PROVE  Reads(q, saved[i][q])'
      BY <1>1, <1>7, <2>1
    <2> QED BY <2>1, CutSaved
  <1> QED BY <1>2, <1>6, <1>8, <1>9, <1>10, <1>11, <1>12, <1>13 DEF JInv

\* Pages are restored from the journals; missing says that a header is missing.
LEMMA RolledBackToKeeps ==
    ASSUME JInv, JournalAssumption, NEW n \in DOMAIN savepoints, Cut(n),
           rc \in {"OK", "NOMEM"}, eState \in {"CACHEMOD", "DBMOD"},
           NEW missing \in BOOLEAN, missing <=> journalOff # Len(jfile),
           NEW subs, subs = IF missing THEN {} ELSE savepoints[n].iSubRec + 1 .. Len(sub),
           RolledBackTo(savepoints[n], RecordsSince(savepoints[n]), subs, missing)
    PROVE  JInv'
  <1> DEFINE s == savepoints[n]
             R == RestoredTo(s, RecordsSince(s), subs)
             S == StoredTo(s, RecordsSince(s), subs)
             Orig(q) == OriginalTo(RecordsSince(s), subs, q)
  <1>1. /\ savepoints' \in Seq(Savepoints) /\ Len(savepoints') = n /\ DOMAIN savepoints' = 1 .. n
        /\ saved' \in Seq(Seq(Contents)) /\ Len(saved') = n /\ DOMAIN saved' = 1 .. n
        /\ \A i \in 1 .. n : /\ savepoints'[i] = savepoints[i] /\ saved'[i] = saved[i]
                             /\ i \in DOMAIN savepoints /\ i \in DOMAIN saved
                             /\ \A j \in 1 .. i : j \in 1 .. n
        /\ n \in 1 .. n /\ n \in Nat
    BY CutStack
  <1>2. /\ States' /\ JournalOK' /\ ImagesOK' /\ Marks' /\ Nested' /\ MainRecords' /\ SubRecords'
        /\ FreedKept' /\ Records' = Records
    BY CutKeeps
  <1>3. /\ view' = saved[n]
        /\ UNCHANGED <<bound, eState, dbOrigSize, jOpen, jfile, journalOff, journalHdr, nRec,
                       inJournal, sub, hasContent, begun>>
    BY DEF Cut
  <1>4. dbSize' = s.nOrig /\ rc' = IF missing THEN "IOERR" ELSE "OK"
    BY DEF RolledBackTo
  <1>5. subs = {} \/ subs = s.iSubRec + 1 .. Len(sub)
    OBVIOUS
  <1>6. \A q :
           /\ q \in R => q \in inJournal \/ q > Len(begun)
           /\ q \in R \ S => q \in DOMAIN cache /\ cache[q].dirty
           /\ q \in S => q \in R /\ eState = "DBMOD"
                         /\ \A o \in Records : jfile[o + 1].pgno = q => o < journalHdr
           /\ \A i \in 1 .. n : q \in Live(saved[i]) /\ q \notin savepoints[i].inSavepoint => q \notin R
           /\ q \in Live(saved[n]) /\ q \in s.inSavepoint /\ ~missing =>
                 q \in R /\ Orig(q) = saved[n][q]
    BY <1>5, RestoredPages
  <1>7. /\ FileOK' /\ Len(file) <= Len(file')
        /\ eState = "CACHEMOD" => Len(file') = Len(file)
        /\ \A q \in S : q \in DOMAIN file' /\ file'[q] = Orig(q)
        /\ \A q \in DOMAIN file \ S : q \in DOMAIN file' /\ file'[q] = file[q]
    <2>1. bound' = bound
      BY <1>3
    <2>2. /\ R = RestoredTo(savepoints[n], RecordsSince(savepoints[n]), subs)
          /\ S = StoredTo(savepoints[n], RecordsSince(savepoints[n]), subs)
      OBVIOUS
    <2>3. \A q : Orig(q) = OriginalTo(RecordsSince(savepoints[n]), subs, q)
      OBVIOUS
    <2> HIDE DEF R, S, Orig
    <2>4. /\ FileOK' /\ Len(file) <= Len(file')
          /\ eState = "CACHEMOD" => Len(file') = Len(file)
          /\ \A q \in S : /\ q \in DOMAIN file'
                          /\ file'[q] = OriginalTo(RecordsSince(savepoints[n]), subs, q)
          /\ \A q \in DOMAIN file \ S : q \in DOMAIN file' /\ file'[q] = file[q]
      BY <1>5, <2>1, <2>2, FileRestored
    <2> QED BY <2>3, <2>4
  <1>8. /\ CacheOK' /\ DOMAIN cache' = DOMAIN cache
        /\ \A q \in DOMAIN cache :
              /\ cache'[q].dirty = cache[q].dirty /\ cache'[q].needSync = cache[q].needSync
              /\ cache'[q].dontWrite = cache[q].dontWrite
              /\ q \in R => cache'[q].data = Orig(q)
              /\ q \notin R => cache'[q].data = cache[q].data
    <2>1. eState' = eState /\ bound' = bound
      BY <1>3
    <2>2. R = RestoredTo(savepoints[n], RecordsSince(savepoints[n]), subs)
      OBVIOUS
    <2>3. \A q : Orig(q) = OriginalTo(RecordsSince(savepoints[n]), subs, q)
      OBVIOUS
    <2> HIDE DEF R, S, Orig
    <2>4. /\ CacheOK' /\ DOMAIN cache' = DOMAIN cache
          /\ \A q \in DOMAIN cache :
                /\ cache'[q].dirty = cache[q].dirty /\ cache'[q].needSync = cache[q].needSync
                /\ cache'[q].dontWrite = cache[q].dontWrite
                /\ q \in R => cache'[q].data = OriginalTo(RecordsSince(savepoints[n]), subs, q)
                /\ q \notin R => cache'[q].data = cache[q].data
      BY <1>5, <2>1, <2>2, CacheRestored
    <2> QED BY <2>3, <2>4
  <1>9. /\ s.nOrig = Len(saved[n]) /\ dbOrigSize \in 1 .. bound.pages
        /\ Len(begun) <= Len(file) /\ Len(begun) <= Len(saved[n])
        /\ dbOrigSize = Len(begun)
        /\ eState = "CACHEMOD" => Len(file) = Len(begun)
        /\ Len(begun) \in Nat /\ Len(file) \in Nat
        /\ \A i \in 1 .. n : /\ savepoints[i].nOrig = Len(saved[i])
                             /\ Len(begun) <= Len(saved[i]) /\ Len(saved[i]) <= Len(saved[n])
                             /\ \A j \in 1 .. i : Len(saved[j]) <= Len(saved[i])
    <2>1. Len(begun) \in Nat /\ Len(file) \in Nat
      BY DEF JInv, ImagesOK, IsImage, FileOK
    <2> QED BY <1>1, <2>1 DEF JInv, Sizes
  <1> HIDE DEF s, R, S, Orig
  <1>10. ASSUME NEW q, NEW v, q \notin R, Reads(q, v) PROVE Reads(q, v)'
    <2>1. q \notin S
      BY <1>6, <1>10
    <2> QED BY <1>7, <1>8, <1>10, <2>1 DEF Reads
  <1>11. Sizes'
    <2>1. Len(file') \in Nat
      BY <1>7 DEF FileOK
    <2>2. Len(begun) <= Len(file')
      BY <1>7, <1>9, <2>1
    <2>3. \A i \in DOMAIN savepoints' :
             /\ savepoints'[i].nOrig = Len(saved'[i])
             /\ Len(begun) <= Len(saved'[i]) /\ Len(saved'[i]) <= dbSize'
             /\ \A j \in 1 .. i : Len(saved'[j]) <= Len(saved'[i])
      BY <1>1, <1>4, <1>9
    <2> QED BY <1>3, <1>4, <1>7, <1>9, <2>2, <2>3 DEF Sizes
  <1>12. Unwritten'
    BY <1>3 DEF Unwritten
  <1>13. Layout'
    BY <1>3, <1>4 DEF JInv, Layout
  <1>14. ViewReads'
    <2>1. ASSUME ~missing, NEW q \in Live(saved[n]), NEW v, v = saved[n][q] PROVE Reads(q, v)'
      <3>1. CASE q \notin R
        <4>1. q \notin s.inSavepoint
          BY <1>6, <2>1, <3>1
        <4>2. Reads(q, v)
          BY <1>1, <2>1, <4>1 DEF JInv, SavedKept, s
        <4> QED BY <1>10, <3>1, <4>2
      <3>2. CASE q \in R
        <4>1. q \in s.inSavepoint
          <5>1. \A i \in 1 .. n : q \in Live(saved[i]) /\ q \notin savepoints[i].inSavepoint => q \notin R
            BY <1>6
          <5> QED BY <1>1, <2>1, <3>2, <5>1 DEF s
        <4>2. Orig(q) = v
          BY <1>6, <2>1, <4>1
        <4>3. q \in DOMAIN cache /\ cache[q].dirty => ~cache[q].dontWrite
          BY <1>1, <2>1 DEF JInv, SavedKept
        <4>4. CASE q \in S
          BY <1>7, <1>8, <3>2, <4>2, <4>3, <4>4 DEF Reads
        <4>5. CASE q \notin S
          <5>1. q \in DOMAIN cache /\ cache[q].dirty
            BY <1>6, <3>2, <4>5
          <5> QED BY <1>8, <3>2, <4>2, <4>3, <5>1 DEF Reads
        <4> QED BY <4>4, <4>5
      <3> QED BY <3>1, <3>2
    <2>2. rc' = "OK" => ~missing
      BY <1>4
    <2>3. Live(view)' = Live(saved[n])
      BY <1>3 DEF Live
    <2>4. ASSUME ~missing, NEW q \in Live(saved[n]) PROVE Reads(q, view[q])'
      BY <1>3, <2>1, <2>4
    <2> QED BY <2>2, <2>3, <2>4 DEF ViewReads
  <1>15. BegunKept'
    <2>1. ASSUME NEW q \in Live(begun)
          PROVE  /\ eState = "CACHEMOD" => file'[q] = begun[q]
                 /\ q \notin inJournal =>
                       file'[q] = begun[q] /\ (q \in DOMAIN cache' => cache'[q].data = begun[q])
                 /\ q \in inJournal =>
                       \E o \in Records : /\ jfile[o + 1] = Record(q, begun[q])
                                          /\ file'[q] = begun[q] \/ o < journalHdr
      <3>1. q \in 1 .. Len(begun) /\ q \in DOMAIN file /\ q \in Nat
        <4>1. q \in 1 .. Len(begun)
          BY DEF Live, JInv, ImagesOK, IsImage
        <4> QED BY <1>9, <4>1 DEF JInv, FileOK
      <3>2. q \notin S => file'[q] = file[q]
        BY <1>7, <3>1
      <3>3. eState = "CACHEMOD" => file'[q] = begun[q]
        BY <1>6, <3>2 DEF JInv, BegunKept
      <3>4. ASSUME q \notin inJournal
            PROVE  file'[q] = begun[q] /\ (q \in DOMAIN cache' => cache'[q].data = begun[q])
        <4>1. q \notin R /\ q \notin S
          <5>1. ~(q > Len(begun))
            BY <1>9, <3>1
          <5> QED BY <1>6, <3>4, <5>1
        <4>2. file[q] = begun[q] /\ (q \in DOMAIN cache => cache[q].data = begun[q])
          BY <3>4 DEF JInv, BegunKept
        <4> QED BY <1>8, <3>2, <4>1, <4>2
      <3>5. ASSUME q \in inJournal
            PROVE  \E o \in Records : /\ jfile[o + 1] = Record(q, begun[q])
                                      /\ file'[q] = begun[q] \/ o < journalHdr
        <4>1. PICK o \in Records : /\ jfile[o + 1] = Record(q, begun[q])
                                   /\ file[q] = begun[q] \/ o < journalHdr
          BY <3>5 DEF JInv, BegunKept
        <4>2. CASE q \notin S
          BY <3>2, <4>1, <4>2
        <4>3. CASE q \in S
          <5>1. jfile[o + 1].pgno = q
            BY <4>1, RecordFields
          <5>2. o < journalHdr
            BY <1>6, <4>3, <5>1
          <5> QED BY <4>1, <5>2
        <4> QED BY <4>2, <4>3
      <3> QED BY <3>3, <3>4, <3>5
    <2>2. Live(begun)' = Live(begun)
      BY <1>3 DEF Live
    <2>3. \A q, v : Record(q, v)' = Record(q, v)
      BY DEF Record
    <2> QED BY <1>2, <1>3, <2>1, <2>2, <2>3 DEF BegunKept
  <1>16. SavedKept'
    <2>1. ASSUME NEW i \in 1 .. n, NEW q \in Live(saved[i]), q \notin savepoints[i].inSavepoint,
                 Reads(q, saved[i][q])
          PROVE  Reads(q, saved[i][q])'
      <3>1. q \notin R
        BY <1>6, <2>1
      <3> QED BY <1>1, <1>10, <2>1, <3>1
    <2> QED BY <2>1, CutSaved
  <1> QED BY <1>2, <1>7, <1>8, <1>11, <1>12, <1>13, <1>14, <1>15, <1>16 DEF JInv

LEMMA RolledBackToIs ==
    ASSUME NEW n, RollbackToSavepoint(n), jOpen
    PROVE  LET s == savepoints[n]
               hdr == FirstHeader(s)
               missing == hdr < journalOff /\ journalOff > Len(jfile)
           IN RolledBackTo(s, (s.iOffset .. hdr - 1) \cup Replayed(hdr, journalOff),
                           IF missing THEN {} ELSE s.iSubRec + 1 .. Len(sub), missing)
  BY DEF RollbackToSavepoint, RolledBackTo, FirstHeader, RestoredTo, StoredTo, OriginalTo, SyncedTo,
         From, FromSub, First

\* Where nothing has been written, nothing is restored.
LEMMA NothingRestored ==
    ASSUME JInv, eState = "LOCKED", NEW n \in DOMAIN savepoints, NEW offs, NEW subs, NEW missing,
           offs = {}, subs = {}, RolledBackTo(savepoints[n], offs, subs, missing)
    PROVE  UNCHANGED <<file, dbFileSize, dbSize, cache>>
  <1> DEFINE s == savepoints[n]
  <1>1. /\ file \in Seq(Contents) /\ Len(file) \in Nat /\ dbFileSize = Len(file)
        /\ cache = [q \in DOMAIN cache |-> cache[q]]
    BY DEF JInv, FileOK, CacheOK
  <1>2. dbSize = s.nOrig
    <2>1. DOMAIN saved = DOMAIN savepoints
      BY DEF JInv, ImagesOK, JournalOK
    <2>2. s.nOrig = Len(saved[n]) /\ dbSize = Len(view) /\ Len(view) = Len(begun) /\ saved[n] = begun
      BY <2>1 DEF JInv, Sizes, Unwritten
    <2> QED BY <2>2
  <1>3. RestoredTo(s, offs, subs) = {} /\ StoredTo(s, offs, subs) = {}
    BY DEF RestoredTo, StoredTo, From, FromSub
  <1>4. cache' = cache
    BY <1>1, <1>3 DEF RolledBackTo
  <1> DEFINE size == CHOOSE m \in StoredTo(s, offs, subs) \cup {Len(file)} :
                        \A p \in StoredTo(s, offs, subs) \cup {Len(file)} : p <= m
  <1>5. size = Len(file)
    <2>1. StoredTo(s, offs, subs) \cup {Len(file)} = {Len(file)}
      BY <1>3
    <2>2. \E m \in {Len(file)} : \A p \in {Len(file)} : p <= m
      BY <1>1
    <2> QED BY <2>1, <2>2
  <1>6. /\ file' = [i \in 1 .. size |-> IF i \in StoredTo(s, offs, subs) THEN OriginalTo(offs, subs, i)
                                       ELSE IF i \in DOMAIN file THEN file[i] ELSE hole]
        /\ dbFileSize' = FileGrown(dbFileSize, size) /\ dbSize' = s.nOrig
    BY DEF RolledBackTo
  <1> HIDE DEF size, s
  <1>7. file' = file
    <2>1. file' = [i \in 1 .. Len(file) |-> file[i]]
      BY <1>1, <1>3, <1>5, <1>6
    <2> QED BY <1>1, <2>1
  <1>8. dbFileSize' = dbFileSize
    BY <1>1, <1>5, <1>6 DEF FileGrown, MAX
  <1> QED BY <1>2, <1>4, <1>6, <1>7, <1>8

LEMMA RollbackToSavepointKeeps ==
    ASSUME JInv, JournalAssumption, NEW n, RollbackToSavepoint(n)
    PROVE  JInv'
  <1> DEFINE s == savepoints[n]
             hdr == FirstHeader(s)
             offs == (s.iOffset .. hdr - 1) \cup Replayed(hdr, journalOff)
             missing == hdr < journalOff /\ journalOff > Len(jfile)
             subs == IF missing THEN {} ELSE s.iSubRec + 1 .. Len(sub)
  <1>1. /\ rc \in {"OK", "NOMEM"} /\ eState \in {"LOCKED", "CACHEMOD", "DBMOD"}
        /\ n \in DOMAIN savepoints
        /\ savepoints' = SubSeq(savepoints, 1, n) /\ saved' = SubSeq(saved, 1, n)
        /\ view' = saved[n]
        /\ UNCHANGED <<bound, eState, dbOrigSize, jOpen, jfile, journalOff, journalHdr, nRec,
                       inJournal, sub, hasContent, begun>>
    BY DEF RollbackToSavepoint
  <1>2. /\ savepoints \in Seq(Savepoints) /\ s \in Savepoints /\ jOpen \in BOOLEAN
        /\ \A q \in DOMAIN cache : cache[q] \in Frames(q)
    <2>1. /\ savepoints \in Seq(Savepoints) /\ jOpen \in BOOLEAN
          /\ \A q \in DOMAIN cache : cache[q] \in Frames(q)
      BY DEF JInv, JournalOK, CacheOK
    <2> QED BY <1>1, <2>1
  <1>3. ~jOpen => rc' = "OK" /\ UNCHANGED <<file, dbFileSize, dbSize, cache>>
    BY DEF RollbackToSavepoint, fileVars
  <1>4. jOpen => RolledBackTo(s, offs, subs, missing)
    BY RolledBackToIs
  <1> HIDE DEF s, hdr, offs, missing, subs
  <1>5. Cut(n)
    <2>1. CASE ~jOpen
      BY <1>1, <1>3, <2>1 DEF Cut
    <2>2. CASE jOpen
      <3>1. /\ cache' = [p \in DOMAIN cache |->
                           IF p \in RestoredTo(s, offs, subs)
                           THEN [cache[p] EXCEPT !.data = OriginalTo(offs, subs, p)] ELSE cache[p]]
            /\ rc' \in {"OK", "IOERR"}
        BY <1>4, <2>2 DEF RolledBackTo
      <3>2. ASSUME NEW q \in DOMAIN cache
            PROVE  /\ cache'[q].dirty = cache[q].dirty
                   /\ cache'[q].needSync = cache[q].needSync
                   /\ cache'[q].dontWrite = cache[q].dontWrite
        <4>1. cache[q] \in Frames(q)
          BY <1>2
        <4>2. cache'[q] = [cache[q] EXCEPT !.data = OriginalTo(offs, subs, q)] \/ cache'[q] = cache[q]
          BY <3>1
        <4> QED BY <4>1, <4>2 DEF Frames
      <3>3. DOMAIN cache' = DOMAIN cache
        BY <3>1
      <3> QED BY <1>1, <3>1, <3>2, <3>3 DEF Cut
    <2> QED BY <1>2, <2>1, <2>2
  <1>6. CASE eState = "LOCKED"
    <2>1. CASE ~jOpen
      BY <1>1, <1>3, <1>5, <1>6, <2>1, NothingRolledBackTo
    <2>2. CASE jOpen
      <3>1. /\ jfile = << >> /\ sub = << >> /\ journalOff = 1
            /\ s.iOffset = 1 /\ s.iHdrOffset = 0
        BY <1>1, <1>6, <2>2 DEF JInv, Unwritten, Marks, s
      <3>2. hdr = 1
        BY <3>1 DEF hdr, FirstHeader
      <3>3. Replayed(1, 1) = {}
        BY <3>1, PlaybackOfNothing
      <3>4. offs = {}
        BY <3>1, <3>2, <3>3 DEF offs
      <3>5. subs = {}
        <4>1. s.iSubRec \in Nat /\ Len(sub) = 0
          BY <1>2, <3>1 DEF Savepoints
        <4> QED BY <4>1 DEF subs
      <3>6. UNCHANGED <<file, dbFileSize, dbSize, cache>>
        BY <1>1, <1>4, <1>6, <2>2, <3>4, <3>5, NothingRestored DEF s
      <3> QED BY <1>1, <1>5, <1>6, <3>6, NothingRolledBackTo
    <2> QED BY <1>2, <2>1, <2>2
  <1>7. CASE eState # "LOCKED"
    <2>1. eState \in {"CACHEMOD", "DBMOD"} /\ jOpen
      BY <1>1, <1>7 DEF JInv, Layout
    <2>2. MarkIn(s, jfile, journalHdr)
      BY <1>1, <2>1 DEF JInv, Marks, s
    <2>3. offs = RecordsSince(s) /\ (missing <=> journalOff # Len(jfile))
      BY <1>2, <2>1, <2>2, SinceRead DEF offs, missing, hdr
    <2>4. RolledBackTo(savepoints[n], RecordsSince(savepoints[n]), subs, missing)
      BY <1>4, <2>1, <2>3 DEF s
    <2>5. subs = IF missing THEN {} ELSE savepoints[n].iSubRec + 1 .. Len(sub)
      BY DEF subs, s
    <2>6. missing \in BOOLEAN
      BY DEF missing
    <2> QED BY <1>1, <1>5, <2>1, <2>3, <2>4, <2>5, <2>6, RolledBackToKeeps
  <1> QED BY <1>6, <1>7

--------------------------------------------------------------------------------
(* The invariant *)

LEMMA NextKeeps ==
    ASSUME JInv, JournalAssumption, [PagerJournalNext]_vars
    PROVE  JInv'
  <1>1. ASSUME NEW p \in 1 .. bound.pages, GetPage(p) PROVE JInv'
    BY <1>1, GetPageKeeps
  <1>2. ASSUME NEW p \in 1 .. bound.pages, DropPage(p) PROVE JInv'
    BY <1>2, DropPageKeeps
  <1>3. ASSUME NEW p \in 1 .. bound.pages, FreePage(p) PROVE JInv'
    BY <1>3, FreePageKeeps
  <1>4. ASSUME NEW p \in 1 .. bound.pages, ReuseHole(p) PROVE JInv'
    BY <1>4, ReuseHoleKeeps
  <1>5. ASSUME NEW p \in 1 .. bound.pages, pagerStress(p) PROVE JInv'
    BY <1>5, StressKeeps
  <1>6. ASSUME NEW p \in 1 .. bound.pages, NEW d \in Data, ReusePage(p, d) PROVE JInv'
    BY <1>6, ReusePageKeeps
  <1>7. ASSUME WritePage(1, view[1]) PROVE JInv'
    BY <1>7, WritePageKeeps
  <1>8. ASSUME NEW p \in 1 .. bound.pages, p # 1, NEW d \in Data, WritePage(p, d) PROVE JInv'
    BY <1>8, WritePageKeeps
  <1>9. ASSUME AppendPage PROVE JInv'
    BY <1>9, AppendPageKeeps
  <1>10. ASSUME sqlite3PagerBegin PROVE JInv'
    BY <1>10, BeginKeeps
  <1>11. ASSUME sqlite3PagerCommitPhaseOne PROVE JInv'
    BY <1>11, CommitPhaseOneKeeps
  <1>12. ASSUME sqlite3PagerCommitPhaseTwo PROVE JInv'
    BY <1>12, CommitPhaseTwoKeeps
  <1>13. ASSUME sqlite3PagerRollback PROVE JInv'
    BY <1>13, RollbackKeeps
  <1>14. ASSUME sqlite3PagerOpenSavepoint PROVE JInv'
    BY <1>14, OpenSavepointKeeps
  <1>15. ASSUME NEW n \in 1 .. bound.savepoints, ReleaseSavepoint(n) PROVE JInv'
    BY <1>15, ReleaseSavepointKeeps
  <1>16. ASSUME NEW n \in 1 .. bound.savepoints, RollbackToSavepoint(n) PROVE JInv'
    BY <1>16, RollbackToSavepointKeeps
  <1>17. ASSUME UNCHANGED vars PROVE JInv'
    <2>1. CacheOK'
      BY <1>17, CacheSame DEF JInv, vars
    <2> QED BY <1>17, <2>1, CleanPagesMove
          DEF vars, fileVars, journalVars, savepointVars, auxVars
  <1> QED BY <1>1, <1>2, <1>3, <1>4, <1>5, <1>6, <1>7, <1>8, <1>9, <1>10, <1>11, <1>12, <1>13,
             <1>14, <1>15, <1>16, <1>17 DEF PagerJournalNext

\* What the pager knows of its files and its cache agrees with what they hold, and
\* with what the client has written, in every state of every run.
THEOREM PagerConsistent == PagerJournalSpec => []JInv
  <1>1. PagerJournalInit => JInv
    BY JournalAssumption, InitKeeps
  <1>2. JInv /\ [PagerJournalNext]_vars => JInv'
    BY JournalAssumption, NextKeeps
  <1> QED BY <1>1, <1>2, PTL DEF PagerJournalSpec

\* The pager's fields have their types: pages and sizes lie in the database, a page
\* that needs a sync is dirty, and the journal ends where the pager writes on.
THEOREM JournalTyped == PagerJournalSpec => []JournalTypeOK
  <1>1. JInv => JournalTypeOK
    <2> SUFFICES ASSUME JInv PROVE JournalTypeOK
      OBVIOUS
    <2>1. eState \in {"READER", "LOCKED", "CACHEMOD", "DBMOD", "FINISHED"}
          /\ rc \in {"OK", "NOMEM", "IOERR", "INTRUSION"}
      BY DEF JInv, States
    <2>2. dbSize \in 1 .. bound.pages /\ dbOrigSize \in 1 .. bound.pages
      BY DEF JInv, Sizes, ImagesOK, IsImage
    <2>3. Len(file) \in 1 .. bound.pages /\ \A i \in DOMAIN file : file[i] \in PageData(i) \cup {hole}
      BY DEF JInv, FileOK
    <2>4. /\ DOMAIN cache \subseteq 1 .. bound.pages
          /\ \A p \in DOMAIN cache : cache[p].data \in PageData(p) /\ (cache[p].needSync => cache[p].dirty)
      BY DEF JInv, CacheOK, Frames
    <2>5. rc = "OK" /\ jOpen /\ eState # "LOCKED" => Len(jfile) = journalOff
      BY DEF JInv, States, Unwritten, Layout
    <2>6. Len(savepoints) = Len(saved)
      BY DEF JInv, ImagesOK
    <2> QED BY <2>1, <2>2, <2>3, <2>4, <2>5, <2>6 DEF JournalTypeOK
  <1> QED BY <1>1, PagerConsistent, PTL

\* dbFileSize is the size of the database file: no write, spill, commit or rollback
\* loses count of it, so a page is read, and the file cut, where it ends.
THEOREM FileSizeKnown == PagerJournalSpec => []DbFileSizeExact
  <1>1. JInv => DbFileSizeExact
    BY DEF JInv, FileOK, DbFileSizeExact
  <1> QED BY <1>1, PagerConsistent, PTL

\* A page that the client has written, or that a rollback has brought back, reads
\* with that content, from the cache or from the file.
THEOREM WritesRead == PagerJournalSpec => []ReadsAsWritten
  <1>1. JInv => ReadsAsWritten
    BY DEF JInv, Sizes, ViewReads, Reads, ReadsAsWritten
  <1> QED BY <1>1, PagerConsistent, PTL

\* A page of the database as it was is overwritten in the file only after its
\* content is in a part of the journal that a playback reads without the last
\* header, which is not counted yet.
THEOREM JournalledAhead == PagerJournalSpec => []WriteAhead
  <1>1. JInv => WriteAhead
    <2> SUFFICES ASSUME JInv, eState # "READER", NEW p \in Live(begun) \cap DOMAIN file,
                        file[p] # begun[p]
                 PROVE  \E o \in Replayed(0, Len(jfile)) \cap 0 .. journalHdr - 1 :
                           jfile[o + 1] = Record(p, begun[p])
      BY DEF WriteAhead
    <2>1. p \in inJournal /\ eState \in {"DBMOD", "FINISHED"}
      BY DEF JInv, BegunKept, States
    <2>2. PICK o \in Records : jfile[o + 1] = Record(p, begun[p]) /\ o < journalHdr
      BY <2>1 DEF JInv, BegunKept
    <2>3. Replayed(0, Len(jfile)) = Records
      BY <2>1, RecordsPlayedBack
    <2>4. o \in 0 .. journalHdr - 1
      <3>1. o \in Nat
        BY DEF Records, RecordsOf
      <3>2. journalHdr \in Nat
        BY DEF JInv, JournalOK
      <3> QED BY <2>2, <3>1, <3>2
    <2> QED BY <2>2, <2>3, <2>4
  <1> QED BY <1>1, PagerConsistent, PTL


--------------------------------------------------------------------------------
(* The promise of module PageTransactions *)

\* While nothing has failed, the client would read the image it has written.
Faithful == rc = "OK" => Database = InUse(view)

LEMMA ImageShown == JInv => Faithful
  <1> SUFFICES ASSUME JInv, rc = "OK" PROVE Database = InUse(view)
    BY DEF Faithful
  <1>1. IsImage(view) /\ dbSize = Len(view) /\ \A p \in Live(view) : Shows(p) = view[p]
    BY DEF JInv, ImagesOK, Sizes, ViewReads, Reads, Shows
  <1>2. Shows(1) = view[1]
    BY <1>1, OneLive
  <1>3. 2 .. dbSize \ Shows(1) = Live(view) \ {1}
    BY <1>1, <1>2 DEF Live, IsImage
  <1> QED BY <1>1, <1>3 DEF Database, InUse

\* What the client reads, and what it could roll back to, stays.
LEMMA NothingSeen ==
    ASSUME Faithful, Faithful', rc = "OK", rc' = "OK",
           UNCHANGED <<view, begun, saved>>, (eState = "READER") <=> (eState' = "READER")
    PROVE  UNCHANGED Promise!pageVars
  <1>1. UNCHANGED <<Database, InUse(begun), Stack>>
    BY DEF Faithful, InUse, Stack, Live
  <1>2. (eState # "READER")' = (eState # "READER") /\ (rc # "OK")' = (rc # "OK")
    OBVIOUS
  <1> QED BY <1>1, <1>2 DEF Promise!pageVars

LEMMA Failing ==
    ASSUME rc = "OK", rc' # "OK", eState # "READER", eState' # "READER",
           UNCHANGED <<begun, saved>>
    PROVE  Promise!PagesNext
  <1>1. UNCHANGED <<InUse(begun), Stack>>
    BY DEF InUse, Stack, Live
  <1> QED BY <1>1 DEF Promise!Fail, Promise!PagesNext

\* A call that has not failed may change the pages in use.
LEMMA Changing ==
    ASSUME rc = "OK", rc' = "OK", eState # "READER", eState' # "READER",
           UNCHANGED <<begun, saved>>
    PROVE  Promise!Changes
  <1>1. UNCHANGED <<InUse(begun), Stack>>
    BY DEF InUse, Stack, Live
  <1> QED BY <1>1 DEF Promise!Changes

LEMMA PagerWriteEnds ==
    ASSUME NEW c, NEW inJ, NEW sps, NEW p, NEW d, PagerWrite(c, inJ, sps, p, d)
    PROVE  rc = "OK" /\ eState # "READER" /\ eState' # "READER"
  BY Zenon DEF PagerWrite

LEMMA PagesOf ==
    ASSUME JournalAssumption, States, NEW v, IsImage(v), NEW p \in Live(v) \ {1}
    PROVE  /\ p \in UNION {2 .. b.pages : b \in Bounds}
           /\ v[p] \in Data \cup {junk}
  <1>1. p \in 1 .. bound.pages /\ v[p] \in PageData(p) /\ bound \in Bounds
    BY LiveData DEF States
  <1>2. p \in 2 .. bound.pages
    BY <1>1, PagesPositive
  <1> QED BY <1>1, <1>2 DEF PageData

LEMMA WritePageSeen ==
    ASSUME JInv, JournalAssumption, JInv', Faithful, Faithful',
           NEW p \in 1 .. bound.pages, NEW d, WritePage(p, d), p = 1 => d = view[1]
    PROVE  [Promise!PagesNext]_(Promise!pageVars)
  <1>1. /\ rc = "OK" /\ eState # "READER" /\ eState' # "READER"
        /\ p \in Live(view) /\ view' = [view EXCEPT ![p] = d] /\ UNCHANGED <<begun, saved>>
    BY PagerWriteEnds DEF WritePage
  <1>2. IsImage(view) /\ States
    BY DEF JInv, ImagesOK
  <1>3. CASE rc' # "OK"
    BY <1>1, <1>3, Failing
  <1>4. CASE rc' = "OK" /\ p = 1
    <2>1. view' = view
      BY <1>1, <1>2, <1>4 DEF IsImage
    <2> QED BY <1>1, <1>4, <2>1, NothingSeen
  <1>5. CASE rc' = "OK" /\ p # 1
    <2>1. Database = InUse(view) /\ Database' = InUse(view')
      BY <1>1, <1>5 DEF Faithful, InUse, Live
    <2>2. DOMAIN view' = DOMAIN view /\ view'[1] = view[1] /\ view'[p] = d
          /\ \A q \in DOMAIN view \ {p} : view'[q] = view[q]
      BY <1>1, <1>2, <1>5 DEF IsImage, Live
    <2>3. p \in DOMAIN Database
      BY <1>1, <1>5, <2>1 DEF InUse
    <2>4. Database' = [Database EXCEPT ![p] = d]
      BY <2>1, <2>2, <1>5 DEF InUse, Live
    <2>5. p \in Live(view') \ {1}
      BY <1>1, <1>5, <2>2 DEF Live
    <2>6. p \in UNION {2 .. b.pages : b \in Bounds} /\ d \in Data \cup {junk}
      <3>1. p \in UNION {2 .. b.pages : b \in Bounds}
        BY <1>1, <1>2, <1>5, PagesOf
      <3>2. view' \in Seq(Contents') /\ \A q \in 2 .. Len(view') : view'[q] \in Data \cup {junk}
        BY DEF JInv, ImagesOK, IsImage
      <3>3. p \in 2 .. Len(view')
        BY <2>5, <3>2 DEF Live
      <3> QED BY <2>2, <3>1, <3>2, <3>3
    <2>7. Promise!Write(p, d)
      BY <1>1, <1>5, <2>3, <2>4, Changing DEF Promise!Write
    <2> QED BY <2>6, <2>7 DEF Promise!PagesNext
  <1> QED BY <1>3, <1>4, <1>5

LEMMA Allocating ==
    ASSUME JInv, JournalAssumption, JInv', Faithful, Faithful',
           rc = "OK", eState # "READER", eState' # "READER", UNCHANGED <<bound, begun, saved>>,
           NEW p, NEW d, p \notin Live(view), p # 1,
           Live(view') = Live(view) \cup {p}, view'[p] = d,
           \A q \in Live(view) \ {1} : view'[q] = view[q]
    PROVE  [Promise!PagesNext]_(Promise!pageVars)
  <1>1. CASE rc' # "OK"
    BY <1>1, Failing
  <1>2. CASE rc' = "OK"
    <2>1. Database = InUse(view) /\ Database' = InUse(view')
      BY <1>2 DEF Faithful, InUse, Live
    <2>2. p \notin DOMAIN Database
      BY <2>1 DEF InUse
    <2>3. Database' = [q \in DOMAIN Database \cup {p} |-> IF q = p THEN d ELSE Database[q]]
      BY <2>1 DEF InUse
    <2>4. p \in UNION {2 .. b.pages : b \in Bounds} /\ d \in Data \cup {junk}
      <3>1. IsImage(view)' /\ p \in Live(view') \ {1} /\ States /\ bound' = bound
        BY DEF JInv, ImagesOK
      <3>2. IsImage(view')
        BY <3>1 DEF IsImage
      <3> QED BY <3>1, <3>2, PagesOf
    <2>5. Promise!Allocate(p, d)
      BY <1>2, <2>2, <2>3, Changing DEF Promise!Allocate
    <2> QED BY <2>4, <2>5 DEF Promise!PagesNext
  <1> QED BY <1>1, <1>2

LEMMA ReusePageSeen ==
    ASSUME JInv, JournalAssumption, JInv', Faithful, Faithful',
           NEW p \in 1 .. bound.pages, NEW d, ReusePage(p, d)
    PROVE  [Promise!PagesNext]_(Promise!pageVars)
  <1> DEFINE x == Found(p, d).data
  <1>1. /\ rc = "OK" /\ eState # "READER" /\ eState' # "READER"
        /\ UNCHANGED <<bound, begun, saved>>
        /\ p \in view[1] /\ view' = [view EXCEPT ![1] = view[1] \ {p}, ![p] = x]
    BY PagerWriteEnds, Zenon DEF ReusePage
  <1>2. p \in 2 .. Len(view) /\ view \in Seq(Contents) /\ DOMAIN view = 1 .. Len(view)
    BY <1>1 DEF JInv, ImagesOK, IsImage
  <1>3. /\ DOMAIN view' = DOMAIN view /\ view'[1] = view[1] \ {p} /\ view'[p] = x
        /\ \A q \in DOMAIN view \ {1, p} : view'[q] = view[q]
    BY <1>1, <1>2
  <1>4. p \notin Live(view) /\ p # 1 /\ Live(view') = Live(view) \cup {p}
    BY <1>1, <1>2, <1>3 DEF Live
  <1>5. \A q \in Live(view) \ {1} : view'[q] = view[q]
    BY <1>3, <1>4 DEF Live
  <1> QED BY <1>1, <1>3, <1>4, <1>5, Allocating

LEMMA AppendPageSeen ==
    ASSUME JInv, JournalAssumption, JInv', Faithful, Faithful', AppendPage
    PROVE  [Promise!PagesNext]_(Promise!pageVars)
  <1> DEFINE p == Len(view) + 1
  <1>1. /\ rc = "OK" /\ eState # "READER" /\ eState' # "READER"
        /\ UNCHANGED <<bound, begun, saved>> /\ view' = Append(view, zeros)
    BY PagerWriteEnds, Zenon DEF AppendPage
  <1>2. view \in Seq(Contents) /\ Len(view) \in Nat \ {0} /\ view[1] = {}
    BY DEF JInv, ImagesOK, IsImage, AppendPage
  <1>3. /\ DOMAIN view = 1 .. Len(view) /\ DOMAIN view' = 1 .. p /\ view'[p] = zeros
        /\ \A q \in 1 .. Len(view) : view'[q] = view[q]
    BY <1>1, <1>2
  <1>4. p \notin Live(view) /\ p # 1 /\ Live(view') = Live(view) \cup {p}
    BY <1>2, <1>3 DEF Live
  <1>5. \A q \in Live(view) \ {1} : view'[q] = view[q]
    BY <1>3 DEF Live
  <1> HIDE DEF p
  <1> QED BY <1>1, <1>3, <1>4, <1>5, Allocating

LEMMA FreePageSeen ==
    ASSUME JInv, JournalAssumption, JInv', Faithful, Faithful',
           NEW p \in 1 .. bound.pages, FreePage(p)
    PROVE  [Promise!PagesNext]_(Promise!pageVars)
  <1>1. /\ rc = "OK" /\ rc' = "OK" /\ eState # "READER" /\ eState' # "READER"
        /\ p \in Live(view) \ {1} /\ view' = [view EXCEPT ![1] = view[1] \cup {p}]
        /\ UNCHANGED <<begun, saved>>
    BY DEF FreePage, Writeable
  <1>2. Database = InUse(view) /\ Database' = InUse(view')
    BY <1>1 DEF Faithful, InUse, Live
  <1>3. view \in Seq(Contents) /\ 1 \in DOMAIN view
    BY DEF JInv, ImagesOK, IsImage
  <1>4. /\ DOMAIN view' = DOMAIN view /\ view'[1] = view[1] \cup {p}
        /\ \A q \in DOMAIN view \ {1} : view'[q] = view[q]
    BY <1>1, <1>3
  <1>5. p \in DOMAIN Database
    BY <1>1, <1>2 DEF InUse
  <1>6. Database' = [q \in DOMAIN Database \ {p} |-> Database[q]]
    <2>1. Live(view') \ {1} = (Live(view) \ {1}) \ {p}
      BY <1>4 DEF Live
    <2> QED BY <1>2, <1>4, <2>1 DEF InUse, Live
  <1>7. p \in UNION {2 .. b.pages : b \in Bounds}
    BY <1>1, PagesOf DEF JInv, ImagesOK
  <1>8. Promise!Free(p)
    BY <1>1, <1>5, <1>6, Changing DEF Promise!Free
  <1> QED BY <1>7, <1>8 DEF Promise!PagesNext

\* The images that savepoints bring back.
LEMMA StackOf ==
    ASSUME JInv
    PROVE  Stack \in Seq({InUse(v) : v \in Seq(Contents)}) /\ Len(Stack) = Len(saved)
  <1>1. saved \in Seq(Seq(Contents))
    BY DEF JInv, ImagesOK
  <1> QED BY <1>1 DEF Stack

LEMMA StackCut ==
    ASSUME JInv, NEW n \in 0 .. Len(saved), saved' = SubSeq(saved, 1, n)
    PROVE  Stack' = SubSeq(Stack, 1, n)
  <1>1. saved \in Seq(Seq(Contents)) /\ n \in Nat
    BY DEF JInv, ImagesOK
  <1>2. DOMAIN saved' = 1 .. n /\ \A i \in 1 .. n : saved'[i] = saved[i]
    BY <1>1
  <1>3. Stack' = [i \in 1 .. n |-> InUse(saved[i])]
    BY <1>2 DEF Stack, InUse, Live
  <1>4. SubSeq(Stack, 1, n) = [i \in 1 .. n |-> Stack[i]]
    BY <1>1, StackOf
  <1>5. \A i \in 1 .. n : Stack[i] = InUse(saved[i])
    BY <1>1 DEF Stack
  <1> QED BY <1>3, <1>4, <1>5

\* The transaction ends with what is then shown.
LEMMA Ending ==
    ASSUME EndTransaction
    PROVE  rc' = "OK" /\ eState' = "READER" /\ Stack' = << >>
  BY DEF EndTransaction, Stack

LEMMA CommitPhaseTwoSeen ==
    ASSUME JInv, Faithful, Faithful', sqlite3PagerCommitPhaseTwo
    PROVE  Promise!PagesNext
  <1>1. /\ rc = "OK" /\ rc' = "OK" /\ eState # "READER" /\ eState' = "READER"
        /\ begun' = view /\ view' = view /\ Stack' = << >>
    BY Ending DEF sqlite3PagerCommitPhaseTwo
  <1>2. Database' = Database /\ InUse(begun)' = Database
    BY <1>1 DEF Faithful, InUse, Live
  <1>3. Promise!Commit
    BY <1>1, <1>2 DEF Promise!Commit
  <1> QED BY <1>3 DEF Promise!PagesNext

LEMMA RollbackSeen ==
    ASSUME JInv, Faithful, Faithful', sqlite3PagerRollback
    PROVE  Promise!PagesNext
  <1>1. /\ rc' = "OK" /\ eState # "READER" /\ eState' = "READER"
        /\ view' = begun /\ begun' = begun /\ Stack' = << >>
    BY Ending DEF sqlite3PagerRollback
  <1>2. Database' = InUse(begun) /\ InUse(begun)' = InUse(begun)
    BY <1>1 DEF Faithful, InUse, Live
  <1>3. Promise!Rollback
    BY <1>1, <1>2 DEF Promise!Rollback
  <1> QED BY <1>3 DEF Promise!PagesNext

LEMMA Appended ==
    ASSUME NEW S, NEW s \in Seq(S), NEW x \in S
    PROVE  Append(s, x) = [i \in 1 .. Len(s) + 1 |-> IF i = Len(s) + 1 THEN x ELSE s[i]]
  <1> DEFINE t == Append(s, x)
  <1>1. t \in Seq(S) /\ Len(t) = Len(s) + 1
    OBVIOUS
  <1>2. ASSUME NEW u \in Seq(S) PROVE u = [i \in 1 .. Len(u) |-> u[i]]
    OBVIOUS
  <1>3. t[Len(s) + 1] = x /\ \A i \in 1 .. Len(s) : t[i] = s[i]
    OBVIOUS
  <1>4. \A i \in 1 .. Len(s) + 1 : t[i] = IF i = Len(s) + 1 THEN x ELSE s[i]
    BY <1>3
  <1>5. t = [i \in 1 .. Len(t) |-> t[i]]
    BY <1>1, <1>2
  <1> HIDE DEF t
  <1>6. t = [i \in 1 .. Len(s) + 1 |-> IF i = Len(s) + 1 THEN x ELSE s[i]]
    BY <1>1, <1>4, <1>5
  <1> QED BY <1>6 DEF t

LEMMA OpenSavepointSeen ==
    ASSUME JInv, Faithful, Faithful', sqlite3PagerOpenSavepoint
    PROVE  Promise!PagesNext
  <1>1. /\ rc = "OK" /\ rc' = "OK" /\ eState # "READER" /\ eState' = eState
        /\ saved' = Append(saved, view) /\ view' = view /\ begun' = begun
    BY DEF sqlite3PagerOpenSavepoint
  <1>2. Database = InUse(view) /\ Database' = Database /\ InUse(begun)' = InUse(begun)
    BY <1>1 DEF Faithful, InUse, Live
  <1>3. saved \in Seq(Seq(Contents)) /\ view \in Seq(Contents)
    BY DEF JInv, ImagesOK, IsImage
  <1>4. Stack' = Append(Stack, Database)
    <2>1. /\ Len(saved') = Len(saved) + 1 /\ DOMAIN saved' = 1 .. Len(saved) + 1
          /\ saved'[Len(saved) + 1] = view
          /\ \A i \in 1 .. Len(saved) : saved'[i] = saved[i]
      BY <1>1, <1>3
    <2>2. Stack' = [i \in 1 .. Len(saved) + 1 |->
                       IF i = Len(saved) + 1 THEN InUse(view) ELSE InUse(saved[i])]
      BY <2>1 DEF Stack, InUse, Live
    <2>3. Stack = [i \in 1 .. Len(saved) |-> InUse(saved[i])]
      BY <1>3 DEF Stack
    <2>4. Append(Stack, Database) = [i \in 1 .. Len(saved) + 1 |->
                       IF i = Len(saved) + 1 THEN Database ELSE Stack[i]]
      <3> DEFINE S == {InUse(v) : v \in Seq(Contents)}
      <3>1. Stack \in Seq(S) /\ Len(Stack) = Len(saved) /\ Database \in S
        BY <1>2, <1>3, StackOf
      <3> HIDE DEF S
      <3> QED BY <3>1, Appended
    <2>5. Len(saved) \in Nat
      BY <1>3
    <2> QED BY <1>2, <2>2, <2>3, <2>4, <2>5
  <1>5. Promise!Open
    BY <1>1, <1>2, <1>4 DEF Promise!Open
  <1> QED BY <1>5 DEF Promise!PagesNext

LEMMA ReleaseSavepointSeen ==
    ASSUME JInv, Faithful, Faithful', NEW n, ReleaseSavepoint(n)
    PROVE  Promise!PagesNext
  <1>1. /\ rc = "OK" /\ rc' = "OK" /\ eState # "READER" /\ eState' = eState
        /\ n \in DOMAIN savepoints /\ saved' = SubSeq(saved, 1, n - 1)
        /\ view' = view /\ begun' = begun
    BY DEF ReleaseSavepoint
  <1>2. Database' = Database /\ InUse(begun)' = InUse(begun)
    BY <1>1 DEF Faithful, InUse, Live
  <1>3. n \in 1 .. Len(saved) /\ n - 1 \in 0 .. Len(saved)
    BY <1>1 DEF JInv, ImagesOK, JournalOK
  <1>4. Stack' = SubSeq(Stack, 1, n - 1) /\ n \in DOMAIN Stack
    BY <1>1, <1>3, StackCut, StackOf
  <1>5. Promise!Release(n)
    BY <1>1, <1>2, <1>4 DEF Promise!Release
  <1> QED BY <1>4, <1>5 DEF Promise!PagesNext

LEMMA RollbackToSavepointSeen ==
    ASSUME JInv, Faithful', NEW n, RollbackToSavepoint(n)
    PROVE  Promise!PagesNext
  <1>1. /\ eState # "READER" /\ eState' = eState /\ n \in DOMAIN savepoints
        /\ saved' = SubSeq(saved, 1, n) /\ view' = saved[n] /\ begun' = begun
    BY Zenon DEF RollbackToSavepoint
  <1>2. n \in 1 .. Len(saved)
    BY <1>1 DEF JInv, ImagesOK, JournalOK
  <1>3. Stack' = SubSeq(Stack, 1, n) /\ n \in DOMAIN Stack
    BY <1>1, <1>2, StackCut, StackOf, SMTT(30)
  <1>4. Stack[n] = InUse(saved[n]) /\ InUse(begun)' = InUse(begun)
    BY <1>1, <1>2 DEF Stack, InUse, Live
  <1>5. rc' = "OK" => Database' = Stack[n]
    BY <1>1, <1>4 DEF Faithful, InUse, Live
  <1>6. Promise!RollbackTo(n)
    BY <1>1, <1>3, <1>4, <1>5 DEF Promise!RollbackTo
  <1> QED BY <1>3, <1>6 DEF Promise!PagesNext

LEMMA BeginSeen ==
    ASSUME JInv, Faithful, Faithful', sqlite3PagerBegin
    PROVE  Promise!PagesNext
  <1>1. /\ rc = "OK" /\ rc' = "OK" /\ eState = "READER" /\ eState' # "READER"
        /\ begun' = view /\ view' = view /\ saved' = saved /\ view = begun
    BY DEF sqlite3PagerBegin, JInv, Unwritten, auxVars
  <1>2. Database' = Database /\ InUse(begun)' = InUse(begun) /\ Stack' = Stack
    BY <1>1 DEF Faithful, InUse, Stack, Live
  <1>3. Promise!Begin
    BY <1>1, <1>2 DEF Promise!Begin
  <1> QED BY <1>3 DEF Promise!PagesNext

\* Spilling a page may fail.
LEMMA StressSeen ==
    ASSUME Faithful, Faithful', NEW p, pagerStress(p)
    PROVE  [Promise!PagesNext]_(Promise!pageVars)
  <1>1. /\ rc = "OK" /\ eState \in {"CACHEMOD", "DBMOD"} /\ eState' # "READER"
        /\ UNCHANGED <<view, begun, saved>>
    BY DEF pagerStress, auxVars, pager_error
  <1> QED BY <1>1, NothingSeen, Failing

LEMMA NextSeen ==
    ASSUME JInv, JInv', JournalAssumption, Faithful, Faithful', [PagerJournalNext]_vars
    PROVE  [Promise!PagesNext]_(Promise!pageVars)
  <1>1. ASSUME NEW p \in 1 .. bound.pages, GetPage(p) \/ DropPage(p)
        PROVE  UNCHANGED Promise!pageVars
    BY <1>1, NothingSeen DEF GetPage, DropPage, auxVars
  <1>2. ASSUME NEW p \in 1 .. bound.pages, ReuseHole(p) PROVE Promise!PagesNext
    BY <1>2, Failing DEF ReuseHole, Writeable, auxVars
  <1>3. ASSUME sqlite3PagerCommitPhaseOne PROVE UNCHANGED Promise!pageVars
    <2>1. /\ rc = "OK" /\ rc' = "OK" /\ eState # "READER" /\ eState' # "READER"
          /\ UNCHANGED <<view, begun, saved>>
      BY <1>3 DEF sqlite3PagerCommitPhaseOne, Writeable, auxVars
    <2> QED BY <2>1, NothingSeen
  <1>4. ASSUME UNCHANGED vars PROVE UNCHANGED Promise!pageVars
    BY <1>4 DEF vars, fileVars, auxVars, Promise!pageVars, Database, Shows, InUse, Stack, Live
  <1>5. ASSUME NEW d \in Data, NEW p \in 1 .. bound.pages, p # 1, WritePage(p, d)
        PROVE  [Promise!PagesNext]_(Promise!pageVars)
    BY <1>5, WritePageSeen
  <1>6. ASSUME WritePage(1, view[1]) PROVE [Promise!PagesNext]_(Promise!pageVars)
    <2>1. 1 \in 1 .. bound.pages
      BY PagesPositive DEF JInv
    <2> QED BY <1>6, <2>1, WritePageSeen
  <1> QED BY <1>1, <1>2, <1>3, <1>4, <1>5, <1>6, StressSeen, FreePageSeen, ReusePageSeen,
             AppendPageSeen, BeginSeen, CommitPhaseTwoSeen, RollbackSeen, OpenSavepointSeen,
             ReleaseSavepointSeen, RollbackToSavepointSeen
          DEF PagerJournalNext

\* The pager, with a cache, a file and two journals, implements transactions on
\* pages: what the client reads changes only as it asks, and each rollback brings
\* back just what was there, unless a call fails, after which one still does.
THEOREM PageTransactionsKept == PagerJournalSpec => ImplementsPageTransactions
  <1>1. PagerJournalInit => Promise!PagesInit
    <2> SUFFICES ASSUME PagerJournalInit PROVE Promise!PagesInit
      OBVIOUS
    <2>1. dbSize = 1 /\ begun = <<{}>> /\ saved = << >> /\ eState = "READER" /\ rc = "OK"
      BY DEF PagerJournalInit
    <2>2. Database = << >> /\ Stack = << >>
      BY <2>1 DEF Database, Stack
    <2>3. InUse(begun) = << >>
      BY <2>1 DEF InUse, Live
    <2> QED BY <2>1, <2>2, <2>3 DEF Promise!PagesInit
  <1>2. JInv /\ JInv' /\ Faithful /\ Faithful' /\ [PagerJournalNext]_vars
           => [Promise!PagesNext]_(Promise!pageVars)
    BY JournalAssumption, NextSeen
  <1> QED BY <1>1, <1>2, PagerConsistent, ImageShown, PTL
          DEF PagerJournalSpec, ImplementsPageTransactions, Promise!PagesSpec
================================================================================
