------------------------------- MODULE VfsProofs -------------------------------
(****************************************************************************)
(* Proofs about sgxvfs.c.  First the file system on the page store that the   *)
(* engine implements, for any size of the pool, any number of temporary files *)
(* and any contents: while no size overflows an int, a buffer covers its      *)
(* file, and the files behave as SQLite's pager expects.  Then the opening    *)
(* and closing of databases: for any sequence of the programs in which the    *)
(* database in memory does not come after one in the engine, each buffer is   *)
(* freed at most once and an open database is usable.                         *)
(****************************************************************************)
EXTENDS Vfs, DbLifecycle, FiniteSetTheorems, TLAPS

\* The pool is an array of pages, and the size of a buffer, which is at most
\* twice what a write needs and what there was, fits an int.
SizesAssumption ==
    /\ \E N \in Nat : PoolPages = 0 .. N - 1
    /\ zeros \in Data
    /\ 4 * MaxBlocks <= INT_LIMIT

Bytes == Data \cup {junk}

StoreTypeOK ==
    /\ store \in [PoolPages -> Data]
    /\ buf \in Bytes

\* An open file: its sizes, and the blocks of it that were written.  The engine
\* raises no alarm about one of those.
FileInv(f) ==
    /\ f \in Files
    /\ mem[f] \in [data : Seq(Bytes), used : Nat, total : Nat]
    /\ f = MAIN => mem[f].total \in {0, vmem_max} /\ written[f] \subseteq touched
    /\ written[f] \subseteq 0 .. mem[f].used - 1
    /\ mem[f].used <= mem[f].total
    /\ f # MAIN => Len(mem[f].data) = mem[f].total

\* The inductive invariant.
VfsInv ==
    /\ StoreTypeOK
    /\ DOMAIN written = DOMAIN mem
    /\ rc \in {"OK", "SHORT_READ", "NOMEM"}
    /\ \A f \in DOMAIN mem : FileInv(f)

--------------------------------------------------------------------------------
LEMMA PoolSize ==
    ASSUME SizesAssumption
    PROVE  vmem_max \in Nat /\ PoolPages = 0 .. vmem_max - 1
  <1>1. PICK N \in Nat : PoolPages = 0 .. N - 1
    BY DEF SizesAssumption
  <1>2. Cardinality(0 .. N - 1) = N
    <2>1. Cardinality(0 .. N - 1) = IF 0 > N - 1 THEN 0 ELSE (N - 1) - 0 + 1
      BY <1>1, FS_Interval
    <2> QED BY <2>1, <1>1
  <1> QED BY <1>1, <1>2 DEF vmem_max

\* The size a buffer grows to is the one computed, and covers the write.
LEMMA NewTotalFacts ==
    ASSUME VfsInv, SizesAssumption, NEW f \in DOMAIN mem, NEW i \in Offsets,
           i + 1 > mem[f].total
    PROVE  newTotal(f, i) \in Nat /\ newTotal(f, i) >= i + 1 /\ newTotal(f, i) > 0
  <1>1. mem[f].total \in Nat /\ i \in Nat /\ i < MaxBlocks /\ MaxBlocks \in Nat
        /\ INT_LIMIT \in Nat
    BY FilesAssumption DEF VfsInv, FileInv, Offsets
  <1> DEFINE n == 2 * (i + 1 + mem[f].total)
  <1>2. n \in Nat /\ n < INT_LIMIT /\ n >= i + 1 /\ n > 0
    BY <1>1 DEF SizesAssumption
  <1>3. ToInt(n) = n
    <2>1. n + INT_LIMIT \in Nat /\ 2 * INT_LIMIT \in Nat /\ n + INT_LIMIT < 2 * INT_LIMIT
      BY <1>1, <1>2
    <2>2. \A a, b \in Nat : a < b => a % b = a
      OBVIOUS
    <2>3. (n + INT_LIMIT) % (2 * INT_LIMIT) = n + INT_LIMIT
      BY <2>1, <2>2
    <2> QED BY <2>3, <1>1, <1>2 DEF ToInt
  <1> QED BY <1>2, <1>3 DEF newTotal

\* The parts of the invariant that others ask for.
LEMMA VfsInvTypeOK == VfsInv => VfsTypeOK
  BY DEF VfsInv, FileInv, VfsTypeOK, Bytes

LEMMA VfsInvCovers == VfsInv => BufferCoversFile
  BY DEF VfsInv, FileInv, BufferCoversFile

--------------------------------------------------------------------------------
(* An action changes one file; the others stay. *)

LEMMA OtherFileKeeps ==
    ASSUME NEW f, FileInv(f), mem'[f] = mem[f], written'[f] = written[f],
           f # MAIN \/ touched \subseteq touched'
    PROVE  FileInv(f)'
  BY DEF FileInv, vmem_max

LEMMA NewFileKeeps ==
    ASSUME VfsInv, SizesAssumption, NEW f \in Files \ DOMAIN mem,
           mem' = Put(mem, f, [data |-> << >>, used |-> 0, total |-> 0]),
           written' = Put(written, f, {}),
           f = MAIN \/ touched \subseteq touched', StoreTypeOK', rc' = "OK"
    PROVE  VfsInv'
  <1>1. /\ DOMAIN mem' = DOMAIN mem \cup {f} /\ DOMAIN written' = DOMAIN mem'
        /\ mem'[f] = [data |-> << >>, used |-> 0, total |-> 0] /\ written'[f] = {}
        /\ \A g \in DOMAIN mem : mem'[g] = mem[g] /\ written'[g] = written[g]
    BY DEF Put, VfsInv
  <1>2. FileInv(f)'
    <2>1. << >> \in Seq(Bytes) /\ Len(<< >>) = 0
      OBVIOUS
    <2>2. mem'[f].data = << >> /\ mem'[f].used = 0 /\ mem'[f].total = 0
      BY <1>1
    <2>3. [data |-> << >>, used |-> 0, total |-> 0] \in [data : Seq(Bytes), used : Nat, total : Nat]
      BY <2>1
    <2>4. mem'[f] \in [data : Seq(Bytes), used : Nat, total : Nat]
      BY <1>1, <2>3
    <2> QED BY <1>1, <2>1, <2>2, <2>4 DEF FileInv, Bytes, Files
  <1>3. ASSUME NEW g \in DOMAIN mem PROVE FileInv(g)'
    <2>1. FileInv(g) /\ g # f
      BY DEF VfsInv
    <2>2. g # MAIN \/ touched \subseteq touched'
      BY <2>1
    <2> QED BY <1>1, <2>1, <2>2, OtherFileKeeps
  <1> QED BY <1>1, <1>2, <1>3 DEF VfsInv

LEMMA ClosedFileKeeps ==
    ASSUME VfsInv, NEW f \in DOMAIN mem, mem' = Remove(mem, f),
           written' = Remove(written, f), UNCHANGED storeVars, rc' = "OK"
    PROVE  VfsInv'
  <1>1. /\ DOMAIN mem' = DOMAIN mem \ {f} /\ DOMAIN written' = DOMAIN mem'
        /\ \A g \in DOMAIN mem' : mem'[g] = mem[g] /\ written'[g] = written[g]
    BY DEF Remove, VfsInv
  <1>2. StoreTypeOK' /\ touched' = touched
    BY DEF storeVars, StoreTypeOK, VfsInv
  <1>3. ASSUME NEW g \in DOMAIN mem' PROVE FileInv(g)'
    <2>1. FileInv(g)
      BY <1>1 DEF VfsInv
    <2> QED BY <1>1, <1>2, <2>1, OtherFileKeeps
  <1> QED BY <1>1, <1>2, <1>3 DEF VfsInv

LEMMA ChangedFileKeeps ==
    ASSUME VfsInv, NEW f \in DOMAIN mem, NEW m, NEW w,
           mem' = [mem EXCEPT ![f] = m], written' = [written EXCEPT ![f] = w],
           m \in [data : Seq(Bytes), used : Nat, total : Nat],
           f = MAIN => m.total \in {0, vmem_max} /\ w \subseteq touched',
           w \subseteq 0 .. m.used - 1, m.used <= m.total,
           f # MAIN => Len(m.data) = m.total,
           touched \subseteq touched', StoreTypeOK', rc' = "OK"
    PROVE  VfsInv'
  <1>1. /\ DOMAIN mem' = DOMAIN mem /\ DOMAIN written' = DOMAIN mem'
        /\ mem'[f] = m /\ written'[f] = w
        /\ \A g \in DOMAIN mem \ {f} : mem'[g] = mem[g] /\ written'[g] = written[g]
    BY DEF VfsInv
  <1>2. FileInv(f)'
    BY <1>1 DEF FileInv, VfsInv, vmem_max, Bytes, Files
  <1>3. ASSUME NEW g \in DOMAIN mem \ {f} PROVE FileInv(g)'
    <2>1. FileInv(g)
      BY DEF VfsInv
    <2> QED BY <1>1, <2>1, OtherFileKeeps
  <1> QED BY <1>1, <1>2, <1>3 DEF VfsInv

\* Calls that change no file.
LEMMA SameFilesKeep ==
    ASSUME VfsInv, UNCHANGED <<mem, written>>, touched \subseteq touched',
           StoreTypeOK', rc' \in {"OK", "SHORT_READ", "NOMEM"}
    PROVE  VfsInv'
  <1>1. ASSUME NEW g \in DOMAIN mem PROVE FileInv(g)'
    <2>1. FileInv(g)
      BY DEF VfsInv
    <2> QED BY <2>1, OtherFileKeeps
  <1> QED BY <1>1 DEF VfsInv

--------------------------------------------------------------------------------
(* The files as the pager knows them, before and after a call. *)

LEMMA FileFacts ==
    ASSUME NEW f \in DOMAIN mem
    PROVE  /\ DOMAIN File = DOMAIN mem /\ f \in DOMAIN File
           /\ DOMAIN File[f] = 0 .. mem[f].used - 1
           /\ \A i \in 0 .. mem[f].used - 1 : File[f][i] = Block(f, i)
  BY DEF File

\* A file that a call leaves alone reads as before.
LEMMA OtherFileSame ==
    ASSUME NEW g \in DOMAIN mem, g \in DOMAIN mem', mem'[g] = mem[g],
           written'[g] = written[g],
           g = MAIN => \A i \in written[g] : store'[i] = store[i]
    PROVE  File'[g] = File[g]
  <1>1. \A i : Block(g, i)' = Block(g, i)
    BY DEF Block
  <1> QED BY <1>1 DEF File

\* One file changes, or is new.
LEMMA FileStep ==
    ASSUME NEW f, NEW blocks, DOMAIN mem' = DOMAIN mem \cup {f},
           File'[f] = blocks,
           \A g \in DOMAIN mem \ {f} : File'[g] = File[g]
    PROVE  File' = Disk!With(f, blocks)
  <1>1. DOMAIN File = DOMAIN mem /\ DOMAIN File' = DOMAIN mem'
    BY DEF File
  <1>2. File' = [g \in DOMAIN File' |-> File'[g]]
    BY DEF File
  <1> QED BY <1>1, <1>2 DEF Disk!With

\* A file that is new is empty.
LEMMA NewFileStep ==
    ASSUME VfsInv, NEW f \in Files \ DOMAIN mem,
           mem' = Put(mem, f, [data |-> << >>, used |-> 0, total |-> 0]),
           written' = Put(written, f, {}),
           f = MAIN \/ store' = store
    PROVE  File' = Disk!With(f, [i \in {} |-> hole])
  <1>1. /\ DOMAIN mem' = DOMAIN mem \cup {f} /\ mem'[f].used = 0
        /\ \A g \in DOMAIN mem : mem'[g] = mem[g] /\ written'[g] = written[g]
    BY DEF Put, VfsInv
  <1>2. \A g \in DOMAIN mem : File'[g] = File[g]
    <2> TAKE g \in DOMAIN mem
    <2>1. g = MAIN => store' = store
      OBVIOUS
    <2> QED BY <2>1, <1>1, OtherFileSame
  <1>3. File'[f] = [i \in {} |-> hole]
    <2>1. File'[f] = [i \in 0 .. mem'[f].used - 1 |-> Block(f, i)']
      BY <1>1 DEF File
    <2>2. 0 .. mem'[f].used - 1 = {}
      BY <1>1
    <2> QED BY <2>1, <2>2
  <1> QED BY <1>1, <1>2, <1>3, FileStep

\* No file changes.
LEMMA FilesSame ==
    ASSUME UNCHANGED <<mem, written, store>>
    PROVE  File' = File
  BY DEF File, Block

\* A block is written: in the engine or in the file's buffer.
LEMMA WrittenFile ==
    ASSUME VfsInv, SizesAssumption, NEW f \in DOMAIN mem, NEW i \in Offsets, NEW d \in Data,
           NEW m, mem' = [mem EXCEPT ![f] = m], m.used = UsedAfter(f, i),
           written' = [written EXCEPT ![f] = @ \cup {i}],
           IF f = MAIN THEN store' = [store EXCEPT ![i] = d] /\ i \in PoolPages
           ELSE /\ store' = store
                /\ m.data[i + 1] = d
                /\ \A j \in 1 .. mem[f].used : m.data[j] = mem[f].data[j] \/ j = i + 1
    PROVE  File' = Disk!With(f, [j \in DOMAIN File[f] \cup 0 .. i |->
                                    IF j = i THEN d
                                    ELSE IF j \in DOMAIN File[f] THEN File[f][j]
                                    ELSE hole])
  <1> DEFINE u == mem[f].used
             blocks == [j \in DOMAIN File[f] \cup 0 .. i |->
                           IF j = i THEN d
                           ELSE IF j \in DOMAIN File[f] THEN File[f][j] ELSE hole]
  <1>1. u \in Nat /\ i \in Nat /\ FileInv(f) /\ written[f] \subseteq 0 .. u - 1
    BY FilesAssumption DEF VfsInv, FileInv, Offsets
  <1>2. /\ DOMAIN mem' = DOMAIN mem /\ DOMAIN mem = DOMAIN mem \cup {f}
        /\ mem'[f] = m /\ written'[f] = written[f] \cup {i}
        /\ \A g \in DOMAIN mem \ {f} : mem'[g] = mem[g] /\ written'[g] = written[g]
    BY DEF VfsInv
  <1>3. 0 .. mem'[f].used - 1 = DOMAIN File[f] \cup 0 .. i
    BY <1>1, <1>2, FileFacts DEF UsedAfter, MAX
  <1>4. ASSUME NEW j \in 0 .. mem'[f].used - 1
        PROVE  Block(f, j)' = blocks[j]
    <2>1. blocks[j] = IF j = i THEN d ELSE IF j \in 0 .. u - 1 THEN Block(f, j) ELSE hole
      BY <1>3, FileFacts
    <2>2. CASE j = i
      BY <2>1, <2>2, <1>1, <1>2 DEF Block, VfsInv, StoreTypeOK
    <2>3. CASE j # i /\ j \in 0 .. u - 1
      <3>1. j \in written'[f] <=> j \in written[f]
        BY <2>3, <1>2
      <3>2. f = MAIN => store'[j] = store[j]
        <4>1. f = MAIN => u <= vmem_max
          BY <1>1, PoolSize DEF FileInv
        <4>2. f = MAIN => j \in PoolPages
          BY <4>1, <2>3, <1>1, PoolSize
        <4> QED BY <4>2, <2>3 DEF VfsInv, StoreTypeOK
      <3>3. f # MAIN => m.data[j + 1] = mem[f].data[j + 1]
        BY <2>3, <1>1
      <3> QED BY <2>1, <2>3, <3>1, <3>2, <3>3, <1>2 DEF Block
    <2>4. CASE j # i /\ j \notin 0 .. u - 1
      BY <2>1, <2>4, <1>1, <1>2 DEF Block
    <2> QED BY <2>2, <2>3, <2>4
  <1>5. File'[f] = blocks
    <2>1. File'[f] = [j \in 0 .. mem'[f].used - 1 |-> Block(f, j)']
      BY <1>2 DEF File
    <2> QED BY <2>1, <1>3, <1>4
  <1>6. \A g \in DOMAIN mem \ {f} : File'[g] = File[g]
    <2> TAKE g \in DOMAIN mem \ {f}
    <2>1. g = MAIN => store' = store
      OBVIOUS
    <2> QED BY <2>1, <1>2, OtherFileSame
  <1> QED BY <1>2, <1>5, <1>6, FileStep

--------------------------------------------------------------------------------
(* The calls, one lemma each: the invariant holds after it, and it is a step of *)
(* the files, or leaves them as they are.                                       *)

Implemented == Disk!FilesNext \/ UNCHANGED Disk!filesVars

LEMMA OpenDbImplements ==
    ASSUME VfsInv, SizesAssumption, sgxvfs_open_db
    PROVE  VfsInv' /\ Implemented
  <1> USE DEF sgxvfs_open_db
  <1>1. StoreTypeOK'
    BY DEF StoreReset, SizesAssumption, StoreTypeOK, VfsInv
  <1>2. MAIN \in Files \ DOMAIN mem
    BY DEF Files
  <1>3. VfsInv'
    BY <1>1, <1>2, NewFileKeeps
  <1>4. File' = Disk!With(MAIN, [i \in {} |-> hole])
    BY <1>2, NewFileStep
  <1>5. Disk!Open(MAIN)
    BY <1>2, <1>4 DEF Disk!Open, File, StoreReset
  <1> QED BY <1>2, <1>3, <1>5 DEF Implemented, Disk!FilesNext

LEMMA OpenTempImplements ==
    ASSUME VfsInv, SizesAssumption, NEW f \in TempFiles, sgxvfsOpenTemp(f)
    PROVE  VfsInv' /\ Implemented
  <1> USE DEF sgxvfsOpenTemp
  <1>1. StoreTypeOK' /\ touched' = touched /\ store' = store /\ buf' = buf
    BY DEF storeVars, StoreTypeOK, VfsInv
  <1>2. f \in Files \ DOMAIN mem
    BY DEF Files
  <1>3. VfsInv'
    BY <1>1, <1>2, NewFileKeeps
  <1>4. File' = Disk!With(f, [i \in {} |-> hole])
    BY <1>1, <1>2, NewFileStep
  <1>5. Disk!Open(f)
    BY <1>1, <1>2, <1>4 DEF Disk!Open, File
  <1> QED BY <1>2, <1>3, <1>5 DEF Implemented, Disk!FilesNext

LEMMA CloseImplements ==
    ASSUME VfsInv, NEW f \in DOMAIN mem, mem' = Remove(mem, f),
           written' = Remove(written, f), UNCHANGED storeVars, rc' = "OK"
    PROVE  VfsInv' /\ Implemented
  <1>1. VfsInv'
    BY ClosedFileKeeps
  <1>2. /\ DOMAIN mem' = DOMAIN mem \ {f} /\ store' = store /\ buf' = buf
        /\ \A g \in DOMAIN mem' : mem'[g] = mem[g] /\ written'[g] = written[g]
    BY DEF Remove, VfsInv, storeVars
  <1>3. \A g \in DOMAIN mem' : File'[g] = File[g]
    BY <1>2, OtherFileSame
  <1>4. File' = [g \in DOMAIN File \ {f} |-> File[g]]
    <2>1. File' = [g \in DOMAIN mem' |-> File'[g]] /\ DOMAIN File = DOMAIN mem
      BY DEF File
    <2> QED BY <2>1, <1>2, <1>3
  <1>5. Disk!Close(f) /\ f \in DOMAIN File
    BY <1>2, <1>4 DEF Disk!Close, File
  <1> QED BY <1>1, <1>5 DEF Implemented, Disk!FilesNext

LEMMA ReadImplements ==
    ASSUME VfsInv, SizesAssumption, NEW f \in DOMAIN mem, NEW i \in Offsets,
           sgxVmemRead(f, i)
    PROVE  VfsInv' /\ Implemented
  <1> USE DEF sgxVmemRead
  <1>1. /\ UNCHANGED <<mem, written>> /\ store' = store /\ touched \subseteq touched'
    BY DEF Read, ReadFails, storeVars
  <1>2. File' = File /\ f \in DOMAIN File /\ DOMAIN File[f] = 0 .. mem[f].used - 1
    BY <1>1, FilesSame, FileFacts
  <1>3. i \in Nat /\ FileInv(f) /\ mem[f].used \in Nat
    BY FilesAssumption DEF Offsets, VfsInv, FileInv
  <1>4. StoreTypeOK /\ rc \in {"OK", "SHORT_READ", "NOMEM"}
    BY DEF VfsInv
  <1>5. CASE i + 1 > mem[f].used /\ rc' = "SHORT_READ" /\ UNCHANGED storeVars
    <2>1. VfsInv'
      BY <1>1, <1>4, <1>5, SameFilesKeep DEF storeVars, StoreTypeOK
    <2>2. Disk!ShortRead(f, i)
      BY <1>2, <1>3, <1>5 DEF Disk!ShortRead, storeVars
    <2> QED BY <1>2, <2>1, <2>2 DEF Implemented, Disk!FilesNext
  <1>6. CASE /\ i + 1 <= mem[f].used /\ rc' = "OK"
             /\ IF f = MAIN THEN Read(i) ELSE buf' = mem[f].data[i + 1]
    <2>1. rc' = "OK" /\ i \in 0 .. mem[f].used - 1
      BY <1>3, <1>6
    <2>2. File[f][i] = Block(f, i)
      BY <2>1, FileFacts
    <2>3. buf' = IF f = MAIN THEN store[i] ELSE mem[f].data[i + 1]
      BY <1>3, <1>6 DEF Read
    <2>4. buf' \in Bytes
      <3>1. CASE f = MAIN
        <4>1. mem[f].used <= vmem_max
          BY <1>3, <3>1, PoolSize DEF FileInv
        <4>2. i \in PoolPages
          BY <1>3, <2>1, <4>1, PoolSize
        <4> QED BY <1>4, <2>3, <3>1, <4>2 DEF StoreTypeOK, Bytes
      <3>2. CASE f # MAIN
        <4>1. i + 1 \in 1 .. Len(mem[f].data)
          BY <1>3, <2>1, <3>2 DEF FileInv
        <4>2. mem[f].data \in Seq(Bytes)
          BY <1>3 DEF FileInv
        <4> QED BY <2>3, <3>2, <4>1, <4>2
      <3> QED BY <3>1, <3>2
    <2>5. VfsInv'
      BY <1>1, <1>4, <2>1, <2>4, SameFilesKeep DEF StoreTypeOK
    <2>6. buf' \in IF File[f][i] = hole THEN Bytes ELSE {File[f][i]}
      BY <2>2, <2>3, <2>4 DEF Block
    <2>7. Disk!ReadBlock(f, i)
      BY <1>2, <2>1, <2>6 DEF Disk!ReadBlock, Bytes
    <2> QED BY <1>2, <2>5, <2>7 DEF Implemented, Disk!FilesNext
  <1>7. CASE i + 1 <= mem[f].used /\ f = MAIN /\ ReadFails(i) /\ UNCHANGED rc
    <2>1. i \in 0 .. mem[f].used - 1 /\ i \notin written[f] /\ buf' \in Bytes
      BY <1>3, <1>7 DEF ReadFails, FileInv, Bytes
    <2>2. File[f][i] = hole
      BY <2>1, FileFacts DEF Block
    <2>3. VfsInv'
      BY <1>1, <1>4, <1>7, <2>1, SameFilesKeep DEF StoreTypeOK
    <2>4. Disk!Alarm(f, i)
      BY <1>2, <1>7, <2>1, <2>2 DEF Disk!Alarm, Bytes
    <2> QED BY <1>2, <2>3, <2>4 DEF Implemented, Disk!FilesNext
  <1> QED BY <1>5, <1>6, <1>7

LEMMA TruncateImplements ==
    ASSUME VfsInv, NEW f \in DOMAIN mem, NEW n \in Offsets, sgxVmemTruncate(f, n)
    PROVE  VfsInv' /\ Implemented
  <1> USE DEF sgxVmemTruncate
  <1> DEFINE m == [mem[f] EXCEPT !.used = TruncatedUsed(f, n)]
             w == written[f] \cap 0 .. n - 1
             blocks == [j \in DOMAIN File[f] \cap 0 .. n - 1 |-> File[f][j]]
  <1>1. n \in Nat /\ FileInv(f) /\ mem[f] \in [data : Seq(Bytes), used : Nat, total : Nat]
    BY FilesAssumption DEF Offsets, VfsInv, FileInv
  <1>2. TruncatedUsed(f, n) \in Nat /\ TruncatedUsed(f, n) <= mem[f].used
        /\ TruncatedUsed(f, n) = IF mem[f].used < n THEN mem[f].used ELSE n
    BY <1>1 DEF TruncatedUsed, MIN
  <1>3. /\ m \in [data : Seq(Bytes), used : Nat, total : Nat]
        /\ m.used = TruncatedUsed(f, n) /\ m.total = mem[f].total /\ m.data = mem[f].data
    BY <1>1, <1>2
  <1>4. mem' = [mem EXCEPT ![f] = m] /\ written' = [written EXCEPT ![f] = w]
    OBVIOUS
  <1>5. StoreTypeOK' /\ touched' = touched /\ store' = store /\ buf' = buf
    BY DEF storeVars, VfsInv, StoreTypeOK
  <1>6. VfsInv'
    <2>1. w \subseteq 0 .. m.used - 1
      BY <1>1, <1>2, <1>3 DEF FileInv
    <2>2. m.used <= m.total
      BY <1>1, <1>2, <1>3 DEF FileInv
    <2>3. f # MAIN => Len(m.data) = m.total
      BY <1>1, <1>3 DEF FileInv
    <2>4. f = MAIN => m.total \in {0, vmem_max} /\ w \subseteq touched'
      BY <1>1, <1>3, <1>5 DEF FileInv
    <2> HIDE DEF m, w
    <2> QED BY <1>3, <1>4, <1>5, <2>1, <2>2, <2>3, <2>4, ChangedFileKeeps
  <1>7. /\ DOMAIN mem' = DOMAIN mem \cup {f} /\ mem'[f] = m /\ written'[f] = w
        /\ \A g \in DOMAIN mem \ {f} : g \in DOMAIN mem' /\ mem'[g] = mem[g]
                                       /\ written'[g] = written[g]
    BY <1>4 DEF VfsInv
  <1>8. File'[f] = blocks
    <2>1. File'[f] = [j \in 0 .. mem'[f].used - 1 |-> Block(f, j)']
      BY <1>7 DEF File
    <2>2. 0 .. mem'[f].used - 1 = DOMAIN File[f] \cap 0 .. n - 1
      <3>1. 0 .. TruncatedUsed(f, n) - 1 = (0 .. mem[f].used - 1) \cap 0 .. n - 1
        BY <1>1, <1>2
      <3> QED BY <1>3, <1>7, <3>1, FileFacts
    <2>3. ASSUME NEW j \in DOMAIN File[f] \cap 0 .. n - 1
          PROVE  Block(f, j)' = File[f][j]
      <3>1. File[f][j] = Block(f, j)
        BY FileFacts
      <3>2. j \in written'[f] <=> j \in written[f]
        BY <1>7
      <3>3. mem'[f].data = mem[f].data
        BY <1>3, <1>7
      <3> QED BY <1>5, <3>1, <3>2, <3>3 DEF Block
    <2> QED BY <2>1, <2>2, <2>3
  <1>9. File' = Disk!With(f, blocks)
    <2>1. \A g \in DOMAIN mem \ {f} : File'[g] = File[g]
      BY <1>5, <1>7, OtherFileSame
    <2> QED BY <1>7, <1>8, <2>1, FileStep
  <1>10. Disk!Truncate(f, n) /\ f \in DOMAIN File
    BY <1>5, <1>9, FileFacts DEF Disk!Truncate
  <1> QED BY <1>6, <1>10 DEF Implemented, Disk!FilesNext

LEMMA WriteMainImplements ==
    ASSUME VfsInv, SizesAssumption, MAIN \in DOMAIN mem, NEW i \in Offsets, NEW d \in Data,
           WriteMain(i, d)
    PROVE  VfsInv' /\ Implemented
  <1>1. CASE i \in PoolPages /\ Write(i, d) /\ Finish(MAIN, i, vmem_max, << >>)
        /\ (mem[MAIN].total = 0 \/ i + 1 <= mem[MAIN].total)
    <2> DEFINE m == [data |-> << >>, total |-> vmem_max, used |-> UsedAfter(MAIN, i)]
               w == written[MAIN] \cup {i}
    <2>1. i \in Nat /\ i < vmem_max /\ vmem_max \in Nat /\ FileInv(MAIN)
      BY <1>1, PoolSize DEF VfsInv
    <2>2. mem[MAIN].used \in Nat /\ mem[MAIN].used <= vmem_max
      BY <2>1, PoolSize DEF FileInv
    <2>3. /\ UsedAfter(MAIN, i) \in Nat /\ UsedAfter(MAIN, i) <= vmem_max
          /\ i < UsedAfter(MAIN, i) /\ mem[MAIN].used <= UsedAfter(MAIN, i)
      BY <2>1, <2>2 DEF UsedAfter, MAX
    <2>4. << >> \in Seq(Bytes)
      OBVIOUS
    <2>5. m \in [data : Seq(Bytes), used : Nat, total : Nat]
          /\ m.used = UsedAfter(MAIN, i) /\ m.total = vmem_max
      BY <2>1, <2>3, <2>4
    <2>6. mem' = [mem EXCEPT ![MAIN] = m] /\ written' = [written EXCEPT ![MAIN] = w] /\ rc' = "OK"
      BY <1>1 DEF Finish
    <2>7. StoreTypeOK' /\ touched \subseteq touched' /\ i \in touched' /\ buf' = buf
          /\ store' = [store EXCEPT ![i] = d]
      BY <1>1 DEF Write, VfsInv, StoreTypeOK
    <2>8. VfsInv'
      <3>1. w \subseteq 0 .. m.used - 1
        BY <2>1, <2>2, <2>3, <2>5 DEF FileInv
      <3>2. w \subseteq touched'
        BY <2>1, <2>7 DEF FileInv
      <3>3. m.used <= m.total /\ m.total \in {0, vmem_max}
        BY <2>3, <2>5
      <3> HIDE DEF m, w
      <3> QED BY <2>5, <2>6, <2>7, <3>1, <3>2, <3>3, ChangedFileKeeps
    <2>9. Disk!WriteBlock(MAIN, i, d)
      <3>1. written' = [written EXCEPT ![MAIN] = @ \cup {i}]
        BY <2>6
      <3> HIDE DEF m, w
      <3> QED BY <1>1, <2>5, <2>6, <2>7, <3>1, WrittenFile DEF Disk!WriteBlock
    <2> QED BY <2>8, <2>9, FileFacts DEF Implemented, Disk!FilesNext
  <1>2. CASE UNCHANGED <<store, touched, buf, vfsVars>>
    <2>1. VfsInv'
      BY <1>2, SameFilesKeep DEF vfsVars, VfsInv, StoreTypeOK
    <2>2. File' = File
      BY <1>2, FilesSame DEF vfsVars
    <2>3. UNCHANGED Disk!filesVars
      BY <1>2, <2>2 DEF vfsVars, Disk!filesVars
    <2> QED BY <2>1, <2>3 DEF Implemented
  <1> QED BY <1>1, <1>2 DEF WriteMain

LEMMA WriteTempImplements ==
    ASSUME VfsInv, SizesAssumption, NEW f \in DOMAIN mem, f # MAIN, NEW i \in Offsets,
           NEW d \in Data, WriteTemp(f, i, d)
    PROVE  VfsInv' /\ Implemented
  <1>1. i \in Nat /\ FileInv(f) /\ mem[f].used \in Nat /\ mem[f].total \in Nat
        /\ mem[f].data \in Seq(Bytes) /\ d \in Bytes /\ junk \in Bytes
        /\ Len(mem[f].data) = mem[f].total /\ mem[f].used <= mem[f].total
    BY FilesAssumption DEF Offsets, VfsInv, FileInv, Bytes
  <1>2. StoreTypeOK' /\ store' = store /\ buf' = buf /\ touched' = touched
    BY DEF WriteTemp, storeVars, VfsInv, StoreTypeOK
  \* A write that finishes leaves a buffer that covers the file.
  <1>3. ASSUME NEW total \in Nat, NEW data \in Seq(Bytes), i + 1 <= total,
               mem[f].total <= total, Len(data) = total, data[i + 1] = d,
               \A j \in 1 .. mem[f].used : data[j] = mem[f].data[j] \/ j = i + 1,
               Finish(f, i, total, data)
        PROVE  VfsInv' /\ Implemented
    <2> DEFINE m == [data |-> data, total |-> total, used |-> UsedAfter(f, i)]
               w == written[f] \cup {i}
    <2>1. /\ UsedAfter(f, i) \in Nat /\ UsedAfter(f, i) <= total
          /\ i < UsedAfter(f, i) /\ mem[f].used <= UsedAfter(f, i)
      BY <1>1, <1>3 DEF UsedAfter, MAX
    <2>2. m \in [data : Seq(Bytes), used : Nat, total : Nat]
          /\ m.used = UsedAfter(f, i) /\ m.total = total /\ m.data = data
      BY <1>3, <2>1
    <2>3. mem' = [mem EXCEPT ![f] = m] /\ written' = [written EXCEPT ![f] = w] /\ rc' = "OK"
      BY <1>3 DEF Finish
    <2>4. VfsInv'
      <3>1. w \subseteq 0 .. m.used - 1
        BY <1>1, <2>1, <2>2 DEF FileInv
      <3>2. m.used <= m.total /\ Len(m.data) = m.total
        BY <1>3, <2>1, <2>2
      <3> HIDE DEF m, w
      <3> QED BY <1>2, <2>2, <2>3, <3>1, <3>2, ChangedFileKeeps
    <2>5. Disk!WriteBlock(f, i, d)
      <3>1. written' = [written EXCEPT ![f] = @ \cup {i}]
        BY <2>3
      <3>2. m.data[i + 1] = d
            /\ \A j \in 1 .. mem[f].used : m.data[j] = mem[f].data[j] \/ j = i + 1
        BY <1>3, <2>2
      <3> HIDE DEF m, w
      <3> DEFINE grown == [j \in DOMAIN File[f] \cup 0 .. i |->
                             IF j = i THEN d ELSE IF j \in DOMAIN File[f] THEN File[f][j] ELSE hole]
      <3>3. File' = Disk!With(f, grown)
        BY <1>2, <2>2, <2>3, <3>1, <3>2, WrittenFile
      <3>4. rc' = "OK"
        BY <2>3
      <3> QED BY <1>2, <3>3, <3>4 DEF Disk!WriteBlock
    <2> QED BY <2>4, <2>5, FileFacts DEF Implemented, Disk!FilesNext, Bytes
  <1>4. CASE i + 1 <= mem[f].total /\ Finish(f, i, mem[f].total, [mem[f].data EXCEPT ![i + 1] = d])
    <2> DEFINE data == [mem[f].data EXCEPT ![i + 1] = d]
    <2>1. data \in Seq(Bytes) /\ Len(data) = mem[f].total
      BY <1>1, <1>4
    <2>2. data[i + 1] = d
          /\ \A j \in 1 .. mem[f].used : data[j] = mem[f].data[j] \/ j = i + 1
      BY <1>1, <1>4
    <2>3. Finish(f, i, mem[f].total, data)
      BY <1>4
    <2>4. mem[f].total \in Nat /\ i + 1 <= mem[f].total /\ mem[f].total <= mem[f].total
      BY <1>1, <1>4
    <2> HIDE DEF data
    <2> QED BY <1>3, <2>1, <2>2, <2>3, <2>4
  <1>5. CASE /\ i + 1 > mem[f].total
             /\ Finish(f, i, newTotal(f, i), [Realloc(mem[f].data, newTotal(f, i)) EXCEPT ![i + 1] = d])
    <2> DEFINE n == newTotal(f, i)
               data == [Realloc(mem[f].data, n) EXCEPT ![i + 1] = d]
    <2>1. n \in Nat /\ n >= i + 1
      BY <1>5, NewTotalFacts
    <2> HIDE DEF n
    <2>2. /\ Realloc(mem[f].data, n) \in [1 .. n -> Bytes]
          /\ \A j \in 1 .. mem[f].used : Realloc(mem[f].data, n)[j] = mem[f].data[j]
      BY <1>1, <1>5, <2>1 DEF Realloc
    <2>3. data \in [1 .. n -> Bytes] /\ i + 1 \in 1 .. n
      BY <1>1, <2>1, <2>2
    <2>4. data \in Seq(Bytes) /\ Len(data) = n
      <3> HIDE DEF data
      <3>1. \A k \in Nat : \A s \in [1 .. k -> Bytes] : s \in Seq(Bytes) /\ Len(s) = k
        OBVIOUS
      <3> QED BY <2>1, <2>3, <3>1
    <2>5. data[i + 1] = d
          /\ \A j \in 1 .. mem[f].used : data[j] = mem[f].data[j] \/ j = i + 1
      BY <1>1, <1>5, <2>1, <2>2, <2>3
    <2>6. Finish(f, i, n, data)
      BY <1>5 DEF n
    <2> HIDE DEF data
    <2> QED BY <1>1, <1>3, <1>5, <2>1, <2>4, <2>5, <2>6
  <1>6. CASE rc' = "NOMEM" /\ UNCHANGED <<mem, written>>
    <2>1. VfsInv'
      BY <1>2, <1>6, SameFilesKeep
    <2>2. Disk!WriteFails
      BY <1>2, <1>6, FilesSame DEF Disk!WriteFails
    <2> QED BY <2>1, <2>2 DEF Implemented, Disk!FilesNext
  <1> QED BY <1>4, <1>5, <1>6 DEF WriteTemp

LEMMA FetchImplements ==
    ASSUME VfsInv, (\E i \in Offsets : sgxVmemFetch(i)) \/ sgxVmemUnfetch
    PROVE  VfsInv' /\ Implemented
  <1> USE DEF sgxVmemFetch, sgxVmemUnfetch, Touch, ReleaseFails, storeVars
  <1>1. /\ UNCHANGED <<mem, written, store, buf>> /\ touched \subseteq touched'
        /\ rc' = "OK" \/ rc' = rc
    OBVIOUS
  <1>2. VfsInv'
    BY <1>1, SameFilesKeep DEF VfsInv, StoreTypeOK
  <1>3. File' = File
    BY <1>1, FilesSame
  <1>4. Disk!Others \/ UNCHANGED Disk!filesVars
    BY <1>1, <1>3 DEF Disk!Others, Disk!filesVars
  <1> QED BY <1>2, <1>4 DEF Implemented, Disk!FilesNext

--------------------------------------------------------------------------------
LEMMA InitImplements ==
    ASSUME VfsInit, SizesAssumption
    PROVE  VfsInv /\ Disk!FilesInit
  <1> USE DEF VfsInit
  <1>1. StoreTypeOK
    BY DEF StoreInit, SizesAssumption, StoreTypeOK, Bytes
  <1>2. File \in [{} -> {}]
    BY DEF File
  <1> QED BY <1>1, <1>2 DEF VfsInv, Disk!FilesInit, StoreTypeOK, Bytes

LEMMA StepImplements ==
    ASSUME VfsInv, SizesAssumption, [VfsNext]_vars
    PROVE  VfsInv' /\ Implemented
  <1>1. CASE sgxvfs_open_db
    BY <1>1, OpenDbImplements
  <1>2. CASE sgxvfs_close_db
    BY <1>2, CloseImplements DEF sgxvfs_close_db
  <1>3. CASE \E f \in TempFiles : sgxvfsOpenTemp(f) \/ sgxVmemClose(f)
    BY <1>3, OpenTempImplements, CloseImplements DEF sgxVmemClose
  <1>4. ASSUME NEW f \in DOMAIN mem, NEW i \in Offsets,
               \/ sgxVmemRead(f, i) \/ sgxVmemTruncate(f, i)
               \/ \E d \in Data : sgxVmemWrite(f, i, d)
        PROVE  VfsInv' /\ Implemented
    BY <1>4, ReadImplements, TruncateImplements, WriteMainImplements, WriteTempImplements
       DEF sgxVmemWrite
  <1>5. CASE \E i \in Offsets : sgxVmemFetch(i)
    BY <1>5, FetchImplements
  <1>6. CASE sgxVmemUnfetch
    BY <1>6, FetchImplements
  <1>7. CASE UNCHANGED vars
    <2>1. UNCHANGED <<mem, written, store, touched, buf, rc>>
      BY <1>7 DEF vars, vfsVars, storeVars
    <2>2. VfsInv'
      BY <2>1, SameFilesKeep DEF VfsInv, StoreTypeOK
    <2> QED BY <2>1, <2>2, FilesSame DEF Implemented, Disk!filesVars
  <1> QED BY <1>1, <1>2, <1>3, <1>4, <1>5, <1>6, <1>7 DEF VfsNext

\* The inductive invariant holds of every open file, however many there are
\* and however they grow (sgxvfs.c:96-212, 295-323, 569-643).
THEOREM VfsSpecInv ==
    ASSUME SizesAssumption
    PROVE  VfsSpec => []VfsInv
  <1>1. VfsInit => VfsInv
    BY InitImplements
  <1>2. VfsInv /\ [VfsNext]_vars => VfsInv'
    BY StepImplements
  <1> QED BY <1>1, <1>2, PTL DEF VfsSpec

\* Every size of a file stays a number of blocks that exist, and only blocks
\* below its end count as written (sgxvfs.c:96-212).
THEOREM SpecVfsTypeOK ==
    ASSUME SizesAssumption
    PROVE  VfsSpec => []VfsTypeOK
  BY VfsSpecInv, VfsInvTypeOK, PTL

\* A file never ends beyond its heap buffer, nor the database beyond the pool
\* (sgxvfs.c:151-186).
THEOREM SpecBufferCoversFile ==
    ASSUME SizesAssumption
    PROVE  VfsSpec => []BufferCoversFile
  BY VfsSpecInv, VfsInvCovers, PTL

\* The engine's pages and the heap's buffers are, to the pager, files: a block
\* reads as last written, a file is as long as its highest write unless
\* truncated, a failed write changes nothing, and only the read of a block
\* nobody wrote can stop the program (sgxvfs.c:96-212, 295-323).
THEOREM SpecImplementsSqliteFiles ==
    ASSUME SizesAssumption
    PROVE  VfsSpec => ImplementsSqliteFiles
  <1>1. VfsInit => Disk!FilesInit
    BY InitImplements
  <1>2. VfsInv /\ [VfsNext]_vars => [Disk!FilesNext]_(Disk!filesVars)
    BY StepImplements DEF Implemented
  <1> QED BY <1>1, <1>2, VfsSpecInv, PTL DEF VfsSpec, ImplementsSqliteFiles, Disk!FilesSpec

--------------------------------------------------------------------------------
(* Opening and closing databases. *)

\* sgxvfs_env_fini unregisters the file system that opendb_vnl relies on, but
\* SQLite stays initialized; App.cpp runs the database in memory first.
MemoryFirst(programs) ==
    \A i, j \in 1 .. Len(programs) :
        i < j /\ programs[i] = "sgx" => programs[j] # "memory"

BuildsAssumption ==
    /\ \A b \in Builds : b \in Seq(Programs) /\ b # << >> /\ MemoryFirst(b)
    /\ NULL \notin Buffers

BufferStates == {"unused", "live", "freed", "freed twice"}
States == {"none", "memory", "opening", "opened", "open", "oom", "no vfs"}

LifecycleTypeOK ==
    /\ todo \in Seq(Programs)
    /\ isInit \in BOOLEAN /\ vfsList \in BOOLEAN /\ env \in BOOLEAN
    /\ head \in Seq(Buffers)
    /\ buffer \in [Buffers -> BufferStates]
    /\ sdb.mem \in Buffers \cup {NULL}
    /\ db \in [state : States, mem : Buffers \cup {NULL}]
    /\ sector_size \in 0 .. 1

\* Who owns a buffer at each stage of an open.
Ownership ==
    /\ db.state \in {"none", "memory", "opening", "oom", "no vfs"} => db.mem = NULL
    /\ db.state = "opening" => head = <<engine>> /\ engine \in Buffers
    /\ db.state \in {"opening", "opened"} => sdb.mem = NULL
    /\ db.state \in {"opened", "open"} => db.mem \in Buffers /\ engine = db.mem
    /\ db.state = "open" => sdb.mem = db.mem

\* When the file system is registered: with SQLite initialized it is missing
\* only after a program with a database in the engine has ended.
Registration ==
    /\ db.state \in {"none", "memory", "opened", "open"} /\ env => vfsList
    /\ db.state = "opening" => env /\ (isInit => vfsList)
    /\ db.state \in {"opened", "open"} => env /\ isInit /\ sector_size = 1
    /\ db.state \in {"opening", "opened", "open"} => Running("sgx") \/ Running("speedtest")
    /\ db.state = "memory" => vfsList /\ Running("memory")
    /\ db.state \in {"none", "memory"} /\ isInit /\ ~vfsList =>
          \A i \in 1 .. Len(todo) : todo[i] # "memory"
    /\ MemoryFirst(todo)

\* The inductive invariant.
LifecycleInv ==
    /\ LifecycleTypeOK
    /\ Ownership
    /\ Registration
    /\ BuffersFreedOnce
    /\ OpenDatabaseUsable

--------------------------------------------------------------------------------
LEMMA EmptyList == << >> \in Seq(Buffers) /\ DOMAIN << >> = {}
  OBVIOUS

LEMMA TodoFirst ==
    ASSUME LifecycleInv, todo # << >>
    PROVE  /\ todo \in Seq(Programs) /\ MemoryFirst(todo)
           /\ 1 \in 1 .. Len(todo) /\ todo[1] = Head(todo) /\ Head(todo) \in Programs
  <1>1. todo \in Seq(Programs) /\ MemoryFirst(todo)
    BY DEF LifecycleInv, LifecycleTypeOK, Registration
  <1>2. Len(todo) \in Nat \ {0} /\ Head(todo) = todo[1] /\ Head(todo) \in Programs
    BY <1>1
  <1> QED BY <1>1, <1>2

LEMMA TodoTail ==
    ASSUME LifecycleInv, todo # << >>
    PROVE  /\ Tail(todo) \in Seq(Programs) /\ MemoryFirst(Tail(todo))
           /\ Head(todo) \in Programs
           /\ \A i \in 1 .. Len(Tail(todo)) :
                 /\ i + 1 \in 1 .. Len(todo) /\ Tail(todo)[i] = todo[i + 1]
                 /\ Head(todo) = "sgx" => Tail(todo)[i] # "memory"
  <1>1. todo \in Seq(Programs) /\ MemoryFirst(todo)
    BY DEF LifecycleInv, LifecycleTypeOK, Registration
  <1>2. /\ Tail(todo) \in Seq(Programs) /\ Head(todo) \in Programs
        /\ Len(Tail(todo)) = Len(todo) - 1 /\ Len(todo) \in Nat \ {0}
        /\ Head(todo) = todo[1]
        /\ \A i \in 1 .. Len(Tail(todo)) : Tail(todo)[i] = todo[i + 1]
    BY <1>1
  <1>3. \A i \in 1 .. Len(Tail(todo)) : i + 1 \in 1 .. Len(todo)
    BY <1>2
  <1>4. MemoryFirst(Tail(todo))
    <2> SUFFICES ASSUME NEW i \in 1 .. Len(Tail(todo)), NEW j \in 1 .. Len(Tail(todo)),
                        i < j, Tail(todo)[i] = "sgx"
                 PROVE  Tail(todo)[j] # "memory"
      BY DEF MemoryFirst
    <2> QED BY <1>1, <1>2, <1>3 DEF MemoryFirst
  <1>5. ASSUME NEW i \in 1 .. Len(Tail(todo)), Head(todo) = "sgx"
        PROVE  Tail(todo)[i] # "memory"
    <2>1. 1 \in 1 .. Len(todo) /\ 1 < i + 1
      BY <1>2
    <2> QED BY <2>1, <1>1, <1>2, <1>3, <1>5 DEF MemoryFirst
  <1> QED BY <1>2, <1>3, <1>4, <1>5

\* The next program, or the next round of this one.
LEMMA NextRoundFacts ==
    ASSUME LifecycleInv, todo # << >>, NextRound
    PROVE  /\ todo' \in Seq(Programs) /\ MemoryFirst(todo')
           /\ (\A i \in 1 .. Len(todo) : todo[i] # "memory")
                 => \A i \in 1 .. Len(todo') : todo'[i] # "memory"
           /\ Head(todo) = "sgx" => \A i \in 1 .. Len(todo') : todo'[i] # "memory"
  <1>1. todo \in Seq(Programs) /\ MemoryFirst(todo)
        /\ 1 \in 1 .. Len(todo) /\ todo[1] = Head(todo)
    BY TodoFirst
  <1>2. CASE todo' = todo
    <2>1. Head(todo) = "sgx" => \A i \in 1 .. Len(todo) : todo[i] # "memory"
      BY <1>1 DEF MemoryFirst
    <2> QED BY <1>1, <1>2, <2>1
  <1>3. CASE todo' = Tail(todo)
    BY <1>3, TodoTail
  <1> QED BY <1>2, <1>3 DEF NextRound

--------------------------------------------------------------------------------
(* One lemma per action. *)

LEMMA OpenVnlKeeps ==
    ASSUME LifecycleInv, opendb_vnl
    PROVE  LifecycleInv'
  <1>1. db.state = "none" /\ Running("memory") /\ db.mem = NULL
        /\ UNCHANGED <<todo, head, buffer, sdb, sector_size, engine>>
    BY DEF opendb_vnl, LifecycleInv, Ownership
  <1>2. isInit => vfsList
    <2>1. 1 \in 1 .. Len(todo) /\ todo[1] = "memory"
      BY <1>1, TodoFirst DEF Running
    <2> QED BY <1>1, <2>1 DEF LifecycleInv, Registration
  <1>3. /\ isInit' \in BOOLEAN /\ vfsList' \in BOOLEAN /\ env' \in BOOLEAN
        /\ db' \in {[state |-> "memory", mem |-> NULL], [state |-> "oom", mem |-> NULL]}
        /\ db'.state = "memory" => vfsList'
    BY <1>1, <1>2
    DEF opendb_vnl, sgxvfs_env_init, Stop, NoDb, LifecycleInv, LifecycleTypeOK, Registration
  <1>4. db'.mem = NULL /\ db'.state \in {"memory", "oom"} /\ (db'.state = "memory" => vfsList')
    BY <1>3
  <1>5. LifecycleTypeOK'
    <2>1. PICK s \in States : db' = [state |-> s, mem |-> NULL]
      BY <1>3 DEF States
    <2>2. db' \in [state : States, mem : Buffers \cup {NULL}]
      BY <2>1
    <2> QED BY <1>1, <1>3, <2>2 DEF LifecycleInv, LifecycleTypeOK
  <1>6. Ownership'
    BY <1>4 DEF Ownership
  <1>7. Registration'
    BY <1>1, <1>4 DEF Registration, Running, LifecycleInv
  <1>8. BuffersFreedOnce' /\ OpenDatabaseUsable'
    BY <1>1, <1>4 DEF BuffersFreedOnce, OpenDatabaseUsable, LifecycleInv
  <1> QED BY <1>5, <1>6, <1>7, <1>8 DEF LifecycleInv

LEMMA CloseVnlKeeps ==
    ASSUME LifecycleInv, closedb_vnl
    PROVE  LifecycleInv'
  <1>1. db.state = "memory" /\ vfsList /\ db.mem = NULL /\ todo # << >> /\ NextRound
        /\ db' = [state |-> "none", mem |-> NULL]
        /\ UNCHANGED <<isInit, vfsList, env, head, buffer, sdb, sector_size, engine>>
    BY DEF closedb_vnl, NoDb, Running, LifecycleInv, Registration, Ownership
  <1>2. todo' \in Seq(Programs) /\ MemoryFirst(todo')
    BY <1>1, NextRoundFacts
  <1>3. LifecycleTypeOK'
    BY <1>1, <1>2 DEF LifecycleInv, LifecycleTypeOK, States
  <1>4. Ownership' /\ Registration'
    BY <1>1, <1>2 DEF Ownership, Registration
  <1>5. BuffersFreedOnce' /\ OpenDatabaseUsable'
    BY <1>1 DEF BuffersFreedOnce, OpenDatabaseUsable, LifecycleInv
  <1> QED BY <1>3, <1>4, <1>5 DEF LifecycleInv

LEMMA OpenSgxKeeps ==
    ASSUME LifecycleInv, BuildsAssumption, opendb_sgx
    PROVE  LifecycleInv'
  <1>1. PICK block \in Buffers :
           /\ buffer[block] = "unused"
           /\ buffer' = [buffer EXCEPT ![block] = "live"]
           /\ head' = <<block>> \o head
           /\ engine' = block
    BY DEF opendb_sgx
  <1>2. db.state = "none" /\ db.mem = NULL /\ head = << >>
    BY DEF opendb_sgx, LifecycleInv, Ownership, BuffersFreedOnce
  <1>3. head' = <<block>>
    BY <1>1, <1>2
  <1>4. /\ sdb'.mem = NULL /\ db' = [state |-> "opening", mem |-> NULL]
        /\ UNCHANGED <<todo, sector_size>>
        /\ Running("sgx") \/ Running("speedtest")
    BY DEF opendb_sgx, NoDb, NoHandle
  <1>5. env' /\ env' \in BOOLEAN /\ isInit' \in BOOLEAN /\ vfsList' \in BOOLEAN
        /\ (isInit' => vfsList')
    <2>1. PICK initialized \in {TRUE, isInit} : sgxvfs_env_init(initialized)
      BY DEF opendb_sgx
    <2>2. isInit \in BOOLEAN /\ vfsList \in BOOLEAN /\ env \in BOOLEAN /\ (env => vfsList)
      BY <1>2 DEF LifecycleInv, LifecycleTypeOK, Registration
    <2> QED BY <2>1, <2>2 DEF sgxvfs_env_init
  <1>6. LifecycleTypeOK'
    <2>1. db' \in [state : States, mem : Buffers \cup {NULL}]
      BY <1>4 DEF States
    <2>2. head' \in Seq(Buffers)
      BY <1>3
    <2>3. buffer' \in [Buffers -> BufferStates]
      BY <1>1 DEF LifecycleInv, LifecycleTypeOK, BufferStates
    <2> QED BY <1>4, <1>5, <2>1, <2>2, <2>3 DEF LifecycleInv, LifecycleTypeOK
  <1>7. Ownership' /\ Registration'
    BY <1>1, <1>3, <1>4, <1>5 DEF Ownership, Registration, Running, LifecycleInv
  <1>8. BuffersFreedOnce'
    <2>1. \A b \in Buffers : buffer'[b] = IF b = block THEN "live" ELSE buffer[b]
      BY <1>1 DEF LifecycleInv, LifecycleTypeOK
    <2>2. \A b \in Buffers : buffer'[b] # "freed twice"
      BY <2>1 DEF LifecycleInv, BuffersFreedOnce
    <2>3. DOMAIN head' = {1} /\ head'[1] = block
      BY <1>3
    <2> QED BY <2>1, <2>2, <2>3, <1>4 DEF BuffersFreedOnce
  <1>9. OpenDatabaseUsable'
    BY <1>4 DEF OpenDatabaseUsable
  <1> QED BY <1>6, <1>7, <1>8, <1>9 DEF LifecycleInv

LEMMA OpenFileKeeps ==
    ASSUME LifecycleInv, BuildsAssumption, sgxvfsOpen
    PROVE  LifecycleInv'
  <1>1. /\ db.state = "opening" /\ vfsList /\ isInit /\ env
        /\ head = <<engine>> /\ engine \in Buffers /\ sdb.mem = NULL
        /\ Running("sgx") \/ Running("speedtest")
    BY DEF sgxvfsOpen, LifecycleInv, Ownership, Registration
  <1>2. /\ db' = [state |-> "opened", mem |-> engine] /\ head' = << >> /\ sector_size' = 1
        /\ UNCHANGED <<todo, rounds, isInit, vfsList, env, buffer, sdb, engine>>
    BY <1>1 DEF sgxvfsOpen, Rest
  <1>3. LifecycleTypeOK'
    <2>1. db' \in [state : States, mem : Buffers \cup {NULL}]
      BY <1>1, <1>2 DEF States
    <2>2. sector_size' \in 0 .. 1 /\ head' \in Seq(Buffers)
      BY <1>2, EmptyList
    <2> QED BY <1>2, <2>1, <2>2 DEF LifecycleInv, LifecycleTypeOK
  <1>4. Ownership' /\ Registration'
    BY <1>1, <1>2 DEF Ownership, Registration, Running, LifecycleInv
  <1>5. BuffersFreedOnce'
    <2>1. 1 \in DOMAIN head /\ head[1] = engine
      BY <1>1
    <2>2. buffer[engine] = "live"
      BY <2>1 DEF LifecycleInv, BuffersFreedOnce
    <2>3. /\ \A b \in Buffers : buffer'[b] # "freed twice"
          /\ DOMAIN head' = {} /\ sdb'.mem = NULL /\ db'.mem = engine
          /\ buffer'[engine] = "live"
      BY <2>2, <1>1, <1>2, EmptyList DEF BuffersFreedOnce, LifecycleInv
    <2> QED BY <2>3, <1>1, <1>2 DEF BuffersFreedOnce
  <1>6. OpenDatabaseUsable'
    BY <1>2 DEF OpenDatabaseUsable
  <1> QED BY <1>3, <1>4, <1>5, <1>6 DEF LifecycleInv

LEMMA OpenSucceedsKeeps ==
    ASSUME LifecycleInv, OpenSucceeds
    PROVE  LifecycleInv'
  <1>1. /\ db.state = "opened" /\ db' = [state |-> "open", mem |-> db.mem]
        /\ sdb'.mem = db.mem
        /\ UNCHANGED <<todo, rounds, isInit, vfsList, env, head, buffer, sector_size, engine>>
    BY DEF OpenSucceeds, LifecycleInv, LifecycleTypeOK
  <1>2. LifecycleTypeOK'
    BY <1>1 DEF LifecycleInv, LifecycleTypeOK, States
  <1>3. Ownership' /\ Registration'
    BY <1>1 DEF Ownership, Registration, Running, LifecycleInv
  <1>4. BuffersFreedOnce'
    <2>1. BuffersFreedOnce /\ db'.mem = db.mem /\ sdb'.mem = db.mem /\ db'.state = "open"
      BY <1>1 DEF LifecycleInv
    <2> QED BY <2>1, <1>1 DEF BuffersFreedOnce
  <1>5. OpenDatabaseUsable'
    BY <1>1 DEF OpenDatabaseUsable, LifecycleInv, Ownership, Registration
  <1> QED BY <1>2, <1>3, <1>4, <1>5 DEF LifecycleInv

\* Freeing buffers that are live frees none of them twice.
LEMMA FreeFacts ==
    ASSUME LifecycleInv, NEW bufs \in SUBSET Buffers,
           \A b \in bufs : buffer[b] = "live"
    PROVE  /\ Free(buffer, bufs) \in [Buffers -> BufferStates]
           /\ \A b \in Buffers : Free(buffer, bufs)[b] =
                 IF b \in bufs THEN "freed" ELSE buffer[b]
  BY DEF Free, LifecycleInv, LifecycleTypeOK, BufferStates

LEMMA OpenFailsKeeps ==
    ASSUME LifecycleInv, BuildsAssumption, OpenFails
    PROVE  LifecycleInv'
  <1>1. db' = [state |-> "oom", mem |-> NULL]
    BY DEF OpenFails, Stop, NoDb, LifecycleInv, Registration
  <1>2. sdb.mem = NULL /\ UNCHANGED <<todo, rounds, isInit, vfsList, env, sdb, sector_size, engine>>
    BY DEF OpenFails, LifecycleInv, Ownership
  <1>3. head' = << >> /\ \/ buffer' = buffer
                         \/ engine \in Buffers /\ buffer[engine] = "live"
                            /\ buffer' = Free(buffer, {engine})
    <2>1. CASE db.state = "opening"
      <3>1. head = <<engine>> /\ engine \in Buffers
        BY <2>1 DEF LifecycleInv, Ownership
      <3>2. 1 \in DOMAIN head /\ head[1] = engine /\ Head(head) = engine /\ Tail(head) = << >>
            /\ head # << >>
        BY <3>1
      <3>3. buffer[engine] = "live"
        BY <3>2 DEF LifecycleInv, BuffersFreedOnce
      <3> QED BY <3>1, <3>2, <3>3 DEF OpenFails, Found
    <2>2. CASE db.state = "opened"
      BY <2>2 DEF OpenFails, Found, LifecycleInv, BuffersFreedOnce
    <2> QED BY <2>1, <2>2 DEF OpenFails
  <1>4. /\ buffer' \in [Buffers -> BufferStates]
        /\ \A b \in Buffers : buffer'[b] # "freed twice"
    <2>1. CASE buffer' = buffer
      BY <2>1 DEF LifecycleInv, LifecycleTypeOK, BuffersFreedOnce
    <2>2. CASE engine \in Buffers /\ buffer[engine] = "live" /\ buffer' = Free(buffer, {engine})
      <3>1. {engine} \in SUBSET Buffers /\ \A b \in {engine} : buffer[b] = "live"
        BY <2>2
      <3>2. /\ Free(buffer, {engine}) \in [Buffers -> BufferStates]
            /\ \A b \in Buffers : Free(buffer, {engine})[b] =
                  IF b \in {engine} THEN "freed" ELSE buffer[b]
        BY <3>1, FreeFacts
      <3> QED BY <3>2, <2>2 DEF LifecycleInv, BuffersFreedOnce
    <2> QED BY <2>1, <2>2, <1>3
  <1>5. LifecycleTypeOK'
    <2>1. db' \in [state : States, mem : Buffers \cup {NULL}]
      BY <1>1 DEF States
    <2> QED BY <1>2, <1>3, <1>4, <2>1, EmptyList DEF LifecycleInv, LifecycleTypeOK
  <1>6. Ownership' /\ Registration'
    BY <1>1, <1>2 DEF Ownership, Registration, LifecycleInv
  <1>7. BuffersFreedOnce' /\ OpenDatabaseUsable'
    BY <1>1, <1>2, <1>3, <1>4, EmptyList DEF BuffersFreedOnce, OpenDatabaseUsable
  <1> QED BY <1>5, <1>6, <1>7 DEF LifecycleInv

LEMMA CloseSgxKeeps ==
    ASSUME LifecycleInv, BuildsAssumption, closedb_sgx
    PROVE  LifecycleInv'
  <1>1. /\ Running("sgx") /\ db.state = "open" /\ head = << >>
        /\ sdb.mem = db.mem /\ db.mem \in Buffers /\ buffer[db.mem] = "live"
    BY DEF closedb_sgx, LifecycleInv, Ownership, BuffersFreedOnce, BuildsAssumption
  <1>2. /\ db' = [state |-> "none", mem |-> NULL] /\ sdb'.mem = NULL /\ head' = << >>
        /\ vfsList' = FALSE /\ env' = FALSE /\ NextRound
        /\ UNCHANGED <<isInit, sector_size, engine>>
    BY DEF closedb_sgx, NoDb, NoHandle, EnvAfterFini
  <1>3. buffer' = Free(buffer, {db.mem})
    <2>1. {head[i] : i \in DOMAIN head} = {}
      BY <1>1, EmptyList
    <2>2. buffer' = Free(buffer, {sdb.mem} \cup {head[i] : i \in DOMAIN head})
      BY DEF closedb_sgx
    <2> QED BY <1>1, <2>1, <2>2
  <1>4. /\ buffer' \in [Buffers -> BufferStates]
        /\ \A b \in Buffers : buffer'[b] # "freed twice"
    <2>1. {db.mem} \in SUBSET Buffers /\ \A b \in {db.mem} : buffer[b] = "live"
      BY <1>1
    <2>2. /\ Free(buffer, {db.mem}) \in [Buffers -> BufferStates]
          /\ \A b \in Buffers : Free(buffer, {db.mem})[b] =
                IF b \in {db.mem} THEN "freed" ELSE buffer[b]
      BY <2>1, FreeFacts
    <2> QED BY <2>2, <1>3 DEF LifecycleInv, BuffersFreedOnce
  <1>5. todo' \in Seq(Programs) /\ MemoryFirst(todo')
        /\ \A i \in 1 .. Len(todo') : todo'[i] # "memory"
    BY <1>1, <1>2, NextRoundFacts DEF Running
  <1>6. LifecycleTypeOK'
    <2>1. db' \in [state : States, mem : Buffers \cup {NULL}]
      BY <1>2 DEF States
    <2> QED BY <1>2, <1>4, <1>5, <2>1, EmptyList DEF LifecycleInv, LifecycleTypeOK
  <1>7. Ownership' /\ Registration'
    BY <1>2, <1>5 DEF Ownership, Registration
  <1>8. BuffersFreedOnce' /\ OpenDatabaseUsable'
    BY <1>2, <1>4, EmptyList DEF BuffersFreedOnce, OpenDatabaseUsable
  <1> QED BY <1>6, <1>7, <1>8 DEF LifecycleInv

LEMMA CloseSpeedtestKeeps ==
    ASSUME LifecycleInv, CloseSpeedtest
    PROVE  LifecycleInv'
  <1>1. /\ db.state = "open" /\ todo # << >> /\ NextRound /\ env /\ vfsList
        /\ db' = [state |-> "none", mem |-> NULL]
        /\ UNCHANGED <<isInit, vfsList, env, head, buffer, sdb, sector_size, engine>>
    BY DEF CloseSpeedtest, NoDb, Running, LifecycleInv, Registration
  <1>2. todo' \in Seq(Programs) /\ MemoryFirst(todo')
    BY <1>1, NextRoundFacts
  <1>3. LifecycleTypeOK'
    BY <1>1, <1>2 DEF LifecycleInv, LifecycleTypeOK, States
  <1>4. Ownership' /\ Registration'
    BY <1>1, <1>2 DEF Ownership, Registration
  <1>5. BuffersFreedOnce' /\ OpenDatabaseUsable'
    BY <1>1 DEF BuffersFreedOnce, OpenDatabaseUsable, LifecycleInv
  <1> QED BY <1>3, <1>4, <1>5 DEF LifecycleInv

LEMMA StutterKeepsLifecycle ==
    ASSUME LifecycleInv, UNCHANGED lifecycleVars
    PROVE  LifecycleInv'
  BY DEF lifecycleVars, LifecycleInv, LifecycleTypeOK, Ownership, Registration, Running,
         BuffersFreedOnce, OpenDatabaseUsable

--------------------------------------------------------------------------------
LEMMA LifecycleInitInv ==
    ASSUME BuildsAssumption
    PROVE  LifecycleInit => LifecycleInv
  <1> SUFFICES ASSUME LifecycleInit PROVE LifecycleInv
    OBVIOUS
  <1> USE DEF LifecycleInit, NoDb, NoHandle
  <1>1. todo \in Seq(Programs) /\ MemoryFirst(todo)
    BY DEF BuildsAssumption
  <1>2. LifecycleTypeOK
    <2>1. db = [state |-> "none", mem |-> NULL] /\ sdb.mem = NULL
      OBVIOUS
    <2>2. db \in [state : States, mem : Buffers \cup {NULL}]
      BY <2>1 DEF States
    <2>3. buffer \in [Buffers -> BufferStates] /\ head \in Seq(Buffers)
      BY EmptyList DEF BufferStates
    <2>4. sector_size \in 0 .. 1
      OBVIOUS
    <2>5. isInit \in BOOLEAN /\ vfsList \in BOOLEAN /\ env \in BOOLEAN
      OBVIOUS
    <2> HIDE DEF LifecycleInit, NoDb, NoHandle
    <2> QED BY <1>1, <2>1, <2>2, <2>3, <2>4, <2>5 DEF LifecycleTypeOK
  <1>3. Ownership /\ Registration
    BY <1>1 DEF Ownership, Registration
  <1>4. BuffersFreedOnce /\ OpenDatabaseUsable
    BY DEF BuffersFreedOnce, OpenDatabaseUsable
  <1> QED BY <1>2, <1>3, <1>4 DEF LifecycleInv

\* The inductive invariant of the programs, their handles and buffers.
THEOREM LifecycleSpecInv ==
    ASSUME BuildsAssumption
    PROVE  LifecycleSpec => []LifecycleInv
  <1>1. LifecycleInv /\ [LifecycleNext]_lifecycleVars => LifecycleInv'
    BY OpenVnlKeeps, CloseVnlKeeps, OpenSgxKeeps, OpenFileKeeps, OpenSucceedsKeeps,
       OpenFailsKeeps, CloseSgxKeeps, CloseSpeedtestKeeps, StutterKeepsLifecycle
    DEF LifecycleNext, Finished
  <1> QED BY <1>1, LifecycleInitInv, PTL DEF LifecycleSpec

\* Each buffer handed to sgxvfs_open_db is freed at most once, and never while
\* something still points to it (sgxvfs.c:460-652).
THEOREM SpecBuffersFreedOnce ==
    ASSUME BuildsAssumption
    PROVE  LifecycleSpec => []BuffersFreedOnce
  <1>1. LifecycleInv => BuffersFreedOnce
    BY DEF LifecycleInv
  <1> QED BY <1>1, LifecycleSpecInv, PTL

\* An open database has its file system, the engine and the sector size
\* (sgxvfs.c:460-652, os-sgx.c).
THEOREM SpecOpenDatabaseUsable ==
    ASSUME BuildsAssumption
    PROVE  LifecycleSpec => []OpenDatabaseUsable
  <1>1. LifecycleInv => OpenDatabaseUsable
    BY DEF LifecycleInv
  <1> QED BY <1>1, LifecycleSpecInv, PTL

================================================================================
