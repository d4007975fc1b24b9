---------------------------------- MODULE Vfs ----------------------------------
(****************************************************************************)
(* The SQLite file system of src/Enclave/sgxvfs.c.  The main database lives  *)
(* in the Virtual Memory Engine, here the page store BlockStore that the      *)
(* engine implements (module Vmem); its sgxbuffer_t only keeps sizes.  Every  *)
(* other file (journals, spill files) is a growing heap buffer.  An action is *)
(* one method call; one thread calls, so calls do not overlap.                *)
(*                                                                            *)
(* Offsets and sizes count blocks: a page of the database, or the unit in     *)
(* which a journal is written; so does INT_LIMIT, which stands for 2^31.      *)
(****************************************************************************)
EXTENDS BlockStore, Sequences, FiniteSets

CONSTANTS
    MAIN,       \* the file opened with SQLITE_OPEN_MAIN_DB
    TempFiles,  \* the other ones
    junk,       \* what uninitialised heap memory holds
    hole,       \* stands for a block that was never written
    INT_LIMIT,  \* an int, like sgxbuffer_t.total, is below it
    MaxBlocks   \* bound on the offsets of reads and writes

ASSUME FilesAssumption ==
    /\ MAIN \notin TempFiles
    /\ junk # hole
    /\ {junk, hole} \cap Data = {}
    /\ INT_LIMIT \in Nat \ {0}
    /\ MaxBlocks \in Nat

VARIABLES
    mem,      \* the open files -> their sgxbuffer_t
    written,  \* history: the blocks below the end that were written
    rc        \* the result of the last call

vfsVars == <<mem, written, rc>>
vars == <<storeVars, vfsVars>>

Files == {MAIN} \cup TempFiles
Offsets == 0 .. MaxBlocks - 1

\* vmem_max(), in pages.
vmem_max == Cardinality(PoolPages)

VfsInit ==
    /\ StoreInit
    /\ mem = [f \in {} |-> 0]
    /\ written = [f \in {} |-> 0]
    /\ rc = "OK"

Put(fun, f, x) == [g \in DOMAIN fun \cup {f} |-> IF g = f THEN x ELSE fun[g]]
Remove(fun, f) == [g \in DOMAIN fun \ {f} |-> fun[g]]
MAX(x, y) == IF x < y THEN y ELSE x
MIN(x, y) == IF x < y THEN x ELSE y

\* Conversion of an sqlite3_int64 to int.
ToInt(n) == ((n + INT_LIMIT) % (2 * INT_LIMIT)) - INT_LIMIT

--------------------------------------------------------------------------------
\* sgxvfs_open_db of a new sgxbuffer_t, whose sgxvfsOpen takes it over.
sgxvfs_open_db ==
    /\ MAIN \notin DOMAIN mem
    /\ StoreReset
    /\ mem' = Put(mem, MAIN, [data |-> << >>, used |-> 0, total |-> 0])
    /\ written' = Put(written, MAIN, {})
    /\ rc' = "OK"

sgxvfs_close_db ==
    /\ DOMAIN mem = {MAIN}
    /\ mem' = Remove(mem, MAIN)
    /\ written' = Remove(written, MAIN)
    /\ rc' = "OK"
    /\ UNCHANGED storeVars

\* sgxvfsOpen and sgxVmemClose of a file that is not the main database.
sgxvfsOpenTemp(f) ==
    /\ MAIN \in DOMAIN mem
    /\ f \in TempFiles \ DOMAIN mem
    /\ mem' = Put(mem, f, [data |-> << >>, used |-> 0, total |-> 0])
    /\ written' = Put(written, f, {})
    /\ rc' = "OK"
    /\ UNCHANGED storeVars

sgxVmemClose(f) ==
    /\ f \in TempFiles \cap DOMAIN mem
    /\ mem' = Remove(mem, f)
    /\ written' = Remove(written, f)
    /\ rc' = "OK"
    /\ UNCHANGED storeVars

\* A short read leaves the buffer as it is.
sgxVmemRead(f, i) ==
    /\ UNCHANGED <<mem, written>>
    /\ \/ /\ i + 1 > mem[f].used
          /\ rc' = "SHORT_READ"
          /\ UNCHANGED storeVars
       \/ /\ i + 1 <= mem[f].used
          /\ \/ f = MAIN /\ Read(i) /\ rc' = "OK"
             \/ f = MAIN /\ ReadFails(i) /\ UNCHANGED rc
             \/ /\ f # MAIN
                /\ buf' = mem[f].data[i + 1]
                /\ rc' = "OK"
                /\ UNCHANGED <<store, touched, halted>>

\* realloc to n blocks: the new ones hold whatever the heap held.
Realloc(data, n) ==
    [j \in 1 .. n |-> IF j <= Len(data) THEN data[j] ELSE junk]

\* A plausible mistake: growing by the length of the write.
newTotalTight(f, i) == ToInt(mem[f].total + 1)

\* The new size of the buffer of a write to block i.
newTotal(f, i) == ToInt(2 * (i + 1 + mem[f].total))

\* A plausible mistake: used follows the last write, not the highest.
UsedIsLastWrite(f, i) == i + 1

\* `used' after a write to block i.
UsedAfter(f, i) == MAX(mem[f].used, i + 1)

Finish(f, i, total, data) ==
    /\ mem' = [mem EXCEPT ![f] = [data |-> data, total |-> total,
                                  used |-> UsedAfter(f, i)]]
    /\ written' = [written EXCEPT ![f] = @ \cup {i}]
    /\ rc' = "OK"

\* The first write of the database opens the whole pool to it.
WriteMain(i, d) ==
    \/ /\ mem[MAIN].total = 0 \/ i + 1 <= mem[MAIN].total
       /\ i \in PoolPages
       /\ Write(i, d)
       /\ Finish(MAIN, i, vmem_max, << >>)
    \/ /\ mem[MAIN].total # 0
       /\ i + 1 > mem[MAIN].total
       /\ halted' = "oom"
       /\ UNCHANGED <<store, touched, buf, vfsVars>>

\* realloc may fail, and fails for a negative size (an enormous size_t).  The
\* pager starts a journal with its header at offset 0, and skips at most to the
\* next place for a header.
WriteTemp(f, i, d) ==
    LET m == mem[f] IN
    /\ i <= IF m.used = 0 THEN 0 ELSE m.used + 1
    /\ UNCHANGED storeVars
    /\ \/ /\ i + 1 <= m.total
          /\ Finish(f, i, m.total, [m.data EXCEPT ![i + 1] = d])
       \/ /\ i + 1 > m.total
          /\ newTotal(f, i) > 0
          /\ Finish(f, i, newTotal(f, i),
                    [Realloc(m.data, newTotal(f, i)) EXCEPT ![i + 1] = d])
       \/ /\ i + 1 > m.total
          /\ rc' = "NOMEM"
          /\ UNCHANGED <<mem, written>>

sgxVmemWrite(f, i, d) ==
    \/ f = MAIN /\ WriteMain(i, d)
    \/ f # MAIN /\ WriteTemp(f, i, d)

\* A plausible mistake: nothing to do for a file that lives in memory.
TruncateNothing(f, n) == mem[f].used

\* `used' after a truncation to n blocks.
TruncatedUsed(f, n) == MIN(mem[f].used, n)

sgxVmemTruncate(f, n) ==
    /\ mem' = [mem EXCEPT ![f].used = TruncatedUsed(f, n)]
    /\ written' = [written EXCEPT ![f] = @ \cap 0 .. n - 1]
    /\ rc' = "OK"
    /\ UNCHANGED storeVars

\* page_up and page_down as BlockStore has them; the bound is the pool's.
sgxVmemFetch(i) ==
    /\ i \in PoolPages
    /\ \/ i + 1 <= mem[MAIN].total /\ Touch(i)
       \/ UNCHANGED storeVars
    /\ rc' = "OK"
    /\ UNCHANGED <<mem, written>>

sgxVmemUnfetch ==
    /\ \/ UNCHANGED storeVars /\ rc' = "OK"
       \/ ReleaseFails /\ UNCHANGED rc
    /\ UNCHANGED <<mem, written>>

VfsNext ==
    /\ halted = "no"
    /\ \/ sgxvfs_open_db \/ sgxvfs_close_db
       \/ \E f \in TempFiles : sgxvfsOpenTemp(f) \/ sgxVmemClose(f)
       \/ \E f \in DOMAIN mem, i \in Offsets :
             \/ sgxVmemRead(f, i)
             \/ sgxVmemTruncate(f, i)
             \/ \E d \in Data : sgxVmemWrite(f, i, d)
       \/ MAIN \in DOMAIN mem /\ \E i \in Offsets : sgxVmemFetch(i)
       \/ sgxVmemUnfetch

VfsSpec == VfsInit /\ [][VfsNext]_vars

--------------------------------------------------------------------------------
\* An sgxbuffer_t's sizes are blocks it has, of a type C can hold.
VfsTypeOK ==
    /\ DOMAIN mem \subseteq Files
    /\ DOMAIN written = DOMAIN mem
    /\ \A f \in DOMAIN mem :
          /\ mem[f].used \in Nat
          /\ mem[f].data \in Seq(Data \cup {junk})
          /\ written[f] \subseteq 0 .. mem[f].used - 1
    /\ rc \in {"OK", "SHORT_READ", "NOMEM"}

\* The bytes below the end of a file lie inside its buffer, or inside the pool
\* for the database, after any series of writes, however large the file grows
\* (sgxvfs.c:151-186).
BufferCoversFile ==
    \A f \in DOMAIN mem :
        /\ mem[f].used <= mem[f].total
        /\ f # MAIN => Len(mem[f].data) = mem[f].total

Block(f, i) ==
    IF i \notin written[f] THEN hole
    ELSE IF f = MAIN THEN store[i] ELSE mem[f].data[i + 1]

\* The files as the pager knows them.
File == [f \in DOMAIN mem |-> [i \in 0 .. mem[f].used - 1 |-> Block(f, i)]]

Disk == INSTANCE SqliteFiles WITH
            Blocks <- Offsets, Contents <- Data \cup {junk}, Hole <- hole, file <- File

\* The database in the engine and the files in the heap are the files SQLite
\* expects (sgxvfs.c:96-212, 295-323).
ImplementsSqliteFiles == Disk!FilesSpec

================================================================================
