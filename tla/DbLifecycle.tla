------------------------------ MODULE DbLifecycle ------------------------------
(****************************************************************************)
(* Opening and closing the database: src/Enclave/sgxvfs.c from load_cb on,    *)
(* the registration of the file system with SQLite, and the programs that     *)
(* App.cpp starts one after the other in one enclave.  A buffer passes from   *)
(* the caller to a list, from there to the file that load_cb opens, and back  *)
(* to whoever closes the database; each step in between may run out of        *)
(* memory.  All of them use the path "sgx" and the one engine.                *)
(****************************************************************************)
EXTENDS Integers, Sequences

CONSTANTS
    Builds,   \* the sequences of programs that the build flags allow
    Rounds,   \* how often a synthetic benchmark opens its database
    Buffers   \* the sgxbuffer_t's that calloc may return

NULL == 0

VARIABLES
    todo,        \* the programs to come, the running one first
    rounds,      \* the rounds it has left
    isInit,      \* sqlite3GlobalConfig.isInit
    vfsList,     \* the file system is registered
    env,         \* g_sgxvfs_env is not NULL
    head,        \* the list of buffers that load_cb looks through
    buffer,      \* what became of each: "unused", "live", "freed", "freed twice"
    sdb,         \* the program's handle and the buffer it owns
    db,          \* SQLite's connection: its state, and the buffer of its file
    sector_size,
    engine       \* the buffer for which the engine was last reset
lifecycleVars == <<todo, rounds, isInit, vfsList, env, head, buffer, sdb, db,
                   sector_size, engine>>

Programs == {"speedtest", "memory", "sgx"}
RoundsOf(p) == IF p = "speedtest" THEN 1 ELSE Rounds

NoDb == [state |-> "none", mem |-> NULL]
NoHandle == [handle |-> FALSE, mem |-> NULL]

LifecycleInit ==
    /\ todo \in Builds
    /\ rounds = RoundsOf(Head(todo))
    /\ isInit = FALSE /\ vfsList = FALSE /\ env = FALSE
    /\ head = << >>
    /\ buffer = [b \in Buffers |-> "unused"]
    /\ sdb = NoHandle
    /\ db = NoDb
    /\ sector_size = 0
    /\ engine = NULL

Free(bs, bufs) ==
    [b \in Buffers |-> IF b \notin bufs THEN bs[b]
                       ELSE IF bs[b] = "live" THEN "freed" ELSE "freed twice"]

Running(p) == todo # << >> /\ Head(todo) = p

\* sgxvfs_env_init, also called from sqlite3_os_init: the file system is
\* registered when it makes the environment, if SQLite can be initialized.
sgxvfs_env_init(initialized) ==
    /\ env' = TRUE
    /\ isInit' = initialized
    /\ vfsList' = (vfsList \/ (~env /\ initialized))

\* A plausible mistake: the environment is freed, but still pointed to.
EnvAfterFiniKept == env

EnvAfterFini == FALSE

\* A program that cannot go on spins or exits.
Stop(why) == db' = [NoDb EXCEPT !.state = why]

--------------------------------------------------------------------------------
(* synthetic(0): a database in memory, on the default file system. *)

opendb_vnl ==
    /\ Running("memory") /\ db.state = "none"
    /\ \E initialized \in {TRUE, isInit} :
          /\ IF isInit THEN UNCHANGED <<env, isInit, vfsList>> ELSE sgxvfs_env_init(initialized)
          /\ IF vfsList' THEN db' = [NoDb EXCEPT !.state = "memory"]
             ELSE Stop(IF initialized THEN "no vfs" ELSE "oom")
    /\ UNCHANGED <<todo, rounds, head, buffer, sdb, sector_size, engine>>

NextRound ==
    IF rounds > 1 THEN rounds' = rounds - 1 /\ UNCHANGED todo
    ELSE /\ todo' = Tail(todo)
         /\ rounds' = IF Tail(todo) = << >> THEN 0 ELSE RoundsOf(Head(Tail(todo)))

closedb_vnl ==
    /\ db.state = "memory"
    /\ db' = NoDb
    /\ NextRound
    /\ UNCHANGED <<isInit, vfsList, env, head, buffer, sdb, sector_size, engine>>

--------------------------------------------------------------------------------
(* synthetic(1) and speedtest1: a database in the engine. *)

\* opendb_sgx up to sqlite3_open_v2: the handle is forgotten, the engine reset
\* and a new buffer put in front of the list.
opendb_sgx ==
    /\ Running("speedtest") \/ Running("sgx")
    /\ db.state = "none"
    /\ \E initialized \in {TRUE, isInit} : sgxvfs_env_init(initialized)
    /\ \E mem \in Buffers :
          /\ buffer[mem] = "unused"
          /\ buffer' = [buffer EXCEPT ![mem] = "live"]
          /\ head' = <<mem>> \o head
          /\ engine' = mem
    /\ sdb' = NoHandle
    /\ db' = [NoDb EXCEPT !.state = "opening"]
    /\ UNCHANGED <<todo, rounds, sector_size>>

\* The list has one path, so that the first link is the one removed.
Found == head # << >>

\* A plausible mistake: load_cb leaves the link in the list.
RestLoaded == head

Rest == Tail(head)

\* sgxvfsOpen: load_cb hands the buffer over; the pager then asks for the
\* sector size.
sgxvfsOpen ==
    /\ db.state = "opening" /\ vfsList /\ isInit /\ Found
    /\ db' = [state |-> "opened", mem |-> Head(head)]
    /\ head' = Rest
    /\ sector_size' = 1
    /\ UNCHANGED <<todo, rounds, isInit, vfsList, env, buffer, sdb, engine>>

\* The end of sgxvfs_open_db.
OpenSucceeds ==
    /\ db.state = "opened"
    /\ db' = [db EXCEPT !.state = "open"]
    /\ sdb' = [handle |-> TRUE, mem |-> db.mem]
    /\ UNCHANGED <<todo, rounds, isInit, vfsList, env, head, buffer, sector_size, engine>>

\* Memory runs out before or after xOpen, or there is no file system: the pager
\* closes its file, and the link is freed with its buffer if it is still there.
OpenFails ==
    /\ db.state \in {"opening", "opened"}
    /\ Stop(IF isInit /\ ~vfsList THEN "no vfs" ELSE "oom")
    /\ head' = IF Found THEN Tail(head) ELSE head
    /\ buffer' = IF Found THEN Free(buffer, {Head(head)}) ELSE buffer
    /\ UNCHANGED <<todo, rounds, isInit, vfsList, env, sdb, sector_size, engine>>

\* sgxvfs_close_db, then sgxvfs_env_fini.  Every statement is finalized by then.
closedb_sgx ==
    /\ Running("sgx") /\ db.state = "open"
    /\ db' = NoDb
    /\ sdb' = NoHandle
    /\ buffer' = Free(buffer, {sdb.mem} \cup {head[i] : i \in DOMAIN head})
    /\ head' = << >>
    /\ vfsList' = FALSE
    /\ env' = EnvAfterFini
    /\ NextRound
    /\ UNCHANGED <<isInit, sector_size, engine>>

\* speedtest1 calls sqlite3_close itself: buffer and environment stay.
CloseSpeedtest ==
    /\ Running("speedtest") /\ db.state = "open"
    /\ db' = NoDb
    /\ NextRound
    /\ UNCHANGED <<isInit, vfsList, env, head, buffer, sdb, sector_size, engine>>

\* The host waits for ever.
Finished ==
    /\ todo = << >> \/ db.state \in {"oom", "no vfs"}
    /\ UNCHANGED lifecycleVars

LifecycleNext ==
    \/ opendb_vnl \/ closedb_vnl
    \/ opendb_sgx \/ sgxvfsOpen \/ OpenSucceeds \/ OpenFails
    \/ closedb_sgx \/ CloseSpeedtest
    \/ Finished

LifecycleSpec == LifecycleInit /\ [][LifecycleNext]_lifecycleVars

--------------------------------------------------------------------------------
\* No buffer is freed twice, and nothing that will be used or freed again points
\* to one that is freed: neither the list, nor the handle, nor an open file
\* (sgxvfs.c, sgxbuffer_link_free and sgxvfs_close_db).
BuffersFreedOnce ==
    /\ \A b \in Buffers : buffer[b] # "freed twice"
    /\ \A i \in DOMAIN head : buffer[head[i]] = "live"
    /\ {sdb.mem, db.mem} \ {NULL} \subseteq {b \in Buffers : buffer[b] = "live"}
    /\ db.state # "opening" => head = << >>

\* A database that is open can be used: its file system is registered, the
\* engine holds its pages and not another's, and the sector size by which
\* xFetch divides is known; a database in memory finds a file system.
OpenDatabaseUsable ==
    /\ db.state = "open" => /\ vfsList /\ isInit /\ env
                            /\ engine = db.mem /\ sector_size > 0
    /\ db.state # "no vfs"

================================================================================
