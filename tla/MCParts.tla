-------------------------------- MODULE MCParts --------------------------------
(* The parts of the system that have few states, each on a small instance of  *)
(* its own: a behaviour runs one of them, the others wait where they begin.   *)
EXTENDS MCVfs, LruCache, QNodeList, DbLifecycle, Connection, TLC

VARIABLE part

lruVars == <<queueVars, recent>>

(* The programs with SGX_ENGINE that App.cpp starts, by the build flags. *)
MCBuilds == {<<"speedtest">>, <<"memory", "sgx">>, <<"speedtest", "memory", "sgx">>}

(* One row is referred to by two others. *)
MCParent == [c \in Immediate \cup Deferred |-> CHOOSE p \in Parents : TRUE]

\* Savepoints may be given other names.
Symmetry == Permutations(Names)

MCInit ==
    /\ part \in {"vfs", "list", "lru", "life", "sql"}
    /\ VfsInit /\ ListInit /\ LruInit /\ LifecycleInit /\ ConnInit
    /\ part # "life" => todo = <<"speedtest">>

\* One part moves.
FilesNext == part = "vfs" /\ VfsNext /\ UNCHANGED <<part, listVars, lruVars, lifecycleVars, connVars>>
NodesNext == part = "list" /\ ListNext /\ UNCHANGED <<part, vars, lruVars, lifecycleVars, connVars>>
CacheNext == part = "lru" /\ LruNext /\ UNCHANGED <<part, vars, listVars, lifecycleVars, connVars>>
LifeNext == part = "life" /\ LifecycleNext /\ UNCHANGED <<part, vars, listVars, lruVars, connVars>>
SqlNext == part = "sql" /\ ConnNext /\ UNCHANGED <<part, vars, listVars, lruVars, lifecycleVars>>

MCNext == FilesNext \/ NodesNext \/ CacheNext \/ LifeNext \/ SqlNext

MCSpec == MCInit /\ [][MCNext]_<<part, vars, listVars, lruVars, lifecycleVars, connVars>>

================================================================================
