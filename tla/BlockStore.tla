------------------------------ MODULE BlockStore -------------------------------
(****************************************************************************)
(* What the Virtual Memory Engine promises to the file system above it: an   *)
(* array of pages that is all zeros after a reset, where a page reads back   *)
(* as it was last written, whatever was cached, evicted or mapped between.   *)
(* The engine may stop in two cases only: on a read of a page that was never *)
(* touched, which it takes for an intrusion, and on the release of a page    *)
(* that is not cached, where it dereferences NULL.                           *)
(****************************************************************************)
EXTENDS Integers

CONSTANTS
    PoolPages,  \* page numbers
    Data,       \* contents of a page
    zeros       \* the all-zero page

VARIABLES
    store,    \* what each page holds
    touched,  \* pages written, or brought into the cache, since the reset
    buf,      \* where the last copy_from put what it read
    halted    \* why the engine spins or crashed, "no" while it runs

storeVars == <<store, touched, buf, halted>>

StoreInit ==
    /\ store = [p \in PoolPages |-> zeros]
    /\ touched = {0}
    /\ buf = zeros
    /\ halted = "no"

Write(p, d) ==
    /\ store' = [store EXCEPT ![p] = d]
    /\ touched' = touched \cup {p}
    /\ UNCHANGED <<buf, halted>>

Read(p) ==
    /\ buf' = store[p]
    /\ touched' = touched \cup {p}
    /\ UNCHANGED <<store, halted>>

ReadFails(p) ==
    /\ p \notin touched
    /\ buf' \in Data
    /\ halted' = "intrusion"
    /\ UNCHANGED <<store, touched>>

Touch(p) ==
    /\ touched' = touched \cup {p}
    /\ UNCHANGED <<store, buf, halted>>

ReleaseFails ==
    /\ halted' = "null"
    /\ UNCHANGED <<store, touched, buf>>

StoreReset ==
    /\ store' = [p \in PoolPages |-> zeros]
    /\ touched' = {0}
    /\ UNCHANGED <<buf, halted>>

StoreNext ==
    /\ halted = "no"
    /\ \/ \E p \in PoolPages : \/ \E d \in Data : Write(p, d)
                           \/ Read(p) \/ ReadFails(p) \/ Touch(p)
       \/ ReleaseFails
       \/ StoreReset

StoreSpec == StoreInit /\ [][StoreNext]_storeVars

================================================================================
