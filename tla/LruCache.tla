-------------------------------- MODULE LruCache -------------------------------
(****************************************************************************)
(* The replacement queue without mappings (configuration CnI of              *)
(* vme_config.h) next to a record of which pages were used, most recent       *)
(* first, that is kept apart from the queue.  Nothing is released then: only  *)
(* a mapping is.                                                              *)
(****************************************************************************)
EXTENDS PageQueue

VARIABLE recent  \* the pages used since the reset, each once

LruInit == QueueInit /\ recent = << >>

\* p is used: it comes first, the others follow in the order they had.
Used(p) ==
    \/ \E i \in 1 .. Len(recent) : recent[i] = p /\ recent' = ToFront(recent, i)
    \/ /\ \A i \in 1 .. Len(recent) : recent[i] # p
       /\ recent' = PushFront(recent, p)

LruNext ==
    \/ \E p \in Pages : (Hit(p) \/ Fill(p) \/ Replace(p)) /\ Used(p)
    \/ QueueReset /\ recent' = << >>

LruSpec == LruInit /\ [][LruNext]_<<queueVars, recent>>

--------------------------------------------------------------------------------
\* The frames hold the most recently used pages: the page that gives way is
\* always the one unused for longest (vmem.c:213, 283-302).
KeepsMostRecent ==
    hash = {recent[k] : k \in {i \in 1 .. Len(recent) : i <= WARM_PAGES}}

================================================================================
