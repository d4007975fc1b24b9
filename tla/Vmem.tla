---------------------------------- MODULE Vmem ---------------------------------
(****************************************************************************)
(* The Virtual Memory Engine, src/Enclave/vmem.c: a cache of decrypted page   *)
(* frames in the enclave (warm) over a pool of encrypted pages outside it     *)
(* (cold), with a hash of each evicted page kept inside.  An action is one    *)
(* call of the engine by the SQLite file system (sgxvfs.c); the enclave runs  *)
(* one thread (Makefile: SQLITE_THREADSAFE=0), so calls do not overlap.       *)
(*                                                                            *)
(* A page transfer is one whole aligned page: the programs of the repository  *)
(* set PRAGMA page_size to PAGE_SIZE.  Page 0, the one SQLite reads           *)
(* unaligned, never enters the cache.  cold holds what the engine put there.  *)
(****************************************************************************)
EXTENDS PageQueue

CONSTANTS
    Data,        \* contents of a page, in the clear or encrypted
    zeros,       \* the all-zero page
    AESCtr,      \* ippsAES{En,De}cryptCTR under the fixed key and counter
    XXH64,       \* the 64-bit hash of a page
    WARM_CACHE,  \* the build flags of vme_config.h
    COLD_HASH

\* In counter mode both directions xor the page with the same key stream.
ASSUME AESCtrAssumption ==
    /\ zeros \in Data
    /\ AESCtr \in [Data -> Data]
    /\ \A d \in Data : AESCtr[AESCtr[d]] = d

\* hashes[p] = 0 means "never evicted" to the engine, so a page whose hash is 0
\* would be lost; that no page in use has that hash is assumed.
ASSUME XXH64Assumption ==
    /\ XXH64 \in [Data -> Nat]
    /\ \A d \in Data : XXH64[d] # 0

\* vmem.c:19-21: #error Fetch requires cache
ASSUME FlagsAssumption ==
    /\ WARM_CACHE \in BOOLEAN
    /\ COLD_HASH \in BOOLEAN
    /\ WARM_FETCH => WARM_CACHE

VARIABLES
    slot,       \* the `warm' field of the page's QNode, NoSlot when it has none
    warm,       \* the frames
    cold,       \* the pages outside the enclave
    hashes,     \* hash of the page as it was last encrypted, 0 if never
    zero_page,  \* page 0
    free_warm,  \* the one frame number get_free_warm starts from
    buf,        \* destination of the last copy_from
    halted      \* "no", or why the enclave spins in while(1) or crashed

cacheVars == <<slot, warm, cold, hashes, free_warm>>
vars == <<queue, hash, stick, slot, warm, cold, hashes, zero_page, free_warm,
          buf, halted>>

Slots == 0 .. WARM_PAGES - 1

\* What get_free_warm returns when it finds no frame.
NoSlot == -1

--------------------------------------------------------------------------------
Init ==
    /\ QueueInit
    /\ slot = [p \in Pages |-> NoSlot]
    /\ warm = [s \in Slots |-> zeros]
    /\ cold = [p \in Pages |-> zeros]
    /\ hashes = [p \in Pages |-> 0]
    /\ zero_page = zeros
    /\ free_warm = 0
    /\ buf = zeros
    /\ halted = "no"

\* Plausible mistakes: ++free_warm for free_warm++, or no increment at all.
GetFreeWarmPreIncrement(hint) == IF hint < WARM_PAGES THEN hint + 1 ELSE NoSlot
NextHintForgotten(hint) == hint

\* The frame handed out when the hint stands at `hint', and the next hint.
GetFreeWarm(hint) == IF hint < WARM_PAGES THEN hint ELSE NoSlot
NextHint(hint) == IF hint < WARM_PAGES THEN hint + 1 ELSE hint

\* A plausible mistake: a page that was never evicted is decrypted like others.
LoadedAlways(p) == AESCtr[cold[p]]

\* What Enqueue puts into the new frame of p.
Loaded(p) == IF hashes[p] # 0 THEN AESCtr[cold[p]] ELSE zeros

\* Enqueue's integrity check, after which it spins.
Verify(p) ==
    IF COLD_HASH /\ hashes[p] # 0 /\ hashes[p] # XXH64[AESCtr[cold[p]]]
    THEN "hash" ELSE "no"

\* What the frame of p holds once p has been referenced.
Frame(p) == IF p \in hash THEN warm[slot[p]] ELSE Loaded(p)

\* Plausible mistakes: the hash is taken of the encrypted page, or only the hash
\* is updated.
WriteBackHashingCold(v) ==
    /\ cold' = [cold EXCEPT ![v] = AESCtr[warm[slot[v]]]]
    /\ hashes' = [hashes EXCEPT ![v] = XXH64[AESCtr[warm[slot[v]]]]]

WriteBackHashOnly(v) ==
    /\ cold' = cold
    /\ hashes' = [hashes EXCEPT ![v] = XXH64[warm[slot[v]]]]

\* deQueue writes the rear page out.
WriteBack(v) ==
    /\ cold' = [cold EXCEPT ![v] = AESCtr[warm[slot[v]]]]
    /\ hashes' = IF COLD_HASH
                 THEN [hashes EXCEPT ![v] = XXH64[warm[slot[v]]]]
                 ELSE hashes

\* ReferencePage succeeds and the frame of p ends up holding d.
Reference(p, d) ==
    \/ /\ Hit(p)
       /\ warm' = [warm EXCEPT ![slot[p]] = d]
       /\ UNCHANGED <<slot, cold, hashes, free_warm, halted>>
    \/ /\ Fill(p)
       /\ slot' = [slot EXCEPT ![p] = GetFreeWarm(free_warm)]
       /\ free_warm' = NextHint(free_warm)
       /\ warm' = [warm EXCEPT ![GetFreeWarm(free_warm)] = d]
       /\ halted' = Verify(p)
       /\ UNCHANGED <<cold, hashes>>
    \/ /\ Replace(p)
       /\ WriteBack(Rear)
       /\ LET hint == slot[Rear] IN  \* set_free_warm
          /\ slot' = [slot EXCEPT ![Rear] = NoSlot, ![p] = GetFreeWarm(hint)]
          /\ free_warm' = NextHint(hint)
          /\ warm' = [warm EXCEPT ![GetFreeWarm(hint)] = d]
       /\ halted' = Verify(p)

\* Without a cache, or when ReferencePage returns 0, cold is accessed directly.
Bypass(p) == ~WARM_CACHE \/ Refused(p)

--------------------------------------------------------------------------------
(* The calls. *)

CopyTo(p, d) ==
    /\ halted = "no"
    /\ UNCHANGED buf
    /\ \/ /\ p = 0
          /\ zero_page' = d
          /\ UNCHANGED <<queueVars, cacheVars, halted>>
       \/ /\ p # 0
          /\ WARM_CACHE
          /\ Reference(p, d)
          /\ UNCHANGED zero_page
       \/ /\ p # 0
          /\ Bypass(p)
          /\ cold' = [cold EXCEPT ![p] = AESCtr[d]]
          /\ hashes' = IF COLD_HASH THEN [hashes EXCEPT ![p] = XXH64[d]]
                       ELSE hashes
          /\ UNCHANGED <<queueVars, slot, warm, zero_page, free_warm, halted>>

\* copy_from's result 1 makes its one caller, sgxVmemRead, spin.
CopyFrom(p) ==
    /\ halted = "no"
    /\ UNCHANGED zero_page
    /\ \/ /\ p = 0
          /\ buf' = zero_page
          /\ UNCHANGED <<queueVars, cacheVars, halted>>
       \/ /\ p # 0
          /\ WARM_CACHE
          /\ Reference(p, Frame(p))
          /\ buf' = Frame(p)
       \/ /\ p # 0
          /\ Bypass(p)
          /\ buf' = AESCtr[cold[p]]
          /\ halted' = IF COLD_HASH /\ hashes[p] # XXH64[AESCtr[cold[p]]]
                       THEN "intrusion" ELSE "no"
          /\ UNCHANGED <<queueVars, cacheVars>>

\* page_up: the pointer it returns, and the NULL it returns when refused, are
\* of interest to the caller (module PagerMmap).  SQLite never maps page 0.
PageUp(p) ==
    /\ halted = "no"
    /\ WARM_FETCH
    /\ p # 0
    /\ \/ Reference(p, Frame(p))
       \/ Refused(p) /\ UNCHANGED <<queueVars, cacheVars, halted>>
    /\ UNCHANGED <<zero_page, buf>>

\* page_down: there is no return after the message about a page that does not
\* exist (vmem.c:312-314), and the node that is not there is dereferenced.
\* Without WARM_FETCH no page is ever mapped: SQLite then only sends the
\* `unmap everything' request, which is at offset 0.
PageDown(p) ==
    /\ halted = "no"
    /\ WARM_FETCH \/ p = 0
    /\ UNCHANGED <<cacheVars, zero_page, buf>>
    /\ \/ DeReferencePage(p) /\ UNCHANGED halted
       \/ p \notin hash /\ halted' = "null" /\ UNCHANGED queueVars

\* cache_reset: what cache_purge writes out is zeroed with the rest.
CacheReset ==
    /\ halted = "no"
    /\ QueueReset
    /\ slot' = [p \in Pages |-> NoSlot]
    /\ warm' = [s \in Slots |-> zeros]
    /\ cold' = [p \in Pages |-> zeros]
    /\ hashes' = [p \in Pages |-> 0]
    /\ zero_page' = zeros
    /\ free_warm' = 0
    /\ UNCHANGED <<buf, halted>>

Next ==
    \/ \E p \in Pages, d \in Data : CopyTo(p, d)
    \/ \E p \in Pages : CopyFrom(p) \/ PageUp(p) \/ PageDown(p)
    \/ CacheReset

Spec == Init /\ [][Next]_vars

--------------------------------------------------------------------------------
Residues == {"no", "hash", "intrusion", "null"}

TypeOK ==
    /\ QueueTypeOK
    /\ slot \in [Pages -> Slots \cup {NoSlot}]
    /\ warm \in [Slots -> Data]
    /\ cold \in [Pages -> Data]
    /\ hashes \in [Pages -> Nat]
    /\ zero_page \in Data
    /\ free_warm \in 0 .. WARM_PAGES
    /\ buf \in Data
    /\ halted \in Residues

\* Frames are never shared and never run out.  get_free_warm has no free list:
\* it counts up from a single number that set_free_warm overwrites
\* (vmem.c:484-498).  Every cached page has a frame of its own, no other page
\* has one, and while the queue has room the frames handed out are exactly the
\* ones below free_warm.
FramesConsistent ==
    /\ \A p \in Pages : p \in hash <=> slot[p] # NoSlot
    /\ \A p, r \in hash : slot[p] = slot[r] => p = r
    /\ Len(queue) < WARM_PAGES =>
          /\ free_warm = Len(queue)
          /\ \A p \in hash : slot[p] < free_warm

\* The hash kept for an uncached page is the hash of what cold deciphers to, so
\* neither Enqueue (vmem.c:246) nor copy_from (vmem.c:457) can raise a false
\* alarm about a page that was ever written out.
ColdIntact ==
    \A p \in Pages \ hash :
        hashes[p] # 0 => hashes[p] = XXH64[AESCtr[cold[p]]]

\* Enqueue never spins on a hash mismatch (vmem.c:246-249).
NoHashMismatch == halted # "hash"

\* Without COLD_HASH the table of hashes is never written.
HashesOnlyIfBuilt == ~COLD_HASH => \A p \in Pages : hashes[p] = 0

\* Without WARM_CACHE nothing is ever enqueued.
CacheOnlyIfBuilt == ~WARM_CACHE => hash = {}

\* The inductive invariant.
IInv ==
    /\ TypeOK
    /\ QueueConsistent
    /\ StuckInFront
    /\ FramesConsistent
    /\ ColdIntact
    /\ HashesOnlyIfBuilt
    /\ NoHashMismatch

\* What each page holds, wherever it is.
Contents == [p \in Pages |-> IF p = 0 THEN zero_page ELSE Frame(p)]

\* The pages copy_from can read past the cache without a false alarm.
Touched == {0} \cup hash \cup {p \in Pages : hashes[p] # 0}

Store == INSTANCE BlockStore WITH PoolPages <- Pages, store <- Contents, touched <- Touched

\* The engine is a page store: whatever is cached, written back, bypassed or
\* mapped, a page reads as it was last written, and zeros before
\* (vmem.c:175-473 together).
ImplementsBlockStore == Store!StoreSpec

\* A page marked `stick' keeps its frame, to which SQLite may hold a pointer,
\* until it is released or the whole cache is reset (vmem.c:216-219).
StuckPagesStayPut ==
    [][\A p \in Pages :
          stick[p] /\ slot'[p] # slot[p] => queue' = << >>]_vars

================================================================================
