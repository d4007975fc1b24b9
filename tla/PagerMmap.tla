------------------------------- MODULE PagerMmap -------------------------------
(****************************************************************************)
(* SQLite's pager on top of the Virtual Memory Engine, with memory-mapped    *)
(* reads on (PRAGMA mmap_size > 0): a page is reached either through the     *)
(* pointer that sgxVmemFetch got from page_up, or through a copy in the page *)
(* cache that sgxVmemRead filled and sgxVmemWrite writes back.  One          *)
(* connection, one thread; the calls of several open cursors interleave.     *)
(* Page p of the engine is SQLite's page p + 1, of the engine's page size.   *)
(****************************************************************************)
EXTENDS Vmem

CONSTANTS
    Handles,  \* bound on the mapped pages held at once (PgHdr with PGHDR_MMAP)
    Modified, \* bound on the pages whose content transactions change
    SHARED    \* TRUE: two cursors may map one page at the same time

ASSUME PagerAssumption == SHARED \in BOOLEAN

VARIABLES
    eState,   \* "READER", "WRITER", or "COMMIT" while dirty pages are written
    mapped,   \* the mapped pages held: handle -> page and frame pointed to
    pcache,   \* the pages in SQLite's page cache -> their content there
    dirty,    \* the ones that differ from the file
    dbSize,   \* pages of the database, written to the file or not
    used,     \* pages of the file (sgxbuffer_t.used)
    pending   \* the page getPageMMap fetched but has no use for

pagerVars == <<eState, mapped, pcache, dirty, dbSize, used, pending>>
allVars == <<vars, pagerVars>>

PagerInit ==
    /\ Init
    /\ eState = "READER"
    /\ mapped = << >>
    /\ pcache = << >>
    /\ dirty = {}
    /\ dbSize = 0
    /\ used = 0
    /\ pending = {}

MappedPages == {mapped[h].page : h \in DOMAIN mapped}

\* The function f with y at x, whether f had something there or not.
With(f, x, y) == [z \in DOMAIN f \cup {x} |-> IF z = x THEN y ELSE f[z]]

--------------------------------------------------------------------------------
\* getPageMMap in a read transaction, or for a cursor that only reads.  When
\* the page is refused it falls through to getPageNormal.  A writer that finds
\* the page in its cache gives the mapping back at once.
GetPageMMap(h, p) ==
    /\ pending = {}
    /\ eState \in {"READER", "WRITER"}
    /\ h \notin DOMAIN mapped
    /\ p \in 1 .. used - 1
    /\ SHARED \/ p \notin MappedPages
    /\ ~Refused(p)
    /\ PageUp(p)
    /\ IF eState = "WRITER" /\ p \in DOMAIN pcache
       THEN pending' = {p} /\ mapped' = mapped
       ELSE /\ mapped' = With(mapped, h, [page |-> p, frame |-> slot'[p]])
            /\ pending' = {}
    /\ UNCHANGED <<eState, pcache, dirty, dbSize, used>>

\* The xUnfetch of getPageMMap (pager.c:5527).
GiveBack ==
    /\ \E p \in pending : PageDown(p)
    /\ pending' = {}
    /\ UNCHANGED <<eState, mapped, pcache, dirty, dbSize, used>>

\* sqlite3PagerUnref of a mapped page.
ReleaseMapPage(h) ==
    /\ pending = {}
    /\ h \in DOMAIN mapped
    /\ PageDown(mapped[h].page)
    /\ mapped' = Restrict(mapped, DOMAIN mapped \ {h})
    /\ UNCHANGED <<eState, pcache, dirty, dbSize, used, pending>>

\* getPageNormal of a page that is not in the page cache.
GetPageNormal(p) ==
    /\ pending = {}
    /\ eState \in {"READER", "WRITER"}
    /\ p \in 0 .. used - 1
    /\ p \notin DOMAIN pcache
    /\ p = 0 \/ eState = "WRITER" \/ Refused(p)
    /\ CopyFrom(p)
    /\ pcache' = With(pcache, p, buf')
    /\ UNCHANGED <<eState, mapped, dirty, dbSize, used, pending>>

\* A plausible mistake: a modified page leaves the page cache.
DropAnyPage(p) ==
    /\ pending = {}
    /\ p # 0
    /\ p \in DOMAIN pcache
    /\ pcache' = Restrict(pcache, DOMAIN pcache \ {p})
    /\ UNCHANGED <<vars, eState, mapped, dirty, dbSize, used, pending>>

\* A clean page leaves the page cache to make room.  SQLite's page 1 is
\* referenced throughout a transaction and stays.
DropPage(p) ==
    /\ pending = {}
    /\ p # 0
    /\ p \in DOMAIN pcache \ dirty
    /\ pcache' = Restrict(pcache, DOMAIN pcache \ {p})
    /\ UNCHANGED <<vars, eState, mapped, dirty, dbSize, used, pending>>

BeginWrite ==
    /\ pending = {}
    /\ eState = "READER"
    /\ eState' = "WRITER"
    /\ UNCHANGED <<vars, mapped, pcache, dirty, dbSize, used, pending>>

\* A new page at the end of the database is never read (PAGER_GET_NOCONTENT).
NewPage ==
    /\ pending = {}
    /\ eState = "WRITER"
    /\ dbSize < COLD_PAGES
    /\ pcache' = With(pcache, dbSize, zeros)
    /\ dirty' = dirty \cup {dbSize}
    /\ dbSize' = dbSize + 1
    /\ UNCHANGED <<vars, eState, mapped, used, pending>>

ModifyPage(p, d) ==
    /\ pending = {}
    /\ eState = "WRITER"
    /\ p \in DOMAIN pcache \cap Modified
    /\ pcache' = [pcache EXCEPT ![p] = d]
    /\ dirty' = dirty \cup {p}
    /\ UNCHANGED <<vars, eState, mapped, dbSize, used, pending>>

\* sqlite3OsWrite of a dirty page, sgxVmemWrite.
WritePage(p) ==
    /\ pending = {}
    /\ p \in dirty
    /\ CopyTo(p, pcache[p])
    /\ dirty' = dirty \ {p}
    /\ used' = IF p < used THEN used ELSE p + 1
    /\ UNCHANGED <<mapped, pcache, dbSize, pending>>

\* pagerStress writes a page that is not referenced early, in any order.
SpillPage(p) ==
    /\ p # 0
    /\ eState = "WRITER"
    /\ WritePage(p)
    /\ UNCHANGED eState

\* The commit writes what is still dirty in the order of the page numbers.
CommitPage(p) ==
    /\ eState \in {"WRITER", "COMMIT"}
    /\ \A r \in dirty : p <= r
    /\ WritePage(p)
    /\ eState' = "COMMIT"

CommitDone ==
    /\ pending = {}
    /\ eState = "COMMIT"
    /\ dirty = {}
    /\ eState' = "READER"
    /\ UNCHANGED <<vars, mapped, pcache, dirty, dbSize, used, pending>>

PagerNext ==
    \/ \E h \in Handles, p \in Pages : GetPageMMap(h, p)
    \/ \E h \in Handles : ReleaseMapPage(h)
    \/ \E p \in Pages : \/ GetPageNormal(p) \/ DropPage(p)
                        \/ SpillPage(p) \/ CommitPage(p)
                        \/ \E d \in Data : ModifyPage(p, d)
    \/ GiveBack \/ BeginWrite \/ NewPage \/ CommitDone

PagerSpec == PagerInit /\ [][PagerNext]_allVars

\* A sort spills to a temporary file: vdbeSorterExtendFile fetches from that
\* file, gets NULL, and unmaps NULL; sgxVmemUnfetch looks neither at the file
\* nor at the pointer.
SorterExtendFile ==
    /\ pending = {}
    /\ PageDown(0)
    /\ UNCHANGED pagerVars

SorterSpec == PagerInit /\ [][PagerNext \/ SorterExtendFile]_allVars

--------------------------------------------------------------------------------
PagerTypeOK ==
    /\ TypeOK
    /\ eState \in {"READER", "WRITER", "COMMIT"}
    /\ DOMAIN mapped \subseteq Handles
    /\ \A h \in DOMAIN mapped : mapped[h] \in [page : Pages, frame : Slots]
    /\ DOMAIN pcache \subseteq 0 .. dbSize - 1
    /\ \A p \in DOMAIN pcache : pcache[p] \in Data
    /\ dirty \subseteq DOMAIN pcache
    /\ dbSize \in 0 .. COLD_PAGES
    /\ used \in 0 .. dbSize
    /\ pending \subseteq Pages

\* A pointer SQLite holds leads to the frame of its page until SQLite gives it
\* back, whatever is read, written and evicted meanwhile (os_unix.cxx:4855-4865
\* says what xFetch owes its caller; vmem.c:216, 304-306, 336-343).
MappingsValid ==
    \A h \in DOMAIN mapped :
        mapped[h].page \in hash /\ mapped[h].frame = slot[mapped[h].page]

\* What the page cache holds unmodified is what the file holds, wherever the
\* engine keeps it, so a page reads the same mapped or copied (vmem.c:396-473,
\* pager.c:5516-5543).
CacheCoherent ==
    \A p \in DOMAIN pcache \ dirty : pcache[p] = Contents[p]

\* No sequence of calls the pager makes ends in the NULL dereference of
\* DeReferencePage (vmem.c:310-334) or in a false intrusion alarm
\* (sgxvfs.c:128-131).
EngineNeverHalts == halted = "no"

\* The engine pages while nothing is mapped: a page that is not in the cache
\* is brought in, at the cost of the one at the rear (vmem.c:213, 276).
UnmappedEngineReplaces ==
    mapped = << >> /\ pending = {} => \A p \in Pages \ {0} : ~Refused(p)

================================================================================
