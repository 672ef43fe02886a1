------------------------------ MODULE DataCache ------------------------------
(***************************************************************************)
(* DataCache, the LRU cache of flash pages, between a cache manager and    *)
(* the flash behind it.  The repository declares the manager (CacheManager)*)
(* and leaves it empty; it is modelled as the API allows it to be careful: *)
(* it updates what is cached and inserts what is not, makes room with      *)
(* EvictOneDirtyPage while there are unflushed pages, writes back what     *)
(* that returns, and removes a page whose write-back is done.  The flash   *)
(* serves the write-backs in order, as NandChip does.                      *)
(***************************************************************************)
EXTENDS Naturals, Sequences, FiniteSets, SequencesExt, Functions

CONSTANTS
    Pages,       \* keys LPN_TO_UNIQUE_KEY(stream_id, lpa)
    Contents,    \* what a page can hold
    Initial,     \* the content of every page at the start
    Capacities,  \* capacity_in_pages, one of which the constructor is given
    MaxFlushing  \* bound: write-backs in flight

ASSUME CacheAssumption ==
    /\ Initial \in Contents
    /\ Capacities \subseteq Nat
    /\ MaxFlushing \in Nat

VARIABLES
    capacity,  \* capacity_in_pages
    cache,     \* slots and lru_list
    flash,     \* the pages on flash
    flushing,  \* write-backs on their way to flash, in order
    newest,    \* what was last written to each page
    used,      \* the pages in the order the manager last asked for or stored them
    exit       \* "undefined_behaviour" when RemoveSlot has crashed the process

vars == <<capacity, cache, flash, flushing, newest, used, exit>>

\* The fields nothing here tells apart (LPA, time_stamp, sector_bitmap) are left out.
Slot == [data : Contents, status : {"CLEAN", "DIRTY_NO_FLUSH", "DIRTY_FLUSH"}]

Cache == [slots : UNION {[S -> Slot] : S \in SUBSET Pages}, lru_list : Seq(Pages)]

Write == [page : Pages, data : Contents]

-----------------------------------------------------------------------------
(* The methods: operators on the record [slots, lru_list], newest page first  *)

Cached(c) == DOMAIN c.slots

CheckFreeSlotAvailability(c) == Cardinality(Cached(c)) < capacity

lru_pos(list, k) == CHOOSE i \in DOMAIN list : list[i] = k

Erased(list, k) == RemoveAt(list, lru_pos(list, k))

\* mutant: the page is marked EMPTY and stays in the map
DroppedFromList(c, k) ==
    [slots    |-> [c.slots EXCEPT ![k].status = "EMPTY"],
     lru_list |-> Erased(c.lru_list, k)]

Dropped(c, k) ==
    [slots    |-> Restrict(c.slots, Cached(c) \ {k}),
     lru_list |-> Erased(c.lru_list, k)]

\* splice to the front
Refreshed(c, k) == [c EXCEPT !.lru_list = <<k>> \o Erased(@, k)]

\* slots.insert and push_front
Added(c, k, slot) ==
    [slots    |-> [j \in Cached(c) \cup {k} |-> IF j = k THEN slot ELSE c.slots[j]],
     lru_list |-> <<k>> \o c.lru_list]

\* In a list: j stands before k.
Precedes(list, j, k) == \E m, n \in DOMAIN list : list[m] = j /\ list[n] = k /\ m < n

Unflushed(c) == {k \in Cached(c) : c.slots[k].status = "DIRTY_NO_FLUSH"}

\* mutant: the unflushed page nearest to the front is taken
NewestUnflushed(c) ==
    {k \in Unflushed(c) : \A j \in Unflushed(c) \ {k} : Precedes(c.lru_list, k, j)}

\* The scan from the back stops at the first unflushed page.
OldestUnflushed(c) ==
    {k \in Unflushed(c) : \A j \in Unflushed(c) \ {k} : Precedes(c.lru_list, j, k)}

\* The page EvictOneDirtyPage throws out; without an unflushed one it takes the last
\* and tells its caller so by the status EMPTY.
DirtyVictim(c) ==
    IF Unflushed(c) # {} THEN OldestUnflushed(c) ELSE {Last(c.lru_list)}

EvictOnePageLRU(c) == IF Cached(c) = {} THEN c ELSE Dropped(c, Last(c.lru_list))

\* mutant: a full cache is not made to give up a page
InsertGrowing(c, k, slot) == Added(c, k, slot)

\* A page that is cached stays as it is; a full cache drops its oldest page.
Insert(c, k, slot) ==
    IF k \in Cached(c) THEN c
    ELSE Added(IF CheckFreeSlotAvailability(c) THEN c ELSE EvictOnePageLRU(c), k, slot)

-----------------------------------------------------------------------------
Init ==
    /\ capacity \in Capacities
    /\ cache = [slots |-> <<>>, lru_list |-> <<>>]
    /\ flash = [k \in Pages |-> Initial]
    /\ flushing = <<>>
    /\ newest = flash
    /\ used = <<>>
    /\ exit = "none"

Running == exit = "none" /\ UNCHANGED capacity

\* An insert that drops a page loses nothing when none waits to be written back.
RoomMade == CheckFreeSlotAvailability(cache) \/ Unflushed(cache) = {}

InFlight(k) == \E i \in DOMAIN flushing : flushing[i].page = k

Used(k) == used' = Append(IF k \in Range(used) THEN Erased(used, k) ELSE used, k)

GetSlot(k) ==
    /\ Running
    /\ k \in Cached(cache)
    /\ cache' = Refreshed(cache, k)
    /\ Used(k)
    /\ UNCHANGED <<flash, flushing, newest, exit>>

\* mutant: an update does not mark the page for write-back
UpdatedInPlace(c, k, data) ==
    Refreshed([c EXCEPT !.slots[k].data = data], k)

Updated(c, k, data) ==
    Refreshed([c EXCEPT !.slots[k] = [data |-> data, status |-> "DIRTY_NO_FLUSH"]], k)

UpdateData(k, data) ==
    /\ Running
    /\ k \in Cached(cache)
    /\ cache' = Updated(cache, k, data)
    /\ newest' = [newest EXCEPT ![k] = data]
    /\ Used(k)
    /\ UNCHANGED <<flash, flushing, exit>>

InsertWriteData(k, data) ==
    /\ Running /\ RoomMade
    /\ k \notin Cached(cache)
    /\ cache' = Insert(cache, k, [data |-> data, status |-> "DIRTY_NO_FLUSH"])
    /\ newest' = [newest EXCEPT ![k] = data]
    /\ Used(k)
    /\ UNCHANGED <<flash, flushing, exit>>

\* The manager reads a page from flash when none of its write-backs is on the way.
InsertReadData(k) ==
    /\ Running /\ RoomMade
    /\ k \notin Cached(cache)
    /\ ~ InFlight(k)
    /\ cache' = Insert(cache, k, [data |-> flash[k], status |-> "CLEAN"])
    /\ Used(k)
    /\ UNCHANGED <<flash, flushing, newest, exit>>

\* The manager writes back what it gets, unless its status is EMPTY.
EvictOneDirtyPage ==
    /\ Running
    /\ Cached(cache) # {} /\ ~ CheckFreeSlotAvailability(cache)
    /\ Len(flushing) < MaxFlushing
    /\ \E k \in DirtyVictim(cache) :
           /\ flushing' = IF cache.slots[k].status # "DIRTY_NO_FLUSH" THEN flushing
                          ELSE Append(flushing, [page |-> k, data |-> cache.slots[k].data])
           /\ cache' = Dropped(cache, k)
    /\ UNCHANGED <<flash, newest, used, exit>>

\* A write-back that keeps the page cached.
ChangeSlotStatusToWriteBack(k) ==
    /\ Running
    /\ k \in Unflushed(cache)
    /\ Len(flushing) < MaxFlushing
    /\ cache' = [cache EXCEPT !.slots[k].status = "DIRTY_FLUSH"]
    /\ flushing' = Append(flushing, [page |-> k, data |-> cache.slots[k].data])
    /\ UNCHANGED <<flash, newest, used, exit>>

FlushDone ==
    /\ Running
    /\ flushing # <<>>
    /\ flash' = [flash EXCEPT ![Head(flushing).page] = Head(flushing).data]
    /\ flushing' = Tail(flushing)
    /\ UNCHANGED <<cache, newest, used, exit>>

\* The iterator is read after the map node it points to is freed: the list position
\* may still be there, or the read may crash.
RemoveSlot(k) ==
    /\ Running
    /\ k \in Cached(cache)
    /\ cache.slots[k].status = "DIRTY_FLUSH" /\ ~ InFlight(k)
    /\ \/ cache' = Dropped(cache, k) /\ exit' = "none"
       \/ exit' = "undefined_behaviour" /\ UNCHANGED cache
    /\ UNCHANGED <<flash, flushing, newest, used>>

Next ==
    \/ \E k \in Pages :
          \/ GetSlot(k)
          \/ \E data \in Contents : UpdateData(k, data) \/ InsertWriteData(k, data)
          \/ InsertReadData(k)
          \/ ChangeSlotStatusToWriteBack(k)
          \/ RemoveSlot(k)
    \/ EvictOneDirtyPage
    \/ FlushDone

Spec == Init /\ [][Next]_vars

-----------------------------------------------------------------------------
(* Properties                                                                 *)

TypeOK ==
    /\ capacity \in Capacities
    /\ cache \in Cache
    /\ flash \in [Pages -> Contents]
    /\ flushing \in Seq(Write)
    /\ newest \in [Pages -> Contents]
    /\ used \in Seq(Pages)
    /\ exit \in {"none", "undefined_behaviour"}

\* The list and the map name the same pages, each once, and never more than the
\* capacity, which an insert takes for at least one page.
LruMatchesSlots ==
    /\ Range(cache.lru_list) = Cached(cache)
    /\ IsInjective(cache.lru_list)
    /\ Cardinality(Cached(cache)) <= IF capacity = 0 THEN 1 ELSE capacity

\* What flash will hold of a page: the last of its write-backs on the way, or else what
\* it holds already.
Arrives(k, data) ==
    IF InFlight(k)
    THEN \E i \in DOMAIN flushing :
            /\ flushing[i] = [page |-> k, data |-> data]
            /\ \A j \in DOMAIN flushing : flushing[j].page = k => j <= i
    ELSE flash[k] = data

\* No eviction, write-back, update or removal in between loses a write: it is cached,
\* or will be on flash.
NewestVisible ==
    \A k \in Pages :
        IF k \in Cached(cache) THEN cache.slots[k].data = newest[k] ELSE Arrives(k, newest[k])

\* A page not waiting to be written back is on flash or on its way there, so that
\* dropping it is safe.
FlushedIsSafe ==
    \A k \in Cached(cache) \ Unflushed(cache) : Arrives(k, cache.slots[k].data)

\* An unflushed page leaves the cache only when every other one was used after it.
LeastRecentlyUsed ==
    [][\A j, k \in Unflushed(cache) :
            j # k /\ k \notin Cached(cache') => Precedes(used, k, j)]_vars
=============================================================================
