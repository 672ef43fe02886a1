--------------------------- MODULE AddressMapping ---------------------------
(***************************************************************************)
(* The page-level address mapping over the planes' bookkeeping: where user *)
(* writes, first reads and a garbage collection put logical pages.         *)
(*                                                                         *)
(* The table holds as many entries as there are logical pages, the         *)
(* default of AddressMappingDomain, so that nothing is evicted.  Declared  *)
(* without a body in the repository, and modelled by what the methods ask  *)
(* of them: the dispatcher, which loads an entry it does not find and      *)
(* keeps user transactions away from locked pages; the collector, which    *)
(* bars a victim's pages, moves them, lifts the bar when a move has been   *)
(* programmed and erases the block after that; the flash, which ends       *)
(* transactions in any order.                                              *)
(***************************************************************************)
EXTENDS PlaneBookKeeping, PhysicalAddress, FiniteSetsExt

CONSTANTS
    LpnSpan,         \* see CachedMappingTable
    InsertsReserved, \* see CachedMappingTable
    Lpas,            \* logical page addresses in use
    Bitmaps,         \* sets of sectors that a request reads or writes
    NoValue,         \* NO_VALUE, the PPA of a page that was never mapped
    Unset,           \* what an empty slot holds
    DriverReadsLpa,  \* FALSE: the code, whose driver is a stub.  TRUE: see GetLPA
    MaxErase,        \* bound: erasures in a plane
    MaxPrograms,     \* bound: user programs in flight
    MaxReads,        \* bound: user reads in flight
    MaxStalled       \* bound: user transactions left waiting

\* The mapping and the block manager have their own copies of the geometry.
ASSUME MappingAssumption ==
    /\ blocks_per_plane = NumBlocks /\ pages_per_block = PagesPerBlock
    /\ Lpas \subseteq Nat
    /\ \A b \in Bitmaps : b # {} /\ b \subseteq Nat
    /\ NoValue \notin PPA
    /\ DriverReadsLpa \in BOOLEAN
    /\ {MaxErase, MaxPrograms, MaxReads, MaxStalled} \subseteq Nat

VARIABLES
    planes,      \* the plane records
    slots,       \* the mapping table's slot of each logical page
    metadata,    \* the logical page stored with each valid physical page
    locked_lpa,  \* logical pages barred by a collection
    stalled,     \* how many user transactions wait in queues that nothing serves
    inflight,    \* user reads and programs on the flash
    moves,       \* programs of pages a collection moves
    exit         \* why the process has ended, "none" while it runs

vars == <<planes, slots, metadata, locked_lpa, stalled, inflight, moves, exit>>

LogicalPages == [stream_id : Streams, lpa : Lpas]

Sectors == UNION Bitmaps

Mappings == [ppa : PPA \cup {NoValue}, bitmap : SUBSET Sectors]

Cmt == INSTANCE CachedMappingTable WITH Capacity <- Cardinality(LogicalPages)

\* The erase count a block had at the start of a transaction is kept with it.
Transaction ==
    [id : 1..(MaxReads + MaxPrograms), type : {"READ", "WRITE"},
     plane : PlaneId, block : Blocks, erase_count : Nat]

Move ==
    [page : LogicalPages, plane : PlaneId, block : Blocks, erase_count : Nat,
     victim : Blocks]

MappingExits == {"not_found_or_not_valid", "mapping_disagrees", "already_locked",
                 "not_locked", "gc_mapping"}

Init ==
    /\ planes = [pl \in PlaneId |-> NewPlane]
    /\ slots = [k \in LogicalPages |-> Cmt!NoSlot]
    /\ metadata = [p \in PPA |-> NoValue]
    /\ locked_lpa = {}
    /\ stalled = 0
    /\ inflight = {}
    /\ moves = {}
    /\ exit = "none"

-----------------------------------------------------------------------------
(* Helpers                                                                    *)

Running == exit = "none"

\* The process is gone, and nothing it has done matters.
Ends(why) ==
    /\ exit' = why
    /\ UNCHANGED <<planes, slots, metadata, locked_lpa, stalled, inflight, moves>>

Mapping_entry_accessible(k) == k \in LogicalPages /\ Cmt!Exists(slots[k])

\* mutant: no page is ever found locked
NeverLocked(k) == FALSE

IsLPALockedForGC(k) == k \in locked_lpa

\* mutant: writes stop one block too late
StopServicingLate(pl) == Len(planes[pl].free_block_pool) + 1 < MaxOngoingGc

StopServicingWrites(pl) == Len(planes[pl].free_block_pool) < MaxOngoingGc

PPAOf(pl, b, page) ==
    ConvertAddresstoPPA(
        [channel_id |-> pl.channel_id, chip_id |-> pl.chip_id, die_id |-> pl.die_id,
         plane_id |-> pl.plane_id, block_id |-> b, page_id |-> page])

AddressOf(k) == ConvertPPAtoAddress(slots[k].mapping.ppa)

InFlightOf(type) == {t \in inflight : t.type = type}

Started(type, pl, b) ==
    [id |-> CHOOSE i \in 1..(MaxReads + MaxPrograms) : \A t \in InFlightOf(type) : t.id # i,
     type |-> type, plane |-> pl, block |-> b,
     erase_count |-> planes[pl].blocks[b].erase_count]

ReadStartedOnBlock(ps, a) ==
    [ps EXCEPT ![PlaneOf(a)].blocks[a.block_id].ongoing_user_read_cnt = @ + 1]

\* mutant: the old page stays valid
NotInvalidated(ps, k, ppa) == [planes |-> ps, exit |-> "none"]

\* InvalidatePageInBlock of the page a PPA names.
Invalidated(ps, k, ppa) ==
    LET a == ConvertPPAtoAddress(ppa)
        o == InvalidatePageInBlock(ps[PlaneOf(a)],
               [stream |-> k.stream_id, block |-> a.block_id, page |-> a.page_id])
    IN  [planes |-> [ps EXCEPT ![PlaneOf(a)] = o.plane], exit |-> o.exit]

\* An allocation that returned: the new page becomes the place of k.
Placed(ps, pl, role, k, bitmap, plane) ==
    LET page == NextPage(ps[pl], role, k.stream_id)
        new  == PPAOf(pl, page.block, page.page)
        old  == slots[k].mapping.ppa
    IN  /\ planes' = [ps EXCEPT ![pl] = plane]
        /\ slots' = [slots EXCEPT ![k] = Cmt!Update(@, [ppa |-> new, bitmap |-> bitmap])]
        /\ metadata' = [p \in PPA |-> CASE p = new -> k [] p = old -> NoValue
                                        [] OTHER -> metadata[p]]
        /\ UNCHANGED exit

-----------------------------------------------------------------------------
(* The dispatcher: entries, user reads and user writes                        *)

\* A slot is reserved and filled with what the mapping on flash says: nothing yet.
LoadEntry(k) ==
    /\ Running
    /\ slots[k].status = "FREE"
    /\ LET reserved == Cmt!Reserved(k.stream_id)
       IN  IF Cmt!InsertRefused(reserved) THEN Ends("not_found_or_not_valid")
           ELSE /\ slots' = [slots EXCEPT ![k] =
                                Cmt!Insert(reserved, [ppa |-> NoValue, bitmap |-> {}])]
                /\ UNCHANGED <<planes, metadata, locked_lpa, stalled, inflight, moves, exit>>

\* The queues are two of a domain, for pages behind a barrier, and one of each die, for
\* writes to an overfull plane.
Stall ==
    /\ stalled < MaxStalled
    /\ stalled' = stalled + 1
    /\ UNCHANGED <<planes, slots, metadata, locked_lpa, inflight, moves, exit>>

ManageUserTransactionFacingBarrier(k) ==
    /\ Running
    /\ Mapping_entry_accessible(k) /\ IsLPALockedForGC(k)
    /\ Stall

\* QueryCMT finds an entry, and no barrier has kept the transaction from asking.
Found(k) == Running /\ Mapping_entry_accessible(k) /\ ~ IsLPALockedForGC(k)

NeverMapped(k) == slots[k].mapping.ppa = NoValue

RoomToRead == Cardinality(InFlightOf("READ")) < MaxReads

Read(k) ==
    /\ Found(k) /\ ~ NeverMapped(k)
    /\ RoomToRead
    /\ planes' = ReadStartedOnBlock(planes, AddressOf(k))
    /\ inflight' = inflight \cup {Started("READ", PlaneOf(AddressOf(k)), AddressOf(k).block_id)}
    /\ UNCHANGED <<slots, metadata, locked_lpa, stalled, moves, exit>>

\* OnlineCreateEntryForRead allocates as for a user write, whatever is left in the
\* pool, and nothing will ever end the program it counts.
ReadUnmapped(k, r) ==
    /\ Found(k) /\ NeverMapped(k)
    /\ RoomToRead
    /\ LET pl == AllocatePlane(k.lpa)
           b  == NextPage(planes[pl], "data", k.stream_id).block
       IN  \E o \in AllocateBlockAndPage(planes[pl], "data", k.stream_id) :
             IF o.exit # "none" THEN Ends(o.exit)
             ELSE /\ Placed(planes, pl, "data", k, r,
                            [o.plane EXCEPT !.blocks[b].ongoing_user_read_cnt = @ + 1])
                  /\ inflight' = inflight \cup {Started("READ", pl, b)}
                  /\ UNCHANGED <<locked_lpa, stalled, moves>>

\* ManageUnsuccessfulTransaction.
WriteStopped(k) ==
    /\ Found(k)
    /\ StopServicingWrites(AllocatePlane(k.lpa))
    /\ Stall

\* NO_VALUE is converted and invalidated like a PPA: its channel is far beyond the
\* plane records, and reading there ends the process.
FirstWrite(k) ==
    /\ Found(k) /\ NeverMapped(k)
    /\ ~ StopServicingWrites(AllocatePlane(k.lpa))
    /\ Ends("undefined_behaviour")

\* AllocatePageInPlaneForUserWrite.  A write that leaves out sectors written before
\* reads the old page, which is invalid from now on.
Write(k, w) ==
    /\ Found(k) /\ ~ NeverMapped(k)
    /\ ~ StopServicingWrites(AllocatePlane(k.lpa))
    /\ Cardinality(InFlightOf("WRITE")) < MaxPrograms
    /\ LET pl   == AllocatePlane(k.lpa)
           prev == slots[k].mapping.bitmap
           old  == AddressOf(k)
           partial == (prev \cap w) # prev
           inv  == Invalidated(IF partial THEN ReadStartedOnBlock(planes, old) ELSE planes,
                               k, slots[k].mapping.ppa)
           b    == NextPage(inv.planes[pl], "data", k.stream_id).block
       IN  /\ partial => RoomToRead
           /\ IF inv.exit # "none" THEN Ends(inv.exit)
              ELSE \E o \in AllocateBlockAndPage(inv.planes[pl], "data", k.stream_id) :
                IF o.exit # "none" THEN Ends(o.exit)
                ELSE /\ Placed(inv.planes, pl, "data", k, w \cup prev, o.plane)
                     /\ inflight' = inflight \cup {Started("WRITE", pl, b)} \cup
                           (IF partial THEN {Started("READ", PlaneOf(old), old.block_id)}
                            ELSE {})
                     /\ UNCHANGED <<locked_lpa, stalled, moves>>

Counter(type) ==
    IF type = "READ" THEN "ongoing_user_read_cnt" ELSE "ongoing_user_program_cnt"

Finished(t) ==
    /\ Running
    /\ t \in inflight
    /\ planes' = [planes EXCEPT ![t.plane].blocks[t.block][Counter(t.type)] = @ - 1]
    /\ inflight' = inflight \ {t}
    /\ UNCHANGED <<slots, metadata, locked_lpa, stalled, moves, exit>>

-----------------------------------------------------------------------------
(* The collector                                                              *)

\* The driver's stub answers with the page's index in its block.  TRUE answers with
\* the logical page stored with the page, to explore what lies behind the errors.
GetLPA(pl, b, page) ==
    IF DriverReadsLpa THEN metadata[PPAOf(pl, b, page)].lpa ELSE page

PageIn(pl, b, page) ==
    [stream_id |-> planes[pl].blocks[b].stream_id, lpa |-> GetLPA(pl, b, page)]

\* What SetBarrierForPhysicalBlock says of a valid page of the block.
BarrierCheck(pl, b, page) ==
    LET k == PageIn(pl, b, page)
    IN  IF ~ Mapping_entry_accessible(k) THEN "not_found_or_not_valid"
        ELSE IF slots[k].mapping.ppa # PPAOf(pl, b, page) THEN "mapping_disagrees"
        ELSE IF k \in locked_lpa THEN "already_locked"
        ELSE "none"

\* GcStartedOnBlock and SetBarrierForPhysicalBlock, which stops at the first error.
\* IsSafeGcCandidate knows nothing of the programs of moves, which are not counted: the
\* collector has to keep off the blocks they go to, or would bar a page twice.
GcStart(pl, b) ==
    /\ Running
    /\ Cardinality({c \in Blocks : planes[pl].blocks[c].has_ongoing_gc}) < MaxOngoingGc
    /\ planes[pl].blocks[b].current_write_page_index > 0
    /\ IsSafeGcCandidate(planes[pl], b)
    /\ \A m \in moves : ~ (m.plane = pl /\ m.block = b)
    /\ LET valid == ValidPagesOf(planes[pl], b)
           wrong == {page \in valid : BarrierCheck(pl, b, page) # "none"}
       IN  IF wrong # {} THEN Ends(BarrierCheck(pl, b, Min(wrong)))
           ELSE /\ locked_lpa' = locked_lpa \cup {PageIn(pl, b, page) : page \in valid}
                /\ planes' = [planes EXCEPT ![pl].blocks[b].has_ongoing_gc = TRUE]
                /\ UNCHANGED <<slots, metadata, stalled, inflight, moves, exit>>

\* GetDataMappingForGC, then AllocateNewPageForGC in the victim's plane: the move
\* writes the sectors the mapping names, so that the check on them holds.
GcMove(k) ==
    /\ Running
    /\ k \in locked_lpa
    /\ \A m \in moves : m.page # k
    /\ LET old == AddressOf(k)
           pl  == PlaneOf(old)
           inv == Invalidated(planes, k, slots[k].mapping.ppa)
           b   == NextPage(inv.planes[pl], "gc", k.stream_id).block
       IN  IF ~ Mapping_entry_accessible(k) THEN Ends("not_found_or_not_valid")
           ELSE IF NeverMapped(k) THEN Ends("gc_mapping")
           ELSE IF inv.exit # "none" THEN Ends(inv.exit)
           ELSE \E o \in AllocateBlockAndPage(inv.planes[pl], "gc", k.stream_id) :
             IF o.exit # "none" THEN Ends(o.exit)
             ELSE /\ Placed(inv.planes, pl, "gc", k, slots[k].mapping.bitmap, o.plane)
                  /\ moves' = moves \cup
                       {[page |-> k, plane |-> pl, block |-> b, victim |-> old.block_id,
                         erase_count |-> planes[pl].blocks[b].erase_count]}
                  /\ UNCHANGED <<locked_lpa, stalled, inflight>>

\* mutant: the page stays locked
KeepBarrier(k) == locked_lpa

\* What the queues behind the barrier hold stays there.
RemoveBarrierForLPA(k) == locked_lpa \ {k}

MoveDone(m) ==
    /\ Running
    /\ m \in moves
    /\ IF m.page \notin locked_lpa THEN Ends("not_locked")
       ELSE /\ locked_lpa' = RemoveBarrierForLPA(m.page)
            /\ moves' = moves \ {m}
            /\ UNCHANGED <<planes, slots, metadata, stalled, inflight, exit>>

EraseCompleted(pl, b) ==
    /\ Running
    /\ planes[pl].blocks[b].has_ongoing_gc
    /\ CanExecGC(planes[pl], b)
    /\ ValidPagesOf(planes[pl], b) = {}
    /\ \A m \in moves : ~ (m.plane = pl /\ m.victim = b)
    /\ SumFunction([c \in Blocks |-> planes[pl].blocks[c].erase_count]) < MaxErase
    /\ LET o == AddErasedBlockToPool(planes[pl], b)
       IN  IF o.exit # "none" THEN Ends(o.exit)
           ELSE /\ planes' = [planes EXCEPT
                       ![pl] = [o.plane EXCEPT !.blocks[b].has_ongoing_gc = FALSE]]
                /\ UNCHANGED <<slots, metadata, locked_lpa, stalled, inflight, moves, exit>>

Next ==
    \/ \E k \in LogicalPages :
          \/ LoadEntry(k)
          \/ ManageUserTransactionFacingBarrier(k)
          \/ Read(k)
          \/ \E r \in Bitmaps : ReadUnmapped(k, r)
          \/ WriteStopped(k)
          \/ FirstWrite(k)
          \/ \E w \in Bitmaps : Write(k, w)
          \/ GcMove(k)
    \/ \E t \in inflight : Finished(t)
    \/ \E pl \in PlaneId, b \in Blocks : GcStart(pl, b) \/ EraseCompleted(pl, b)
    \/ \E m \in moves : MoveDone(m)

Spec == Init /\ [][Next]_vars

-----------------------------------------------------------------------------
(* Properties                                                                 *)

TypeOK ==
    /\ planes \in [PlaneId -> PlaneRecord]
    /\ slots \in [LogicalPages -> Cmt!Slot]
    /\ metadata \in [PPA -> LogicalPages \cup {NoValue}]
    /\ locked_lpa \subseteq LogicalPages
    /\ stalled \in 0..MaxStalled
    /\ inflight \subseteq Transaction
    /\ moves \subseteq Move
    /\ exit \in Exits \cup MappingExits \cup {"undefined_behaviour"}

Mapped(k) == Mapping_entry_accessible(k) /\ ~ NeverMapped(k)

\* The mapping and the planes' bitmaps say the same: a mapped page is valid, in the
\* plane its LPA belongs to and in a block of its stream, is nobody else's, and no
\* other page is valid.
MappedPagesValid ==
    /\ \A k \in LogicalPages : Mapped(k) =>
          LET a == AddressOf(k)
          IN  /\ PlaneOf(a) = AllocatePlane(k.lpa)
              /\ a.page_id \in ValidPagesOf(planes[PlaneOf(a)], a.block_id)
              /\ planes[PlaneOf(a)].blocks[a.block_id].stream_id = k.stream_id
              /\ metadata[slots[k].mapping.ppa] = k
    /\ \A pl \in PlaneId, b \in Blocks : \A page \in ValidPagesOf(planes[pl], b) :
          \E k \in LogicalPages : Mapped(k) /\ slots[k].mapping.ppa = PPAOf(pl, b, page)

\* The collector has to itself what it bars: the locked pages are those it is moving
\* and those still in its victims, so no user write comes between read and move.
LockedPagesHeld ==
    locked_lpa = {m.page : m \in moves} \cup
        {k \in LogicalPages : Mapped(k) /\
            planes[PlaneOf(AddressOf(k))].blocks[AddressOf(k).block_id].has_ongoing_gc}

\* No block is erased under a read, a user program or the program of a move.
InFlightUndisturbed ==
    \A t \in inflight \cup moves :
        t.erase_count = planes[t.plane].blocks[t.block].erase_count

\* Of the assertions that end the process, only an empty pool is ever met, besides
\* the first write of a page.
AssertionsHold == exit \in {"none", "empty_pool", "undefined_behaviour"}

Victims(pl) == {b \in Blocks : planes[pl].blocks[b].has_ongoing_gc}

\* Pages of a stream that the collections of a plane have still to move.
PagesToMove(pl, s) ==
    SumFunction([b \in Victims(pl) |->
        IF planes[pl].blocks[b].stream_id = s
        THEN Cardinality(ValidPagesOf(planes[pl], b)) ELSE 0])

\* Blocks the collections of a plane will still take: one whenever the moves of a
\* stream have filled its open block.
BlocksToTake(pl) ==
    SumFunction([s \in Streams |->
        (NextPage(planes[pl], "gc", s).page + PagesToMove(pl, s)) \div PagesPerBlock])

\* The pool when the collections under way have taken and returned what they will.
PoolInTheEnd(pl) ==
    Len(planes[pl].free_block_pool) + Cardinality(Victims(pl)) - BlocksToTake(pl)

\* A user write, or the first read of a page.
PlacesForUser(pl) ==
    \E k \in LogicalPages, r \in Bitmaps :
        AllocatePlane(k.lpa) = pl /\ (Write(k, r) \/ ReadUnmapped(k, r))

\* Collections pay back the blocks they take: from victim to erase, in any order of
\* several collections and among user traffic, they leave the pool no smaller than it
\* was to be without them.  Only users cost a block, one at a time, and writes, which
\* ask StopServicingWrites (first reads do not), never meet an empty pool nor leave
\* less than a block for each collection but one.
CollectionsPayBack ==
    [][/\ \A pl \in PlaneId :
             \/ PoolInTheEnd(pl)' >= PoolInTheEnd(pl)
             \/ PoolInTheEnd(pl)' = PoolInTheEnd(pl) - 1 /\ PlacesForUser(pl)
       /\ \A k \in LogicalPages, w \in Bitmaps : Write(k, w) =>
             /\ exit' # "empty_pool"
             /\ PoolInTheEnd(AllocatePlane(k.lpa))' >= MaxOngoingGc - 1]_vars

\* With dynamic wear leveling a plane opens a block for a write or a move only when
\* none in its pool has been erased less often, whatever order blocks came back in.
LeastWornFirst ==
    [][\A pl \in PlaneId, b \in Blocks :
          (DynamicWl /\ Pooled(planes[pl].free_block_pool, b)
                     /\ ~ Pooled(planes'[pl].free_block_pool, b)) =>
             \A c \in Blocks : Pooled(planes[pl].free_block_pool, c) =>
                planes[pl].blocks[b].erase_count <= planes[pl].blocks[c].erase_count]_vars

\* The first write of a page is served like any other, once an entry can be loaded.
FirstWritesServed == exit # "undefined_behaviour"

BlockIds == PlaneId \X Blocks

\* No block has a page of this number.
Nowhere == [block |-> NoValue, page |-> PagesPerBlock]

Place(k) ==
    LET a == AddressOf(k)
    IN  IF Mapped(k) THEN [block |-> <<PlaneOf(a), a.block_id>>, page |-> a.page_id]
        ELSE Nowhere

Programmed(id) == planes[id[1]].blocks[id[2]].current_write_page_index

Map == INSTANCE PageMap WITH
    Blocks <- BlockIds,
    place <- [k \in LogicalPages |-> Place(k)],
    programmed <- [id \in BlockIds |-> Programmed(id)]

\* Every logical page is in one page programmed for it since the last erase.
ImplementsPageMap == Map!Spec
=============================================================================
