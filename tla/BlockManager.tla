---------------------------- MODULE BlockManager ----------------------------
(***************************************************************************)
(* BlockManager over one plane, driven by its callers.  Planes share       *)
(* nothing (GetPlaneBookKeepingEntry only indexes), so one plane stands    *)
(* for all.  The callers keep the addresses they were given (held): the    *)
(* mapping table in the repository, which later writes invalidate through. *)
(* The repository declares but does not contain the garbage collector      *)
(* proper; the steps it makes on this class are modelled from the API: it  *)
(* takes a written block that IsSafeGcCandidate accepts, moves the valid   *)
(* pages away, erases, hands the block back and ends the collection.       *)
(***************************************************************************)
EXTENDS PlaneBookKeeping

CONSTANTS
    MaxErase,    \* bound: erasures of one block
    MaxPrograms, \* bound: user programs in flight on the plane
    MaxReads     \* bound: user reads in flight on the plane

VARIABLES
    plane,  \* PlaneBookKeeping
    exit,   \* why the process has ended, "none" while it runs
    held    \* page addresses the callers hold as the place of live data

vars == <<plane, exit, held>>

InFlight(field) == SumFunction([b \in Blocks |-> plane.blocks[b][field]])

Init ==
    /\ plane = NewPlane
    /\ exit = "none"
    /\ held = {}

\* The process keeps the new record if the call returns, and is gone otherwise.
Settle(o) ==
    /\ exit' = o.exit
    /\ plane' = IF o.exit = "none" THEN o.plane ELSE plane

-----------------------------------------------------------------------------
(* Allocation and invalidation                                                *)

Allocate(role, s) ==
    /\ exit = "none"
    /\ \E o \in AllocateBlockAndPage(plane, role, s) :
          /\ Settle(o)
          /\ held' = IF o.exit = "none" THEN held \cup {NextPage(plane, role, s)} ELSE held

AllocateForUserWrite(s) ==
    /\ InFlight("ongoing_user_program_cnt") < MaxPrograms
    /\ Allocate("data", s)

AllocateForGcWrite(s) == Allocate("gc", s)

AllocateForTranslationGcWrite(s) == Allocate("translation", s)

InvalidatePage(a) ==
    /\ exit = "none"
    /\ Settle(InvalidatePageInBlock(plane, a))
    /\ held' = held \ {a}

-----------------------------------------------------------------------------
(* Transactions in flight                                                     *)

\* These methods change a field of one slot.
Update(b, slot) ==
    /\ exit = "none"
    /\ plane' = [plane EXCEPT !.blocks[b] = slot]
    /\ UNCHANGED <<exit, held>>

ReadStarted(a) ==
    /\ InFlight("ongoing_user_read_cnt") < MaxReads
    /\ Update(a.block, [plane.blocks[a.block] EXCEPT !.ongoing_user_read_cnt = @ + 1])

ReadFinished(b) ==
    /\ plane.blocks[b].ongoing_user_read_cnt > 0
    /\ Update(b, [plane.blocks[b] EXCEPT !.ongoing_user_read_cnt = @ - 1])

\* A program the caller starts on the page it was last given in an open block.
ProgramStarted(b) ==
    /\ InFlight("ongoing_user_program_cnt") < MaxPrograms
    /\ IsOpen(plane, b)
    /\ Update(b, [plane.blocks[b] EXCEPT !.ongoing_user_program_cnt = @ + 1])

ProgramFinished(b) ==
    /\ plane.blocks[b].ongoing_user_program_cnt > 0
    /\ Update(b, [plane.blocks[b] EXCEPT !.ongoing_user_program_cnt = @ - 1])

-----------------------------------------------------------------------------
(* Garbage collection                                                         *)

GcStarted(b) ==
    /\ plane.blocks[b].current_write_page_index > 0
    /\ IsSafeGcCandidate(plane, b)
    /\ Update(b, [plane.blocks[b] EXCEPT !.has_ongoing_gc = TRUE])

\* AddErasedBlockToPool, then GcFinishedOnBlock.
EraseCompleted(b) ==
    /\ exit = "none"
    /\ plane.blocks[b].has_ongoing_gc
    /\ CanExecGC(plane, b)
    /\ ValidPagesOf(plane, b) = {}
    /\ plane.blocks[b].erase_count < MaxErase
    /\ LET o == AddErasedBlockToPool(plane, b)
       IN  Settle([o EXCEPT !.plane.blocks[b].has_ongoing_gc = FALSE])
    /\ UNCHANGED held

Next ==
    \/ \E s \in Streams :
          \/ AllocateForUserWrite(s)
          \/ AllocateForGcWrite(s)
          \/ AllocateForTranslationGcWrite(s)
    \/ \E a \in held :
          \/ InvalidatePage(a)
          \/ ReadStarted(a)
    \/ \E b \in Blocks :
          \/ ReadFinished(b)
          \/ ProgramStarted(b)
          \/ ProgramFinished(b)
          \/ GcStarted(b)
          \/ EraseCompleted(b)

Spec == Init /\ [][Next]_vars

-----------------------------------------------------------------------------
(* Properties                                                                 *)

TypeOK ==
    /\ plane \in PlaneRecord
    /\ exit \in Exits
    /\ held \subseteq PageAddress

InPool(b) == Pooled(plane.free_block_pool, b)

\* No block is handed out twice: the pool lists a block at most once, no two open
\* slots of any role and stream share one, and an open block is not in the pool.
HolderExclusive ==
    /\ EachPooledOnce(plane.free_block_pool)
    /\ \A r1, r2 \in Roles, s1, s2 \in Streams :
          plane.open_blocks[r1][s1] = plane.open_blocks[r2][s2] => r1 = r2 /\ s1 = s2
    /\ \A b \in Blocks : ~ (InPool(b) /\ IsOpen(plane, b))

\* The write pointers agree with who holds a block: blank in the pool, with room
\* and owned by its stream while open, full everywhere else.
PointersFitHolder ==
    /\ \A b \in Blocks : InPool(b) =>
          /\ plane.blocks[b].current_write_page_index = 0
          /\ plane.blocks[b].invalid_page_bitmap = {}
    /\ \A role \in Roles, s \in Streams :
          LET slot == plane.blocks[plane.open_blocks[role][s]]
          IN  slot.current_write_page_index < PagesPerBlock /\ slot.stream_id = s
    /\ \A b \in Blocks :
          \/ InPool(b)
          \/ IsOpen(plane, b)
          \/ plane.blocks[b].current_write_page_index = PagesPerBlock

\* What the callers hold is what the bitmaps call valid, under the stream the
\* block belongs to, across every erase and reuse of the block.
HeldPagesIntact ==
    /\ \A a \in held : /\ a.page \in ValidPagesOf(plane, a.block)
                        /\ a.stream = plane.blocks[a.block].stream_id
    /\ \A b \in Blocks : \A page \in ValidPagesOf(plane, b) :
          [stream |-> plane.blocks[b].stream_id, block |-> b, page |-> page] \in held

\* The plane's pages that the bitmaps call invalid, and those not written since the
\* erase of their block, as (block, page) pairs.
MarkedPages(p) ==
    {x \in Blocks \X Pages : x[2] \in p.blocks[x[1]].invalid_page_bitmap}

BlankPages(p) ==
    {x \in Blocks \X Pages : x[2] >= p.blocks[x[1]].current_write_page_index}

\* The plane's three counters count what callers hold, what the blocks' bitmaps call
\* invalid and what their write pointers have not passed, and each block's own count
\* is that of its bitmap: four records of one thing that no method updates together.
CountersAgree ==
    /\ plane.valid_pages_count = Cardinality(held)
    /\ plane.invalid_pages_count = Cardinality(MarkedPages(plane))
    /\ plane.free_pages_count = Cardinality(BlankPages(plane))
    /\ \A b \in Blocks : plane.blocks[b].invalid_page_count
                           = Cardinality(plane.blocks[b].invalid_page_bitmap)

\* A block under collection is full, neither open nor in the pool, and takes no
\* user program: the collector can count on its pages not changing under it.
VictimsClosed ==
    \A b \in Blocks : plane.blocks[b].has_ongoing_gc =>
        /\ ~ IsOpen(plane, b)
        /\ ~ InPool(b)
        /\ plane.blocks[b].ongoing_user_program_cnt = 0

\* Two of the exits of PRINT_ERROR are never taken: the plane never runs out of
\* free pages (it runs out of free blocks first), and a caller that invalidates
\* an address it was given is never told the block is another stream's.
SomeExitsUnreachable == exit \notin {"no_free_pages", "wrong_stream"}

\* FIFO's front() and pop() on block_usage_history never meet an empty queue:
\* every pop follows the push of the block just opened.
HistoryNeverEmpty == Len(plane.block_usage_history) >= 3 * NumStreams

\* The assertion of CheckBookKeepingCorrectness after an erase.
BookKeepingStaysConsistent == exit # "inconsistent"

\* The bookkeeping implements the NAND discipline of FlashPages.
Flash == INSTANCE FlashPages WITH
    programmed <- [b \in Blocks |-> plane.blocks[b].current_write_page_index],
    owner <- [b \in Blocks |-> IF plane.blocks[b].current_write_page_index = 0
                               THEN NoStream ELSE plane.blocks[b].stream_id],
    live <- held

ImplementsFlashPages == Flash!Spec
=============================================================================
