-------------------------- MODULE PlaneBookKeeping --------------------------
(***************************************************************************)
(* One flash plane's bookkeeping (class PlaneBookKeeping and its           *)
(* BlockSlots) and the methods of BlockManager and GcWlUnit that read or   *)
(* change it.  A plane is a record with the fields of the class; a method  *)
(* is an operator from records to records, so that a handler that makes    *)
(* several calls is the composition of their operators.                    *)
(*                                                                         *)
(* A method that can end the process (PRINT_ERROR calls exit) returns      *)
(* outcomes [plane, exit]: exit is "none" when the call returns.           *)
(***************************************************************************)
EXTENDS Integers, Sequences, FiniteSets, SequencesExt

CONSTANTS
    NumStreams,      \* total_stream_count
    NumBlocks,       \* blocks_per_plane
    PagesPerBlock,   \* pages_per_block
    GcThreshold,     \* block_pool_gc_threshold, at least 1 by construction
    MaxOngoingGc,    \* max_ongoing_gc_reqs_per_plane
    GcPolicy,        \* gc_policy, a name of the enum GC_POLICY
    DynamicWl,       \* dynamic_wl_enabled
    CreditReclaimed  \* FALSE: the code.  TRUE: see ErasedCredit

GcPolicies == {"GREEDY", "RGA", "RANDOM", "RANDOM_P", "RANDOM_PP", "FIFO"}

\* 255 is the sentinel 0xff of stream_id; the constructor opens three blocks a stream.
ASSUME PlaneAssumption ==
    /\ NumStreams \in 1..255
    /\ NumBlocks \in Nat /\ NumBlocks >= 3 * NumStreams
    /\ PagesPerBlock \in Nat \ {0}
    /\ GcThreshold \in Nat \ {0}
    /\ MaxOngoingGc \in Nat
    /\ GcPolicy \in GcPolicies
    /\ DynamicWl \in BOOLEAN
    /\ CreditReclaimed \in BOOLEAN

Streams  == 0..(NumStreams - 1)
Blocks   == 0..(NumBlocks - 1)
Pages    == 0..(PagesPerBlock - 1)
Roles    == {"data", "gc", "translation"}   \* which *_open_blocks vector
NoStream == 255

\* Slots that nothing reads or that never change (current_status, hot_block,
\* is_bad, ongoing_erase_tr) are left out; the bitmap is the set of its bits.
BlockSlot ==
    [current_write_page_index : 0..PagesPerBlock,
     invalid_page_count       : Nat,
     invalid_page_bitmap      : SUBSET Pages,
     erase_count              : Nat,
     stream_id                : Streams \cup {NoStream},
     has_ongoing_gc           : BOOLEAN,
     ongoing_user_read_cnt    : Nat,
     ongoing_user_program_cnt : Nat]

\* free_block_pool is a multimap: its (erase count, block) pairs in iteration order.
PoolEntry == [key : Nat, block : Blocks]

PlaneRecord ==
    [free_pages_count    : Int,
     valid_pages_count   : Int,
     invalid_pages_count : Int,
     open_blocks         : [Roles -> [Streams -> Blocks]],
     free_block_pool     : Seq(PoolEntry),
     block_usage_history : Seq(Blocks),
     blocks              : [Blocks -> BlockSlot]]

PageAddress == [stream : Streams, block : Blocks, page : Pages]

TotalPages == NumBlocks * PagesPerBlock

Exits == {"none", "inconsistent", "no_free_pages", "empty_pool", "wrong_stream", "gc_victim"}

-----------------------------------------------------------------------------
(* Construction: every block enters the pool with key 0 in block order, then  *)
(* each stream opens its data, GC and translation block from the front.       *)

RoleIndex(role) ==
    CASE role = "data" -> 0 [] role = "gc" -> 1 [] role = "translation" -> 2

NewPlane ==
    [free_pages_count    |-> TotalPages,
     valid_pages_count   |-> 0,
     invalid_pages_count |-> 0,
     open_blocks         |-> [role \in Roles |->
                                [s \in Streams |-> 3 * s + RoleIndex(role)]],
     free_block_pool     |-> [i \in 1..(NumBlocks - 3 * NumStreams) |->
                                [key |-> 0, block |-> 3 * NumStreams + i - 1]],
     block_usage_history |-> [i \in 1..(3 * NumStreams) |-> i - 1],
     blocks              |-> [b \in Blocks |->
        [current_write_page_index |-> 0,
         invalid_page_count       |-> 0,
         invalid_page_bitmap      |-> {},
         erase_count              |-> 0,
         stream_id                |-> IF b < 3 * NumStreams THEN b \div 3 ELSE NoStream,
         has_ongoing_gc           |-> FALSE,
         ongoing_user_read_cnt    |-> 0,
         ongoing_user_program_cnt |-> 0]]]

-----------------------------------------------------------------------------
(* Queries                                                                    *)

IsOpen(p, b) == \E role \in Roles, s \in Streams : p.open_blocks[role][s] = b

Pooled(pool, b) == \E i \in DOMAIN pool : pool[i].block = b

EachPooledOnce(pool) ==
    \A i, j \in DOMAIN pool : pool[i].block = pool[j].block => i = j

IsPageValid(p, b, page) == page \notin p.blocks[b].invalid_page_bitmap

\* The pages SetBarrierForPhysicalBlock finds valid: what a GC must move away.
ValidPagesOf(p, b) ==
    {page \in Pages : /\ page < p.blocks[b].current_write_page_index
                      /\ IsPageValid(p, b, page)}

\* mutant: reads in flight are not looked at
CanExecUnderReads(p, b) == p.blocks[b].ongoing_user_program_cnt = 0

CanExecGC(p, b) ==
    p.blocks[b].ongoing_user_program_cnt + p.blocks[b].ongoing_user_read_cnt = 0

IsSafeIgnoringPrograms(p, b) ==   \* mutant: programs in flight are not looked at
    /\ ~ IsOpen(p, b)
    /\ ~ p.blocks[b].has_ongoing_gc

IsSafeGcCandidate(p, b) ==
    /\ ~ IsOpen(p, b)
    /\ ~ (p.blocks[b].ongoing_user_program_cnt > 0)
    /\ ~ p.blocks[b].has_ongoing_gc

-----------------------------------------------------------------------------
(* Free pool                                                                  *)

\* mutant: the new entry goes to the front of the pool
InsertFirst(pool, key, b) == InsertAt(pool, 1, [key |-> key, block |-> b])

\* multimap::insert keeps the keys sorted and puts an equal key after its equals.
AddToFreeBlockPool(pool, key, b) ==
    LET notGreater == {i \in DOMAIN pool : pool[i].key <= key}
    IN  InsertAt(pool, Cardinality(notGreater) + 1, [key |-> key, block |-> b])

\* mutant: the entry handed out stays in the pool
PeekFreeBlock(p, s) ==
    LET b == Head(p.free_block_pool).block
    IN  [p EXCEPT !.blocks[b].stream_id = s,
                  !.block_usage_history = Append(@, b)]

\* mutant: the block handed out is not recorded in the usage history
UnrecordedFreeBlock(p, s) ==
    LET b == Head(p.free_block_pool).block
    IN  [p EXCEPT !.free_block_pool = Tail(@),
                  !.blocks[b].stream_id = s]

\* mutant: the block handed out keeps the stream_id it had
UnownedFreeBlock(p, s) ==
    LET b == Head(p.free_block_pool).block
    IN  [p EXCEPT !.free_block_pool = Tail(@),
                  !.block_usage_history = Append(@, b)]

\* The caller has checked that the pool is not empty (exit "empty_pool").
GetOneFreeBlock(p, s) ==
    LET b == Head(p.free_block_pool).block
    IN  [p EXCEPT !.free_block_pool = Tail(@),
                  !.blocks[b].stream_id = s,
                  !.block_usage_history = Append(@, b)]

-----------------------------------------------------------------------------
(* Checks that end the process, and the garbage-collection trigger            *)

CheckBookKeepingCorrectness(p) ==
    IF p.free_pages_count + p.valid_pages_count + p.invalid_pages_count # TotalPages
    THEN "inconsistent"
    ELSE IF p.free_pages_count = 0 THEN "no_free_pages" ELSE "none"

Checked(p) == [plane |-> p, exit |-> CheckBookKeepingCorrectness(p)]

\* CheckGcRequired goes on to choose a victim.  Nothing ever enters
\* ongoing_erase_blocks, so its size is 0.
VictimSearched(p) == Len(p.free_block_pool) < GcThreshold /\ 0 < MaxOngoingGc

\* The search changes one thing, FIFO's history; the block it chooses is dropped.
\* The other policies index the blocks with ids drawn from all of int and loop on
\* them, so besides returning they can crash or never return (exit "gc_victim").
CheckGcRequired(p) ==
    LET searched == [p EXCEPT !.block_usage_history =
                                IF GcPolicy = "FIFO" THEN Tail(@) ELSE @]
    IN  IF ~ VictimSearched(p) THEN {Checked(p)}
        ELSE {Checked(searched)} \cup
             (IF GcPolicy = "FIFO" THEN {} ELSE {[plane |-> p, exit |-> "gc_victim"]})

-----------------------------------------------------------------------------
(* The three AllocateBlockAndPageInPlaneFor...Write methods, one per role: they *)
(* differ in the open block and in ProgramTransactionIssued (user writes).      *)

\* mutant: the switch to a new block comes one page too late
IsOverfull(p, b) == p.blocks[b].current_write_page_index > PagesPerBlock

IsFull(p, b) == p.blocks[b].current_write_page_index = PagesPerBlock

NextPage(p, role, s) ==
    LET b == p.open_blocks[role][s]
    IN  [stream |-> s, block |-> b, page |-> p.blocks[b].current_write_page_index]

\* ProgramTransactionIssued is called for user writes only.
Written(slot, role) ==
    [slot EXCEPT !.current_write_page_index = @ + 1,
                 !.ongoing_user_program_cnt = IF role = "data" THEN @ + 1 ELSE @]

TakePage(p, role, s) ==
    [p EXCEPT !.valid_pages_count = @ + 1,
              !.free_pages_count = @ - 1,
              !.blocks[p.open_blocks[role][s]] = Written(@, role)]

ReplaceOpenBlock(p, role, s) ==
    [GetOneFreeBlock(p, s) EXCEPT
        !.open_blocks[role][s] = Head(p.free_block_pool).block]

AllocateBlockAndPage(p, role, s) ==
    LET q == TakePage(p, role, s)
    IN  IF ~ IsFull(q, p.open_blocks[role][s]) THEN {Checked(q)}
        ELSE IF q.free_block_pool = <<>> THEN {[plane |-> q, exit |-> "empty_pool"]}
        ELSE CheckGcRequired(ReplaceOpenBlock(q, role, s))

-----------------------------------------------------------------------------
(* Invalidation and erasure                                                   *)

\* mutant: the page is marked, the block's count does not move
MarkedUncounted(slot, page) ==
    [slot EXCEPT !.invalid_page_bitmap = @ \cup {page}]

Marked(slot, page) ==
    [slot EXCEPT !.invalid_page_count = @ + 1,
                 !.invalid_page_bitmap = @ \cup {page}]

InvalidatePageInBlock(p, a) ==
    [plane |-> [p EXCEPT !.valid_pages_count = @ - 1,
                         !.invalid_pages_count = @ + 1,
                         !.blocks[a.block] = Marked(@, a.page)],
     exit  |-> IF p.blocks[a.block].stream_id = a.stream THEN "none" ELSE "wrong_stream"]

\* mutant: the write pointer survives the erase
EraseKeepingPointer(slot) ==
    [slot EXCEPT !.invalid_page_count = 0,
                 !.erase_count = @ + 1,
                 !.stream_id = NoStream,
                 !.invalid_page_bitmap = {}]

\* mutant: the invalid bits survive the erase
EraseKeepingBitmap(slot) ==
    [slot EXCEPT !.current_write_page_index = 0,
                 !.invalid_page_count = 0,
                 !.erase_count = @ + 1,
                 !.stream_id = NoStream]

Erase(slot) ==
    [slot EXCEPT !.current_write_page_index = 0,
                 !.invalid_page_count = 0,
                 !.erase_count = @ + 1,
                 !.stream_id = NoStream,
                 !.invalid_page_bitmap = {}]

\* The code credits the pages that were NOT invalid, while it takes the invalid
\* ones off: after moving all valid pages away these cannot balance, and the check
\* below ends the process.  CreditReclaimed = TRUE credits what is taken off, to
\* explore what lies behind that exit.
ErasedCredit(slot) ==
    IF CreditReclaimed THEN slot.invalid_page_count
    ELSE PagesPerBlock - slot.invalid_page_count

AddErasedBlockToPool(p, b) ==
    LET slot == p.blocks[b]
    IN  Checked([p EXCEPT
            !.free_pages_count = @ + ErasedCredit(slot),
            !.invalid_pages_count = @ - slot.invalid_page_count,
            !.blocks[b] = Erase(@),
            !.free_block_pool = AddToFreeBlockPool(
                @, IF DynamicWl THEN slot.erase_count + 1 ELSE 0, b)])

=============================================================================
