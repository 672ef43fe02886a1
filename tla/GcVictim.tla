------------------------------- MODULE GcVictim -------------------------------
(***************************************************************************)
(* The victim search of CheckGcRequired, draw by draw, inside the          *)
(* allocation that calls it.  BlockManager takes the search for one step   *)
(* that returns with the plane as it was, or does not return              *)
(* ("gc_victim"); this module is what stands behind that step for the      *)
(* policies that draw blocks at random.                                    *)
(***************************************************************************)
EXTENDS BlockManager

CONSTANTS
    RgaSizes, \* values rga_set_size may have: nothing initialises it
    RhoPages  \* rho * page_per_block, rounded down

DrawingPolicies == GcPolicies \ {"FIFO"}

\* BlockManager asks of its policy only whether it is FIFO.
ASSUME SearchAssumption ==
    /\ GcPolicy \in DrawingPolicies
    /\ RgaSizes # {} /\ RgaSizes \subseteq Nat
    /\ RhoPages \in Nat

VARIABLES
    gc_policy, \* the policy of the collector, fixed at construction
    search     \* the call under way, and what its search reads and keeps

searchVars == <<plane, exit, held, gc_policy, search>>

\* dist(rng) is uniform on 0..INT_MAX, whatever the number of blocks: NumBlocks stands
\* for every id that is not a block's.
Drawable == 0..NumBlocks

Phases == {"idle", "drawing", "chosen"}

Search ==
    [phase : Phases, role : Roles, stream : Streams, repeat : 0..NumBlocks,
     rga_set_size : Nat, candidate_set : SUBSET Drawable, candidate : Drawable]

Idle == [phase |-> "idle", role |-> "data", stream |-> 0, repeat |-> 0,
         rga_set_size |-> 0, candidate_set |-> {}, candidate |-> 0]

SearchInit ==
    /\ Init
    /\ gc_policy \in DrawingPolicies
    /\ search = Idle

-----------------------------------------------------------------------------
(* The call                                                                   *)

\* The plane as the search finds it: the page is taken, the block is switched.
SwitchedPlane(role, s) == ReplaceOpenBlock(TakePage(plane, role, s), role, s)

Seen == SwitchedPlane(search.role, search.stream)

\* An allocation that fills its block, finds another and leaves the pool low.
Searches(role, s) ==
    /\ IsFull(TakePage(plane, role, s), plane.open_blocks[role][s])
    /\ TakePage(plane, role, s).free_block_pool # <<>>
    /\ VictimSearched(SwitchedPlane(role, s))

ByRandomSet == gc_policy \in {"RGA", "GREEDY"}

CallSearch(role, s) ==
    /\ search = Idle /\ exit = "none"
    /\ role = "data" => InFlight("ongoing_user_program_cnt") < MaxPrograms
    /\ Searches(role, s)
    /\ \E n \in IF ByRandomSet THEN RgaSizes ELSE {0} :
          search' = [Idle EXCEPT !.phase = "drawing", !.role = role, !.stream = s,
                                 !.rga_set_size = n]
    /\ UNCHANGED <<plane, exit, held, gc_policy>>

\* Everything else BlockManager does; the allocations it makes do not search.
Work ==
    /\ search = Idle
    /\ Next
    /\ ~ (plane'.open_blocks # plane.open_blocks /\ VictimSearched(plane'))
    /\ exit' # "gc_victim"
    /\ UNCHANGED <<gc_policy, search>>

-----------------------------------------------------------------------------
(* The draws                                                                  *)

Full(b) == Seen.blocks[b].current_write_page_index = PagesPerBlock

Invalid(b) == Seen.blocks[b].invalid_page_count

random_pp_threshold == Max({RhoPages, MaxOngoingGc})

\* What RANDOM_P and RANDOM_PP go on drawing for, however often.
Unfit(b) ==
    \/ gc_policy \in {"RANDOM_P", "RANDOM_PP"} /\ ~ Full(b)
    \/ gc_policy = "RANDOM_PP" /\ Invalid(b) < random_pp_threshold

\* Reading beyond the blocks may give any answer.
Verdicts(id) ==
    IF id \in Blocks
    THEN {[unfit |-> Unfit(id), safe |-> IsSafeGcCandidate(Seen, id)]}
    ELSE [unfit : BOOLEAN, safe : BOOLEAN]

\* mutant: one retry too many
RetriesOneMore == search.repeat <= NumBlocks

RetriesLeft == search.repeat < NumBlocks

\* mutant: a safe block is drawn for without end
DrawUntilSafe(id, verdict) ==
    IF verdict.unfit \/ ~ verdict.safe THEN UNCHANGED search
    ELSE search' = [search EXCEPT !.phase = "chosen", !.candidate = id]

\* RANDOM, RANDOM_P and RANDOM_PP.
DrawOne(id, verdict) ==
    IF verdict.unfit THEN UNCHANGED search
    ELSE IF ~ verdict.safe /\ RetriesLeft
    THEN search' = [search EXCEPT !.repeat = @ + 1]
    ELSE search' = [search EXCEPT !.phase = "chosen", !.candidate = id]

\* mutant: the first of the set, however few pages it has to give
FirstOf(set) == {id \in set : \A c \in set : id <= c}

\* The first of the ids drawn, unless a full block has more invalid pages: then the first
\* of the full blocks with most.  What is not a block may compare in any way.
ColdestOf(set) ==
    {id \in set : id \in Blocks =>
        \A c \in set \cap Blocks :
            /\ Full(c) => Invalid(c) <= Invalid(id)
            /\ c < id => Full(id) /\ Invalid(c) < Invalid(id)}

\* RGA, which GREEDY falls through to: its own choice, read from block 0 or 1, is lost.
DrawIntoSet(id, verdict) ==
    LET set == IF verdict.safe THEN search.candidate_set \cup {id} ELSE search.candidate_set
    IN  /\ Cardinality(search.candidate_set) < search.rga_set_size
        /\ IF Cardinality(set) < search.rga_set_size
           THEN search' = [search EXCEPT !.candidate_set = set]
           ELSE \E victim \in ColdestOf(set) :
                  search' = [search EXCEPT !.candidate_set = set, !.phase = "chosen",
                                           !.candidate = victim]

Draw(id) ==
    /\ search.phase = "drawing" /\ exit = "none"
    /\ \E verdict \in Verdicts(id) :
          IF ByRandomSet THEN DrawIntoSet(id, verdict) ELSE DrawOne(id, verdict)
    /\ UNCHANGED <<plane, exit, held, gc_policy>>

\* A set of no blocks is not drawn for; its first element is whatever is there.
EmptySetRead ==
    /\ search.phase = "drawing" /\ exit = "none"
    /\ ByRandomSet /\ search.rga_set_size = 0
    /\ \E id \in Drawable :
          search' = [search EXCEPT !.phase = "chosen", !.candidate = id]
    /\ UNCHANGED <<plane, exit, held, gc_policy>>

\* Reading beyond the blocks, or the set, may end the process.
Crash ==
    /\ search.phase = "drawing" /\ exit = "none"
    /\ exit' = "gc_victim"
    /\ UNCHANGED <<plane, held, gc_policy, search>>

\* mutant: the victim is marked before the allocation goes on
ReturnMarking ==
    /\ search.phase = "chosen" /\ search.candidate \in Blocks
    /\ plane' = [Seen EXCEPT !.blocks[search.candidate].has_ongoing_gc = TRUE]
    /\ held' = held \cup {NextPage(plane, search.role, search.stream)}
    /\ search' = Idle
    /\ UNCHANGED <<exit, gc_policy>>

\* The victim is dropped, and the allocation goes on as if nothing had been chosen.
Return ==
    /\ search.phase = "chosen"
    /\ Allocate(search.role, search.stream)
    /\ exit' # "gc_victim"
    /\ search' = Idle
    /\ UNCHANGED gc_policy

SearchNext ==
    \/ \E role \in Roles, s \in Streams : CallSearch(role, s)
    \/ Work
    \/ \E id \in Drawable : Draw(id)
    \/ EmptySetRead
    \/ Crash
    \/ Return

\* The loop goes on drawing, and what has a chance is drawn in the end: an id is drawn
\* that changes something, if there is one.
SearchSpec ==
    /\ SearchInit
    /\ [][SearchNext]_searchVars
    /\ WF_searchVars(\E b \in Blocks : Draw(b))
    /\ WF_searchVars(EmptySetRead)

-----------------------------------------------------------------------------
(* Properties                                                                 *)

SearchTypeOK ==
    /\ gc_policy \in DrawingPolicies
    /\ search \in Search

\* What the comments on the policies ask for, of a victim within the blocks: RGA takes
\* from its set a block with most invalid pages, and a safe one; RANDOM_P and RANDOM_PP
\* take a full block, which an open one or one waiting in the pool is not, and RANDOM_PP
\* one with few valid pages; those that draw one block at a time take an unsafe one only
\* when their retries are used up.  The comments ask for two things the code does not do,
\* and which are not claimed: GREEDY's coldest block, and few valid pages of RANDOM_P.
VictimAsAsked ==
    (search.phase = "chosen" /\ search.candidate \in Blocks) =>
        LET b == search.candidate
        IN  /\ (gc_policy = "RGA" /\ search.rga_set_size > 0) =>
                  /\ b \in search.candidate_set /\ IsSafeGcCandidate(Seen, b)
                  /\ \A c \in search.candidate_set \cap Blocks : Invalid(c) <= Invalid(b)
            /\ gc_policy \in {"RANDOM_P", "RANDOM_PP"} =>
                  ~ IsOpen(Seen, b) /\ ~ Pooled(Seen.free_block_pool, b)
            /\ gc_policy = "RANDOM_PP" =>
                  Cardinality(ValidPagesOf(Seen, b)) + random_pp_threshold <= PagesPerBlock
            /\ ~ ByRandomSet => IsSafeGcCandidate(Seen, b) \/ search.repeat = NumBlocks

\* When a search must find something: RANDOM gives up asking for a safe block, and
\* the block that the calling allocation has just filled is one for RANDOM_P.
Findable ==
    CASE ByRandomSet ->
           Cardinality({b \in Blocks : IsSafeGcCandidate(Seen, b)}) >= search.rga_set_size
      [] gc_policy = "RANDOM_PP" -> \E b \in Blocks : ~ Unfit(b)
      [] OTHER -> TRUE

Ended == search.phase # "drawing" \/ exit # "none"

\* The search ends, under every policy, whenever there is something to find.
SearchEnds == (search.phase = "drawing" /\ Findable) ~> Ended

\* RANDOM_PP takes the coldest block if none has enough invalid pages.
ThresholdFallsBack == (search.phase = "drawing" /\ gc_policy = "RANDOM_PP") ~> Ended

\* The search is what BlockManager takes it for: one step that leaves the plane alone.
ImplementsBlockManager == Spec
=============================================================================
