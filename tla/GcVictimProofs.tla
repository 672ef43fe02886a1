----------------------------- MODULE GcVictimProofs -----------------------------
(***************************************************************************)
(* The victim search, draw by draw, implements BlockManager, which takes   *)
(* it for one step: whatever is drawn, the plane is left alone, and ending *)
(* in the middle is the exit "gc_victim" of the allocation that called.    *)
(* Then, with what is proved of BlockManager's planes, what it chooses.    *)
(***************************************************************************)
EXTENDS GcVictim, BlockManagerProofs

\* While a search runs, the allocation that called it can still be made, and it is
\* one that searches.
Calling ==
    (search.phase # "idle" /\ exit = "none") =>
        /\ search.role = "data" => InFlight("ongoing_user_program_cnt") < MaxPrograms
        /\ Searches(search.role, search.stream)

SearchInv == SearchTypeOK /\ Calling

\* What a draw may do to the record of the search.
DrawnOn ==
    \/ UNCHANGED search
    \/ /\ search.repeat < NumBlocks
       /\ search' = [search EXCEPT !.repeat = @ + 1]
    \/ \E id \in Drawable : search' = [search EXCEPT !.phase = "chosen", !.candidate = id]
    \/ \E set \in SUBSET Drawable : search' = [search EXCEPT !.candidate_set = set]
    \/ \E set \in SUBSET Drawable, id \in Drawable :
          search' = [search EXCEPT !.candidate_set = set, !.phase = "chosen",
                                   !.candidate = id]

\* Whatever the policy and the verdict, a draw counts a retry that is left, extends the
\* set, or chooses.
LEMMA DrawShape ==
    ASSUME SearchTypeOK, NEW id \in Drawable, Draw(id)
    PROVE  DrawnOn
<1>1. PICK verdict \in Verdicts(id) :
        IF ByRandomSet THEN DrawIntoSet(id, verdict) ELSE DrawOne(id, verdict)
  BY DEF Draw
<1>2. CASE ByRandomSet
  <2> DEFINE set == IF verdict.safe THEN search.candidate_set \cup {id}
                    ELSE search.candidate_set
  <2>1. set \in SUBSET Drawable
    BY DEF SearchTypeOK, Search
  <2>2. ColdestOf(set) \subseteq set
    BY DEF ColdestOf
  <2> QED
    BY <1>1, <1>2, <2>1, <2>2 DEF DrawIntoSet, DrawnOn
<1>3. CASE ~ ByRandomSet
  <2>1. DrawOne(id, verdict)
    BY <1>1, <1>3
  <2>2. CASE verdict.unfit
    BY <2>1, <2>2 DEF DrawOne, DrawnOn
  <2>3. CASE ~ verdict.unfit /\ ~ verdict.safe /\ RetriesLeft
    BY <2>1, <2>3 DEF DrawOne, RetriesLeft, DrawnOn
  <2>4. CASE ~ verdict.unfit /\ ~ (~ verdict.safe /\ RetriesLeft)
    <3>1. search' = [search EXCEPT !.phase = "chosen", !.candidate = id]
      BY <2>1, <2>4 DEF DrawOne
    <3> QED
      BY <3>1 DEF DrawnOn
  <2> QED
    BY <2>2, <2>3, <2>4
<1> QED
  BY <1>2, <1>3

\* A draw keeps the type of the search and the call it belongs to.
LEMMA DrawKeeps ==
    ASSUME SearchTypeOK, DrawnOn
    PROVE  /\ search' \in Search
           /\ search'.role = search.role
           /\ search'.stream = search.stream
<1> USE DEF SearchTypeOK, Search, Phases
<1>1. CASE UNCHANGED search
  BY <1>1
<1>2. CASE /\ search.repeat < NumBlocks
           /\ search' = [search EXCEPT !.repeat = @ + 1]
  BY <1>2, PlaneAssumption
<1>3. ASSUME NEW id \in Drawable,
             search' = [search EXCEPT !.phase = "chosen", !.candidate = id]
      PROVE  /\ search' \in Search
             /\ search'.role = search.role
             /\ search'.stream = search.stream
  BY <1>3
<1>4. ASSUME NEW set \in SUBSET Drawable,
             search' = [search EXCEPT !.candidate_set = set]
      PROVE  /\ search' \in Search
             /\ search'.role = search.role
             /\ search'.stream = search.stream
  BY <1>4
<1>5. ASSUME NEW set \in SUBSET Drawable, NEW id \in Drawable,
             search' = [search EXCEPT !.candidate_set = set, !.phase = "chosen",
                                      !.candidate = id]
      PROVE  /\ search' \in Search
             /\ search'.role = search.role
             /\ search'.stream = search.stream
  BY <1>5
<1> QED
  BY <1>1, <1>2, <1>3, <1>4, <1>5 DEF DrawnOn

-----------------------------------------------------------------------------
(* Every step is one of BlockManager's                                        *)

\* The guard of an allocation, for the callers that have one.
LEMMA AllocationIsNext ==
    ASSUME NEW role \in Roles, NEW s \in Streams, Allocate(role, s),
           role = "data" => InFlight("ongoing_user_program_cnt") < MaxPrograms
    PROVE  Next
<1>1. CASE role = "data"
  BY <1>1 DEF Next, AllocateForUserWrite
<1>2. CASE role = "gc"
  BY <1>2 DEF Next, AllocateForGcWrite
<1>3. CASE role = "translation"
  BY <1>3 DEF Next, AllocateForTranslationGcWrite
<1> QED
  BY <1>1, <1>2, <1>3 DEF Roles

\* An allocation that searches may end in its search.
LEMMA SearchMayCrash ==
    ASSUME NEW role \in Roles, NEW s \in Streams, Searches(role, s),
           exit = "none", exit' = "gc_victim", UNCHANGED <<plane, held>>
    PROVE  Allocate(role, s)
<1> DEFINE taken == TakePage(plane, role, s)
           switched == SwitchedPlane(role, s)
           o == [plane |-> switched, exit |-> "gc_victim"]
<1>1. GcPolicy # "FIFO"
  BY SearchAssumption DEF DrawingPolicies
<1>2. o \in CheckGcRequired(switched)
  BY <1>1 DEF Searches, CheckGcRequired
<1>3. o \in AllocateBlockAndPage(plane, role, s)
  <2>1. IsFull(taken, plane.open_blocks[role][s]) /\ taken.free_block_pool # <<>>
    BY DEF Searches
  <2>2. AllocateBlockAndPage(plane, role, s) = CheckGcRequired(switched)
    BY <2>1 DEF AllocateBlockAndPage, SwitchedPlane
  <2> QED
    BY <1>2, <2>2
<1>4. Settle(o) /\ held' = IF o.exit = "none" THEN held \cup {NextPage(plane, role, s)} ELSE held
  BY DEF Settle
<1> HIDE DEF o
<1> QED
  BY <1>3, <1>4 DEF Allocate

\* The callers' steps, the draws and the return of the search keep its type and its
\* call, and are steps of BlockManager or leave its state alone.
LEMMA SearchStep ==
    ASSUME SearchInv, [SearchNext]_searchVars
    PROVE  SearchInv' /\ [Next]_vars
<1> USE DEF SearchInv
<1>1. ASSUME NEW role \in Roles, NEW s \in Streams, CallSearch(role, s)
      PROVE  SearchInv' /\ UNCHANGED vars
  <2>1. PICK n \in IF ByRandomSet THEN RgaSizes ELSE {0} :
          search' = [Idle EXCEPT !.phase = "drawing", !.role = role, !.stream = s,
                                 !.rga_set_size = n]
    BY <1>1 DEF CallSearch
  <2>2. n \in Nat
    BY SearchAssumption
  <2>3. UNCHANGED <<plane, exit, held, gc_policy>>
    BY <1>1 DEF CallSearch
  <2>4. /\ search'.phase = "drawing" /\ search'.role = role /\ search'.stream = s
        /\ search' \in Search
    <3>1. search' = [phase |-> "drawing", role |-> role, stream |-> s, repeat |-> 0,
                     rga_set_size |-> n, candidate_set |-> {}, candidate |-> 0]
      BY <2>1 DEF Idle
    <3>2. 0 \in 0..NumBlocks
      BY PlaneAssumption
    <3> QED
      BY <2>2, <3>1, <3>2 DEF Search, Phases, Drawable
  <2>5. Calling'
    BY <1>1, <2>3, <2>4 DEF CallSearch, Calling, Searches, SwitchedPlane, InFlight
  <2> QED
    BY <2>3, <2>4, <2>5 DEF SearchTypeOK, vars
<1>2. ASSUME Work PROVE SearchInv' /\ Next
  BY <1>2 DEF Work, SearchTypeOK, Calling, Idle
<1>3. ASSUME NEW id \in Drawable, Draw(id) PROVE SearchInv' /\ UNCHANGED vars
  <2>1. DrawnOn
    BY <1>3, DrawShape
  <2>2. search.phase = "drawing" /\ UNCHANGED <<plane, exit, held, gc_policy>>
    BY <1>3 DEF Draw
  <2>3. search' \in Search /\ search'.role = search.role /\ search'.stream = search.stream
    BY <2>1, DrawKeeps
  <2>4. Calling'
    BY <2>2, <2>3 DEF Calling, Searches, SwitchedPlane, InFlight
  <2> QED
    BY <2>2, <2>3, <2>4 DEF SearchTypeOK, vars
<1>4. ASSUME EmptySetRead PROVE SearchInv' /\ UNCHANGED vars
  <2>1. DrawnOn
    BY <1>4 DEF EmptySetRead, DrawnOn
  <2>2. search.phase = "drawing" /\ UNCHANGED <<plane, exit, held, gc_policy>>
    BY <1>4 DEF EmptySetRead
  <2>3. search' \in Search /\ search'.role = search.role /\ search'.stream = search.stream
    BY <2>1, DrawKeeps
  <2>4. Calling'
    BY <2>2, <2>3 DEF Calling, Searches, SwitchedPlane, InFlight
  <2> QED
    BY <2>2, <2>3, <2>4 DEF SearchTypeOK, vars
<1>5. ASSUME Crash PROVE SearchInv' /\ Next
  <2>1. search.role \in Roles /\ search.stream \in Streams
    BY DEF SearchTypeOK, Search
  <2>2. /\ search.phase = "drawing" /\ exit = "none" /\ exit' = "gc_victim"
        /\ UNCHANGED <<plane, held, gc_policy, search>>
    BY <1>5 DEF Crash
  <2>3. /\ search.role = "data" => InFlight("ongoing_user_program_cnt") < MaxPrograms
        /\ Searches(search.role, search.stream)
    BY <2>2 DEF Calling
  <2>4. Allocate(search.role, search.stream)
    BY <2>1, <2>2, <2>3, SearchMayCrash
  <2> QED
    BY <2>1, <2>2, <2>3, <2>4, AllocationIsNext DEF SearchTypeOK, Calling
<1>6. ASSUME Return PROVE SearchInv' /\ Next
  <2>1. search.role \in Roles /\ search.stream \in Streams
    BY DEF SearchTypeOK, Search
  <2>2. /\ search.phase = "chosen" /\ Allocate(search.role, search.stream)
        /\ search' = Idle /\ UNCHANGED gc_policy
    BY <1>6 DEF Return
  <2>3. search.role = "data" => InFlight("ongoing_user_program_cnt") < MaxPrograms
    BY <2>2 DEF Calling, Allocate
  <2>4. search' \in Search /\ search'.phase = "idle"
    BY <2>1, <2>2, PlaneAssumption DEF Idle, Search, Phases, Drawable, Streams, Roles
  <2> QED
    BY <2>1, <2>2, <2>3, <2>4, AllocationIsNext DEF SearchTypeOK, Calling
<1>7. ASSUME UNCHANGED searchVars PROVE SearchInv' /\ UNCHANGED vars
  BY <1>7 DEF searchVars, vars, SearchTypeOK, Calling, Searches, SwitchedPlane, InFlight
<1> QED
  BY <1>1, <1>2, <1>3, <1>4, <1>5, <1>6, <1>7 DEF SearchNext

LEMMA SearchInitHolds ==
    ASSUME SearchInit
    PROVE  SearchInv
  BY PlaneAssumption DEF SearchInit, SearchInv, SearchTypeOK, Calling, Idle, Search, Phases,
     Drawable, Streams, Roles

\* Retries are counted up to the number of blocks and no further, whatever is drawn: the
\* comparison in the loop of CheckGcRequired stops before it counts once more.
THEOREM SearchTypeCorrect == SearchSpec => []SearchTypeOK
<1>1. SearchInv /\ [SearchNext]_searchVars => SearchInv'
  BY SearchStep
<1> QED
  BY <1>1, SearchInitHolds, PTL DEF SearchSpec, SearchInv

\* The search implements BlockManager: GcWlUnit draws for as long as it likes, but
\* the plane its caller goes on with is the one it was called with.
THEOREM Implementation == SearchSpec => ImplementsBlockManager
<1>1. SearchInv /\ [SearchNext]_searchVars => SearchInv' /\ [Next]_vars
  BY SearchStep
<1>2. SearchInit => Init
  BY DEF SearchInit
<1> QED
  BY <1>1, <1>2, SearchInitHolds, PTL DEF SearchSpec, ImplementsBlockManager, Spec

-----------------------------------------------------------------------------
(* What the search chooses                                                    *)

\* What the search may rely on in the plane it reads: only blocks that are neither
\* open nor pooled are full, a block that is neither open nor full has no invalid
\* page, and each block counts the bits of its bitmap.
WellKept(p) ==
    /\ p \in PlaneRecord
    /\ \A c \in Blocks : IsOpen(p, c) \/ Pooled(p.free_block_pool, c)
          => p.blocks[c].current_write_page_index # PagesPerBlock
    /\ \A c \in Blocks :
          (/\ ~ IsOpen(p, c)
           /\ p.blocks[c].current_write_page_index # PagesPerBlock)
             => p.blocks[c].invalid_page_count = 0
    /\ \A c \in Blocks : p.blocks[c].invalid_page_count
                           = Cardinality(p.blocks[c].invalid_page_bitmap)

\* The plane is well kept when the search starts, in the middle of the allocation: the
\* block just filled is closed and the new one comes blank from the pool.
LEMMA SwitchedWellKept ==
    ASSUME IInv, CountersAgree, NEW role \in Roles, NEW s \in Streams, Searches(role, s)
    PROVE  WellKept(SwitchedPlane(role, s))
<1> DEFINE b == plane.open_blocks[role][s]
           q == TakePage(plane, role, s)
           n == Head(q.free_block_pool).block
           p == ReplaceOpenBlock(q, role, s)
<1>1. /\ plane \in PlaneRecord /\ b \in Blocks /\ plane.blocks[b] \in BlockSlot
      /\ plane.blocks[b].current_write_page_index < PagesPerBlock
  BY DEF IInv, TypeOK, PlaneRecord, PointersFitHolder
<1>2. /\ q \in PlaneRecord
      /\ q.blocks = [plane.blocks EXCEPT ![b] = Written(plane.blocks[b], role)]
      /\ q.open_blocks = plane.open_blocks
      /\ q.free_block_pool = plane.free_block_pool
  BY <1>1, TakenPage
<1>3. q.free_block_pool # <<>> /\ q.blocks[b].current_write_page_index = PagesPerBlock
  BY DEF Searches, IsFull
<1>4. /\ p \in PlaneRecord
      /\ p.blocks = [q.blocks EXCEPT ![n] = [@ EXCEPT !.stream_id = s]]
      /\ p.open_blocks = [q.open_blocks EXCEPT ![role][s] = n]
      /\ p.free_block_pool = Tail(q.free_block_pool)
  <2>1. q \in PlaneRecord /\ q.free_block_pool # <<>>
    BY <1>2, <1>3
  <2> HIDE DEF q
  <2> QED
    BY <2>1, ReplacedOpenBlock
<1>5. /\ n \in Blocks /\ InPool(n)
      /\ \A c : Pooled(p.free_block_pool, c) <=> InPool(c) /\ c # n
  <2>1. plane.free_block_pool \in Seq(PoolEntry) /\ EachPooledOnce(plane.free_block_pool)
    BY <1>1 DEF PlaneRecord, IInv, HolderExclusive
  <2>2. Head(plane.free_block_pool) \in PoolEntry
    BY <1>2, <1>3, <2>1, TailOfPool
  <2>3. n \in Blocks
    BY <1>2, <2>2 DEF PoolEntry
  <2> QED
    BY <1>2, <1>3, <1>4, <2>1, <2>3, TailOfPool DEF InPool
<1>6. \A c \in Blocks :
         /\ p.blocks[c].current_write_page_index = q.blocks[c].current_write_page_index
         /\ p.blocks[c].invalid_page_count = q.blocks[c].invalid_page_count
         /\ p.blocks[c].invalid_page_bitmap = q.blocks[c].invalid_page_bitmap
  <2>1. q.blocks \in [Blocks -> BlockSlot]
    BY <1>2 DEF PlaneRecord
  <2> HIDE DEF q
  <2>2. p.blocks[n] = [q.blocks[n] EXCEPT !.stream_id = s]
    BY <1>4, <1>5, <2>1
  <2>3. \A c \in Blocks : c # n => p.blocks[c] = q.blocks[c]
    BY <1>4, <2>1
  <2>4. q.blocks[n] \in BlockSlot
    BY <1>5, <2>1
  <2> HIDE DEF n, p
  <2>5. /\ p.blocks[n].current_write_page_index = q.blocks[n].current_write_page_index
        /\ p.blocks[n].invalid_page_count = q.blocks[n].invalid_page_count
        /\ p.blocks[n].invalid_page_bitmap = q.blocks[n].invalid_page_bitmap
    BY <2>2, <2>4 DEF BlockSlot
  <2> QED
    BY <2>3, <2>5
<1>7. \A c \in Blocks : c # b =>
         /\ p.blocks[c].current_write_page_index
               = plane.blocks[c].current_write_page_index
         /\ p.blocks[c].invalid_page_count = plane.blocks[c].invalid_page_count
  BY <1>1, <1>2, <1>6 DEF PlaneRecord
<1>8. p.blocks[b].current_write_page_index = PagesPerBlock /\ b # n
  <2>1. IsOpen(plane, b)
    BY DEF IsOpen
  <2> QED
    BY <1>1, <1>3, <1>5, <1>6, <2>1 DEF IInv, HolderExclusive
<1>9. \A r \in Roles, t \in Streams :
         p.open_blocks[r][t] = IF r = role /\ t = s THEN n ELSE plane.open_blocks[r][t]
  <2>1. plane.open_blocks \in [Roles -> [Streams -> Blocks]]
    BY <1>1 DEF PlaneRecord
  <2>2. p.open_blocks = [plane.open_blocks EXCEPT ![role][s] = n]
    BY <1>2, <1>4
  <2> HIDE DEF n, p
  <2> QED
    BY <2>1, <2>2
<1> HIDE DEF b, q, n, p
<1>10. ASSUME NEW c \in Blocks, IsOpen(p, c)
       PROVE  p.blocks[c].current_write_page_index # PagesPerBlock
  <2>1. PICK r \in Roles, t \in Streams : p.open_blocks[r][t] = c
    BY <1>10 DEF IsOpen
  <2>2. CASE r = role /\ t = s
    BY <1>5, <1>7, <1>8, <1>9, <2>1, <2>2, PlaneAssumption DEF IInv, PointersFitHolder
  <2>3. CASE ~ (r = role /\ t = s)
    <3>1. c = plane.open_blocks[r][t] /\ c # b
      BY <1>9, <2>1, <2>3 DEF b, IInv, HolderExclusive
    <3>2. /\ plane.blocks[c].current_write_page_index < PagesPerBlock
          /\ plane.blocks[c].current_write_page_index \in Nat
      BY <1>1, <3>1 DEF IInv, PointersFitHolder, PlaneRecord, BlockSlot
    <3> QED
      BY <1>7, <3>1, <3>2, PlaneAssumption
  <2> QED
    BY <2>2, <2>3
<1>11. ASSUME NEW c \in Blocks, Pooled(p.free_block_pool, c)
       PROVE  p.blocks[c].current_write_page_index # PagesPerBlock
  <2>1. InPool(c)
    BY <1>5, <1>11
  <2>2. c # b
    BY <2>1 DEF b, IInv, HolderExclusive, IsOpen
  <2> QED
    BY <1>7, <2>1, <2>2, PlaneAssumption DEF IInv, PointersFitHolder
<1>12. ASSUME NEW c \in Blocks, ~ IsOpen(p, c),
              p.blocks[c].current_write_page_index # PagesPerBlock
       PROVE  p.blocks[c].invalid_page_count = 0
  <2>1. c # b
    BY <1>8, <1>12
  <2>2. ~ IsOpen(plane, c)
    <3> SUFFICES ASSUME NEW r \in Roles, NEW t \in Streams,
                        plane.open_blocks[r][t] = c
                 PROVE  FALSE
      BY DEF IsOpen
    <3>1. ~ (r = role /\ t = s)
      BY <2>1 DEF b
    <3>2. p.open_blocks[r][t] = c
      BY <1>9, <3>1
    <3> QED
      BY <1>12, <3>2 DEF IsOpen
  <2>3. InPool(c)
    BY <1>7, <1>12, <2>1, <2>2 DEF IInv, PointersFitHolder
  <2>4. plane.blocks[c].invalid_page_bitmap = {}
    BY <2>3 DEF IInv, PointersFitHolder
  <2>5. plane.blocks[c].invalid_page_count = 0
    BY <2>4, FS_EmptySet DEF CountersAgree
  <2> QED
    BY <1>7, <2>1, <2>5
<1>13. p \in PlaneRecord
  BY <1>4 DEF p
<1>14. ASSUME NEW c \in Blocks
       PROVE  p.blocks[c].invalid_page_count = Cardinality(p.blocks[c].invalid_page_bitmap)
  <2>1. /\ q.blocks[c].invalid_page_count = plane.blocks[c].invalid_page_count
        /\ q.blocks[c].invalid_page_bitmap = plane.blocks[c].invalid_page_bitmap
    <3>1. CASE c = b
      <4>1. q.blocks[b] = Written(plane.blocks[b], role)
        BY <1>1, <1>2 DEF PlaneRecord
      <4> QED
        BY <1>1, <3>1, <4>1 DEF Written, BlockSlot
    <3>2. CASE c # b
      BY <1>1, <1>2, <3>2 DEF PlaneRecord
    <3> QED
      BY <3>1, <3>2
  <2> QED
    BY <1>6, <2>1 DEF CountersAgree
<1> QED
  <2>1. p = SwitchedPlane(role, s)
    BY DEF SwitchedPlane, p, q
  <2> QED
    BY <1>10, <1>11, <1>12, <1>13, <1>14, <2>1 DEF WellKept

\* The pages of a full block are valid but for those it counts as invalid.
LEMMA FullBlockPages ==
    ASSUME NEW p, WellKept(p), NEW c \in Blocks,
           p.blocks[c].current_write_page_index = PagesPerBlock
    PROVE  Cardinality(ValidPagesOf(p, c)) = PagesPerBlock - p.blocks[c].invalid_page_count
<1> DEFINE marked == p.blocks[c].invalid_page_bitmap
<1>1. marked \subseteq Pages
  BY DEF WellKept, PlaneRecord, BlockSlot
<1>2. ValidPagesOf(p, c) = Pages \ marked
  BY PlaneAssumption DEF ValidPagesOf, IsPageValid, Pages
<1>3. /\ IsFiniteSet(Pages) /\ Cardinality(Pages) = PagesPerBlock
      /\ Pages \cap marked = marked
  BY <1>1, PagesFinite
<1> HIDE DEF marked
<1>4. Cardinality(Pages \ marked) = Cardinality(Pages) - Cardinality(Pages \cap marked)
  BY <1>3, FS_Difference
<1> QED
  BY <1>2, <1>3, <1>4 DEF WellKept, marked

\* What has been drawn into the set so far.
DrawnSafely ==
    (search.phase = "drawing" /\ ByRandomSet) =>
        /\ \A c \in search.candidate_set \cap Blocks : IsSafeGcCandidate(Seen, c)
        /\ search.rga_set_size = 0 => search.candidate_set = {}

VictimInv ==
    /\ SearchInv
    /\ IInv
    /\ Counted
    /\ DrawnSafely
    /\ VictimAsAsked

\* RANDOM_PP's threshold is positive whenever it searches, whatever rho is.
LEMMA ThresholdPositive ==
    ASSUME MaxOngoingGc > 0
    PROVE  random_pp_threshold \in Nat \ {0}
<1> DEFINE m == random_pp_threshold
<1>1. RhoPages \in Nat /\ MaxOngoingGc \in Nat
  BY SearchAssumption, PlaneAssumption
<1>2. \E x \in {RhoPages, MaxOngoingGc} : \A y \in {RhoPages, MaxOngoingGc} : x >= y
  BY <1>1
<1>3. m \in {RhoPages, MaxOngoingGc} /\ \A y \in {RhoPages, MaxOngoingGc} : m >= y
  BY <1>2 DEF random_pp_threshold, Max
<1> QED
  BY <1>1, <1>3

\* While a search is under way it reads a well-kept plane, and MaxOngoingGc is not 0.
LEMMA SearchReads ==
    ASSUME VictimInv, search.phase = "drawing", exit = "none"
    PROVE  WellKept(Seen) /\ MaxOngoingGc > 0
<1>1. /\ search.role \in Roles /\ search.stream \in Streams
      /\ Searches(search.role, search.stream)
  BY DEF VictimInv, SearchInv, SearchTypeOK, Search, Calling
<1>2. WellKept(SwitchedPlane(search.role, search.stream))
  BY <1>1, SwitchedWellKept DEF VictimInv, Counted
<1> QED
  BY <1>1, <1>2, PlaneAssumption DEF Seen, Searches, VictimSearched

\* The block that RGA takes, once the set is full of safe blocks: none of the others
\* has more invalid pages, for those that are not full have none at all.
LEMMA ColdestIsCold ==
    ASSUME WellKept(Seen), NEW set \in SUBSET Drawable, NEW victim \in ColdestOf(set),
           victim \in Blocks,
           \A c \in set \cap Blocks : IsSafeGcCandidate(Seen, c)
    PROVE  /\ victim \in set /\ IsSafeGcCandidate(Seen, victim)
           /\ \A c \in set \cap Blocks : Invalid(c) <= Invalid(victim)
<1>1. /\ victim \in set
      /\ \A c \in set \cap Blocks : Full(c) => Invalid(c) <= Invalid(victim)
  BY DEF ColdestOf
<1>2. IsSafeGcCandidate(Seen, victim)
  BY <1>1
<1>3. \A c \in Blocks : Invalid(c) \in Nat
  BY DEF WellKept, PlaneRecord, BlockSlot, Invalid
<1>4. ASSUME NEW c \in set \cap Blocks, ~ Full(c)
      PROVE  Invalid(c) <= Invalid(victim)
  <2>1. ~ IsOpen(Seen, c)
    BY DEF IsSafeGcCandidate
  <2>2. Invalid(c) = 0
    BY <1>4, <2>1 DEF WellKept, Full, Invalid
  <2> QED
    BY <1>3, <2>2
<1> QED
  BY <1>1, <1>2, <1>4

LEMMA DrawChoosesWell ==
    ASSUME VictimInv, NEW id \in Drawable, Draw(id)
    PROVE  DrawnSafely' /\ VictimAsAsked'
<1>1. PICK verdict \in Verdicts(id) :
        IF ByRandomSet THEN DrawIntoSet(id, verdict) ELSE DrawOne(id, verdict)
  BY DEF Draw
<1>2. /\ search.phase = "drawing" /\ exit = "none"
      /\ UNCHANGED <<plane, exit, held, gc_policy>>
  BY DEF Draw
<1>3. WellKept(Seen) /\ MaxOngoingGc > 0
  BY <1>2, SearchReads
<1>4. search'.role = search.role /\ search'.stream = search.stream
  BY DrawShape, DrawKeeps DEF VictimInv, SearchInv
<1>5. Seen' = Seen
  BY <1>2, <1>4 DEF Seen, SwitchedPlane
<1>6. ByRandomSet' <=> ByRandomSet
  BY <1>2 DEF ByRandomSet
<1>7. id \in Blocks => verdict = [unfit |-> Unfit(id), safe |-> IsSafeGcCandidate(Seen, id)]
  BY <1>1 DEF Verdicts
<1>8. search \in Search
  BY DEF VictimInv, SearchInv, SearchTypeOK
<1>9. CASE ByRandomSet
  <2> DEFINE set == IF verdict.safe THEN search.candidate_set \cup {id}
                    ELSE search.candidate_set
  <2>1. set \in SUBSET Drawable
    BY <1>8 DEF Search
  <2>2. \A c \in set \cap Blocks : IsSafeGcCandidate(Seen, c)
    BY <1>2, <1>7, <1>9 DEF VictimInv, DrawnSafely
  <2>3. search.rga_set_size # 0
    <3>1. ASSUME search.rga_set_size = 0 PROVE FALSE
      <4>1. search.candidate_set = {}
        BY <1>2, <1>9, <3>1 DEF VictimInv, DrawnSafely
      <4>2. Cardinality(search.candidate_set) < search.rga_set_size
        BY <1>1, <1>9 DEF DrawIntoSet
      <4> QED
        BY <3>1, <4>1, <4>2, FS_EmptySet
    <3> QED
      BY <3>1
  <2>4. CASE search' = [search EXCEPT !.candidate_set = set]
    <3>1. /\ search'.phase = "drawing" /\ search'.candidate_set = set
          /\ search'.rga_set_size = search.rga_set_size
      BY <1>2, <1>8, <2>4 DEF Search
    <3> QED
      BY <1>5, <2>2, <2>3, <3>1 DEF DrawnSafely, VictimAsAsked
  <2>5. ASSUME NEW victim \in ColdestOf(set),
               search' = [search EXCEPT !.candidate_set = set, !.phase = "chosen",
                                        !.candidate = victim]
        PROVE  DrawnSafely' /\ VictimAsAsked'
    <3>1. /\ search'.phase = "chosen" /\ search'.candidate_set = set
          /\ search'.candidate = victim
      BY <1>8, <2>5 DEF Search
    <3>2. gc_policy' \notin {"RANDOM_P", "RANDOM_PP"}
      BY <1>2, <1>9 DEF ByRandomSet
    <3> HIDE DEF set
    <3>3. victim \in Blocks =>
            /\ victim \in set /\ IsSafeGcCandidate(Seen, victim)
            /\ \A c \in set \cap Blocks :
                  Seen.blocks[c].invalid_page_count <= Seen.blocks[victim].invalid_page_count
      BY <1>3, <2>1, <2>2, ColdestIsCold DEF Invalid
    <3> QED
      BY <1>5, <1>6, <1>9, <3>1, <3>2, <3>3 DEF DrawnSafely, VictimAsAsked, Invalid
  <2> QED
    BY <1>1, <1>9, <2>4, <2>5 DEF DrawIntoSet
<1>10. CASE ~ ByRandomSet
  <2>1. DrawOne(id, verdict)
    BY <1>1, <1>10
  <2>2. DrawnSafely'
    BY <1>6, <1>10 DEF DrawnSafely
  <2>3. CASE search'.phase = "drawing"
    BY <2>2, <2>3 DEF VictimAsAsked
  <2>4. CASE search'.phase # "drawing"
    <3>1. /\ ~ verdict.unfit
          /\ verdict.safe \/ ~ RetriesLeft
          /\ search' = [search EXCEPT !.phase = "chosen", !.candidate = id]
      <4>1. search'.phase = "drawing" \/
              (/\ ~ verdict.unfit
               /\ verdict.safe \/ ~ RetriesLeft
               /\ search' = [search EXCEPT !.phase = "chosen", !.candidate = id])
        BY <1>2, <1>8, <2>1 DEF DrawOne, Search
      <4> QED
        BY <2>4, <4>1
    <3>2. /\ search'.phase = "chosen" /\ search'.candidate = id
          /\ search'.repeat = search.repeat
      BY <1>8, <3>1 DEF Search
    <3>3. ASSUME id \in Blocks
          PROVE  /\ IsSafeGcCandidate(Seen, id) \/ search.repeat = NumBlocks
                 /\ gc_policy \in {"RANDOM_P", "RANDOM_PP"} =>
                       ~ IsOpen(Seen, id) /\ ~ Pooled(Seen.free_block_pool, id)
                 /\ gc_policy = "RANDOM_PP" =>
                       Cardinality(ValidPagesOf(Seen, id)) + random_pp_threshold
                          <= PagesPerBlock
      <4>1. ~ Unfit(id) /\ (IsSafeGcCandidate(Seen, id) \/ ~ RetriesLeft)
        BY <1>7, <3>1, <3>3
      <4>2. gc_policy \in {"RANDOM_P", "RANDOM_PP"} =>
              Seen.blocks[id].current_write_page_index = PagesPerBlock
        BY <4>1 DEF Unfit, Full
      <4>3. gc_policy \in {"RANDOM_P", "RANDOM_PP"} =>
              ~ IsOpen(Seen, id) /\ ~ Pooled(Seen.free_block_pool, id)
        BY <1>3, <3>3, <4>2 DEF WellKept
      <4>4. ASSUME gc_policy = "RANDOM_PP"
            PROVE  Cardinality(ValidPagesOf(Seen, id)) + random_pp_threshold
                      <= PagesPerBlock
        <5>1. Seen.blocks[id].invalid_page_count \in Nat
          BY <1>3, <3>3 DEF WellKept, PlaneRecord, BlockSlot
        <5>2. random_pp_threshold \in Nat \ {0}
          BY <1>3, ThresholdPositive
        <5>3. Cardinality(ValidPagesOf(Seen, id))
                 = PagesPerBlock - Seen.blocks[id].invalid_page_count
          BY <1>3, <3>3, <4>2, <4>4, FullBlockPages
        <5>4. ~ (Seen.blocks[id].invalid_page_count < random_pp_threshold)
          BY <4>1, <4>4 DEF Unfit, Invalid
        <5> HIDE DEF random_pp_threshold
        <5> QED
          BY <5>1, <5>2, <5>3, <5>4, PlaneAssumption
      <4>5. ~ RetriesLeft => search.repeat = NumBlocks
        BY <1>8, PlaneAssumption DEF RetriesLeft, Search
      <4> QED
        BY <4>1, <4>3, <4>4, <4>5
    <3>4. gc_policy' # "RGA" /\ gc_policy' = gc_policy
      BY <1>2, <1>10 DEF ByRandomSet
    <3> QED
      BY <1>5, <2>2, <3>2, <3>3, <3>4 DEF VictimAsAsked
  <2> QED
    BY <2>3, <2>4
<1> QED
  BY <1>9, <1>10

LEMMA NextVictimInv ==
    ASSUME VictimInv, [SearchNext]_searchVars
    PROVE  VictimInv'
<1>1. SearchInv' /\ [Next]_vars
  BY SearchStep DEF VictimInv
<1>2. IInv' /\ Counted'
  BY <1>1, NextIInv, NextCounted DEF VictimInv
<1>3. DrawnSafely' /\ VictimAsAsked'
  <2>1. ASSUME NEW role \in Roles, NEW s \in Streams, CallSearch(role, s)
        PROVE  DrawnSafely' /\ VictimAsAsked'
    <3>1. PICK n \in IF ByRandomSet THEN RgaSizes ELSE {0} :
            search' = [Idle EXCEPT !.phase = "drawing", !.role = role, !.stream = s,
                                   !.rga_set_size = n]
      BY <2>1 DEF CallSearch
    <3>2. search'.phase = "drawing" /\ search'.candidate_set = {}
      BY <3>1 DEF Idle
    <3> QED
      BY <3>2 DEF DrawnSafely, VictimAsAsked
  <2>2. ASSUME search' = Idle
        PROVE  DrawnSafely' /\ VictimAsAsked'
    BY <2>2 DEF Idle, DrawnSafely, VictimAsAsked
  <2>3. ASSUME UNCHANGED <<plane, gc_policy, search>>
        PROVE  DrawnSafely' /\ VictimAsAsked'
    <3>1. Seen' = Seen /\ (ByRandomSet' <=> ByRandomSet)
      BY <2>3 DEF Seen, SwitchedPlane, ByRandomSet
    <3> QED
      BY <2>3, <3>1 DEF VictimInv, DrawnSafely, VictimAsAsked, Invalid
  <2>4. ASSUME NEW id \in Drawable, Draw(id)
        PROVE  DrawnSafely' /\ VictimAsAsked'
    BY <2>4, DrawChoosesWell
  <2>5. ASSUME EmptySetRead PROVE DrawnSafely' /\ VictimAsAsked'
    <3>1. /\ search.phase = "drawing" /\ ByRandomSet /\ search.rga_set_size = 0
          /\ UNCHANGED gc_policy
      BY <2>5 DEF EmptySetRead
    <3>2. PICK id \in Drawable :
            search' = [search EXCEPT !.phase = "chosen", !.candidate = id]
      BY <2>5 DEF EmptySetRead
    <3>3. search.candidate_set = {}
      BY <3>1 DEF VictimInv, DrawnSafely
    <3>4. /\ search'.phase = "chosen" /\ search'.rga_set_size = 0
          /\ search'.candidate_set = {}
      BY <3>1, <3>2, <3>3 DEF VictimInv, SearchInv, SearchTypeOK, Search
    <3>5. ByRandomSet' /\ gc_policy' \notin {"RANDOM_P", "RANDOM_PP"}
      BY <3>1 DEF ByRandomSet
    <3> QED
      BY <3>4, <3>5 DEF DrawnSafely, VictimAsAsked
  <2>6. Work => UNCHANGED search /\ search = Idle
    BY DEF Work
  <2>7. Crash => UNCHANGED <<plane, gc_policy, search>>
    BY DEF Crash
  <2>8. Return => search' = Idle
    BY DEF Return
  <2> QED
    BY <2>1, <2>2, <2>3, <2>4, <2>5, <2>6, <2>7, <2>8 DEF SearchNext, searchVars
<1> QED
  BY <1>1, <1>2, <1>3 DEF VictimInv

\* What the comments on RGA, RANDOM_P and RANDOM_PP ask of a victim holds of the plane the
\* search returns to, whatever is drawn: RGA's is a safe block with most invalid pages of
\* those it drew, RANDOM_P's a full one, RANDOM_PP's a full one with as few valid pages as
\* the threshold asks.  Nothing is said of GREEDY, nor of RANDOM_P's threshold.
THEOREM VictimsAsAsked == SearchSpec => []VictimAsAsked
<1>1. SearchInit => VictimInv
  <2> SUFFICES ASSUME SearchInit PROVE VictimInv
    OBVIOUS
  <2>1. Init /\ search.phase = "idle"
    BY DEF SearchInit, Idle
  <2>2. DrawnSafely /\ VictimAsAsked
    BY <2>1 DEF DrawnSafely, VictimAsAsked
  <2> QED
    BY <2>1, <2>2, SearchInitHolds, InitIInv, InitCounted DEF VictimInv
<1>2. VictimInv /\ [SearchNext]_searchVars => VictimInv'
  BY NextVictimInv
<1>3. VictimInv => VictimAsAsked
  BY DEF VictimInv
<1> QED
  BY <1>1, <1>2, <1>3, PTL DEF SearchSpec

=============================================================================
