-------------------------- MODULE BlockManagerProofs --------------------------
(***************************************************************************)
(* Proofs about BlockManager for any number of streams, blocks and pages,  *)
(* any thresholds, policy and bounds, and for both values of               *)
(* CreditReclaimed.                                                        *)
(***************************************************************************)
EXTENDS BlockManager, PlaneBookKeepingProofs

-----------------------------------------------------------------------------
(* The inductive invariant                                                    *)

\* The bitmap marks no page that has not been written.
MarkedPagesWritten ==
    \A b \in Blocks : \A page \in plane.blocks[b].invalid_page_bitmap :
        page < plane.blocks[b].current_write_page_index

IInv ==
    /\ TypeOK
    /\ HolderExclusive
    /\ PointersFitHolder
    /\ VictimsClosed
    /\ MarkedPagesWritten
    /\ HeldPagesIntact

\* A call that ends the process leaves the plane as it was.
LEMMA ExitKeepsIInv ==
    ASSUME IInv, exit' \in Exits, plane' = plane, held' = held
    PROVE  IInv'
  BY DEF IInv, TypeOK, HolderExclusive, PointersFitHolder, VictimsClosed,
         MarkedPagesWritten, HeldPagesIntact, InPool, IsOpen, ValidPagesOf, IsPageValid

\* The plane's part of the invariant is that of PlaneBookKeepingProofs; the rest is
\* about what the callers hold.
LEMMA IInvSound ==
    ASSUME IInv
    PROVE  SoundPlane(plane) /\ \A c : InPool(c) <=> Pooled(plane.free_block_pool, c)
  BY DEF IInv, TypeOK, HolderExclusive, PointersFitHolder, VictimsClosed, MarkedPagesWritten,
         SoundPlane, HoldersApart, PointersAgree, VictimsKept, MarksWritten, InPool

LEMMA SoundIInv ==
    ASSUME SoundPlane(plane'), exit' \in Exits, held' \subseteq PageAddress, HeldPagesIntact'
    PROVE  IInv'
  BY DEF IInv, TypeOK, HolderExclusive, PointersFitHolder, VictimsClosed, MarkedPagesWritten,
         SoundPlane, HoldersApart, PointersAgree, VictimsKept, MarksWritten, InPool

LEMMA InitIInv == Init => IInv
  <1>. SUFFICES ASSUME Init PROVE IInv
    OBVIOUS
  <1>1. plane = NewPlane /\ held = {} /\ exit = "none"
    BY DEF Init
  <1>2. SoundPlane(plane)
    BY <1>1, NewPlaneSound
  <1>3. HeldPagesIntact
    <2>1. \A b \in Blocks : plane.blocks[b].current_write_page_index = 0
      BY <1>1 DEF NewPlane
    <2>2. \A b \in Blocks : ValidPagesOf(plane, b) = {}
      BY <2>1 DEF ValidPagesOf, Pages
    <2>. QED BY <1>1, <2>2 DEF HeldPagesIntact
  <1>. QED
    BY <1>1, <1>2, <1>3
    DEF IInv, TypeOK, HolderExclusive, PointersFitHolder, VictimsClosed, MarkedPagesWritten,
        SoundPlane, HoldersApart, PointersAgree, VictimsKept, MarksWritten, InPool, Exits

-----------------------------------------------------------------------------
(* Allocation                                                                 *)

\* The page handed out was not valid before, is valid after, and is held.
LEMMA AllocateKeepsIInv ==
    ASSUME IInv, NEW role \in Roles, NEW s \in Streams, Allocate(role, s)
    PROVE  IInv'
  <1>. DEFINE b == plane.open_blocks[role][s]
              slot == plane.blocks[b]
              page == slot.current_write_page_index
              a == NextPage(plane, role, s)
              new == Written(slot, role)
  <1>1. /\ SoundPlane(plane) /\ b \in Blocks /\ slot \in BlockSlot /\ page \in Pages
        /\ slot.stream_id = s /\ page < PagesPerBlock
    BY IInvSound, OpenBlock
  <1>2. PICK o \in AllocateBlockAndPage(plane, role, s) :
           /\ exit' = o.exit
           /\ plane' = IF o.exit = "none" THEN o.plane ELSE plane
           /\ held' = IF o.exit = "none" THEN held \cup {a} ELSE held
    BY DEF Allocate, Settle
  <1>3. o.exit \in Exits
    BY <1>1, <1>2, AllocationOutcome DEF SoundPlane
  <1>4. CASE o.exit # "none"
    BY <1>2, <1>3, <1>4, ExitKeepsIInv
  <1>5. CASE o.exit = "none"
    <2>1. /\ SoundPlane(plane') /\ held' = held \cup {a}
          /\ plane'.blocks[b] = new
          /\ \A c \in Blocks \ {b} : Untouched(plane'.blocks[c], plane.blocks[c])
      BY <1>1, <1>2, <1>5, SoundAllocation
    <2>2. /\ page \notin ValidPagesOf(plane, b)
          /\ ValidPagesOf(plane', b) = ValidPagesOf(plane, b) \cup {page}
          /\ \A c \in Blocks \ {b} : ValidPagesOf(plane', c) = ValidPagesOf(plane, c)
      <3>. DEFINE q == plane'
      <3>1. q.blocks[b] = new /\ \A c \in Blocks \ {b} : Untouched(q.blocks[c], plane.blocks[c])
        BY <2>1
      <3>. HIDE DEF q
      <3>2. /\ page \notin ValidPagesOf(plane, b)
            /\ ValidPagesOf(q, b) = ValidPagesOf(plane, b) \cup {page}
            /\ \A c \in Blocks \ {b} : ValidPagesOf(q, c) = ValidPagesOf(plane, c)
        BY <1>1, <3>1, AllocatedPageValid
      <3>. QED BY <3>2 DEF q
    <2>3. /\ new.stream_id = slot.stream_id
          /\ a = [stream |-> s, block |-> b, page |-> page] /\ a \in PageAddress
      BY <1>1, WrittenSlot DEF NextPage, PageAddress
    <2>. HIDE DEF a, new, page, b
    <2>4. HeldPagesIntact'
      <3>1. ASSUME NEW c \in Blocks, NEW x \in ValidPagesOf(plane, c)
            PROVE  plane'.blocks[c].stream_id = plane.blocks[c].stream_id
        <4>1. plane.blocks[c].current_write_page_index # 0
          BY <3>1 DEF ValidPagesOf, Pages
        <4>. QED BY <2>1, <2>3, <4>1 DEF Untouched, b
      <3>2. ASSUME NEW h \in held
            PROVE  /\ h.page \in ValidPagesOf(plane', h.block)
                   /\ h.stream = plane'.blocks[h.block].stream_id
        <4>1. /\ h.block \in Blocks /\ h.page \in ValidPagesOf(plane, h.block)
              /\ h.stream = plane.blocks[h.block].stream_id
          BY DEF IInv, TypeOK, PageAddress, HeldPagesIntact
        <4>. QED BY <2>2, <3>1, <4>1
      <3>3. a.page \in ValidPagesOf(plane', a.block) /\ a.stream = plane'.blocks[a.block].stream_id
        BY <1>1, <2>1, <2>2, <2>3 DEF b
      <3>4. ASSUME NEW c \in Blocks, NEW x \in ValidPagesOf(plane', c)
            PROVE  [stream |-> plane'.blocks[c].stream_id, block |-> c, page |-> x] \in held'
        <4>1. CASE x \in ValidPagesOf(plane, c)
          <5>1. [stream |-> plane.blocks[c].stream_id, block |-> c, page |-> x] \in held
            BY <4>1 DEF IInv, HeldPagesIntact
          <5>. QED BY <2>1, <3>1, <4>1, <5>1
        <4>2. CASE x \notin ValidPagesOf(plane, c)
          <5>1. c = b /\ x = page
            BY <2>2, <3>4, <4>2
          <5>. QED BY <2>1, <2>3, <3>3, <5>1
        <4>. QED BY <4>1, <4>2
      <3>. QED BY <2>1, <3>2, <3>3, <3>4 DEF HeldPagesIntact
    <2>5. held' \subseteq PageAddress
      BY <2>1, <2>3 DEF IInv, TypeOK
    <2>. QED BY <1>2, <1>3, <2>1, <2>4, <2>5, SoundIInv
  <1>. QED BY <1>4, <1>5

-----------------------------------------------------------------------------
(* Invalidation, erasure and the counts of transactions                       *)

LEMMA InvalidateKeepsIInv ==
    ASSUME IInv, NEW a \in held, InvalidatePage(a)
    PROVE  IInv'
  <1>. DEFINE b == a.block
              o == InvalidatePageInBlock(plane, a)
  <1>1. /\ SoundPlane(plane) /\ a \in PageAddress /\ b \in Blocks
        /\ plane.blocks[b] \in BlockSlot
    BY IInvSound DEF IInv, TypeOK, PageAddress, PlaneRecord
  <1>2. a.stream = plane.blocks[b].stream_id /\ a.page \in ValidPagesOf(plane, b)
    BY DEF IInv, HeldPagesIntact
  <1>3. /\ o.exit = "none" /\ SoundPlane(o.plane)
        /\ o.plane.blocks = [plane.blocks EXCEPT ![b] = Marked(plane.blocks[b], a.page)]
        /\ ValidPagesOf(o.plane, b) = ValidPagesOf(plane, b) \ {a.page}
        /\ \A c \in Blocks \ {b} : ValidPagesOf(o.plane, c) = ValidPagesOf(plane, c)
    BY <1>1, <1>2, SoundInvalidation
  <1>. HIDE DEF o
  <1>4. exit' = "none" /\ plane' = o.plane /\ held' = held \ {a}
    BY <1>3 DEF InvalidatePage, Settle, o
  <1>5. \A c \in Blocks : plane'.blocks[c].stream_id = plane.blocks[c].stream_id
    <2>1. Marked(plane.blocks[b], a.page).stream_id = plane.blocks[b].stream_id
      BY <1>1 DEF Marked, BlockSlot
    <2>. QED BY <1>1, <1>3, <1>4, <2>1 DEF SoundPlane, PlaneRecord
  <1>6. HeldPagesIntact'
    <2>1. ASSUME NEW h \in held'
          PROVE  /\ h.page \in ValidPagesOf(plane', h.block)
                 /\ h.stream = plane'.blocks[h.block].stream_id
      <3>1. /\ h \in PageAddress /\ h # a /\ h.block \in Blocks
            /\ h.page \in ValidPagesOf(plane, h.block)
            /\ h.stream = plane.blocks[h.block].stream_id
        BY <1>4, <2>1 DEF IInv, TypeOK, PageAddress, HeldPagesIntact
      <3>2. h.block = b => h.page # a.page
        BY <1>1, <1>2, <3>1 DEF PageAddress
      <3>. QED BY <1>3, <1>4, <1>5, <3>1, <3>2
    <2>2. ASSUME NEW c \in Blocks, NEW x \in ValidPagesOf(plane', c)
          PROVE  [stream |-> plane'.blocks[c].stream_id, block |-> c, page |-> x] \in held'
      <3>. DEFINE h == [stream |-> plane'.blocks[c].stream_id, block |-> c, page |-> x]
      <3>1. x \in ValidPagesOf(plane, c) /\ ~ (c = b /\ x = a.page)
        BY <1>3, <1>4, <2>2
      <3>2. h \in held
        BY <1>5, <3>1 DEF IInv, HeldPagesIntact
      <3>3. h # a
        BY <3>1
      <3>. QED BY <1>4, <3>2, <3>3
    <2>. QED BY <2>1, <2>2 DEF HeldPagesIntact
  <1>7. held' \subseteq PageAddress
    BY <1>4 DEF IInv, TypeOK
  <1>. QED BY <1>3, <1>4, <1>6, <1>7, SoundIInv DEF Exits

LEMMA EraseKeepsIInv ==
    ASSUME IInv, NEW b \in Blocks, EraseCompleted(b)
    PROVE  IInv'
  <1>. DEFINE o == [AddErasedBlockToPool(plane, b)
                       EXCEPT !.plane.blocks[b].has_ongoing_gc = FALSE]
  <1>1. /\ SoundPlane(plane) /\ plane.blocks[b].has_ongoing_gc /\ ValidPagesOf(plane, b) = {}
        /\ EachPooledOnce(plane.free_block_pool) /\ ~ Pooled(plane.free_block_pool, b)
    BY IInvSound DEF EraseCompleted, SoundPlane, HoldersApart, VictimsKept
  <1>2. o.exit \in Exits
    BY <1>1, EraseOutcome DEF SoundPlane
  <1>3. /\ SoundPlane(o.plane) /\ ValidPagesOf(o.plane, b) = {}
        /\ \A c \in Blocks \ {b} : /\ ValidPagesOf(o.plane, c) = ValidPagesOf(plane, c)
                                   /\ o.plane.blocks[c] = plane.blocks[c]
    <2>1. SoundPlane(o.plane) /\ ValidPagesOf(o.plane, b) = {}
      BY <1>1, SoundErase
    <2>2. \A c \in Blocks \ {b} : o.plane.blocks[c] = plane.blocks[c]
      BY <1>1, SoundErase
    <2>3. \A c \in Blocks \ {b} : ValidPagesOf(o.plane, c) = ValidPagesOf(plane, c)
      BY <1>1, SoundErase
    <2>. QED BY <2>1, <2>2, <2>3
  <1>4. /\ exit' = o.exit /\ held' = held
        /\ plane' = IF o.exit = "none" THEN o.plane ELSE plane
    BY DEF EraseCompleted, Settle
  <1>. HIDE DEF o
  <1>5. CASE o.exit # "none"
    BY <1>2, <1>4, <1>5, ExitKeepsIInv
  <1>6. CASE o.exit = "none"
    <2>1. plane' = o.plane
      BY <1>4, <1>6
    <2>2. \A h \in held : h.block \in Blocks \ {b}
      BY <1>1 DEF IInv, TypeOK, PageAddress, HeldPagesIntact
    <2>3. HeldPagesIntact'
      BY <1>3, <1>4, <2>1, <2>2 DEF IInv, HeldPagesIntact
    <2>4. held' \subseteq PageAddress
      BY <1>4 DEF IInv, TypeOK
    <2>. QED BY <1>2, <1>3, <1>4, <2>1, <2>3, <2>4, SoundIInv
  <1>. QED BY <1>5, <1>6

\* Replacing a slot by one that has the same pointer, bitmap and stream is quiet.
LEMMA QuietSlot ==
    ASSUME IInv, NEW b \in Blocks, NEW new \in BlockSlot,
           plane' = [plane EXCEPT !.blocks[b] = new], exit' = exit, held' = held,
           new.current_write_page_index = plane.blocks[b].current_write_page_index,
           new.invalid_page_bitmap = plane.blocks[b].invalid_page_bitmap,
           new.stream_id = plane.blocks[b].stream_id,
           new.has_ongoing_gc =>
              /\ ~ IsOpen(plane, b) /\ ~ InPool(b)
              /\ new.ongoing_user_program_cnt = 0
    PROVE  IInv'
  <1>1. SoundPlane(plane) /\ plane \in PlaneRecord
    BY IInvSound DEF SoundPlane
  <1>2. /\ SoundPlane(plane') /\ plane'.blocks = [plane.blocks EXCEPT ![b] = new]
        /\ \A c \in Blocks : ValidPagesOf(plane', c) = ValidPagesOf(plane, c)
    BY <1>1, SoundSlot DEF InPool
  <1>3. \A c \in Blocks : plane'.blocks[c].stream_id = plane.blocks[c].stream_id
    BY <1>1, <1>2 DEF PlaneRecord
  <1>4. HeldPagesIntact'
    <2>1. \A h \in held : h.block \in Blocks
      BY DEF IInv, TypeOK, PageAddress
    <2>. QED BY <1>2, <1>3, <2>1 DEF IInv, HeldPagesIntact
  <1>5. exit' \in Exits /\ held' \subseteq PageAddress
    BY DEF IInv, TypeOK
  <1>. QED BY <1>2, <1>4, <1>5, SoundIInv

\* The five actions that update one slot keep the invariant: reads and programs move
\* a count, and a collection starts only where VictimsClosed lets it.
LEMMA UpdatesKeepIInv ==
    ASSUME IInv, NEW b \in Blocks,
           \/ \E a \in held : a.block = b /\ ReadStarted(a)
           \/ ReadFinished(b) \/ ProgramStarted(b) \/ ProgramFinished(b) \/ GcStarted(b)
    PROVE  IInv'
  <1>. DEFINE slot == plane.blocks[b]
  <1>1. slot \in BlockSlot
    BY DEF IInv, TypeOK, PlaneRecord
  <1>2. slot.has_ongoing_gc =>
           ~ IsOpen(plane, b) /\ ~ InPool(b) /\ slot.ongoing_user_program_cnt = 0
    BY DEF IInv, VictimsClosed
  <1>3. ASSUME NEW a \in held, a.block = b, ReadStarted(a)
        PROVE  IInv'
    <2>. DEFINE new == [slot EXCEPT !.ongoing_user_read_cnt = @ + 1]
    <2>1. /\ plane' = [plane EXCEPT !.blocks[b] = new] /\ exit' = exit /\ held' = held
      BY <1>3 DEF ReadStarted, Update
    <2>2. /\ new \in BlockSlot
          /\ new.current_write_page_index = slot.current_write_page_index
          /\ new.invalid_page_bitmap = slot.invalid_page_bitmap
          /\ new.stream_id = slot.stream_id
          /\ new.has_ongoing_gc = slot.has_ongoing_gc
          /\ new.ongoing_user_program_cnt = slot.ongoing_user_program_cnt
      BY <1>1 DEF BlockSlot
    <2>. HIDE DEF new
    <2>. QED BY <1>2, <2>1, <2>2, QuietSlot
  <1>4. CASE ReadFinished(b)
    <2>. DEFINE new == [slot EXCEPT !.ongoing_user_read_cnt = @ - 1]
    <2>1. /\ plane' = [plane EXCEPT !.blocks[b] = new] /\ exit' = exit /\ held' = held
          /\ slot.ongoing_user_read_cnt > 0
      BY <1>4 DEF ReadFinished, Update
    <2>2. slot.ongoing_user_read_cnt - 1 \in Nat
      BY <1>1, <2>1 DEF BlockSlot
    <2>3. /\ new \in BlockSlot
          /\ new.current_write_page_index = slot.current_write_page_index
          /\ new.invalid_page_bitmap = slot.invalid_page_bitmap
          /\ new.stream_id = slot.stream_id
          /\ new.has_ongoing_gc = slot.has_ongoing_gc
          /\ new.ongoing_user_program_cnt = slot.ongoing_user_program_cnt
      BY <1>1, <2>2 DEF BlockSlot
    <2>. HIDE DEF new
    <2>. QED BY <1>2, <2>1, <2>3, QuietSlot
  <1>5. CASE ProgramStarted(b)
    <2>. DEFINE new == [slot EXCEPT !.ongoing_user_program_cnt = @ + 1]
    <2>1. /\ plane' = [plane EXCEPT !.blocks[b] = new] /\ exit' = exit /\ held' = held
          /\ IsOpen(plane, b)
      BY <1>5 DEF ProgramStarted, Update
    <2>2. /\ new \in BlockSlot
          /\ new.current_write_page_index = slot.current_write_page_index
          /\ new.invalid_page_bitmap = slot.invalid_page_bitmap
          /\ new.stream_id = slot.stream_id
          /\ new.has_ongoing_gc = slot.has_ongoing_gc
      BY <1>1 DEF BlockSlot
    <2>. HIDE DEF new
    <2>. QED BY <1>2, <2>1, <2>2, QuietSlot
  <1>6. CASE ProgramFinished(b)
    <2>. DEFINE new == [slot EXCEPT !.ongoing_user_program_cnt = @ - 1]
    <2>1. /\ plane' = [plane EXCEPT !.blocks[b] = new] /\ exit' = exit /\ held' = held
          /\ slot.ongoing_user_program_cnt > 0
      BY <1>6 DEF ProgramFinished, Update
    <2>2. slot.ongoing_user_program_cnt - 1 \in Nat
      BY <1>1, <2>1 DEF BlockSlot
    <2>3. /\ new \in BlockSlot
          /\ new.current_write_page_index = slot.current_write_page_index
          /\ new.invalid_page_bitmap = slot.invalid_page_bitmap
          /\ new.stream_id = slot.stream_id
          /\ new.has_ongoing_gc = slot.has_ongoing_gc
      BY <1>1, <2>2 DEF BlockSlot
    <2>4. ~ slot.has_ongoing_gc
      BY <1>1, <1>2, <2>1 DEF BlockSlot
    <2>. HIDE DEF new
    <2>. QED BY <2>1, <2>3, <2>4, QuietSlot
  <1>7. CASE GcStarted(b)
    <2>. DEFINE new == [slot EXCEPT !.has_ongoing_gc = TRUE]
    <2>1. /\ plane' = [plane EXCEPT !.blocks[b] = new] /\ exit' = exit /\ held' = held
          /\ slot.current_write_page_index > 0 /\ IsSafeGcCandidate(plane, b)
      BY <1>7 DEF GcStarted, Update
    <2>2. /\ new \in BlockSlot
          /\ new.current_write_page_index = slot.current_write_page_index
          /\ new.invalid_page_bitmap = slot.invalid_page_bitmap
          /\ new.stream_id = slot.stream_id
          /\ new.ongoing_user_program_cnt = slot.ongoing_user_program_cnt
      BY <1>1 DEF BlockSlot
    <2>. HIDE DEF new
    <2>3. ~ InPool(b)
      BY <2>1 DEF IInv, PointersFitHolder
    <2>4. ~ IsOpen(plane, b) /\ slot.ongoing_user_program_cnt = 0
      BY <1>1, <2>1 DEF IsSafeGcCandidate, BlockSlot
    <2>. QED BY <2>1, <2>2, <2>3, <2>4, QuietSlot
  <1>. QED BY <1>3, <1>4, <1>5, <1>6, <1>7

-----------------------------------------------------------------------------
(* The theorems                                                               *)

\* Every action keeps the invariant.
LEMMA NextIInv == IInv /\ [Next]_vars => IInv'
  <1>. SUFFICES ASSUME IInv, [Next]_vars PROVE IInv'
    OBVIOUS
  <1>1. ASSUME NEW s \in Streams,
               \/ AllocateForUserWrite(s) \/ AllocateForGcWrite(s)
               \/ AllocateForTranslationGcWrite(s)
        PROVE  IInv'
    <2>1. PICK role \in Roles : Allocate(role, s)
      BY <1>1 DEF Roles, AllocateForUserWrite, AllocateForGcWrite,
                  AllocateForTranslationGcWrite
    <2>. QED BY <2>1, AllocateKeepsIInv
  <1>2. ASSUME NEW a \in held, InvalidatePage(a)
        PROVE  IInv'
    BY <1>2, InvalidateKeepsIInv
  <1>3. ASSUME NEW a \in held, ReadStarted(a)
        PROVE  IInv'
    <2>1. a.block \in Blocks
      BY DEF IInv, TypeOK, PageAddress
    <2>. QED BY <1>3, <2>1, UpdatesKeepIInv
  <1>4. ASSUME NEW b \in Blocks,
               \/ ReadFinished(b) \/ ProgramStarted(b) \/ ProgramFinished(b)
               \/ GcStarted(b)
        PROVE  IInv'
    BY <1>4, UpdatesKeepIInv
  <1>5. ASSUME NEW b \in Blocks, EraseCompleted(b)
        PROVE  IInv'
    BY <1>5, EraseKeepsIInv
  <1>6. CASE UNCHANGED vars
    <2>1. plane' = plane /\ held' = held /\ exit' \in Exits
      BY <1>6 DEF vars, IInv, TypeOK
    <2>. QED BY <2>1, ExitKeepsIInv
  <1>. QED BY <1>1, <1>2, <1>3, <1>4, <1>5, <1>6 DEF Next

\* The inductive invariant of BlockManager: types, holders, write pointers, victims, marked
\* pages and the pages that callers hold stay in step under every call of the class.
THEOREM Invariant == Spec => []IInv
  BY InitIInv, NextIInv, PTL DEF Spec

\* The bookkeeping keeps its types: no write pointer passes the end of its block and
\* no count of transactions falls below zero.
THEOREM TypeCorrect == Spec => []TypeOK
  <1>1. IInv => TypeOK
    BY DEF IInv
  <1>. QED BY Invariant, <1>1, PTL

\* GetOneFreeBlock and AddErasedBlockToPool never let a block have two holders.
THEOREM HoldersExclusive == Spec => []HolderExclusive
  <1>1. IInv => HolderExclusive
    BY DEF IInv
  <1>. QED BY Invariant, <1>1, PTL

\* Pooled blocks are blank, open blocks have room and all others are full.
THEOREM PointersFit == Spec => []PointersFitHolder
  <1>1. IInv => PointersFitHolder
    BY DEF IInv
  <1>. QED BY Invariant, <1>1, PTL

\* No write, erase or reuse of a block disturbs a page a caller still holds.
THEOREM HeldPagesSafe == Spec => []HeldPagesIntact
  <1>1. IInv => HeldPagesIntact
    BY DEF IInv
  <1>. QED BY Invariant, <1>1, PTL

\* A block that IsSafeGcCandidate let the collector take stays out of every other use.
THEOREM VictimsStayClosed == Spec => []VictimsClosed
  <1>1. IInv => VictimsClosed
    BY DEF IInv
  <1>. QED BY Invariant, <1>1, PTL

-----------------------------------------------------------------------------
(* The usage history                                                          *)

\* Only an allocation touches the history, and it never leaves it shorter.
LEMMA HistoryGrows ==
    ASSUME IInv, [Next]_vars
    PROVE  Len(plane'.block_usage_history) >= Len(plane.block_usage_history)
  <1>1. plane \in PlaneRecord /\ Len(plane.block_usage_history) \in Nat
    BY LenProperties DEF IInv, TypeOK, PlaneRecord
  <1>2. ASSUME NEW s \in Streams,
               \/ AllocateForUserWrite(s) \/ AllocateForGcWrite(s)
               \/ AllocateForTranslationGcWrite(s)
        PROVE  Len(plane'.block_usage_history) >= Len(plane.block_usage_history)
    <2>1. PICK role \in Roles : Allocate(role, s)
      BY <1>2 DEF Roles, AllocateForUserWrite, AllocateForGcWrite,
                  AllocateForTranslationGcWrite
    <2>2. PICK o \in AllocateBlockAndPage(plane, role, s) :
             plane' = IF o.exit = "none" THEN o.plane ELSE plane
      BY <2>1 DEF Allocate, Settle
    <2>3. plane.blocks[plane.open_blocks[role][s]].current_write_page_index < PagesPerBlock
      BY DEF IInv, PointersFitHolder
    <2>4. o.exit = "none" =>
             Len(o.plane.block_usage_history) >= Len(plane.block_usage_history)
      BY <1>1, <2>3, AllocationOutcome
    <2>. QED BY <1>1, <2>2, <2>4
  <1>3. ASSUME NEW a \in held, InvalidatePage(a)
        PROVE  plane'.block_usage_history = plane.block_usage_history
    BY <1>1, <1>3 DEF InvalidatePage, Settle, InvalidatePageInBlock, PlaneRecord
  <1>4. ASSUME NEW b, NEW slot, Update(b, slot)
        PROVE  plane'.block_usage_history = plane.block_usage_history
    BY <1>1, <1>4 DEF Update, PlaneRecord
  <1>5. ASSUME NEW b \in Blocks, EraseCompleted(b)
        PROVE  plane'.block_usage_history = plane.block_usage_history
    <2>. DEFINE o == AddErasedBlockToPool(plane, b)
                done == [o EXCEPT !.plane.blocks[b].has_ongoing_gc = FALSE]
    <2>1. o.plane.block_usage_history = plane.block_usage_history
      BY <1>1 DEF AddErasedBlockToPool, Checked, PlaneRecord
    <2>2. done.plane.block_usage_history = o.plane.block_usage_history
      BY <1>1 DEF AddErasedBlockToPool, Checked, PlaneRecord
    <2>3. plane' = done.plane \/ plane' = plane
      BY <1>5 DEF EraseCompleted, Settle
    <2>. HIDE DEF o, done
    <2>. QED BY <2>1, <2>2, <2>3
  <1>6. CASE UNCHANGED vars
    BY <1>1, <1>6 DEF vars
  <1>7. ASSUME NEW a \in held, ReadStarted(a)
        PROVE  plane'.block_usage_history = plane.block_usage_history
    BY <1>4, <1>7 DEF ReadStarted
  <1>8. ASSUME NEW b \in Blocks,
               \/ ReadFinished(b) \/ ProgramStarted(b) \/ ProgramFinished(b)
               \/ GcStarted(b)
        PROVE  plane'.block_usage_history = plane.block_usage_history
    BY <1>4, <1>8 DEF ReadFinished, ProgramStarted, ProgramFinished, GcStarted
  <1>9. plane'.block_usage_history = plane.block_usage_history =>
           Len(plane'.block_usage_history) >= Len(plane.block_usage_history)
    BY <1>1
  <1>. QED BY <1>2, <1>3, <1>5, <1>6, <1>7, <1>8, <1>9 DEF Next

\* FIFO's front() and pop() never meet an empty queue: what the constructor has put
\* into the history stays, because every pop follows the push of the block just opened.
THEOREM HistoryKept == Spec => []HistoryNeverEmpty
  <1>1. Init => HistoryNeverEmpty
    <2>. SUFFICES ASSUME Init PROVE HistoryNeverEmpty
      OBVIOUS
    <2>1. 3 * NumStreams \in Nat /\ \A i \in 1..(3 * NumStreams) : i - 1 \in Blocks
      BY PlaneAssumption DEF Blocks
    <2>2. plane.block_usage_history = [i \in 1..(3 * NumStreams) |-> i - 1]
      BY DEF Init, NewPlane
    <2>3. plane.block_usage_history \in [1..(3 * NumStreams) -> Blocks]
      BY <2>1, <2>2
    <2>4. Len(plane.block_usage_history) = 3 * NumStreams
      BY <2>1, <2>3, FunctionIsSeq
    <2>. QED BY <2>1, <2>4 DEF HistoryNeverEmpty
  <1>2. IInv /\ HistoryNeverEmpty /\ [Next]_vars => HistoryNeverEmpty'
    <2>. SUFFICES ASSUME IInv, HistoryNeverEmpty, [Next]_vars PROVE HistoryNeverEmpty'
      OBVIOUS
    <2>1. IInv'
      BY NextIInv
    <2>2. Len(plane.block_usage_history) \in Nat /\ Len(plane'.block_usage_history) \in Nat
      BY <2>1, LenProperties DEF IInv, TypeOK, PlaneRecord
    <2>3. 3 * NumStreams \in Nat
      BY PlaneAssumption
    <2>. QED BY <2>2, <2>3, HistoryGrows DEF HistoryNeverEmpty
  <1>. QED BY <1>1, <1>2, Invariant, PTL DEF Spec

-----------------------------------------------------------------------------
(* What a step does to contents, wear and pool                                *)

\* Two slots with the same pages written and marked, and the same wear.
SameContents(new, old) ==
    /\ new.current_write_page_index = old.current_write_page_index
    /\ new.invalid_page_count = old.invalid_page_count
    /\ new.invalid_page_bitmap = old.invalid_page_bitmap
    /\ new.erase_count = old.erase_count

\* An allocation that returns writes one page of the open block b; it leaves the pool
\* alone or takes the first entry.
LEMMA AllocateStep ==
    ASSUME IInv, NEW role \in Roles, NEW s \in Streams, Allocate(role, s), exit' = "none"
    PROVE  LET b == plane.open_blocks[role][s]
           IN  /\ b \in Blocks
               /\ plane.blocks[b].current_write_page_index < PagesPerBlock
               /\ plane'.blocks[b].current_write_page_index
                     = plane.blocks[b].current_write_page_index + 1
               /\ plane'.blocks[b].invalid_page_count = plane.blocks[b].invalid_page_count
               /\ plane'.blocks[b].invalid_page_bitmap = plane.blocks[b].invalid_page_bitmap
               /\ plane'.blocks[b].erase_count = plane.blocks[b].erase_count
               /\ \A c \in Blocks \ {b} : SameContents(plane'.blocks[c], plane.blocks[c])
               /\ \/ plane'.free_block_pool = plane.free_block_pool
                  \/ /\ plane.free_block_pool # <<>>
                     /\ plane'.free_block_pool = Tail(plane.free_block_pool)
               /\ plane'.free_pages_count = plane.free_pages_count - 1
               /\ plane'.valid_pages_count = plane.valid_pages_count + 1
               /\ plane'.invalid_pages_count = plane.invalid_pages_count
               /\ held' = held \cup {NextPage(plane, role, s)}
  <1>. DEFINE b == plane.open_blocks[role][s]
              slot == plane.blocks[b]
              new == Written(slot, role)
              n == Head(plane.free_block_pool).block
  <1>1. /\ b \in Blocks /\ slot \in BlockSlot /\ plane \in PlaneRecord
        /\ slot.current_write_page_index < PagesPerBlock
    BY DEF IInv, TypeOK, PlaneRecord, PointersFitHolder
  <1>2. PICK o \in AllocateBlockAndPage(plane, role, s) :
           /\ o.exit = "none" /\ plane' = o.plane
           /\ held' = held \cup {NextPage(plane, role, s)}
    BY DEF Allocate, Settle
  <1>3. /\ plane'.free_pages_count = plane.free_pages_count - 1
        /\ plane'.valid_pages_count = plane.valid_pages_count + 1
        /\ plane'.invalid_pages_count = plane.invalid_pages_count
    BY <1>1, <1>2, AllocationCounts
  <1>4. RoomLeft(plane, role, s, plane') \/ BlockReplaced(plane, role, s, plane')
    BY <1>1, <1>2, AllocationOutcome
  <1>5. /\ new.current_write_page_index = slot.current_write_page_index + 1
        /\ new.invalid_page_count = slot.invalid_page_count
        /\ new.invalid_page_bitmap = slot.invalid_page_bitmap
        /\ new.erase_count = slot.erase_count
    BY <1>1 DEF Written, BlockSlot
  <1>6. CASE RoomLeft(plane, role, s, plane')
    <2>1. /\ plane'.blocks = [plane.blocks EXCEPT ![b] = new]
          /\ plane'.free_block_pool = plane.free_block_pool
      BY <1>6 DEF RoomLeft
    <2>. HIDE DEF new
    <2>2. plane'.blocks[b] = new /\ \A c \in Blocks \ {b} : plane'.blocks[c] = plane.blocks[c]
      BY <1>1, <2>1 DEF PlaneRecord
    <2>. QED BY <1>1, <1>2, <1>3, <1>5, <2>1, <2>2 DEF SameContents
  <1>7. CASE BlockReplaced(plane, role, s, plane')
    <2>1. /\ plane.free_block_pool # <<>>
          /\ plane'.blocks = [[plane.blocks EXCEPT ![b] = new]
                                EXCEPT ![n] = [@ EXCEPT !.stream_id = s]]
          /\ plane'.free_block_pool = Tail(plane.free_block_pool)
      BY <1>7 DEF BlockReplaced
    <2>. HIDE DEF new
    <2>2. InPool(n) /\ n \in Blocks
      <3>1. /\ Head(plane.free_block_pool) \in PoolEntry
            /\ Pooled(plane.free_block_pool, n)
        BY <1>1, <2>1, TailOfPool DEF IInv, HolderExclusive, PlaneRecord
      <3>. QED BY <3>1 DEF PoolEntry, InPool
    <2>3. n # b
      BY <1>1, <2>2 DEF IInv, HolderExclusive, IsOpen
    <2>. HIDE DEF n
    <2>4. /\ plane'.blocks[b] = new
          /\ plane'.blocks[n] = [plane.blocks[n] EXCEPT !.stream_id = s]
          /\ \A c \in Blocks \ {b, n} : plane'.blocks[c] = plane.blocks[c]
      BY <1>1, <2>1, <2>2, <2>3 DEF PlaneRecord
    <2>5. SameContents(plane'.blocks[n], plane.blocks[n])
      <3>1. plane.blocks[n] \in BlockSlot
        BY <1>1, <2>2 DEF PlaneRecord
      <3>. QED BY <2>4, <3>1 DEF BlockSlot, SameContents
    <2>6. \A c \in Blocks \ {b} : SameContents(plane'.blocks[c], plane.blocks[c])
      BY <2>4, <2>5 DEF SameContents
    <2>. QED BY <1>1, <1>2, <1>3, <1>5, <2>1, <2>4, <2>6
  <1>. QED BY <1>4, <1>6, <1>7

\* A call that does not return leaves the plane and the addresses as they were.
LEMMA AllocateExits ==
    ASSUME NEW role, NEW s, Allocate(role, s), exit' # "none"
    PROVE  plane' = plane /\ held' = held
  BY DEF Allocate, Settle

LEMMA InvalidateStep ==
    ASSUME IInv, NEW a \in held, InvalidatePage(a)
    PROVE  LET b == a.block
           IN  /\ exit' = "none" /\ held' = held \ {a}
               /\ b \in Blocks /\ a.page \in Pages
               /\ a.page \notin plane.blocks[b].invalid_page_bitmap
               /\ plane'.blocks[b].current_write_page_index
                     = plane.blocks[b].current_write_page_index
               /\ plane'.blocks[b].invalid_page_count = plane.blocks[b].invalid_page_count + 1
               /\ plane'.blocks[b].invalid_page_bitmap
                     = plane.blocks[b].invalid_page_bitmap \cup {a.page}
               /\ plane'.blocks[b].erase_count = plane.blocks[b].erase_count
               /\ \A c \in Blocks \ {b} : SameContents(plane'.blocks[c], plane.blocks[c])
               /\ plane'.free_block_pool = plane.free_block_pool
               /\ plane'.free_pages_count = plane.free_pages_count
               /\ plane'.valid_pages_count = plane.valid_pages_count - 1
               /\ plane'.invalid_pages_count = plane.invalid_pages_count + 1
  <1>. DEFINE b == a.block
              new == Marked(plane.blocks[b], a.page)
              o == InvalidatePageInBlock(plane, a)
  <1>1. /\ plane \in PlaneRecord /\ a \in PageAddress /\ b \in Blocks /\ a.page \in Pages
        /\ plane.blocks[b] \in BlockSlot
    BY DEF IInv, TypeOK, PageAddress, PlaneRecord
  <1>2. a.stream = plane.blocks[b].stream_id /\ a.page \notin plane.blocks[b].invalid_page_bitmap
    BY DEF IInv, HeldPagesIntact, ValidPagesOf, IsPageValid
  <1>3. o.exit = "none"
    BY <1>2 DEF InvalidatePageInBlock
  <1>4. exit' = "none" /\ plane' = o.plane /\ held' = held \ {a}
    BY <1>3 DEF InvalidatePage, Settle
  <1>5. /\ plane'.blocks = [plane.blocks EXCEPT ![b] = new]
        /\ plane'.free_block_pool = plane.free_block_pool
    BY <1>1, <1>4, InvalidationOutcome
  <1>6. /\ plane'.free_pages_count = plane.free_pages_count
        /\ plane'.valid_pages_count = plane.valid_pages_count - 1
        /\ plane'.invalid_pages_count = plane.invalid_pages_count + 1
    BY <1>1, <1>4, InvalidationCounts
  <1>7. /\ new.current_write_page_index = plane.blocks[b].current_write_page_index
        /\ new.invalid_page_count = plane.blocks[b].invalid_page_count + 1
        /\ new.invalid_page_bitmap = plane.blocks[b].invalid_page_bitmap \cup {a.page}
        /\ new.erase_count = plane.blocks[b].erase_count
    BY <1>1 DEF Marked, BlockSlot
  <1>. HIDE DEF new, o
  <1>8. plane'.blocks[b] = new /\ \A c \in Blocks \ {b} : plane'.blocks[c] = plane.blocks[c]
    BY <1>1, <1>5 DEF PlaneRecord
  <1>. QED BY <1>1, <1>2, <1>4, <1>5, <1>6, <1>7, <1>8 DEF SameContents

\* Starting and ending reads, programs and collections.
QuietAction ==
    \/ \E a \in held : ReadStarted(a)
    \/ \E b \in Blocks : \/ ReadFinished(b) \/ ProgramStarted(b) \/ ProgramFinished(b)
                         \/ GcStarted(b)

LEMMA QuietActionStep ==
    ASSUME IInv, QuietAction
    PROVE  /\ exit' = exit /\ held' = held
           /\ \A c \in Blocks : SameContents(plane'.blocks[c], plane.blocks[c])
           /\ plane'.free_block_pool = plane.free_block_pool
           /\ SameCounts(plane', plane)
  <1>1. plane \in PlaneRecord
    BY DEF IInv, TypeOK
  <1>2. ASSUME NEW b \in Blocks, NEW new, Update(b, new), SameContents(new, plane.blocks[b])
        PROVE  /\ exit' = exit /\ held' = held
               /\ \A c \in Blocks : SameContents(plane'.blocks[c], plane.blocks[c])
               /\ plane'.free_block_pool = plane.free_block_pool
               /\ SameCounts(plane', plane)
    <2>. DEFINE blocks == [plane.blocks EXCEPT ![b] = new]
    <2>1. plane' = [plane EXCEPT !.blocks = blocks] /\ exit' = exit /\ held' = held
      BY <1>1, <1>2 DEF Update, PlaneRecord
    <2>2. blocks[b] = new /\ \A c \in Blocks \ {b} : blocks[c] = plane.blocks[c]
      BY <1>1 DEF PlaneRecord
    <2>. HIDE DEF blocks
    <2>3. /\ plane'.blocks = blocks /\ plane'.free_block_pool = plane.free_block_pool
          /\ SameCounts(plane', plane)
      BY <1>1, <2>1 DEF PlaneRecord, SameCounts
    <2>4. \A c \in Blocks : SameContents(plane'.blocks[c], plane.blocks[c])
      BY <1>2, <2>2, <2>3 DEF SameContents
    <2>. QED BY <2>1, <2>3, <2>4
  <1>3. \E b \in Blocks : \E new : Update(b, new) /\ SameContents(new, plane.blocks[b])
    <2>1. \A b \in Blocks : plane.blocks[b] \in BlockSlot
      BY <1>1 DEF PlaneRecord
    <2>2. ASSUME NEW a \in held, ReadStarted(a)
          PROVE  \E b \in Blocks : \E new : Update(b, new) /\ SameContents(new, plane.blocks[b])
      <3>. DEFINE new == [plane.blocks[a.block] EXCEPT !.ongoing_user_read_cnt = @ + 1]
      <3>1. a.block \in Blocks
        BY DEF IInv, TypeOK, PageAddress
      <3>2. Update(a.block, new) /\ SameContents(new, plane.blocks[a.block])
        BY <2>1, <2>2, <3>1 DEF ReadStarted, SameContents, BlockSlot
      <3>. QED BY <3>1, <3>2
    <2>3. ASSUME NEW b \in Blocks, ReadFinished(b)
          PROVE  \E new : Update(b, new) /\ SameContents(new, plane.blocks[b])
      <3>. DEFINE new == [plane.blocks[b] EXCEPT !.ongoing_user_read_cnt = @ - 1]
      <3>1. Update(b, new) /\ SameContents(new, plane.blocks[b])
        BY <2>1, <2>3 DEF ReadFinished, SameContents, BlockSlot
      <3>. QED BY <3>1
    <2>4. ASSUME NEW b \in Blocks, ProgramStarted(b)
          PROVE  \E new : Update(b, new) /\ SameContents(new, plane.blocks[b])
      <3>. DEFINE new == [plane.blocks[b] EXCEPT !.ongoing_user_program_cnt = @ + 1]
      <3>1. Update(b, new) /\ SameContents(new, plane.blocks[b])
        BY <2>1, <2>4 DEF ProgramStarted, SameContents, BlockSlot
      <3>. QED BY <3>1
    <2>5. ASSUME NEW b \in Blocks, ProgramFinished(b)
          PROVE  \E new : Update(b, new) /\ SameContents(new, plane.blocks[b])
      <3>. DEFINE new == [plane.blocks[b] EXCEPT !.ongoing_user_program_cnt = @ - 1]
      <3>1. Update(b, new) /\ SameContents(new, plane.blocks[b])
        BY <2>1, <2>5 DEF ProgramFinished, SameContents, BlockSlot
      <3>. QED BY <3>1
    <2>6. ASSUME NEW b \in Blocks, GcStarted(b)
          PROVE  \E new : Update(b, new) /\ SameContents(new, plane.blocks[b])
      <3>. DEFINE new == [plane.blocks[b] EXCEPT !.has_ongoing_gc = TRUE]
      <3>1. Update(b, new) /\ SameContents(new, plane.blocks[b])
        BY <2>1, <2>6 DEF GcStarted, SameContents, BlockSlot
      <3>. QED BY <3>1
    <2>. QED BY <2>2, <2>3, <2>4, <2>5, <2>6 DEF QuietAction
  <1>. QED BY <1>2, <1>3

\* A victim is full and nothing in it is valid any more, so all its pages are marked.
LEMMA EraseStep ==
    ASSUME IInv, NEW b \in Blocks, EraseCompleted(b)
    PROVE  LET slot == plane.blocks[b]
               lost == slot.invalid_page_count - ErasedCredit(slot)
           IN  /\ held' = held /\ ~ InPool(b)
               /\ slot.current_write_page_index = PagesPerBlock
               /\ slot.invalid_page_bitmap = Pages
               /\ exit' = IF Balance(plane) - lost # TotalPages THEN "inconsistent"
                          ELSE IF plane.free_pages_count + ErasedCredit(slot) = 0
                          THEN "no_free_pages" ELSE "none"
               /\ exit' # "none" => plane' = plane
               /\ exit' = "none" =>
                    /\ plane'.blocks[b].current_write_page_index = 0
                    /\ plane'.blocks[b].invalid_page_count = 0
                    /\ plane'.blocks[b].invalid_page_bitmap = {}
                    /\ plane'.blocks[b].erase_count = slot.erase_count + 1
                    /\ \A c \in Blocks \ {b} : SameContents(plane'.blocks[c], plane.blocks[c])
                    /\ plane'.free_pages_count = plane.free_pages_count + ErasedCredit(slot)
                    /\ plane'.valid_pages_count = plane.valid_pages_count
                    /\ plane'.invalid_pages_count
                          = plane.invalid_pages_count - slot.invalid_page_count
                    /\ plane'.free_block_pool =
                          AddToFreeBlockPool(plane.free_block_pool,
                                             IF DynamicWl THEN slot.erase_count + 1 ELSE 0, b)
  <1>. DEFINE slot == plane.blocks[b]
              new == [Erase(slot) EXCEPT !.has_ongoing_gc = FALSE]
              o == [AddErasedBlockToPool(plane, b)
                       EXCEPT !.plane.blocks[b].has_ongoing_gc = FALSE]
  <1>1. /\ plane \in PlaneRecord /\ slot \in BlockSlot
        /\ EachPooledOnce(plane.free_block_pool)
        /\ ~ InPool(b) /\ ~ IsOpen(plane, b) /\ ValidPagesOf(plane, b) = {}
    BY DEF IInv, TypeOK, PlaneRecord, HolderExclusive, VictimsClosed, EraseCompleted
  <1>2. slot.current_write_page_index = PagesPerBlock
    BY <1>1 DEF IInv, PointersFitHolder
  <1>3. slot.invalid_page_bitmap = Pages
    <2>1. slot.invalid_page_bitmap \subseteq Pages
      BY <1>1 DEF BlockSlot
    <2>2. \A x \in Pages : x < PagesPerBlock
      BY PlaneAssumption DEF Pages
    <2>. QED BY <1>1, <1>2, <2>1, <2>2 DEF ValidPagesOf, IsPageValid
  <1>4. o.plane.blocks = [plane.blocks EXCEPT ![b] = new]
    BY <1>1, EraseOutcome DEF InPool
  <1>5. /\ o.plane.free_pages_count = plane.free_pages_count + ErasedCredit(slot)
        /\ o.plane.valid_pages_count = plane.valid_pages_count
        /\ o.plane.invalid_pages_count = plane.invalid_pages_count - slot.invalid_page_count
        /\ o.exit = IF Balance(plane) - (slot.invalid_page_count - ErasedCredit(slot))
                         # TotalPages
                    THEN "inconsistent"
                    ELSE IF plane.free_pages_count + ErasedCredit(slot) = 0
                    THEN "no_free_pages" ELSE "none"
        /\ o.plane.free_block_pool =
              AddToFreeBlockPool(plane.free_block_pool,
                                 IF DynamicWl THEN slot.erase_count + 1 ELSE 0, b)
    BY <1>1, EraseCounts
  <1>6. /\ exit' = o.exit /\ held' = held
        /\ plane' = IF o.exit = "none" THEN o.plane ELSE plane
    BY DEF EraseCompleted, Settle
  <1>. HIDE DEF o
  <1>7. /\ new.current_write_page_index = 0
        /\ new.invalid_page_count = 0
        /\ new.invalid_page_bitmap = {}
        /\ new.erase_count = slot.erase_count + 1
    BY <1>1 DEF Erase, BlockSlot
  <1>. HIDE DEF new
  <1>8. o.plane.blocks[b] = new /\ \A c \in Blocks \ {b} : o.plane.blocks[c] = plane.blocks[c]
    BY <1>1, <1>4 DEF PlaneRecord
  <1>9. \A c \in Blocks \ {b} : SameContents(o.plane.blocks[c], plane.blocks[c])
    BY <1>8 DEF SameContents
  <1>. QED BY <1>1, <1>2, <1>3, <1>5, <1>6, <1>7, <1>8, <1>9

\* Every step is one of these.
LEMMA NextCases ==
    ASSUME [Next]_vars
    PROVE  \/ \E role \in Roles, s \in Streams : Allocate(role, s)
           \/ \E a \in held : InvalidatePage(a)
           \/ QuietAction
           \/ \E b \in Blocks : EraseCompleted(b)
           \/ plane' = plane /\ held' = held /\ exit' = exit
  BY DEF Next, vars, Roles, AllocateForUserWrite, AllocateForGcWrite,
         AllocateForTranslationGcWrite, QuietAction

-----------------------------------------------------------------------------
(* The counters                                                               *)

\* What CheckBookKeepingCorrectness asks for.
Balanced == Balance(plane) = TotalPages

Counted ==
    /\ IsFiniteSet(held)
    /\ CountersAgree
    /\ Balanced

\* Sets of pages are finite, whatever the plane.
LEMMA PageSetsFinite ==
    ASSUME NEW p
    PROVE  /\ IsFiniteSet(MarkedPages(p)) /\ Cardinality(MarkedPages(p)) \in Nat
           /\ IsFiniteSet(BlankPages(p)) /\ Cardinality(BlankPages(p)) \in Nat
  BY PagesFinite, FS_Subset, FS_CardinalityType DEF MarkedPages, BlankPages

LEMMA InitCounted == Init => Counted
  <1>. SUFFICES ASSUME Init PROVE Counted
    OBVIOUS
  <1>1. /\ held = {} /\ plane.valid_pages_count = 0 /\ plane.invalid_pages_count = 0
        /\ plane.free_pages_count = TotalPages
        /\ \A b \in Blocks : /\ plane.blocks[b].current_write_page_index = 0
                             /\ plane.blocks[b].invalid_page_count = 0
                             /\ plane.blocks[b].invalid_page_bitmap = {}
    BY DEF Init, NewPlane
  <1>2. MarkedPages(plane) = {} /\ BlankPages(plane) = Blocks \X Pages
    BY <1>1 DEF MarkedPages, BlankPages, Pages
  <1>3. TotalPages \in Int
    BY PlaneAssumption DEF TotalPages
  <1>4. Cardinality({}) = 0 /\ IsFiniteSet({}) /\ Cardinality(Blocks \X Pages) = TotalPages
    BY PagesFinite, FS_EmptySet
  <1>5. CountersAgree
    BY <1>1, <1>2, <1>4 DEF CountersAgree
  <1>6. Balanced
    BY <1>1, <1>3 DEF Balanced, Balance
  <1>. QED BY <1>1, <1>4, <1>5, <1>6 DEF Counted

\* One page less is blank, and one more is held.
LEMMA AllocateCounted ==
    ASSUME IInv, Counted, NEW role \in Roles, NEW s \in Streams, Allocate(role, s),
           exit' = "none"
    PROVE  Counted'
  <1>. DEFINE b == plane.open_blocks[role][s]
              page == plane.blocks[b].current_write_page_index
              a == NextPage(plane, role, s)
  <1>1. /\ b \in Blocks /\ page < PagesPerBlock
        /\ plane'.blocks[b].current_write_page_index = page + 1
        /\ plane'.blocks[b].invalid_page_count = plane.blocks[b].invalid_page_count
        /\ plane'.blocks[b].invalid_page_bitmap = plane.blocks[b].invalid_page_bitmap
        /\ \A c \in Blocks \ {b} : SameContents(plane'.blocks[c], plane.blocks[c])
        /\ plane'.free_pages_count = plane.free_pages_count - 1
        /\ plane'.valid_pages_count = plane.valid_pages_count + 1
        /\ plane'.invalid_pages_count = plane.invalid_pages_count
        /\ held' = held \cup {a}
    BY AllocateStep
  <1>2. page \in Nat /\ page \in Pages
    <2>1. plane.blocks[b] \in BlockSlot
      BY <1>1 DEF IInv, TypeOK, PlaneRecord
    <2>2. page \in Nat
      BY <2>1 DEF BlockSlot
    <2>. QED BY <1>1, <2>2, PlaneAssumption DEF Pages
  <1>3. a \notin held
    <2>1. a.block = b /\ a.page = page
      BY DEF NextPage
    <2>2. page \notin ValidPagesOf(plane, b)
      BY <1>2 DEF ValidPagesOf
    <2>. QED BY <2>1, <2>2 DEF IInv, HeldPagesIntact
  <1>4. plane \in PlaneRecord
    BY DEF IInv, TypeOK
  <1>. HIDE DEF a, b, page
  <1>5. IsFiniteSet(held') /\ Cardinality(held') = Cardinality(held) + 1
    BY <1>1, <1>3, FS_AddElement DEF Counted
  <1>6. MarkedPages(plane') = MarkedPages(plane)
    BY <1>1 DEF MarkedPages, SameContents
  <1>7. BlankPages(plane') = BlankPages(plane) \ {<<b, page>>}
    <2>1. b = plane.open_blocks[role][s] /\ page = plane.blocks[b].current_write_page_index
      BY DEF b, page
    <2>2. \A x \in Pages : x >= page + 1 <=> x >= page /\ x # page
      BY <1>2 DEF Pages
    <2>3. ASSUME NEW x \in Blocks \X Pages
          PROVE  x[2] >= plane'.blocks[x[1]].current_write_page_index
                   <=> /\ x[2] >= plane.blocks[x[1]].current_write_page_index
                       /\ x # <<b, page>>
      <3>1. CASE x[1] = b
        <4>1. x = <<b, x[2]>> /\ x[2] \in Pages
          BY <3>1
        <4>2. x # <<b, page>> <=> x[2] # page
          BY <4>1
        <4>3. x[2] >= page + 1 <=> x[2] >= page /\ x[2] # page
          BY <2>2, <4>1
        <4>. QED BY <1>1, <2>1, <3>1, <4>2, <4>3
      <3>2. CASE x[1] # b
        <4>1. x[1] \in Blocks \ {b} /\ x # <<b, page>>
          BY <3>2
        <4>. QED BY <1>1, <4>1 DEF SameContents
      <3>. QED BY <3>1, <3>2
    <2>. QED BY <2>3 DEF BlankPages
  <1>8. <<b, page>> \in BlankPages(plane)
    BY <1>1, <1>2 DEF BlankPages, b, page
  <1>9. Cardinality(BlankPages(plane')) = Cardinality(BlankPages(plane)) - 1
    BY <1>7, <1>8, PageSetsFinite, FS_RemoveElement
  <1>10. CountersAgree'
    <2>1. ASSUME NEW c \in Blocks
          PROVE  plane'.blocks[c].invalid_page_count
                   = Cardinality(plane'.blocks[c].invalid_page_bitmap)
      BY <1>1 DEF Counted, CountersAgree, SameContents
    <2>. QED BY <1>1, <1>5, <1>6, <1>9, <2>1 DEF Counted, CountersAgree
  <1>11. Balanced'
    BY <1>1, <1>4 DEF Counted, Balanced, Balance, PlaneRecord
  <1>. QED BY <1>5, <1>10, <1>11 DEF Counted

\* One page less is held, and one more is marked, in its block and in the plane.
LEMMA InvalidateCounted ==
    ASSUME IInv, Counted, NEW a \in held, InvalidatePage(a)
    PROVE  Counted'
  <1>. DEFINE b == a.block
  <1>1. /\ held' = held \ {a}
        /\ b \in Blocks /\ a.page \in Pages
        /\ a.page \notin plane.blocks[b].invalid_page_bitmap
        /\ plane'.blocks[b].current_write_page_index = plane.blocks[b].current_write_page_index
        /\ plane'.blocks[b].invalid_page_count = plane.blocks[b].invalid_page_count + 1
        /\ plane'.blocks[b].invalid_page_bitmap
              = plane.blocks[b].invalid_page_bitmap \cup {a.page}
        /\ \A c \in Blocks \ {b} : SameContents(plane'.blocks[c], plane.blocks[c])
        /\ plane'.free_pages_count = plane.free_pages_count
        /\ plane'.valid_pages_count = plane.valid_pages_count - 1
        /\ plane'.invalid_pages_count = plane.invalid_pages_count + 1
    BY InvalidateStep
  <1>2. plane \in PlaneRecord /\ plane.blocks[b] \in BlockSlot
    BY <1>1 DEF IInv, TypeOK, PlaneRecord
  <1>. HIDE DEF b
  <1>3. IsFiniteSet(held') /\ Cardinality(held') = Cardinality(held) - 1
    BY <1>1, FS_RemoveElement DEF Counted
  <1>4. BlankPages(plane') = BlankPages(plane)
    BY <1>1 DEF BlankPages, SameContents
  <1>5. MarkedPages(plane') = MarkedPages(plane) \cup {<<b, a.page>>}
    <2>1. ASSUME NEW x \in Blocks \X Pages
          PROVE  x[2] \in plane'.blocks[x[1]].invalid_page_bitmap
                   <=> \/ x[2] \in plane.blocks[x[1]].invalid_page_bitmap
                       \/ x = <<b, a.page>>
      <3>1. CASE x[1] = b
        <4>1. x = <<b, x[2]>>
          BY <3>1
        <4>. QED BY <1>1, <3>1, <4>1
      <3>2. CASE x[1] # b
        BY <1>1, <3>2 DEF SameContents
      <3>. QED BY <3>1, <3>2
    <2>2. <<b, a.page>> \in Blocks \X Pages
      BY <1>1
    <2>. QED BY <2>1, <2>2 DEF MarkedPages
  <1>6. <<b, a.page>> \notin MarkedPages(plane)
    BY <1>1 DEF MarkedPages
  <1>7. Cardinality(MarkedPages(plane')) = Cardinality(MarkedPages(plane)) + 1
    BY <1>5, <1>6, PageSetsFinite, FS_AddElement
  <1>8. Cardinality(plane'.blocks[b].invalid_page_bitmap)
          = Cardinality(plane.blocks[b].invalid_page_bitmap) + 1
    <2>1. IsFiniteSet(plane.blocks[b].invalid_page_bitmap)
      BY <1>2, PagesFinite, FS_Subset DEF BlockSlot
    <2>. QED BY <1>1, <2>1, FS_AddElement
  <1>9. CountersAgree'
    <2>1. ASSUME NEW c \in Blocks
          PROVE  plane'.blocks[c].invalid_page_count
                   = Cardinality(plane'.blocks[c].invalid_page_bitmap)
      BY <1>1, <1>8 DEF Counted, CountersAgree, SameContents
    <2>. QED BY <1>1, <1>3, <1>4, <1>7, <2>1 DEF Counted, CountersAgree
  <1>10. Balanced'
    BY <1>1, <1>2 DEF Counted, Balanced, Balance, PlaneRecord
  <1>. QED BY <1>3, <1>9, <1>10 DEF Counted

\* A victim counts all its pages as invalid.
LEMMA VictimAllInvalid ==
    ASSUME IInv, Counted, NEW b \in Blocks, EraseCompleted(b)
    PROVE  plane.blocks[b].invalid_page_count = PagesPerBlock
  BY EraseStep, PagesFinite DEF Counted, CountersAgree

\* The pages of the erased block were all marked, and are all blank.
LEMMA EraseCounted ==
    ASSUME IInv, Counted, NEW b \in Blocks, EraseCompleted(b), exit' = "none"
    PROVE  Counted'
  <1>. DEFINE slot == plane.blocks[b]
              own == {b} \X Pages
  <1>1. /\ held' = held
        /\ slot.current_write_page_index = PagesPerBlock
        /\ slot.invalid_page_bitmap = Pages
        /\ Balance(plane) - (slot.invalid_page_count - ErasedCredit(slot)) = TotalPages
        /\ plane'.blocks[b].current_write_page_index = 0
        /\ plane'.blocks[b].invalid_page_count = 0
        /\ plane'.blocks[b].invalid_page_bitmap = {}
        /\ \A c \in Blocks \ {b} : SameContents(plane'.blocks[c], plane.blocks[c])
        /\ plane'.free_pages_count = plane.free_pages_count + ErasedCredit(slot)
        /\ plane'.valid_pages_count = plane.valid_pages_count
        /\ plane'.invalid_pages_count = plane.invalid_pages_count - slot.invalid_page_count
    BY EraseStep
  <1>2. slot.invalid_page_count = PagesPerBlock /\ plane \in PlaneRecord
    BY VictimAllInvalid DEF IInv, TypeOK
  \* The check after the erase has passed, so the pages taken off are the pages added.
  <1>3. ErasedCredit(slot) = PagesPerBlock
    <2>1. ErasedCredit(slot) \in Int /\ PagesPerBlock \in Int /\ TotalPages \in Int
      BY <1>2, PlaneAssumption DEF ErasedCredit, TotalPages
    <2>2. Balance(plane) = TotalPages
      BY DEF Counted, Balanced
    <2>. QED BY <1>1, <1>2, <2>1, <2>2
  <1>. HIDE DEF slot, own
  <1>4. IsFiniteSet(own) /\ Cardinality(own) = PagesPerBlock /\ \A x \in own : x \in Blocks \X Pages
    BY PagesFinite DEF own
  <1>5. MarkedPages(plane') = MarkedPages(plane) \ own /\ own \subseteq MarkedPages(plane)
    <2>1. ASSUME NEW x \in Blocks \X Pages
          PROVE  x[2] \in plane'.blocks[x[1]].invalid_page_bitmap
                   <=> x[2] \in plane.blocks[x[1]].invalid_page_bitmap /\ x \notin own
      BY <1>1 DEF SameContents, own
    <2>2. ASSUME NEW x \in own
          PROVE  x[2] \in plane.blocks[x[1]].invalid_page_bitmap
      BY <1>1 DEF own, slot
    <2>. QED BY <1>4, <2>1, <2>2 DEF MarkedPages
  <1>6. BlankPages(plane') = BlankPages(plane) \cup own /\ BlankPages(plane) \cap own = {}
    <2>1. \A x \in Pages : x >= 0 /\ ~ (x >= PagesPerBlock)
      BY PlaneAssumption DEF Pages
    <2>2. ASSUME NEW x \in Blocks \X Pages
          PROVE  x[2] >= plane'.blocks[x[1]].current_write_page_index
                   <=> x[2] >= plane.blocks[x[1]].current_write_page_index \/ x \in own
      BY <1>1, <2>1 DEF SameContents, own
    <2>3. ASSUME NEW x \in own
          PROVE  ~ (x[2] >= plane.blocks[x[1]].current_write_page_index)
      BY <1>1, <2>1 DEF own, slot
    <2>. QED BY <1>4, <2>2, <2>3 DEF BlankPages
  <1>7. Cardinality(MarkedPages(plane')) = Cardinality(MarkedPages(plane)) - PagesPerBlock
    <2>1. Cardinality(MarkedPages(plane) \ own)
            = Cardinality(MarkedPages(plane)) - Cardinality(MarkedPages(plane) \cap own)
      BY <1>4, PageSetsFinite, FS_Difference
    <2>2. MarkedPages(plane) \cap own = own
      BY <1>5
    <2>. QED BY <1>4, <1>5, <2>1, <2>2
  <1>8. Cardinality(BlankPages(plane')) = Cardinality(BlankPages(plane)) + PagesPerBlock
    <2>1. Cardinality(BlankPages(plane) \cup own)
            = Cardinality(BlankPages(plane)) + Cardinality(own)
                - Cardinality(BlankPages(plane) \cap own)
      BY <1>4, PageSetsFinite, FS_Union
    <2>2. Cardinality(BlankPages(plane) \cap own) = 0
      BY <1>6, FS_EmptySet
    <2>. QED BY <1>4, <1>6, <2>1, <2>2, PageSetsFinite, PlaneAssumption
  <1>9. CountersAgree'
    <2>1. ASSUME NEW c \in Blocks
          PROVE  plane'.blocks[c].invalid_page_count
                   = Cardinality(plane'.blocks[c].invalid_page_bitmap)
      BY <1>1, FS_EmptySet DEF Counted, CountersAgree, SameContents
    <2>. QED BY <1>1, <1>2, <1>3, <1>7, <1>8, <2>1 DEF Counted, CountersAgree
  <1>10. Balanced'
    <2>1. PagesPerBlock \in Int
      BY PlaneAssumption
    <2>. QED BY <1>1, <1>2, <1>3, <2>1 DEF Counted, Balanced, Balance, PlaneRecord
  <1>. QED BY <1>1, <1>9, <1>10 DEF Counted

LEMMA NextCounted ==
    ASSUME IInv, Counted, [Next]_vars
    PROVE  Counted'
  <1>1. ASSUME plane' = plane, held' = held
        PROVE  Counted'
    BY <1>1 DEF Counted, CountersAgree, Balanced, Balance, MarkedPages, BlankPages
  <1>2. ASSUME NEW role \in Roles, NEW s \in Streams, Allocate(role, s)
        PROVE  Counted'
    BY <1>1, <1>2, AllocateCounted, AllocateExits
  <1>3. ASSUME NEW a \in held, InvalidatePage(a)
        PROVE  Counted'
    BY <1>3, InvalidateCounted
  <1>4. CASE QuietAction
    <2>1. /\ held' = held
          /\ \A c \in Blocks : SameContents(plane'.blocks[c], plane.blocks[c])
          /\ SameCounts(plane', plane)
      BY <1>4, QuietActionStep
    <2>2. MarkedPages(plane') = MarkedPages(plane) /\ BlankPages(plane') = BlankPages(plane)
      BY <2>1 DEF MarkedPages, BlankPages, SameContents
    <2>3. ASSUME NEW c \in Blocks
          PROVE  plane'.blocks[c].invalid_page_count
                   = Cardinality(plane'.blocks[c].invalid_page_bitmap)
      BY <2>1 DEF Counted, CountersAgree, SameContents
    <2>4. CountersAgree'
      BY <2>1, <2>2, <2>3 DEF Counted, CountersAgree, SameCounts
    <2>. QED BY <2>1, <2>4 DEF Counted, Balanced, Balance, SameCounts
  <1>5. ASSUME NEW b \in Blocks, EraseCompleted(b)
        PROVE  Counted'
    <2>1. exit' # "none" => plane' = plane /\ held' = held
      BY <1>5, EraseStep
    <2>. QED BY <1>1, <1>5, <2>1, EraseCounted
  <1>. QED BY <1>1, <1>2, <1>3, <1>4, <1>5, NextCases

\* The counters are what they count and CheckBookKeepingCorrectness, asked at any time
\* while the process runs, would find them balanced.
THEOREM CountInvariant == Spec => []Counted
  <1>1. IInv /\ Counted /\ [Next]_vars => Counted'
    BY NextCounted
  <1>. QED BY <1>1, InitCounted, Invariant, PTL DEF Spec

\* The three counters, the blocks' counts, the bitmaps, the write pointers and the
\* callers' addresses tell one story, however writes and erases follow each other.
THEOREM CountersRight == Spec => []CountersAgree
  <1>1. Counted => CountersAgree
    BY DEF Counted
  <1>. QED BY <1>1, CountInvariant, PTL

-----------------------------------------------------------------------------
(* The exits                                                                  *)

\* Each stream's open blocks have room, and they are three different blocks: an
\* allocation never meets the last free page.
LEMMA FreePagesLeft ==
    ASSUME IInv, Counted
    PROVE  plane.free_pages_count \in Nat /\ plane.free_pages_count >= 2
  <1>. DEFINE d == plane.open_blocks["data"][0]
              g == plane.open_blocks["gc"][0]
              page(b) == plane.blocks[b].current_write_page_index
  <1>1. 0 \in Streams /\ "data" \in Roles /\ "gc" \in Roles
    BY PlaneAssumption DEF Streams, Roles
  <1>2. d \in Blocks /\ g \in Blocks
    BY <1>1 DEF IInv, TypeOK, PlaneRecord
  <1>3. d # g
    BY <1>1 DEF IInv, HolderExclusive
  <1>4. /\ page(d) \in Nat /\ page(d) < PagesPerBlock
        /\ page(g) \in Nat /\ page(g) < PagesPerBlock
    <2>1. plane.blocks[d] \in BlockSlot /\ plane.blocks[g] \in BlockSlot
      BY <1>2 DEF IInv, TypeOK, PlaneRecord
    <2>2. page(d) \in 0..PagesPerBlock /\ page(g) \in 0..PagesPerBlock
      BY <2>1 DEF BlockSlot
    <2>3. page(d) < PagesPerBlock /\ page(g) < PagesPerBlock
      BY <1>1 DEF IInv, PointersFitHolder
    <2>. QED BY <2>2, <2>3
  <1>5. page(d) \in Pages /\ page(g) \in Pages
    BY <1>4, PlaneAssumption DEF Pages
  <1>. DEFINE two == {<<d, page(d)>>, <<g, page(g)>>}
  <1>6. two \subseteq BlankPages(plane)
    BY <1>2, <1>4, <1>5 DEF BlankPages
  <1>7. Cardinality(two) = 2
    <2>1. <<d, page(d)>> # <<g, page(g)>>
      BY <1>3
    <2>. QED BY <2>1, PairCardinality
  <1>. HIDE DEF two
  <1>8. 2 <= Cardinality(BlankPages(plane))
    BY <1>6, <1>7, PageSetsFinite, FS_Subset
  <1>. QED BY <1>8, PageSetsFinite DEF Counted, CountersAgree

LEMMA NextExit ==
    ASSUME IInv, Counted, [Next]_vars
    PROVE  /\ exit' = "no_free_pages" => exit = "no_free_pages"
           /\ exit' = "wrong_stream" => exit = "wrong_stream"
  <1>1. plane \in PlaneRecord
    BY DEF IInv, TypeOK
  <1>2. ASSUME NEW role \in Roles, NEW s \in Streams, Allocate(role, s)
        PROVE  exit' \notin {"no_free_pages", "wrong_stream"}
    <2>1. PICK o \in AllocateBlockAndPage(plane, role, s) : exit' = o.exit
      BY <1>2 DEF Allocate, Settle
    <2>2. plane.blocks[plane.open_blocks[role][s]].current_write_page_index < PagesPerBlock
      BY DEF IInv, PointersFitHolder
    <2>3. /\ o.exit # "wrong_stream"
          /\ o.exit = "no_free_pages" => plane.free_pages_count = 1
      BY <1>1, <2>2, AllocationCounts
    <2>. QED BY <2>1, <2>3, FreePagesLeft
  <1>3. ASSUME NEW b \in Blocks, EraseCompleted(b)
        PROVE  exit' \notin {"no_free_pages", "wrong_stream"}
    <2>. DEFINE credit == ErasedCredit(plane.blocks[b])
    <2>1. \/ exit' \in {"inconsistent", "none"}
          \/ exit' = "no_free_pages" /\ plane.free_pages_count + credit = 0
      BY <1>3, EraseStep
    <2>2. credit \in Nat
      <3>1. plane.blocks[b].invalid_page_count = PagesPerBlock
        BY <1>3, VictimAllInvalid
      <3>. QED BY <3>1, PlaneAssumption DEF ErasedCredit
    <2>. HIDE DEF credit
    <2>. QED BY <2>1, <2>2, FreePagesLeft
  <1>4. ASSUME NEW a \in held, InvalidatePage(a)
        PROVE  exit' = "none"
    BY <1>4, InvalidateStep
  <1>5. QuietAction => exit' = exit
    BY QuietActionStep
  <1>. QED BY <1>2, <1>3, <1>4, <1>5, NextCases

\* The plane runs out of blocks before it runs out of pages, and a caller that
\* invalidates what it was given is never told that the block is another stream's.
THEOREM ExitsUnreachable == Spec => []SomeExitsUnreachable
  <1>1. Init => SomeExitsUnreachable
    BY DEF Init, SomeExitsUnreachable
  <1>2. IInv /\ Counted /\ SomeExitsUnreachable /\ [Next]_vars => SomeExitsUnreachable'
    BY NextExit DEF SomeExitsUnreachable
  <1>. QED BY <1>1, <1>2, Invariant, CountInvariant, PTL DEF Spec

\* Only an erase can find the counters out of balance.
LEMMA InconsistentOnlyByErase ==
    ASSUME IInv, Counted, [Next]_vars, exit # "inconsistent", exit' = "inconsistent"
    PROVE  \E b \in Blocks : EraseCompleted(b)
  <1>1. plane \in PlaneRecord
    BY DEF IInv, TypeOK
  <1>2. ASSUME NEW role \in Roles, NEW s \in Streams, Allocate(role, s)
        PROVE  FALSE
    <2>1. PICK o \in AllocateBlockAndPage(plane, role, s) : exit' = o.exit
      BY <1>2 DEF Allocate, Settle
    <2>2. plane.blocks[plane.open_blocks[role][s]].current_write_page_index < PagesPerBlock
      BY DEF IInv, PointersFitHolder
    <2>3. o.exit = "inconsistent" => Balance(plane) # TotalPages
      BY <1>1, <2>2, AllocationCounts
    <2>. QED BY <2>1, <2>3 DEF Counted, Balanced
  <1>3. ASSUME NEW a \in held, InvalidatePage(a)
        PROVE  FALSE
    BY <1>3, InvalidateStep
  <1>4. ~ QuietAction
    BY QuietActionStep
  <1>. QED BY <1>2, <1>3, <1>4, NextCases

\* With the pages credited that are taken off, CheckBookKeepingCorrectness never fails.
THEOREM ReclaimedStaysConsistent ==
    ASSUME CreditReclaimed
    PROVE  Spec => []BookKeepingStaysConsistent
  <1>1. Init => BookKeepingStaysConsistent
    BY DEF Init, BookKeepingStaysConsistent
  <1>2. ASSUME IInv, Counted, NEW b \in Blocks, EraseCompleted(b)
        PROVE  exit' # "inconsistent"
    <2>. DEFINE lost == plane.blocks[b].invalid_page_count - ErasedCredit(plane.blocks[b])
    <2>1. exit' = "inconsistent" => Balance(plane) - lost # TotalPages
      BY <1>2, EraseStep
    <2>2. lost = 0
      BY <1>2, VictimAllInvalid, PlaneAssumption DEF ErasedCredit
    <2>3. TotalPages \in Int
      BY PlaneAssumption DEF TotalPages
    <2>. HIDE DEF lost
    <2>. QED BY <1>2, <2>1, <2>2, <2>3 DEF Counted, Balanced
  <1>3. IInv /\ Counted /\ BookKeepingStaysConsistent /\ [Next]_vars
          => BookKeepingStaysConsistent'
    BY <1>2, InconsistentOnlyByErase DEF BookKeepingStaysConsistent
  <1>. QED BY <1>1, <1>3, Invariant, CountInvariant, PTL DEF Spec

LEMMA EraseFails ==
    ASSUME ~ CreditReclaimed, IInv, Counted, NEW b \in Blocks, EraseCompleted(b)
    PROVE  exit' = "inconsistent" /\ plane' = plane
  <1>. DEFINE lost == plane.blocks[b].invalid_page_count - ErasedCredit(plane.blocks[b])
  <1>1. /\ Balance(plane) - lost # TotalPages => exit' = "inconsistent"
        /\ exit' # "none" => plane' = plane
    BY EraseStep
  <1>2. lost = PagesPerBlock
    BY VictimAllInvalid, PlaneAssumption DEF ErasedCredit
  <1>3. TotalPages \in Int /\ PagesPerBlock \in Nat \ {0}
    BY PlaneAssumption DEF TotalPages
  <1>. HIDE DEF lost
  <1>. QED BY <1>1, <1>2, <1>3 DEF Counted, Balanced

\* The code as it is: every erase after a complete move ends the process.
EveryEraseFails ==
    [][\A b \in Blocks : EraseCompleted(b) => exit' = "inconsistent"]_vars

\* block_manager.cpp:198 credits the pages of a victim that were not invalid, of which
\* there are none: for every geometry, policy and history the next check ends the process.
THEOREM EraseEndsProcess ==
    ASSUME ~ CreditReclaimed
    PROVE  Spec => EveryEraseFails
  <1>1. ASSUME IInv, Counted, NEW b \in Blocks, EraseCompleted(b)
        PROVE  exit' = "inconsistent"
    BY <1>1, EraseFails
  <1>2. IInv /\ Counted /\ [Next]_vars =>
           [\A b \in Blocks : EraseCompleted(b) => exit' = "inconsistent"]_vars
    BY <1>1
  <1>. QED BY <1>2, Invariant, CountInvariant, PTL DEF Spec, EveryEraseFails

\* So no block is ever erased, and dynamic wear leveling has nothing to level.
NoBlockWorn == \A b \in Blocks : plane.blocks[b].erase_count = 0

\* erase_count is counted up in a call that always ends the process: in every state that
\* the code as it is reaches, all blocks are in their first life.
THEOREM NeverErased ==
    ASSUME ~ CreditReclaimed
    PROVE  Spec => []NoBlockWorn
  <1>1. Init => NoBlockWorn
    BY DEF Init, NewPlane, NoBlockWorn
  <1>2. ASSUME IInv, Counted, NoBlockWorn, [Next]_vars
        PROVE  NoBlockWorn'
    <2>1. plane' = plane => NoBlockWorn'
      BY <1>2 DEF NoBlockWorn
    <2>2. ASSUME NEW role \in Roles, NEW s \in Streams, Allocate(role, s)
          PROVE  NoBlockWorn'
      BY <1>2, <2>1, <2>2, AllocateStep, AllocateExits DEF NoBlockWorn, SameContents
    <2>3. ASSUME NEW a \in held, InvalidatePage(a)
          PROVE  NoBlockWorn'
      BY <1>2, <2>3, InvalidateStep DEF NoBlockWorn, SameContents
    <2>4. QuietAction => NoBlockWorn'
      BY <1>2, QuietActionStep DEF NoBlockWorn, SameContents
    <2>5. ASSUME NEW b \in Blocks, EraseCompleted(b)
          PROVE  plane' = plane
      BY <1>2, <2>5, EraseFails
    <2>. QED BY <1>2, <2>1, <2>2, <2>3, <2>4, <2>5, NextCases
  <1>. QED BY <1>1, <1>2, Invariant, CountInvariant, PTL DEF Spec

=============================================================================
