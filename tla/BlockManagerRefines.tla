---------------------- MODULE BlockManagerRefines ----------------------
(***************************************************************************)
(* BlockManager implements FlashPages, for any number of streams, blocks   *)
(* and pages: every call maps to one step of the NAND discipline or to a   *)
(* stutter.                                                                *)
(***************************************************************************)
EXTENDS BlockManagerProofs

-----------------------------------------------------------------------------
(* The refinement mapping                                                     *)

Pointer(b) == plane.blocks[b].current_write_page_index
Owner(b) == IF Pointer(b) = 0 THEN NoStream ELSE plane.blocks[b].stream_id

\* A step that moves no pointer and no owner is a stutter of FlashPages.
LEMMA SamePointers ==
    ASSUME held' = held,
           \A b \in Blocks :
              /\ plane'.blocks[b].current_write_page_index
                    = plane.blocks[b].current_write_page_index
              /\ plane'.blocks[b].stream_id = plane.blocks[b].stream_id
    PROVE  UNCHANGED Flash!vars
  BY DEF Flash!vars

\* Replacing a slot by one with the same pointer and stream moves neither.
LEMMA SameSlotPointers ==
    ASSUME IInv, NEW b \in Blocks, NEW new, Update(b, new),
           new.current_write_page_index = plane.blocks[b].current_write_page_index,
           new.stream_id = plane.blocks[b].stream_id
    PROVE  UNCHANGED Flash!vars
  <1>1. \A c \in Blocks : plane'.blocks[c] = IF c = b THEN new ELSE plane.blocks[c]
    BY DEF Update, IInv, TypeOK, PlaneRecord
  <1>. QED BY <1>1, SamePointers DEF Update

LEMMA UpdatesStutter ==
    ASSUME IInv, NEW b \in Blocks,
           \/ \E a \in held : a.block = b /\ ReadStarted(a)
           \/ ReadFinished(b) \/ ProgramStarted(b) \/ ProgramFinished(b) \/ GcStarted(b)
    PROVE  UNCHANGED Flash!vars
  <1>. DEFINE slot == plane.blocks[b]
  <1>1. slot \in BlockSlot
    BY DEF IInv, TypeOK, PlaneRecord
  <1>2. PICK new : /\ Update(b, new)
                   /\ \/ new = [slot EXCEPT !.ongoing_user_read_cnt = @ + 1]
                      \/ new = [slot EXCEPT !.ongoing_user_read_cnt = @ - 1]
                      \/ new = [slot EXCEPT !.ongoing_user_program_cnt = @ + 1]
                      \/ new = [slot EXCEPT !.ongoing_user_program_cnt = @ - 1]
                      \/ new = [slot EXCEPT !.has_ongoing_gc = TRUE]
    BY DEF ReadStarted, ReadFinished, ProgramStarted, ProgramFinished, GcStarted
  <1>3. /\ new.current_write_page_index = slot.current_write_page_index
        /\ new.stream_id = slot.stream_id
    BY <1>1, <1>2 DEF BlockSlot
  <1>. HIDE DEF slot
  <1>. QED BY <1>2, <1>3, SameSlotPointers DEF slot

\* An allocation moves one pointer by one page; the only stream it changes is that of
\* a block without pages.
LEMMA AllocationEffect ==
    ASSUME IInv, NEW role \in Roles, NEW s \in Streams, Allocate(role, s)
    PROVE  LET b == plane.open_blocks[role][s]
           IN  \/ plane' = plane /\ held' = held
               \/ /\ held' = held \cup {NextPage(plane, role, s)}
                  /\ \A c \in Blocks :
                        plane'.blocks[c].current_write_page_index
                          = IF c = b THEN plane.blocks[c].current_write_page_index + 1
                                     ELSE plane.blocks[c].current_write_page_index
                  /\ \A c \in Blocks :
                        \/ plane'.blocks[c].stream_id = plane.blocks[c].stream_id
                        \/ plane'.blocks[c].current_write_page_index = 0
  <1>. DEFINE b == plane.open_blocks[role][s]
              slot == plane.blocks[b]
              new == Written(slot, role)
              n == Head(plane.free_block_pool).block
  <1>1. /\ b \in Blocks /\ slot \in BlockSlot /\ plane \in PlaneRecord
        /\ slot.current_write_page_index < PagesPerBlock
    BY DEF IInv, TypeOK, PlaneRecord, PointersFitHolder
  <1>2. /\ new.current_write_page_index = slot.current_write_page_index + 1
        /\ new.stream_id = slot.stream_id
    BY <1>1, WrittenSlot
  <1>3. PICK o \in AllocateBlockAndPage(plane, role, s) :
           /\ exit' = o.exit
           /\ plane' = IF o.exit = "none" THEN o.plane ELSE plane
           /\ held' = IF o.exit = "none" THEN held \cup {NextPage(plane, role, s)} ELSE held
    BY DEF Allocate, Settle
  <1>4. CASE o.exit # "none"
    BY <1>3, <1>4
  <1>5. CASE o.exit = "none"
    <2>1. \/ plane'.blocks = [plane.blocks EXCEPT ![b] = new]
          \/ /\ plane.free_block_pool # <<>>
             /\ plane'.blocks = [[plane.blocks EXCEPT ![b] = new]
                                   EXCEPT ![n] = [@ EXCEPT !.stream_id = s]]
      <3>1. plane' = o.plane
        BY <1>3, <1>5
      <3>2. RoomLeft(plane, role, s, o.plane) \/ BlockReplaced(plane, role, s, o.plane)
        BY <1>1, <1>3, <1>5, AllocationOutcome
      <3>. QED BY <3>1, <3>2 DEF RoomLeft, BlockReplaced
    <2>. HIDE DEF new
    <2>2. CASE plane'.blocks = [plane.blocks EXCEPT ![b] = new]
      <3>1. \A c \in Blocks : plane'.blocks[c] = IF c = b THEN new ELSE plane.blocks[c]
        BY <1>1, <2>2 DEF PlaneRecord
      <3>. QED BY <1>2, <1>3, <1>5, <3>1
    <2>3. CASE /\ plane.free_block_pool # <<>>
               /\ plane'.blocks = [[plane.blocks EXCEPT ![b] = new]
                                     EXCEPT ![n] = [@ EXCEPT !.stream_id = s]]
      <3>1. /\ Head(plane.free_block_pool) \in PoolEntry
            /\ Pooled(plane.free_block_pool, n)
        BY <1>1, <2>3, TailOfPool DEF IInv, HolderExclusive, PlaneRecord
      <3>2. n \in Blocks /\ InPool(n) /\ n # b
        BY <1>1, <3>1 DEF PoolEntry, InPool, IsOpen, IInv, HolderExclusive
      <3>. HIDE DEF n
      <3>3. /\ plane'.blocks[b] = new
            /\ plane'.blocks[n] = [plane.blocks[n] EXCEPT !.stream_id = s]
            /\ \A c \in Blocks \ {b, n} : plane'.blocks[c] = plane.blocks[c]
        BY <1>1, <2>3, <3>2 DEF PlaneRecord
      <3>4. plane.blocks[n] \in BlockSlot /\ plane.blocks[n].current_write_page_index = 0
        BY <1>1, <3>2 DEF PlaneRecord, IInv, PointersFitHolder
      <3>5. plane'.blocks[n].current_write_page_index = 0
        BY <3>3, <3>4 DEF BlockSlot
      <3>. QED BY <1>2, <1>3, <1>5, <3>2, <3>3, <3>4, <3>5
    <2>. QED BY <2>1, <2>2, <2>3
  <1>. QED BY <1>4, <1>5

LEMMA AllocateImplements ==
    ASSUME IInv, NEW role \in Roles, NEW s \in Streams, Allocate(role, s)
    PROVE  (\E b \in Blocks : Flash!Allocate(s, b)) \/ UNCHANGED Flash!vars
  <1>0. PICK b \in Blocks : b = plane.open_blocks[role][s]
    BY DEF IInv, TypeOK, PlaneRecord
  <1>1. CASE plane' = plane /\ held' = held
    BY <1>1, SamePointers
  <1>2. ASSUME held' = held \cup {NextPage(plane, role, s)},
               \A c \in Blocks :
                  plane'.blocks[c].current_write_page_index
                    = IF c = b THEN plane.blocks[c].current_write_page_index + 1
                               ELSE plane.blocks[c].current_write_page_index,
               \A c \in Blocks :
                  \/ plane'.blocks[c].stream_id = plane.blocks[c].stream_id
                  \/ plane'.blocks[c].current_write_page_index = 0
        PROVE  Flash!Allocate(s, b)
    <2>1. /\ Pointer(b) \in Nat /\ Pointer(b) < PagesPerBlock
          /\ plane.blocks[b].stream_id = s
      BY <1>0 DEF IInv, TypeOK, PlaneRecord, BlockSlot, PointersFitHolder, Pointer
    <2>2. Owner(b) \in {s, NoStream}
      BY <2>1 DEF Owner
    <2>3. NextPage(plane, role, s) = [stream |-> s, block |-> b, page |-> Pointer(b)]
      BY <1>0 DEF NextPage, Pointer
    <2>4. [c \in Blocks |-> Pointer(c)]'
             = [[c \in Blocks |-> Pointer(c)] EXCEPT ![b] = @ + 1]
      BY <1>2, <2>1 DEF Pointer
    <2>5. [c \in Blocks |-> Owner(c)]' = [[c \in Blocks |-> Owner(c)] EXCEPT ![b] = s]
      <3>1. Owner(b)' = s
        <4>1. Pointer(b)' = Pointer(b) + 1 /\ Pointer(b) + 1 # 0
          BY <1>2, <2>1 DEF Pointer
        <4>2. plane'.blocks[b].stream_id = s
          BY <1>2, <2>1, <4>1 DEF Pointer
        <4>. QED BY <4>1, <4>2 DEF Owner
      <3>2. ASSUME NEW c \in Blocks, c # b
            PROVE  Owner(c)' = Owner(c)
        <4>1. Pointer(c)' = Pointer(c)
          BY <1>2, <3>2 DEF Pointer
        <4>2. plane'.blocks[c].stream_id = plane.blocks[c].stream_id \/ Pointer(c)' = 0
          BY <1>2 DEF Pointer
        <4>. QED BY <4>1, <4>2 DEF Owner
      <3>. QED BY <2>1, <3>1, <3>2
    <2>. QED BY <1>2, <2>1, <2>2, <2>3, <2>4, <2>5 DEF Flash!Allocate, Pointer, Owner
  <1>. QED BY <1>0, <1>1, <1>2, AllocationEffect

LEMMA InvalidateImplements ==
    ASSUME IInv, NEW a \in held, InvalidatePage(a)
    PROVE  Flash!Invalidate(a)
  <1>. DEFINE o == InvalidatePageInBlock(plane, a)
  <1>1. plane \in PlaneRecord /\ a \in PageAddress
    BY DEF IInv, TypeOK
  <1>2. /\ o.exit = "none"
        /\ o.plane.blocks = [plane.blocks EXCEPT ![a.block] = Marked(@, a.page)]
    <2>1. o.exit = "none"
      BY DEF InvalidatePageInBlock, IInv, HeldPagesIntact
    <2>. QED BY <1>1, <2>1, InvalidationOutcome
  <1>3. plane' = o.plane /\ held' = held \ {a}
    BY <1>2 DEF InvalidatePage, Settle
  <1>. HIDE DEF o
  <1>4. ASSUME NEW c \in Blocks
        PROVE  /\ Pointer(c)' = Pointer(c)
               /\ plane'.blocks[c].stream_id = plane.blocks[c].stream_id
    <2>. DEFINE new == Marked(plane.blocks[a.block], a.page)
    <2>1. a.block \in Blocks /\ plane.blocks[a.block] \in BlockSlot
      BY <1>1 DEF PageAddress, PlaneRecord
    <2>2. /\ new.current_write_page_index = plane.blocks[a.block].current_write_page_index
          /\ new.stream_id = plane.blocks[a.block].stream_id
      BY <2>1 DEF Marked, BlockSlot
    <2>. HIDE DEF new
    <2>3. plane'.blocks[c] = IF c = a.block THEN new ELSE plane.blocks[c]
      BY <1>1, <1>2, <1>3 DEF PlaneRecord, new
    <2>. QED BY <2>2, <2>3 DEF Pointer
  <1>5. [c \in Blocks |-> Pointer(c)]' = [c \in Blocks |-> Pointer(c)]
    BY <1>4
  <1>6. [c \in Blocks |-> Owner(c)]' = [c \in Blocks |-> Owner(c)]
    BY <1>4 DEF Owner
  <1>. QED BY <1>3, <1>5, <1>6 DEF Flash!Invalidate, Pointer, Owner

\* The block a completed erase blanks was written, and no caller holds a page of it.
LEMMA EraseImplements ==
    ASSUME IInv, NEW b \in Blocks, EraseCompleted(b)
    PROVE  Flash!Erase(b) \/ UNCHANGED Flash!vars
  <1>. DEFINE new == [Erase(plane.blocks[b]) EXCEPT !.has_ongoing_gc = FALSE]
              o == [AddErasedBlockToPool(plane, b)
                       EXCEPT !.plane.blocks[b].has_ongoing_gc = FALSE]
  <1>1. /\ plane \in PlaneRecord /\ plane.blocks[b] \in BlockSlot
        /\ EachPooledOnce(plane.free_block_pool)
        /\ ~ InPool(b) /\ ~ IsOpen(plane, b) /\ ValidPagesOf(plane, b) = {}
    BY DEF IInv, TypeOK, PlaneRecord, HolderExclusive, VictimsClosed, EraseCompleted
  <1>2. o.plane.blocks = [plane.blocks EXCEPT ![b] = new]
    BY <1>1, EraseOutcome DEF InPool
  <1>3. held' = held /\ plane' = IF o.exit = "none" THEN o.plane ELSE plane
    BY DEF EraseCompleted, Settle
  <1>. HIDE DEF o
  <1>4. CASE o.exit # "none"
    BY <1>3, <1>4, SamePointers
  <1>5. CASE o.exit = "none"
    <2>1. new.current_write_page_index = 0
      BY <1>1 DEF Erase, BlockSlot
    <2>. HIDE DEF new
    <2>2. plane'.blocks[b] = new /\ \A c \in Blocks \ {b} : plane'.blocks[c] = plane.blocks[c]
      BY <1>1, <1>2, <1>3, <1>5 DEF PlaneRecord
    <2>3. Pointer(b)' = 0 /\ Owner(b)' = NoStream
      BY <2>1, <2>2 DEF Pointer, Owner
    <2>4. \A c \in Blocks \ {b} : Pointer(c)' = Pointer(c) /\ Owner(c)' = Owner(c)
      BY <2>2 DEF Pointer, Owner
    <2>5. [c \in Blocks |-> Pointer(c)]' = [[c \in Blocks |-> Pointer(c)] EXCEPT ![b] = 0]
      BY <2>3, <2>4
    <2>6. [c \in Blocks |-> Owner(c)]' = [[c \in Blocks |-> Owner(c)] EXCEPT ![b] = NoStream]
      BY <2>3, <2>4
    <2>7. Pointer(b) > 0
      BY <1>1, PlaneAssumption DEF IInv, PointersFitHolder, Pointer
    <2>8. \A a \in held : a.block # b
      BY <1>1 DEF IInv, HeldPagesIntact
    <2>. QED BY <1>3, <2>5, <2>6, <2>7, <2>8 DEF Flash!Erase, Pointer, Owner
  <1>. QED BY <1>4, <1>5

-----------------------------------------------------------------------------
(* The theorem                                                                *)

LEMMA InitImplements == Init => Flash!Init
  BY DEF Init, NewPlane, Flash!Init

LEMMA NextImplements == IInv /\ [Next]_vars => [Flash!Next]_(Flash!vars)
  <1>. SUFFICES ASSUME IInv, [Next]_vars
                PROVE  Flash!Next \/ UNCHANGED Flash!vars
    OBVIOUS
  <1>1. ASSUME NEW s \in Streams,
               \/ AllocateForUserWrite(s) \/ AllocateForGcWrite(s)
               \/ AllocateForTranslationGcWrite(s)
        PROVE  Flash!Next \/ UNCHANGED Flash!vars
    <2>1. PICK role \in Roles : Allocate(role, s)
      BY <1>1 DEF Roles, AllocateForUserWrite, AllocateForGcWrite,
                  AllocateForTranslationGcWrite
    <2>2. (\E b \in Blocks : Flash!Allocate(s, b)) \/ UNCHANGED Flash!vars
      BY <2>1, AllocateImplements
    <2>. QED BY <2>2 DEF Flash!Next
  <1>2. ASSUME NEW a \in held, InvalidatePage(a)
        PROVE  Flash!Next
    BY <1>2, InvalidateImplements DEF Flash!Next
  <1>3. ASSUME NEW a \in held, ReadStarted(a)
        PROVE  UNCHANGED Flash!vars
    <2>1. a.block \in Blocks
      BY DEF IInv, TypeOK, PageAddress
    <2>. QED BY <1>3, <2>1, UpdatesStutter
  <1>4. ASSUME NEW b \in Blocks,
               \/ ReadFinished(b) \/ ProgramStarted(b) \/ ProgramFinished(b)
               \/ GcStarted(b)
        PROVE  UNCHANGED Flash!vars
    BY <1>4, UpdatesStutter
  <1>5. ASSUME NEW b \in Blocks, EraseCompleted(b)
        PROVE  Flash!Next \/ UNCHANGED Flash!vars
    <2>1. Flash!Erase(b) \/ UNCHANGED Flash!vars
      BY <1>5, EraseImplements
    <2>. QED BY <2>1 DEF Flash!Next
  <1>6. CASE UNCHANGED vars
    BY <1>6, SamePointers DEF vars
  <1>. QED BY <1>1, <1>2, <1>3, <1>4, <1>5, <1>6 DEF Next

\* Whatever the callers do, pages are handed out in order and once between two erases
\* of their block, and no erase destroys a page a caller holds.
THEOREM Implementation == Spec => ImplementsFlashPages
  BY Invariant, InitImplements, NextImplements, PTL DEF Spec, ImplementsFlashPages, Flash!Spec

=============================================================================
