# sim-ssd in TLA+

Specifications, model checks and proofs for sim-ssd, a C++ simulator of a solid
state drive (a port of MQSim in progress). The code has no tests, its `main` is
empty and several classes are declared without a body; the parts that exist are
the flash bookkeeping, the NAND chip with its worker thread, the data cache, the
garbage-collection trigger and the page-level address mapping. Where a caller is
missing, the model says what it assumes of it.

Everything runs inside this directory:

    tlc -workers 2 -config MCBlockCode.cfg BlockManager
    tlapm BlockManagerProofs.tla


## Inventory

| component (under src/) | state | operations | works with | hard behaviour | what makes it correct |
|---|---|---|---|---|---|
| `block_manager/` **PlaneBookKeeping**, **BlockManager** | per plane: three page counters, the open block of each stream and role (data, GC, translation), the free pool ordered by erase count, the usage history; per block: write pointer, invalid bitmap and count, owner, erase count, programs and reads in flight, GC flag | allocate a page for a user, GC or translation write; invalidate a page; start and end reads, programs, collections; return an erased block; the check after each | called by the mapping and the (missing) collector; calls `GcWlUnit::CheckGcRequired` | user writes, programs and a collection overlap; pool and history at their limits; `exit()` from inside a call | a block has one holder; pages are given out in order; nothing live is erased; counters balance; least worn block first |
| `gc_wl/` **GcWlUnit** | policy, thresholds, a random generator | decide whether to collect, search a victim, judge a victim's safety, ask for urgency, stop user writes | reads the plane, pops its history | search loops that may not end, ids outside the block vector, policy cases that fall through | a victim is closed, the search ends, the policy chosen is the policy run |
| `nand_chip/` **NandChip** | pages, command queue, stop flag, mutex, condition variable, promises | `push_command`, `worker_loop`, read/program/erase, destructor | called from any thread | a signal sent after unlocking, lost and spurious wakeups, a flag read without the mutex, a join, commands left in the queue | a serial device: each command once, in order; every future resolves; the destructor returns |
| `cache_manager/cache.*` **DataCache** | a map of slots and an LRU list | get, insert read or written data, update, evict (dirty or oldest), mark as written back, remove | a cache manager (declared only) and the flash behind it | write-backs in flight while a page is updated, evicted or read again; capacity 0; an iterator used after `erase` | no write is lost; list and map agree; the oldest dirty page leaves first |
| `address_mapping/` **CMT**, **AddressMappingDomain**, **AddressMappingPageLevel** | cached mapping entries with LRU list; mapping table; pages barred for GC; writes waiting per die | look up, reserve, insert and evict entries; allocate a page for a write, GC write or unmapped read; set and lift barriers; convert PPA and address | BlockManager, GcWlUnit | first writes without an old page; entries evicted while their read is on the way; barriers nobody asks about; waiting writes nobody serves | the mapping and the pages' metadata agree; barriers hold; waiting writes resume |
| `cache_manager/cache_maneger.h` **CacheManager** | declared | none defined | DataCache | | |
| `nand_driver/`, `ftl.h`, `transaction/`, `user_request.h`, `param.h`, `main.cpp` | plain data | stubs | | | |

PROJECT.json lists the same components with their sources, and under `hazards`
every place where this code can go wrong in a way a test would hardly reach, with
the properties that watch it or the reason why none does yet.

How the parts interact: a user write goes to the address mapping, which picks a
plane, asks BlockManager for a page and invalidates the old one. When the open
block is full BlockManager opens the front of the pool and calls CheckGcRequired,
which looks at the pool and searches a victim. Programs, reads and erases are to
reach the chip as commands with a future each. In the repository no code
connects the last two steps: the scheduler and the collector are missing.


## Modules

| module | models | how it corresponds to the code |
|---|---|---|
| `PlaneBookKeeping` | PlaneBookKeeping, BlockSlot; the methods of BlockManager and GcWlUnit on them | a plane is a record with the class's fields. A method is an operator from records to records; one that may call `exit` returns a set of outcomes `[plane, exit]` |
| `BlockManager` | BlockManager and its callers | one action per method; `held` is what the callers keep as the places of live data (the mapping table), `exit` is why the process ended |
| `FlashPages` | the promise of the bookkeeping | pages of a block in order and once between erases, one stream per block, no erase of live pages |
| `PlaneBookKeepingProofs` | proofs | what each method does to a plane, once for all the modules that use planes |
| `BlockManagerProofs`, `BlockManagerRefines` | proofs | invariants; every step of BlockManager is a step or a stutter of FlashPages |
| `NandCommands` | NandCmd, NandTask, NandResult, the pages | data shared by the two modules below |
| `NandChip` | push_command, worker_loop, the chip operations, ~NandChip | one action per critical section or per unguarded read; the position of each thread is a variable |
| `NandStore` | the promise of the chip | a serial device with futures; no threads, locks or signals |
| `MCNandChip` | | the commands the runs use |
| `NandChipProofs` | proofs | invariants; NandChip implements NandStore |
| `DataCache` | DataCache, a careful cache manager, the flash behind it | the cache is a record `[slots, lru_list]`; the private steps are operators on it |
| `DataCacheProofs` | proofs | what the private steps do to list and map; no write is lost; the order of eviction |
| `GcVictim` | the victim searches of CheckGcRequired | extends `BlockManager`: the call, each draw of `GetRandomBlockId`, and the return are actions |
| `GcVictimProofs` | proofs | the search implements BlockManager; its victims are what their policy asks for |
| `CachedMappingTable` | CachedMappingTable, CMTSlot, the key macros | the table is a record `[slots, lru_list]`; a method is an operator on it or on the slot it finds |
| `CachedMapping` | a careful dispatcher and the mapping on flash | a miss, a look-up, a write, an eviction, a write-back and the two answers of the flash are actions |
| `CachedMappingProofs` | proofs | what the methods do to a table; list, map, reads and write-backs agree; only writes remap |
| `PhysicalAddress` | PhysicalPageAddress, its conversions, the plane of a logical page | operators over the geometry's constants |
| `AddressMapping` | AddressMappingPageLevel and AddressMappingDomain over the two above and `PlaneBookKeeping` | one action per transaction, per step of the collector and per completion |
| `PageMap` | the promise of the mapping | a logical page is in one physical page, programmed for it since the block was erased |
| `AddressMappingProofs` | proofs | address arithmetic; table, planes, barriers and transactions agree; the mapping implements PageMap |

`map` in PROJECT.json gives the lines each definition stands for.

### BlockManager and its callers

An allocation takes the next page of the role's open block, counts it, and, when
the block is full, takes the front of the pool, records it in the history and
runs the GC trigger, all in one action, as in one call of the code. Its outcomes
are the four ways the call can end: normally, `empty_pool`, a failed
`CheckBookKeepingCorrectness` (`inconsistent`, `no_free_pages`) or
`gc_victim`. The last one stands for the victim searches of the policies other
than FIFO, which draw block ids from a distribution that was never given the range
of ids: besides returning they can crash or never return.

The collector is declared only. Its steps on this class are read off the API:
`GcStartedOnBlock` on a written block that `IsSafeGcCandidate` accepts, valid
pages moved by the GC allocation and `InvalidatePageInBlock`, then, when
`CanExecGC` and nothing valid is left, `AddErasedBlockToPool` and
`GcFinishedOnBlock`. Callers invalidate through an address they were given and
have not given up; they start reads on such addresses and programs on open
blocks. Programs counted by `ProgramTransactionIssued` end in any order.

`CreditReclaimed` exists because of the finding below. FALSE is the code: the
first erase after a complete move ends the process. TRUE gives the counters back
what is taken from them and is the only difference. It explores the rest of the
life of a block, which the code as it is can never reach. The proofs hold for both
values.

Left out of the records: fields nothing reads or that never change
(`current_status`, `hot_block`, `is_bad`, `ongoing_erase_tr`). One plane stands
for all, since planes share nothing here.

### NandChip

Push is the critical section of `push_command`; the signal is an action of its own,
because it comes after the unlock. The worker reads `stop_flag` at its loop head
without the mutex, then waits, leaves, or takes a task under it. A signal moves a
sleeping worker on and is otherwise lost; a wakeup may come without a signal. The
operation on the pages and `set_value` are one step, since only the worker
touches the pages. The destructor sets the flag under the mutex, signals, joins,
and destroys the queue, which breaks the promises left in it. Callers do not
call into an object under destruction.

Block and page ids are either valid or `Absent` (what a failed look-up in the code
amounts to); contents are model values.

### DataCache

The manager asked of the cache's user: it updates cached pages with UpdateData and
inserts others, makes room with EvictOneDirtyPage while there are unflushed pages,
writes back what it gets unless the status is EMPTY, reads a page from flash when no
write-back of it is on the way, and removes a page whose write-back is done. The
flash serves write-backs in order. Under a manager that does not make room,
`EvictOnePageLRU` inside an insert drops unflushed data (cache.cpp:97), and one that
inserts what is cached loses the new data (cache.cpp:114); the model states that duty
in the guards `RoomMade` and `k \notin Cached(cache)`. RemoveSlot erases the map node
and reads the list position through the iterator it erased; the outcomes are the
intact position and a crash.

### GcVictim

BlockManager takes a search for one step that leaves the plane alone and may not
return. GcVictim opens that step up. `CallSearch` begins inside an allocation that has
switched its block and found the pool low; `Seen` is the plane as the search finds it,
page taken and block switched. Each `Draw` is one turn of the loop of the policy;
`Return` goes on with the allocation, which drops the victim, as in the code. FIFO has
no draws and stays in `PlaneBookKeeping`. GREEDY's own choice is lost when it falls
through to RGA, so both are the same here.

`dist` is never given a range: `std::uniform_int_distribution<int>` then covers
0..INT_MAX, and `Drawable` has one id more than the blocks to stand for all of the
others. Reading there is undefined: any verdict, or the end of the process (`Crash`).
`rga_set_size` is never initialised; the value is chosen from `RgaSizes` at each call,
0 included, where the first element of an empty set is read.

### CachedMapping

The dispatcher (`TranslateLpaToPpaAndDispatch`) is declared only. It is modelled as
careful as the methods allow: it reserves a slot before it reads an entry, reads only
when no write-back of that entry is on the way, evicts only when there is no free slot,
and not while a read is on its way, because `EvictOne` takes the last slot of the list
whatever its status. Without that last care `WaitingIsReading` fails: the hazard at
address_mapping.cpp:112. `InsertsReserved` exists because of a finding: FALSE is
the code, which can never fill a slot; TRUE lets `Insert` fill a slot that is waiting.

### AddressMapping

The state is the plane records, the table's slots, the pages barred by collections,
and what is on the flash: user reads and programs and the collector's moves. A
write is one action from QueryCMT to UpdateMappingInfo, as it is one call: invalidate
the old page, start the read of it when the write is partial, allocate, and remap.

- The table has an entry for every logical page, the default of AddressMappingDomain;
  nothing is evicted, and eviction is `CachedMapping`'s subject.
- `metadata`, the logical page stored with a physical page, is kept for valid pages only,
  the ones anybody asks about. `GetLPA` of the driver is a stub that returns the page's
  index. With `DriverReadsLpa` it returns the metadata.
- Transactions that wait in the two barrier queues and in the queue of an overfull plane
  wait for ever, since nothing that is defined serves those queues: they are a count.
- The first write of a page reads beyond the plane records. This is undefined, and the
  model ends the process (`undefined_behaviour`); behaviours in which it does not happen
  go on from pages first read, which `OnlineCreateEntryForRead` maps.
- Line 348 calls a constructor of TransactionRead that does not exist; the object is
  modelled by the address that the next lines put into it.
- The collector (`GcStart`, `GcMove`, `MoveDone`, `EraseCompleted`) asks IsSafeGcCandidate
  for its victim, bars it, moves each valid page, lifts a page's bar when its program is
  done, and erases when `CanExecGC` and all moves are done. It has one duty that
  IsSafeGcCandidate does not take off it: programs of moves are not counted
  (block_manager.cpp:149), so it must itself keep off a block such a program is on its
  way to. Without this guard a page still barred by one collection is barred again by the
  next ("LPA already locked!").

## Runs

| run | shows | bounds, and why they are enough |
|---|---|---|
| `block_code` | the code as it is, up to the exit an erase leads to: two streams compete for one pool, blocks go to the right stream and pointers fit (`PointersFitHolder`), victims stay closed, FIFO's history is never popped empty, the exits `no_free_pages` and `wrong_stream` are never taken | two streams, 8 blocks of 1 page: six open, two pooled, every write fills its block, and the pool passes the threshold and then is empty; two programs and one read in flight |
| `block_reclaim` | credit balanced: holders, pointers, live pages and all three counters are right through write, invalidate, collect, erase, pool, open again; the NAND discipline of `FlashPages` holds | 4 blocks of 2 pages, each erased at most once: every block can be in its second life, with pages of the first one known to the callers |
| `block_erase_check` | **violation**: the plane's own consistency check fails after an erase | one stream, 4 blocks of 2 pages |
| `nand_interleaving` | the threads implement the serial device; no wakeup is lost; pending futures are the tail of the commands, in order; the worker leaves cleanly; every future becomes ready; the destructor returns | two callers, three commands of seven kinds (every failure, and program, read and erase of one page); one is in the worker's hand while two wait |
| `cache_writeback` | no interleaving of updates, evictions, write-backs, reads and removals loses a write; flushed pages are safe to drop; list and map agree; the oldest unflushed page leaves first | three pages in a cache of 0, 1 or 2: a page can be out, on its way, and back in; two write-backs of one page can be in flight |
| `cmt` | with fillable slots: list and map agree, a slot waits exactly while its read is on the way, clean entries are on flash or on their way, and only writes change what a look-up says | three streams with a page each in a table of two slots: every miss after two needs an eviction; two write-backs of one entry can be in flight |
| `cmt_insert` | **violation**: the first insert ends the process | as `cmt` |
| `mapping` | mapping, bitmaps and metadata agree (`MappedPagesValid`); the barred pages are those being moved or about to be (`LockedPagesHeld`); no block is erased under a read, a program or a move; no assertion but that of an empty pool is met; the whole implements `PageMap` | two planes, two logical pages of one of them, 6 blocks of 2 pages a plane, one collection at a time, three erases a plane, one read, one program and any moves in flight: blocks are opened for the second time, partial and full overwrites happen, and a collection meets writes to the pages it moves |
| `mapping_collections` | collections give back at least the blocks they take, and user writes leave a block for all but one of the collections that may run and never meet an empty pool (`CollectionsPayBack`); a block that is opened is a least worn one (`LeastWornFirst`); no page is barred twice and no assertion is met (`AssertionsHold`) | two logical pages, 7 blocks of 2 pages a plane, two collections of a plane at a time, three erases, one read and one program in flight, writes of whole pages only: writes meet a victim with pages still to move, two victims hold valid pages at once, two moves are on their way at once, pools run empty, and erased blocks come back among fresh ones. (That a block comes back to a pool with a more worn one in it takes four erases: this is left to the theorem `LeastWornOpened`) |
| `mapping_first_write` | **violation**, latent behind address_mapping.cpp:48: the first write of a page goes beyond the plane records | as `mapping`, with `InsertsReserved` TRUE, since no write gets so far in the code as it is, and the code's values of the other two switches |
| `gc_search` | under every drawing policy the search ends when there is something to find; a victim is what the comment on RGA, RANDOM_P or RANDOM_PP asks for (`VictimAsAsked`), the threshold of RANDOM_P excepted; the search is the one step BlockManager takes it for | 5 blocks of 1 page, pool of two, threshold two: a search with blank blocks left in the pool and one with none; set sizes 0 and 2; victims of no and of one invalid page |
| `gc_fallback` | **violation**: RANDOM_PP does not fall back to the coldest block and draws for ever | as `gc_search` |

The switches `CreditReclaimed`, `InsertsReserved` and `DriverReadsLpa` each stand for one
line of the code that ends the process before anything behind it can happen. FALSE is
the code and TRUE the smallest change that goes on. `block_code`, `block_erase_check`,
`cmt_insert`, `mapping_first_write` (but for `InsertsReserved`), `gc_search` and
`gc_fallback` run with FALSE; `block_reclaim`, `cmt`, `mapping` and `mapping_collections` look
behind these exits.

Why two runs of the mapping: the partial writes and the reads of `mapping` and the second
collection of `mapping_collections` are too much for one. With two collections allowed
`StopServicingWrites` stops user writes earlier, so the second run has a block more: with 6, one
of them with pages first read (whose programs never end, and which can therefore not be
collected), no write would ever meet a collection.

Bounds named in the modules: `MaxErase`, `MaxPrograms`, `MaxReads`, `MaxCommands`,
`MaxFlushing`, `MaxWriting`, `MaxStalled`. They stand in guards of the actions whose counters they cap.

Deadlock is not checked where the system may really stop: a process that has
exited, a plane full of live pages, a chip that is destroyed.

Every property is broken by at least one mutation of the code's own definitions,
listed under `mutants`. These definitions (marked `mutant:`) are used by nothing else.

### Fairness

NandChip's specification assumes weak fairness of the worker's own steps, of each
caller's signal after its push, and of the destructor's signal and join: an operating
system runs a thread that stays runnable, and nothing here competes for a lock
for ever, since each critical section is finite. Nobody is obliged to push, to
destroy the chip, or to wake the worker without a signal; liveness therefore rests on
the signals alone.

GcVictim assumes that the loop goes on and that an id that changes something is drawn
in the end, if there is one: a uniform generator draws every block again and again.
Nothing is assumed of crashes, so a search never ends by one in `SearchEnds`.
BlockManager, CachedMapping, AddressMapping and DataCache have no threads of their own, and no
fairness.

### Findings

`block_manager.cpp:198` adds `pages_per_block - invalid_page_count` to the free pages
and the next line takes `invalid_page_count` off the invalid ones. A block is erased
when all its pages are invalid, so nothing is added and everything is taken off:
the check called on line 203 ends the process with "Inconsistent status in the plane
bookkeeping record!". The shortest behaviour fills a block, invalidates its pages,
collects and erases it.

`address_mapping.cpp:48` refuses to insert into a slot that is not VALID, but slots are
reserved as WAITING (:108) and only an insert makes one VALID (:55). The first mapping
read ends the process with "Mapping entry not found or not valid in CMT!".

`address_mapping.cpp:341` invalidates the old page of a write without asking whether
there is one, as the read path (:388) and the collector's path (:363) do. NO_VALUE becomes a
channel number far beyond the plane records. Only pages that were read before they were
written escape, because the read allocated a page for them. The defect is latent: in the code
as it is, no entry can ever be loaded (`NothingEverFound`, `InsertEndsProcess`), so no write
gets to this line before the finding above is mended.

`gc_wl.cpp:128`: the comment of RANDOM_PP promises the coldest block when no block has
few enough valid pages. The loop draws on for ever instead, inside the allocation that
called it.


## Proofs

Every safety property, action property and refinement that a passing run checks, but
`CollectionsPayBack`, is proved, for every number of streams, blocks, pages, callers, commands, sectors and
transactions, every geometry, threshold and policy, and every bound. The
assumptions on the constants are named in the modules that declare these:

| assumption | says | because |
|---|---|---|
| `PlaneAssumption` | at least three blocks a stream; 1 to 255 streams; a threshold of at least 1 | the constructor opens three blocks a stream; 0xff is the sentinel of `stream_id`; the constructor of GcWlUnit raises the threshold to 1 |
| `GeometryAssumption` | every dimension of the device is a positive number | the divisions of the address conversion |
| `MappingAssumption` | mapping and block manager are given the same geometry; `NO_VALUE` is no PPA; logical addresses are numbers | each class keeps its own copies; NO_VALUE is the greatest 64-bit number |
| `CacheAssumption` | the initial content is a content; capacities are numbers, 0 included | |
| `TableAssumption`, `TrafficAssumption` | an LPA fits in the bits the key leaves it; bounds are numbers | the shift in LPN_TO_UNIQUE_KEY |
| `CommandAssumption`, `ChipAssumption`, `SearchAssumption` | ids and bounds are numbers, absent ids are not valid ones; a search has a drawing policy | |

Four theorems have a hypothesis of their own, because the code is wrong without it:
`ReclaimedStaysConsistent` asks for balanced credits, `ReservedNeverRefused` for slots that
can be filled, `AssertionsAlwaysHold` for `Explored` (the three switches TRUE and the policy
FIFO, as in the run `mapping`), and
`WritesAlwaysLeaveReserve`, a step towards `CollectionsPayBack` that no run checks by itself, for
room for at least one collection: with `max_ongoing_gc_reqs_per_plane` 0, `StopServicingWrites`
compares the pool with 0, never stops a write, and an empty pool ends the process. `EraseEndsProcess` and
`NeverErased` are about the code as it is, with `CreditReclaimed` FALSE, `NothingEverFound` and
`InsertEndsProcess` too, with `InsertsReserved` FALSE.

#### What the models assume of missing callers, and leave to them

Some guards are duties of callers the repository does not define. The properties hold of
the code under callers that keep them:

- `ProgramStarted` (BlockManager) asks that the block is open. ProgramTransactionStartedOnBlock
  does not (block_manager.cpp:290-294), so that `VictimsClosed` speaks of programs that were
  started on open blocks.
- `GcStart` (AddressMapping) keeps off blocks that a move is on its way to; IsSafeGcCandidate does
  not see such programs (block_manager.cpp:149).
- `Evict` (CachedMapping) happens while no mapping is being read, and `Miss` not while a
  write-back of the same entry is on its way.
- `Found` (AddressMapping) asks IsLPALockedForGC first. QueryCMT (address_mapping.cpp:411-427) never
  does; the dispatcher that would is missing.
- DataCache has whole-page contents. UpdateData replaces the sector bitmap and the content
  of earlier writes (cache.cpp:136-137), so its caller must hand it whole pages.
- NandChip has whole-page payloads. write_page copies a page's size from the caller's buffer
  whatever its length (nand_chip.cpp:95).
- A read of an unmapped page allocates without asking StopServicingWrites
  (address_mapping.cpp:437), and may end the process with `empty_pool`; so may a move.

Two comments in gc_wl.cpp promise more than the code does, and no property claims it: GREEDY is
to take the coldest block (:70), but its loop stops after one block and control falls
through to RGA, whose choice replaces it; RANDOM_P is to ask for few valid pages (:113), but its loop
never looks at them. Nothing uses the victims of these searches, so nothing else differs
for it.


## Planes

BlockManager, GcVictim and AddressMapping put planes to different uses, and their
proofs rest on the same lemmas about single planes in `PlaneBookKeepingProofs`. `SoundPlane`
says of one plane that it has its types, that a block has one holder, that write
pointers fit the holder (blank in the pool, room when open, full otherwise),
that victims are neither, and that only written pages are marked. `CountedPlane` adds that
the counters balance and count what they say. Each method keeps both, and the lemmas
say what else it changes: which block is written or opened, what is valid
afterwards, what the outcome can be. `PoolInOrder` is of use with dynamic wear leveling:
the pool is sorted by its keys, and a key is the erase count its block has now. The pool is a
multimap, whose insertion puts a block behind those with an equal key; what leaves is the
front (`LeavesFromFront`), so that every method keeps the order.

### BlockManager

No single property is inductive. The invariant `IInv` joins

- `TypeOK`, the types, with write pointers within their block,
- `HolderExclusive`, so that a block given out leaves the pool and nothing else changes
  hands,
- `PointersFitHolder`, so that a block taken from the pool is blank and one replaced is
  full; without it the pointer could run past the block,
- `VictimsClosed`, so that an erased block was not pooled or open,
- `MarkedPagesWritten`, invalid bits only below the write pointer, so that a page
  given out is not already marked,
- `HeldPagesIntact`, so that an erase (no valid page) touches no held address.

`BlockManagerProofs` shows `Init => IInv`, then for each action that each conjunct it
can disturb is preserved, and concludes
`Invariant`, `TypeCorrect`, `HoldersExclusive`, `PointersFit`, `HeldPagesSafe` and
`VictimsStayClosed`. The other properties need one more fact each:

- `HistoryKept`: no step leaves the usage history shorter, since FIFO pops only after a push
  in the same call.
- `CountersRight` (`CountInvariant`): `Counted` joins `CountersAgree` with the balance of the
  three counters. That a page given out moves one unit from blank to held, and one
  invalidated one unit from held to marked, is cardinality of sets that gain or lose
  one element. An erase needs `VictimAllInvalid`: a victim without valid pages is full, so all
  of its pages are marked.
- `ReclaimedStaysConsistent`, `ExitsUnreachable`: from the balance, the check after an erase
  succeeds when the credit is balanced; while a page can be given out there is a blank
  page to count off, so `no_free_pages` is never met.
- `EraseEndsProcess`, `NeverErased`: the finding about block_manager.cpp:198 for every geometry. The credit is
  nothing and the debit a whole block, in every reachable state; therefore no block of any
  plane is ever in its second life.

`BlockManagerRefines` uses `IInv` to show `Implementation`: Spec implements FlashPages
with `programmed` the write pointers, `owner` the stream of a written block, and
`live` what the callers hold. An allocation is an Allocate of the abstract machine even
when it opens a new block in the same step, because the pooled block is blank before
and after; an allocation that ends the process is a stutter.

### NandChip

`IInv` is `TypeOK`, `Phases` (what the positions of worker and owner say about the
task, the flag and the queue), `NoLostWakeup` and `PendingInOrder`. The heart of
`PendingInOrder` is arithmetic: the unserved ids are the last ones, so the served one
is the head of the abstract queue. `Invariant`,
`TypeCorrect`, `LostWakeupFree`, `PendingOrdered` and `CleanExit` follow from it. `Implementation` maps `waiting` to the task in hand
followed by the queue, so that Take is a stutter and Serve is the abstract Serve;
setting the stop flag is Close, and destroying the queue after the join is Abandon.

### DataCache

`CacheInv` says of a cache that the list names the cached pages, each once. Lemmas on the
list (what removing, moving to the front and appending do to its order) give
what each private step of the class does to a cache. Two more parts say why nothing is
lost and who leaves first:

- `SafeContents` is `NewestVisible` and `FlushedIsSafe` together, of any cache,
  write-backs and flash. `Coming` is what the last write-back of a page leaves on
  flash. The two properties need each other: a page dropped by an eviction was flushed, so
  what comes is what it held (`FlushedIsSafe`), and that was the newest (`NewestVisible`).
  `FlushDone` moves the oldest write-back to the flash, which changes what comes of no page.
- `UsedOrder` relates the list to the history of uses kept beside it: nearer to the front
  means used later.

`CacheInvariant` joins them with the types and the capacity (a cache of capacity 0 holds
one page at most, since the check for room comes before the insert). From it follow
`CacheTypeCorrect`, `ListMatchesSlots`, `NoWriteLost`, `FlushedPagesSafe` and
`OldestFlushedFirst`.

### GcVictim

While a search runs, the plane stays as its caller left it, so the allocation that
began it can still be made and still searches: `Calling`, joined with `SearchTypeOK`, is
inductive. From it `Implementation` follows: a call, a draw and the reading of an
empty set are stutters of BlockManager, a return is the allocation, and a crash is
the allocation with the exit `gc_victim`, which only a policy other than FIFO can take
(`SearchAssumption`). `SearchTypeCorrect` is the type part, which says that no loop counts
more retries than there are blocks.

`VictimsAsAsked` is about the plane that the search sees, with one page more taken and one block
switched than in any state of BlockManager. `WellKept` says what is left of
`IInv` and `Counted` in it: open and pooled blocks are not full, a block with room that is
not open has no invalid page, and each block counts the bits of its bitmap, so that few
invalid pages counted are few valid pages in fact. `VictimInv` adds `DrawnSafely`, what the
loop has made sure of for the blocks it has kept so far.

### CachedMapping

`TableInv` says what a table is after any of its own methods: the keys of the LRU list
are those of the map, each once, their number is finite and within the capacity, and
VALID slots say a mapping. The lemmas `RetrieveKeeps`, `ReserveKeeps`, `EvictKeeps` and `SlotChange`
show that each method keeps it, with what lies beneath them on splicing, pushing and popping
the list. `KeyInv` says of one key what the reads and write-backs on their way have to do
with its slot. It is needed because neither half stands alone: an answer finds its slot
only if nothing evicts a waiting slot, and what it inserts is current only if nothing of the key was
being written. `IInv` joins the two with the types. Each action touches one key, and the
others are `Same`; the lemma of an action shows at once that `IInv` is kept and
that what a look-up says changes by a write alone. From these come `Invariant`, `TypeCorrect`,
`ListMatches`, `WaitingAwaited`, `CleanEntriesStored` and `WritesAloneRemap`, for both values of
`InsertsReserved`, and `ReservedNeverRefused` for TRUE. For FALSE, the code as it is,
`NothingEverFound` shows that no entry ever becomes VALID, and `InsertEndsProcess` that every
answer to a mapping read ends the process: the finding about address_mapping.cpp:48, for any
traffic. The assumption on the geometry
(`TableAssumption`) is that an LPA fits in the bits the key leaves it.

### AddressMapping

The invariant says how the table, the bitmaps, the metadata, the barriers and the
flash fit together on all planes of a device:

- `PlanesSound`: every plane is a `SoundPlane` and a `CountedPlane`,
- `SlotsFilled`: an entry is absent or filled,
- `Linked`: an entry leads to a valid page, of its plane and stream, whose metadata is its
  own key; and each valid page has an entry. Neither direction is inductive without the
  other: that an invalidation takes the only entry of a page needs the metadata, and that
  a page given out is nobody's needs that all valid pages have entries,
- `MovesInPlace`: a page under a move is where the move put it, in no victim, and in
  no other move. It needs the collector's duty to keep off blocks with moves on their way,
- `locked_lpa = PagesHeld`: the barred pages are those, by what is in the planes now. It gives
  `MovesInPlace` in turn that no user write touches a page under a move,
- `InFlightCounted`: each block counts at least its transactions in flight, so that
  `CanExecGC` refuses an erase under any of them,
- the stalled transactions and `ExitKnown`, which under `Explored` is `AssertionsHold`.

Addresses come first: `AddressOfPPA` and `PPAOfAddress` show that
ConvertPPAtoAddress and ConvertAddresstoPPA are inverse for every geometry, so that
different pages have different numbers, and `PlaneOfPage` that
AllocatePlaneForUserWrite names a plane of the device. Then
`Relocates` says what an allocation, and the invalidation before it, do to the whole
device: one page becomes valid, one at most ceases to be, and
nothing else that `Linked` speaks of changes. Writes, first reads and moves are all
shown to relocate their page; the other actions leave every page where it is.

`NextKeepsIInv` shows for each action that `IInv` is kept, and at once what the step does
to the places of pages (`Moved`): nothing (`PlacesStay`), one page taken
(`TakesPage`), or a block erased that no page is in (`Erases`). From it follow
`MappingInvariant`, `MappingTypeCorrect`, `MappedPagesAreValid`, `LockedPagesAreHeld`, `InFlightNeverErased`
and `AssertionsAlwaysHold`; all but the last for every value of the switches.
`WritesAlwaysLeaveReserve` comes from `StopServicingWrites` and from the pool losing at most one
block to an allocation: a user write leaves a block for every other collection that may run.
`LeastWornOpened` carries `PoolInOrder` over all planes: no write, read, move or erase of one
plane touches the pool of another, and the write that opens a block on a plane is shown to take
the front of its pool.

`MappingImplementsPageMap` maps a logical page to the block and page of its entry, or to
`Nowhere` (no block, and a page number that no block has), and a block to its write pointer. `Moved` is
then a stutter, a Put and an Erase. Lifting a bar, filling an entry, reading and
ending the process are stutters.

### What is only model-checked

- Liveness under fairness (`EveryFutureResolves`, `DestructorReturns`, `SearchEnds`), which is out of the prover's reach, as is ENABLED. The refinement of
  NandStore is of its safety part, which is all that NandStore states.
- `CollectionsPayBack`, which adds up, over the streams, the pages still to be moved and the blocks
  they will fill.
- The runs that find a violation, whose behaviours are counterexamples.
  `EraseEndsProcess` and `InsertEndsProcess` prove two of them to be the rule.
- That every action can be taken, so that no theorem holds for want of behaviours.

No module uses RECURSIVE operators, and no property needs induction over data.


## Not modelled

- What the repository declares and does not define: the dispatcher, the scheduler of
  transactions, the collector, CacheManager, FTL, StartServicingWritesForOverfullPlane,
  the constructor of AddressMappingPageLevel, main. Where another part needs one, its caller's
  duties are modelled as said above, and marked external in `map`.
- `GetColdestBlockId`, `GetMinMaxEraseDifference`, `GcIsUrgentMode` (which asks about chip 0
  whatever chip it is given), the getters: queries without a caller.
- Requests, timestamps, sizes in bytes, priorities: nothing reads them.
- The random bad-block ids of nand_chip.h:56, which never end for a plane of one block and
  which nothing reads.
- Shared mapping tables: a domain is given a table or makes its own; the model has one
  table for all streams, with the stream in the key, as the key macros have it.


## Plan

1. `PlaneBookKeeping`, `BlockManager`, `FlashPages`: modelled, checked, proved.
2. `NandChip`, `NandStore`: modelled, checked, proved.
3. `DataCache`: modelled, checked, proved.
4. `GcVictim`, `CachedMapping`, `PhysicalAddress`, `AddressMapping`, `PageMap`: modelled,
   checked, proved.
5. To come: an abstract specification of the data cache (a store whose reads return
   the newest write) and the proof that DataCache implements it.
