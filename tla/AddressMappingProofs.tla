------------------------- MODULE AddressMappingProofs -------------------------
(***************************************************************************)
(* Proofs about AddressMapping for any geometry of the device, any         *)
(* streams, logical pages, thresholds, policy and bounds, and for every    *)
(* value of the switches CreditReclaimed, InsertsReserved and              *)
(* DriverReadsLpa unless a theorem names one.                              *)
(***************************************************************************)
EXTENDS AddressMapping, PlaneBookKeepingProofs

-----------------------------------------------------------------------------
(* Arithmetic of physical page addresses                                      *)

LEMMA Division ==
    ASSUME NEW n \in Nat, NEW d \in Nat \ {0}
    PROVE  /\ n \div d \in Nat
           /\ n % d \in 0..(d - 1)
           /\ n = d * (n \div d) + (n % d)
  BY SMT

LEMMA TimesMonotone ==
    ASSUME NEW d \in Nat, NEW q \in Nat, NEW r \in Nat, q < r
    PROVE  d * q + d <= d * r
  BY SMT

LEMMA ProductPositive ==
    ASSUME NEW d \in Nat \ {0}, NEW e \in Nat \ {0}
    PROVE  d * e \in Nat \ {0}
  BY SMT

LEMMA Quotient ==
    ASSUME NEW n \in Nat, NEW d \in Nat \ {0}, NEW q \in Nat, NEW r \in 0..(d - 1),
           n = d * q + r
    PROVE  n \div d = q /\ n % d = r
  <1>1. n \div d \in Nat /\ n % d \in 0..(d - 1) /\ n = d * (n \div d) + (n % d)
    BY Division
  <1>. DEFINE u == n \div d
              v == n % d
  <1>2. ~ (u < q)
    BY <1>1, TimesMonotone, SMT
  <1>3. ~ (q < u)
    BY <1>1, TimesMonotone, SMT
  <1>. QED BY <1>1, <1>2, <1>3, SMT

LEMMA BelowProduct ==
    ASSUME NEW d \in Nat \ {0}, NEW m \in Nat \ {0}, NEW q \in Nat, NEW r \in 0..(d - 1)
    PROVE  /\ d * q + r \in Nat
           /\ d * q + r \in 0..(d * m - 1) <=> q \in 0..(m - 1)
  BY TimesMonotone, SMT

LEMMA UnitsPositive ==
    /\ pages_per_plane \in Nat \ {0}
    /\ pages_per_die \in Nat \ {0}
    /\ pages_per_chip \in Nat \ {0}
    /\ pages_per_channel \in Nat \ {0}
  <1>1. pages_per_plane \in Nat \ {0}
    BY GeometryAssumption, ProductPositive DEF pages_per_plane
  <1>2. pages_per_die \in Nat \ {0}
    BY <1>1, GeometryAssumption, ProductPositive DEF pages_per_die
  <1>3. pages_per_chip \in Nat \ {0}
    BY <1>2, GeometryAssumption, ProductPositive DEF pages_per_chip
  <1>4. pages_per_channel \in Nat \ {0}
    BY <1>3, GeometryAssumption, ProductPositive DEF pages_per_channel
  <1>. QED BY <1>1, <1>2, <1>3, <1>4

\* The offsets of a page in its plane, die, chip and channel.
InPlane(a)   == pages_per_block * a.block_id + a.page_id
InDie(a)     == pages_per_plane * a.plane_id + InPlane(a)
InChip(a)    == pages_per_die * a.die_id + InDie(a)
InChannel(a) == pages_per_chip * a.chip_id + InChip(a)

LEMMA OffsetsFit ==
    ASSUME NEW a \in PhysicalPageAddress
    PROVE  /\ InPlane(a) \in 0..(pages_per_plane - 1)
           /\ InDie(a) \in 0..(pages_per_die - 1)
           /\ InChip(a) \in 0..(pages_per_chip - 1)
           /\ InChannel(a) \in 0..(pages_per_channel - 1)
           /\ pages_per_channel * a.channel_id + InChannel(a) \in PPA
           /\ ConvertAddresstoPPA(a) = pages_per_channel * a.channel_id + InChannel(a)
  <1>1. /\ a.channel_id \in 0..(channel_no - 1) /\ a.chip_id \in 0..(chips_per_channel - 1)
        /\ a.die_id \in 0..(dies_per_chip - 1) /\ a.plane_id \in 0..(planes_per_die - 1)
        /\ a.block_id \in 0..(blocks_per_plane - 1) /\ a.page_id \in 0..(pages_per_block - 1)
    BY DEF PhysicalPageAddress
  <1>2. /\ a.channel_id \in Nat /\ a.chip_id \in Nat /\ a.die_id \in Nat
        /\ a.plane_id \in Nat /\ a.block_id \in Nat /\ a.page_id \in Nat
    BY <1>1, GeometryAssumption
  <1>3. InPlane(a) \in 0..(pages_per_plane - 1)
    BY <1>1, <1>2, GeometryAssumption, BelowProduct DEF InPlane, pages_per_plane
  <1>4. InDie(a) \in 0..(pages_per_die - 1)
    BY <1>1, <1>2, <1>3, UnitsPositive, GeometryAssumption, BelowProduct
    DEF InDie, pages_per_die
  <1>5. InChip(a) \in 0..(pages_per_chip - 1)
    BY <1>1, <1>2, <1>4, UnitsPositive, GeometryAssumption, BelowProduct
    DEF InChip, pages_per_chip
  <1>6. InChannel(a) \in 0..(pages_per_channel - 1)
    BY <1>1, <1>2, <1>5, UnitsPositive, GeometryAssumption, BelowProduct
    DEF InChannel, pages_per_channel
  <1>7. pages_per_channel * a.channel_id + InChannel(a) \in PPA
    BY <1>1, <1>2, <1>6, UnitsPositive, GeometryAssumption, BelowProduct DEF PPA
  <1>8. ConvertAddresstoPPA(a) = pages_per_channel * a.channel_id + InChannel(a)
    <2>1. ASSUME NEW u \in Nat, NEW n \in Nat, NEW x \in Nat, NEW y \in Nat
          PROVE  u * (x * n + y) = (u * n) * x + u * y
      OBVIOUS
    <2>2. pages_per_chip * (a.channel_id * chips_per_channel + a.chip_id)
            = pages_per_channel * a.channel_id + pages_per_chip * a.chip_id
      BY <1>2, <2>1, UnitsPositive, GeometryAssumption DEF pages_per_channel
    <2>3. /\ pages_per_channel * a.channel_id \in Nat /\ pages_per_chip * a.chip_id \in Nat
          /\ pages_per_die * a.die_id \in Nat /\ pages_per_plane * a.plane_id \in Nat
          /\ pages_per_block * a.block_id \in Nat
      BY <1>2, UnitsPositive, GeometryAssumption
    <2>. QED
      BY <1>2, <2>2, <2>3 DEF ConvertAddresstoPPA, InChannel, InChip, InDie, InPlane
  <1>. QED BY <1>3, <1>4, <1>5, <1>6, <1>7, <1>8

\* The number of a page names it, and only it.
LEMMA AddressOfPPA ==
    ASSUME NEW a \in PhysicalPageAddress
    PROVE  /\ ConvertAddresstoPPA(a) \in PPA
           /\ ConvertPPAtoAddress(ConvertAddresstoPPA(a)) = a
  <1>. DEFINE ppa == ConvertAddresstoPPA(a)
  <1>1. /\ a.channel_id \in Nat /\ a.chip_id \in Nat /\ a.die_id \in Nat
        /\ a.plane_id \in Nat /\ a.block_id \in Nat /\ a.page_id \in 0..(pages_per_block - 1)
    BY GeometryAssumption DEF PhysicalPageAddress
  <1>2. /\ ppa \in Nat /\ InChannel(a) \in Nat /\ InChip(a) \in Nat /\ InDie(a) \in Nat
        /\ InPlane(a) \in Nat
    BY OffsetsFit, UnitsPositive, GeometryAssumption DEF PPA
  <1>10. ppa = pages_per_channel * a.channel_id + InChannel(a)
    BY OffsetsFit
  <1>. HIDE DEF ppa
  <1>3. ppa \div pages_per_channel = a.channel_id /\ ppa % pages_per_channel = InChannel(a)
    BY <1>1, <1>2, <1>10, OffsetsFit, UnitsPositive, Quotient
  <1>4. /\ InChannel(a) \div pages_per_chip = a.chip_id
        /\ InChannel(a) % pages_per_chip = InChip(a)
    BY <1>1, <1>2, OffsetsFit, UnitsPositive, Quotient DEF InChannel
  <1>5. InChip(a) \div pages_per_die = a.die_id /\ InChip(a) % pages_per_die = InDie(a)
    BY <1>1, <1>2, OffsetsFit, UnitsPositive, Quotient DEF InChip
  <1>6. InDie(a) \div pages_per_plane = a.plane_id /\ InDie(a) % pages_per_plane = InPlane(a)
    BY <1>1, <1>2, OffsetsFit, UnitsPositive, Quotient DEF InDie
  <1>7. InPlane(a) \div pages_per_block = a.block_id /\ InPlane(a) % pages_per_block = a.page_id
    BY <1>1, <1>2, GeometryAssumption, Quotient DEF InPlane
  <1>8. a = [channel_id |-> a.channel_id, chip_id |-> a.chip_id, die_id |-> a.die_id,
             plane_id |-> a.plane_id, block_id |-> a.block_id, page_id |-> a.page_id]
    BY DEF PhysicalPageAddress
  <1>9. ConvertPPAtoAddress(ppa)
          = [channel_id |-> a.channel_id, chip_id |-> a.chip_id, die_id |-> a.die_id,
             plane_id |-> a.plane_id, block_id |-> a.block_id, page_id |-> a.page_id]
    BY <1>3, <1>4, <1>5, <1>6, <1>7 DEF ConvertPPAtoAddress
  <1>. QED BY <1>8, <1>9, OffsetsFit DEF ppa

LEMMA DivisionFits ==
    ASSUME NEW d \in Nat \ {0}, NEW m \in Nat \ {0}, NEW n \in 0..(d * m - 1)
    PROVE  n \div d \in 0..(m - 1)
  <1>1. n \in Nat
    OBVIOUS
  <1>. DEFINE q == n \div d
              r == n % d
  <1>2. q \in Nat /\ r \in 0..(d - 1) /\ n = d * q + r
    BY <1>1, Division
  <1>. HIDE DEF q, r
  <1>3. d * q + r \in 0..(d * m - 1)
    BY <1>2
  <1>4. q \in 0..(m - 1)
    BY <1>2, <1>3, BelowProduct
  <1>. QED BY <1>4 DEF q

LEMMA PPAOfAddress ==
    ASSUME NEW ppa \in PPA
    PROVE  /\ ConvertPPAtoAddress(ppa) \in PhysicalPageAddress
           /\ ConvertAddresstoPPA(ConvertPPAtoAddress(ppa)) = ppa
  <1>. DEFINE inChannel == ppa % pages_per_channel
              inChip    == inChannel % pages_per_chip
              inDie     == inChip % pages_per_die
              inPlane   == inDie % pages_per_plane
              a         == ConvertPPAtoAddress(ppa)
  <1>1. ppa \in Nat /\ ppa \in 0..(pages_per_channel * channel_no - 1)
    BY DEF PPA
  <1>2. inChannel \in 0..(pages_per_channel - 1) /\ inChannel \in Nat
    BY <1>1, UnitsPositive, Division
  <1>. HIDE DEF inChannel
  <1>3. inChip \in 0..(pages_per_chip - 1) /\ inChip \in Nat
    BY <1>2, UnitsPositive, Division
  <1>. HIDE DEF inChip
  <1>4. inDie \in 0..(pages_per_die - 1) /\ inDie \in Nat
    BY <1>3, UnitsPositive, Division
  <1>. HIDE DEF inDie
  <1>5. inPlane \in 0..(pages_per_plane - 1) /\ inPlane \in Nat
    BY <1>4, UnitsPositive, Division
  <1>. HIDE DEF inPlane
  <1>6. /\ ppa \div pages_per_channel \in 0..(channel_no - 1)
        /\ inChannel \div pages_per_chip \in 0..(chips_per_channel - 1)
        /\ inChip \div pages_per_die \in 0..(dies_per_chip - 1)
        /\ inDie \div pages_per_plane \in 0..(planes_per_die - 1)
        /\ inPlane \div pages_per_block \in 0..(blocks_per_plane - 1)
    BY <1>1, <1>2, <1>3, <1>4, <1>5, UnitsPositive, GeometryAssumption, DivisionFits
    DEF pages_per_channel, pages_per_chip, pages_per_die, pages_per_plane
  <1>7. inPlane % pages_per_block \in 0..(pages_per_block - 1)
    BY <1>5, GeometryAssumption, Division
  <1>8. a = [channel_id |-> ppa \div pages_per_channel,
             chip_id    |-> inChannel \div pages_per_chip,
             die_id     |-> inChip \div pages_per_die,
             plane_id   |-> inDie \div pages_per_plane,
             block_id   |-> inPlane \div pages_per_block,
             page_id    |-> inPlane % pages_per_block]
    BY DEF ConvertPPAtoAddress, inChannel, inChip, inDie, inPlane
  <1>. HIDE DEF a
  <1>9. a \in PhysicalPageAddress
    BY <1>6, <1>7, <1>8 DEF PhysicalPageAddress
  <1>10. ConvertAddresstoPPA(a) = ppa
    <2>1. InPlane(a) = inPlane
      BY <1>5, <1>8, GeometryAssumption, Division DEF InPlane
    <2>2. InDie(a) = inDie
      <3>1. inDie = pages_per_plane * (inDie \div pages_per_plane) + (inDie % pages_per_plane)
        BY <1>4, UnitsPositive, Division
      <3>. QED BY <1>8, <2>1, <3>1 DEF InDie, inPlane
    <2>3. InChip(a) = inChip
      <3>1. inChip = pages_per_die * (inChip \div pages_per_die) + (inChip % pages_per_die)
        BY <1>3, UnitsPositive, Division
      <3>. QED BY <1>8, <2>2, <3>1 DEF InChip, inDie
    <2>4. InChannel(a) = inChannel
      <3>1. inChannel
              = pages_per_chip * (inChannel \div pages_per_chip) + (inChannel % pages_per_chip)
        BY <1>2, UnitsPositive, Division
      <3>. QED BY <1>8, <2>3, <3>1 DEF InChannel, inChip
    <2>5. pages_per_channel * a.channel_id + InChannel(a) = ppa
      <3>1. ppa = pages_per_channel * (ppa \div pages_per_channel) + (ppa % pages_per_channel)
        BY <1>1, UnitsPositive, Division
      <3>. QED BY <1>8, <2>4, <3>1 DEF inChannel
    <2>. QED BY <1>9, <2>5, OffsetsFit
  <1>. QED BY <1>9, <1>10 DEF a

\* Every logical page belongs to a plane.
LEMMA PlaneOfPage ==
    ASSUME NEW lpa \in Nat
    PROVE  AllocatePlane(lpa) \in PlaneId
  <1>1. /\ channel_no * chips_per_channel \in Nat \ {0}
        /\ (channel_no * chips_per_channel) * dies_per_chip \in Nat \ {0}
    BY GeometryAssumption, ProductPositive
  <1>2. /\ lpa \div channel_no \in Nat
        /\ lpa \div (channel_no * chips_per_channel) \in Nat
        /\ lpa \div ((channel_no * chips_per_channel) * dies_per_chip) \in Nat
    BY <1>1, GeometryAssumption, Division
  <1>3. /\ lpa % channel_no \in 0..(channel_no - 1)
        /\ (lpa \div channel_no) % chips_per_channel \in 0..(chips_per_channel - 1)
        /\ (lpa \div (channel_no * chips_per_channel)) % dies_per_chip
              \in 0..(dies_per_chip - 1)
        /\ (lpa \div ((channel_no * chips_per_channel) * dies_per_chip)) % planes_per_die
              \in 0..(planes_per_die - 1)
    BY <1>2, GeometryAssumption, Division
  <1>. QED BY <1>3 DEF AllocatePlane, PlaneId

\* The planes' bookkeeping and the addresses count blocks and pages alike.
LEMMA SameGeometry ==
    /\ 0..(blocks_per_plane - 1) = Blocks
    /\ 0..(pages_per_block - 1) = Pages
  BY MappingAssumption DEF Blocks, Pages

LEMMA PlaceOfPPA ==
    ASSUME NEW ppa \in PPA
    PROVE  LET a == ConvertPPAtoAddress(ppa)
           IN  /\ a \in PhysicalPageAddress
               /\ PlaneOf(a) \in PlaneId /\ a.block_id \in Blocks /\ a.page_id \in Pages
               /\ PPAOf(PlaneOf(a), a.block_id, a.page_id) = ppa
  <1>. DEFINE a == ConvertPPAtoAddress(ppa)
  <1>1. a \in PhysicalPageAddress /\ ConvertAddresstoPPA(a) = ppa
    BY PPAOfAddress
  <1>. HIDE DEF a
  <1>2. PlaneOf(a) \in PlaneId /\ a.block_id \in Blocks /\ a.page_id \in Pages
    BY <1>1, SameGeometry DEF PhysicalPageAddress, PlaneOf, PlaneId
  <1>3. a = [channel_id |-> a.channel_id, chip_id |-> a.chip_id, die_id |-> a.die_id,
             plane_id |-> a.plane_id, block_id |-> a.block_id, page_id |-> a.page_id]
    BY <1>1 DEF PhysicalPageAddress
  <1>4. PPAOf(PlaneOf(a), a.block_id, a.page_id) = ppa
    BY <1>1, <1>3 DEF PPAOf, PlaneOf
  <1>. QED BY <1>1, <1>2, <1>4 DEF a

LEMMA PPAOfPlace ==
    ASSUME NEW pl \in PlaneId, NEW b \in Blocks, NEW page \in Pages
    PROVE  LET ppa == PPAOf(pl, b, page)
               a   == ConvertPPAtoAddress(ppa)
           IN  ppa \in PPA /\ PlaneOf(a) = pl /\ a.block_id = b /\ a.page_id = page
  <1>. DEFINE a == [channel_id |-> pl.channel_id, chip_id |-> pl.chip_id,
                    die_id |-> pl.die_id, plane_id |-> pl.plane_id,
                    block_id |-> b, page_id |-> page]
  <1>1. a \in PhysicalPageAddress
    BY SameGeometry DEF PhysicalPageAddress, PlaneId
  <1>2. PlaneOf(a) = pl /\ a.block_id = b /\ a.page_id = page
    BY DEF PlaneOf, PlaneId
  <1>3. PPAOf(pl, b, page) = ConvertAddresstoPPA(a)
    BY DEF PPAOf
  <1>. HIDE DEF a
  <1>. QED BY <1>1, <1>2, <1>3, AddressOfPPA

-----------------------------------------------------------------------------
(* What a call makes of a plane, in the terms of the mapping                  *)

\* The count of transactions of a type in a block.
Count(slot, type) ==
    IF type = "READ" THEN slot.ongoing_user_read_cnt ELSE slot.ongoing_user_program_cnt

\* The same pages are valid, and a block that has one keeps its stream.
SamePages(q, p) ==
    \A b \in Blocks :
        /\ ValidPagesOf(q, b) = ValidPagesOf(p, b)
        /\ ValidPagesOf(p, b) # {} => q.blocks[b].stream_id = p.blocks[b].stream_id

\* No block is erased, and none becomes a victim or ceases to be one.
SameVictims(q, p) ==
    \A b \in Blocks :
        /\ q.blocks[b].erase_count = p.blocks[b].erase_count
        /\ q.blocks[b].has_ongoing_gc = p.blocks[b].has_ongoing_gc

\* No page is programmed, and no block erased.
SamePointers(q, p) ==
    \A b \in Blocks :
        q.blocks[b].current_write_page_index = p.blocks[b].current_write_page_index

\* One page of block b is programmed.
OneWritten(q, p, b) ==
    \A c \in Blocks :
        q.blocks[c].current_write_page_index
          = p.blocks[c].current_write_page_index + (IF c = b THEN 1 ELSE 0)

LEMMA CountedSlots ==
    ASSUME NEW p, SoundPlane(p), NEW b \in Blocks
    PROVE  /\ p.blocks[b] \in BlockSlot
           /\ Count(p.blocks[b], "READ") \in Nat /\ Count(p.blocks[b], "WRITE") \in Nat
  BY DEF SoundPlane, PlaneRecord, BlockSlot, Count

\* A slot whose pointer, bitmap and stream stay is a quiet change of the plane.
LEMMA QuietSlot ==
    ASSUME NEW p, SoundPlane(p), CountedPlane(p), NEW b \in Blocks, NEW new \in BlockSlot,
           new.current_write_page_index = p.blocks[b].current_write_page_index,
           new.invalid_page_count = p.blocks[b].invalid_page_count,
           new.invalid_page_bitmap = p.blocks[b].invalid_page_bitmap,
           new.stream_id = p.blocks[b].stream_id,
           new.has_ongoing_gc =>
              /\ ~ IsOpen(p, b) /\ ~ Pooled(p.free_block_pool, b)
              /\ new.ongoing_user_program_cnt = 0
    PROVE  LET q == [p EXCEPT !.blocks[b] = new]
           IN  /\ SoundPlane(q) /\ CountedPlane(q) /\ SamePages(q, p)
               /\ q.blocks[b] = new /\ \A c \in Blocks \ {b} : q.blocks[c] = p.blocks[c]
               /\ q.open_blocks = p.open_blocks
               /\ q.free_block_pool = p.free_block_pool
  <1>. DEFINE q == [p EXCEPT !.blocks[b] = new]
  <1>1. /\ SoundPlane(q) /\ q.blocks = [p.blocks EXCEPT ![b] = new]
        /\ SameCounts(q, p)
        /\ q.open_blocks = p.open_blocks /\ q.free_block_pool = p.free_block_pool
        /\ \A c \in Blocks : ValidPagesOf(q, c) = ValidPagesOf(p, c)
    BY SoundSlot
  <1>. HIDE DEF q
  <1>2. q.blocks[b] = new /\ \A c \in Blocks \ {b} : q.blocks[c] = p.blocks[c]
    BY <1>1 DEF SoundPlane, PlaneRecord
  <1>3. \A c \in Blocks :
           /\ q.blocks[c].current_write_page_index = p.blocks[c].current_write_page_index
           /\ q.blocks[c].invalid_page_count = p.blocks[c].invalid_page_count
           /\ q.blocks[c].invalid_page_bitmap = p.blocks[c].invalid_page_bitmap
           /\ q.blocks[c].stream_id = p.blocks[c].stream_id
    BY <1>2
  <1>4. CountedPlane(q)
    BY <1>1, <1>3, CountedSlot
  <1>5. SamePages(q, p)
    BY <1>1, <1>3 DEF SamePages
  <1>. QED BY <1>1, <1>2, <1>4, <1>5 DEF q

\* A read in flight is counted in its block.
LEMMA ReadCounted ==
    ASSUME NEW p, SoundPlane(p), CountedPlane(p), NEW b \in Blocks
    PROVE  LET q == [p EXCEPT !.blocks[b].ongoing_user_read_cnt = @ + 1]
           IN  /\ SoundPlane(q) /\ CountedPlane(q) /\ SamePages(q, p) /\ SameVictims(q, p)
               /\ q.open_blocks = p.open_blocks /\ q.free_block_pool = p.free_block_pool
               /\ \A c \in Blocks :
                     /\ q.blocks[c].current_write_page_index
                          = p.blocks[c].current_write_page_index
                     /\ q.blocks[c].stream_id = p.blocks[c].stream_id
                     /\ Count(q.blocks[c], "WRITE") = Count(p.blocks[c], "WRITE")
                     /\ Count(q.blocks[c], "READ") = Count(p.blocks[c], "READ")
                                                      + (IF c = b THEN 1 ELSE 0)
  <1>. DEFINE slot == p.blocks[b]
              new == [slot EXCEPT !.ongoing_user_read_cnt = @ + 1]
              q == [p EXCEPT !.blocks[b] = new]
  <1>1. slot \in BlockSlot /\ p \in PlaneRecord
    BY DEF SoundPlane, PlaneRecord
  <1>2. /\ new \in BlockSlot
        /\ new.current_write_page_index = slot.current_write_page_index
        /\ new.invalid_page_count = slot.invalid_page_count
        /\ new.invalid_page_bitmap = slot.invalid_page_bitmap
        /\ new.stream_id = slot.stream_id
        /\ new.has_ongoing_gc = slot.has_ongoing_gc
        /\ new.erase_count = slot.erase_count
        /\ new.ongoing_user_program_cnt = slot.ongoing_user_program_cnt
        /\ new.ongoing_user_read_cnt = slot.ongoing_user_read_cnt + 1
    BY <1>1 DEF BlockSlot
  <1>3. q = [p EXCEPT !.blocks[b].ongoing_user_read_cnt = @ + 1]
    BY <1>1 DEF PlaneRecord
  <1>. HIDE DEF new
  <1>4. /\ SoundPlane(q) /\ CountedPlane(q) /\ SamePages(q, p)
        /\ q.blocks[b] = new /\ \A c \in Blocks \ {b} : q.blocks[c] = p.blocks[c]
        /\ q.open_blocks = p.open_blocks /\ q.free_block_pool = p.free_block_pool
    <2>1. new.has_ongoing_gc =>
             /\ ~ IsOpen(p, b) /\ ~ Pooled(p.free_block_pool, b)
             /\ new.ongoing_user_program_cnt = 0
      BY <1>2 DEF SoundPlane, VictimsKept
    <2>. QED BY <1>2, <2>1, QuietSlot
  <1>. HIDE DEF q, slot
  <1>5. SameVictims(q, p)
    BY <1>2, <1>4 DEF SameVictims, slot
  <1>6. ASSUME NEW c \in Blocks
        PROVE  /\ q.blocks[c].current_write_page_index
                    = p.blocks[c].current_write_page_index
               /\ q.blocks[c].stream_id = p.blocks[c].stream_id
               /\ Count(q.blocks[c], "WRITE") = Count(p.blocks[c], "WRITE")
               /\ Count(q.blocks[c], "READ") = Count(p.blocks[c], "READ")
                                                + (IF c = b THEN 1 ELSE 0)
    <2>1. CASE c = b
      BY <1>2, <1>4, <2>1 DEF Count, slot
    <2>2. CASE c # b
      BY <1>4, <2>2, CountedSlots
    <2>. QED BY <2>1, <2>2
  <1>7. /\ SoundPlane(q) /\ CountedPlane(q) /\ SamePages(q, p) /\ SameVictims(q, p)
        /\ q.open_blocks = p.open_blocks /\ q.free_block_pool = p.free_block_pool
    BY <1>4, <1>5
  <1>. QED BY <1>3, <1>6, <1>7

\* What a page handed out by an allocation changes.
LEMMA AllocationEffect ==
    ASSUME NEW p, SoundPlane(p), CountedPlane(p), NEW role \in Roles, NEW s \in Streams,
           NEW o \in AllocateBlockAndPage(p, role, s), o.exit = "none"
    PROVE  LET b == p.open_blocks[role][s]
               page == p.blocks[b].current_write_page_index
               q == o.plane
           IN  /\ SoundPlane(q) /\ CountedPlane(q) /\ SameVictims(q, p)
               /\ b \in Blocks /\ page \in Pages /\ page \notin ValidPagesOf(p, b)
               /\ ~ p.blocks[b].has_ongoing_gc
               /\ ValidPagesOf(q, b) = ValidPagesOf(p, b) \cup {page}
               /\ \A c \in Blocks \ {b} : ValidPagesOf(q, c) = ValidPagesOf(p, c)
               /\ q.blocks[b].stream_id = s
               /\ \A c \in Blocks : ValidPagesOf(p, c) # {} =>
                     q.blocks[c].stream_id = p.blocks[c].stream_id
               /\ \A c \in Blocks :
                     /\ Count(q.blocks[c], "READ") = Count(p.blocks[c], "READ")
                     /\ Count(q.blocks[c], "WRITE") = Count(p.blocks[c], "WRITE")
                          + (IF role = "data" /\ c = b THEN 1 ELSE 0)
  <1>. DEFINE b == p.open_blocks[role][s]
              slot == p.blocks[b]
              page == slot.current_write_page_index
              new == Written(slot, role)
              q == o.plane
  <1>1. /\ b \in Blocks /\ slot \in BlockSlot /\ page \in Pages /\ page < PagesPerBlock
        /\ slot.stream_id = s /\ ~ slot.has_ongoing_gc
    BY OpenBlock
  <1>2. /\ SoundPlane(q) /\ CountedPlane(q) /\ q.blocks[b] = new
        /\ \A c \in Blocks \ {b} : Untouched(q.blocks[c], p.blocks[c])
    BY SoundAllocation, CountedAllocation
  <1>3. /\ page \notin ValidPagesOf(p, b)
        /\ ValidPagesOf(q, b) = ValidPagesOf(p, b) \cup {page}
        /\ \A c \in Blocks \ {b} : ValidPagesOf(q, c) = ValidPagesOf(p, c)
    <2>. HIDE DEF q
    <2>1. /\ q.blocks[p.open_blocks[role][s]]
               = Written(p.blocks[p.open_blocks[role][s]], role)
          /\ \A c \in Blocks \ {p.open_blocks[role][s]} : Untouched(q.blocks[c], p.blocks[c])
      BY <1>2
    <2>. QED BY <2>1, AllocatedPageValid
  <1>4. /\ new.stream_id = slot.stream_id
        /\ new.has_ongoing_gc = slot.has_ongoing_gc
        /\ new.erase_count = slot.erase_count
        /\ new.ongoing_user_read_cnt = slot.ongoing_user_read_cnt
    BY <1>1 DEF Written, BlockSlot
  <1>5. new.ongoing_user_program_cnt
          = slot.ongoing_user_program_cnt + (IF role = "data" THEN 1 ELSE 0)
    <2>1. slot.ongoing_user_program_cnt \in Nat
      BY <1>1 DEF BlockSlot
    <2>. QED BY <1>1, <2>1 DEF Written, BlockSlot
  <1>6. p \in PlaneRecord
    BY DEF SoundPlane
  <1>. HIDE DEF new, q
  <1>7. SameVictims(q, p)
    BY <1>2, <1>4 DEF SameVictims, Untouched
  <1>8. ASSUME NEW c \in Blocks, ValidPagesOf(p, c) # {}
        PROVE  q.blocks[c].stream_id = p.blocks[c].stream_id
    <2>1. p.blocks[c].current_write_page_index # 0
      BY <1>8 DEF ValidPagesOf, Pages
    <2>. QED BY <1>2, <1>4, <2>1 DEF Untouched
  <1>9. ASSUME NEW c \in Blocks
        PROVE  /\ Count(q.blocks[c], "READ") = Count(p.blocks[c], "READ")
               /\ Count(q.blocks[c], "WRITE") = Count(p.blocks[c], "WRITE")
                    + (IF role = "data" /\ c = b THEN 1 ELSE 0)
    <2>1. CASE c = b
      BY <1>2, <1>4, <1>5, <2>1 DEF Count
    <2>2. CASE c # b
      BY <1>2, <2>2, CountedSlots DEF Count, Untouched
    <2>. QED BY <2>1, <2>2
  <1>10. q.blocks[b].stream_id = s
    BY <1>1, <1>2, <1>4
  <1>. QED BY <1>1, <1>2, <1>3, <1>7, <1>8, <1>9, <1>10 DEF q

LEMMA AllocationPointers ==
    ASSUME NEW p, SoundPlane(p), CountedPlane(p), NEW role \in Roles, NEW s \in Streams,
           NEW o \in AllocateBlockAndPage(p, role, s), o.exit = "none"
    PROVE  OneWritten(o.plane, p, p.open_blocks[role][s])
  <1>. DEFINE b == p.open_blocks[role][s]
              q == o.plane
  <1>1. b \in Blocks /\ p.blocks[b] \in BlockSlot
    BY OpenBlock
  <1>2. /\ q.blocks[b] = Written(p.blocks[b], role)
        /\ \A c \in Blocks \ {b} : Untouched(q.blocks[c], p.blocks[c])
    BY SoundAllocation, CountedAllocation
  <1>. HIDE DEF b, q
  <1>3. q.blocks[b].current_write_page_index = p.blocks[b].current_write_page_index + 1
    BY <1>1, <1>2 DEF Written, BlockSlot
  <1>4. \A c \in Blocks : p.blocks[c].current_write_page_index \in Nat
    BY CountedSlots DEF BlockSlot
  <1>5. OneWritten(q, p, b)
    BY <1>2, <1>3, <1>4 DEF OneWritten, Untouched
  <1>. QED BY <1>5 DEF b, q

\* FIFO never ends the search for a victim in the process's end.
LEMMA FifoExits ==
    ASSUME NEW p, SoundPlane(p), CountedPlane(p), NEW role \in Roles, NEW s \in Streams,
           NEW o \in AllocateBlockAndPage(p, role, s), GcPolicy = "FIFO"
    PROVE  o.exit \in {"none", "empty_pool"}
  <1>1. o.exit \in {"none", "empty_pool", "gc_victim"}
    BY AllocationExits
  <1>2. ASSUME NEW r, NEW x \in CheckGcRequired(r)
        PROVE  x.exit \in {"inconsistent", "no_free_pages", "none"}
    BY <1>2 DEF CheckGcRequired, Checked, CheckBookKeepingCorrectness
  <1>3. o.exit # "gc_victim"
    BY <1>2 DEF AllocateBlockAndPage, Checked, CheckBookKeepingCorrectness
  <1>. QED BY <1>1, <1>3

\* An allocation takes one block of the pool at most, and ends the process for want of
\* one only when there is none.
LEMMA AllocationPool ==
    ASSUME NEW p, SoundPlane(p), NEW role \in Roles, NEW s \in Streams,
           NEW o \in AllocateBlockAndPage(p, role, s)
    PROVE  /\ Len(p.free_block_pool) \in Nat
           /\ o.exit = "empty_pool" => Len(p.free_block_pool) = 0
           /\ o.exit = "none" => Len(o.plane.free_block_pool) >= Len(p.free_block_pool) - 1
  <1>1. p \in PlaneRecord /\ p.free_block_pool \in Seq(PoolEntry)
    BY DEF SoundPlane, PlaneRecord
  <1>2. Len(p.free_block_pool) \in Nat
    BY <1>1, LenProperties
  <1>3. ASSUME o.exit = "empty_pool" PROVE Len(p.free_block_pool) = 0
    <2>. DEFINE q == TakePage(p, role, s)
    <2>1. q.free_block_pool = p.free_block_pool
      BY <1>1, OpenBlock, TakenPage
    <2>. HIDE DEF q
    <2>2. ASSUME NEW r, NEW x \in CheckGcRequired(r) PROVE x.exit # "empty_pool"
      BY <2>2 DEF CheckGcRequired, Checked, CheckBookKeepingCorrectness
    <2>3. q.free_block_pool = <<>>
      BY <1>3, <2>2 DEF AllocateBlockAndPage, Checked, CheckBookKeepingCorrectness, q
    <2>. QED BY <2>1, <2>3
  <1>4. ASSUME o.exit = "none"
        PROVE  Len(o.plane.free_block_pool) >= Len(p.free_block_pool) - 1
    <2>1. RoomLeft(p, role, s, o.plane) \/ BlockReplaced(p, role, s, o.plane)
      BY <1>1, <1>4, OpenBlock, AllocationOutcome
    <2>2. CASE RoomLeft(p, role, s, o.plane)
      BY <1>2, <2>2 DEF RoomLeft
    <2>3. CASE BlockReplaced(p, role, s, o.plane)
      <3>1. p.free_block_pool # <<>> /\ o.plane.free_block_pool = Tail(p.free_block_pool)
        BY <2>3 DEF BlockReplaced
      <3>. QED BY <1>1, <1>2, <3>1, HeadTailProperties
    <2>. QED BY <2>1, <2>2, <2>3
  <1>. QED BY <1>2, <1>3, <1>4

-----------------------------------------------------------------------------
(* The device: the parts of the inductive invariant                           *)

HasPlace(ss, k) == ss[k].status = "VALID" /\ ss[k].mapping.ppa # NoValue

\* The slot of the block that a PPA is in, and whether its page is valid.
SlotAt(ps, ppa) ==
    LET a == ConvertPPAtoAddress(ppa) IN ps[PlaneOf(a)].blocks[a.block_id]

ValidAt(ps, ppa) ==
    LET a == ConvertPPAtoAddress(ppa)
    IN  a.page_id \in ValidPagesOf(ps[PlaneOf(a)], a.block_id)

PlanesSound(ps) ==
    /\ ps \in [PlaneId -> PlaneRecord]
    /\ \A pl \in PlaneId : SoundPlane(ps[pl]) /\ CountedPlane(ps[pl])

\* An entry is absent or filled: nothing is seen of one while it is reserved.
SlotsFilled(ss) ==
    /\ ss \in [LogicalPages -> Cmt!Slot]
    /\ \A k \in LogicalPages :
          \/ ss[k].status = "FREE"
          \/ ss[k].status = "VALID" /\ ss[k].mapping \in Mappings

\* The mapping, the bitmaps and what is stored with the pages say the same.
Linked(ps, ss, md) ==
    /\ md \in [PPA -> LogicalPages \cup {NoValue}]
    /\ \A k \in LogicalPages : HasPlace(ss, k) =>
          LET ppa == ss[k].mapping.ppa
          IN  /\ ppa \in PPA /\ ValidAt(ps, ppa) /\ md[ppa] = k
              /\ PlaneOf(ConvertPPAtoAddress(ppa)) = AllocatePlane(k.lpa)
              /\ SlotAt(ps, ppa).stream_id = k.stream_id
    /\ \A ppa \in PPA : ValidAt(ps, ppa) =>
          \E k \in LogicalPages : HasPlace(ss, k) /\ ss[k].mapping.ppa = ppa

\* A page whose move is being programmed is where the move puts it, no victim's, and
\* nobody moves it a second time.
MovesInPlace(ps, ss, mv) ==
    /\ mv \subseteq Move
    /\ \A m \in mv :
          LET ppa == ss[m.page].mapping.ppa
          IN  /\ HasPlace(ss, m.page)
              /\ PlaneOf(ConvertPPAtoAddress(ppa)) = m.plane
              /\ ConvertPPAtoAddress(ppa).block_id = m.block
              /\ ~ SlotAt(ps, ppa).has_ongoing_gc
              /\ SlotAt(ps, ppa).erase_count = m.erase_count
    /\ \A m1, m2 \in mv : m1.page = m2.page => m1 = m2

PagesHeld(ps, ss, mv) ==
    {m.page : m \in mv} \cup
        {k \in LogicalPages :
            HasPlace(ss, k) /\ SlotAt(ps, ss[k].mapping.ppa).has_ongoing_gc}

On(tr, type, pl, b) == {t \in tr : t.type = type /\ t.plane = pl /\ t.block = b}

\* Each block counts the transactions in flight there, and more when reads of unmapped
\* pages have left programs that nothing ends.
InFlightCounted(ps, tr) ==
    /\ tr \subseteq Transaction /\ IsFiniteSet(tr)
    /\ \A t \in tr : t.erase_count = ps[t.plane].blocks[t.block].erase_count
    /\ \A type \in {"READ", "WRITE"}, pl \in PlaneId, b \in Blocks :
          Count(ps[pl].blocks[b], type) >= Cardinality(On(tr, type, pl, b))

LEMMA PlaneChanged ==
    ASSUME NEW ps, PlanesSound(ps), NEW pl \in PlaneId, NEW q,
           SoundPlane(q), CountedPlane(q)
    PROVE  /\ PlanesSound([ps EXCEPT ![pl] = q])
           /\ [ps EXCEPT ![pl] = q][pl] = q
           /\ \A x \in PlaneId \ {pl} : [ps EXCEPT ![pl] = q][x] = ps[x]
  BY DEF PlanesSound, SoundPlane

-----------------------------------------------------------------------------
(* The table and the flash when pages stay where they are                     *)

LEMMA LinkedQuiet ==
    ASSUME NEW ps, NEW ps2, NEW ss, NEW md, Linked(ps, ss, md),
           \A pl \in PlaneId : SamePages(ps2[pl], ps[pl])
    PROVE  Linked(ps2, ss, md)
  <1>1. ASSUME NEW ppa \in PPA
        PROVE  /\ ValidAt(ps2, ppa) <=> ValidAt(ps, ppa)
               /\ ValidAt(ps, ppa) => SlotAt(ps2, ppa).stream_id = SlotAt(ps, ppa).stream_id
    BY PlaceOfPPA DEF SamePages, ValidAt, SlotAt
  <1>. QED BY <1>1 DEF Linked

LEMMA HeldQuiet ==
    ASSUME NEW ps, NEW ps2, NEW ss, NEW md, NEW mv,
           Linked(ps, ss, md), MovesInPlace(ps, ss, mv),
           \A pl \in PlaneId : SameVictims(ps2[pl], ps[pl])
    PROVE  MovesInPlace(ps2, ss, mv) /\ PagesHeld(ps2, ss, mv) = PagesHeld(ps, ss, mv)
  <1>1. ASSUME NEW k \in LogicalPages, HasPlace(ss, k)
        PROVE  LET ppa == ss[k].mapping.ppa
               IN  /\ SlotAt(ps2, ppa).erase_count = SlotAt(ps, ppa).erase_count
                   /\ SlotAt(ps2, ppa).has_ongoing_gc = SlotAt(ps, ppa).has_ongoing_gc
    <2>1. ss[k].mapping.ppa \in PPA
      BY <1>1 DEF Linked
    <2>. QED BY <2>1, PlaceOfPPA DEF SameVictims, SlotAt
  <1>2. \A m \in mv : m.page \in LogicalPages
    BY DEF MovesInPlace, Move
  <1>3. MovesInPlace(ps2, ss, mv)
    BY <1>1, <1>2 DEF MovesInPlace
  <1>4. PagesHeld(ps2, ss, mv) = PagesHeld(ps, ss, mv)
    BY <1>1 DEF PagesHeld
  <1>. QED BY <1>3, <1>4

-----------------------------------------------------------------------------
(* A page gets a new place                                                    *)

\* What an allocation for page k, and the invalidation of its old page if there is one,
\* make of the device.
Relocates(ps2, ps, k, old, new) ==
    /\ new \in PPA /\ ~ ValidAt(ps, new)
    /\ PlaneOf(ConvertPPAtoAddress(new)) = AllocatePlane(k.lpa)
    /\ SlotAt(ps2, new).stream_id = k.stream_id
    /\ ~ SlotAt(ps, new).has_ongoing_gc
    /\ \A ppa \in PPA :
          /\ ValidAt(ps2, ppa) <=> (ValidAt(ps, ppa) /\ ppa # old) \/ ppa = new
          /\ ValidAt(ps, ppa) /\ ppa # old =>
                SlotAt(ps2, ppa).stream_id = SlotAt(ps, ppa).stream_id
    /\ \A pl \in PlaneId : SameVictims(ps2[pl], ps[pl])

Remapped(ss, k, new, bitmap) ==
    [ss EXCEPT ![k] = Cmt!Update(@, [ppa |-> new, bitmap |-> bitmap])]

Restored(md, k, old, new) ==
    [p \in PPA |-> CASE p = new -> k [] p = old -> NoValue [] OTHER -> md[p]]

LEMMA RemappedSlots ==
    ASSUME NEW ss, SlotsFilled(ss), NEW k \in LogicalPages, ss[k].status = "VALID",
           NEW new \in PPA, NEW bitmap \in SUBSET Sectors
    PROVE  LET ss2 == Remapped(ss, k, new, bitmap)
           IN  /\ SlotsFilled(ss2) /\ HasPlace(ss2, k) /\ ss2[k].mapping.ppa = new
               /\ \A j \in LogicalPages \ {k} : ss2[j] = ss[j]
  <1>. DEFINE mapping == [ppa |-> new, bitmap |-> bitmap]
              slot == Cmt!Update(ss[k], mapping)
              ss2 == [ss EXCEPT ![k] = slot]
  <1>1. ss[k] \in Cmt!Slot /\ mapping \in Mappings /\ mapping.ppa # NoValue
    BY MappingAssumption DEF SlotsFilled, Mappings
  <1>2. slot \in Cmt!Slot /\ slot.status = "VALID" /\ slot.mapping = mapping
    BY <1>1 DEF Cmt!Update, Cmt!Slot
  <1>3. Remapped(ss, k, new, bitmap) = ss2
    BY DEF Remapped
  <1>4. mapping.ppa = new
    OBVIOUS
  <1>. HIDE DEF slot, mapping
  <1>5. /\ ss2 \in [LogicalPages -> Cmt!Slot] /\ ss2[k] = slot
        /\ \A j \in LogicalPages \ {k} : ss2[j] = ss[j]
    BY <1>2 DEF SlotsFilled
  <1>. HIDE DEF ss2
  <1>6. SlotsFilled(ss2)
    BY <1>1, <1>2, <1>5 DEF SlotsFilled
  <1>. QED BY <1>1, <1>2, <1>3, <1>4, <1>5, <1>6 DEF HasPlace

LEMMA LinkedRelocated ==
    ASSUME NEW ps, NEW ps2, NEW ss, NEW md, SlotsFilled(ss), Linked(ps, ss, md),
           NEW k \in LogicalPages, ss[k].status = "VALID",
           NEW new, Relocates(ps2, ps, k, ss[k].mapping.ppa, new),
           NEW bitmap \in SUBSET Sectors
    PROVE  Linked(ps2, Remapped(ss, k, new, bitmap), Restored(md, k, ss[k].mapping.ppa, new))
  <1>. DEFINE old == ss[k].mapping.ppa
              ss2 == Remapped(ss, k, new, bitmap)
              md2 == Restored(md, k, old, new)
  <1>1. new \in PPA /\ ~ ValidAt(ps, new)
    BY DEF Relocates
  <1>2. /\ HasPlace(ss2, k) /\ ss2[k].mapping.ppa = new
        /\ \A j \in LogicalPages \ {k} : ss2[j] = ss[j]
    BY <1>1, RemappedSlots
  <1>3. ASSUME NEW j \in LogicalPages \ {k}, HasPlace(ss, j)
        PROVE  ss[j].mapping.ppa # old
    <2>1. ss[j].mapping.ppa = old => HasPlace(ss, k)
      BY <1>3 DEF HasPlace
    <2>. QED BY <1>3, <2>1 DEF Linked
  <1>4. md2 \in [PPA -> LogicalPages \cup {NoValue}]
    BY DEF Linked, Restored
  <1>5. md2[new] = k /\ \A p \in PPA : p # new /\ p # old => md2[p] = md[p]
    <2>. HIDE DEF old
    <2>1. \A p \in PPA : md2[p] = CASE p = new -> k [] p = old -> NoValue [] OTHER -> md[p]
      BY DEF Restored
    <2>2. md2[new] = k
      <3>1. new # old
        BY <1>1, MappingAssumption DEF Linked, HasPlace, old
      <3>. QED BY <1>1, <2>1, <3>1
    <2>3. \A p \in PPA : p # new /\ p # old => md2[p] = md[p]
      BY <2>1
    <2>. QED BY <2>2, <2>3
  <1>. HIDE DEF ss2, md2
  <1>6. ASSUME NEW j \in LogicalPages, HasPlace(ss2, j)
        PROVE  LET ppa == ss2[j].mapping.ppa
               IN  /\ ppa \in PPA /\ ValidAt(ps2, ppa) /\ md2[ppa] = j
                   /\ PlaneOf(ConvertPPAtoAddress(ppa)) = AllocatePlane(j.lpa)
                   /\ SlotAt(ps2, ppa).stream_id = j.stream_id
    <2>1. CASE j = k
      BY <1>1, <1>2, <1>5, <2>1 DEF Relocates
    <2>2. CASE j # k
      <3>. DEFINE ppa == ss[j].mapping.ppa
      <3>1. HasPlace(ss, j) /\ ss2[j].mapping.ppa = ppa
        BY <1>2, <1>6, <2>2 DEF HasPlace
      <3>2. /\ ppa \in PPA /\ ValidAt(ps, ppa) /\ md[ppa] = j
            /\ PlaneOf(ConvertPPAtoAddress(ppa)) = AllocatePlane(j.lpa)
            /\ SlotAt(ps, ppa).stream_id = j.stream_id
        BY <3>1 DEF Linked
      <3>3. ppa # old /\ ppa # new
        BY <1>1, <1>3, <2>2, <3>1, <3>2
      <3>. QED BY <1>5, <3>1, <3>2, <3>3 DEF Relocates
    <2>. QED BY <2>1, <2>2
  <1>7. ASSUME NEW ppa \in PPA, ValidAt(ps2, ppa)
        PROVE  \E j \in LogicalPages : HasPlace(ss2, j) /\ ss2[j].mapping.ppa = ppa
    <2>1. CASE ppa = new
      BY <1>2, <2>1
    <2>2. CASE ppa # new
      <3>1. ValidAt(ps, ppa) /\ ppa # old
        BY <1>7, <2>2 DEF Relocates
      <3>2. PICK j \in LogicalPages : HasPlace(ss, j) /\ ss[j].mapping.ppa = ppa
        BY <3>1 DEF Linked
      <3>3. j # k
        BY <3>1, <3>2
      <3>. QED BY <1>2, <3>2, <3>3 DEF HasPlace
    <2>. QED BY <2>1, <2>2
  <1>8. Linked(ps2, ss2, md2)
    BY <1>4, <1>6, <1>7 DEF Linked
  <1>. QED BY <1>8 DEF ss2, md2

\* The moves of other pages are not touched, and page k is in no victim any more.
LEMMA HeldRelocated ==
    ASSUME NEW ps, NEW ps2, NEW ss, NEW md, SlotsFilled(ss), Linked(ps, ss, md),
           NEW k \in LogicalPages, ss[k].status = "VALID",
           NEW new, Relocates(ps2, ps, k, ss[k].mapping.ppa, new),
           NEW bitmap \in SUBSET Sectors,
           NEW mv, MovesInPlace(ps, ss, mv), \A m \in mv : m.page # k
    PROVE  LET ss2 == Remapped(ss, k, new, bitmap)
           IN  /\ MovesInPlace(ps2, ss2, mv)
               /\ PagesHeld(ps2, ss2, mv) = PagesHeld(ps, ss, mv) \ {k}
  <1>. DEFINE ss2 == Remapped(ss, k, new, bitmap)
  <1>1. new \in PPA
    BY DEF Relocates
  <1>2. /\ HasPlace(ss2, k) /\ ss2[k].mapping.ppa = new
        /\ \A j \in LogicalPages \ {k} : ss2[j] = ss[j]
    BY <1>1, RemappedSlots
  <1>. HIDE DEF ss2
  <1>3. ASSUME NEW ppa \in PPA
        PROVE  /\ SlotAt(ps2, ppa).erase_count = SlotAt(ps, ppa).erase_count
               /\ SlotAt(ps2, ppa).has_ongoing_gc = SlotAt(ps, ppa).has_ongoing_gc
    BY PlaceOfPPA DEF Relocates, SameVictims, SlotAt
  <1>4. ~ SlotAt(ps2, new).has_ongoing_gc
    BY <1>1, <1>3 DEF Relocates
  <1>5. ASSUME NEW j \in LogicalPages \ {k}
        PROVE  /\ HasPlace(ss2, j) <=> HasPlace(ss, j)
               /\ ss2[j].mapping.ppa = ss[j].mapping.ppa
               /\ HasPlace(ss, j) => ss[j].mapping.ppa \in PPA
    BY <1>2 DEF HasPlace, Linked
  <1>6. \A m \in mv : m.page \in LogicalPages \ {k}
    BY DEF MovesInPlace, Move
  <1>7. MovesInPlace(ps2, ss2, mv)
    BY <1>3, <1>5, <1>6 DEF MovesInPlace
  <1>8. PagesHeld(ps2, ss2, mv) = PagesHeld(ps, ss, mv) \ {k}
    <2>1. k \notin {m.page : m \in mv} /\ k \in LogicalPages
      BY <1>6
    <2>2. \A j \in LogicalPages \ {k} :
             HasPlace(ss2, j) /\ SlotAt(ps2, ss2[j].mapping.ppa).has_ongoing_gc
               <=> HasPlace(ss, j) /\ SlotAt(ps, ss[j].mapping.ppa).has_ongoing_gc
      BY <1>3, <1>5
    <2>. QED BY <1>2, <1>4, <2>1, <2>2 DEF PagesHeld
  <1>. QED BY <1>7, <1>8 DEF ss2

-----------------------------------------------------------------------------
(* Transactions in flight                                                     *)

LEMMA FreshId ==
    ASSUME NEW T, IsFiniteSet(T), NEW N \in Nat, Cardinality(T) < N
    PROVE  \E i \in 1..N : \A t \in T : t.id # i
  <1>. DEFINE ids == {t.id : t \in T}
  <1>1. SUFFICES ASSUME 1..N \subseteq ids PROVE FALSE
    OBVIOUS
  <1>2. IsFiniteSet(ids) /\ Cardinality(ids) <= Cardinality(T)
    <2>. DEFINE f == [t \in T |-> t.id]
    <2>1. f \in Surjection(T, ids)
      BY DEF Surjection
    <2>. HIDE DEF f, ids
    <2>. QED BY <2>1, FS_Surjection
  <1>. HIDE DEF ids
  <1>3. Cardinality(1..N) = N /\ Cardinality(1..N) <= Cardinality(ids)
    BY <1>1, <1>2, FS_Interval, FS_Subset
  <1>4. Cardinality(T) \in Nat /\ Cardinality(ids) \in Nat
    BY <1>2, FS_CardinalityType
  <1>. QED BY <1>2, <1>3, <1>4

LEMMA OnFinite ==
    ASSUME NEW tr, IsFiniteSet(tr), NEW type, NEW pl, NEW b
    PROVE  IsFiniteSet(On(tr, type, pl, b)) /\ Cardinality(On(tr, type, pl, b)) \in Nat
  BY FS_Subset, FS_CardinalityType DEF On

LEMMA InFlightQuiet ==
    ASSUME NEW ps, NEW ps2, PlanesSound(ps), PlanesSound(ps2),
           NEW tr, InFlightCounted(ps, tr),
           \A pl \in PlaneId, b \in Blocks :
              /\ ps2[pl].blocks[b].erase_count = ps[pl].blocks[b].erase_count
              /\ \A type \in {"READ", "WRITE"} :
                    Count(ps2[pl].blocks[b], type) >= Count(ps[pl].blocks[b], type)
    PROVE  InFlightCounted(ps2, tr)
  <1>1. \A t \in tr : t.plane \in PlaneId /\ t.block \in Blocks
    BY DEF InFlightCounted, Transaction
  <1>2. ASSUME NEW type \in {"READ", "WRITE"}, NEW pl \in PlaneId, NEW b \in Blocks
        PROVE  Count(ps2[pl].blocks[b], type) >= Cardinality(On(tr, type, pl, b))
    <2>1. /\ Count(ps2[pl].blocks[b], type) >= Count(ps[pl].blocks[b], type)
          /\ Count(ps[pl].blocks[b], type) >= Cardinality(On(tr, type, pl, b))
      BY DEF InFlightCounted
    <2>2. Count(ps2[pl].blocks[b], type) \in Nat /\ Count(ps[pl].blocks[b], type) \in Nat
      BY CountedSlots DEF PlanesSound
    <2>3. Cardinality(On(tr, type, pl, b)) \in Nat
      BY OnFinite DEF InFlightCounted
    <2>. QED BY <2>1, <2>2, <2>3
  <1>. QED BY <1>1, <1>2 DEF InFlightCounted

\* The count that a new transaction adds to is raised before it is there.
LEMMA InFlightStarted ==
    ASSUME NEW ps, NEW ps2, PlanesSound(ps), PlanesSound(ps2),
           NEW tr, InFlightCounted(ps, tr), NEW t \in Transaction,
           t.erase_count = ps[t.plane].blocks[t.block].erase_count,
           \A pl \in PlaneId, b \in Blocks :
              /\ ps2[pl].blocks[b].erase_count = ps[pl].blocks[b].erase_count
              /\ \A type \in {"READ", "WRITE"} :
                    Count(ps2[pl].blocks[b], type) >= Count(ps[pl].blocks[b], type)
                       + (IF t.type = type /\ t.plane = pl /\ t.block = b THEN 1 ELSE 0)
    PROVE  InFlightCounted(ps2, tr \cup {t})
  <1>1. \A x \in tr \cup {t} : x \in Transaction /\ x.plane \in PlaneId /\ x.block \in Blocks
    BY DEF InFlightCounted, Transaction
  <1>2. IsFiniteSet(tr \cup {t})
    BY FS_AddElement DEF InFlightCounted
  <1>3. ASSUME NEW type \in {"READ", "WRITE"}, NEW pl \in PlaneId, NEW b \in Blocks
        PROVE  Count(ps2[pl].blocks[b], type) >= Cardinality(On(tr \cup {t}, type, pl, b))
    <2>. DEFINE here == t.type = type /\ t.plane = pl /\ t.block = b
    <2>1. /\ Count(ps2[pl].blocks[b], type)
               >= Count(ps[pl].blocks[b], type) + (IF here THEN 1 ELSE 0)
          /\ Count(ps[pl].blocks[b], type) >= Cardinality(On(tr, type, pl, b))
      BY DEF InFlightCounted
    <2>2. Count(ps2[pl].blocks[b], type) \in Nat /\ Count(ps[pl].blocks[b], type) \in Nat
      BY CountedSlots DEF PlanesSound
    <2>3. IsFiniteSet(On(tr, type, pl, b)) /\ Cardinality(On(tr, type, pl, b)) \in Nat
      BY OnFinite DEF InFlightCounted
    <2>4. CASE here
      <3>1. On(tr \cup {t}, type, pl, b) = On(tr, type, pl, b) \cup {t}
        BY <2>4 DEF On
      <3>2. Cardinality(On(tr \cup {t}, type, pl, b)) \in
               {Cardinality(On(tr, type, pl, b)), Cardinality(On(tr, type, pl, b)) + 1}
        BY <2>3, <3>1, FS_AddElement
      <3>3. Count(ps2[pl].blocks[b], type) >= Count(ps[pl].blocks[b], type) + 1
        BY <2>1, <2>4
      <3>4. Count(ps[pl].blocks[b], type) >= Cardinality(On(tr, type, pl, b))
        BY <2>1
      <3>. QED BY <2>2, <2>3, <3>2, <3>3, <3>4
    <2>5. CASE ~ here
      <3>1. On(tr \cup {t}, type, pl, b) = On(tr, type, pl, b)
        BY <2>5 DEF On
      <3>2. Count(ps2[pl].blocks[b], type) >= Count(ps[pl].blocks[b], type) + 0
        BY <2>1, <2>5
      <3>. HIDE DEF here
      <3>. QED BY <2>1, <2>2, <2>3, <3>1, <3>2
    <2>. QED BY <2>4, <2>5
  <1>4. \A x \in tr \cup {t} : x.erase_count = ps2[x.plane].blocks[x.block].erase_count
    BY <1>1 DEF InFlightCounted
  <1>. QED BY <1>1, <1>2, <1>3, <1>4 DEF InFlightCounted

LEMMA InFlightFinished ==
    ASSUME NEW ps, NEW ps2, PlanesSound(ps), PlanesSound(ps2),
           NEW tr, InFlightCounted(ps, tr), NEW t \in tr,
           \A pl \in PlaneId, b \in Blocks :
              /\ ps2[pl].blocks[b].erase_count = ps[pl].blocks[b].erase_count
              /\ \A type \in {"READ", "WRITE"} :
                    Count(ps2[pl].blocks[b], type) = Count(ps[pl].blocks[b], type)
                       - (IF t.type = type /\ t.plane = pl /\ t.block = b THEN 1 ELSE 0)
    PROVE  InFlightCounted(ps2, tr \ {t})
  <1>1. \A x \in tr : x \in Transaction /\ x.plane \in PlaneId /\ x.block \in Blocks
    BY DEF InFlightCounted, Transaction
  <1>2. IsFiniteSet(tr \ {t})
    BY FS_RemoveElement DEF InFlightCounted
  <1>3. ASSUME NEW type \in {"READ", "WRITE"}, NEW pl \in PlaneId, NEW b \in Blocks
        PROVE  Count(ps2[pl].blocks[b], type) >= Cardinality(On(tr \ {t}, type, pl, b))
    <2>. DEFINE here == t.type = type /\ t.plane = pl /\ t.block = b
    <2>1. /\ Count(ps2[pl].blocks[b], type)
               = Count(ps[pl].blocks[b], type) - (IF here THEN 1 ELSE 0)
          /\ Count(ps[pl].blocks[b], type) >= Cardinality(On(tr, type, pl, b))
      BY DEF InFlightCounted
    <2>2. Count(ps[pl].blocks[b], type) \in Nat
      BY CountedSlots DEF PlanesSound
    <2>3. IsFiniteSet(On(tr, type, pl, b)) /\ Cardinality(On(tr, type, pl, b)) \in Nat
      BY OnFinite DEF InFlightCounted
    <2>4. CASE here
      <3>1. /\ On(tr \ {t}, type, pl, b) = On(tr, type, pl, b) \ {t}
            /\ t \in On(tr, type, pl, b)
        BY <2>4 DEF On
      <3>2. ASSUME NEW S, IsFiniteSet(S), t \in S
            PROVE  Cardinality(S \ {t}) = Cardinality(S) - 1
        BY <3>2, FS_RemoveElement
      <3>3. Cardinality(On(tr \ {t}, type, pl, b)) = Cardinality(On(tr, type, pl, b)) - 1
        BY <2>3, <3>1, <3>2
      <3>4. Count(ps2[pl].blocks[b], type) = Count(ps[pl].blocks[b], type) - 1
        BY <2>1, <2>4
      <3>5. Count(ps[pl].blocks[b], type) >= Cardinality(On(tr, type, pl, b))
        BY <2>1
      <3>. QED BY <2>2, <2>3, <3>3, <3>4, <3>5
    <2>5. CASE ~ here
      <3>1. On(tr \ {t}, type, pl, b) = On(tr, type, pl, b)
        BY <2>5 DEF On
      <3>2. Count(ps2[pl].blocks[b], type) = Count(ps[pl].blocks[b], type) - 0
        BY <2>1, <2>5
      <3>. HIDE DEF here
      <3>. QED BY <2>1, <2>2, <2>3, <3>1, <3>2
    <2>. QED BY <2>4, <2>5
  <1>4. \A x \in tr \ {t} : x.erase_count = ps2[x.plane].blocks[x.block].erase_count
    BY <1>1 DEF InFlightCounted
  <1>. QED BY <1>1, <1>2, <1>3, <1>4 DEF InFlightCounted

-----------------------------------------------------------------------------
(* Invalidation and allocation on the device                                  *)

\* Marking the page of a mapping changes nothing but that this page is no longer valid.
LEMMA InvalidationEffect ==
    ASSUME NEW p, SoundPlane(p), CountedPlane(p), NEW a \in PageAddress,
           a.page \in ValidPagesOf(p, a.block), p.blocks[a.block].stream_id = a.stream
    PROVE  LET o == InvalidatePageInBlock(p, a)
               q == o.plane
           IN  /\ o.exit = "none" /\ SoundPlane(q) /\ CountedPlane(q) /\ SameVictims(q, p)
               /\ q.open_blocks = p.open_blocks /\ q.free_block_pool = p.free_block_pool
               /\ \A c \in Blocks :
                     /\ q.blocks[c].current_write_page_index
                          = p.blocks[c].current_write_page_index
                     /\ q.blocks[c].stream_id = p.blocks[c].stream_id
                     /\ Count(q.blocks[c], "READ") = Count(p.blocks[c], "READ")
                     /\ Count(q.blocks[c], "WRITE") = Count(p.blocks[c], "WRITE")
                     /\ \A x : x \in ValidPagesOf(q, c) <=>
                           x \in ValidPagesOf(p, c) /\ ~ (c = a.block /\ x = a.page)
  <1>. DEFINE b == a.block
              new == Marked(p.blocks[b], a.page)
              o == InvalidatePageInBlock(p, a)
              q == o.plane
  <1>1. p \in PlaneRecord /\ b \in Blocks /\ p.blocks[b] \in BlockSlot
    BY DEF SoundPlane, PlaneRecord, PageAddress
  <1>2. /\ o.exit = "none" /\ SoundPlane(q)
        /\ q.blocks = [p.blocks EXCEPT ![b] = new]
        /\ q.open_blocks = p.open_blocks /\ q.free_block_pool = p.free_block_pool
        /\ ValidPagesOf(q, b) = ValidPagesOf(p, b) \ {a.page}
        /\ \A c \in Blocks \ {b} : ValidPagesOf(q, c) = ValidPagesOf(p, c)
    BY SoundInvalidation
  <1>3. CountedPlane(q)
    BY CountedInvalidation
  <1>4. /\ new.current_write_page_index = p.blocks[b].current_write_page_index
        /\ new.stream_id = p.blocks[b].stream_id
        /\ new.erase_count = p.blocks[b].erase_count
        /\ new.has_ongoing_gc = p.blocks[b].has_ongoing_gc
        /\ new.ongoing_user_read_cnt = p.blocks[b].ongoing_user_read_cnt
        /\ new.ongoing_user_program_cnt = p.blocks[b].ongoing_user_program_cnt
    BY <1>1 DEF Marked, BlockSlot
  <1>. HIDE DEF new, o, q
  <1>5. q.blocks[b] = new /\ \A c \in Blocks \ {b} : q.blocks[c] = p.blocks[c]
    BY <1>1, <1>2 DEF PlaneRecord
  <1>6. SameVictims(q, p)
    BY <1>4, <1>5 DEF SameVictims
  <1>7. ASSUME NEW c \in Blocks
        PROVE  /\ q.blocks[c].current_write_page_index
                    = p.blocks[c].current_write_page_index
               /\ q.blocks[c].stream_id = p.blocks[c].stream_id
               /\ Count(q.blocks[c], "READ") = Count(p.blocks[c], "READ")
               /\ Count(q.blocks[c], "WRITE") = Count(p.blocks[c], "WRITE")
    BY <1>4, <1>5 DEF Count
  <1>8. ASSUME NEW c \in Blocks, NEW x
        PROVE  x \in ValidPagesOf(q, c) <=>
                  x \in ValidPagesOf(p, c) /\ ~ (c = b /\ x = a.page)
    BY <1>2
  <1>. QED BY <1>2, <1>3, <1>6, <1>7, <1>8 DEF o, q

\* Planes p1, which is ps[pl] without the old page of k, and q, which is p1 with the page
\* that an allocation takes from it.
LEMMA AllocationRelocates ==
    ASSUME NEW ps, PlanesSound(ps), NEW k \in LogicalPages, NEW pl \in PlaneId,
           pl = AllocatePlane(k.lpa), NEW old,
           NEW p1, SoundPlane(p1), CountedPlane(p1), SameVictims(p1, ps[pl]),
           \A c \in Blocks :
              /\ p1.blocks[c].current_write_page_index
                   = ps[pl].blocks[c].current_write_page_index
              /\ p1.blocks[c].stream_id = ps[pl].blocks[c].stream_id,
           \A c \in Blocks, x \in Pages :
              x \in ValidPagesOf(p1, c) <=>
                 x \in ValidPagesOf(ps[pl], c) /\ PPAOf(pl, c, x) # old,
           \A x \in PlaneId \ {pl}, c \in Blocks, page \in Pages : PPAOf(x, c, page) # old,
           NEW role \in Roles,
           NEW o \in AllocateBlockAndPage(p1, role, k.stream_id), o.exit = "none",
           NEW q, SamePages(q, o.plane), SameVictims(q, o.plane),
           NEW ps2, ps2[pl] = q, \A x \in PlaneId \ {pl} : ps2[x] = ps[x]
    PROVE  LET page == NextPage(p1, role, k.stream_id)
           IN  Relocates(ps2, ps, k, old, PPAOf(pl, page.block, page.page))
  <1>. DEFINE s == k.stream_id
              b == p1.open_blocks[role][s]
              page == p1.blocks[b].current_write_page_index
              new == PPAOf(pl, b, page)
              r == o.plane
  <1>1. s \in Streams /\ o \in AllocateBlockAndPage(p1, role, s)
    BY DEF LogicalPages
  <1>. HIDE DEF s
  <1>2. /\ SameVictims(r, p1)
        /\ b \in Blocks /\ page \in Pages /\ ~ p1.blocks[b].has_ongoing_gc
        /\ ValidPagesOf(r, b) = ValidPagesOf(p1, b) \cup {page}
        /\ \A c \in Blocks \ {b} : ValidPagesOf(r, c) = ValidPagesOf(p1, c)
        /\ r.blocks[b].stream_id = s
        /\ \A c \in Blocks : ValidPagesOf(p1, c) # {} =>
              r.blocks[c].stream_id = p1.blocks[c].stream_id
    <2>1. SameVictims(r, p1) /\ b \in Blocks /\ page \in Pages /\ ~ p1.blocks[b].has_ongoing_gc
      BY <1>1, AllocationEffect
    <2>2. ValidPagesOf(r, b) = ValidPagesOf(p1, b) \cup {page}
      BY <1>1, AllocationEffect
    <2>3. \A c \in Blocks \ {b} : ValidPagesOf(r, c) = ValidPagesOf(p1, c)
      BY <1>1, AllocationEffect
    <2>4. r.blocks[b].stream_id = s
      BY <1>1, AllocationEffect
    <2>5. \A c \in Blocks : ValidPagesOf(p1, c) # {} =>
             r.blocks[c].stream_id = p1.blocks[c].stream_id
      BY <1>1, AllocationEffect
    <2>. QED BY <2>1, <2>2, <2>3, <2>4, <2>5
  <1>3. NextPage(p1, role, s).block = b /\ NextPage(p1, role, s).page = page
    BY DEF NextPage
  <1>. HIDE DEF b, page
  <1>4. /\ new \in PPA
        /\ PlaneOf(ConvertPPAtoAddress(new)) = pl
        /\ ConvertPPAtoAddress(new).block_id = b
        /\ ConvertPPAtoAddress(new).page_id = page
    BY <1>2, PPAOfPlace
  <1>5. page \notin ValidPagesOf(ps[pl], b)
    <2>1. page = ps[pl].blocks[b].current_write_page_index
      BY <1>2 DEF page
    <2>2. page \in Nat /\ ~ (page < page)
      BY <1>2, PlaneAssumption DEF Pages
    <2>. QED BY <2>1, <2>2 DEF ValidPagesOf
  <1>. HIDE DEF r, new
  <1>6. /\ ValidPagesOf(q, b) = ValidPagesOf(p1, b) \cup {page}
        /\ \A c \in Blocks \ {b} : ValidPagesOf(q, c) = ValidPagesOf(p1, c)
        /\ q.blocks[b].stream_id = s
        /\ \A c \in Blocks : ValidPagesOf(p1, c) # {} =>
              q.blocks[c].stream_id = ps[pl].blocks[c].stream_id
    <2>1. \A c \in Blocks :
              /\ ValidPagesOf(q, c) = ValidPagesOf(r, c)
              /\ ValidPagesOf(r, c) # {} => q.blocks[c].stream_id = r.blocks[c].stream_id
      BY DEF SamePages, r
    <2>2. \A c \in Blocks : ValidPagesOf(p1, c) # {} => ValidPagesOf(r, c) # {}
      BY <1>2
    <2>. QED BY <1>2, <2>1, <2>2
  <1>7. SameVictims(q, ps[pl])
    BY <1>2 DEF SameVictims, r
  <1>8. ~ ValidAt(ps, new) /\ ~ SlotAt(ps, new).has_ongoing_gc /\ SlotAt(ps2, new).stream_id = s
    BY <1>2, <1>4, <1>5, <1>6 DEF ValidAt, SlotAt, SameVictims
  <1>9. ASSUME NEW ppa \in PPA
        PROVE  /\ ValidAt(ps2, ppa) <=> (ValidAt(ps, ppa) /\ ppa # old) \/ ppa = new
               /\ ValidAt(ps, ppa) /\ ppa # old =>
                     SlotAt(ps2, ppa).stream_id = SlotAt(ps, ppa).stream_id
    <2>. DEFINE a == ConvertPPAtoAddress(ppa)
    <2>1. /\ PlaneOf(a) \in PlaneId /\ a.block_id \in Blocks /\ a.page_id \in Pages
          /\ PPAOf(PlaneOf(a), a.block_id, a.page_id) = ppa
      BY PlaceOfPPA
    <2>2. ppa = new <=> PlaneOf(a) = pl /\ a.block_id = b /\ a.page_id = page
      BY <1>4, <2>1 DEF new
    <2>. HIDE DEF a
    <2>3. CASE PlaneOf(a) = pl
      <3>1. a.page_id \in ValidPagesOf(p1, a.block_id) <=>
               a.page_id \in ValidPagesOf(ps[pl], a.block_id) /\ ppa # old
        BY <2>1, <2>3
      <3>2. a.page_id \in ValidPagesOf(q, a.block_id) <=>
               a.page_id \in ValidPagesOf(p1, a.block_id) \/ ppa = new
        BY <1>6, <2>1, <2>2, <2>3
      <3>3. ASSUME a.page_id \in ValidPagesOf(ps[pl], a.block_id),
                   ppa # old
            PROVE  q.blocks[a.block_id].stream_id = ps[pl].blocks[a.block_id].stream_id
        <4>1. ValidPagesOf(p1, a.block_id) # {}
          BY <3>1, <3>3
        <4>. QED BY <1>6, <2>1, <4>1
      <3>. QED BY <2>3, <3>1, <3>2, <3>3 DEF ValidAt, SlotAt, a
    <2>4. CASE PlaneOf(a) # pl
      <3>1. ppa # old /\ ppa # new /\ ps2[PlaneOf(a)] = ps[PlaneOf(a)]
        BY <2>1, <2>2, <2>4
      <3>. QED BY <3>1 DEF ValidAt, SlotAt, a
    <2>. QED BY <2>3, <2>4
  <1>10. \A x \in PlaneId : SameVictims(ps2[x], ps[x])
    BY <1>7 DEF SameVictims
  <1>11. Relocates(ps2, ps, k, old, new)
    BY <1>4, <1>8, <1>9, <1>10 DEF Relocates, s
  <1>. QED BY <1>3, <1>11 DEF new, s

LEMMA ReadStarted ==
    ASSUME NEW ps, PlanesSound(ps), NEW a, PlaneOf(a) \in PlaneId, a.block_id \in Blocks
    PROVE  LET ps2 == ReadStartedOnBlock(ps, a)
           IN  /\ PlanesSound(ps2)
               /\ \A pl \in PlaneId :
                     /\ SamePages(ps2[pl], ps[pl]) /\ SameVictims(ps2[pl], ps[pl])
                     /\ SamePointers(ps2[pl], ps[pl])
                     /\ ps2[pl].free_block_pool = ps[pl].free_block_pool
                     /\ \A b \in Blocks :
                           /\ Count(ps2[pl].blocks[b], "WRITE") = Count(ps[pl].blocks[b], "WRITE")
                           /\ Count(ps2[pl].blocks[b], "READ") = Count(ps[pl].blocks[b], "READ")
                                + (IF pl = PlaneOf(a) /\ b = a.block_id THEN 1 ELSE 0)
  <1>. DEFINE x == PlaneOf(a)
              p == ps[x]
              q == [p EXCEPT !.blocks[a.block_id].ongoing_user_read_cnt = @ + 1]
              ps2 == [ps EXCEPT ![x] = q]
  <1>1. SoundPlane(p) /\ CountedPlane(p)
    BY DEF PlanesSound
  <1>2. /\ SoundPlane(q) /\ CountedPlane(q) /\ SamePages(q, p) /\ SameVictims(q, p)
        /\ SamePointers(q, p)
        /\ q.free_block_pool = p.free_block_pool
        /\ \A c \in Blocks :
              /\ Count(q.blocks[c], "WRITE") = Count(p.blocks[c], "WRITE")
              /\ Count(q.blocks[c], "READ") = Count(p.blocks[c], "READ")
                                               + (IF c = a.block_id THEN 1 ELSE 0)
    BY <1>1, ReadCounted DEF SamePointers
  <1>3. ReadStartedOnBlock(ps, a) = ps2
    BY DEF ReadStartedOnBlock
  <1>. HIDE DEF q
  <1>4. PlanesSound(ps2) /\ ps2[x] = q /\ \A pl \in PlaneId \ {x} : ps2[pl] = ps[pl]
    BY <1>2, PlaneChanged
  <1>. HIDE DEF ps2, x
  <1>5. x = PlaneOf(a) /\ p = ps[x]
    BY DEF x
  <1>. HIDE DEF p
  <1>6. ASSUME NEW pl \in PlaneId
        PROVE  /\ SamePages(ps2[pl], ps[pl]) /\ SameVictims(ps2[pl], ps[pl])
               /\ SamePointers(ps2[pl], ps[pl])
               /\ ps2[pl].free_block_pool = ps[pl].free_block_pool
               /\ \A b \in Blocks :
                     /\ Count(ps2[pl].blocks[b], "WRITE") = Count(ps[pl].blocks[b], "WRITE")
                     /\ Count(ps2[pl].blocks[b], "READ") = Count(ps[pl].blocks[b], "READ")
                          + (IF pl = x /\ b = a.block_id THEN 1 ELSE 0)
    <2>1. CASE pl = x
      BY <1>2, <1>4, <1>5, <2>1
    <2>2. CASE pl # x
      <3>1. ps2[pl] = ps[pl] /\ SoundPlane(ps[pl])
        BY <1>4, <2>2 DEF PlanesSound
      <3>2. \A b \in Blocks : Count(ps[pl].blocks[b], "READ") \in Nat
        BY <3>1, CountedSlots
      <3>. QED BY <2>2, <3>1, <3>2 DEF SamePages, SameVictims, SamePointers
    <2>. QED BY <2>1, <2>2
  <1>. QED BY <1>3, <1>4, <1>5, <1>6

\* The place of a mapped page.
LEMMA MappedPlace ==
    ASSUME NEW ps, NEW ss, NEW md, Linked(ps, ss, md), NEW k \in LogicalPages, HasPlace(ss, k)
    PROVE  LET ppa == ss[k].mapping.ppa
               a   == ConvertPPAtoAddress(ppa)
           IN  /\ ppa \in PPA /\ md[ppa] = k
               /\ a.block_id \in Blocks /\ a.page_id \in Pages
               /\ PlaneOf(a) \in PlaneId /\ PlaneOf(a) = AllocatePlane(k.lpa)
               /\ a.page_id \in ValidPagesOf(ps[PlaneOf(a)], a.block_id)
               /\ ps[PlaneOf(a)].blocks[a.block_id].stream_id = k.stream_id
  BY PlaceOfPPA DEF Linked, ValidAt, SlotAt

\* Streams and planes of logical pages.
LEMMA PageParts ==
    ASSUME NEW k \in LogicalPages
    PROVE  k.stream_id \in Streams /\ k.lpa \in Lpas /\ AllocatePlane(k.lpa) \in PlaneId
  BY PlaneOfPage, MappingAssumption DEF LogicalPages

\* inv is what marking the page old of plane pl makes of the device: the page is not
\* valid any more, and nothing else that the mapping reads is another.
OldMarked(ps, old, pl, inv) ==
    LET p1 == inv.planes[pl]
    IN  /\ inv.exit = "none" /\ pl \in PlaneId
        /\ PlanesSound(inv.planes) /\ SoundPlane(p1) /\ CountedPlane(p1)
        /\ \A x \in PlaneId \ {pl} : inv.planes[x] = ps[x]
        /\ SameVictims(p1, ps[pl]) /\ p1.free_block_pool = ps[pl].free_block_pool
        /\ \A c \in Blocks :
              /\ p1.blocks[c].current_write_page_index
                   = ps[pl].blocks[c].current_write_page_index
              /\ p1.blocks[c].stream_id = ps[pl].blocks[c].stream_id
              /\ Count(p1.blocks[c], "READ") = Count(ps[pl].blocks[c], "READ")
              /\ Count(p1.blocks[c], "WRITE") = Count(ps[pl].blocks[c], "WRITE")
        /\ \A c \in Blocks, x \in Pages :
              x \in ValidPagesOf(p1, c) <=>
                 x \in ValidPagesOf(ps[pl], c) /\ PPAOf(pl, c, x) # old
        /\ \A y \in PlaneId \ {pl}, c \in Blocks, x \in Pages : PPAOf(y, c, x) # old

LEMMA OldPageMarked ==
    ASSUME NEW ps, PlanesSound(ps), NEW ss, NEW md, Linked(ps, ss, md),
           NEW k \in LogicalPages, HasPlace(ss, k)
    PROVE  OldMarked(ps, ss[k].mapping.ppa, AllocatePlane(k.lpa),
                     Invalidated(ps, k, ss[k].mapping.ppa))
  <1>. DEFINE old == ss[k].mapping.ppa
              pl == AllocatePlane(k.lpa)
              inv == Invalidated(ps, k, old)
              p1 == inv.planes[pl]
              at == ConvertPPAtoAddress(old)
              s  == k.stream_id
              a  == [stream |-> s, block |-> at.block_id, page |-> at.page_id]
              r  == InvalidatePageInBlock(ps[pl], a)
  <1>1. /\ old \in PPA /\ at.block_id \in Blocks /\ at.page_id \in Pages
        /\ PlaneOf(at) = pl /\ pl \in PlaneId
        /\ at.page_id \in ValidPagesOf(ps[pl], at.block_id)
        /\ ps[pl].blocks[at.block_id].stream_id = s
    BY MappedPlace
  <1>2. s \in Streams
    BY PageParts
  <1>3. /\ a \in PageAddress /\ a.page \in ValidPagesOf(ps[pl], a.block)
        /\ ps[pl].blocks[a.block].stream_id = a.stream
    BY <1>1, <1>2 DEF PageAddress
  <1>4. SoundPlane(ps[pl]) /\ CountedPlane(ps[pl]) /\ ps \in [PlaneId -> PlaneRecord]
    BY <1>1 DEF PlanesSound
  <1>5. inv.exit = r.exit /\ inv.planes = [ps EXCEPT ![pl] = r.plane]
    BY <1>1 DEF Invalidated
  <1>6. a.block = at.block_id /\ a.page = at.page_id
    OBVIOUS
  <1>. HIDE DEF s, a, at, old, pl, inv
  <1>7. /\ r.exit = "none" /\ SoundPlane(r.plane) /\ CountedPlane(r.plane)
        /\ SameVictims(r.plane, ps[pl])
        /\ r.plane.free_block_pool = ps[pl].free_block_pool
        /\ \A c \in Blocks :
              /\ r.plane.blocks[c].current_write_page_index
                   = ps[pl].blocks[c].current_write_page_index
              /\ r.plane.blocks[c].stream_id = ps[pl].blocks[c].stream_id
              /\ Count(r.plane.blocks[c], "READ") = Count(ps[pl].blocks[c], "READ")
              /\ Count(r.plane.blocks[c], "WRITE") = Count(ps[pl].blocks[c], "WRITE")
    BY <1>3, <1>4, InvalidationEffect
  <1>8. \A c \in Blocks : \A x : x \in ValidPagesOf(r.plane, c) <=>
           x \in ValidPagesOf(ps[pl], c) /\ ~ (c = a.block /\ x = a.page)
    BY <1>3, <1>4, InvalidationEffect
  <1>. HIDE DEF r
  <1>9. p1 = r.plane /\ \A x \in PlaneId \ {pl} : inv.planes[x] = ps[x]
    BY <1>1, <1>4, <1>5
  <1>10. PlanesSound(inv.planes)
    BY <1>1, <1>5, <1>7, PlaneChanged
  <1>11. /\ \A c \in Blocks, x \in Pages : PPAOf(pl, c, x) = old <=> c = a.block /\ x = a.page
         /\ \A y \in PlaneId \ {pl}, c \in Blocks, x \in Pages : PPAOf(y, c, x) # old
    <2>1. \A y \in PlaneId, c \in Blocks, x \in Pages :
             PPAOf(y, c, x) = old => y = PlaneOf(at) /\ c = at.block_id /\ x = at.page_id
      BY PPAOfPlace DEF at
    <2>2. PPAOf(PlaneOf(at), at.block_id, at.page_id) = old
      BY <1>1, PlaceOfPPA DEF at
    <2>. QED BY <1>1, <1>6, <2>1, <2>2
  <1>12. \A c \in Blocks, x \in Pages :
            x \in ValidPagesOf(p1, c) <=> x \in ValidPagesOf(ps[pl], c) /\ PPAOf(pl, c, x) # old
    BY <1>8, <1>9, <1>11
  <1>13. /\ SoundPlane(p1) /\ CountedPlane(p1)
         /\ SameVictims(p1, ps[pl]) /\ p1.free_block_pool = ps[pl].free_block_pool
         /\ \A c \in Blocks :
               /\ p1.blocks[c].current_write_page_index
                    = ps[pl].blocks[c].current_write_page_index
               /\ p1.blocks[c].stream_id = ps[pl].blocks[c].stream_id
               /\ Count(p1.blocks[c], "READ") = Count(ps[pl].blocks[c], "READ")
               /\ Count(p1.blocks[c], "WRITE") = Count(ps[pl].blocks[c], "WRITE")
    BY <1>7, <1>9
  <1>14. OldMarked(ps, old, pl, inv)
    BY <1>1, <1>5, <1>7, <1>9, <1>10, <1>11, <1>12, <1>13 DEF OldMarked
  <1>. QED BY <1>14 DEF old, pl, inv

\* ps2 is the device once an allocation for page k has returned page: k's new place is
\* there, and a user write is counted there.
NewTaken(ps2, ps, k, old, pl, page, role) ==
    /\ PlanesSound(ps2)
    /\ Relocates(ps2, ps, k, old, PPAOf(pl, page.block, page.page))
    /\ page.block \in Blocks
    /\ \A x \in PlaneId, c \in Blocks, type \in {"READ", "WRITE"} :
          Count(ps2[x].blocks[c], type) = Count(ps[x].blocks[c], type)
            + (IF role = "data" /\ type = "WRITE" /\ x = pl /\ c = page.block
               THEN 1 ELSE 0)
    /\ page.page = ps[pl].blocks[page.block].current_write_page_index /\ page.page \in Pages
    /\ OneWritten(ps2[pl], ps[pl], page.block)
    /\ \A x \in PlaneId \ {pl} : ps2[x] = ps[x]

LEMMA NewPageTaken ==
    ASSUME NEW ps, PlanesSound(ps), NEW k \in LogicalPages, NEW old, NEW pl,
           pl = AllocatePlane(k.lpa), NEW inv, OldMarked(ps, old, pl, inv), NEW role \in Roles,
           NEW o \in AllocateBlockAndPage(inv.planes[pl], role, k.stream_id), o.exit = "none"
    PROVE  NewTaken([inv.planes EXCEPT ![pl] = o.plane], ps, k, old, pl,
                    NextPage(inv.planes[pl], role, k.stream_id), role)
  <1>. DEFINE s == k.stream_id
              p1 == inv.planes[pl]
              page == NextPage(p1, role, s)
              q == o.plane
              ps2 == [inv.planes EXCEPT ![pl] = q]
  <1>1. /\ pl \in PlaneId /\ PlanesSound(inv.planes) /\ SoundPlane(p1) /\ CountedPlane(p1)
        /\ o \in AllocateBlockAndPage(p1, role, s)
    BY DEF OldMarked
  <1>2. /\ \A x \in PlaneId \ {pl} : inv.planes[x] = ps[x]
        /\ SameVictims(p1, ps[pl])
        /\ \A c \in Blocks :
              /\ p1.blocks[c].current_write_page_index
                   = ps[pl].blocks[c].current_write_page_index
              /\ p1.blocks[c].stream_id = ps[pl].blocks[c].stream_id
              /\ Count(p1.blocks[c], "READ") = Count(ps[pl].blocks[c], "READ")
              /\ Count(p1.blocks[c], "WRITE") = Count(ps[pl].blocks[c], "WRITE")
    BY DEF OldMarked
  <1>3. /\ \A c \in Blocks, x \in Pages :
              x \in ValidPagesOf(p1, c) <=>
                 x \in ValidPagesOf(ps[pl], c) /\ PPAOf(pl, c, x) # old
        /\ \A y \in PlaneId \ {pl}, c \in Blocks, x \in Pages : PPAOf(y, c, x) # old
    BY DEF OldMarked
  <1>4. s \in Streams /\ s = k.stream_id
    BY PageParts
  <1>. HIDE DEF s, p1
  <1>5. page.block = p1.open_blocks[role][s] /\ page.block \in Blocks
    BY <1>1, <1>4, OpenBlock DEF NextPage
  <1>6. SoundPlane(q) /\ CountedPlane(q)
    BY <1>1, <1>4, AllocationEffect
  <1>7. /\ page.page = p1.blocks[page.block].current_write_page_index
        /\ page.page \in Pages
    <2>1. /\ page.block = p1.open_blocks[role][s]
          /\ page.page = p1.blocks[p1.open_blocks[role][s]].current_write_page_index
      BY DEF NextPage
    <2>2. p1.blocks[p1.open_blocks[role][s]].current_write_page_index \in Pages
      BY <1>1, <1>4, OpenBlock
    <2>. HIDE DEF page
    <2>. QED BY <2>1, <2>2
  <1>8. OneWritten(q, p1, page.block)
    <2>1. OneWritten(q, p1, p1.open_blocks[role][s])
      BY <1>1, <1>4, AllocationPointers
    <2>. QED BY <1>5, <2>1
  <1>9. \A c \in Blocks :
           /\ Count(q.blocks[c], "READ") = Count(p1.blocks[c], "READ")
           /\ Count(q.blocks[c], "WRITE") = Count(p1.blocks[c], "WRITE")
                + (IF role = "data" /\ c = page.block THEN 1 ELSE 0)
    <2>. HIDE DEF page
    <2>. QED BY <1>1, <1>4, <1>5, AllocationEffect
  <1>10. SamePages(q, o.plane) /\ SameVictims(q, o.plane)
    BY DEF SamePages, SameVictims
  <1>11. /\ PlanesSound(ps2) /\ ps2[pl] = q
         /\ \A x \in PlaneId \ {pl} : ps2[x] = inv.planes[x]
    BY <1>1, <1>6, PlaneChanged
  <1>. HIDE DEF ps2
  <1>12. \A x \in PlaneId \ {pl} : ps2[x] = ps[x]
    BY <1>2, <1>11
  <1>13. Relocates(ps2, ps, k, old, PPAOf(pl, page.block, page.page))
    BY <1>1, <1>2, <1>3, <1>4, <1>10, <1>11, <1>12, AllocationRelocates
  <1>. HIDE DEF page, q
  <1>14. ASSUME NEW x \in PlaneId, NEW c \in Blocks, NEW type \in {"READ", "WRITE"}
         PROVE  Count(ps2[x].blocks[c], type) = Count(ps[x].blocks[c], type)
                  + (IF role = "data" /\ type = "WRITE" /\ x = pl /\ c = page.block
                     THEN 1 ELSE 0)
    <2>1. Count(ps[x].blocks[c], type) \in Nat
      BY CountedSlots DEF PlanesSound
    <2>2. CASE x = pl
      BY <1>2, <1>9, <1>11, <2>1, <2>2
    <2>3. CASE x # pl
      BY <1>12, <2>1, <2>3
    <2>. QED BY <2>2, <2>3
  <1>15. OneWritten(ps2[pl], ps[pl], page.block)
    BY <1>2, <1>11, <1>8 DEF OneWritten
  <1>16. page.page = ps[pl].blocks[page.block].current_write_page_index
    BY <1>2, <1>5, <1>7
  <1>17. NewTaken(ps2, ps, k, old, pl, page, role)
    BY <1>5, <1>11, <1>7, <1>12, <1>13, <1>14, <1>15, <1>16 DEF NewTaken
  <1>. QED BY <1>17 DEF ps2, page, q, p1, s

-----------------------------------------------------------------------------
(* The inductive invariant                                                    *)

\* The switches that lead past what ends the process in the code.
Explored == CreditReclaimed /\ InsertsReserved /\ DriverReadsLpa /\ GcPolicy = "FIFO"

ExitKnown(why) ==
    /\ why \in Exits \cup MappingExits \cup {"undefined_behaviour"}
    /\ Explored => why \in {"none", "empty_pool", "undefined_behaviour"}

IInv ==
    /\ PlanesSound(planes)
    /\ SlotsFilled(slots)
    /\ Linked(planes, slots, metadata)
    /\ MovesInPlace(planes, slots, moves)
    /\ locked_lpa = PagesHeld(planes, slots, moves)
    /\ InFlightCounted(planes, inflight)
    /\ stalled \in 0..MaxStalled
    /\ ExitKnown(exit)

LEMMA InitIInv == Init => IInv
  <1>. SUFFICES ASSUME Init PROVE IInv
    OBVIOUS
  <1>1. PlanesSound(planes)
    BY NewPlaneSound, NewPlaneCounted DEF Init, PlanesSound, SoundPlane
  <1>2. \A k \in LogicalPages : slots[k] = Cmt!NoSlot
    BY DEF Init
  <1>3. Cmt!NoSlot \in Cmt!Slot /\ Cmt!NoSlot.status = "FREE"
    BY DEF Cmt!NoSlot, Cmt!Slot
  <1>4. SlotsFilled(slots) /\ \A k \in LogicalPages : ~ HasPlace(slots, k)
    BY <1>2, <1>3 DEF SlotsFilled, HasPlace, Init
  <1>5. \A ppa \in PPA : ~ ValidAt(planes, ppa)
    <2>1. \A pl \in PlaneId, b \in Blocks : planes[pl].blocks[b].current_write_page_index = 0
      BY DEF Init, NewPlane
    <2>2. \A pl \in PlaneId, b \in Blocks : ValidPagesOf(planes[pl], b) = {}
      BY <2>1 DEF ValidPagesOf, Pages
    <2>. QED BY <2>2, PlaceOfPPA DEF ValidAt
  <1>6. Linked(planes, slots, metadata)
    BY <1>4, <1>5 DEF Linked, Init
  <1>7. MovesInPlace(planes, slots, moves) /\ locked_lpa = PagesHeld(planes, slots, moves)
    BY <1>4 DEF MovesInPlace, PagesHeld, Init
  <1>8. InFlightCounted(planes, inflight)
    <2>1. \A type, pl, b : On(inflight, type, pl, b) = {}
      BY DEF On, Init
    <2>2. IsFiniteSet({}) /\ Cardinality({}) = 0
      BY FS_EmptySet
    <2>3. \A type \in {"READ", "WRITE"}, pl \in PlaneId, b \in Blocks :
             Count(planes[pl].blocks[b], type) \in Nat
      BY <1>1, CountedSlots DEF PlanesSound
    <2>. QED BY <2>1, <2>2, <2>3 DEF InFlightCounted, Init
  <1>9. stalled \in 0..MaxStalled /\ ExitKnown(exit)
    BY MappingAssumption DEF Init, ExitKnown, Exits
  <1>. QED BY <1>1, <1>4, <1>6, <1>7, <1>8, <1>9 DEF IInv

\* A step of the mapping leaves every logical page where it is and programs no page, or
\* it programs the next page of one block and makes it the place of page k.
PlacesStay ==
    /\ \A j \in LogicalPages :
          /\ HasPlace(slots', j) <=> HasPlace(slots, j)
          /\ HasPlace(slots, j) => slots'[j] = slots[j]
    /\ \A x \in PlaneId : SamePointers(planes'[x], planes[x])

TakesPage(k) ==
    \E pl \in PlaneId, b \in Blocks, page \in Pages :
        /\ page = planes[pl].blocks[b].current_write_page_index
        /\ HasPlace(slots', k) /\ slots'[k].mapping.ppa = PPAOf(pl, b, page)
        /\ \A j \in LogicalPages \ {k} : slots'[j] = slots[j]
        /\ OneWritten(planes'[pl], planes[pl], b)
        /\ \A x \in PlaneId \ {pl} : SamePointers(planes'[x], planes[x])

LEMMA NothingTaken ==
    ASSUME UNCHANGED <<planes, slots>>
    PROVE  PlacesStay
  BY DEF PlacesStay, SamePointers

LEMMA EndsKeepsIInv ==
    ASSUME IInv, NEW why, ExitKnown(why), Ends(why)
    PROVE  IInv' /\ PlacesStay
  BY NothingTaken DEF IInv, Ends

\* The process ends in an allocation for want of a block, or in the search for a victim.
LEMMA AllocationKnown ==
    ASSUME NEW p, SoundPlane(p), CountedPlane(p), NEW role \in Roles, NEW s \in Streams,
           NEW o \in AllocateBlockAndPage(p, role, s)
    PROVE  ExitKnown(o.exit)
  <1>1. o.exit \in {"none", "empty_pool", "gc_victim"}
    BY AllocationExits
  <1>2. GcPolicy = "FIFO" => o.exit \in {"none", "empty_pool"}
    BY FifoExits
  <1>. QED BY <1>1, <1>2 DEF ExitKnown, Explored, Exits

LEMMA StartedTransaction ==
    ASSUME InFlightCounted(planes, inflight), PlanesSound(planes),
           NEW type \in {"READ", "WRITE"}, NEW n \in {MaxReads, MaxPrograms},
           Cardinality(InFlightOf(type)) < n, NEW pl \in PlaneId, NEW b \in Blocks
    PROVE  LET t == Started(type, pl, b)
           IN  /\ t \in Transaction /\ t.type = type /\ t.plane = pl /\ t.block = b
               /\ t.erase_count = planes[pl].blocks[b].erase_count
  <1>1. /\ MaxReads \in Nat /\ MaxPrograms \in Nat /\ n \in Nat
        /\ 1..n \subseteq 1..(MaxReads + MaxPrograms)
    BY MappingAssumption
  <1>2. IsFiniteSet(InFlightOf(type))
    BY FS_Subset DEF InFlightCounted, InFlightOf
  <1>3. \E i \in 1..n : \A t \in InFlightOf(type) : t.id # i
    BY <1>1, <1>2, FreshId
  <1>4. \E i \in 1..(MaxReads + MaxPrograms) : \A t \in InFlightOf(type) : t.id # i
    BY <1>1, <1>3
  <1>. DEFINE id == CHOOSE i \in 1..(MaxReads + MaxPrograms) :
                       \A t \in InFlightOf(type) : t.id # i
  <1>5. id \in 1..(MaxReads + MaxPrograms)
    BY <1>4
  <1>6. Started(type, pl, b)
          = [id |-> id, type |-> type, plane |-> pl, block |-> b,
             erase_count |-> planes[pl].blocks[b].erase_count]
    BY DEF Started
  <1>7. planes[pl].blocks[b].erase_count \in Nat
    BY CountedSlots DEF PlanesSound, BlockSlot
  <1>. HIDE DEF id
  <1>. QED BY <1>5, <1>6, <1>7 DEF Transaction

-----------------------------------------------------------------------------
(* Entries, and transactions left waiting                                     *)

LEMMA LoadKeepsIInv ==
    ASSUME IInv, NEW k \in LogicalPages, LoadEntry(k)
    PROVE  IInv' /\ PlacesStay
  <1>. DEFINE reserved == Cmt!Reserved(k.stream_id)
              mapping == [ppa |-> NoValue, bitmap |-> {}]
              slot == Cmt!Insert(reserved, mapping)
  <1>1. reserved \in Cmt!Slot /\ reserved.status = "WAITING"
    BY PageParts DEF Cmt!Reserved, Cmt!Slot
  <1>2. CASE Cmt!InsertRefused(reserved)
    <2>1. Ends("not_found_or_not_valid")
      BY <1>2 DEF LoadEntry
    <2>2. ~ InsertsReserved
      BY <1>1, <1>2 DEF Cmt!InsertRefused
    <2>. QED BY <2>1, <2>2, EndsKeepsIInv DEF ExitKnown, Explored, MappingExits
  <1>3. CASE ~ Cmt!InsertRefused(reserved)
    <2>1. /\ slots' = [slots EXCEPT ![k] = slot]
          /\ UNCHANGED <<planes, metadata, locked_lpa, stalled, inflight, moves, exit>>
          /\ slots[k].status = "FREE"
      BY <1>3 DEF LoadEntry
    <2>2. mapping \in Mappings /\ mapping.ppa = NoValue
      BY DEF Mappings
    <2>3. slot \in Cmt!Slot /\ slot.status = "VALID" /\ slot.mapping = mapping
      BY <1>1, <2>2 DEF Cmt!Insert, Cmt!Slot
    <2>. HIDE DEF slot, mapping, reserved
    <2>4. /\ slots' \in [LogicalPages -> Cmt!Slot] /\ slots'[k] = slot
          /\ \A j \in LogicalPages \ {k} : slots'[j] = slots[j]
      BY <2>1, <2>3 DEF IInv, SlotsFilled
    <2>5. SlotsFilled(slots')
      BY <2>2, <2>3, <2>4 DEF IInv, SlotsFilled
    <2>6. ASSUME NEW j \in LogicalPages
          PROVE  /\ HasPlace(slots', j) <=> HasPlace(slots, j)
                 /\ HasPlace(slots, j) => slots'[j] = slots[j]
      <3>1. ~ HasPlace(slots, k) /\ ~ HasPlace(slots', k)
        BY <2>1, <2>2, <2>3, <2>4 DEF HasPlace
      <3>. QED BY <2>4, <3>1 DEF HasPlace
    <2>7. Linked(planes, slots', metadata)
      BY <2>6 DEF IInv, Linked
    <2>8. \A m \in moves : m.page \in LogicalPages
      BY DEF IInv, MovesInPlace, Move
    <2>9. MovesInPlace(planes, slots', moves)
      BY <2>6, <2>8 DEF IInv, MovesInPlace
    <2>10. PagesHeld(planes, slots', moves) = PagesHeld(planes, slots, moves)
      BY <2>6 DEF PagesHeld
    <2>11. PlacesStay
      BY <2>1, <2>6 DEF PlacesStay, SamePointers
    <2>. QED BY <2>1, <2>5, <2>7, <2>9, <2>10, <2>11 DEF IInv
  <1>. QED BY <1>2, <1>3

LEMMA StallKeepsIInv ==
    ASSUME IInv, Stall
    PROVE  IInv' /\ PlacesStay
  BY MappingAssumption, NothingTaken DEF IInv, Stall

-----------------------------------------------------------------------------
(* User reads and writes                                                      *)

LEMMA FoundMapped ==
    ASSUME IInv, NEW k \in LogicalPages, Mapping_entry_accessible(k)
    PROVE  /\ slots[k].status = "VALID" /\ slots[k].mapping \in Mappings
           /\ HasPlace(slots, k) <=> ~ NeverMapped(k)
           /\ \A m \in moves : m.page \in locked_lpa
  BY DEF IInv, SlotsFilled, HasPlace, NeverMapped, Mapping_entry_accessible, Cmt!Exists, PagesHeld

\* A read of a mapped page is counted where the page is, and nothing moves.
LEMMA StartedRead ==
    ASSUME IInv, NEW k \in LogicalPages, HasPlace(slots, k), RoomToRead
    PROVE  LET a   == AddressOf(k)
               ps2 == ReadStartedOnBlock(planes, a)
               t   == Started("READ", PlaneOf(a), a.block_id)
           IN  /\ PlanesSound(ps2)
               /\ Linked(ps2, slots, metadata)
               /\ MovesInPlace(ps2, slots, moves)
               /\ locked_lpa = PagesHeld(ps2, slots, moves)
               /\ InFlightCounted(ps2, inflight \cup {t})
               /\ \A pl \in PlaneId : /\ SameVictims(ps2[pl], planes[pl])
                                      /\ SamePointers(ps2[pl], planes[pl])
                                      /\ ps2[pl].free_block_pool = planes[pl].free_block_pool
  <1>. DEFINE a   == AddressOf(k)
              ps2 == ReadStartedOnBlock(planes, a)
              t   == Started("READ", PlaneOf(a), a.block_id)
  <1>1. /\ PlanesSound(planes) /\ Linked(planes, slots, metadata)
        /\ MovesInPlace(planes, slots, moves) /\ InFlightCounted(planes, inflight)
    BY DEF IInv
  <1>2. PlaneOf(a) \in PlaneId /\ a.block_id \in Blocks
    BY <1>1, MappedPlace DEF AddressOf
  <1>. HIDE DEF a
  <1>3. /\ t \in Transaction /\ t.type = "READ" /\ t.plane = PlaneOf(a) /\ t.block = a.block_id
        /\ t.erase_count = planes[t.plane].blocks[t.block].erase_count
    BY <1>1, <1>2, StartedTransaction DEF RoomToRead
  <1>. HIDE DEF t
  <1>4. /\ PlanesSound(ps2)
        /\ \A pl \in PlaneId :
              /\ SamePages(ps2[pl], planes[pl]) /\ SameVictims(ps2[pl], planes[pl])
              /\ SamePointers(ps2[pl], planes[pl])
              /\ ps2[pl].free_block_pool = planes[pl].free_block_pool
              /\ \A b \in Blocks :
                    /\ Count(ps2[pl].blocks[b], "WRITE") = Count(planes[pl].blocks[b], "WRITE")
                    /\ Count(ps2[pl].blocks[b], "READ") = Count(planes[pl].blocks[b], "READ")
                         + (IF pl = PlaneOf(a) /\ b = a.block_id THEN 1 ELSE 0)
    BY <1>1, <1>2, ReadStarted
  <1>. HIDE DEF ps2
  <1>5. Linked(ps2, slots, metadata)
    BY <1>1, <1>4, LinkedQuiet
  <1>6. /\ MovesInPlace(ps2, slots, moves)
        /\ PagesHeld(ps2, slots, moves) = PagesHeld(planes, slots, moves)
    BY <1>1, <1>4, HeldQuiet
  <1>7. ASSUME NEW pl \in PlaneId, NEW b \in Blocks
        PROVE  /\ ps2[pl].blocks[b].erase_count = planes[pl].blocks[b].erase_count
               /\ \A type \in {"READ", "WRITE"} :
                     Count(ps2[pl].blocks[b], type) >= Count(planes[pl].blocks[b], type)
                       + (IF t.type = type /\ t.plane = pl /\ t.block = b THEN 1 ELSE 0)
    <2>1. /\ Count(planes[pl].blocks[b], "READ") \in Nat
          /\ Count(planes[pl].blocks[b], "WRITE") \in Nat
      BY <1>1, CountedSlots DEF PlanesSound
    <2>. QED BY <1>3, <1>4, <2>1 DEF SameVictims
  <1>8. InFlightCounted(ps2, inflight \cup {t})
    BY <1>1, <1>3, <1>4, <1>7, InFlightStarted
  <1>. QED BY <1>4, <1>5, <1>6, <1>8 DEF IInv, a, ps2, t

LEMMA ReadKeepsIInv ==
    ASSUME IInv, NEW k \in LogicalPages, Read(k)
    PROVE  IInv' /\ PlacesStay
  <1>1. HasPlace(slots, k) /\ RoomToRead
    BY FoundMapped DEF Read, Found
  <1>2. /\ PlanesSound(planes') /\ Linked(planes', slots, metadata)
        /\ MovesInPlace(planes', slots, moves) /\ locked_lpa = PagesHeld(planes', slots, moves)
        /\ InFlightCounted(planes', inflight')
        /\ \A x \in PlaneId : SamePointers(planes'[x], planes[x])
    BY <1>1, StartedRead DEF Read
  <1>. QED BY <1>2 DEF Read, IInv, PlacesStay


\* The tables when page k has got its new place.
LEMMA PlacedTables ==
    ASSUME NEW ps, NEW ps2, SlotsFilled(slots), Linked(ps, slots, metadata),
           MovesInPlace(ps, slots, moves),
           NEW k \in LogicalPages, slots[k].status = "VALID", \A m \in moves : m.page # k,
           NEW new, Relocates(ps2, ps, k, slots[k].mapping.ppa, new),
           NEW bitmap \in SUBSET Sectors,
           slots' = Remapped(slots, k, new, bitmap),
           metadata' = Restored(metadata, k, slots[k].mapping.ppa, new)
    PROVE  /\ SlotsFilled(slots') /\ Linked(ps2, slots', metadata')
           /\ MovesInPlace(ps2, slots', moves)
           /\ PagesHeld(ps2, slots', moves) = PagesHeld(ps, slots, moves) \ {k}
           /\ HasPlace(slots', k) /\ slots'[k].mapping.ppa = new
  <1>1. new \in PPA
    BY DEF Relocates
  <1>2. SlotsFilled(slots') /\ HasPlace(slots', k) /\ slots'[k].mapping.ppa = new
    BY <1>1, RemappedSlots
  <1>3. Linked(ps2, slots', metadata')
    BY LinkedRelocated
  <1>4. /\ MovesInPlace(ps2, slots', moves)
        /\ PagesHeld(ps2, slots', moves) = PagesHeld(ps, slots, moves) \ {k}
    BY HeldRelocated
  <1>. QED BY <1>2, <1>3, <1>4

\* The device and the transactions in flight after the part of an operation that comes
\* before it takes a page: what the mapping reads of them is what it was.
Begun(ps, tr) ==
    /\ PlanesSound(ps) /\ Linked(ps, slots, metadata)
    /\ MovesInPlace(ps, slots, moves)
    /\ locked_lpa = PagesHeld(ps, slots, moves)
    /\ InFlightCounted(ps, tr)
    /\ \A pl \in PlaneId : /\ SameVictims(ps[pl], planes[pl])
                           /\ SamePointers(ps[pl], planes[pl])
                           /\ ps[pl].free_block_pool = planes[pl].free_block_pool

LEMMA NothingBegun ==
    ASSUME IInv
    PROVE  Begun(planes, inflight)
  BY DEF IInv, Begun, SameVictims, SamePointers

\* A user write reads its page first when it leaves out sectors of it.
IsPartial(k, w) == (slots[k].mapping.bitmap \cap w) # slots[k].mapping.bitmap

ReadBefore(k, w) ==
    IF IsPartial(k, w) THEN ReadStartedOnBlock(planes, AddressOf(k)) ELSE planes

FlightBefore(k, w) ==
    inflight \cup
        (IF IsPartial(k, w)
         THEN {Started("READ", PlaneOf(AddressOf(k)), AddressOf(k).block_id)} ELSE {})

LEMMA WriteBegun ==
    ASSUME IInv, NEW k \in LogicalPages, NEW w \in Bitmaps, Write(k, w)
    PROVE  HasPlace(slots, k) /\ Begun(ReadBefore(k, w), FlightBefore(k, w))
  <1>1. HasPlace(slots, k)
    BY FoundMapped DEF Write, Found
  <1>2. CASE IsPartial(k, w)
    <2>1. RoomToRead
      BY <1>2 DEF Write, IsPartial
    <2>2. Begun(ReadStartedOnBlock(planes, AddressOf(k)),
                inflight \cup {Started("READ", PlaneOf(AddressOf(k)), AddressOf(k).block_id)})
      BY <1>1, <2>1, StartedRead DEF Begun
    <2>. QED BY <1>1, <1>2, <2>2 DEF ReadBefore, FlightBefore
  <1>3. CASE ~ IsPartial(k, w)
    BY <1>1, <1>3, NothingBegun DEF ReadBefore, FlightBefore
  <1>. QED BY <1>2, <1>3

\* The tables and the device once page is the place of k.
IsPlaced(ps, k, bitmap, new, old) ==
    /\ planes' = ps
    /\ slots' = Remapped(slots, k, new, bitmap)
    /\ metadata' = Restored(metadata, k, old, new)
    /\ UNCHANGED <<locked_lpa, stalled, moves, exit>>

\* How a user write that has marked the old page in inv goes on when it is given o.
GoesOn(o, k, w, inv, pl, page) ==
    \/ o.exit # "none" /\ Ends(o.exit)
    \/ /\ o.exit = "none"
       /\ IsPlaced([inv.planes EXCEPT ![pl] = o.plane], k, w \cup slots[k].mapping.bitmap,
                   PPAOf(pl, page.block, page.page), slots[k].mapping.ppa)
       /\ inflight' = FlightBefore(k, w) \cup {Started("WRITE", pl, page.block)}

LEMMA WriteOutcome ==
    ASSUME NEW k \in LogicalPages, NEW w \in Bitmaps, Write(k, w),
           NEW inv, inv = Invalidated(ReadBefore(k, w), k, slots[k].mapping.ppa),
           inv.exit = "none", NEW pl, pl = AllocatePlane(k.lpa),
           NEW page, page = NextPage(inv.planes[pl], "data", k.stream_id)
    PROVE  \E o \in AllocateBlockAndPage(inv.planes[pl], "data", k.stream_id) :
              GoesOn(o, k, w, inv, pl, page)
  <1>1. PICK o \in AllocateBlockAndPage(inv.planes[pl], "data", k.stream_id) :
           IF o.exit # "none" THEN Ends(o.exit)
           ELSE /\ Placed(inv.planes, pl, "data", k, w \cup slots[k].mapping.bitmap, o.plane)
                /\ inflight' = inflight \cup {Started("WRITE", pl, page.block)} \cup
                      (IF IsPartial(k, w)
                       THEN {Started("READ", PlaneOf(AddressOf(k)), AddressOf(k).block_id)}
                       ELSE {})
                /\ UNCHANGED <<locked_lpa, stalled, moves>>
    BY DEF Write, IsPartial, ReadBefore
  <1>2. CASE o.exit # "none"
    BY <1>1, <1>2 DEF GoesOn
  <1>3. CASE o.exit = "none"
    <2>1. Placed(inv.planes, pl, "data", k, w \cup slots[k].mapping.bitmap, o.plane)
      BY <1>1, <1>3
    <2>2. IsPlaced([inv.planes EXCEPT ![pl] = o.plane], k, w \cup slots[k].mapping.bitmap,
                   PPAOf(pl, page.block, page.page), slots[k].mapping.ppa)
      <3>1. /\ planes' = [inv.planes EXCEPT ![pl] = o.plane]
            /\ UNCHANGED <<locked_lpa, stalled, moves, exit>>
        BY <1>1, <1>3, <2>1 DEF Placed
      <3>2. slots' = Remapped(slots, k, PPAOf(pl, page.block, page.page),
                              w \cup slots[k].mapping.bitmap)
        BY <2>1 DEF Placed, Remapped
      <3>3. metadata' = Restored(metadata, k, slots[k].mapping.ppa,
                                 PPAOf(pl, page.block, page.page))
        <4>1. metadata' = Restored(metadata, k, slots[k].mapping.ppa,
                                   PPAOf(pl, NextPage(inv.planes[pl], "data", k.stream_id).block,
                                         NextPage(inv.planes[pl], "data", k.stream_id).page))
          BY <2>1 DEF Placed, Restored
        <4>. QED BY <4>1
      <3>. QED BY <3>1, <3>2, <3>3 DEF IsPlaced
    <2>3. inflight' = FlightBefore(k, w) \cup {Started("WRITE", pl, page.block)}
      BY <1>1, <1>3 DEF FlightBefore
    <2>. QED BY <1>3, <2>2, <2>3 DEF GoesOn
  <1>. QED BY <1>2, <1>3

\* A page that no collection holds gets its new place.
LEMMA PlacedUser ==
    ASSUME IInv, NEW k \in LogicalPages, slots[k].status = "VALID", k \notin locked_lpa,
           NEW ps, NEW tr, Begun(ps, tr), NEW pl, NEW page, NEW ps2, NEW new, NEW old,
           new = PPAOf(pl, page.block, page.page), old = slots[k].mapping.ppa,
           NewTaken(ps2, ps, k, old, pl, page, "data"),
           NEW bitmap \in SUBSET Sectors, IsPlaced(planes', k, bitmap, new, old)
    PROVE  /\ SlotsFilled(slots') /\ Linked(ps2, slots', metadata')
           /\ MovesInPlace(ps2, slots', moves)
           /\ locked_lpa = PagesHeld(ps2, slots', moves)
  <1>1. \A m \in moves : m.page # k
    BY FoundMapped DEF IInv, PagesHeld
  <1>2. Relocates(ps2, ps, k, slots[k].mapping.ppa, new)
    BY DEF NewTaken
  <1>3. /\ slots' = Remapped(slots, k, new, bitmap)
        /\ metadata' = Restored(metadata, k, slots[k].mapping.ppa, new)
    BY DEF IsPlaced
  <1>4. /\ Linked(ps, slots, metadata) /\ MovesInPlace(ps, slots, moves)
        /\ locked_lpa = PagesHeld(ps, slots, moves) /\ SlotsFilled(slots)
    BY DEF Begun, IInv
  <1>5. /\ SlotsFilled(slots') /\ Linked(ps2, slots', metadata')
        /\ MovesInPlace(ps2, slots', moves)
        /\ PagesHeld(ps2, slots', moves) = PagesHeld(ps, slots, moves) \ {k}
    BY <1>1, <1>2, <1>3, <1>4, PlacedTables
  <1>. QED BY <1>4, <1>5

\* The program, or the read, of a page that has just been taken is counted.
LEMMA StartedOnTaken ==
    ASSUME IInv, NEW ps, NEW tr, Begun(ps, tr), NEW ps2, PlanesSound(ps2),
           NEW type \in {"READ", "WRITE"}, NEW n \in {MaxReads, MaxPrograms},
           Cardinality(InFlightOf(type)) < n, NEW pl \in PlaneId, NEW b \in Blocks,
           NEW t, t = Started(type, pl, b),
           \A x \in PlaneId : SameVictims(ps2[x], ps[x]),
           \A x \in PlaneId, c \in Blocks, y \in {"READ", "WRITE"} :
              Count(ps2[x].blocks[c], y) >= Count(ps[x].blocks[c], y)
                + (IF y = type /\ x = pl /\ c = b THEN 1 ELSE 0)
    PROVE  InFlightCounted(ps2, tr \cup {t})
  <1>1. PlanesSound(planes) /\ InFlightCounted(planes, inflight)
    BY DEF IInv
  <1>2. /\ t \in Transaction /\ t.type = type /\ t.plane = pl /\ t.block = b
        /\ t.erase_count = planes[pl].blocks[b].erase_count
    BY <1>1, StartedTransaction
  <1>3. PlanesSound(ps) /\ InFlightCounted(ps, tr)
    BY DEF Begun
  <1>4. t.erase_count = ps[t.plane].blocks[t.block].erase_count
    BY <1>2 DEF Begun, SameVictims
  <1>5. ASSUME NEW x \in PlaneId, NEW c \in Blocks
        PROVE  /\ ps2[x].blocks[c].erase_count = ps[x].blocks[c].erase_count
               /\ \A y \in {"READ", "WRITE"} :
                     Count(ps2[x].blocks[c], y) >= Count(ps[x].blocks[c], y)
                       + (IF t.type = y /\ t.plane = x /\ t.block = c THEN 1 ELSE 0)
    <2>1. ps2[x].blocks[c].erase_count = ps[x].blocks[c].erase_count
      BY DEF SameVictims
    <2>2. ASSUME NEW y \in {"READ", "WRITE"}
          PROVE  Count(ps2[x].blocks[c], y) >= Count(ps[x].blocks[c], y)
                   + (IF t.type = y /\ t.plane = x /\ t.block = c THEN 1 ELSE 0)
      <3>1. Count(ps2[x].blocks[c], y) >= Count(ps[x].blocks[c], y)
              + (IF y = type /\ x = pl /\ c = b THEN 1 ELSE 0)
        OBVIOUS
      <3>2. (t.type = y /\ t.plane = x /\ t.block = c) <=> (y = type /\ x = pl /\ c = b)
        BY <1>2
      <3>. QED BY <3>1, <3>2
    <2>. QED BY <2>1, <2>2
  <1>. QED BY <1>2, <1>3, <1>4, <1>5, InFlightStarted

\* The new place of k is the next page of its block.
LEMMA PageTaken ==
    ASSUME IInv, NEW k \in LogicalPages, slots[k].status = "VALID",
           NEW ps, \A x \in PlaneId : SamePointers(ps[x], planes[x]),
           NEW old, NEW pl \in PlaneId, NEW page, NEW role,
           NEW ps2, NewTaken(ps2, ps, k, old, pl, page, role),
           \A x \in PlaneId : SamePointers(planes'[x], ps2[x]),
           NEW new, new = PPAOf(pl, page.block, page.page), NEW bitmap \in SUBSET Sectors,
           slots' = Remapped(slots, k, new, bitmap)
    PROVE  TakesPage(k)
  <1>1. /\ page.block \in Blocks /\ page.page \in Pages /\ new \in PPA
        /\ page.page = ps[pl].blocks[page.block].current_write_page_index
        /\ OneWritten(ps2[pl], ps[pl], page.block)
        /\ \A x \in PlaneId \ {pl} : ps2[x] = ps[x]
    BY DEF NewTaken, Relocates
  <1>2. page.page = planes[pl].blocks[page.block].current_write_page_index
    BY <1>1 DEF SamePointers
  <1>3. /\ HasPlace(slots', k) /\ slots'[k].mapping.ppa = new
        /\ \A j \in LogicalPages \ {k} : slots'[j] = slots[j]
    BY <1>1, RemappedSlots DEF IInv
  <1>4. OneWritten(planes'[pl], planes[pl], page.block)
    BY <1>1 DEF OneWritten, SamePointers
  <1>5. \A x \in PlaneId \ {pl} : SamePointers(planes'[x], planes[x])
    BY <1>1 DEF SamePointers
  <1>. QED BY <1>1, <1>2, <1>3, <1>4, <1>5 DEF TakesPage

ReserveLeft(pl) ==
    exit' # "empty_pool" /\ Len(planes'[pl].free_block_pool) >= MaxOngoingGc - 1

LEMMA WriteKeepsIInv ==
    ASSUME IInv, NEW k \in LogicalPages, NEW w \in Bitmaps, Write(k, w)
    PROVE  /\ IInv' /\ (TakesPage(k) \/ PlacesStay)
           /\ MaxOngoingGc >= 1 => ReserveLeft(AllocatePlane(k.lpa))
  <1>1. /\ slots[k].status = "VALID" /\ slots[k].mapping \in Mappings /\ HasPlace(slots, k)
        /\ k \notin locked_lpa
    BY FoundMapped DEF Write, Found, IsLPALockedForGC
  <1>2. PICK ps : ps = ReadBefore(k, w)
    OBVIOUS
  <1>3. PICK tr : tr = FlightBefore(k, w)
    OBVIOUS
  <1>4. PICK pl : pl = AllocatePlane(k.lpa)
    OBVIOUS
  <1>5. PICK inv : inv = Invalidated(ps, k, slots[k].mapping.ppa)
    OBVIOUS
  <1>6. PICK page : page = NextPage(inv.planes[pl], "data", k.stream_id)
    OBVIOUS
  <1>7. Begun(ps, tr)
    BY <1>2, <1>3, WriteBegun
  <1>8. PlanesSound(ps) /\ Linked(ps, slots, metadata)
    BY <1>7 DEF Begun
  <1>9. OldMarked(ps, slots[k].mapping.ppa, pl, inv)
    BY <1>1, <1>4, <1>5, <1>8, OldPageMarked
  <1>10. inv.exit = "none" /\ SoundPlane(inv.planes[pl]) /\ CountedPlane(inv.planes[pl])
    BY <1>9 DEF OldMarked
  <1>11. k.stream_id \in Streams /\ pl \in PlaneId /\ "data" \in Roles
    BY <1>4, PageParts DEF Roles
  <1>. inv = Invalidated(ReadBefore(k, w), k, slots[k].mapping.ppa)
    BY <1>2, <1>5
  <1>12. PICK o \in AllocateBlockAndPage(inv.planes[pl], "data", k.stream_id) :
            GoesOn(o, k, w, inv, pl, page)
    BY <1>4, <1>6, <1>10, WriteOutcome
  <1>13. /\ Len(planes[pl].free_block_pool) \in Nat
         /\ Len(planes[pl].free_block_pool) >= MaxOngoingGc
         /\ inv.planes[pl].free_block_pool = planes[pl].free_block_pool
         /\ o.exit = "empty_pool" => Len(planes[pl].free_block_pool) = 0
         /\ o.exit = "none" =>
               Len(o.plane.free_block_pool) >= Len(planes[pl].free_block_pool) - 1
         /\ exit = "none" /\ MaxOngoingGc \in Nat
    <2>1. inv.planes[pl].free_block_pool = planes[pl].free_block_pool
      BY <1>7, <1>9, <1>11 DEF Begun, OldMarked
    <2>2. /\ Len(inv.planes[pl].free_block_pool) \in Nat
          /\ o.exit = "empty_pool" => Len(inv.planes[pl].free_block_pool) = 0
          /\ o.exit = "none" =>
                Len(o.plane.free_block_pool) >= Len(inv.planes[pl].free_block_pool) - 1
      BY <1>10, <1>11, AllocationPool
    <2>3. ~ (Len(planes[pl].free_block_pool) < MaxOngoingGc) /\ exit = "none"
      BY <1>4 DEF Write, Found, Running, StopServicingWrites
    <2>4. MaxOngoingGc \in Nat
      BY PlaneAssumption
    <2>. QED BY <2>1, <2>2, <2>3, <2>4
  <1>14. CASE o.exit # "none"
    <2>1. ExitKnown(o.exit)
      BY <1>10, <1>11, AllocationKnown
    <2>2. MaxOngoingGc >= 1 => ReserveLeft(pl)
      <3>1. planes' = planes /\ exit' = o.exit
        BY <1>12, <1>14 DEF GoesOn, Ends
      <3>2. PICK n \in Nat : n = Len(planes[pl].free_block_pool)
        BY <1>13
      <3>3. MaxOngoingGc >= 1 => n >= MaxOngoingGc - 1 /\ n # 0
        BY <1>13, <3>2
      <3>4. o.exit = "empty_pool" => n = 0
        BY <1>13, <3>2
      <3>. QED BY <3>1, <3>2, <3>3, <3>4 DEF ReserveLeft
    <2>. QED BY <1>4, <1>12, <1>14, <2>1, <2>2, EndsKeepsIInv DEF GoesOn
  <1>15. CASE o.exit = "none"
    <2>1. PICK ps2 : ps2 = [inv.planes EXCEPT ![pl] = o.plane]
      OBVIOUS
    <2>2. PICK new : new = PPAOf(pl, page.block, page.page)
      OBVIOUS
    <2>3. /\ IsPlaced(ps2, k, w \cup slots[k].mapping.bitmap, new, slots[k].mapping.ppa)
          /\ inflight' = tr \cup {Started("WRITE", pl, page.block)}
      BY <1>3, <1>12, <1>15, <2>1, <2>2 DEF GoesOn
    <2>4. planes' = ps2 /\ UNCHANGED <<locked_lpa, stalled, moves, exit>>
      BY <2>3 DEF IsPlaced
    <2>5. NewTaken(ps2, ps, k, slots[k].mapping.ppa, pl, page, "data")
      BY <1>4, <1>6, <1>8, <1>9, <1>11, <1>15, <2>1, NewPageTaken
    <2>6. w \cup slots[k].mapping.bitmap \in SUBSET Sectors
      BY <1>1 DEF Mappings, Sectors
    <2>7. /\ SlotsFilled(slots') /\ Linked(ps2, slots', metadata')
          /\ MovesInPlace(ps2, slots', moves)
          /\ locked_lpa = PagesHeld(ps2, slots', moves)
      BY <1>1, <1>7, <2>2, <2>3, <2>4, <2>5, <2>6, PlacedUser
    <2>8. /\ PlanesSound(ps2) /\ page.block \in Blocks
          /\ \A x \in PlaneId : SameVictims(ps2[x], ps[x])
          /\ \A x \in PlaneId, c \in Blocks, y \in {"READ", "WRITE"} :
                Count(ps2[x].blocks[c], y) = Count(ps[x].blocks[c], y)
                  + (IF y = "WRITE" /\ x = pl /\ c = page.block THEN 1 ELSE 0)
      BY <2>5 DEF NewTaken, Relocates
    <2>9. ASSUME NEW x \in PlaneId, NEW c \in Blocks, NEW y \in {"READ", "WRITE"}
          PROVE  Count(ps2[x].blocks[c], y) >= Count(ps[x].blocks[c], y)
                   + (IF y = "WRITE" /\ x = pl /\ c = page.block THEN 1 ELSE 0)
      <3>1. Count(ps[x].blocks[c], y) \in Nat
        BY <1>8, CountedSlots DEF PlanesSound
      <3>. QED BY <2>8, <3>1
    <2>10. Cardinality(InFlightOf("WRITE")) < MaxPrograms
      BY DEF Write
    <2>11. InFlightCounted(ps2, tr \cup {Started("WRITE", pl, page.block)})
      BY <1>7, <1>11, <2>8, <2>9, <2>10, StartedOnTaken
    <2>12. TakesPage(k)
      <3>1. /\ \A x \in PlaneId : SamePointers(ps[x], planes[x])
            /\ \A x \in PlaneId : SamePointers(planes'[x], ps2[x])
        BY <1>7, <2>4 DEF Begun, SamePointers
      <3>2. slots' = Remapped(slots, k, new, w \cup slots[k].mapping.bitmap)
        BY <2>3 DEF IsPlaced
      <3>. QED BY <1>1, <1>11, <2>2, <2>5, <2>6, <3>1, <3>2, PageTaken
    <2>13. MaxOngoingGc >= 1 => ReserveLeft(pl)
      <3>1. planes'[pl] = o.plane /\ exit' = exit
        BY <1>9, <1>11, <2>1, <2>4 DEF OldMarked, PlanesSound
      <3>2. PICK n \in Nat : n = Len(planes[pl].free_block_pool)
        BY <1>13
      <3>3. PICK r : r = Len(o.plane.free_block_pool)
        OBVIOUS
      <3>4. r >= n - 1 /\ n >= MaxOngoingGc
        BY <1>13, <1>15, <3>2, <3>3
      <3>5. r \in Nat
        <4>1. NewTaken(ps2, ps, k, slots[k].mapping.ppa, pl, page, "data")
          BY <2>5
        <4>2. planes'[pl] \in PlaneRecord
          BY <1>11, <2>4, <4>1 DEF NewTaken, PlanesSound
        <4>3. o.plane.free_block_pool \in Seq(PoolEntry)
          BY <3>1, <4>2 DEF PlaneRecord
        <4>. QED BY <3>3, <4>3, LenProperties
      <3>6. r >= MaxOngoingGc - 1
        BY <1>13, <3>2, <3>4, <3>5
      <3>. QED BY <1>13, <3>1, <3>3, <3>6 DEF ReserveLeft
    <2>. QED BY <1>4, <2>3, <2>4, <2>7, <2>8, <2>11, <2>12, <2>13 DEF IInv
  <1>. QED BY <1>12, <1>14, <1>15

\* An allocation that marks no page first.
LEMMA NothingMarked ==
    ASSUME NEW ps, PlanesSound(ps), NEW pl \in PlaneId,
           NEW inv, inv = [planes |-> ps, exit |-> "none"]
    PROVE  OldMarked(ps, NoValue, pl, inv)
  <1>1. \A y \in PlaneId, c \in Blocks, x \in Pages : PPAOf(y, c, x) # NoValue
    BY PPAOfPlace, MappingAssumption
  <1>2. /\ inv.exit = "none" /\ inv.planes = ps
        /\ SoundPlane(ps[pl]) /\ CountedPlane(ps[pl])
    BY DEF PlanesSound
  <1>3. SameVictims(ps[pl], ps[pl])
    BY DEF SameVictims
  <1>. QED BY <1>1, <1>2, <1>3 DEF OldMarked

\* A read of an unmapped page counts a program where it counts its read.
LEMMA ReadUnmappedKeepsIInv ==
    ASSUME IInv, NEW k \in LogicalPages, NEW r \in Bitmaps, ReadUnmapped(k, r)
    PROVE  IInv' /\ (TakesPage(k) \/ PlacesStay)
  <1>1. /\ slots[k].status = "VALID" /\ slots[k].mapping.ppa = NoValue
        /\ k \notin locked_lpa
    BY FoundMapped DEF ReadUnmapped, Found, NeverMapped, IsLPALockedForGC
  <1>2. PICK pl : pl = AllocatePlane(k.lpa)
    OBVIOUS
  <1>3. PICK page : page = NextPage(planes[pl], "data", k.stream_id)
    OBVIOUS
  <1>4. PICK inv : inv = [planes |-> planes, exit |-> "none"]
    OBVIOUS
  <1>5. k.stream_id \in Streams /\ pl \in PlaneId /\ "data" \in Roles
    BY <1>2, PageParts DEF Roles
  <1>6. /\ PlanesSound(planes) /\ SoundPlane(planes[pl]) /\ CountedPlane(planes[pl])
        /\ inv.planes = planes
    BY <1>4, <1>5 DEF IInv, PlanesSound
  <1>7. PICK o \in AllocateBlockAndPage(planes[pl], "data", k.stream_id) :
           IF o.exit # "none" THEN Ends(o.exit)
           ELSE /\ Placed(planes, pl, "data", k, r,
                          [o.plane EXCEPT !.blocks[page.block].ongoing_user_read_cnt = @ + 1])
                /\ inflight' = inflight \cup {Started("READ", pl, page.block)}
                /\ UNCHANGED <<locked_lpa, stalled, moves>>
    BY <1>2, <1>3 DEF ReadUnmapped
  <1>8. CASE o.exit # "none"
    <2>1. ExitKnown(o.exit)
      BY <1>5, <1>6, AllocationKnown
    <2>. QED BY <1>7, <1>8, <2>1, EndsKeepsIInv
  <1>9. CASE o.exit = "none"
    <2>1. PICK new : new = PPAOf(pl, page.block, page.page)
      OBVIOUS
    <2>2. PICK ps2 : ps2 = [planes EXCEPT ![pl] = o.plane]
      OBVIOUS
    <2>3. Placed(planes, pl, "data", k, r,
                 [o.plane EXCEPT !.blocks[page.block].ongoing_user_read_cnt = @ + 1])
      BY <1>7, <1>9
    <2>4. planes' = [planes EXCEPT ![pl] =
                        [o.plane EXCEPT !.blocks[page.block].ongoing_user_read_cnt = @ + 1]]
      BY <2>3 DEF Placed
    <2>5. IsPlaced(planes', k, r, new, NoValue)
      <3>1. slots' = Remapped(slots, k, new, r)
        BY <1>3, <2>1, <2>3 DEF Placed, Remapped
      <3>2. metadata' = Restored(metadata, k, NoValue, new)
        <4>1. metadata' = Restored(metadata, k, slots[k].mapping.ppa,
                             PPAOf(pl, NextPage(planes[pl], "data", k.stream_id).block,
                                   NextPage(planes[pl], "data", k.stream_id).page))
          BY <2>3 DEF Placed, Restored
        <4>. QED BY <1>1, <1>3, <2>1, <4>1
      <3>3. UNCHANGED <<locked_lpa, stalled, moves, exit>>
        BY <1>7, <1>9, <2>3 DEF Placed
      <3>. QED BY <3>1, <3>2, <3>3 DEF IsPlaced
    <2>6. NewTaken(ps2, planes, k, NoValue, pl, page, "data")
      <3>1. OldMarked(planes, NoValue, pl, inv)
        BY <1>4, <1>5, <1>6, NothingMarked
      <3>2. NewTaken([inv.planes EXCEPT ![pl] = o.plane], planes, k, NoValue, pl,
                     NextPage(inv.planes[pl], "data", k.stream_id), "data")
        BY <1>2, <1>5, <1>6, <1>7, <1>9, <3>1, NewPageTaken
      <3>. QED BY <1>3, <1>6, <2>2, <3>2
    <2>7. Begun(planes, inflight)
      BY NothingBegun
    <2>8. r \in SUBSET Sectors
      BY DEF Sectors
    <2>9. /\ SlotsFilled(slots') /\ Linked(ps2, slots', metadata')
          /\ MovesInPlace(ps2, slots', moves)
          /\ locked_lpa = PagesHeld(ps2, slots', moves)
      BY <1>1, <2>1, <2>5, <2>6, <2>7, <2>8, PlacedUser
    <2>10. /\ PlanesSound(ps2) /\ page.block \in Blocks
           /\ \A x \in PlaneId : SameVictims(ps2[x], planes[x])
           /\ \A x \in PlaneId, c \in Blocks, y \in {"READ", "WRITE"} :
                 Count(ps2[x].blocks[c], y) = Count(planes[x].blocks[c], y)
                   + (IF y = "WRITE" /\ x = pl /\ c = page.block THEN 1 ELSE 0)
      BY <2>6 DEF NewTaken, Relocates
    <2>11. PICK q : q = [o.plane EXCEPT !.blocks[page.block].ongoing_user_read_cnt = @ + 1]
      OBVIOUS
    <2>12. /\ ps2[pl] = o.plane /\ \A x \in PlaneId \ {pl} : ps2[x] = planes[x]
           /\ planes' = [ps2 EXCEPT ![pl] = q]
      BY <1>5, <1>6, <2>2, <2>4, <2>11 DEF PlanesSound
    <2>13. /\ SoundPlane(q) /\ CountedPlane(q) /\ SamePages(q, ps2[pl]) /\ SameVictims(q, ps2[pl])
           /\ \A c \in Blocks :
                 /\ Count(q.blocks[c], "WRITE") = Count(ps2[pl].blocks[c], "WRITE")
                 /\ Count(q.blocks[c], "READ") = Count(ps2[pl].blocks[c], "READ")
                      + (IF c = page.block THEN 1 ELSE 0)
      <3>1. SoundPlane(o.plane) /\ CountedPlane(o.plane)
        BY <1>5, <2>10, <2>12 DEF PlanesSound
      <3>. QED BY <2>10, <2>11, <2>12, <3>1, ReadCounted
    <2>14. /\ PlanesSound(planes') /\ planes'[pl] = q
           /\ \A x \in PlaneId \ {pl} : planes'[x] = ps2[x]
      <3>1. /\ PlanesSound([ps2 EXCEPT ![pl] = q])
            /\ [ps2 EXCEPT ![pl] = q][pl] = q
            /\ \A x \in PlaneId \ {pl} : [ps2 EXCEPT ![pl] = q][x] = ps2[x]
        BY <1>5, <2>10, <2>13, PlaneChanged
      <3>. QED BY <2>12, <3>1
    <2>15. \A x \in PlaneId : SamePages(planes'[x], ps2[x]) /\ SameVictims(planes'[x], ps2[x])
      BY <2>13, <2>14 DEF SamePages, SameVictims
    <2>16. /\ Linked(planes', slots', metadata') /\ MovesInPlace(planes', slots', moves)
           /\ locked_lpa = PagesHeld(planes', slots', moves)
      BY <2>9, <2>15, LinkedQuiet, HeldQuiet
    <2>17. ASSUME NEW x \in PlaneId, NEW c \in Blocks, NEW y \in {"READ", "WRITE"}
           PROVE  Count(planes'[x].blocks[c], y) >= Count(planes[x].blocks[c], y)
                    + (IF y = "READ" /\ x = pl /\ c = page.block THEN 1 ELSE 0)
      <3>1. Count(planes[x].blocks[c], y) \in Nat /\ Count(ps2[x].blocks[c], y) \in Nat
        BY <1>6, <2>10, CountedSlots DEF PlanesSound
      <3>2. Count(ps2[x].blocks[c], y) >= Count(planes[x].blocks[c], y)
        BY <2>10, <3>1
      <3>3. Count(planes'[x].blocks[c], y) = Count(ps2[x].blocks[c], y)
              + (IF y = "READ" /\ x = pl /\ c = page.block THEN 1 ELSE 0)
        <4>1. CASE x = pl
          BY <2>13, <2>14, <3>1, <4>1
        <4>2. CASE x # pl
          BY <2>14, <3>1, <4>2
        <4>. QED BY <4>1, <4>2
      <3>. QED BY <3>1, <3>2, <3>3
    <2>18. \A x \in PlaneId : SameVictims(planes'[x], planes[x])
      BY <2>10, <2>15 DEF SameVictims
    <2>19. Cardinality(InFlightOf("READ")) < MaxReads
      BY DEF ReadUnmapped, RoomToRead
    <2>20. InFlightCounted(planes', inflight \cup {Started("READ", pl, page.block)})
      BY <1>5, <2>7, <2>10, <2>14, <2>17, <2>18, <2>19, StartedOnTaken
    <2>21. /\ inflight' = inflight \cup {Started("READ", pl, page.block)}
           /\ UNCHANGED <<locked_lpa, stalled, moves, exit>>
      BY <1>7, <1>9, <2>5 DEF IsPlaced
    <2>22. TakesPage(k)
      <3>1. SamePointers(q, ps2[pl])
        <4>1. SoundPlane(o.plane) /\ CountedPlane(o.plane)
          BY <1>5, <2>10, <2>12 DEF PlanesSound
        <4>. QED BY <2>10, <2>11, <2>12, <4>1, ReadCounted DEF SamePointers
      <3>2. /\ \A x \in PlaneId : SamePointers(planes[x], planes[x])
            /\ \A x \in PlaneId : SamePointers(planes'[x], ps2[x])
        BY <2>14, <3>1 DEF SamePointers
      <3>3. slots' = Remapped(slots, k, new, r)
        BY <2>5 DEF IsPlaced
      <3>. QED BY <1>1, <1>5, <2>1, <2>6, <2>8, <3>2, <3>3, PageTaken
    <2>. QED BY <2>9, <2>14, <2>16, <2>20, <2>21, <2>22 DEF IInv
  <1>. QED BY <1>8, <1>9

LEMMA FirstWriteKeepsIInv ==
    ASSUME IInv, NEW k \in LogicalPages, FirstWrite(k)
    PROVE  IInv' /\ PlacesStay
  BY EndsKeepsIInv DEF FirstWrite, ExitKnown

LEMMA FinishedKeepsIInv ==
    ASSUME IInv, NEW t \in inflight, Finished(t)
    PROVE  IInv' /\ PlacesStay
  <1>1. /\ PlanesSound(planes) /\ Linked(planes, slots, metadata)
        /\ MovesInPlace(planes, slots, moves) /\ InFlightCounted(planes, inflight)
        /\ locked_lpa = PagesHeld(planes, slots, moves)
    BY DEF IInv
  <1>2. t.type \in {"READ", "WRITE"} /\ t.plane \in PlaneId /\ t.block \in Blocks
    BY <1>1 DEF InFlightCounted, Transaction
  <1>3. PICK p : p = planes[t.plane]
    OBVIOUS
  <1>4. SoundPlane(p) /\ CountedPlane(p) /\ planes \in [PlaneId -> PlaneRecord]
    BY <1>1, <1>2, <1>3 DEF PlanesSound
  <1>5. PICK slot : slot = p.blocks[t.block]
    OBVIOUS
  <1>6. /\ slot \in BlockSlot /\ p \in PlaneRecord
        /\ slot.has_ongoing_gc =>
              /\ ~ IsOpen(p, t.block) /\ ~ Pooled(p.free_block_pool, t.block)
              /\ slot.ongoing_user_program_cnt = 0
    BY <1>2, <1>4, <1>5 DEF SoundPlane, PlaneRecord, VictimsKept
  <1>7. Count(slot, t.type) >= 1 /\ Count(slot, t.type) \in Nat
    <2>1. t \in On(inflight, t.type, t.plane, t.block)
      BY DEF On
    <2>2. /\ IsFiniteSet(On(inflight, t.type, t.plane, t.block))
          /\ Cardinality(On(inflight, t.type, t.plane, t.block)) \in Nat
      BY <1>1, OnFinite DEF InFlightCounted
    <2>3. Cardinality(On(inflight, t.type, t.plane, t.block)) # 0
      BY <2>1, <2>2, FS_EmptySet
    <2>4. Count(slot, t.type) >= Cardinality(On(inflight, t.type, t.plane, t.block))
      BY <1>1, <1>2, <1>3, <1>5 DEF InFlightCounted
    <2>5. Count(slot, t.type) \in Nat
      BY <1>2, <1>4, <1>5, CountedSlots
    <2>. QED BY <2>2, <2>3, <2>4, <2>5
  <1>8. PICK new : new = [slot EXCEPT ![Counter(t.type)] = @ - 1]
    OBVIOUS
  <1>9. /\ new \in BlockSlot
        /\ new.current_write_page_index = slot.current_write_page_index
        /\ new.invalid_page_count = slot.invalid_page_count
        /\ new.invalid_page_bitmap = slot.invalid_page_bitmap
        /\ new.stream_id = slot.stream_id
        /\ new.has_ongoing_gc = slot.has_ongoing_gc
        /\ new.erase_count = slot.erase_count
        /\ Count(new, "READ") = Count(slot, "READ") - (IF t.type = "READ" THEN 1 ELSE 0)
        /\ Count(new, "WRITE") = Count(slot, "WRITE") - (IF t.type = "WRITE" THEN 1 ELSE 0)
    <2>1. CASE t.type = "READ"
      <3>1. new = [slot EXCEPT !.ongoing_user_read_cnt = @ - 1]
        BY <1>8, <2>1 DEF Counter
      <3>2. slot.ongoing_user_read_cnt \in Nat /\ slot.ongoing_user_read_cnt >= 1
        BY <1>7, <2>1 DEF Count
      <3>3. slot.ongoing_user_program_cnt \in Nat
        BY <1>6 DEF BlockSlot
      <3>. QED BY <1>6, <2>1, <3>1, <3>2, <3>3 DEF BlockSlot, Count
    <2>2. CASE t.type = "WRITE"
      <3>1. new = [slot EXCEPT !.ongoing_user_program_cnt = @ - 1]
        BY <1>8, <2>2 DEF Counter
      <3>2. slot.ongoing_user_program_cnt \in Nat /\ slot.ongoing_user_program_cnt >= 1
        BY <1>7, <2>2 DEF Count
      <3>3. slot.ongoing_user_read_cnt \in Nat
        BY <1>6 DEF BlockSlot
      <3>. QED BY <1>6, <2>2, <3>1, <3>2, <3>3 DEF BlockSlot, Count
    <2>. QED BY <1>2, <2>1, <2>2
  <1>10. slot.has_ongoing_gc => new.ongoing_user_program_cnt = 0
    <2>1. CASE t.type = "READ"
      BY <1>6, <1>9, <2>1 DEF Count, BlockSlot
    <2>2. CASE t.type = "WRITE"
      BY <1>6, <1>7, <2>2 DEF Count
    <2>. QED BY <1>2, <2>1, <2>2
  <1>11. PICK q : q = [p EXCEPT !.blocks[t.block] = new]
    OBVIOUS
  <1>12. /\ SoundPlane(q) /\ CountedPlane(q) /\ SamePages(q, p)
         /\ q.blocks[t.block] = new
         /\ \A c \in Blocks \ {t.block} : q.blocks[c] = p.blocks[c]
    BY <1>2, <1>4, <1>5, <1>6, <1>9, <1>10, <1>11, QuietSlot
  <1>13. planes' = [planes EXCEPT ![t.plane] = q]
    <2>1. planes' = [planes EXCEPT ![t.plane].blocks[t.block][Counter(t.type)] = @ - 1]
      BY DEF Finished
    <2>. QED BY <1>2, <1>3, <1>4, <1>5, <1>6, <1>8, <1>11, <2>1 DEF PlaneRecord
  <1>14. /\ PlanesSound(planes') /\ planes'[t.plane] = q
         /\ \A x \in PlaneId \ {t.plane} : planes'[x] = planes[x]
    <2>1. /\ PlanesSound([planes EXCEPT ![t.plane] = q])
          /\ [planes EXCEPT ![t.plane] = q][t.plane] = q
          /\ \A x \in PlaneId \ {t.plane} : [planes EXCEPT ![t.plane] = q][x] = planes[x]
      BY <1>1, <1>2, <1>12, PlaneChanged
    <2>. QED BY <1>13, <2>1
  <1>15. SameVictims(q, p)
    BY <1>5, <1>9, <1>12 DEF SameVictims
  <1>16. \A x \in PlaneId : SamePages(planes'[x], planes[x]) /\ SameVictims(planes'[x], planes[x])
    BY <1>3, <1>12, <1>14, <1>15 DEF SamePages, SameVictims
  <1>17. /\ Linked(planes', slots, metadata) /\ MovesInPlace(planes', slots, moves)
         /\ locked_lpa = PagesHeld(planes', slots, moves)
    BY <1>1, <1>16, LinkedQuiet, HeldQuiet
  <1>18. ASSUME NEW pl \in PlaneId, NEW b \in Blocks
         PROVE  /\ planes'[pl].blocks[b].erase_count = planes[pl].blocks[b].erase_count
                /\ \A type \in {"READ", "WRITE"} :
                      Count(planes'[pl].blocks[b], type) = Count(planes[pl].blocks[b], type)
                        - (IF t.type = type /\ t.plane = pl /\ t.block = b THEN 1 ELSE 0)
    <2>1. planes'[pl].blocks[b].erase_count = planes[pl].blocks[b].erase_count
      BY <1>16 DEF SameVictims
    <2>2. /\ Count(planes[pl].blocks[b], "READ") \in Nat
          /\ Count(planes[pl].blocks[b], "WRITE") \in Nat
      BY <1>1, CountedSlots DEF PlanesSound
    <2>3. CASE pl = t.plane /\ b = t.block
      BY <1>2, <1>3, <1>5, <1>9, <1>12, <1>14, <2>1, <2>2, <2>3
    <2>4. CASE ~ (pl = t.plane /\ b = t.block)
      <3>1. planes'[pl].blocks[b] = planes[pl].blocks[b]
        BY <1>3, <1>12, <1>14, <2>4
      <3>. QED BY <2>1, <2>2, <2>4, <3>1
    <2>. QED BY <2>3, <2>4
  <1>19. InFlightCounted(planes', inflight \ {t})
    BY <1>1, <1>14, <1>18, InFlightFinished
  <1>20. \A x \in PlaneId : SamePointers(planes'[x], planes[x])
    BY <1>3, <1>5, <1>9, <1>12, <1>14 DEF SamePointers
  <1>. QED BY <1>14, <1>17, <1>19, <1>20 DEF Finished, IInv, PlacesStay

-----------------------------------------------------------------------------
(* The collector                                                              *)

\* The pages of a block that are the place of a logical page.
PagesIn(ps, pl, b) ==
    {k \in LogicalPages : HasPlace(slots, k) /\
        LET a == ConvertPPAtoAddress(slots[k].mapping.ppa)
        IN  PlaneOf(a) = pl /\ a.block_id = b}

BarrierRight(pl, b) ==
    \A page \in ValidPagesOf(planes[pl], b) : BarrierCheck(pl, b, page) = "none"

LEMMA BarrierExits ==
    ASSUME NEW pl, NEW b, NEW page
    PROVE  BarrierCheck(pl, b, page) \in MappingExits \cup {"none"}
  BY DEF BarrierCheck, MappingExits

\* Where the check is passed, what is barred is what the block holds.
LEMMA BarredPages ==
    ASSUME IInv, NEW pl \in PlaneId, NEW b \in Blocks, BarrierRight(pl, b)
    PROVE  {PageIn(pl, b, page) : page \in ValidPagesOf(planes[pl], b)} = PagesIn(planes, pl, b)
  <1>1. Linked(planes, slots, metadata) /\ SlotsFilled(slots)
    BY DEF IInv
  <1>2. ASSUME NEW page \in ValidPagesOf(planes[pl], b)
        PROVE  /\ PageIn(pl, b, page) \in LogicalPages /\ HasPlace(slots, PageIn(pl, b, page))
               /\ slots[PageIn(pl, b, page)].mapping.ppa = PPAOf(pl, b, page)
               /\ PageIn(pl, b, page) \in PagesIn(planes, pl, b)
    <2>1. PICK k : k = PageIn(pl, b, page)
      OBVIOUS
    <2>2. Mapping_entry_accessible(k) /\ slots[k].mapping.ppa = PPAOf(pl, b, page)
      BY <1>2, <2>1 DEF BarrierRight, BarrierCheck
    <2>3. page \in Pages
      BY <1>2 DEF ValidPagesOf
    <2>4. /\ PPAOf(pl, b, page) \in PPA
          /\ PlaneOf(ConvertPPAtoAddress(PPAOf(pl, b, page))) = pl
          /\ ConvertPPAtoAddress(PPAOf(pl, b, page)).block_id = b
      BY <2>3, PPAOfPlace
    <2>5. k \in LogicalPages /\ slots[k].status = "VALID"
      BY <2>2, FoundMapped DEF Mapping_entry_accessible
    <2>6. HasPlace(slots, k)
      BY <2>2, <2>4, <2>5, MappingAssumption DEF HasPlace
    <2>7. k \in PagesIn(planes, pl, b)
      BY <2>2, <2>4, <2>5, <2>6 DEF PagesIn
    <2>. QED BY <2>1, <2>2, <2>5, <2>6, <2>7
  <1>3. ASSUME NEW k \in PagesIn(planes, pl, b)
        PROVE  \E page \in ValidPagesOf(planes[pl], b) : k = PageIn(pl, b, page)
    <2>1. k \in LogicalPages /\ HasPlace(slots, k)
      BY DEF PagesIn
    <2>2. PICK a : a = ConvertPPAtoAddress(slots[k].mapping.ppa)
      OBVIOUS
    <2>3. PlaneOf(a) = pl /\ a.block_id = b
      BY <2>2 DEF PagesIn
    <2>4. /\ slots[k].mapping.ppa \in PPA /\ metadata[slots[k].mapping.ppa] = k
          /\ a.page_id \in ValidPagesOf(planes[PlaneOf(a)], a.block_id)
      BY <1>1, <2>1, <2>2, MappedPlace
    <2>5. PPAOf(PlaneOf(a), a.block_id, a.page_id) = slots[k].mapping.ppa
      BY <2>2, <2>4, PlaceOfPPA
    <2>6. PICK j : j = PageIn(pl, b, a.page_id)
      OBVIOUS
    <2>7. /\ j \in LogicalPages /\ HasPlace(slots, j)
          /\ slots[j].mapping.ppa = slots[k].mapping.ppa
      BY <1>2, <2>3, <2>4, <2>5, <2>6
    <2>8. j = k
      BY <1>1, <2>4, <2>7, MappedPlace
    <2>. QED BY <2>3, <2>4, <2>6, <2>8
  <1>. QED BY <1>2, <1>3

\* With a driver that reads what is stored with the pages, the check is passed on every
\* block that is no victim and that no move is programming.
LEMMA BarrierPassed ==
    ASSUME IInv, NEW pl \in PlaneId, NEW b \in Blocks, DriverReadsLpa,
           ~ planes[pl].blocks[b].has_ongoing_gc,
           \A m \in moves : ~ (m.plane = pl /\ m.block = b)
    PROVE  BarrierRight(pl, b)
  <1>1. /\ Linked(planes, slots, metadata) /\ MovesInPlace(planes, slots, moves)
        /\ locked_lpa = PagesHeld(planes, slots, moves) /\ SlotsFilled(slots)
    BY DEF IInv
  <1>2. SUFFICES ASSUME NEW page \in ValidPagesOf(planes[pl], b)
                 PROVE  BarrierCheck(pl, b, page) = "none"
    BY DEF BarrierRight
  <1>3. page \in Pages
    BY DEF ValidPagesOf
  <1>4. PICK ppa : ppa = PPAOf(pl, b, page)
    OBVIOUS
  <1>5. PICK a : a = ConvertPPAtoAddress(ppa)
    OBVIOUS
  <1>6. ppa \in PPA /\ PlaneOf(a) = pl /\ a.block_id = b /\ a.page_id = page
    BY <1>3, <1>4, <1>5, PPAOfPlace
  <1>7. ValidAt(planes, ppa)
    BY <1>2, <1>5, <1>6 DEF ValidAt
  <1>8. PICK k \in LogicalPages : HasPlace(slots, k) /\ slots[k].mapping.ppa = ppa
    BY <1>1, <1>6, <1>7 DEF Linked
  <1>9. metadata[ppa] = k /\ planes[pl].blocks[b].stream_id = k.stream_id
    BY <1>1, <1>5, <1>6, <1>8, MappedPlace
  <1>10. PageIn(pl, b, page) = k
    <2>1. PageIn(pl, b, page) = [stream_id |-> k.stream_id, lpa |-> k.lpa]
      BY <1>4, <1>9 DEF PageIn, GetLPA
    <2>2. k = [stream_id |-> k.stream_id, lpa |-> k.lpa]
      BY DEF LogicalPages
    <2>. QED BY <2>1, <2>2
  <1>11. Mapping_entry_accessible(k)
    BY <1>8 DEF HasPlace, Mapping_entry_accessible, Cmt!Exists
  <1>12. k \notin locked_lpa
    <2>1. ASSUME NEW m \in moves, m.page = k PROVE FALSE
      BY <1>1, <1>5, <1>6, <1>8, <2>1 DEF MovesInPlace
    <2>2. ~ SlotAt(planes, slots[k].mapping.ppa).has_ongoing_gc
      BY <1>5, <1>6, <1>8 DEF SlotAt
    <2>. QED BY <1>1, <2>1, <2>2 DEF PagesHeld
  <1>. QED BY <1>4, <1>8, <1>10, <1>11, <1>12 DEF BarrierCheck

LEMMA GcStartKeepsIInv ==
    ASSUME IInv, NEW pl \in PlaneId, NEW b \in Blocks, GcStart(pl, b)
    PROVE  IInv' /\ PlacesStay
  <1>1. /\ PlanesSound(planes) /\ Linked(planes, slots, metadata) /\ SlotsFilled(slots)
        /\ MovesInPlace(planes, slots, moves) /\ InFlightCounted(planes, inflight)
        /\ locked_lpa = PagesHeld(planes, slots, moves)
    BY DEF IInv
  <1>2. /\ planes[pl].blocks[b].current_write_page_index > 0
        /\ IsSafeGcCandidate(planes[pl], b)
        /\ \A m \in moves : ~ (m.plane = pl /\ m.block = b)
    BY DEF GcStart
  <1>3. CASE ~ BarrierRight(pl, b)
    <2>1. PICK why : /\ Ends(why) /\ why \in MappingExits \cup {"none"}
      <3>1. {page \in ValidPagesOf(planes[pl], b) : BarrierCheck(pl, b, page) # "none"} # {}
        BY <1>3 DEF BarrierRight
      <3>. QED BY <3>1, BarrierExits DEF GcStart
    <2>2. ~ DriverReadsLpa
      BY <1>2, <1>3, BarrierPassed DEF IsSafeGcCandidate
    <2>3. ExitKnown(why)
      BY <2>1, <2>2 DEF ExitKnown, Explored, Exits
    <2>. QED BY <2>1, <2>3, EndsKeepsIInv
  <1>4. CASE BarrierRight(pl, b)
    <2>1. /\ locked_lpa' = locked_lpa \cup
                {PageIn(pl, b, page) : page \in ValidPagesOf(planes[pl], b)}
          /\ planes' = [planes EXCEPT ![pl].blocks[b].has_ongoing_gc = TRUE]
          /\ UNCHANGED <<slots, metadata, stalled, inflight, moves, exit>>
      <3>1. {page \in ValidPagesOf(planes[pl], b) : BarrierCheck(pl, b, page) # "none"} = {}
        BY <1>4 DEF BarrierRight
      <3>. QED BY <3>1 DEF GcStart
    <2>2. locked_lpa' = locked_lpa \cup PagesIn(planes, pl, b)
      BY <1>4, <2>1, BarredPages
    <2>3. PICK p : p = planes[pl]
      OBVIOUS
    <2>4. PICK slot : slot = p.blocks[b]
      OBVIOUS
    <2>5. PICK new : new = [slot EXCEPT !.has_ongoing_gc = TRUE]
      OBVIOUS
    <2>6. PICK q : q = [p EXCEPT !.blocks[b] = new]
      OBVIOUS
    <2>7. /\ SoundPlane(p) /\ CountedPlane(p) /\ p \in PlaneRecord /\ slot \in BlockSlot
          /\ planes \in [PlaneId -> PlaneRecord]
      BY <1>1, <2>3, <2>4 DEF PlanesSound, SoundPlane, PlaneRecord
    <2>8. /\ new \in BlockSlot /\ new.has_ongoing_gc
          /\ new.current_write_page_index = slot.current_write_page_index
          /\ new.invalid_page_count = slot.invalid_page_count
          /\ new.invalid_page_bitmap = slot.invalid_page_bitmap
          /\ new.stream_id = slot.stream_id
          /\ new.erase_count = slot.erase_count
          /\ new.ongoing_user_read_cnt = slot.ongoing_user_read_cnt
          /\ new.ongoing_user_program_cnt = slot.ongoing_user_program_cnt
      BY <2>5, <2>7 DEF BlockSlot
    <2>9. /\ ~ IsOpen(p, b) /\ ~ Pooled(p.free_block_pool, b)
          /\ new.ongoing_user_program_cnt = 0
      <3>1. slot.ongoing_user_program_cnt \in Nat
        BY <2>7 DEF BlockSlot
      <3>2. ~ IsOpen(p, b) /\ ~ (slot.ongoing_user_program_cnt > 0)
        BY <1>2, <2>3, <2>4 DEF IsSafeGcCandidate
      <3>3. ~ Pooled(p.free_block_pool, b)
        BY <1>2, <2>3, <2>7 DEF SoundPlane, PointersAgree
      <3>. QED BY <2>8, <3>1, <3>2, <3>3
    <2>10. /\ SoundPlane(q) /\ CountedPlane(q) /\ SamePages(q, p)
           /\ q.blocks[b] = new /\ \A c \in Blocks \ {b} : q.blocks[c] = p.blocks[c]
      BY <2>4, <2>6, <2>7, <2>8, <2>9, QuietSlot
    <2>11. planes' = [planes EXCEPT ![pl] = q]
      BY <2>1, <2>3, <2>4, <2>5, <2>6, <2>7 DEF PlaneRecord
    <2>12. /\ PlanesSound(planes') /\ planes'[pl] = q
           /\ \A x \in PlaneId \ {pl} : planes'[x] = planes[x]
      <3>1. /\ PlanesSound([planes EXCEPT ![pl] = q])
            /\ [planes EXCEPT ![pl] = q][pl] = q
            /\ \A x \in PlaneId \ {pl} : [planes EXCEPT ![pl] = q][x] = planes[x]
        BY <1>1, <2>10, PlaneChanged
      <3>. QED BY <2>11, <3>1
    <2>13. Linked(planes', slots, metadata)
      <3>1. \A x \in PlaneId : SamePages(planes'[x], planes[x])
        BY <2>3, <2>10, <2>12 DEF SamePages
      <3>. QED BY <1>1, <3>1, LinkedQuiet
    <2>14. ASSUME NEW ppa \in PPA, NEW a, a = ConvertPPAtoAddress(ppa)
           PROVE  /\ SlotAt(planes', ppa).erase_count = SlotAt(planes, ppa).erase_count
                  /\ SlotAt(planes', ppa).has_ongoing_gc <=>
                        SlotAt(planes, ppa).has_ongoing_gc \/ (PlaneOf(a) = pl /\ a.block_id = b)
      <3>1. PlaneOf(a) \in PlaneId /\ a.block_id \in Blocks
        BY <2>14, PlaceOfPPA
      <3>2. CASE PlaneOf(a) = pl /\ a.block_id = b
        BY <2>3, <2>4, <2>8, <2>10, <2>12, <2>14, <3>2 DEF SlotAt
      <3>3. CASE ~ (PlaneOf(a) = pl /\ a.block_id = b)
        <4>1. planes'[PlaneOf(a)].blocks[a.block_id] = planes[PlaneOf(a)].blocks[a.block_id]
          BY <2>3, <2>10, <2>12, <3>1, <3>3
        <4>2. SlotAt(planes', ppa) = SlotAt(planes, ppa)
          BY <2>14, <4>1 DEF SlotAt
        <4>. QED BY <3>3, <4>2
      <3>. QED BY <3>2, <3>3
    <2>15. \A k \in LogicalPages : HasPlace(slots, k) => slots[k].mapping.ppa \in PPA
      BY <1>1 DEF Linked
    <2>16. MovesInPlace(planes', slots, moves)
      <3>1. \A m \in moves : m.page \in LogicalPages
        BY <1>1 DEF MovesInPlace, Move
      <3>2. ASSUME NEW m \in moves
            PROVE  LET ppa == slots[m.page].mapping.ppa
                   IN  /\ HasPlace(slots, m.page)
                       /\ PlaneOf(ConvertPPAtoAddress(ppa)) = m.plane
                       /\ ConvertPPAtoAddress(ppa).block_id = m.block
                       /\ ~ SlotAt(planes', ppa).has_ongoing_gc
                       /\ SlotAt(planes', ppa).erase_count = m.erase_count
        <4>1. PICK ppa : ppa = slots[m.page].mapping.ppa
          OBVIOUS
        <4>2. /\ HasPlace(slots, m.page)
              /\ PlaneOf(ConvertPPAtoAddress(ppa)) = m.plane
              /\ ConvertPPAtoAddress(ppa).block_id = m.block
              /\ ~ SlotAt(planes, ppa).has_ongoing_gc
              /\ SlotAt(planes, ppa).erase_count = m.erase_count
          BY <1>1, <4>1 DEF MovesInPlace
        <4>3. ppa \in PPA
          BY <2>15, <3>1, <4>1, <4>2
        <4>4. /\ ~ SlotAt(planes', ppa).has_ongoing_gc
              /\ SlotAt(planes', ppa).erase_count = m.erase_count
          BY <1>2, <2>14, <4>2, <4>3
        <4>. QED BY <4>1, <4>2, <4>4
      <3>. QED BY <1>1, <3>2 DEF MovesInPlace
    <2>17. locked_lpa' = PagesHeld(planes', slots, moves)
      <3>1. \A k \in LogicalPages :
               HasPlace(slots, k) /\ SlotAt(planes', slots[k].mapping.ppa).has_ongoing_gc
                 <=> \/ HasPlace(slots, k) /\ SlotAt(planes, slots[k].mapping.ppa).has_ongoing_gc
                     \/ k \in PagesIn(planes, pl, b)
        <4>1. ASSUME NEW k \in LogicalPages, HasPlace(slots, k)
              PROVE  SlotAt(planes', slots[k].mapping.ppa).has_ongoing_gc
                       <=> \/ SlotAt(planes, slots[k].mapping.ppa).has_ongoing_gc
                           \/ k \in PagesIn(planes, pl, b)
          <5>1. PICK a : a = ConvertPPAtoAddress(slots[k].mapping.ppa)
            OBVIOUS
          <5>2. k \in PagesIn(planes, pl, b) <=> PlaneOf(a) = pl /\ a.block_id = b
            BY <4>1, <5>1 DEF PagesIn
          <5>. QED BY <2>14, <2>15, <4>1, <5>1, <5>2
        <4>2. \A k \in PagesIn(planes, pl, b) : HasPlace(slots, k)
          BY DEF PagesIn
        <4>. QED BY <4>1, <4>2
      <3>2. PagesIn(planes, pl, b) \subseteq LogicalPages
        BY DEF PagesIn
      <3>. QED BY <1>1, <2>2, <3>1, <3>2 DEF PagesHeld
    <2>18. InFlightCounted(planes', inflight)
      <3>1. ASSUME NEW x \in PlaneId, NEW c \in Blocks
            PROVE  /\ planes'[x].blocks[c].erase_count = planes[x].blocks[c].erase_count
                   /\ \A type \in {"READ", "WRITE"} :
                         Count(planes'[x].blocks[c], type) >= Count(planes[x].blocks[c], type)
        <4>1. /\ Count(planes[x].blocks[c], "READ") \in Nat
              /\ Count(planes[x].blocks[c], "WRITE") \in Nat
          BY <1>1, CountedSlots DEF PlanesSound
        <4>2. CASE x = pl /\ c = b
          BY <2>3, <2>4, <2>8, <2>10, <2>12, <4>1, <4>2 DEF Count
        <4>3. CASE ~ (x = pl /\ c = b)
          <5>1. planes'[x].blocks[c] = planes[x].blocks[c]
            BY <2>3, <2>10, <2>12, <4>3
          <5>. QED BY <4>1, <5>1
        <4>. QED BY <4>2, <4>3
      <3>. QED BY <1>1, <2>12, <3>1, InFlightQuiet
    <2>19. \A x \in PlaneId : SamePointers(planes'[x], planes[x])
      BY <2>3, <2>4, <2>8, <2>10, <2>12 DEF SamePointers
    <2>. QED BY <2>1, <2>12, <2>13, <2>16, <2>17, <2>18, <2>19 DEF IInv, PlacesStay
  <1>. QED BY <1>3, <1>4

\* A barred page that is not being moved is still in its victim.
LEMMA BarredInVictim ==
    ASSUME IInv, NEW k \in locked_lpa, \A m \in moves : m.page # k
    PROVE  /\ k \in LogicalPages /\ HasPlace(slots, k)
           /\ SlotAt(planes, slots[k].mapping.ppa).has_ongoing_gc
  BY DEF IInv, PagesHeld

\* How the move of page k goes on when its old page is marked and the allocation gave o.
MoveGoesOn(o, k, inv, pl, page, old) ==
    IF o.exit # "none" THEN Ends(o.exit)
    ELSE /\ Placed(inv.planes, pl, "gc", k, slots[k].mapping.bitmap, o.plane)
         /\ moves' = moves \cup
              {[page |-> k, plane |-> pl, block |-> page.block, victim |-> old.block_id,
                erase_count |-> planes[pl].blocks[page.block].erase_count]}
         /\ UNCHANGED <<locked_lpa, stalled, inflight>>

LEMMA GcMoveOutcome ==
    ASSUME NEW k, GcMove(k), HasPlace(slots, k), k \in LogicalPages,
           NEW old, old = ConvertPPAtoAddress(slots[k].mapping.ppa),
           NEW pl, pl = PlaneOf(old),
           NEW inv, inv = Invalidated(planes, k, slots[k].mapping.ppa), inv.exit = "none",
           NEW page, page = NextPage(inv.planes[pl], "gc", k.stream_id)
    PROVE  \E o \in AllocateBlockAndPage(inv.planes[pl], "gc", k.stream_id) :
              MoveGoesOn(o, k, inv, pl, page, old)
  <1>1. Mapping_entry_accessible(k) /\ ~ NeverMapped(k)
    BY DEF HasPlace, Mapping_entry_accessible, NeverMapped, Cmt!Exists
  <1>2. old = AddressOf(k)
    BY DEF AddressOf
  <1>. QED BY <1>1, <1>2 DEF GcMove, MoveGoesOn

\* A move more.
LEMMA MoveStarted ==
    ASSUME NEW ps, NEW ss, NEW mv, MovesInPlace(ps, ss, mv), NEW m \in Move,
           \A x \in mv : x.page # m.page, HasPlace(ss, m.page),
           NEW ppa, ppa = ss[m.page].mapping.ppa,
           PlaneOf(ConvertPPAtoAddress(ppa)) = m.plane,
           ConvertPPAtoAddress(ppa).block_id = m.block,
           ~ SlotAt(ps, ppa).has_ongoing_gc, SlotAt(ps, ppa).erase_count = m.erase_count
    PROVE  /\ MovesInPlace(ps, ss, mv \cup {m})
           /\ PagesHeld(ps, ss, mv \cup {m}) = PagesHeld(ps, ss, mv) \cup {m.page}
  BY DEF MovesInPlace, PagesHeld

LEMMA GcMoveKeepsIInv ==
    ASSUME IInv, NEW k \in LogicalPages, GcMove(k)
    PROVE  IInv' /\ (TakesPage(k) \/ PlacesStay)
  <1>1. k \in locked_lpa /\ \A m \in moves : m.page # k
    BY DEF GcMove
  <1>2. HasPlace(slots, k) /\ slots[k].status = "VALID" /\ slots[k].mapping \in Mappings
    <2>1. HasPlace(slots, k)
      BY <1>1, BarredInVictim
    <2>. QED BY <2>1 DEF HasPlace, IInv, SlotsFilled
  <1>3. PICK old : old = ConvertPPAtoAddress(slots[k].mapping.ppa)
    OBVIOUS
  <1>4. PICK pl : pl = PlaneOf(old)
    OBVIOUS
  <1>5. PICK inv : inv = Invalidated(planes, k, slots[k].mapping.ppa)
    OBVIOUS
  <1>6. PICK page : page = NextPage(inv.planes[pl], "gc", k.stream_id)
    OBVIOUS
  <1>7. /\ PlanesSound(planes) /\ Linked(planes, slots, metadata) /\ SlotsFilled(slots)
        /\ MovesInPlace(planes, slots, moves) /\ InFlightCounted(planes, inflight)
        /\ locked_lpa = PagesHeld(planes, slots, moves)
    BY DEF IInv
  <1>8. /\ pl = AllocatePlane(k.lpa) /\ pl \in PlaneId /\ old.block_id \in Blocks
        /\ k.stream_id \in Streams /\ "gc" \in Roles
    BY <1>2, <1>3, <1>4, <1>7, MappedPlace, PageParts DEF Roles
  <1>9. OldMarked(planes, slots[k].mapping.ppa, pl, inv)
    BY <1>2, <1>5, <1>7, <1>8, OldPageMarked
  <1>10. inv.exit = "none" /\ SoundPlane(inv.planes[pl]) /\ CountedPlane(inv.planes[pl])
    BY <1>9 DEF OldMarked
  <1>11. PICK o \in AllocateBlockAndPage(inv.planes[pl], "gc", k.stream_id) :
            MoveGoesOn(o, k, inv, pl, page, old)
    BY <1>2, <1>3, <1>4, <1>5, <1>6, <1>10, GcMoveOutcome
  <1>12. CASE o.exit # "none"
    <2>1. ExitKnown(o.exit)
      BY <1>8, <1>10, AllocationKnown
    <2>. QED BY <1>11, <1>12, <2>1, EndsKeepsIInv DEF MoveGoesOn
  <1>13. CASE o.exit = "none"
    <2>1. PICK new : new = PPAOf(pl, page.block, page.page)
      OBVIOUS
    <2>2. PICK m : m = [page |-> k, plane |-> pl, block |-> page.block,
                        victim |-> old.block_id,
                        erase_count |-> planes[pl].blocks[page.block].erase_count]
      OBVIOUS
    <2>3. /\ Placed(inv.planes, pl, "gc", k, slots[k].mapping.bitmap, o.plane)
          /\ moves' = moves \cup {m} /\ UNCHANGED <<locked_lpa, stalled, inflight>>
      BY <1>11, <1>13, <2>2 DEF MoveGoesOn
    <2>4. planes' = [inv.planes EXCEPT ![pl] = o.plane] /\ exit' = exit
      BY <2>3 DEF Placed
    <2>5. slots' = Remapped(slots, k, new, slots[k].mapping.bitmap)
      BY <1>6, <2>1, <2>3 DEF Placed, Remapped
    <2>6. metadata' = Restored(metadata, k, slots[k].mapping.ppa, new)
      <3>1. metadata' = Restored(metadata, k, slots[k].mapping.ppa,
                            PPAOf(pl, NextPage(inv.planes[pl], "gc", k.stream_id).block,
                                  NextPage(inv.planes[pl], "gc", k.stream_id).page))
        BY <2>3 DEF Placed, Restored
      <3>. QED BY <1>6, <2>1, <3>1
    <2>7. NewTaken(planes', planes, k, slots[k].mapping.ppa, pl, page, "gc")
      <3>1. NewTaken([inv.planes EXCEPT ![pl] = o.plane], planes, k, slots[k].mapping.ppa, pl,
                     NextPage(inv.planes[pl], "gc", k.stream_id), "gc")
        BY <1>7, <1>8, <1>9, <1>13, NewPageTaken
      <3>. QED BY <1>6, <2>4, <3>1
    <2>8. /\ PlanesSound(planes') /\ page.block \in Blocks
          /\ Relocates(planes', planes, k, slots[k].mapping.ppa, new)
      BY <2>1, <2>7 DEF NewTaken
    <2>9. slots[k].mapping.bitmap \in SUBSET Sectors
      BY <1>2 DEF Mappings
    <2>10. /\ SlotsFilled(slots') /\ Linked(planes', slots', metadata')
           /\ MovesInPlace(planes', slots', moves)
           /\ PagesHeld(planes', slots', moves) = PagesHeld(planes, slots, moves) \ {k}
           /\ HasPlace(slots', k) /\ slots'[k].mapping.ppa = new
      BY <1>1, <1>2, <1>7, <2>5, <2>6, <2>8, <2>9, PlacedTables
    <2>11. /\ new \in PPA /\ PlaneOf(ConvertPPAtoAddress(new)) = pl
           /\ ~ SlotAt(planes, new).has_ongoing_gc
           /\ \A x \in PlaneId : SameVictims(planes'[x], planes[x])
      BY <1>8, <2>8 DEF Relocates
    <2>12. ConvertPPAtoAddress(new).block_id = page.block
      <3>1. page.page \in Pages
        <4>1. page.page = inv.planes[pl].blocks[page.block].current_write_page_index
          BY <1>6 DEF NextPage
        <4>2. page.block = inv.planes[pl].open_blocks["gc"][k.stream_id]
          BY <1>6 DEF NextPage
        <4>3. inv.planes[pl].blocks[inv.planes[pl].open_blocks["gc"][k.stream_id]]
                .current_write_page_index \in Pages
          BY <1>8, <1>10, OpenBlock
        <4>. QED BY <4>1, <4>2, <4>3
      <3>. QED BY <1>8, <2>1, <2>8, <3>1, PPAOfPlace
    <2>13. /\ ~ SlotAt(planes', new).has_ongoing_gc
           /\ SlotAt(planes', new).erase_count = planes[pl].blocks[page.block].erase_count
      BY <1>8, <2>8, <2>11, <2>12 DEF SlotAt, SameVictims
    <2>14. /\ m \in Move /\ m.page = k /\ m.plane = pl /\ m.block = page.block
           /\ m.erase_count = planes[pl].blocks[page.block].erase_count
      <3>1. planes[pl].blocks[page.block].erase_count \in Nat
        BY <1>7, <1>8, <2>8, CountedSlots DEF PlanesSound, BlockSlot
      <3>. QED BY <1>8, <2>2, <2>8, <3>1 DEF Move
    <2>15. /\ MovesInPlace(planes', slots', moves \cup {m})
           /\ PagesHeld(planes', slots', moves \cup {m})
                = PagesHeld(planes', slots', moves) \cup {k}
      BY <1>1, <2>10, <2>11, <2>12, <2>13, <2>14, MoveStarted
    <2>16. locked_lpa' = PagesHeld(planes', slots', moves')
      BY <1>1, <1>7, <2>3, <2>10, <2>15
    <2>17. InFlightCounted(planes', inflight)
      <3>1. ASSUME NEW x \in PlaneId, NEW c \in Blocks
            PROVE  /\ planes'[x].blocks[c].erase_count = planes[x].blocks[c].erase_count
                   /\ \A type \in {"READ", "WRITE"} :
                         Count(planes'[x].blocks[c], type) >= Count(planes[x].blocks[c], type)
        <4>1. /\ Count(planes[x].blocks[c], "READ") \in Nat
              /\ Count(planes[x].blocks[c], "WRITE") \in Nat
          BY <1>7, CountedSlots DEF PlanesSound
        <4>2. planes'[x].blocks[c].erase_count = planes[x].blocks[c].erase_count
          BY <2>11 DEF SameVictims
        <4>3. /\ Count(planes'[x].blocks[c], "READ") = Count(planes[x].blocks[c], "READ") + 0
              /\ Count(planes'[x].blocks[c], "WRITE") = Count(planes[x].blocks[c], "WRITE") + 0
          BY <2>7 DEF NewTaken
        <4>. QED BY <4>1, <4>2, <4>3
      <3>. QED BY <1>7, <2>8, <3>1, InFlightQuiet
    <2>18. TakesPage(k)
      <3>1. /\ \A x \in PlaneId : SamePointers(planes[x], planes[x])
            /\ \A x \in PlaneId : SamePointers(planes'[x], planes'[x])
        BY DEF SamePointers
      <3>. QED BY <1>2, <1>8, <2>1, <2>5, <2>7, <2>9, <3>1, PageTaken
    <2>. QED BY <2>3, <2>4, <2>8, <2>10, <2>15, <2>16, <2>17, <2>18 DEF IInv
  <1>. QED BY <1>12, <1>13

LEMMA MoveDoneKeepsIInv ==
    ASSUME IInv, NEW m \in moves, MoveDone(m)
    PROVE  IInv' /\ PlacesStay
  <1>1. /\ MovesInPlace(planes, slots, moves) /\ locked_lpa = PagesHeld(planes, slots, moves)
    BY DEF IInv
  <1>2. m.page \in locked_lpa
    BY <1>1 DEF PagesHeld
  <1>3. /\ locked_lpa' = locked_lpa \ {m.page} /\ moves' = moves \ {m}
        /\ UNCHANGED <<planes, slots, metadata, stalled, inflight, exit>>
    BY <1>2 DEF MoveDone, RemoveBarrierForLPA
  <1>4. MovesInPlace(planes, slots, moves \ {m})
    BY <1>1 DEF MovesInPlace
  <1>5. PagesHeld(planes, slots, moves \ {m}) = PagesHeld(planes, slots, moves) \ {m.page}
    <2>1. {x.page : x \in moves \ {m}} = {x.page : x \in moves} \ {m.page}
      <3>1. \A x \in moves \ {m} : x.page # m.page
        BY <1>1 DEF MovesInPlace
      <3>. QED BY <3>1
    <2>2. ~ SlotAt(planes, slots[m.page].mapping.ppa).has_ongoing_gc
      BY <1>1 DEF MovesInPlace
    <2>. QED BY <2>1, <2>2 DEF PagesHeld
  <1>. QED BY <1>1, <1>3, <1>4, <1>5, NothingTaken DEF IInv

\* The written victim is blank, has its bar lifted and is back in the pool.
Returned(q, p, b) ==
    /\ SoundPlane(q) /\ CountedPlane(q)
    /\ ~ q.blocks[b].has_ongoing_gc
    /\ Count(q.blocks[b], "READ") = Count(p.blocks[b], "READ")
    /\ Count(q.blocks[b], "WRITE") = Count(p.blocks[b], "WRITE")
    /\ p.blocks[b].current_write_page_index = PagesPerBlock
    /\ q.blocks[b].current_write_page_index = 0
    /\ \A c \in Blocks \ {b} : q.blocks[c] = p.blocks[c]
    /\ \A c \in Blocks : ValidPagesOf(q, c) = ValidPagesOf(p, c)

\* A block that no logical page is in becomes blank, and no other page moves.
Erases(pl, b) ==
    /\ planes[pl].blocks[b].current_write_page_index = PagesPerBlock
    /\ planes'[pl].blocks[b].current_write_page_index = 0
    /\ ValidPagesOf(planes[pl], b) = {}
    /\ \A x \in PlaneId, c \in Blocks : ~ (x = pl /\ c = b) =>
          planes'[x].blocks[c].current_write_page_index
            = planes[x].blocks[c].current_write_page_index
    /\ slots' = slots

LEMMA EraseEffect ==
    ASSUME NEW p, SoundPlane(p), CountedPlane(p), NEW b \in Blocks,
           p.blocks[b].has_ongoing_gc, ValidPagesOf(p, b) = {},
           NEW o, o = AddErasedBlockToPool(p, b)
    PROVE  /\ ExitKnown(o.exit)
           /\ o.exit = "none" =>
                 Returned([o.plane EXCEPT !.blocks[b].has_ongoing_gc = FALSE], p, b)
  <1>. DEFINE o2 == [AddErasedBlockToPool(p, b) EXCEPT !.plane.blocks[b].has_ongoing_gc = FALSE]
  <1>1. PICK q : q = o2.plane
    OBVIOUS
  <1>2. /\ o2.exit = o.exit
        /\ o2.plane = [o.plane EXCEPT !.blocks[b].has_ongoing_gc = FALSE]
    BY DEF AddErasedBlockToPool, Checked
  <1>3. /\ o2.exit = "none" => CountedPlane(o2.plane)
        /\ o2.exit = IF CreditReclaimed THEN "none" ELSE "inconsistent"
    BY CountedErase
  <1>4. ExitKnown(o.exit)
    BY <1>2, <1>3 DEF ExitKnown, Explored, Exits
  <1>5. /\ SoundPlane(o2.plane)
        /\ p.blocks[b].current_write_page_index = PagesPerBlock
        /\ o2.plane.blocks[b].current_write_page_index = 0
        /\ ~ o2.plane.blocks[b].has_ongoing_gc
        /\ o2.plane.blocks[b].ongoing_user_read_cnt = p.blocks[b].ongoing_user_read_cnt
        /\ o2.plane.blocks[b].ongoing_user_program_cnt = p.blocks[b].ongoing_user_program_cnt
        /\ \A c \in Blocks \ {b} : o2.plane.blocks[c] = p.blocks[c]
        /\ ValidPagesOf(o2.plane, b) = {}
        /\ \A c \in Blocks \ {b} : ValidPagesOf(o2.plane, c) = ValidPagesOf(p, c)
    BY SoundErase
  <1>. HIDE DEF o2
  <1>6. /\ p.blocks[b].current_write_page_index = PagesPerBlock
        /\ q.blocks[b].current_write_page_index = 0
        /\ SoundPlane(q) /\ ~ q.blocks[b].has_ongoing_gc
        /\ Count(q.blocks[b], "READ") = Count(p.blocks[b], "READ")
        /\ Count(q.blocks[b], "WRITE") = Count(p.blocks[b], "WRITE")
        /\ \A c \in Blocks \ {b} : q.blocks[c] = p.blocks[c]
    BY <1>1, <1>5 DEF Count
  <1>7. \A c \in Blocks : ValidPagesOf(q, c) = ValidPagesOf(p, c)
    BY <1>1, <1>5
  <1>8. o.exit = "none" => Returned(q, p, b)
    BY <1>1, <1>2, <1>3, <1>6, <1>7 DEF Returned
  <1>. QED BY <1>1, <1>2, <1>4, <1>8

LEMMA EraseKeepsIInv ==
    ASSUME IInv, NEW pl \in PlaneId, NEW b \in Blocks, EraseCompleted(pl, b)
    PROVE  IInv' /\ (Erases(pl, b) \/ PlacesStay)
  <1>1. /\ PlanesSound(planes) /\ Linked(planes, slots, metadata)
        /\ MovesInPlace(planes, slots, moves) /\ InFlightCounted(planes, inflight)
        /\ locked_lpa = PagesHeld(planes, slots, moves)
    BY DEF IInv
  <1>2. PICK p : p = planes[pl]
    OBVIOUS
  <1>3. PICK o : o = AddErasedBlockToPool(p, b)
    OBVIOUS
  <1>4. /\ SoundPlane(p) /\ CountedPlane(p)
        /\ p.blocks[b].has_ongoing_gc /\ ValidPagesOf(p, b) = {} /\ CanExecGC(p, b)
    BY <1>1, <1>2 DEF EraseCompleted, PlanesSound
  <1>5. /\ ExitKnown(o.exit)
        /\ o.exit = "none" =>
              Returned([o.plane EXCEPT !.blocks[b].has_ongoing_gc = FALSE], p, b)
    BY <1>3, <1>4, EraseEffect
  <1>6. CASE o.exit # "none"
    <2>1. Ends(o.exit)
      BY <1>2, <1>3, <1>6 DEF EraseCompleted
    <2>. QED BY <1>5, <2>1, EndsKeepsIInv
  <1>7. CASE o.exit = "none"
    <2>1. PICK q : q = [o.plane EXCEPT !.blocks[b].has_ongoing_gc = FALSE]
      OBVIOUS
    <2>2. Returned(q, p, b)
      BY <1>5, <1>7, <2>1
    <2>3. /\ planes' = [planes EXCEPT ![pl] = q]
          /\ UNCHANGED <<slots, metadata, locked_lpa, stalled, inflight, moves, exit>>
      <3>1. /\ planes' = [planes EXCEPT ![pl] =
                             [AddErasedBlockToPool(planes[pl], b).plane
                                 EXCEPT !.blocks[b].has_ongoing_gc = FALSE]]
            /\ UNCHANGED <<slots, metadata, locked_lpa, stalled, inflight, moves, exit>>
        BY <1>2, <1>3, <1>7 DEF EraseCompleted
      <3>. QED BY <1>2, <1>3, <2>1, <3>1
    <2>4. /\ PlanesSound(planes') /\ planes'[pl] = q
          /\ \A x \in PlaneId \ {pl} : planes'[x] = planes[x]
      <3>1. /\ PlanesSound([planes EXCEPT ![pl] = q])
            /\ [planes EXCEPT ![pl] = q][pl] = q
            /\ \A x \in PlaneId \ {pl} : [planes EXCEPT ![pl] = q][x] = planes[x]
        BY <1>1, <2>2, PlaneChanged DEF Returned
      <3>. QED BY <2>3, <3>1
    <2>5. \A x \in PlaneId, c \in Blocks :
             ~ (x = pl /\ c = b) => planes'[x].blocks[c] = planes[x].blocks[c]
      BY <1>2, <2>2, <2>4 DEF Returned
    <2>6. Linked(planes', slots, metadata)
      <3>1. SamePages(q, p)
        BY <1>4, <2>2 DEF SamePages, Returned
      <3>2. \A x \in PlaneId : SamePages(planes'[x], planes[x])
        BY <1>2, <2>4, <3>1 DEF SamePages
      <3>. QED BY <1>1, <3>2, LinkedQuiet
    <2>7. ASSUME NEW k \in LogicalPages, HasPlace(slots, k)
          PROVE  SlotAt(planes', slots[k].mapping.ppa) = SlotAt(planes, slots[k].mapping.ppa)
      <3>1. PICK a : a = ConvertPPAtoAddress(slots[k].mapping.ppa)
        OBVIOUS
      <3>2. /\ PlaneOf(a) \in PlaneId /\ a.block_id \in Blocks
            /\ a.page_id \in ValidPagesOf(planes[PlaneOf(a)], a.block_id)
        BY <1>1, <2>7, <3>1, MappedPlace
      <3>3. ~ (PlaneOf(a) = pl /\ a.block_id = b)
        BY <1>2, <1>4, <3>2
      <3>. QED BY <2>5, <3>1, <3>2, <3>3 DEF SlotAt
    <2>8. \A m \in moves : m.page \in LogicalPages
      BY <1>1 DEF MovesInPlace, Move
    <2>9. MovesInPlace(planes', slots, moves)
      BY <1>1, <2>7, <2>8 DEF MovesInPlace
    <2>10. PagesHeld(planes', slots, moves) = PagesHeld(planes, slots, moves)
      BY <2>7 DEF PagesHeld
    <2>11. InFlightCounted(planes', inflight)
      <3>1. ASSUME NEW t \in inflight PROVE ~ (t.plane = pl /\ t.block = b)
        <4>1. t \in Transaction /\ t.type \in {"READ", "WRITE"}
          BY <1>1 DEF InFlightCounted, Transaction
        <4>2. SUFFICES ASSUME t.plane = pl, t.block = b PROVE FALSE
          OBVIOUS
        <4>3. Count(p.blocks[b], "READ") = 0 /\ Count(p.blocks[b], "WRITE") = 0
          <5>1. Count(p.blocks[b], "READ") \in Nat /\ Count(p.blocks[b], "WRITE") \in Nat
            BY <1>4, CountedSlots
          <5>. QED BY <1>4, <5>1 DEF Count, CanExecGC
        <4>4. t \in On(inflight, t.type, pl, b)
          BY <4>2 DEF On
        <4>5. /\ IsFiniteSet(On(inflight, t.type, pl, b))
              /\ Cardinality(On(inflight, t.type, pl, b)) \in Nat
          BY <1>1, OnFinite DEF InFlightCounted
        <4>6. Cardinality(On(inflight, t.type, pl, b)) # 0
          BY <4>4, <4>5, FS_EmptySet
        <4>7. Count(p.blocks[b], t.type) >= Cardinality(On(inflight, t.type, pl, b))
          BY <1>1, <1>2, <4>1 DEF InFlightCounted
        <4>8. Count(p.blocks[b], t.type) = 0
          BY <4>1, <4>3
        <4>. QED BY <4>5, <4>6, <4>7, <4>8
      <3>2. ASSUME NEW t \in inflight
            PROVE  t.erase_count = planes'[t.plane].blocks[t.block].erase_count
        <4>1. t.plane \in PlaneId /\ t.block \in Blocks
          BY <1>1 DEF InFlightCounted, Transaction
        <4>. QED BY <1>1, <2>5, <3>1, <4>1 DEF InFlightCounted
      <3>3. ASSUME NEW type \in {"READ", "WRITE"}, NEW x \in PlaneId, NEW c \in Blocks
            PROVE  Count(planes'[x].blocks[c], type) = Count(planes[x].blocks[c], type)
        <4>1. CASE x = pl /\ c = b
          BY <1>2, <2>2, <2>4, <4>1 DEF Returned
        <4>2. CASE ~ (x = pl /\ c = b)
          BY <2>5, <4>2
        <4>. QED BY <4>1, <4>2
      <3>. QED BY <1>1, <3>2, <3>3 DEF InFlightCounted
    <2>12. Erases(pl, b)
      BY <1>2, <1>4, <2>2, <2>3, <2>4, <2>5 DEF Erases, Returned
    <2>. QED BY <2>3, <2>4, <2>6, <2>9, <2>10, <2>11, <2>12 DEF IInv
  <1>. QED BY <1>6, <1>7

-----------------------------------------------------------------------------
(* Every step                                                                 *)

\* What a step is in the terms of the logical pages' places.
Moved ==
    \/ PlacesStay
    \/ \E k \in LogicalPages : TakesPage(k)
    \/ \E pl \in PlaneId, b \in Blocks : Erases(pl, b)

LEMMA NextKeepsIInv ==
    ASSUME IInv, [Next]_vars
    PROVE  IInv' /\ Moved
  <1>1. ASSUME NEW k \in LogicalPages, LoadEntry(k) PROVE IInv' /\ Moved
    BY <1>1, LoadKeepsIInv DEF Moved
  <1>2. ASSUME NEW k \in LogicalPages, ManageUserTransactionFacingBarrier(k) PROVE IInv' /\ Moved
    BY <1>2, StallKeepsIInv DEF ManageUserTransactionFacingBarrier, Moved
  <1>3. ASSUME NEW k \in LogicalPages, Read(k) PROVE IInv' /\ Moved
    BY <1>3, ReadKeepsIInv DEF Moved
  <1>4. ASSUME NEW k \in LogicalPages, NEW r \in Bitmaps, ReadUnmapped(k, r) PROVE IInv' /\ Moved
    BY <1>4, ReadUnmappedKeepsIInv DEF Moved
  <1>5. ASSUME NEW k \in LogicalPages, WriteStopped(k) PROVE IInv' /\ Moved
    BY <1>5, StallKeepsIInv DEF WriteStopped, Moved
  <1>6. ASSUME NEW k \in LogicalPages, FirstWrite(k) PROVE IInv' /\ Moved
    BY <1>6, FirstWriteKeepsIInv DEF Moved
  <1>7. ASSUME NEW k \in LogicalPages, NEW w \in Bitmaps, Write(k, w) PROVE IInv' /\ Moved
    BY <1>7, WriteKeepsIInv DEF Moved
  <1>8. ASSUME NEW k \in LogicalPages, GcMove(k) PROVE IInv' /\ Moved
    BY <1>8, GcMoveKeepsIInv DEF Moved
  <1>9. ASSUME NEW t \in inflight, Finished(t) PROVE IInv' /\ Moved
    BY <1>9, FinishedKeepsIInv DEF Moved
  <1>10. ASSUME NEW pl \in PlaneId, NEW b \in Blocks, GcStart(pl, b) PROVE IInv' /\ Moved
    BY <1>10, GcStartKeepsIInv DEF Moved
  <1>11. ASSUME NEW pl \in PlaneId, NEW b \in Blocks, EraseCompleted(pl, b) PROVE IInv' /\ Moved
    BY <1>11, EraseKeepsIInv DEF Moved
  <1>12. ASSUME NEW m \in moves, MoveDone(m) PROVE IInv' /\ Moved
    BY <1>12, MoveDoneKeepsIInv DEF Moved
  <1>13. ASSUME UNCHANGED vars PROVE IInv' /\ Moved
    BY <1>13, NothingTaken DEF vars, IInv, Moved
  <1>. QED BY <1>1, <1>2, <1>3, <1>4, <1>5, <1>6, <1>7, <1>8, <1>9, <1>10, <1>11, <1>12,
               <1>13 DEF Next

\* The inductive invariant of the mapping: sound planes, filled slots that lead to valid
\* pages and back, moves of pages that stay in place, barriers, transactions in flight.
THEOREM MappingInvariant == Spec => []IInv
  <1>1. IInv /\ [Next]_vars => IInv'
    BY NextKeepsIInv
  <1>. QED BY InitIInv, <1>1, PTL DEF Spec

-----------------------------------------------------------------------------
(* What the invariant says of the properties                                  *)

LEMMA MappedHasPlace ==
    ASSUME IInv, NEW k \in LogicalPages
    PROVE  Mapped(k) <=> HasPlace(slots, k)
  BY DEF IInv, SlotsFilled, Mapped, HasPlace, NeverMapped, Mapping_entry_accessible, Cmt!Exists

\* Every variable keeps its type, and the process ends for a reason that is known: the
\* assertions and exceptions of the block manager and of the mapping, or the access to a
\* plane record that is not there.
THEOREM MappingTypeCorrect == Spec => []TypeOK
  <1>1. IInv => TypeOK
    BY DEF IInv, TypeOK, PlanesSound, SlotsFilled, Linked, MovesInPlace, PagesHeld, Move,
           InFlightCounted, ExitKnown
  <1>. QED BY MappingInvariant, <1>1, PTL

\* The mapping table and the planes' bitmaps never disagree, whatever users, reads of
\* unmapped pages and collections do, and whether or not the process then ends.
THEOREM MappedPagesAreValid == Spec => []MappedPagesValid
  <1>1. ASSUME IInv PROVE MappedPagesValid
    <2>1. Linked(planes, slots, metadata)
      BY <1>1 DEF IInv
    <2>2. ASSUME NEW k \in LogicalPages, Mapped(k)
          PROVE  LET a == AddressOf(k)
                 IN  /\ PlaneOf(a) = AllocatePlane(k.lpa)
                     /\ a.page_id \in ValidPagesOf(planes[PlaneOf(a)], a.block_id)
                     /\ planes[PlaneOf(a)].blocks[a.block_id].stream_id = k.stream_id
                     /\ metadata[slots[k].mapping.ppa] = k
      <3>1. HasPlace(slots, k)
        BY <1>1, <2>2, MappedHasPlace
      <3>. QED BY <2>1, <3>1, MappedPlace DEF AddressOf
    <2>3. ASSUME NEW pl \in PlaneId, NEW b \in Blocks, NEW page \in ValidPagesOf(planes[pl], b)
          PROVE  \E k \in LogicalPages : Mapped(k) /\ slots[k].mapping.ppa = PPAOf(pl, b, page)
      <3>1. page \in Pages
        BY DEF ValidPagesOf
      <3>2. PPAOf(pl, b, page) \in PPA /\ ValidAt(planes, PPAOf(pl, b, page))
        BY <3>1, PPAOfPlace DEF ValidAt
      <3>3. PICK k \in LogicalPages :
               HasPlace(slots, k) /\ slots[k].mapping.ppa = PPAOf(pl, b, page)
        BY <2>1, <3>2 DEF Linked
      <3>. QED BY <1>1, <3>3, MappedHasPlace
    <2>. QED BY <2>2, <2>3 DEF MappedPagesValid
  <1>. QED BY MappingInvariant, <1>1, PTL

\* The barrier covers exactly the pages that a collection has still to do with.
THEOREM LockedPagesAreHeld == Spec => []LockedPagesHeld
  <1>1. ASSUME IInv PROVE LockedPagesHeld
    <2>1. locked_lpa = PagesHeld(planes, slots, moves)
      BY <1>1 DEF IInv
    <2>2. ASSUME NEW k \in LogicalPages
          PROVE  HasPlace(slots, k) /\ SlotAt(planes, slots[k].mapping.ppa).has_ongoing_gc
                   <=> Mapped(k) /\ planes[PlaneOf(AddressOf(k))].blocks[AddressOf(k).block_id]
                                      .has_ongoing_gc
      BY <1>1, MappedHasPlace DEF SlotAt, AddressOf
    <2>. QED BY <2>1, <2>2 DEF PagesHeld, LockedPagesHeld
  <1>. QED BY MappingInvariant, <1>1, PTL

\* No erase ever overtakes a read, a user program or the program of a move.
THEOREM InFlightNeverErased == Spec => []InFlightUndisturbed
  <1>1. ASSUME IInv PROVE InFlightUndisturbed
    <2>1. \A t \in inflight : t.erase_count = planes[t.plane].blocks[t.block].erase_count
      BY <1>1 DEF IInv, InFlightCounted
    <2>2. \A m \in moves : m.erase_count = planes[m.plane].blocks[m.block].erase_count
      BY <1>1 DEF IInv, MovesInPlace, SlotAt
    <2>. QED BY <2>1, <2>2 DEF InFlightUndisturbed
  <1>. QED BY MappingInvariant, <1>1, PTL

\* Past the errors that the code makes sure to meet, no assertion of the mapping, the
\* block manager or the barrier is ever violated: the process ends for want of a block,
\* or with the first write of a page.
THEOREM AssertionsAlwaysHold ==
    ASSUME Explored
    PROVE  Spec => []AssertionsHold
  <1>1. IInv => AssertionsHold
    BY DEF IInv, ExitKnown, AssertionsHold
  <1>. QED BY MappingInvariant, <1>1, PTL

\* StopServicingWrites keeps a block for each collection but one from user writes.
WritesLeaveReserve ==
    [][\A k \in LogicalPages, w \in Bitmaps : Write(k, w) =>
          /\ exit' # "empty_pool"
          /\ Len(planes'[AllocatePlane(k.lpa)].free_block_pool) >= MaxOngoingGc - 1]_vars

\* The threshold of StopServicingWrites is enough, as soon as it is 1: no user write meets
\* an empty pool, and each leaves a block for all but one of the collections that may run.
THEOREM WritesAlwaysLeaveReserve ==
    ASSUME MaxOngoingGc >= 1
    PROVE  Spec => WritesLeaveReserve
  <1>1. ASSUME IInv, [Next]_vars
        PROVE  [\A k \in LogicalPages, w \in Bitmaps : Write(k, w) =>
                   /\ exit' # "empty_pool"
                   /\ Len(planes'[AllocatePlane(k.lpa)].free_block_pool) >= MaxOngoingGc - 1]_vars
    BY <1>1, WriteKeepsIInv DEF ReserveLeft
  <1>. QED BY MappingInvariant, <1>1, PTL DEF Spec, WritesLeaveReserve

-----------------------------------------------------------------------------
(* Wear leveling                                                              *)

PoolsStep == \A x \in PlaneId : PoolStep(planes'[x], planes[x])

LEMMA PlanesKept ==
    ASSUME UNCHANGED planes
    PROVE  PoolsStep
  BY DEF PoolsStep, PoolStep, PoolKept, SameErasures

\* A plane whose slot of one block changes in other fields than its erase count.
LEMMA SlotChanged ==
    ASSUME PlanesSound(planes), NEW pl \in PlaneId, NEW b \in Blocks, NEW new,
           new.erase_count = planes[pl].blocks[b].erase_count,
           planes' = [planes EXCEPT ![pl].blocks[b] = new]
    PROVE  PoolsStep
  <1>1. /\ planes[pl] \in PlaneRecord /\ planes \in [PlaneId -> PlaneRecord]
        /\ \A x \in PlaneId \ {pl} : planes'[x] = planes[x]
    BY DEF PlanesSound
  <1>2. planes'[pl] = [planes[pl] EXCEPT !.blocks[b] = new]
    BY <1>1
  <1>3. /\ planes'[pl].free_block_pool = planes[pl].free_block_pool
        /\ planes'[pl].blocks = [planes[pl].blocks EXCEPT ![b] = new]
    BY <1>1, <1>2 DEF PlaneRecord
  <1>4. \A c \in Blocks : planes'[pl].blocks[c].erase_count = planes[pl].blocks[c].erase_count
    BY <1>1, <1>3 DEF PlaneRecord
  <1>. QED BY <1>1, <1>3, <1>4 DEF PoolsStep, PoolStep, PoolKept, SameErasures

\* A page taken once the old one is marked: whatever came before leaves pools and erase
\* counts alone, and so does what comes after.
LEMMA TakenPoolStep ==
    ASSUME NEW ps, PlanesSound(planes),
           \A x \in PlaneId : PoolKept(ps[x], planes[x]),
           NEW old, NEW pl, NEW inv, OldMarked(ps, old, pl, inv),
           NEW role \in Roles, NEW s \in Streams,
           NEW o \in AllocateBlockAndPage(inv.planes[pl], role, s), o.exit = "none",
           NEW q, PoolKept(q, o.plane), planes' = [inv.planes EXCEPT ![pl] = q]
    PROVE  PoolsStep
  <1>1. /\ pl \in PlaneId /\ SoundPlane(inv.planes[pl]) /\ PoolKept(inv.planes[pl], planes[pl])
        /\ \A x \in PlaneId \ {pl} : PoolKept(inv.planes[x], planes[x])
        /\ inv.planes \in [PlaneId -> PlaneRecord]
    BY DEF OldMarked, PlanesSound, SameVictims, PoolKept, SameErasures
  <1>2. PoolKept(o.plane, inv.planes[pl]) \/ FirstOpened(o.plane, inv.planes[pl])
    BY <1>1, AllocationPoolStep
  <1>3. PoolKept(planes'[pl], planes[pl]) \/ FirstOpened(planes'[pl], planes[pl])
    <2>1. planes'[pl] = q
      BY <1>1
    <2>. QED BY <1>1, <1>2, <2>1 DEF PoolKept, FirstOpened, SameErasures
  <1>4. \A x \in PlaneId \ {pl} : PoolKept(planes'[x], planes[x])
    BY <1>1
  <1>. QED BY <1>3, <1>4 DEF PoolsStep, PoolStep

LEMMA WritePools ==
    ASSUME IInv, NEW k \in LogicalPages, NEW w \in Bitmaps, Write(k, w)
    PROVE  PoolsStep
  <1>1. PICK ps : ps = ReadBefore(k, w)
    OBVIOUS
  <1>2. PICK pl : pl = AllocatePlane(k.lpa)
    OBVIOUS
  <1>3. PICK inv : inv = Invalidated(ps, k, slots[k].mapping.ppa)
    OBVIOUS
  <1>4. PICK page : page = NextPage(inv.planes[pl], "data", k.stream_id)
    OBVIOUS
  <1>5. HasPlace(slots, k) /\ Begun(ps, FlightBefore(k, w))
    BY <1>1, WriteBegun
  <1>6. PlanesSound(ps) /\ Linked(ps, slots, metadata) /\ PlanesSound(planes)
    BY <1>5 DEF Begun, IInv
  <1>7. OldMarked(ps, slots[k].mapping.ppa, pl, inv) /\ inv.exit = "none"
    <2>1. OldMarked(ps, slots[k].mapping.ppa, pl, inv)
      BY <1>2, <1>3, <1>5, <1>6, OldPageMarked
    <2>. QED BY <2>1 DEF OldMarked
  <1>8. PICK o \in AllocateBlockAndPage(inv.planes[pl], "data", k.stream_id) :
           GoesOn(o, k, w, inv, pl, page)
    BY <1>1, <1>2, <1>3, <1>4, <1>7, WriteOutcome
  <1>9. CASE o.exit # "none"
    BY <1>8, <1>9, PlanesKept DEF GoesOn, Ends
  <1>10. CASE o.exit = "none"
    <2>1. planes' = [inv.planes EXCEPT ![pl] = o.plane]
      BY <1>8, <1>10 DEF GoesOn, IsPlaced
    <2>2. \A x \in PlaneId : PoolKept(ps[x], planes[x])
      BY <1>5 DEF Begun, SameVictims, PoolKept, SameErasures
    <2>3. PoolKept(o.plane, o.plane)
      BY DEF PoolKept, SameErasures
    <2>4. "data" \in Roles /\ k.stream_id \in Streams
      BY PageParts DEF Roles
    <2>. QED BY <1>6, <1>7, <1>10, <2>1, <2>2, <2>3, <2>4, TakenPoolStep
  <1>. QED BY <1>9, <1>10

LEMMA ReadUnmappedPools ==
    ASSUME IInv, NEW k \in LogicalPages, NEW r \in Bitmaps, ReadUnmapped(k, r)
    PROVE  PoolsStep
  <1>1. PICK pl : pl = AllocatePlane(k.lpa)
    OBVIOUS
  <1>2. PICK b : b = NextPage(planes[pl], "data", k.stream_id).block
    OBVIOUS
  <1>3. PICK inv : inv = [planes |-> planes, exit |-> "none"]
    OBVIOUS
  <1>4. /\ PlanesSound(planes) /\ pl \in PlaneId /\ inv.planes = planes
        /\ "data" \in Roles /\ k.stream_id \in Streams
    BY <1>1, <1>3, PageParts DEF IInv, Roles
  <1>5. OldMarked(planes, NoValue, pl, inv)
    BY <1>3, <1>4, NothingMarked
  <1>6. PICK o \in AllocateBlockAndPage(planes[pl], "data", k.stream_id) :
           IF o.exit # "none" THEN Ends(o.exit)
           ELSE Placed(planes, pl, "data", k, r,
                       [o.plane EXCEPT !.blocks[b].ongoing_user_read_cnt = @ + 1])
    BY <1>1, <1>2 DEF ReadUnmapped
  <1>7. CASE o.exit # "none"
    BY <1>6, <1>7, PlanesKept DEF Ends
  <1>8. CASE o.exit = "none"
    <2>1. PICK q : q = [o.plane EXCEPT !.blocks[b].ongoing_user_read_cnt = @ + 1]
      OBVIOUS
    <2>2. planes' = [inv.planes EXCEPT ![pl] = q]
      BY <1>4, <1>6, <1>8, <2>1 DEF Placed
    <2>3. PoolKept(q, o.plane)
      <3>1. SoundPlane(planes[pl]) /\ CountedPlane(planes[pl])
        BY <1>4 DEF PlanesSound
      <3>2. SoundPlane(o.plane) /\ CountedPlane(o.plane) /\ b \in Blocks
        BY <1>2, <1>4, <1>8, <3>1, AllocationEffect DEF NextPage
      <3>. QED BY <2>1, <3>2, ReadCounted DEF PoolKept, SameErasures, SameVictims
    <2>4. \A x \in PlaneId : PoolKept(planes[x], planes[x])
      BY DEF PoolKept, SameErasures
    <2>. QED BY <1>4, <1>5, <1>8, <2>2, <2>3, <2>4, TakenPoolStep
  <1>. QED BY <1>7, <1>8

LEMMA GcMovePools ==
    ASSUME IInv, NEW k \in LogicalPages, GcMove(k)
    PROVE  PoolsStep
  <1>1. HasPlace(slots, k)
    <2>1. k \in locked_lpa /\ \A m \in moves : m.page # k
      BY DEF GcMove
    <2>. QED BY <2>1, BarredInVictim
  <1>2. PICK old : old = ConvertPPAtoAddress(slots[k].mapping.ppa)
    OBVIOUS
  <1>3. PICK pl : pl = PlaneOf(old)
    OBVIOUS
  <1>4. PICK inv : inv = Invalidated(planes, k, slots[k].mapping.ppa)
    OBVIOUS
  <1>5. PICK page : page = NextPage(inv.planes[pl], "gc", k.stream_id)
    OBVIOUS
  <1>6. PlanesSound(planes) /\ Linked(planes, slots, metadata)
    BY DEF IInv
  <1>7. pl = AllocatePlane(k.lpa) /\ k.stream_id \in Streams /\ "gc" \in Roles
    BY <1>1, <1>2, <1>3, <1>6, MappedPlace, PageParts DEF Roles
  <1>8. OldMarked(planes, slots[k].mapping.ppa, pl, inv) /\ inv.exit = "none"
    <2>1. OldMarked(planes, slots[k].mapping.ppa, pl, inv)
      BY <1>1, <1>4, <1>6, <1>7, OldPageMarked
    <2>. QED BY <2>1 DEF OldMarked
  <1>9. PICK o \in AllocateBlockAndPage(inv.planes[pl], "gc", k.stream_id) :
           MoveGoesOn(o, k, inv, pl, page, old)
    BY <1>1, <1>2, <1>3, <1>4, <1>5, <1>8, GcMoveOutcome
  <1>10. CASE o.exit # "none"
    BY <1>9, <1>10, PlanesKept DEF MoveGoesOn, Ends
  <1>11. CASE o.exit = "none"
    <2>1. planes' = [inv.planes EXCEPT ![pl] = o.plane]
      BY <1>9, <1>11 DEF MoveGoesOn, Placed
    <2>2. /\ \A x \in PlaneId : PoolKept(planes[x], planes[x])
          /\ PoolKept(o.plane, o.plane)
      BY DEF PoolKept, SameErasures
    <2>. QED BY <1>6, <1>7, <1>8, <1>11, <2>1, <2>2, TakenPoolStep
  <1>. QED BY <1>10, <1>11

LEMMA ErasePools ==
    ASSUME IInv, NEW pl \in PlaneId, NEW b \in Blocks, EraseCompleted(pl, b)
    PROVE  PoolsStep
  <1>1. PICK o : o = AddErasedBlockToPool(planes[pl], b)
    OBVIOUS
  <1>2. PICK q : q = [o.plane EXCEPT !.blocks[b].has_ongoing_gc = FALSE]
    OBVIOUS
  <1>3. SoundPlane(planes[pl]) /\ planes \in [PlaneId -> PlaneRecord]
    BY DEF IInv, PlanesSound
  <1>4. PoolStep(q, planes[pl])
    BY <1>1, <1>2, <1>3, ErasePoolStep DEF EraseCompleted
  <1>5. planes' = planes \/ planes' = [planes EXCEPT ![pl] = q]
    BY <1>1, <1>2 DEF EraseCompleted, Ends
  <1>6. CASE planes' = planes
    BY <1>6, PlanesKept
  <1>7. CASE planes' = [planes EXCEPT ![pl] = q]
    <2>1. planes'[pl] = q /\ \A x \in PlaneId \ {pl} : planes'[x] = planes[x]
      BY <1>3, <1>7
    <2>. QED BY <1>4, <2>1 DEF PoolsStep, PoolStep, PoolKept, SameErasures
  <1>. QED BY <1>5, <1>6, <1>7

LEMMA ReadPools ==
    ASSUME IInv, NEW k \in LogicalPages, Read(k)
    PROVE  PoolsStep
  <1>1. HasPlace(slots, k) /\ RoomToRead /\ planes' = ReadStartedOnBlock(planes, AddressOf(k))
    BY FoundMapped DEF Read, Found
  <1>2. \A x \in PlaneId : /\ SameVictims(planes'[x], planes[x])
                           /\ planes'[x].free_block_pool = planes[x].free_block_pool
    BY <1>1, StartedRead
  <1>. QED BY <1>2 DEF PoolsStep, PoolStep, PoolKept, SameErasures, SameVictims

LEMMA FinishedPools ==
    ASSUME IInv, NEW t \in inflight, Finished(t)
    PROVE  PoolsStep
  <1>1. t.plane \in PlaneId /\ t.block \in Blocks /\ PlanesSound(planes)
    BY DEF IInv, InFlightCounted, Transaction
  <1>2. PICK slot : slot = planes[t.plane].blocks[t.block]
    OBVIOUS
  <1>3. PICK new : new = [slot EXCEPT ![Counter(t.type)] = @ - 1]
    OBVIOUS
  <1>4. new.erase_count = slot.erase_count
    <2>1. slot \in BlockSlot
      BY <1>1, <1>2 DEF PlanesSound, PlaneRecord
    <2>2. Counter(t.type) # "erase_count"
      BY DEF Counter
    <2>. QED BY <1>3, <2>1, <2>2 DEF BlockSlot
  <1>5. planes' = [planes EXCEPT ![t.plane].blocks[t.block] = new]
    BY <1>1, <1>2, <1>3 DEF Finished, PlanesSound, PlaneRecord
  <1>. QED BY <1>1, <1>2, <1>4, <1>5, SlotChanged

LEMMA GcStartPools ==
    ASSUME IInv, NEW pl \in PlaneId, NEW b \in Blocks, GcStart(pl, b)
    PROVE  PoolsStep
  <1>1. PlanesSound(planes)
    BY DEF IInv
  <1>2. PICK new : new = [planes[pl].blocks[b] EXCEPT !.has_ongoing_gc = TRUE]
    OBVIOUS
  <1>3. planes' = planes \/ planes' = [planes EXCEPT ![pl].blocks[b].has_ongoing_gc = TRUE]
    BY DEF GcStart, Ends
  <1>4. CASE planes' = planes
    BY <1>4, PlanesKept
  <1>5. CASE planes' = [planes EXCEPT ![pl].blocks[b].has_ongoing_gc = TRUE]
    <2>1. planes' = [planes EXCEPT ![pl].blocks[b] = new]
      BY <1>1, <1>2, <1>5 DEF PlanesSound, PlaneRecord
    <2>2. new.erase_count = planes[pl].blocks[b].erase_count
      <3>1. planes[pl].blocks[b] \in BlockSlot
        BY <1>1 DEF PlanesSound, PlaneRecord
      <3>. QED BY <1>2, <3>1 DEF BlockSlot
    <2>. QED BY <1>1, <2>1, <2>2, SlotChanged
  <1>. QED BY <1>3, <1>4, <1>5

LEMMA NextPools ==
    ASSUME IInv, [Next]_vars
    PROVE  PoolsStep
  <1>1. ASSUME NEW k \in LogicalPages, \/ LoadEntry(k) \/ WriteStopped(k) \/ FirstWrite(k)
                                       \/ ManageUserTransactionFacingBarrier(k)
        PROVE  PoolsStep
    BY <1>1, PlanesKept DEF LoadEntry, WriteStopped, FirstWrite, Ends, Stall,
                            ManageUserTransactionFacingBarrier
  <1>2. ASSUME NEW k \in LogicalPages, Read(k) PROVE PoolsStep
    BY <1>2, ReadPools
  <1>3. ASSUME NEW k \in LogicalPages, NEW r \in Bitmaps, ReadUnmapped(k, r) PROVE PoolsStep
    BY <1>3, ReadUnmappedPools
  <1>4. ASSUME NEW k \in LogicalPages, NEW w \in Bitmaps, Write(k, w) PROVE PoolsStep
    BY <1>4, WritePools
  <1>5. ASSUME NEW k \in LogicalPages, GcMove(k) PROVE PoolsStep
    BY <1>5, GcMovePools
  <1>6. ASSUME NEW t \in inflight, Finished(t) PROVE PoolsStep
    BY <1>6, FinishedPools
  <1>7. ASSUME NEW pl \in PlaneId, NEW b \in Blocks, GcStart(pl, b) PROVE PoolsStep
    BY <1>7, GcStartPools
  <1>8. ASSUME NEW pl \in PlaneId, NEW b \in Blocks, EraseCompleted(pl, b) PROVE PoolsStep
    BY <1>8, ErasePools
  <1>9. ASSUME NEW m \in moves, MoveDone(m) PROVE PoolsStep
    BY <1>9, PlanesKept DEF MoveDone, Ends
  <1>10. CASE UNCHANGED vars
    BY <1>10, PlanesKept DEF vars
  <1>. QED BY <1>1, <1>2, <1>3, <1>4, <1>5, <1>6, <1>7, <1>8, <1>9, <1>10 DEF Next

PoolsInOrder == \A pl \in PlaneId : PoolInOrder(planes[pl])

\* GetOneFreeBlock opens a least worn block, whatever user traffic and collections have
\* made of the plane: AddToFreeBlockPool inserts by the number of erasures, and nothing
\* changes that number while a block is pooled.
THEOREM LeastWornOpened == Spec => LeastWornFirst
  <1>1. Init => PoolsInOrder
    BY NewPoolInOrder DEF Init, PoolsInOrder
  <1>2. ASSUME IInv, PoolsInOrder, [Next]_vars PROVE PoolsInOrder'
    BY <1>2, NextPools, PoolStaysInOrder DEF PoolsInOrder, PoolsStep, IInv, PlanesSound
  <1>3. ASSUME IInv, PoolsInOrder, [Next]_vars
        PROVE  [\A pl \in PlaneId, b \in Blocks :
                  (DynamicWl /\ Pooled(planes[pl].free_block_pool, b)
                             /\ ~ Pooled(planes'[pl].free_block_pool, b)) =>
                     \A c \in Blocks : Pooled(planes[pl].free_block_pool, c) =>
                        planes[pl].blocks[b].erase_count
                           <= planes[pl].blocks[c].erase_count]_vars
    BY <1>3, NextPools, LeavesFromFront DEF PoolsInOrder, PoolsStep, IInv, PlanesSound
  <1>. QED BY <1>1, <1>2, <1>3, MappingInvariant, PTL DEF Spec, LeastWornFirst

-----------------------------------------------------------------------------
(* The refinement of PageMap                                                  *)

PlaceIn(ss, k) ==
    LET a == ConvertPPAtoAddress(ss[k].mapping.ppa)
    IN  IF HasPlace(ss, k) THEN [block |-> <<PlaneOf(a), a.block_id>>, page |-> a.page_id]
        ELSE Nowhere

LEMMA Places ==
    /\ IInv => \A k \in LogicalPages : Place(k) = PlaceIn(slots, k)
    /\ IInv' => \A k \in LogicalPages : Place(k)' = PlaceIn(slots', k)
  BY DEF IInv, SlotsFilled, Place, PlaceIn, Mapped, HasPlace, NeverMapped,
         Mapping_entry_accessible, AddressOf, Cmt!Exists

LEMMA PlaceOfPage ==
    ASSUME NEW ss, NEW k, HasPlace(ss, k), NEW pl \in PlaneId, NEW b \in Blocks,
           NEW page \in Pages, ss[k].mapping.ppa = PPAOf(pl, b, page)
    PROVE  PlaceIn(ss, k) = [block |-> <<pl, b>>, page |-> page]
  <1>1. PICK a : a = ConvertPPAtoAddress(ss[k].mapping.ppa)
    OBVIOUS
  <1>2. PlaneOf(a) = pl /\ a.block_id = b /\ a.page_id = page
    BY <1>1, PPAOfPlace
  <1>. QED BY <1>1, <1>2 DEF PlaceIn

\* Where a logical page is, a page is programmed.
LEMMA PlaceProgrammed ==
    ASSUME IInv, NEW k \in LogicalPages, HasPlace(slots, k)
    PROVE  \E pl \in PlaneId, b \in Blocks, page \in Pages :
              /\ PlaceIn(slots, k) = [block |-> <<pl, b>>, page |-> page]
              /\ page \in ValidPagesOf(planes[pl], b)
              /\ page < planes[pl].blocks[b].current_write_page_index
  <1>1. Linked(planes, slots, metadata)
    BY DEF IInv
  <1>2. PICK a : a = ConvertPPAtoAddress(slots[k].mapping.ppa)
    OBVIOUS
  <1>3. /\ PlaneOf(a) \in PlaneId /\ a.block_id \in Blocks /\ a.page_id \in Pages
        /\ a.page_id \in ValidPagesOf(planes[PlaneOf(a)], a.block_id)
    BY <1>1, <1>2, MappedPlace
  <1>4. PlaceIn(slots, k) = [block |-> <<PlaneOf(a), a.block_id>>, page |-> a.page_id]
    BY <1>2 DEF PlaceIn
  <1>5. a.page_id < planes[PlaneOf(a)].blocks[a.block_id].current_write_page_index
    BY <1>3 DEF ValidPagesOf
  <1>. QED BY <1>3, <1>4, <1>5

LEMMA TakingImplements ==
    ASSUME IInv, IInv', NEW k \in LogicalPages, TakesPage(k)
    PROVE  Map!Put(k)
  <1>1. PICK pl \in PlaneId, b \in Blocks, page \in Pages :
           /\ page = planes[pl].blocks[b].current_write_page_index
           /\ HasPlace(slots', k) /\ slots'[k].mapping.ppa = PPAOf(pl, b, page)
           /\ \A j \in LogicalPages \ {k} : slots'[j] = slots[j]
           /\ OneWritten(planes'[pl], planes[pl], b)
           /\ \A x \in PlaneId \ {pl} : SamePointers(planes'[x], planes[x])
    BY DEF TakesPage
  <1>2. PICK new : new = [block |-> <<pl, b>>, page |-> page]
    OBVIOUS
  <1>3. Place(k)' = new
    BY <1>1, <1>2, Places, PlaceOfPage
  <1>4. \A j \in LogicalPages \ {k} : Place(j)' = Place(j)
    BY <1>1, Places DEF PlaceIn, HasPlace
  <1>5. Place(k) # new
    <2>1. CASE HasPlace(slots, k)
      <3>1. PICK x \in PlaneId, c \in Blocks, i \in Pages :
               /\ PlaceIn(slots, k) = [block |-> <<x, c>>, page |-> i]
               /\ i < planes[x].blocks[c].current_write_page_index
        BY <2>1, PlaceProgrammed
      <3>2. SUFFICES ASSUME PlaceIn(slots, k) = new PROVE FALSE
        BY Places
      <3>3. x = pl /\ c = b /\ i = page
        BY <1>2, <3>1, <3>2
      <3>4. page \in Nat
        BY DEF Pages
      <3>. QED BY <1>1, <3>1, <3>3, <3>4
    <2>2. CASE ~ HasPlace(slots, k)
      <3>1. Place(k).page = PagesPerBlock
        BY <2>2, Places DEF PlaceIn, Nowhere
      <3>2. new.page = page /\ page < PagesPerBlock
        BY <1>2, PlaneAssumption DEF Pages
      <3>. QED BY <3>1, <3>2, PlaneAssumption DEF Pages
    <2>. QED BY <2>1, <2>2
  <1>6. [j \in LogicalPages |-> Place(j)]' = [[j \in LogicalPages |-> Place(j)] EXCEPT ![k] = new]
    BY <1>3, <1>4
  <1>7. <<pl, b>> \in BlockIds /\ Programmed(<<pl, b>>) = page
    BY <1>1 DEF BlockIds, Programmed
  <1>8. \A x \in PlaneId, c \in Blocks :
           planes'[x].blocks[c].current_write_page_index
             = IF x = pl /\ c = b THEN page + 1
               ELSE planes[x].blocks[c].current_write_page_index
    <2>1. \A x \in PlaneId, c \in Blocks : planes[x].blocks[c].current_write_page_index \in Nat
      BY CountedSlots DEF IInv, PlanesSound, BlockSlot
    <2>. QED BY <1>1, <2>1 DEF OneWritten, SamePointers
  <1>9. \A id \in BlockIds : Programmed(id)' = IF id = <<pl, b>> THEN page + 1 ELSE Programmed(id)
    <2>1. SUFFICES ASSUME NEW id \in BlockIds
                   PROVE  Programmed(id)' = IF id = <<pl, b>> THEN page + 1 ELSE Programmed(id)
      OBVIOUS
    <2>2. id[1] \in PlaneId /\ id[2] \in Blocks /\ id = <<id[1], id[2]>>
      BY DEF BlockIds
    <2>. QED BY <1>8, <2>2 DEF Programmed
  <1>10. [id \in BlockIds |-> Programmed(id)]'
           = [[id \in BlockIds |-> Programmed(id)] EXCEPT ![<<pl, b>>] = @ + 1]
    BY <1>7, <1>9
  <1>11. /\ [j \in LogicalPages |-> Place(j)]'[k] = new
         /\ [j \in LogicalPages |-> Place(j)][k] # new
    BY <1>3, <1>5
  <1>12. /\ new.page = [id \in BlockIds |-> Programmed(id)][new.block]
         /\ new.block = <<pl, b>>
    BY <1>2, <1>7
  <1>. QED BY <1>6, <1>10, <1>11, <1>12 DEF Map!Put

LEMMA EraseImplements ==
    ASSUME IInv, IInv', NEW pl \in PlaneId, NEW b \in Blocks, Erases(pl, b)
    PROVE  Map!Erase(<<pl, b>>)
  <1>1. \A j \in LogicalPages : Place(j)' = Place(j)
    BY Places DEF Erases
  <1>2. <<pl, b>> \in BlockIds /\ Programmed(<<pl, b>>) = PagesPerBlock /\ PagesPerBlock # 0
    BY PlaneAssumption DEF BlockIds, Programmed, Erases
  <1>3. \A id \in BlockIds : Programmed(id)' = IF id = <<pl, b>> THEN 0 ELSE Programmed(id)
    <2>1. SUFFICES ASSUME NEW id \in BlockIds
                   PROVE  Programmed(id)' = IF id = <<pl, b>> THEN 0 ELSE Programmed(id)
      OBVIOUS
    <2>2. id[1] \in PlaneId /\ id[2] \in Blocks /\ id = <<id[1], id[2]>>
      BY DEF BlockIds
    <2>. QED BY <2>2 DEF Programmed, Erases
  <1>4. ASSUME NEW k \in LogicalPages, Place(k) # Nowhere
        PROVE  Place(k).block # <<pl, b>>
    <2>1. HasPlace(slots, k)
      BY <1>4, Places DEF PlaceIn
    <2>2. PICK x \in PlaneId, c \in Blocks, i \in Pages :
             /\ PlaceIn(slots, k) = [block |-> <<x, c>>, page |-> i]
             /\ i \in ValidPagesOf(planes[x], c)
      BY <2>1, PlaceProgrammed
    <2>3. Place(k).block = <<x, c>>
      BY <2>2, Places
    <2>4. ~ (x = pl /\ c = b)
      BY <2>2 DEF Erases
    <2>. QED BY <2>3, <2>4
  <1>5. [j \in LogicalPages |-> Place(j)]' = [j \in LogicalPages |-> Place(j)]
    BY <1>1
  <1>6. /\ [id \in BlockIds |-> Programmed(id)]'
             = [[id \in BlockIds |-> Programmed(id)] EXCEPT ![<<pl, b>>] = 0]
        /\ [id \in BlockIds |-> Programmed(id)]'[<<pl, b>>] = 0
        /\ [id \in BlockIds |-> Programmed(id)][<<pl, b>>] # 0
    BY <1>2, <1>3
  <1>. QED BY <1>4, <1>5, <1>6 DEF Map!Erase

LEMMA StayingImplements ==
    ASSUME IInv, IInv', PlacesStay
    PROVE  UNCHANGED Map!vars
  <1>1. \A j \in LogicalPages : Place(j)' = Place(j)
    BY Places DEF PlacesStay, PlaceIn
  <1>2. \A id \in BlockIds : Programmed(id)' = Programmed(id)
    BY DEF BlockIds, Programmed, PlacesStay, SamePointers
  <1>. QED BY <1>1, <1>2 DEF Map!vars

LEMMA InitImplements == Init => Map!Init
  <1>. SUFFICES ASSUME Init PROVE Map!Init
    OBVIOUS
  <1>1. \A k \in LogicalPages : Place(k) = Nowhere
    BY DEF Init, Place, Mapped, Mapping_entry_accessible, Cmt!Exists, Cmt!NoSlot
  <1>2. \A id \in BlockIds : Programmed(id) = 0
    BY DEF Init, BlockIds, Programmed, NewPlane
  <1>. QED BY <1>1, <1>2 DEF Map!Init

\* From any user traffic and collections: a logical page has one place at a time, gets a
\* new one only at the next page of a block, and keeps it until it is given another: no
\* erase and no other page's program ever reaches it.
THEOREM MappingImplementsPageMap == Spec => ImplementsPageMap
  <1>1. ASSUME IInv, IInv', [Next]_vars PROVE [Map!Next]_(Map!vars)
    <2>1. Moved
      BY <1>1, NextKeepsIInv
    <2>2. CASE PlacesStay
      BY <1>1, <2>2, StayingImplements
    <2>3. CASE \E k \in LogicalPages : TakesPage(k)
      BY <1>1, <2>3, TakingImplements DEF Map!Next
    <2>4. ASSUME NEW pl \in PlaneId, NEW b \in Blocks, Erases(pl, b) PROVE Map!Next
      <3>1. Map!Erase(<<pl, b>>) /\ <<pl, b>> \in BlockIds
        BY <1>1, <2>4, EraseImplements DEF BlockIds
      <3>. QED BY <3>1 DEF Map!Next
    <2>. QED BY <2>1, <2>2, <2>3, <2>4 DEF Moved
  <1>. QED BY MappingInvariant, InitImplements, <1>1, PTL
           DEF Spec, ImplementsPageMap, Map!Spec
=====
