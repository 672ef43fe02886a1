--------------------------- MODULE PhysicalAddress ---------------------------
(***************************************************************************)
(* Physical page addresses and their numbers (PPA), and the plane a        *)
(* logical page is written to.  The pages_per_... members are products of  *)
(* the geometry, set by a constructor the repository declares only.        *)
(***************************************************************************)
EXTENDS Naturals

CONSTANTS channel_no, chips_per_channel, dies_per_chip, planes_per_die,
          blocks_per_plane, pages_per_block

ASSUME GeometryAssumption ==
    /\ channel_no \in Nat \ {0}
    /\ chips_per_channel \in Nat \ {0}
    /\ dies_per_chip \in Nat \ {0}
    /\ planes_per_die \in Nat \ {0}
    /\ blocks_per_plane \in Nat \ {0}
    /\ pages_per_block \in Nat \ {0}

pages_per_plane   == pages_per_block * blocks_per_plane
pages_per_die     == pages_per_plane * planes_per_die
pages_per_chip    == pages_per_die * dies_per_chip
pages_per_channel == pages_per_chip * chips_per_channel

PPA == 0..(pages_per_channel * channel_no - 1)

PlaneId ==
    [channel_id : 0..(channel_no - 1), chip_id : 0..(chips_per_channel - 1),
     die_id : 0..(dies_per_chip - 1), plane_id : 0..(planes_per_die - 1)]

PhysicalPageAddress ==
    [channel_id : 0..(channel_no - 1), chip_id : 0..(chips_per_channel - 1),
     die_id : 0..(dies_per_chip - 1), plane_id : 0..(planes_per_die - 1),
     block_id : 0..(blocks_per_plane - 1), page_id : 0..(pages_per_block - 1)]

ConvertPPAtoAddress(ppa) ==
    LET inChannel == ppa % pages_per_channel
        inChip    == inChannel % pages_per_chip
        inDie     == inChip % pages_per_die
        inPlane   == inDie % pages_per_plane
    IN  [channel_id |-> ppa \div pages_per_channel,
         chip_id    |-> inChannel \div pages_per_chip,
         die_id     |-> inChip \div pages_per_die,
         plane_id   |-> inDie \div pages_per_plane,
         block_id   |-> inPlane \div pages_per_block,
         page_id    |-> inPlane % pages_per_block]

ConvertAddresstoPPA(a) ==
    pages_per_chip * (a.channel_id * chips_per_channel + a.chip_id)
      + pages_per_die * a.die_id + pages_per_plane * a.plane_id
      + pages_per_block * a.block_id + a.page_id

PlaneOf(a) ==
    [channel_id |-> a.channel_id, chip_id |-> a.chip_id,
     die_id |-> a.die_id, plane_id |-> a.plane_id]

\* Logical pages go round the channels, then the chips, dies and planes, in a domain
\* that owns the whole device.
AllocatePlane(lpa) ==
    [channel_id |-> lpa % channel_no,
     chip_id    |-> (lpa \div channel_no) % chips_per_channel,
     die_id     |-> (lpa \div (channel_no * chips_per_channel)) % dies_per_chip,
     plane_id   |-> (lpa \div (channel_no * chips_per_channel * dies_per_chip))
                      % planes_per_die]
=============================================================================
