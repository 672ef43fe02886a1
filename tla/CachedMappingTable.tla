------------------------- MODULE CachedMappingTable -------------------------
(***************************************************************************)
(* The class CachedMappingTable: entries of the logical-to-physical        *)
(* mapping, found by a key made of stream and LPA, with an LRU list.  The  *)
(* methods are operators on the table, so that a handler that makes        *)
(* several calls is the composition of their operators.                    *)
(***************************************************************************)
EXTENDS Naturals, Sequences, FiniteSets

CONSTANTS
    Streams,         \* stream ids
    LpnSpan,         \* 2^56: what one stream's keys span
    Lpas,            \* logical page addresses in use
    Mappings,        \* what an entry can say: a PPA and the sectors written
    Unset,           \* what is in a slot before anything was stored there
    Capacity,        \* capacity_in_entries
    InsertsReserved  \* FALSE: the code.  TRUE: see InsertRefused

ASSUME TableAssumption ==
    /\ Streams \subseteq Nat
    /\ LpnSpan \in Nat \ {0}
    /\ Lpas \subseteq 0..(LpnSpan - 1)
    /\ Unset \notin Mappings
    /\ Capacity \in Nat
    /\ InsertsReserved \in BOOLEAN

\* LPN_TO_UNIQUE_KEY, an or of disjoint bits, and UNIQUE_KEY_TO_LPN, which clears
\* the bits of the stream it is given: right only for the stream of the key.
Key(stream, lpa) == stream * LpnSpan + lpa
KeyToLpn(stream, key) == key - stream * LpnSpan

Keys == {Key(s, l) : s \in Streams, l \in Lpas}

\* status FREE: the key is not in address_map.
Slot ==
    [mapping   : Mappings \cup {Unset},
     dirty     : BOOLEAN,
     status    : {"FREE", "WAITING", "VALID"},
     stream_id : Streams \cup {Unset}]

NoSlot == [mapping |-> Unset, dirty |-> FALSE, status |-> "FREE", stream_id |-> Unset]

-----------------------------------------------------------------------------
(* What the methods do to the slot they find                                  *)

Exists(slot) == slot.status = "VALID"

\* mutant: the entry keeps the flag it had
UpdateUnmarked(slot, mapping) == [slot EXCEPT !.mapping = mapping]

Update(slot, mapping) == [slot EXCEPT !.mapping = mapping, !.dirty = TRUE]

\* The code refuses every slot that is not VALID, while a slot is reserved as WAITING
\* and nothing else makes one VALID.  TRUE accepts a slot that is WAITING, to explore
\* what lies behind the error this leads to.
InsertRefused(slot) ==
    IF InsertsReserved THEN slot.status # "WAITING" ELSE ~ Exists(slot)

\* mutant: the slot is filled and stays WAITING
InsertUnready(slot, mapping) == [slot EXCEPT !.mapping = mapping, !.dirty = FALSE]

\* mutant: the slot becomes VALID with what was in it
InsertUnset(slot, mapping) == [slot EXCEPT !.dirty = FALSE, !.status = "VALID"]

Insert(slot, mapping) ==
    [slot EXCEPT !.mapping = mapping, !.dirty = FALSE, !.status = "VALID"]

Reserved(stream) ==
    [mapping |-> Unset, dirty |-> FALSE, status |-> "WAITING", stream_id |-> stream]

MakeClean(slot) == [slot EXCEPT !.dirty = FALSE]

-----------------------------------------------------------------------------
(* The table: slots by key, and the LRU list, most recent key first           *)

Table == [slots : [Keys -> Slot], lru_list : Seq(Keys)]

Empty == [slots |-> [k \in Keys |-> NoSlot], lru_list |-> <<>>]

Entries(t) == {k \in Keys : t.slots[k].status # "FREE"}

CheckFreeSlotAvailability(t) == Cardinality(Entries(t)) < Capacity

pos(t, k) == CHOOSE i \in DOMAIN t.lru_list : t.lru_list[i] = k

SplicedToFront(list, p) ==
    [i \in DOMAIN list |-> IF i = 1 THEN list[p] ELSE IF i <= p THEN list[i - 1] ELSE list[i]]

RetrievePPA(t, k) == [t EXCEPT !.lru_list = SplicedToFront(@, pos(t, k))]

ReserveSlotForLpn(t, stream, k) ==
    [t EXCEPT !.slots[k] = Reserved(stream), !.lru_list = <<k>> \o @]

Coldest(t) == t.lru_list[Len(t.lru_list)]

\* mutant: the list keeps the key
EvictFromMap(t) == [t EXCEPT !.slots[Coldest(t)] = NoSlot]

EvictOne(t) ==
    [slots    |-> [t.slots EXCEPT ![Coldest(t)] = NoSlot],
     lru_list |-> SubSeq(t.lru_list, 1, Len(t.lru_list) - 1)]
=============================================================================
