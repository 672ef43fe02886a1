-------------------------- MODULE CachedMappingProofs --------------------------
(***************************************************************************)
(* Proofs about CachedMapping for any streams, pages, mappings, capacity   *)
(* and bounds, and for both values of InsertsReserved.  First what the     *)
(* methods do to a well-formed table, whoever calls them; then that the    *)
(* dispatcher's calls keep the table and the flash in step.                *)
(***************************************************************************)
EXTENDS CachedMapping, FiniteSetTheorems, SequenceTheorems, TLAPS

-----------------------------------------------------------------------------
(* The LRU list                                                               *)

Names(list) == {list[i] : i \in DOMAIN list}

Distinct(list) == \A i, j \in DOMAIN list : list[i] = list[j] => i = j

\* Splicing an element to the front loses none and repeats none.
LEMMA SplicedNames ==
    ASSUME NEW S, NEW list \in Seq(S), NEW p \in DOMAIN list, Distinct(list)
    PROVE  /\ SplicedToFront(list, p) \in Seq(S)
           /\ Names(SplicedToFront(list, p)) = Names(list)
           /\ Distinct(SplicedToFront(list, p))
<1> DEFINE new == SplicedToFront(list, p)
           from(i) == IF i = 1 THEN p ELSE IF i <= p THEN i - 1 ELSE i
<1>1. DOMAIN list = 1..Len(list) /\ Len(list) \in Nat /\ p \in 1..Len(list)
  OBVIOUS
<1>2. /\ new = [i \in 1..Len(list) |-> list[from(i)]]
      /\ \A i \in 1..Len(list) : from(i) \in 1..Len(list)
  BY <1>1 DEF SplicedToFront
<1>3. \A i \in 1..Len(list) : list[i] \in S
  BY <1>1
<1>4. new \in Seq(S) /\ DOMAIN new = 1..Len(list)
  BY <1>1, <1>2, <1>3, SeqDef
<1>5. \A j \in 1..Len(list) : \E i \in 1..Len(list) : from(i) = j
  <2> TAKE j \in 1..Len(list)
  <2>1. CASE j = p
    BY <1>1, <2>1
  <2>2. CASE j < p
    <3> WITNESS j + 1 \in 1..Len(list)
    <3> QED
      BY <1>1, <2>2
  <2>3. CASE j > p
    <3> WITNESS j \in 1..Len(list)
    <3> QED
      BY <1>1, <2>3
  <2> QED
    BY <1>1, <2>1, <2>2, <2>3
<1>6. \A i, j \in 1..Len(list) : from(i) = from(j) => i = j
  BY <1>1
<1> HIDE DEF from, new
<1>7. Names(new) = Names(list)
  BY <1>1, <1>2, <1>4, <1>5 DEF Names
<1>8. Distinct(new)
  BY <1>1, <1>2, <1>4, <1>6 DEF Distinct
<1> QED
  BY <1>4, <1>7, <1>8 DEF new

LEMMA PushedNames ==
    ASSUME NEW S, NEW list \in Seq(S), NEW k \in S, k \notin Names(list), Distinct(list)
    PROVE  /\ <<k>> \o list \in Seq(S)
           /\ Names(<<k>> \o list) = Names(list) \cup {k}
           /\ Distinct(<<k>> \o list)
<1> DEFINE new == <<k>> \o list
<1>1. /\ DOMAIN list = 1..Len(list) /\ Len(list) \in Nat
      /\ new \in Seq(S) /\ DOMAIN new = 1..(Len(list) + 1)
      /\ new[1] = k /\ \A i \in 1..Len(list) : new[i + 1] = list[i]
  OBVIOUS
<1> HIDE DEF new
<1>2. \A i \in DOMAIN new : i # 1 => i - 1 \in DOMAIN list /\ new[i] = list[i - 1]
  <2> TAKE i \in DOMAIN new
  <2>1. i # 1 => i - 1 \in 1..Len(list) /\ (i - 1) + 1 = i
    BY <1>1
  <2>2. i # 1 => new[(i - 1) + 1] = list[i - 1]
    BY <1>1, <2>1
  <2> QED
    BY <1>1, <2>1, <2>2
<1>3. Names(new) = Names(list) \cup {k}
  <2>1. Names(new) \subseteq Names(list) \cup {k}
    BY <1>1, <1>2 DEF Names
  <2>2. k \in Names(new)
    BY <1>1 DEF Names
  <2>3. \A i \in DOMAIN list : i + 1 \in DOMAIN new /\ new[i + 1] = list[i]
    BY <1>1
  <2> QED
    BY <2>1, <2>2, <2>3 DEF Names
<1>4. Distinct(new)
  <2> SUFFICES ASSUME NEW i \in DOMAIN new, NEW j \in DOMAIN new, new[i] = new[j]
               PROVE  i = j
    BY DEF Distinct
  <2>1. CASE i = 1 \/ j = 1
    BY <1>1, <1>2, <2>1 DEF Names
  <2>2. CASE i # 1 /\ j # 1
    <3>1. i - 1 = j - 1
      BY <1>2, <2>2 DEF Distinct
    <3> QED
      BY <1>1, <3>1
  <2> QED
    BY <2>1, <2>2
<1> QED
  BY <1>1, <1>3, <1>4 DEF new

LEMMA PoppedNames ==
    ASSUME NEW S, NEW list \in Seq(S), list # <<>>, Distinct(list)
    PROVE  LET last == list[Len(list)]
               new  == SubSeq(list, 1, Len(list) - 1)
           IN  /\ last \in Names(list)
               /\ new \in Seq(S)
               /\ Names(new) = Names(list) \ {last}
               /\ Distinct(new)
<1> DEFINE last == list[Len(list)]
           new  == SubSeq(list, 1, Len(list) - 1)
<1>1. /\ DOMAIN list = 1..Len(list) /\ Len(list) \in Nat /\ Len(list) >= 1
      /\ new \in Seq(S) /\ DOMAIN new = 1..(Len(list) - 1)
      /\ \A i \in 1..(Len(list) - 1) : new[i] = list[i]
  OBVIOUS
<1> HIDE DEF new
<1>2. last \in Names(list)
  BY <1>1 DEF Names
<1>3. Names(new) = Names(list) \ {last}
  <2>1. \A i \in 1..Len(list) : i # Len(list) => i \in 1..(Len(list) - 1)
    <3> DEFINE n == Len(list)
    <3>1. n \in Nat
      BY <1>1
    <3> HIDE DEF n
    <3>2. \A i \in 1..n : i # n => i \in 1..(n - 1)
      BY <3>1
    <3> QED
      BY <3>2 DEF n
  <2>2. \A i \in 1..(Len(list) - 1) : i \in 1..Len(list) /\ list[i] # last
    BY <1>1 DEF Distinct
  <2>3. ASSUME NEW i \in 1..(Len(list) - 1) PROVE new[i] \in Names(list) \ {last}
    BY <1>1, <2>2 DEF Names
  <2>4. ASSUME NEW i \in 1..Len(list), list[i] # last PROVE list[i] \in Names(new)
    <3>1. i \in 1..(Len(list) - 1)
      BY <2>1, <2>4
    <3> QED
      BY <1>1, <3>1 DEF Names
  <2>5. Names(new) \subseteq Names(list) \ {last}
    <3> HIDE DEF last
    <3> QED
      BY <1>1, <2>3 DEF Names
  <2>6. ASSUME NEW x \in Names(list), x # last PROVE x \in Names(new)
    <3>1. PICK i \in 1..Len(list) : list[i] = x
      BY <1>1, <2>6 DEF Names
    <3> QED
      BY <2>4, <2>6, <3>1
  <2> QED
    BY <2>5, <2>6
<1>4. Distinct(new)
  BY <1>1 DEF Distinct
<1> QED
  BY <1>1, <1>2, <1>3, <1>4 DEF new

-----------------------------------------------------------------------------
(* The table                                                                  *)

\* A table as its own methods leave it.
TableInv(t) ==
    /\ t \in Table
    /\ \A k \in Keys : Exists(t.slots[k]) => t.slots[k].mapping \in Mappings
    /\ Names(t.lru_list) = Entries(t)
    /\ Distinct(t.lru_list)
    /\ IsFiniteSet(Entries(t)) /\ Cardinality(Entries(t)) <= Capacity
    /\ \A k \in Entries(t) : /\ t.slots[k].stream_id \in Streams
                             /\ KeyToLpn(t.slots[k].stream_id, k) \in Lpas

LEMMA EmptyTable == TableInv(Empty)
<1>1. Entries(Empty) = {} /\ \A k \in Keys : ~ Exists(Empty.slots[k])
  BY DEF Entries, Empty, NoSlot, Exists
<1>2. Empty \in Table
  BY DEF Empty, Table, NoSlot, Slot
<1>3. Names(Empty.lru_list) = {} /\ Distinct(Empty.lru_list)
  BY DEF Empty, Names, Distinct
<1>4. IsFiniteSet({}) /\ Cardinality({}) <= Capacity
  BY FS_EmptySet, TableAssumption
<1> QED
  BY <1>1, <1>2, <1>3, <1>4 DEF TableInv

\* A method that fills or marks a slot leaves the rest of the table alone.
LEMMA SlotChange ==
    ASSUME NEW t, TableInv(t), NEW k \in Entries(t), NEW slot \in Slot,
           slot.status # "FREE", slot.stream_id = t.slots[k].stream_id,
           Exists(slot) => slot.mapping \in Mappings
    PROVE  /\ TableInv([t EXCEPT !.slots[k] = slot])
           /\ [t EXCEPT !.slots[k] = slot].slots = [t.slots EXCEPT ![k] = slot]
<1> DEFINE new == [t EXCEPT !.slots[k] = slot]
<1>1. t \in Table /\ k \in Keys
  BY DEF TableInv, Entries
<1>2. /\ new \in Table /\ new.lru_list = t.lru_list
      /\ new.slots = [t.slots EXCEPT ![k] = slot]
  BY <1>1 DEF Table
<1> HIDE DEF new
<1>3. t.slots \in [Keys -> Slot]
  BY <1>1 DEF Table
<1>4. \A j \in Keys : new.slots[j] = IF j = k THEN slot ELSE t.slots[j]
  BY <1>1, <1>2, <1>3
<1>5. Entries(new) = Entries(t)
  BY <1>4 DEF Entries
<1> QED
  BY <1>1, <1>2, <1>4, <1>5 DEF TableInv, new, Entries

LEMMA RetrieveKeeps ==
    ASSUME NEW t, TableInv(t), NEW k \in Entries(t)
    PROVE  /\ TableInv(RetrievePPA(t, k))
           /\ RetrievePPA(t, k).slots = t.slots
           /\ Entries(RetrievePPA(t, k)) = Entries(t)
<1> DEFINE new == RetrievePPA(t, k)
           p   == pos(t, k)
<1>1. t \in Table /\ t.lru_list \in Seq(Keys) /\ Distinct(t.lru_list)
  BY DEF TableInv, Table
<1>2. p \in DOMAIN t.lru_list
  <2>1. \E i \in DOMAIN t.lru_list : t.lru_list[i] = k
    BY DEF TableInv, Names
  <2> QED
    BY <2>1 DEF pos
<1> HIDE DEF p
<1>3. /\ SplicedToFront(t.lru_list, p) \in Seq(Keys)
      /\ Names(SplicedToFront(t.lru_list, p)) = Names(t.lru_list)
      /\ Distinct(SplicedToFront(t.lru_list, p))
  BY <1>1, <1>2, SplicedNames
<1>4. /\ new \in Table /\ new.slots = t.slots
      /\ new.lru_list = SplicedToFront(t.lru_list, p)
  BY <1>1, <1>3 DEF RetrievePPA, Table, p
<1> HIDE DEF new
<1>5. Entries(new) = Entries(t)
  BY <1>4 DEF Entries
<1> QED
  BY <1>3, <1>4, <1>5 DEF TableInv, new

LEMMA ReserveKeeps ==
    ASSUME NEW t, TableInv(t), NEW s \in Streams, NEW l \in Lpas,
           Key(s, l) \notin Entries(t), CheckFreeSlotAvailability(t)
    PROVE  /\ TableInv(ReserveSlotForLpn(t, s, Key(s, l)))
           /\ ReserveSlotForLpn(t, s, Key(s, l)).slots
                = [t.slots EXCEPT ![Key(s, l)] = Reserved(s)]
<1> DEFINE k   == Key(s, l)
           new == ReserveSlotForLpn(t, s, k)
<1>1. k \in Keys /\ t \in Table
  BY DEF Keys, TableInv
<1>2. KeyToLpn(s, k) = l
  <2> DEFINE base == s * LpnSpan
  <2>1. base \in Nat /\ l \in Nat
    BY TableAssumption
  <2> HIDE DEF base
  <2>2. (base + l) - base = l
    BY <2>1
  <2> QED
    BY <2>2 DEF Key, KeyToLpn, base
<1> HIDE DEF k
<1>3. /\ <<k>> \o t.lru_list \in Seq(Keys)
      /\ Names(<<k>> \o t.lru_list) = Entries(t) \cup {k}
      /\ Distinct(<<k>> \o t.lru_list)
  <2>1. t.lru_list \in Seq(Keys) /\ Distinct(t.lru_list) /\ Names(t.lru_list) = Entries(t)
    BY DEF TableInv, Table
  <2>2. k \notin Names(t.lru_list)
    BY <2>1 DEF k
  <2> QED
    BY <1>1, <2>1, <2>2, PushedNames
<1>4. Reserved(s) \in Slot /\ ~ Exists(Reserved(s)) /\ Reserved(s).status # "FREE"
      /\ Reserved(s).stream_id = s
  BY DEF Reserved, Slot, Exists
<1>5. /\ new \in Table
      /\ new.slots = [t.slots EXCEPT ![k] = Reserved(s)]
      /\ new.lru_list = <<k>> \o t.lru_list
  BY <1>1, <1>3, <1>4 DEF ReserveSlotForLpn, Table
<1> HIDE DEF new
<1>6. \A j \in Keys : new.slots[j] = IF j = k THEN Reserved(s) ELSE t.slots[j]
  BY <1>1, <1>5 DEF Table
<1>7. Entries(new) = Entries(t) \cup {k}
  BY <1>1, <1>4, <1>6 DEF Entries
<1>8. /\ IsFiniteSet(Entries(t) \cup {k})
      /\ Cardinality(Entries(t) \cup {k}) = Cardinality(Entries(t)) + 1
      /\ Cardinality(Entries(t)) \in Nat
  BY FS_AddElement, FS_CardinalityType DEF TableInv, k
<1>9. Cardinality(Entries(new)) <= Capacity
  BY <1>7, <1>8, TableAssumption DEF CheckFreeSlotAvailability
<1>10. \A j \in Entries(new) : /\ new.slots[j].stream_id \in Streams
                               /\ KeyToLpn(new.slots[j].stream_id, j) \in Lpas
  BY <1>1, <1>2, <1>4, <1>6, <1>7 DEF TableInv, Entries
<1>11. \A j \in Keys : Exists(new.slots[j]) => new.slots[j].mapping \in Mappings
  BY <1>4, <1>6 DEF TableInv
<1>12. TableInv(new)
  BY <1>3, <1>5, <1>7, <1>8, <1>9, <1>10, <1>11 DEF TableInv
<1> QED
  BY <1>5, <1>12 DEF new, k

LEMMA EvictKeeps ==
    ASSUME NEW t, TableInv(t), Entries(t) # {}
    PROVE  /\ Coldest(t) \in Entries(t)
           /\ TableInv(EvictOne(t))
           /\ EvictOne(t).slots = [t.slots EXCEPT ![Coldest(t)] = NoSlot]
           /\ Entries(EvictOne(t)) = Entries(t) \ {Coldest(t)}
<1> DEFINE k   == Coldest(t)
           new == EvictOne(t)
<1>1. t \in Table /\ t.lru_list \in Seq(Keys) /\ Distinct(t.lru_list)
      /\ Names(t.lru_list) = Entries(t)
  BY DEF TableInv, Table
<1>2. t.lru_list # <<>>
  BY <1>1 DEF Names
<1>3. /\ k \in Entries(t)
      /\ SubSeq(t.lru_list, 1, Len(t.lru_list) - 1) \in Seq(Keys)
      /\ Names(SubSeq(t.lru_list, 1, Len(t.lru_list) - 1)) = Entries(t) \ {k}
      /\ Distinct(SubSeq(t.lru_list, 1, Len(t.lru_list) - 1))
  BY <1>1, <1>2, PoppedNames DEF Coldest
<1>4. k \in Keys
  BY <1>3 DEF Entries
<1> HIDE DEF k
<1>5. NoSlot \in Slot /\ ~ Exists(NoSlot) /\ NoSlot.status = "FREE"
  BY DEF NoSlot, Slot, Exists
<1>6. /\ new \in Table
      /\ new.slots = [t.slots EXCEPT ![k] = NoSlot]
      /\ new.lru_list = SubSeq(t.lru_list, 1, Len(t.lru_list) - 1)
  BY <1>1, <1>3, <1>5 DEF EvictOne, Table, k
<1> HIDE DEF new
<1>7. \A j \in Keys : new.slots[j] = IF j = k THEN NoSlot ELSE t.slots[j]
  BY <1>1, <1>6 DEF Table
<1>8. Entries(new) = Entries(t) \ {k}
  BY <1>4, <1>5, <1>7 DEF Entries
<1>9. /\ IsFiniteSet(Entries(t) \ {k})
      /\ Cardinality(Entries(t) \ {k}) = Cardinality(Entries(t)) - 1
      /\ Cardinality(Entries(t)) \in Nat
  BY <1>3, FS_RemoveElement, FS_CardinalityType DEF TableInv
<1>10. Cardinality(Entries(new)) <= Capacity
  BY <1>8, <1>9, TableAssumption DEF TableInv
<1>11. \A j \in Entries(new) : /\ new.slots[j].stream_id \in Streams
                               /\ KeyToLpn(new.slots[j].stream_id, j) \in Lpas
  BY <1>7, <1>8 DEF TableInv, Entries
<1>12. \A j \in Keys : Exists(new.slots[j]) => new.slots[j].mapping \in Mappings
  BY <1>5, <1>7 DEF TableInv
<1>13. TableInv(new)
  BY <1>3, <1>6, <1>8, <1>9, <1>10, <1>11, <1>12 DEF TableInv
<1> QED
  BY <1>3, <1>6, <1>8, <1>13 DEF new, k

-----------------------------------------------------------------------------
(* The inductive invariant                                                    *)

TrafficTypes ==
    /\ stored \in [Keys -> Mappings]
    /\ reading \subseteq Keys
    /\ writing \in [Keys -> Seq(Mappings)]
    /\ exit \in Errors

\* WaitingIsReading and CleanIsStored, for one entry.
KeyInv(k) ==
    /\ k \in reading <=> cmt.slots[k].status = "WAITING"
    /\ k \in reading => writing[k] = <<>>
    /\ Exists(cmt.slots[k]) => cmt.slots[k].dirty \/ cmt.slots[k].mapping = Settled(k)

IInv ==
    /\ TableInv(cmt)
    /\ TrafficTypes
    /\ \A k \in Keys : KeyInv(k)

LEMMA IInvImplies == IInv => TypeOK /\ ListMatchesMap /\ WaitingIsReading /\ CleanIsStored
<1> SUFFICES ASSUME IInv PROVE TypeOK /\ ListMatchesMap /\ WaitingIsReading /\ CleanIsStored
  OBVIOUS
<1>1. TypeOK
  BY DEF IInv, TableInv, TrafficTypes, TypeOK
<1>2. ListMatchesMap
  <2>1. \A k \in Keys : k \in Entries(cmt) <=> \E i \in DOMAIN cmt.lru_list : cmt.lru_list[i] = k
    BY DEF IInv, TableInv, Names
  <2> QED
    BY <2>1 DEF IInv, TableInv, Distinct, ListMatchesMap
<1>3. WaitingIsReading /\ CleanIsStored
  BY DEF IInv, KeyInv, WaitingIsReading, CleanIsStored
<1> QED
  BY <1>1, <1>2, <1>3

\* What flash will say after the last of the write-backs w.
LastOf(w, value) == IF w # <<>> THEN w[Len(w)] ELSE value

LEMMA AppendLast ==
    ASSUME NEW S, NEW w \in Seq(S), NEW m \in S, NEW value
    PROVE  Append(w, m) \in Seq(S) /\ LastOf(Append(w, m), value) = m
  BY DEF LastOf

LEMMA TailLast ==
    ASSUME NEW S, NEW w \in Seq(S), w # <<>>, NEW value
    PROVE  /\ Tail(w) \in Seq(S) /\ Head(w) \in S
           /\ LastOf(Tail(w), Head(w)) = LastOf(w, value)
<1> DEFINE t == Tail(w)
           n == Len(w)
<1>1. /\ t \in Seq(S) /\ Len(t) = n - 1
      /\ \A i \in 1..(n - 1) : t[i] = w[i + 1]
  BY HeadTailProperties
<1>2. n \in Nat /\ n >= 1 /\ Head(w) \in S /\ Head(w) = w[1]
  OBVIOUS
<1>3. t = <<>> <=> n = 1
  <2> HIDE DEF t, n
  <2>1. t = <<>> <=> Len(t) = 0
    BY <1>1, EmptySeq
  <2> QED
    BY <1>1, <1>2, <2>1
<1>4. t # <<>> => t[Len(t)] = w[n]
  <2> HIDE DEF t, n
  <2>1. n # 1 => n - 1 \in 1..(n - 1) /\ (n - 1) + 1 = n
    BY <1>2
  <2> QED
    BY <1>1, <1>3, <2>1
<1> HIDE DEF t
<1> QED
  BY <1>1, <1>2, <1>3, <1>4 DEF LastOf, t

\* An entry that a step does not touch.
Same(k) ==
    /\ cmt'.slots[k] = cmt.slots[k]
    /\ stored'[k] = stored[k]
    /\ writing'[k] = writing[k]
    /\ k \in reading' <=> k \in reading

LEMMA SameKeeps ==
    ASSUME NEW k, KeyInv(k), Same(k)
    PROVE  KeyInv(k)' /\ Found(k)' = Found(k)
  BY DEF KeyInv, Same, Found, Settled

\* Only a write changes what a look-up of a page says.
RemapOnly ==
    \A k \in Keys : Found(k)' # Found(k) => \E m \in Mappings : Remap(k, m) /\ Found(k)' = m

LEMMA InitIInv == Init => IInv
<1> SUFFICES ASSUME Init PROVE IInv
  OBVIOUS
<1>1. TableInv(cmt)
  BY EmptyTable DEF Init
<1>2. TrafficTypes
  BY TrafficAssumption DEF Init, TrafficTypes, Errors
<1>3. \A k \in Keys : KeyInv(k)
  BY DEF Init, KeyInv, Empty, NoSlot, Exists
<1> QED
  BY <1>1, <1>2, <1>3 DEF IInv

-----------------------------------------------------------------------------
(* One lemma an action                                                        *)

LEMMA LookupKeeps ==
    ASSUME IInv, NEW k \in Keys, Lookup(k)
    PROVE  IInv' /\ RemapOnly
<1>1. k \in Entries(cmt)
  BY DEF Lookup, Exists, Entries
<1>2. TableInv(cmt') /\ cmt'.slots = cmt.slots
  BY <1>1, RetrieveKeeps DEF Lookup, IInv
<1>3. \A j \in Keys : Same(j)
  BY <1>2 DEF Lookup, Same
<1>4. TrafficTypes'
  BY DEF Lookup, IInv, TrafficTypes
<1> QED
  BY <1>2, <1>3, <1>4, SameKeeps DEF IInv, RemapOnly

LEMMA RemapKeeps ==
    ASSUME IInv, NEW k \in Keys, NEW m \in Mappings, Remap(k, m)
    PROVE  IInv' /\ RemapOnly
<1> DEFINE t == RetrievePPA(cmt, k)
           slot == Update(t.slots[k], m)
<1>1. k \in Entries(cmt) /\ Exists(cmt.slots[k])
  BY DEF Remap, Exists, Entries
<1>2. TableInv(t) /\ t.slots = cmt.slots /\ k \in Entries(t)
  BY <1>1, RetrieveKeeps DEF IInv
<1>3. t.slots \in [Keys -> Slot]
  BY <1>2 DEF TableInv, Table
<1>4. cmt' = [t EXCEPT !.slots[k] = slot]
  BY DEF Remap
<1> HIDE DEF t
<1>5. /\ slot \in Slot /\ slot.status = "VALID" /\ slot.mapping = m /\ slot.dirty = TRUE
      /\ slot.stream_id = t.slots[k].stream_id
  BY <1>1, <1>2, <1>3 DEF Update, Slot, Exists
<1> HIDE DEF slot
<1>6. TableInv(cmt') /\ cmt'.slots = [cmt.slots EXCEPT ![k] = slot]
  BY <1>2, <1>4, <1>5, SlotChange
<1>7. cmt'.slots[k] = slot /\ \A j \in Keys : j # k => cmt'.slots[j] = cmt.slots[j]
  BY <1>2, <1>3, <1>6
<1>8. \A j \in Keys : j # k => Same(j)
  BY <1>7 DEF Remap, Same
<1>9. TrafficTypes'
  BY DEF Remap, IInv, TrafficTypes
<1>10. KeyInv(k)' /\ Found(k)' = m
  <2>1. k \notin reading
    BY <1>1 DEF IInv, KeyInv, Exists
  <2> QED
    BY <1>5, <1>7, <2>1 DEF Remap, KeyInv, Found, Exists
<1> QED
  BY <1>6, <1>8, <1>9, <1>10, SameKeeps DEF IInv, RemapOnly

LEMMA MissKeeps ==
    ASSUME IInv, NEW s \in Streams, NEW l \in Lpas, Miss(s, l)
    PROVE  IInv' /\ RemapOnly
<1> DEFINE k == Key(s, l)
<1>1. k \in Keys /\ k \notin Entries(cmt)
  BY DEF Keys, Miss
<1>2. TableInv(cmt') /\ cmt'.slots = [cmt.slots EXCEPT ![k] = Reserved(s)]
  BY ReserveKeeps DEF Miss, IInv
<1>3. writing[k] = <<>> /\ reading' = reading \cup {k} /\ UNCHANGED <<stored, writing, exit>>
  BY DEF Miss
<1> HIDE DEF k
<1>4. cmt'.slots[k] = Reserved(s) /\ \A j \in Keys : j # k => cmt'.slots[j] = cmt.slots[j]
  BY <1>1, <1>2 DEF IInv, TableInv, Table
<1>5. \A j \in Keys : j # k => Same(j)
  BY <1>3, <1>4 DEF Same
<1>6. TrafficTypes'
  BY <1>1, <1>3 DEF IInv, TrafficTypes
<1>7. KeyInv(k)' /\ Found(k)' = Found(k)
  <2>1. ~ Exists(cmt.slots[k])
    BY <1>1 DEF Entries, Exists
  <2> QED
    BY <1>3, <1>4, <2>1 DEF KeyInv, Found, Settled, Reserved, Exists
<1> QED
  BY <1>2, <1>5, <1>6, <1>7, SameKeeps DEF IInv, RemapOnly

LEMMA MappingReadKeeps ==
    ASSUME IInv, NEW k \in Keys, MappingRead(k)
    PROVE  IInv' /\ RemapOnly
<1> DEFINE slot == Insert(cmt.slots[k], stored[k])
<1>1. /\ cmt.slots[k].status = "WAITING" /\ writing[k] = <<>>
      /\ k \in Entries(cmt) /\ cmt.slots[k] \in Slot /\ stored[k] \in Mappings
  BY DEF MappingRead, IInv, KeyInv, TrafficTypes, TableInv, Table, Entries
<1>2. CASE InsertRefused(cmt.slots[k])
  <2>1. /\ UNCHANGED <<cmt, reading, stored, writing>>
        /\ exit' = "not_found_or_not_valid"
    BY <1>2 DEF MappingRead
  <2>2. \A j \in Keys : Same(j)
    BY <2>1 DEF Same
  <2>3. TrafficTypes'
    BY <2>1 DEF IInv, TrafficTypes, Errors
  <2> QED
    BY <2>1, <2>2, <2>3, SameKeeps DEF IInv, RemapOnly
<1>3. CASE ~ InsertRefused(cmt.slots[k])
  <2>1. /\ cmt' = [cmt EXCEPT !.slots[k] = slot] /\ reading' = reading \ {k}
        /\ UNCHANGED <<stored, writing, exit>>
    BY <1>3 DEF MappingRead
  <2>2. /\ slot \in Slot /\ slot.status = "VALID" /\ slot.mapping = stored[k]
        /\ slot.stream_id = cmt.slots[k].stream_id
    BY <1>1 DEF Insert, Slot
  <2> HIDE DEF slot
  <2>3. TableInv(cmt') /\ cmt'.slots = [cmt.slots EXCEPT ![k] = slot]
    BY <1>1, <2>1, <2>2, SlotChange DEF IInv
  <2>4. cmt'.slots[k] = slot /\ \A j \in Keys : j # k => cmt'.slots[j] = cmt.slots[j]
    BY <2>3 DEF IInv, TableInv, Table
  <2>5. \A j \in Keys : j # k => Same(j)
    BY <2>1, <2>4 DEF Same
  <2>6. TrafficTypes'
    BY <2>1 DEF IInv, TrafficTypes
  <2>7. KeyInv(k)' /\ Found(k)' = Found(k)
    BY <1>1, <2>1, <2>2, <2>4 DEF KeyInv, Found, Settled, Exists
  <2> QED
    BY <2>3, <2>5, <2>6, <2>7, SameKeeps DEF IInv, RemapOnly
<1> QED
  BY <1>2, <1>3

LEMMA EvictionKeeps ==
    ASSUME IInv, Evict
    PROVE  IInv' /\ RemapOnly
<1>0. PICK k : k = Coldest(cmt)
  OBVIOUS
<1> DEFINE slot == cmt.slots[k]
<1>1. /\ TableInv(cmt) /\ Entries(cmt) # {} /\ reading = {}
      /\ cmt' = EvictOne(cmt) /\ UNCHANGED <<stored, reading, exit>>
  BY DEF IInv, Evict
<1>2. /\ k \in Entries(cmt) /\ TableInv(cmt')
      /\ cmt'.slots = [cmt.slots EXCEPT ![k] = NoSlot]
  BY <1>0, <1>1, EvictKeeps
<1>3. k \in Keys /\ slot.stream_id \in Streams /\ KeyToLpn(slot.stream_id, k) \in Lpas
  BY <1>2 DEF IInv, TableInv, Entries
<1>4. Key(slot.stream_id, KeyToLpn(slot.stream_id, k)) = k
  <2> DEFINE base == slot.stream_id * LpnSpan
  <2>1. base \in Nat /\ k \in Nat
    <3>1. PICK s \in Streams, l \in Lpas : k = Key(s, l)
      BY <1>3 DEF Keys
    <3>2. s \in Nat /\ l \in Nat /\ LpnSpan \in Nat
      BY TableAssumption
    <3>3. slot.stream_id \in Nat
      <4> HIDE DEF slot
      <4> QED
        BY <1>3, TableAssumption
    <3>4. s * LpnSpan \in Nat /\ slot.stream_id * LpnSpan \in Nat
      BY <3>2, <3>3
    <3> QED
      BY <3>1, <3>2, <3>4 DEF Key
  <2> HIDE DEF base, slot
  <2>2. base + (k - base) = k
    BY <2>1
  <2> QED
    BY <2>2 DEF Key, KeyToLpn, base
<1>5. writing' = IF slot.dirty THEN [writing EXCEPT ![k] = Append(@, slot.mapping)] ELSE writing
  BY <1>0, <1>4 DEF Evict, Sent
<1>6. slot.status = "VALID" /\ slot.mapping \in Mappings
      /\ (slot.dirty \/ slot.mapping = Settled(k))
  <2>1. cmt.slots[k] \in Slot /\ KeyInv(k) /\ slot.status # "FREE"
    BY <1>2, <1>3 DEF IInv, TableInv, Table, Entries
  <2>2. slot.status = "VALID"
    BY <1>1, <2>1 DEF Slot, KeyInv
  <2> QED
    BY <1>3, <2>1, <2>2 DEF IInv, TableInv, KeyInv, Exists
<1>7. slot.dirty \in BOOLEAN
  BY <1>1, <1>3 DEF TableInv, Table, Slot
<1>8. cmt'.slots[k] = NoSlot /\ \A j \in Keys : j # k => cmt'.slots[j] = cmt.slots[j]
  BY <1>1, <1>2, <1>3 DEF TableInv, Table
<1>9. writing \in [Keys -> Seq(Mappings)]
  BY DEF IInv, TrafficTypes
<1>10. \A j \in Keys : j # k => Same(j)
  BY <1>1, <1>3, <1>5, <1>8, <1>9 DEF Same
<1>11. Append(writing[k], slot.mapping) \in Seq(Mappings)
       /\ LastOf(Append(writing[k], slot.mapping), stored[k]) = slot.mapping
  BY <1>3, <1>6, <1>9, AppendLast
<1>12. TrafficTypes'
  BY <1>1, <1>3, <1>5, <1>9, <1>11 DEF IInv, TrafficTypes
<1>13. Settled(k)' = slot.mapping
  <2>1. CASE slot.dirty
    <3>1. writing'[k] = Append(writing[k], slot.mapping) /\ stored'[k] = stored[k]
      BY <1>1, <1>3, <1>5, <1>9, <2>1
    <3> QED
      BY <1>11, <3>1 DEF Settled, LastOf
  <2>2. CASE ~ slot.dirty
    BY <1>1, <1>5, <1>6, <2>2 DEF Settled
  <2> QED
    BY <2>1, <2>2
<1>14. KeyInv(k)' /\ Found(k)' = Found(k)
  BY <1>1, <1>6, <1>8, <1>13 DEF KeyInv, Found, NoSlot, Exists
<1> QED
  BY <1>2, <1>10, <1>12, <1>14, SameKeeps DEF IInv, RemapOnly

LEMMA WriteBackKeeps ==
    ASSUME IInv, NEW k \in Keys, WriteBack(k)
    PROVE  IInv' /\ RemapOnly
<1> DEFINE old  == cmt.slots[k]
           slot == MakeClean(old)
<1>1. /\ cmt' = [cmt EXCEPT !.slots[k] = slot] /\ UNCHANGED <<stored, reading, exit>>
      /\ writing' = [writing EXCEPT ![k] = Append(@, old.mapping)]
      /\ Exists(old)
  BY DEF WriteBack, Sent
<1>2. k \in Entries(cmt) /\ old \in Slot /\ old.mapping \in Mappings
  BY <1>1 DEF IInv, TableInv, Table, Entries, Exists
<1>3. /\ slot \in Slot /\ slot.status = "VALID" /\ slot.mapping = old.mapping
      /\ slot.stream_id = old.stream_id
  BY <1>1, <1>2 DEF MakeClean, Slot, Exists
<1>4. k \notin reading
  BY <1>1 DEF IInv, KeyInv, Exists
<1> HIDE DEF slot
<1>5. TableInv(cmt') /\ cmt'.slots = [cmt.slots EXCEPT ![k] = slot]
  BY <1>1, <1>2, <1>3, SlotChange DEF IInv
<1>6. cmt'.slots[k] = slot /\ \A j \in Keys : j # k => cmt'.slots[j] = cmt.slots[j]
  BY <1>5 DEF IInv, TableInv, Table
<1>7. writing \in [Keys -> Seq(Mappings)]
  BY DEF IInv, TrafficTypes
<1>8. \A j \in Keys : j # k => Same(j)
  BY <1>1, <1>6, <1>7 DEF Same
<1>9. Append(writing[k], old.mapping) \in Seq(Mappings)
      /\ LastOf(Append(writing[k], old.mapping), stored[k]) = old.mapping
  BY <1>2, <1>7, AppendLast
<1>10. TrafficTypes'
  BY <1>1, <1>7, <1>9 DEF IInv, TrafficTypes
<1>11. Settled(k)' = old.mapping
  <2>1. writing'[k] = Append(writing[k], old.mapping) /\ stored'[k] = stored[k]
    BY <1>1, <1>7
  <2> QED
    BY <1>9, <2>1 DEF Settled, LastOf
<1>12. KeyInv(k)' /\ Found(k)' = Found(k)
  BY <1>1, <1>3, <1>4, <1>6, <1>11 DEF KeyInv, Found, Exists
<1> QED
  BY <1>5, <1>8, <1>10, <1>12, SameKeeps DEF IInv, RemapOnly

LEMMA WriteDoneKeeps ==
    ASSUME IInv, NEW k \in Keys, WriteDone(k)
    PROVE  IInv' /\ RemapOnly
<1>1. /\ writing[k] # <<>> /\ UNCHANGED <<cmt, reading, exit>>
      /\ stored' = [stored EXCEPT ![k] = Head(writing[k])]
      /\ writing' = [writing EXCEPT ![k] = Tail(@)]
  BY DEF WriteDone
<1>2. stored \in [Keys -> Mappings] /\ writing \in [Keys -> Seq(Mappings)] /\ k \notin reading
  BY <1>1 DEF IInv, TrafficTypes, KeyInv
<1>3. /\ Tail(writing[k]) \in Seq(Mappings) /\ Head(writing[k]) \in Mappings
      /\ LastOf(Tail(writing[k]), Head(writing[k])) = LastOf(writing[k], stored[k])
  BY <1>1, <1>2, TailLast
<1>4. \A j \in Keys : j # k => Same(j)
  BY <1>1, <1>2 DEF Same
<1>5. TrafficTypes'
  BY <1>1, <1>2, <1>3 DEF IInv, TrafficTypes
<1>6. Settled(k)' = Settled(k)
  <2>1. stored'[k] = Head(writing[k]) /\ writing'[k] = Tail(writing[k])
    BY <1>1, <1>2
  <2> QED
    BY <1>3, <2>1 DEF Settled, LastOf
<1>7. KeyInv(k)' /\ Found(k)' = Found(k)
  BY <1>1, <1>2, <1>6 DEF IInv, KeyInv, Found
<1> QED
  BY <1>1, <1>4, <1>5, <1>7, SameKeeps DEF IInv, RemapOnly

LEMMA NextKeeps == IInv /\ [Next]_vars => IInv' /\ (RemapOnly \/ UNCHANGED vars)
<1> SUFFICES ASSUME IInv, [Next]_vars PROVE IInv' /\ (RemapOnly \/ UNCHANGED vars)
  OBVIOUS
<1>1. ASSUME NEW k \in Keys, Lookup(k) PROVE IInv' /\ RemapOnly
  BY <1>1, LookupKeeps
<1>2. ASSUME NEW k \in Keys, NEW m \in Mappings, Remap(k, m) PROVE IInv' /\ RemapOnly
  BY <1>2, RemapKeeps
<1>3. ASSUME NEW k \in Keys, MappingRead(k) PROVE IInv' /\ RemapOnly
  BY <1>3, MappingReadKeeps
<1>4. ASSUME NEW k \in Keys, WriteBack(k) PROVE IInv' /\ RemapOnly
  BY <1>4, WriteBackKeeps
<1>5. ASSUME NEW k \in Keys, WriteDone(k) PROVE IInv' /\ RemapOnly
  BY <1>5, WriteDoneKeeps
<1>6. ASSUME NEW s \in Streams, NEW l \in Lpas, Miss(s, l) PROVE IInv' /\ RemapOnly
  BY <1>6, MissKeeps
<1>7. ASSUME Evict PROVE IInv' /\ RemapOnly
  BY <1>7, EvictionKeeps
<1>8. ASSUME UNCHANGED vars PROVE IInv'
  <2>1. \A k \in Keys : Same(k)
    BY <1>8 DEF vars, Same
  <2>2. TableInv(cmt')
    BY <1>8 DEF vars, IInv
  <2>3. TrafficTypes'
    BY <1>8 DEF vars, IInv, TrafficTypes
  <2> QED
    BY <2>1, <2>2, <2>3, SameKeeps DEF IInv
<1> QED
  BY <1>1, <1>2, <1>3, <1>4, <1>5, <1>6, <1>7, <1>8 DEF Next

-----------------------------------------------------------------------------
(* The theorems                                                               *)

\* The inductive invariant: the table is what its own methods leave, and each key's slot
\* fits the reads and write-backs of that key that are on their way.
THEOREM Invariant == Spec => []IInv
<1>1. IInv /\ [Next]_vars => IInv'
  BY NextKeeps
<1> QED
  BY <1>1, InitIInv, PTL DEF Spec

\* Every entry a method leaves VALID says a mapping: the value nothing was stored in is
\* never found.
THEOREM TypeCorrect == Spec => []TypeOK
  BY Invariant, IInvImplies, PTL

\* The LRU list and the map of the class never disagree, whatever is reserved, spliced
\* and popped, and the slots' streams take their keys back to their LPAs.
THEOREM ListMatches == Spec => []ListMatchesMap
  BY Invariant, IInvImplies, PTL

\* A slot that waits for its mapping is there when the mapping comes.
THEOREM WaitingAwaited == Spec => []WaitingIsReading
  BY Invariant, IInvImplies, PTL

\* What is thrown out without being written is on flash or on its way there.
THEOREM CleanEntriesStored == Spec => []CleanIsStored
  BY Invariant, IInvImplies, PTL

\* Misses, evictions and write-backs do not change what a page is mapped to.
THEOREM WritesAloneRemap == Spec => OnlyWritesRemap
<1>1. IInv /\ [Next]_vars => (RemapOnly \/ UNCHANGED vars)
  BY NextKeeps
<1>2. IInv /\ [Next]_vars =>
        [\A k \in Keys : Found(k)' # Found(k) =>
            \E m \in Mappings : Remap(k, m) /\ Found(k)' = m]_vars
  BY <1>1 DEF RemapOnly
<1> QED
  BY <1>2, Invariant, PTL DEF Spec, OnlyWritesRemap

\* If Insert accepted the slots that are reserved for it, no careful dispatcher would
\* meet its error: the status it asks for is all that is wrong.
THEOREM ReservedNeverRefused ==
    ASSUME InsertsReserved
    PROVE  Spec => []NeverRefused
<1>1. IInv /\ NeverRefused /\ [Next]_vars => NeverRefused'
  <2> SUFFICES ASSUME IInv, NeverRefused, [Next]_vars
               PROVE  exit' = exit
    BY DEF NeverRefused
  <2>1. ASSUME NEW k \in Keys, MappingRead(k) PROVE exit' = exit
    BY <2>1 DEF MappingRead, IInv, KeyInv, InsertRefused
  <2> QED
    BY <2>1 DEF Next, Lookup, Remap, WriteBack, WriteDone, Miss, Evict, vars
<1>2. Init => NeverRefused
  BY DEF Init, NeverRefused
<1> QED
  BY <1>1, <1>2, Invariant, PTL DEF Spec

\* The code as it is: no look-up ever succeeds.
NothingFound == \A k \in Keys : ~ Exists(cmt.slots[k])

\* The code as it is: the answer to a mapping read always ends the process.
EveryInsertFails ==
    [][\A k \in Keys : MappingRead(k) => exit' = "not_found_or_not_valid"]_vars

LEMMA NothingFoundKept ==
    ASSUME ~ InsertsReserved, IInv, NothingFound, [Next]_vars
    PROVE  NothingFound'
<1>1. cmt \in Table
  BY DEF IInv, TableInv
<1>2. ASSUME NEW k \in Keys, \/ Lookup(k)
                             \/ \E m \in Mappings : Remap(k, m)
                             \/ WriteBack(k)
      PROVE  NothingFound'
  BY <1>2 DEF NothingFound, Lookup, Remap, WriteBack
<1>3. ASSUME NEW k \in Keys, MappingRead(k) PROVE NothingFound'
  BY <1>3 DEF MappingRead, InsertRefused, NothingFound
<1>4. ASSUME NEW k \in Keys, WriteDone(k) PROVE NothingFound'
  BY <1>4 DEF WriteDone, NothingFound
<1>5. ASSUME NEW s \in Streams, NEW l \in Lpas, Miss(s, l) PROVE NothingFound'
  <2>1. cmt' = ReserveSlotForLpn(cmt, s, Key(s, l))
    BY <1>5 DEF Miss
  <2>2. cmt'.slots = [cmt.slots EXCEPT ![Key(s, l)] = Reserved(s)]
    BY <1>1, <2>1 DEF ReserveSlotForLpn, Table
  <2> QED
    BY <1>1, <2>2 DEF NothingFound, Table, Reserved, Exists
<1>6. ASSUME Evict PROVE NothingFound'
  <2>1. cmt' = EvictOne(cmt)
    BY <1>6 DEF Evict
  <2>2. cmt'.slots = [cmt.slots EXCEPT ![Coldest(cmt)] = NoSlot]
    BY <2>1 DEF EvictOne
  <2> QED
    BY <1>1, <2>2 DEF NothingFound, Table, NoSlot, Exists
<1>7. ASSUME UNCHANGED vars PROVE NothingFound'
  BY <1>7 DEF vars, NothingFound
<1> QED
  BY <1>2, <1>3, <1>4, <1>5, <1>6, <1>7 DEF Next

\* address_mapping.cpp:48 refuses the only slots there are: no traffic, whatever its order,
\* ever leaves an entry that a look-up finds.
THEOREM NothingEverFound ==
    ASSUME ~ InsertsReserved
    PROVE  Spec => []NothingFound
<1>1. Init => NothingFound
  BY DEF Init, Empty, NoSlot, NothingFound, Exists
<1>2. IInv /\ NothingFound /\ [Next]_vars => NothingFound'
  BY NothingFoundKept
<1> QED
  BY <1>1, <1>2, Invariant, PTL DEF Spec

\* So the first mapping that comes from flash, for any streams, pages and capacity, ends
\* the process with "Mapping entry not found or not valid in CMT!".
THEOREM InsertEndsProcess ==
    ASSUME ~ InsertsReserved
    PROVE  Spec => EveryInsertFails
<1>1. NothingFound /\ [Next]_vars =>
        [\A k \in Keys : MappingRead(k) => exit' = "not_found_or_not_valid"]_vars
  BY DEF NothingFound, MappingRead, InsertRefused
<1> QED
  BY <1>1, NothingEverFound, PTL DEF Spec, EveryInsertFails
=============================================================================
