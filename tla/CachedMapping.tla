---------------------------- MODULE CachedMapping ----------------------------
(***************************************************************************)
(* The cached mapping table between the dispatcher and the mapping on      *)
(* flash.  The repository declares the dispatcher                          *)
(* (TranslateLpaToPpaAndDispatch) without a body; it is modelled as the    *)
(* methods allow it to be careful.  It reserves a slot before it reads an  *)
(* entry and inserts what the read brings; it evicts when there is no      *)
(* free slot, but not while a read is on its way, whose slot EvictOne      *)
(* would take as well; it writes dirty entries back, marking them clean as *)
(* it sends them.  Write-backs of one entry reach flash in order.          *)
(***************************************************************************)
EXTENDS CachedMappingTable

CONSTANTS
    Initial,    \* the mapping of every page at the start
    MaxWriting  \* bound: write-backs in flight for one entry

ASSUME TrafficAssumption ==
    /\ Initial \in Mappings
    /\ MaxWriting \in Nat

VARIABLES
    cmt,      \* the table
    stored,   \* the mapping on flash
    reading,  \* keys whose mapping is being read from flash
    writing,  \* write-backs on their way, in order, for each key
    exit      \* the error a method has ended the process with

vars == <<cmt, stored, reading, writing, exit>>

Errors == {"none", "not_found_or_not_valid"}

Init ==
    /\ cmt = Empty
    /\ stored = [k \in Keys |-> Initial]
    /\ reading = {}
    /\ writing = [k \in Keys |-> <<>>]
    /\ exit = "none"

Running == exit = "none"

\* GetPPA of an entry that is there.
Lookup(k) ==
    /\ Running
    /\ Exists(cmt.slots[k])
    /\ cmt' = RetrievePPA(cmt, k)
    /\ UNCHANGED <<stored, reading, writing, exit>>

\* A write: GetPPA for the old page, then UpdateMappingInfo with the new one.
Remap(k, m) ==
    /\ Running
    /\ Exists(cmt.slots[k])
    /\ cmt' = [RetrievePPA(cmt, k) EXCEPT !.slots[k] = Update(@, m)]
    /\ UNCHANGED <<stored, reading, writing, exit>>

\* A miss: the entry is read when none of its write-backs is on the way.
Miss(s, l) ==
    /\ Running
    /\ Key(s, l) \notin Entries(cmt)
    /\ CheckFreeSlotAvailability(cmt)
    /\ writing[Key(s, l)] = <<>>
    /\ cmt' = ReserveSlotForLpn(cmt, s, Key(s, l))
    /\ reading' = reading \cup {Key(s, l)}
    /\ UNCHANGED <<stored, writing, exit>>

MappingRead(k) ==
    /\ Running
    /\ k \in reading
    /\ IF InsertRefused(cmt.slots[k])
       THEN exit' = "not_found_or_not_valid" /\ UNCHANGED <<cmt, reading>>
       ELSE /\ cmt' = [cmt EXCEPT !.slots[k] = Insert(@, stored[k])]
            /\ reading' = reading \ {k}
            /\ UNCHANGED exit
    /\ UNCHANGED <<stored, writing>>

\* The write-backs after the dispatcher has sent the entry of a slot.
Sent(k, slot) == [writing EXCEPT ![k] = Append(@, slot.mapping)]

\* EvictOne tells the LPA of what it threw out; a dirty slot is written back.
Evict ==
    /\ Running
    /\ Entries(cmt) # {} /\ ~ CheckFreeSlotAvailability(cmt)
    /\ reading = {}
    /\ LET slot == cmt.slots[Coldest(cmt)]
           key  == Key(slot.stream_id, KeyToLpn(slot.stream_id, Coldest(cmt)))
       IN  /\ Len(writing[key]) < MaxWriting
           /\ writing' = IF slot.dirty THEN Sent(key, slot) ELSE writing
    /\ cmt' = EvictOne(cmt)
    /\ UNCHANGED <<stored, reading, exit>>

\* A write-back that keeps the entry: IsDirty, then MakeClean.
WriteBack(k) ==
    /\ Running
    /\ Exists(cmt.slots[k]) /\ cmt.slots[k].dirty
    /\ Len(writing[k]) < MaxWriting
    /\ writing' = Sent(k, cmt.slots[k])
    /\ cmt' = [cmt EXCEPT !.slots[k] = MakeClean(@)]
    /\ UNCHANGED <<stored, reading, exit>>

WriteDone(k) ==
    /\ Running
    /\ writing[k] # <<>>
    /\ stored' = [stored EXCEPT ![k] = Head(writing[k])]
    /\ writing' = [writing EXCEPT ![k] = Tail(@)]
    /\ UNCHANGED <<cmt, reading, exit>>

Next ==
    \/ \E k \in Keys :
          \/ Lookup(k)
          \/ \E m \in Mappings : Remap(k, m)
          \/ MappingRead(k)
          \/ WriteBack(k)
          \/ WriteDone(k)
    \/ \E s \in Streams, l \in Lpas : Miss(s, l)
    \/ Evict

Spec == Init /\ [][Next]_vars

-----------------------------------------------------------------------------
(* Properties                                                                 *)

TypeOK ==
    /\ cmt \in Table
    /\ \A k \in Keys : Exists(cmt.slots[k]) => cmt.slots[k].mapping \in Mappings
    /\ stored \in [Keys -> Mappings]
    /\ reading \subseteq Keys
    /\ writing \in [Keys -> Seq(Mappings)]
    /\ exit \in Errors

\* The list and the map name the same keys, each once and no more than the capacity,
\* and each slot knows the stream that takes its key back to its LPA.
ListMatchesMap ==
    /\ \A k \in Keys : k \in Entries(cmt) <=> \E i \in DOMAIN cmt.lru_list : cmt.lru_list[i] = k
    /\ \A i, j \in DOMAIN cmt.lru_list : cmt.lru_list[i] = cmt.lru_list[j] => i = j
    /\ Cardinality(Entries(cmt)) <= Capacity
    /\ \A k \in Entries(cmt) : /\ cmt.slots[k].stream_id \in Streams
                               /\ KeyToLpn(cmt.slots[k].stream_id, k) \in Lpas

\* A slot waits exactly while its mapping is on the way, and nothing of it is being
\* written meanwhile: no answer finds its slot gone, or is older than a write-back.
WaitingIsReading ==
    \A k \in Keys : /\ k \in reading <=> cmt.slots[k].status = "WAITING"
                    /\ k \in reading => writing[k] = <<>>

\* What flash will say of a page when all its write-backs have arrived.
Settled(k) == IF writing[k] # <<>> THEN writing[k][Len(writing[k])] ELSE stored[k]

\* An entry that is not dirty can be thrown out: flash has it, or will have it.
CleanIsStored ==
    \A k \in Keys : Exists(cmt.slots[k]) =>
        cmt.slots[k].dirty \/ cmt.slots[k].mapping = Settled(k)

\* A dispatcher that inserts only what it has reserved, and asks only for what is
\* there, never meets the error of the table's methods.
NeverRefused == exit = "none"

\* What a look-up of a page says, now or once its entry has been read.
Found(k) == IF Exists(cmt.slots[k]) THEN cmt.slots[k].mapping ELSE Settled(k)

\* Through misses, evictions and write-backs the mapping changes by writes alone,
\* and to what they ask for.
OnlyWritesRemap ==
    [][\A k \in Keys : Found(k)' # Found(k) =>
          \E m \in Mappings : Remap(k, m) /\ Found(k)' = m]_vars
=============================================================================
