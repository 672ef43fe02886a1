---------------------------- MODULE DataCacheProofs ----------------------------
(***************************************************************************)
(* Proofs about DataCache for any pages, contents, capacities and number   *)
(* of write-backs.  First what the methods do to a list of distinct        *)
(* elements and to a well-formed cache, whoever calls them; then that a    *)
(* careful manager loses no write.                                         *)
(***************************************************************************)
EXTENDS DataCache, FiniteSetTheorems, SequenceTheorems, TLAPS

-----------------------------------------------------------------------------
(* Lists of distinct elements                                                 *)

\* Erasing an element shifts those behind it by one.
LEMMA RemoveAtProperties ==
    ASSUME NEW S, NEW list \in Seq(S), NEW p \in DOMAIN list
    PROVE  /\ RemoveAt(list, p) \in Seq(S)
           /\ Len(RemoveAt(list, p)) = Len(list) - 1
           /\ \A k \in 1..(Len(list) - 1) :
                 RemoveAt(list, p)[k] = IF k < p THEN list[k] ELSE list[k + 1]
<1> DEFINE before == SubSeq(list, 1, p - 1)
           after  == SubSeq(list, p + 1, Len(list))
<1>1. Len(list) \in Nat /\ p \in 1..Len(list) /\ p \in Int
  BY LenProperties
<1>2. /\ before \in Seq(S) /\ Len(before) = p - 1
      /\ \A k \in 1..(p - 1) : before[k] = list[k]
  <2>1. \A k \in 1..(p - 1) : list[k] \in S
    BY <1>1, ElementOfSeq
  <2>2. /\ before \in Seq(S)
        /\ Len(before) = IF 1 <= p - 1 THEN (p - 1) - 1 + 1 ELSE 0
        /\ \A k \in 1..((p - 1) - 1 + 1) : before[k] = list[1 + k - 1]
    BY <1>1, <2>1, SubSeqProperties
  <2> QED
    BY <1>1, <2>2
<1>3. /\ after \in Seq(S) /\ Len(after) = Len(list) - p
      /\ \A k \in 1..(Len(list) - p) : after[k] = list[p + k]
  <2>1. \A k \in (p + 1)..Len(list) : list[k] \in S
    BY <1>1, ElementOfSeq
  <2>2. /\ after \in Seq(S)
        /\ Len(after) = IF p + 1 <= Len(list) THEN Len(list) - (p + 1) + 1 ELSE 0
        /\ \A k \in 1..(Len(list) - (p + 1) + 1) : after[k] = list[(p + 1) + k - 1]
    BY <1>1, <2>1, SubSeqProperties
  <2> QED
    BY <1>1, <2>2
<1> HIDE DEF before, after
<1>4. /\ before \o after \in Seq(S)
      /\ Len(before \o after) = Len(before) + Len(after)
      /\ \A k \in 1..(Len(before) + Len(after)) :
            (before \o after)[k] = IF k <= Len(before) THEN before[k]
                                   ELSE after[k - Len(before)]
  BY <1>2, <1>3, ConcatProperties
<1>5. Len(before) + Len(after) = Len(list) - 1 /\ Len(before) = p - 1
  BY <1>1, <1>2, <1>3
<1>6. ASSUME NEW k \in 1..(Len(list) - 1)
      PROVE  (before \o after)[k] = IF k < p THEN list[k] ELSE list[k + 1]
  <2>1. CASE k < p
    <3>1. k \in 1..(p - 1) /\ k <= Len(before)
      BY <1>1, <1>5, <2>1
    <3> QED
      BY <1>2, <1>4, <1>5, <2>1, <3>1
  <2>2. CASE ~ (k < p)
    <3>1. k - Len(before) \in 1..(Len(list) - p) /\ ~ (k <= Len(before))
      BY <1>1, <1>5, <2>2
    <3>2. (before \o after)[k] = after[k - Len(before)]
      BY <1>4, <1>5, <3>1
    <3>3. after[k - Len(before)] = list[p + (k - Len(before))]
      BY <1>3, <3>1
    <3>4. p + (k - Len(before)) = k + 1
      BY <1>1, <1>5
    <3> QED
      BY <2>2, <3>2, <3>3, <3>4
  <2> QED
    BY <2>1, <2>2
<1>7. RemoveAt(list, p) = before \o after
  BY DEF RemoveAt, before, after
<1> QED
  BY <1>4, <1>5, <1>6, <1>7

\* Erasing an element of a list takes out it alone and keeps the order of the others.
LEMMA ErasedList ==
    ASSUME NEW S, NEW list \in Seq(S), IsInjective(list), NEW k \in Range(list)
    PROVE  /\ Erased(list, k) \in Seq(S)
           /\ Range(Erased(list, k)) = Range(list) \ {k}
           /\ IsInjective(Erased(list, k))
           /\ \A a, b : Precedes(Erased(list, k), a, b)
                          <=> a # k /\ b # k /\ Precedes(list, a, b)
<1> DEFINE p   == lru_pos(list, k)
           new == Erased(list, k)
           n   == Len(list)
           at(i) == IF i < p THEN i ELSE i + 1
<1>1. p \in DOMAIN list /\ list[p] = k
  <2>1. \E i \in DOMAIN list : list[i] = k
    BY DEF Range
  <2> QED
    BY <2>1 DEF lru_pos
<1>2. DOMAIN list = 1..n /\ n \in Nat /\ n >= 1 /\ p \in 1..n
  BY <1>1, LenProperties
<1> HIDE DEF p
<1>3. /\ new \in Seq(S) /\ Len(new) = n - 1
      /\ \A i \in 1..(n - 1) : new[i] = list[at(i)]
  BY <1>1, RemoveAtProperties DEF Erased, p
<1>4. DOMAIN new = 1..(n - 1)
  BY <1>2, <1>3, LenProperties
<1> HIDE DEF new, n
<1>5. \A i \in 1..(n - 1) : at(i) \in 1..n /\ at(i) # p
  BY <1>2
<1>6. \A j \in 1..n : j # p => \E i \in 1..(n - 1) : at(i) = j
  <2> SUFFICES ASSUME NEW j \in 1..n, j # p
               PROVE  \E i \in 1..(n - 1) : at(i) = j
    OBVIOUS
  <2>1. CASE j < p
    <3>1. j \in 1..(n - 1) /\ at(j) = j
      BY <1>2, <2>1
    <3> QED
      BY <3>1
  <2>2. CASE ~ (j < p)
    <3>1. j - 1 \in 1..(n - 1) /\ at(j - 1) = j
      BY <1>2, <2>2
    <3> QED
      BY <3>1
  <2> QED
    BY <2>1, <2>2
<1>7. \A i, j \in 1..(n - 1) : (at(i) = at(j) => i = j) /\ (at(i) < at(j) <=> i < j)
  BY <1>2
<1> HIDE DEF at
<1>8. \A i \in 1..n : list[i] = k <=> i = p
  BY <1>1, <1>2 DEF IsInjective
<1>9. Range(new) = Range(list) \ {k}
  <2>1. \A x \in Range(new) : x \in Range(list) /\ x # k
    BY <1>2, <1>3, <1>4, <1>5, <1>8 DEF Range
  <2>2. ASSUME NEW x \in Range(list), x # k PROVE x \in Range(new)
    <3>1. PICK j \in 1..n : list[j] = x
      BY <1>2 DEF Range
    <3>2. PICK i \in 1..(n - 1) : at(i) = j
      BY <1>6, <1>8, <2>2, <3>1
    <3> QED
      BY <1>3, <1>4, <3>1, <3>2 DEF Range
  <2> QED
    BY <2>1, <2>2
<1>10. IsInjective(new)
  BY <1>2, <1>3, <1>4, <1>5, <1>7 DEF IsInjective
<1>11. ASSUME NEW a, NEW b
       PROVE  Precedes(new, a, b) <=> a # k /\ b # k /\ Precedes(list, a, b)
  <2>1. ASSUME Precedes(new, a, b)
        PROVE  a # k /\ b # k /\ Precedes(list, a, b)
    BY <1>2, <1>3, <1>4, <1>5, <1>7, <1>8, <2>1 DEF Precedes
  <2>2. ASSUME a # k, b # k, Precedes(list, a, b)
        PROVE  Precedes(new, a, b)
    <3>1. PICK x, y \in 1..n : list[x] = a /\ list[y] = b /\ x < y
      BY <1>2, <2>2 DEF Precedes
    <3>2. x # p /\ y # p
      BY <1>8, <2>2, <3>1
    <3>3. PICK i, j \in 1..(n - 1) : at(i) = x /\ at(j) = y
      BY <1>6, <3>2
    <3> QED
      BY <1>3, <1>4, <1>7, <3>1, <3>3 DEF Precedes
  <2> QED
    BY <2>1, <2>2
<1> QED
  BY <1>3, <1>9, <1>10, <1>11 DEF new

\* An element that is not in the list goes to its front ...
LEMMA PushedList ==
    ASSUME NEW S, NEW list \in Seq(S), IsInjective(list), NEW k \in S, k \notin Range(list)
    PROVE  /\ <<k>> \o list \in Seq(S)
           /\ Range(<<k>> \o list) = Range(list) \cup {k}
           /\ IsInjective(<<k>> \o list)
           /\ \A a, b : Precedes(<<k>> \o list, a, b)
                          => Precedes(list, a, b) \/ (a = k /\ b \in Range(list))
<1> DEFINE new == <<k>> \o list
           n   == Len(list)
<1>1. /\ DOMAIN list = 1..n /\ n \in Nat
      /\ new \in Seq(S) /\ DOMAIN new = 1..(n + 1)
      /\ new[1] = k /\ \A i \in 1..n : new[i + 1] = list[i]
  OBVIOUS
<1> HIDE DEF new, n
<1>2. \A i \in 1..(n + 1) :
         i \in Nat /\ (i # 1 => i - 1 \in 1..n /\ new[i] = list[i - 1])
  <2> TAKE i \in 1..(n + 1)
  <2>1. i \in Nat
    BY <1>1
  <2>2. i # 1 => i - 1 \in 1..n /\ (i - 1) + 1 = i
    BY <1>1
  <2>3. i # 1 => new[(i - 1) + 1] = list[i - 1]
    BY <1>1, <2>2
  <2> QED
    BY <2>1, <2>2, <2>3
<1>3. \A i \in 1..n : i + 1 \in 1..(n + 1)
  BY <1>1
<1>4. Range(new) = Range(list) \cup {k}
  <2>1. 1 \in 1..(n + 1)
    BY <1>1
  <2> QED
    <3>1. ASSUME NEW x \in Range(new) PROVE x \in Range(list) \cup {k}
      <4>1. PICK i \in 1..(n + 1) : new[i] = x
        BY <1>1 DEF Range
      <4>2. CASE i = 1
        BY <1>1, <4>1, <4>2
      <4>3. CASE i # 1
        <5>1. i - 1 \in DOMAIN list /\ list[i - 1] = x
          BY <1>1, <1>2, <4>1, <4>3
        <5> QED
          BY <5>1 DEF Range
      <4> QED
        BY <4>2, <4>3
    <3>2. k \in Range(new)
      BY <1>1, <2>1 DEF Range
    <3>3. Range(list) \subseteq Range(new)
      BY <1>1, <1>3 DEF Range
    <3> QED
      BY <3>1, <3>2, <3>3
<1>5. IsInjective(new)
  <2> SUFFICES ASSUME NEW i \in 1..(n + 1), NEW j \in 1..(n + 1), new[i] = new[j]
               PROVE  i = j
    BY <1>1 DEF IsInjective
  <2>1. CASE i = 1 \/ j = 1
    BY <1>1, <1>2, <2>1 DEF Range
  <2>2. CASE i # 1 /\ j # 1
    <3>1. i - 1 \in DOMAIN list /\ j - 1 \in DOMAIN list /\ list[i - 1] = list[j - 1]
      BY <1>1, <1>2, <2>2
    <3>2. i - 1 = j - 1
      BY <3>1 DEF IsInjective
    <3>3. i \in Nat /\ j \in Nat
      BY <1>2
    <3> QED
      BY <3>2, <3>3
  <2> QED
    BY <2>1, <2>2
<1>6. ASSUME NEW a, NEW b, Precedes(new, a, b)
      PROVE  Precedes(list, a, b) \/ (a = k /\ b \in Range(list))
  <2>1. PICK x, y \in 1..(n + 1) : new[x] = a /\ new[y] = b /\ x < y
    BY <1>1, <1>6 DEF Precedes
  <2>2. y # 1 /\ x \in Nat /\ y \in Nat
    BY <1>1, <1>2, <2>1
  <2>3. y - 1 \in 1..n /\ list[y - 1] = b
    BY <1>2, <2>1, <2>2
  <2>4. CASE x = 1
    BY <1>1, <2>1, <2>3, <2>4 DEF Range
  <2>5. CASE x # 1
    <3>1. x - 1 \in 1..n /\ list[x - 1] = a
      BY <1>2, <2>1, <2>5
    <3>2. x - 1 < y - 1
      BY <2>1, <2>2
    <3> QED
      BY <1>1, <2>3, <3>1, <3>2 DEF Precedes
  <2> QED
    BY <2>4, <2>5
<1> QED
  BY <1>1, <1>4, <1>5, <1>6 DEF new

\* ... or to its end.
LEMMA AppendedList ==
    ASSUME NEW S, NEW list \in Seq(S), IsInjective(list), NEW k \in S, k \notin Range(list)
    PROVE  /\ Append(list, k) \in Seq(S)
           /\ Range(Append(list, k)) = Range(list) \cup {k}
           /\ IsInjective(Append(list, k))
           /\ \A a, b : Precedes(list, a, b) => Precedes(Append(list, k), a, b)
           /\ \A a \in Range(list) : Precedes(Append(list, k), a, k)
<1> DEFINE new == Append(list, k)
           n   == Len(list)
<1>1. /\ DOMAIN list = 1..n /\ n \in Nat
      /\ new \in Seq(S) /\ DOMAIN new = 1..(n + 1)
      /\ new[n + 1] = k /\ \A i \in 1..n : new[i] = list[i]
  OBVIOUS
<1> HIDE DEF new, n
<1>2. /\ n + 1 \in 1..(n + 1)
      /\ \A i \in 1..n : i \in 1..(n + 1) /\ i < n + 1
      /\ \A i \in 1..(n + 1) : i \in 1..n \/ i = n + 1
  BY <1>1
<1>3. Range(new) = Range(list) \cup {k}
  BY <1>1, <1>2 DEF Range
<1>4. IsInjective(new)
  BY <1>1, <1>2 DEF IsInjective, Range
<1>5. \A a, b : Precedes(list, a, b) => Precedes(new, a, b)
  BY <1>1, <1>2 DEF Precedes
<1>6. \A a \in Range(list) : Precedes(new, a, k)
  BY <1>1, <1>2 DEF Precedes, Range
<1> QED
  BY <1>1, <1>3, <1>4, <1>5, <1>6 DEF new

-----------------------------------------------------------------------------
(* The cache                                                                  *)

\* A cache as its own methods leave it.
CacheInv(c) ==
    /\ c \in Cache
    /\ Range(c.lru_list) = Cached(c)
    /\ IsInjective(c.lru_list)
    /\ IsFiniteSet(Cached(c))

LEMMA CacheFields ==
    ASSUME NEW c \in Cache
    PROVE  /\ Cached(c) \in SUBSET Pages
           /\ c.slots \in [Cached(c) -> Slot]
           /\ c.lru_list \in Seq(Pages)
<1>1. PICK S \in SUBSET Pages : c.slots \in [S -> Slot]
  BY DEF Cache
<1>2. Cached(c) = S
  BY <1>1 DEF Cached
<1> QED
  BY <1>1, <1>2 DEF Cache

LEMMA CacheOf ==
    ASSUME NEW S \in SUBSET Pages, NEW f \in [S -> Slot], NEW list \in Seq(Pages)
    PROVE  LET c == [slots |-> f, lru_list |-> list]
           IN  c \in Cache /\ Cached(c) = S /\ c.slots = f /\ c.lru_list = list
<1>1. [slots |-> f, lru_list |-> list] \in Cache
  BY DEF Cache
<1> QED
  BY <1>1 DEF Cached

\* A method that changes a slot leaves the rest of the cache alone.
LEMMA SlotChanged ==
    ASSUME NEW c, CacheInv(c), NEW k \in Cached(c), NEW slot \in Slot
    PROVE  LET new == [c EXCEPT !.slots[k] = slot]
           IN  /\ CacheInv(new)
               /\ Cached(new) = Cached(c)
               /\ new.lru_list = c.lru_list
               /\ new.slots[k] = slot
               /\ \A j \in Cached(c) \ {k} : new.slots[j] = c.slots[j]
<1> DEFINE f == [c.slots EXCEPT ![k] = slot]
<1>1. /\ c \in Cache /\ Cached(c) \in SUBSET Pages /\ c.slots \in [Cached(c) -> Slot]
      /\ c.lru_list \in Seq(Pages)
  BY CacheFields DEF CacheInv
<1>2. f \in [Cached(c) -> Slot] /\ f[k] = slot /\ \A j \in Cached(c) \ {k} : f[j] = c.slots[j]
  BY <1>1
<1>3. [c EXCEPT !.slots[k] = slot] = [slots |-> f, lru_list |-> c.lru_list]
  BY <1>1 DEF Cache
<1> DEFINE new == [slots |-> f, lru_list |-> c.lru_list]
<1> HIDE DEF f
<1>4. new \in Cache /\ Cached(new) = Cached(c) /\ new.slots = f /\ new.lru_list = c.lru_list
  BY <1>1, <1>2, CacheOf
<1> HIDE DEF new
<1>5. CacheInv(new)
  BY <1>4 DEF CacheInv
<1> QED
  BY <1>2, <1>3, <1>4, <1>5 DEF new

\* Refreshing a page puts it before all others and leaves the slots alone.
LEMMA RefreshedKeeps ==
    ASSUME NEW c, CacheInv(c), NEW k \in Cached(c)
    PROVE  /\ CacheInv(Refreshed(c, k))
           /\ Refreshed(c, k).slots = c.slots
           /\ Cached(Refreshed(c, k)) = Cached(c)
           /\ \A a, b : Precedes(Refreshed(c, k).lru_list, a, b)
                          => \/ a # k /\ b # k /\ Precedes(c.lru_list, a, b)
                             \/ a = k /\ b \in Cached(c) \ {k}
<1> DEFINE rest == Erased(c.lru_list, k)
           list == <<k>> \o rest
           new  == Refreshed(c, k)
<1>1. /\ c \in Cache /\ Cached(c) \in SUBSET Pages /\ c.slots \in [Cached(c) -> Slot]
      /\ c.lru_list \in Seq(Pages) /\ IsInjective(c.lru_list)
      /\ Range(c.lru_list) = Cached(c)
  BY CacheFields DEF CacheInv
<1>2. /\ rest \in Seq(Pages) /\ Range(rest) = Cached(c) \ {k} /\ IsInjective(rest)
      /\ \A a, b : Precedes(rest, a, b) <=> a # k /\ b # k /\ Precedes(c.lru_list, a, b)
  BY <1>1, ErasedList
<1>3. new = [slots |-> c.slots, lru_list |-> list]
  <2>1. new = [c EXCEPT !.lru_list = list]
    BY DEF Refreshed
  <2> HIDE DEF list, new
  <2> QED
    BY <1>1, <2>1 DEF Cache
<1> HIDE DEF rest
<1>4. k \in Pages /\ k \notin Range(rest)
  BY <1>1, <1>2
<1>5. /\ list \in Seq(Pages) /\ Range(list) = Cached(c) /\ IsInjective(list)
      /\ \A a, b : Precedes(list, a, b) => Precedes(rest, a, b) \/ (a = k /\ b \in Range(rest))
  <2>1. Range(list) = Range(rest) \cup {k}
    BY <1>2, <1>4, PushedList
  <2>2. Range(list) = Cached(c)
    BY <1>2, <2>1
  <2> QED
    BY <1>2, <1>4, <2>2, PushedList
<1> HIDE DEF list, new
<1>6. new \in Cache /\ Cached(new) = Cached(c) /\ new.slots = c.slots /\ new.lru_list = list
  BY <1>1, <1>3, <1>5, CacheOf
<1>7. CacheInv(new)
  BY <1>5, <1>6 DEF CacheInv
<1>8. \A a, b : Precedes(new.lru_list, a, b)
                  => \/ a # k /\ b # k /\ Precedes(c.lru_list, a, b)
                     \/ a = k /\ b \in Cached(c) \ {k}
  BY <1>2, <1>5, <1>6
<1> QED
  BY <1>6, <1>7, <1>8 DEF new

\* Dropping a page takes it and nothing else out.
LEMMA DroppedKeeps ==
    ASSUME NEW c, CacheInv(c), NEW k \in Cached(c)
    PROVE  /\ CacheInv(Dropped(c, k))
           /\ Cached(Dropped(c, k)) = Cached(c) \ {k}
           /\ Cardinality(Cached(Dropped(c, k))) = Cardinality(Cached(c)) - 1
           /\ \A j \in Cached(c) \ {k} : Dropped(c, k).slots[j] = c.slots[j]
           /\ \A a, b : Precedes(Dropped(c, k).lru_list, a, b)
                          => a # k /\ b # k /\ Precedes(c.lru_list, a, b)
<1> DEFINE list == Erased(c.lru_list, k)
           S    == Cached(c) \ {k}
           f    == Restrict(c.slots, S)
           new  == Dropped(c, k)
<1>1. /\ c \in Cache /\ Cached(c) \in SUBSET Pages /\ c.slots \in [Cached(c) -> Slot]
      /\ c.lru_list \in Seq(Pages) /\ IsInjective(c.lru_list)
      /\ Range(c.lru_list) = Cached(c)
  BY CacheFields DEF CacheInv
<1>2. /\ list \in Seq(Pages) /\ Range(list) = S /\ IsInjective(list)
      /\ \A a, b : Precedes(list, a, b) => a # k /\ b # k /\ Precedes(c.lru_list, a, b)
  BY <1>1, ErasedList
<1>3. S \in SUBSET Pages /\ f \in [S -> Slot] /\ \A j \in S : f[j] = c.slots[j]
  BY <1>1 DEF Restrict
<1>4. new = [slots |-> f, lru_list |-> list]
  BY DEF Dropped
<1>5. IsFiniteSet(S) /\ Cardinality(S) = Cardinality(Cached(c)) - 1
  BY FS_RemoveElement DEF CacheInv
<1> HIDE DEF list, S, f, new
<1>6. new \in Cache /\ Cached(new) = S /\ new.slots = f /\ new.lru_list = list
  BY <1>2, <1>3, <1>4, CacheOf
<1>7. CacheInv(new)
  BY <1>2, <1>5, <1>6 DEF CacheInv
<1> QED
  BY <1>2, <1>3, <1>5, <1>6, <1>7 DEF new, S

\* Adding a page puts it before all others.
LEMMA AddedKeeps ==
    ASSUME NEW c, CacheInv(c), NEW k \in Pages, k \notin Cached(c), NEW slot \in Slot
    PROVE  /\ CacheInv(Added(c, k, slot))
           /\ Cached(Added(c, k, slot)) = Cached(c) \cup {k}
           /\ Cardinality(Cached(Added(c, k, slot))) = Cardinality(Cached(c)) + 1
           /\ Added(c, k, slot).slots[k] = slot
           /\ \A j \in Cached(c) : Added(c, k, slot).slots[j] = c.slots[j]
           /\ \A a, b : Precedes(Added(c, k, slot).lru_list, a, b)
                          => \/ Precedes(c.lru_list, a, b)
                             \/ a = k /\ b \in Cached(c)
<1> DEFINE list == <<k>> \o c.lru_list
           S    == Cached(c) \cup {k}
           f    == [j \in S |-> IF j = k THEN slot ELSE c.slots[j]]
           new  == Added(c, k, slot)
<1>1. /\ c \in Cache /\ Cached(c) \in SUBSET Pages /\ c.slots \in [Cached(c) -> Slot]
      /\ c.lru_list \in Seq(Pages) /\ IsInjective(c.lru_list)
      /\ Range(c.lru_list) = Cached(c)
  BY CacheFields DEF CacheInv
<1>2. /\ list \in Seq(Pages) /\ Range(list) = S /\ IsInjective(list)
      /\ \A a, b : Precedes(list, a, b) => \/ Precedes(c.lru_list, a, b)
                                           \/ a = k /\ b \in Cached(c)
  BY <1>1, PushedList
<1>3. /\ S \in SUBSET Pages /\ f \in [S -> Slot] /\ f[k] = slot
      /\ \A j \in Cached(c) : f[j] = c.slots[j]
  BY <1>1
<1>4. new = [slots |-> f, lru_list |-> list]
  BY DEF Added
<1>5. IsFiniteSet(S) /\ Cardinality(S) = Cardinality(Cached(c)) + 1
  BY FS_AddElement DEF CacheInv
<1> HIDE DEF list, S, f, new
<1>6. new \in Cache /\ Cached(new) = S /\ new.slots = f /\ new.lru_list = list
  BY <1>2, <1>3, <1>4, CacheOf
<1>7. CacheInv(new)
  BY <1>2, <1>5, <1>6 DEF CacheInv
<1> QED
  BY <1>2, <1>3, <1>5, <1>6, <1>7 DEF new, S

LEMMA LastCached ==
    ASSUME NEW c, CacheInv(c), Cached(c) # {}
    PROVE  Last(c.lru_list) \in Cached(c)
<1>1. c.lru_list \in Seq(Pages) /\ Range(c.lru_list) = Cached(c)
  BY CacheFields DEF CacheInv
<1>2. c.lru_list # <<>>
  BY <1>1 DEF Range
<1>3. Len(c.lru_list) \in DOMAIN c.lru_list
  BY <1>1, <1>2
<1> QED
  BY <1>1, <1>3 DEF Last, Range

-----------------------------------------------------------------------------
(* Write-backs on their way                                                   *)

\* Arrives, of any write-backs and flash.
Coming(writes, stored, k, data) ==
    IF \E i \in DOMAIN writes : writes[i].page = k
    THEN \E i \in DOMAIN writes :
            /\ writes[i] = [page |-> k, data |-> data]
            /\ \A j \in DOMAIN writes : writes[j].page = k => j <= i
    ELSE stored[k] = data

\* A write-back that is sent is the last of its page and leaves the other pages alone.
LEMMA ComingSent ==
    ASSUME NEW writes \in Seq(Write), NEW stored, NEW k \in Pages, NEW data \in Contents
    PROVE  LET new == Append(writes, [page |-> k, data |-> data])
           IN  /\ new \in Seq(Write)
               /\ Coming(new, stored, k, data)
               /\ \A j \in Pages \ {k} : \A e :
                     Coming(writes, stored, j, e) => Coming(new, stored, j, e)
<1> DEFINE w   == [page |-> k, data |-> data]
           new == Append(writes, w)
           n   == Len(writes)
<1>1. w \in Write /\ w.page = k
  BY DEF Write
<1> HIDE DEF w
<1>2. /\ DOMAIN writes = 1..n /\ n \in Nat
      /\ new \in Seq(Write) /\ DOMAIN new = 1..(n + 1)
      /\ new[n + 1] = w /\ \A i \in 1..n : new[i] = writes[i]
  BY <1>1
<1> HIDE DEF new, n
<1>3. /\ n + 1 \in 1..(n + 1)
      /\ \A i \in 1..n : i \in 1..(n + 1)
      /\ \A i \in 1..(n + 1) : i <= n + 1 /\ (i \in 1..n \/ i = n + 1)
  BY <1>2
<1>4. Coming(new, stored, k, data)
  BY <1>1, <1>2, <1>3 DEF Coming, w
<1>5. ASSUME NEW j \in Pages \ {k}, NEW e, Coming(writes, stored, j, e)
      PROVE  Coming(new, stored, j, e)
  <2>1. \A i \in 1..(n + 1) : new[i].page = j => i \in 1..n
    BY <1>1, <1>2, <1>3
  <2>2. CASE \E i \in 1..n : writes[i].page = j
    <3>1. PICK i \in 1..n : /\ writes[i] = [page |-> j, data |-> e]
                            /\ \A m \in 1..n : writes[m].page = j => m <= i
      BY <1>2, <1>5, <2>2 DEF Coming
    <3> QED
      BY <1>2, <1>3, <2>1, <3>1 DEF Coming
  <2>3. CASE ~ \E i \in 1..n : writes[i].page = j
    <3>1. ~ \E i \in 1..(n + 1) : new[i].page = j
      BY <1>2, <2>1, <2>3
    <3> QED
      BY <1>2, <1>5, <2>3, <3>1 DEF Coming
  <2> QED
    BY <2>2, <2>3
<1> QED
  BY <1>2, <1>4, <1>5 DEF new, w

\* When the first write-back arrives, what will be on flash in the end is the same.
LEMMA ComingDone ==
    ASSUME NEW writes \in Seq(Write), writes # <<>>, NEW stored \in [Pages -> Contents]
    PROVE  LET h == Head(writes)
           IN  /\ [stored EXCEPT ![h.page] = h.data] \in [Pages -> Contents]
               /\ \A j \in Pages : \A e : Coming(writes, stored, j, e)
                     => Coming(Tail(writes), [stored EXCEPT ![h.page] = h.data], j, e)
<1> DEFINE h     == Head(writes)
           rest  == Tail(writes)
           after == [stored EXCEPT ![h.page] = h.data]
           n     == Len(writes)
<1>1. /\ DOMAIN writes = 1..n /\ n \in Nat /\ n >= 1
      /\ h = writes[1] /\ h \in Write
      /\ DOMAIN rest = 1..(n - 1) /\ \A i \in 1..(n - 1) : rest[i] = writes[i + 1]
  OBVIOUS
<1>2. h.page \in Pages /\ h.data \in Contents
  BY <1>1 DEF Write
<1> HIDE DEF h, rest, n
<1>3. /\ after \in [Pages -> Contents] /\ after[h.page] = h.data
      /\ \A j \in Pages : j # h.page => after[j] = stored[j]
  BY <1>2
<1> HIDE DEF after
<1>4. \A i \in 1..n : i # 1 => i - 1 \in 1..(n - 1) /\ rest[i - 1] = writes[i]
  <2> TAKE i \in 1..n
  <2>1. i # 1 => i - 1 \in 1..(n - 1) /\ (i - 1) + 1 = i
    BY <1>1
  <2>2. i # 1 => rest[i - 1] = writes[(i - 1) + 1]
    BY <1>1, <2>1
  <2> QED
    BY <2>1, <2>2
<1>5. \A i \in 1..(n - 1) : i + 1 \in 1..n /\ i + 1 # 1 /\ ~ (i + 1 <= 1)
  BY <1>1
<1>6. ASSUME NEW j \in Pages, NEW e, Coming(writes, stored, j, e)
      PROVE  Coming(rest, after, j, e)
  <2>1. CASE \E i \in 1..n : writes[i].page = j
    <3>1. PICK i \in 1..n : /\ writes[i] = [page |-> j, data |-> e]
                            /\ \A m \in 1..n : writes[m].page = j => m <= i
      BY <1>1, <1>6, <2>1 DEF Coming
    <3>2. CASE i = 1
      <4>1. \A m \in 1..(n - 1) : rest[m].page # j
        BY <1>1, <1>5, <3>1, <3>2
      <4>2. after[j] = e
        BY <1>1, <1>3, <3>1, <3>2
      <4> QED
        BY <1>1, <4>1, <4>2 DEF Coming
    <3>3. CASE i # 1
      <4>1. i - 1 \in 1..(n - 1) /\ rest[i - 1] = [page |-> j, data |-> e]
        BY <1>4, <3>1, <3>3
      <4>2. ASSUME NEW m \in 1..(n - 1), rest[m].page = j PROVE m <= i - 1
        <5>1. m + 1 <= i
          BY <1>1, <1>5, <3>1, <4>2
        <5> QED
          BY <1>1, <5>1
      <4>3. \E m \in DOMAIN rest : rest[m].page = j
        BY <1>1, <4>1
      <4> QED
        BY <1>1, <4>1, <4>2, <4>3 DEF Coming
    <3> QED
      BY <3>2, <3>3
  <2>2. CASE ~ \E i \in 1..n : writes[i].page = j
    <3>1. \A m \in 1..(n - 1) : rest[m].page # j
      BY <1>1, <1>5, <2>2
    <3>2. h.page # j
      BY <1>1, <2>2
    <3>3. stored[j] = e
      BY <1>1, <1>6, <2>2 DEF Coming
    <3> QED
      BY <1>1, <1>3, <3>1, <3>2, <3>3 DEF Coming
  <2> QED
    BY <2>1, <2>2
<1> QED
  BY <1>3, <1>6 DEF h, rest, after

-----------------------------------------------------------------------------
(* No write is lost                                                           *)

\* NewestVisible and FlushedIsSafe, of any cache, write-backs, flash and writes.
SafeContents(c, writes, stored, wanted) ==
    /\ \A k \in Pages : IF k \in Cached(c) THEN c.slots[k].data = wanted[k]
                        ELSE Coming(writes, stored, k, wanted[k])
    /\ \A k \in Cached(c) \ Unflushed(c) : Coming(writes, stored, k, c.slots[k].data)

LEMMA SafeContentsIs ==
    /\ NewestVisible /\ FlushedIsSafe <=> SafeContents(cache, flushing, flash, newest)
    /\ NewestVisible' /\ FlushedIsSafe' <=> SafeContents(cache', flushing', flash', newest')
  BY DEF NewestVisible, FlushedIsSafe, Arrives, InFlight, SafeContents, Coming

\* A step that leaves every page but one as it was, or takes out what is flushed, and
\* sees to that one, loses nothing.
LEMMA ContentsKept ==
    ASSUME NEW c, NEW writes, NEW stored, NEW wanted,
           NEW d, NEW sent, NEW after, NEW asked,
           SafeContents(c, writes, stored, wanted),
           Cached(c) \subseteq Pages, Cached(d) \subseteq Pages, NEW k \in Pages,
           \A j \in Pages \ {k} :
              /\ asked[j] = wanted[j]
              /\ \A e : Coming(writes, stored, j, e) => Coming(sent, after, j, e)
              /\ j \in Cached(d) => j \in Cached(c) /\ d.slots[j] = c.slots[j]
              /\ j \in Cached(c) \ Cached(d) => j \notin Unflushed(c),
           IF k \in Cached(d)
           THEN /\ d.slots[k].data = asked[k]
                /\ k \in Unflushed(d) \/ Coming(sent, after, k, asked[k])
           ELSE Coming(sent, after, k, asked[k])
    PROVE  SafeContents(d, sent, after, asked)
<1>1. ASSUME NEW j \in Pages
      PROVE  IF j \in Cached(d) THEN d.slots[j].data = asked[j]
             ELSE Coming(sent, after, j, asked[j])
  <2>1. CASE j = k
    BY <2>1
  <2>2. CASE j # k /\ j \in Cached(d)
    BY <2>2 DEF SafeContents
  <2>3. CASE j # k /\ j \notin Cached(d)
    <3>1. Coming(writes, stored, j, wanted[j])
      BY <2>3 DEF SafeContents
    <3> QED
      BY <2>3, <3>1
  <2> QED
    BY <2>1, <2>2, <2>3
<1>2. ASSUME NEW j \in Cached(d) \ Unflushed(d)
      PROVE  Coming(sent, after, j, d.slots[j].data)
  <2>1. CASE j = k
    BY <1>2, <2>1
  <2>2. CASE j # k
    <3>1. j \in Cached(c) \ Unflushed(c) /\ d.slots[j] = c.slots[j] /\ j \in Pages
      BY <2>2 DEF Unflushed
    <3>2. Coming(writes, stored, j, c.slots[j].data)
      BY <3>1 DEF SafeContents
    <3> QED
      BY <2>2, <3>1, <3>2
  <2> QED
    BY <2>1, <2>2
<1> QED
  BY <1>1, <1>2 DEF SafeContents

-----------------------------------------------------------------------------
(* The order of use                                                           *)

\* What is nearer to the front of the list was used later.
UsedOrder(c, u) ==
    /\ Cached(c) \subseteq Range(u)
    /\ \A a, b : Precedes(c.lru_list, a, b) => Precedes(u, b, a)

\* A page that is used goes to the front of the list and to the end of the history.
LEMMA OrderMoved ==
    ASSUME NEW c, NEW u \in Seq(Pages), IsInjective(u), UsedOrder(c, u),
           NEW k \in Pages, NEW d, Cached(d) \subseteq Cached(c) \cup {k},
           \A a, b : Precedes(d.lru_list, a, b)
                       => \/ a # k /\ b # k /\ Precedes(c.lru_list, a, b)
                          \/ a = k /\ b \in Cached(c) \ {k}
    PROVE  LET v == Append(IF k \in Range(u) THEN Erased(u, k) ELSE u, k)
           IN  v \in Seq(Pages) /\ IsInjective(v) /\ UsedOrder(d, v)
<1> DEFINE rest == IF k \in Range(u) THEN Erased(u, k) ELSE u
           v    == Append(rest, k)
<1>1. /\ rest \in Seq(Pages) /\ IsInjective(rest) /\ Range(rest) = Range(u) \ {k}
      /\ \A a, b : a # k /\ b # k /\ Precedes(u, a, b) => Precedes(rest, a, b)
  <2>1. CASE k \in Range(u)
    BY <2>1, ErasedList
  <2>2. CASE k \notin Range(u)
    BY <2>2
  <2> QED
    BY <2>1, <2>2
<1> HIDE DEF rest
<1>2. /\ v \in Seq(Pages) /\ IsInjective(v) /\ Range(v) = Range(rest) \cup {k}
      /\ \A a, b : Precedes(rest, a, b) => Precedes(v, a, b)
      /\ \A a \in Range(rest) : Precedes(v, a, k)
  <2>1. k \notin Range(rest)
    BY <1>1
  <2> QED
    BY <1>1, <2>1, AppendedList
<1> HIDE DEF v
<1>3. Cached(d) \subseteq Range(v)
  BY <1>1, <1>2 DEF UsedOrder
<1>4. ASSUME NEW a, NEW b, Precedes(d.lru_list, a, b)
      PROVE  Precedes(v, b, a)
  <2>1. CASE a # k /\ b # k /\ Precedes(c.lru_list, a, b)
    BY <1>1, <1>2, <2>1 DEF UsedOrder
  <2>2. CASE a = k /\ b \in Cached(c) \ {k}
    BY <1>1, <1>2, <2>2 DEF UsedOrder
  <2> QED
    BY <1>4, <2>1, <2>2
<1> QED
  BY <1>2, <1>3, <1>4 DEF UsedOrder, v, rest

-----------------------------------------------------------------------------
(* The inductive invariant                                                    *)

Room == IF capacity = 0 THEN 1 ELSE capacity

DataCacheInv ==
    /\ TypeOK
    /\ CacheInv(cache)
    /\ Cardinality(Cached(cache)) <= Room
    /\ SafeContents(cache, flushing, flash, newest)
    /\ IsInjective(used)
    /\ UsedOrder(cache, used)

\* Of a cache that an insert may be made into: what comes out of it.
LEMMA InsertKeeps ==
    ASSUME NEW c, CacheInv(c), capacity \in Nat, Cardinality(Cached(c)) <= Room,
           NEW k \in Pages, k \notin Cached(c), NEW slot \in Slot,
           CheckFreeSlotAvailability(c) \/ Unflushed(c) = {}
    PROVE  LET new == Insert(c, k, slot)
           IN  /\ CacheInv(new)
               /\ Cardinality(Cached(new)) <= Room
               /\ Cached(new) \subseteq Cached(c) \cup {k}
               /\ k \in Cached(new) /\ new.slots[k] = slot
               /\ \A j \in Cached(new) \ {k} : new.slots[j] = c.slots[j]
               /\ Cached(c) \ Cached(new) # {} => Unflushed(c) = {}
               /\ \A a, b : Precedes(new.lru_list, a, b)
                              => \/ a # k /\ b # k /\ Precedes(c.lru_list, a, b)
                                 \/ a = k /\ b \in Cached(c) \ {k}
<1> DEFINE last == Last(c.lru_list)
           room == IF CheckFreeSlotAvailability(c) THEN c ELSE EvictOnePageLRU(c)
           new  == Insert(c, k, slot)
<1>1. new = Added(room, k, slot)
  BY DEF Insert
<1>2. /\ CacheInv(room)
      /\ Cached(room) \subseteq Cached(c)
      /\ Cached(c) \ Cached(room) # {} => Unflushed(c) = {}
      /\ Cardinality(Cached(room)) \in Nat /\ Cardinality(Cached(room)) + 1 <= Room
      /\ \A j \in Cached(room) : room.slots[j] = c.slots[j]
      /\ \A a, b : Precedes(room.lru_list, a, b) => Precedes(c.lru_list, a, b)
  <2>0. Cardinality(Cached(c)) \in Nat
    BY FS_CardinalityType DEF CacheInv
  <2>1. CASE CheckFreeSlotAvailability(c)
    BY <2>0, <2>1 DEF CheckFreeSlotAvailability, Room
  <2>2. CASE ~ CheckFreeSlotAvailability(c) /\ Cached(c) = {}
    <3>1. room = c /\ Cardinality(Cached(c)) = 0
      BY <2>2, FS_EmptySet DEF EvictOnePageLRU
    <3>2. capacity = 0
      BY <2>2, <3>1 DEF CheckFreeSlotAvailability
    <3> QED
      BY <3>1, <3>2 DEF Room
  <2>3. CASE ~ CheckFreeSlotAvailability(c) /\ Cached(c) # {}
    <3>1. room = Dropped(c, last) /\ last \in Cached(c)
      BY <2>3, LastCached DEF EvictOnePageLRU
    <3> HIDE DEF room, last
    <3>2. /\ CacheInv(room)
          /\ Cached(room) = Cached(c) \ {last}
          /\ Cardinality(Cached(room)) = Cardinality(Cached(c)) - 1
          /\ \A j \in Cached(c) \ {last} : room.slots[j] = c.slots[j]
          /\ \A a, b : Precedes(room.lru_list, a, b) => Precedes(c.lru_list, a, b)
      BY <3>1, DroppedKeeps
    <3>3. Cardinality(Cached(room)) \in Nat
      BY <3>2, FS_CardinalityType DEF CacheInv
    <3>4. Room \in Nat
      BY DEF Room
    <3> QED
      BY <2>0, <2>3, <3>2, <3>3, <3>4
  <2> QED
    BY <2>1, <2>2, <2>3
<1> HIDE DEF room, new
<1>3. k \notin Cached(room)
  BY <1>2
<1>4. /\ CacheInv(new)
      /\ Cached(new) = Cached(room) \cup {k}
      /\ Cardinality(Cached(new)) = Cardinality(Cached(room)) + 1
      /\ new.slots[k] = slot
      /\ \A j \in Cached(room) : new.slots[j] = room.slots[j]
      /\ \A a, b : Precedes(new.lru_list, a, b)
                     => Precedes(room.lru_list, a, b) \/ (a = k /\ b \in Cached(room))
  BY <1>1, <1>2, <1>3, AddedKeeps
<1>5. \A a, b : Precedes(c.lru_list, a, b) => a # k /\ b # k
  BY DEF Precedes, CacheInv, Range
<1>6. Cached(c) \ Cached(new) # {} => Unflushed(c) = {}
  BY <1>2, <1>4
<1>7. Cardinality(Cached(new)) <= Room
  BY <1>2, <1>4
<1> QED
  BY <1>2, <1>3, <1>4, <1>5, <1>6, <1>7 DEF new

\* GetSlot, an update and an insert use a page; the rest of what they do is told by
\* what they leave of the cache.
LEMMA PageUsed ==
    ASSUME DataCacheInv, NEW k \in Pages, Used(k),
           UNCHANGED <<capacity, flash, flushing, exit>>,
           newest' \in [Pages -> Contents],
           \A j \in Pages \ {k} : newest'[j] = newest[j],
           CacheInv(cache'), Cardinality(Cached(cache')) <= Room,
           Cached(cache') \subseteq Cached(cache) \cup {k},
           Cached(cache) \ Cached(cache') # {} => Unflushed(cache) = {},
           \A j \in Cached(cache') \ {k} : cache'.slots[j] = cache.slots[j],
           k \in Cached(cache'), cache'.slots[k].data = newest'[k],
           \/ cache'.slots[k].status = "DIRTY_NO_FLUSH"
           \/ Coming(flushing, flash, k, newest'[k]),
           \A a, b : Precedes(cache'.lru_list, a, b)
                       => \/ a # k /\ b # k /\ Precedes(cache.lru_list, a, b)
                          \/ a = k /\ b \in Cached(cache) \ {k}
    PROVE  DataCacheInv'
<1>1. SafeContents(cache', flushing', flash', newest')
  <2>1. Cached(cache) \subseteq Pages /\ Cached(cache') \subseteq Pages
    BY CacheFields DEF DataCacheInv, CacheInv
  <2>2. SafeContents(cache', flushing, flash, newest')
    BY <2>1, ContentsKept DEF DataCacheInv, Unflushed
  <2> QED
    BY <2>2
<1>2. used' \in Seq(Pages) /\ IsInjective(used') /\ UsedOrder(cache', used')
  BY OrderMoved DEF DataCacheInv, TypeOK, Used
<1>3. TypeOK'
  BY <1>2 DEF DataCacheInv, TypeOK, CacheInv
<1>4. Room' = Room
  BY DEF Room
<1> QED
  BY <1>1, <1>2, <1>3, <1>4 DEF DataCacheInv

\* The other steps use no page: a page may leave if it is flushed or being flushed.
LEMMA PageLeft ==
    ASSUME DataCacheInv, UNCHANGED <<capacity, newest, used>>,
           TypeOK', CacheInv(cache'), Cardinality(Cached(cache')) <= Room,
           SafeContents(cache', flushing', flash', newest),
           Cached(cache') \subseteq Cached(cache),
           \A a, b : Precedes(cache'.lru_list, a, b) => Precedes(cache.lru_list, a, b)
    PROVE  DataCacheInv'
<1>1. UsedOrder(cache', used')
  BY DEF DataCacheInv, UsedOrder
<1>2. Room' = Room
  BY DEF Room
<1> QED
  BY <1>1, <1>2 DEF DataCacheInv

LEMMA InitDataCacheInv == Init => DataCacheInv
<1> SUFFICES ASSUME Init PROVE DataCacheInv
  OBVIOUS
<1> DEFINE f == <<>>
<1>1. /\ f \in [{} -> Slot] /\ f \in Seq(Pages) /\ f \in Seq(Write)
      /\ Range(f) = {} /\ IsInjective(f) /\ DOMAIN f = {} /\ {} \in SUBSET Pages
  BY DEF Range, IsInjective
<1>2. cache = [slots |-> f, lru_list |-> f] /\ used = f /\ flushing = f
  BY DEF Init
<1> HIDE DEF f
<1>3. cache \in Cache /\ Cached(cache) = {} /\ cache.lru_list = f
  BY <1>1, <1>2, CacheOf
<1>4. CacheInv(cache) /\ Cardinality(Cached(cache)) <= Room
  <2>1. IsFiniteSet({}) /\ Cardinality({}) = 0
    BY FS_EmptySet
  <2>2. Room \in Nat
    BY CacheAssumption DEF Init, Room
  <2> QED
    BY <1>1, <1>3, <2>1, <2>2 DEF CacheInv
<1>5. /\ capacity \in Capacities /\ exit = "none" /\ newest = flash
      /\ flash = [k \in Pages |-> Initial]
  BY DEF Init
<1>6. TypeOK
  BY <1>1, <1>2, <1>3, <1>5, CacheAssumption DEF TypeOK
<1>7. SafeContents(cache, flushing, flash, newest)
  BY <1>1, <1>2, <1>3, <1>5 DEF SafeContents, Coming
<1>8. UsedOrder(cache, used)
  BY <1>1, <1>3 DEF UsedOrder, Precedes
<1> QED
  BY <1>1, <1>2, <1>4, <1>6, <1>7, <1>8 DEF DataCacheInv

LEMMA GetSlotKeeps ==
    ASSUME DataCacheInv, NEW k \in Pages, GetSlot(k)
    PROVE  DataCacheInv'
<1>1. /\ k \in Cached(cache) /\ cache' = Refreshed(cache, k) /\ Used(k)
      /\ UNCHANGED <<capacity, flash, flushing, newest, exit>>
  BY DEF GetSlot, Running
<1>2. /\ CacheInv(cache') /\ cache'.slots = cache.slots
      /\ Cached(cache') = Cached(cache)
      /\ \A a, b : Precedes(cache'.lru_list, a, b)
                     => \/ a # k /\ b # k /\ Precedes(cache.lru_list, a, b)
                        \/ a = k /\ b \in Cached(cache) \ {k}
  BY <1>1, RefreshedKeeps DEF DataCacheInv
<1>3. /\ newest' \in [Pages -> Contents]
      /\ Cardinality(Cached(cache')) <= Room
  BY <1>1, <1>2 DEF DataCacheInv, TypeOK
<1>4. /\ cache.slots[k].data = newest[k]
      /\ \/ cache.slots[k].status = "DIRTY_NO_FLUSH"
         \/ Coming(flushing, flash, k, newest[k])
  <2>1. cache.slots[k].data = newest[k]
    BY <1>1 DEF DataCacheInv, SafeContents
  <2> QED
    BY <1>1, <2>1 DEF DataCacheInv, SafeContents, Unflushed
<1> QED
  BY <1>1, <1>2, <1>3, <1>4, PageUsed

LEMMA UpdateDataKeeps ==
    ASSUME DataCacheInv, NEW k \in Pages, NEW data \in Contents, UpdateData(k, data)
    PROVE  DataCacheInv'
<1> DEFINE slot    == [data |-> data, status |-> "DIRTY_NO_FLUSH"]
           changed == [cache EXCEPT !.slots[k] = slot]
<1>1. /\ k \in Cached(cache) /\ cache' = Refreshed(changed, k) /\ Used(k)
      /\ newest' = [newest EXCEPT ![k] = data]
      /\ UNCHANGED <<capacity, flash, flushing, exit>>
  BY DEF UpdateData, Updated, Running
<1>2. slot \in Slot /\ slot.data = data /\ slot.status = "DIRTY_NO_FLUSH"
  BY DEF Slot
<1> HIDE DEF slot
<1>3. /\ CacheInv(changed) /\ Cached(changed) = Cached(cache)
      /\ changed.lru_list = cache.lru_list /\ changed.slots[k] = slot
      /\ \A j \in Cached(cache) \ {k} : changed.slots[j] = cache.slots[j]
  BY <1>1, <1>2, SlotChanged DEF DataCacheInv
<1> HIDE DEF changed
<1>4. /\ CacheInv(cache') /\ cache'.slots = changed.slots
      /\ Cached(cache') = Cached(cache)
      /\ \A a, b : Precedes(cache'.lru_list, a, b)
                     => \/ a # k /\ b # k /\ Precedes(cache.lru_list, a, b)
                        \/ a = k /\ b \in Cached(cache) \ {k}
  BY <1>1, <1>3, RefreshedKeeps
<1>5. /\ newest' \in [Pages -> Contents] /\ newest'[k] = data
      /\ \A j \in Pages \ {k} : newest'[j] = newest[j]
      /\ Cardinality(Cached(cache')) <= Room
  BY <1>1, <1>4 DEF DataCacheInv, TypeOK
<1> QED
  BY <1>1, <1>2, <1>3, <1>4, <1>5, PageUsed

LEMMA InsertDataKeeps ==
    ASSUME DataCacheInv, NEW k \in Pages, NEW slot \in Slot, k \notin Cached(cache),
           RoomMade, Used(k), cache' = Insert(cache, k, slot),
           newest' = [newest EXCEPT ![k] = slot.data],
           UNCHANGED <<capacity, flash, flushing, exit>>,
           \/ slot.status = "DIRTY_NO_FLUSH"
           \/ Coming(flushing, flash, k, slot.data)
    PROVE  DataCacheInv'
<1>1. capacity \in Nat
  BY CacheAssumption DEF DataCacheInv, TypeOK
<1>2. /\ CacheInv(cache')
      /\ Cardinality(Cached(cache')) <= Room
      /\ Cached(cache') \subseteq Cached(cache) \cup {k}
      /\ k \in Cached(cache') /\ cache'.slots[k] = slot
      /\ \A j \in Cached(cache') \ {k} : cache'.slots[j] = cache.slots[j]
      /\ Cached(cache) \ Cached(cache') # {} => Unflushed(cache) = {}
      /\ \A a, b : Precedes(cache'.lru_list, a, b)
                     => \/ a # k /\ b # k /\ Precedes(cache.lru_list, a, b)
                        \/ a = k /\ b \in Cached(cache) \ {k}
  BY <1>1, InsertKeeps DEF DataCacheInv, RoomMade
<1>3. /\ newest' \in [Pages -> Contents] /\ newest'[k] = slot.data
      /\ \A j \in Pages \ {k} : newest'[j] = newest[j]
  BY DEF DataCacheInv, TypeOK, Slot
<1> QED
  BY <1>2, <1>3, PageUsed

LEMMA InsertWriteDataKeeps ==
    ASSUME DataCacheInv, NEW k \in Pages, NEW data \in Contents, InsertWriteData(k, data)
    PROVE  DataCacheInv'
<1> DEFINE slot == [data |-> data, status |-> "DIRTY_NO_FLUSH"]
<1>1. slot \in Slot /\ slot.data = data /\ slot.status = "DIRTY_NO_FLUSH"
  BY DEF Slot
<1>2. /\ k \notin Cached(cache) /\ RoomMade /\ Used(k)
      /\ cache' = Insert(cache, k, slot) /\ newest' = [newest EXCEPT ![k] = data]
      /\ UNCHANGED <<capacity, flash, flushing, exit>>
  BY DEF InsertWriteData, Running
<1> HIDE DEF slot
<1> QED
  BY <1>1, <1>2, InsertDataKeeps

LEMMA InsertReadDataKeeps ==
    ASSUME DataCacheInv, NEW k \in Pages, InsertReadData(k)
    PROVE  DataCacheInv'
<1> DEFINE slot == [data |-> flash[k], status |-> "CLEAN"]
<1>1. slot \in Slot /\ slot.data = flash[k]
  BY DEF Slot, DataCacheInv, TypeOK
<1>2. /\ k \notin Cached(cache) /\ RoomMade /\ Used(k) /\ ~ InFlight(k)
      /\ cache' = Insert(cache, k, slot)
      /\ UNCHANGED <<capacity, flash, flushing, newest, exit>>
  BY DEF InsertReadData, Running
<1>3. Coming(flushing, flash, k, flash[k])
  BY <1>2 DEF Coming, InFlight
<1>4. newest[k] = flash[k]
  <2>1. Coming(flushing, flash, k, newest[k])
    BY <1>2 DEF DataCacheInv, SafeContents
  <2> QED
    BY <1>2, <2>1 DEF Coming, InFlight
<1>5. newest' = [newest EXCEPT ![k] = slot.data]
  BY <1>1, <1>2, <1>4 DEF DataCacheInv, TypeOK
<1> HIDE DEF slot
<1> QED
  BY <1>1, <1>2, <1>3, <1>5, InsertDataKeeps

\* A page is sent to flash: it may leave the cache, or stay as flushed.
LEMMA EvictOneDirtyPageKeeps ==
    ASSUME DataCacheInv, EvictOneDirtyPage
    PROVE  DataCacheInv'
<1>1. PICK k \in DirtyVictim(cache) :
        /\ flushing' = IF cache.slots[k].status # "DIRTY_NO_FLUSH" THEN flushing
                       ELSE Append(flushing, [page |-> k, data |-> cache.slots[k].data])
        /\ cache' = Dropped(cache, k)
  BY DEF EvictOneDirtyPage
<1>2. Cached(cache) # {} /\ UNCHANGED <<capacity, flash, newest, used, exit>>
  BY DEF EvictOneDirtyPage, Running
<1>3. /\ CacheInv(cache) /\ Cached(cache) \subseteq Pages
      /\ cache.slots \in [Cached(cache) -> Slot]
  BY CacheFields DEF DataCacheInv, CacheInv
<1>4. k \in Cached(cache) /\ (k \in Unflushed(cache) \/ Unflushed(cache) = {})
  BY <1>2, <1>3, LastCached DEF DirtyVictim, OldestUnflushed, Unflushed
<1>5. k \in Pages /\ cache.slots[k].data \in Contents /\ newest[k] = cache.slots[k].data
  BY <1>3, <1>4 DEF Slot, DataCacheInv, SafeContents
<1>6. /\ CacheInv(cache') /\ Cached(cache') = Cached(cache) \ {k}
      /\ Cardinality(Cached(cache')) = Cardinality(Cached(cache)) - 1
      /\ \A j \in Cached(cache) \ {k} : cache'.slots[j] = cache.slots[j]
      /\ \A a, b : Precedes(cache'.lru_list, a, b) => Precedes(cache.lru_list, a, b)
  BY <1>1, <1>3, <1>4, DroppedKeeps
<1>7. /\ flushing' \in Seq(Write)
      /\ Coming(flushing', flash, k, newest[k])
      /\ \A j \in Pages \ {k} : \A e :
            Coming(flushing, flash, j, e) => Coming(flushing', flash, j, e)
  <2>1. CASE k \in Unflushed(cache)
    <3>1. flushing' = Append(flushing, [page |-> k, data |-> cache.slots[k].data])
      BY <1>1, <2>1 DEF Unflushed
    <3>2. flushing \in Seq(Write)
      BY DEF DataCacheInv, TypeOK
    <3> QED
      BY <1>5, <3>1, <3>2, ComingSent
  <2>2. CASE k \notin Unflushed(cache)
    <3>1. flushing' = flushing
      BY <1>1, <1>4, <2>2 DEF Unflushed
    <3>2. Coming(flushing, flash, k, cache.slots[k].data)
      BY <1>4, <2>2 DEF DataCacheInv, SafeContents
    <3> QED
      BY <1>5, <3>1, <3>2 DEF DataCacheInv, TypeOK
  <2> QED
    BY <2>1, <2>2
<1>8. SafeContents(cache', flushing', flash, newest)
  BY <1>3, <1>5, <1>6, <1>7, ContentsKept DEF DataCacheInv
<1>9. Cardinality(Cached(cache')) <= Room
  <2>1. Cardinality(Cached(cache)) \in Nat /\ Room \in Nat
    BY <1>3, FS_CardinalityType, CacheAssumption DEF CacheInv, DataCacheInv, TypeOK, Room
  <2> QED
    BY <1>6, <2>1 DEF DataCacheInv
<1>10. TypeOK'
  BY <1>2, <1>6, <1>7 DEF DataCacheInv, TypeOK, CacheInv
<1> QED
  BY <1>2, <1>6, <1>8, <1>9, <1>10, PageLeft

LEMMA WriteBackKeeps ==
    ASSUME DataCacheInv, NEW k \in Pages, ChangeSlotStatusToWriteBack(k)
    PROVE  DataCacheInv'
<1> DEFINE slot == [data |-> cache.slots[k].data, status |-> "DIRTY_FLUSH"]
<1>1. /\ k \in Unflushed(cache) /\ cache' = [cache EXCEPT !.slots[k].status = "DIRTY_FLUSH"]
      /\ flushing' = Append(flushing, [page |-> k, data |-> cache.slots[k].data])
      /\ UNCHANGED <<capacity, flash, newest, used, exit>>
  BY DEF ChangeSlotStatusToWriteBack, Running
<1>2. /\ CacheInv(cache) /\ Cached(cache) \subseteq Pages /\ k \in Cached(cache)
      /\ cache.slots[k] \in Slot
  BY <1>1, CacheFields DEF DataCacheInv, CacheInv, Unflushed
<1>3. slot \in Slot /\ cache' = [cache EXCEPT !.slots[k] = slot]
  BY <1>1, <1>2 DEF Slot
<1>4. /\ cache.slots[k].data \in Contents /\ newest[k] = cache.slots[k].data
      /\ slot.data = cache.slots[k].data
  BY <1>2 DEF Slot, DataCacheInv, SafeContents
<1> HIDE DEF slot
<1>5. /\ CacheInv(cache') /\ Cached(cache') = Cached(cache)
      /\ cache'.lru_list = cache.lru_list /\ cache'.slots[k] = slot
      /\ \A j \in Cached(cache) \ {k} : cache'.slots[j] = cache.slots[j]
  BY <1>2, <1>3, SlotChanged
<1>6. /\ flushing' \in Seq(Write)
      /\ Coming(flushing', flash, k, newest[k])
      /\ \A j \in Pages \ {k} : \A e :
            Coming(flushing, flash, j, e) => Coming(flushing', flash, j, e)
  <2>1. flushing \in Seq(Write)
    BY DEF DataCacheInv, TypeOK
  <2> QED
    BY <1>1, <1>4, <2>1, ComingSent
<1>7. SafeContents(cache', flushing', flash, newest)
  BY <1>2, <1>4, <1>5, <1>6, ContentsKept DEF DataCacheInv
<1>8. TypeOK' /\ Cardinality(Cached(cache')) <= Room
  BY <1>1, <1>5, <1>6 DEF DataCacheInv, TypeOK, CacheInv
<1> QED
  BY <1>1, <1>5, <1>7, <1>8, PageLeft

LEMMA FlushDoneKeeps ==
    ASSUME DataCacheInv, FlushDone
    PROVE  DataCacheInv'
<1>1. /\ flushing # <<>> /\ flushing' = Tail(flushing)
      /\ flash' = [flash EXCEPT ![Head(flushing).page] = Head(flushing).data]
      /\ UNCHANGED <<capacity, cache, newest, used, exit>>
  BY DEF FlushDone, Running
<1>2. flushing \in Seq(Write) /\ flash \in [Pages -> Contents]
  BY DEF DataCacheInv, TypeOK
<1>3. /\ flash' \in [Pages -> Contents]
      /\ \A j \in Pages : \A e : Coming(flushing, flash, j, e) => Coming(flushing', flash', j, e)
  BY <1>1, <1>2, ComingDone
<1>4. TypeOK'
  BY <1>1, <1>2, <1>3 DEF DataCacheInv, TypeOK
<1>5. SafeContents(cache, flushing', flash', newest)
  <2>1. Cached(cache) \subseteq Pages
    BY CacheFields DEF DataCacheInv, CacheInv
  <2> QED
    BY <1>3, <2>1 DEF DataCacheInv, SafeContents
<1> QED
  BY <1>1, <1>4, <1>5, PageLeft DEF DataCacheInv

LEMMA RemoveSlotKeeps ==
    ASSUME DataCacheInv, NEW k \in Pages, RemoveSlot(k)
    PROVE  DataCacheInv'
<1>1. /\ k \in Cached(cache) /\ k \notin Unflushed(cache)
      /\ UNCHANGED <<capacity, flash, flushing, newest, used>>
  BY DEF RemoveSlot, Running, Unflushed
<1>2. CASE cache' = Dropped(cache, k) /\ exit' = "none"
  <2>1. /\ CacheInv(cache') /\ Cached(cache') = Cached(cache) \ {k}
        /\ Cardinality(Cached(cache')) = Cardinality(Cached(cache)) - 1
        /\ \A j \in Cached(cache) \ {k} : cache'.slots[j] = cache.slots[j]
        /\ \A a, b : Precedes(cache'.lru_list, a, b) => Precedes(cache.lru_list, a, b)
    BY <1>1, <1>2, DroppedKeeps DEF DataCacheInv
  <2>2. Cached(cache) \subseteq Pages /\ IsFiniteSet(Cached(cache))
    BY CacheFields DEF DataCacheInv, CacheInv
  <2>3. Coming(flushing, flash, k, newest[k])
    BY <1>1 DEF DataCacheInv, SafeContents
  <2>4. SafeContents(cache', flushing, flash, newest)
    BY <2>1, <2>2, <2>3, ContentsKept DEF DataCacheInv
  <2>5. Cardinality(Cached(cache')) <= Room
    <3>1. Cardinality(Cached(cache)) \in Nat /\ Room \in Nat
      BY <2>2, FS_CardinalityType, CacheAssumption DEF DataCacheInv, TypeOK, Room
    <3> QED
      BY <2>1, <3>1 DEF DataCacheInv
  <2>6. TypeOK'
    BY <1>1, <1>2, <2>1 DEF DataCacheInv, TypeOK, CacheInv
  <2> QED
    BY <1>1, <2>1, <2>4, <2>5, <2>6, PageLeft
<1>3. CASE exit' = "undefined_behaviour" /\ UNCHANGED cache
  <2>1. TypeOK'
    BY <1>1, <1>3 DEF DataCacheInv, TypeOK
  <2> QED
    BY <1>1, <1>3, <2>1, PageLeft DEF DataCacheInv
<1> QED
  BY <1>2, <1>3 DEF RemoveSlot

LEMMA NextDataCacheInv ==
    ASSUME DataCacheInv, [Next]_vars
    PROVE  DataCacheInv'
<1>1. CASE UNCHANGED vars
  BY <1>1 DEF vars, DataCacheInv, TypeOK, Room
<1> QED
  BY <1>1, GetSlotKeeps, UpdateDataKeeps, InsertWriteDataKeeps, InsertReadDataKeeps,
     WriteBackKeeps, RemoveSlotKeeps, EvictOneDirtyPageKeeps, FlushDoneKeeps DEF Next

-----------------------------------------------------------------------------
(* The theorems                                                               *)

\* The list, the map, the write-backs and the history of use stay in step, for any
\* pages, contents and capacities, 0 among them.
THEOREM CacheInvariant == Spec => []DataCacheInv
<1>1. DataCacheInv /\ [Next]_vars => DataCacheInv'
  BY NextDataCacheInv
<1> QED
  BY <1>1, InitDataCacheInv, PTL DEF Spec

\* The capacity is the constructor's, and nothing that is cached, sent or stored is not
\* a page with a content.
THEOREM CacheTypeCorrect == Spec => []TypeOK
<1>1. DataCacheInv => TypeOK
  BY DEF DataCacheInv
<1> QED
  BY <1>1, CacheInvariant, PTL

\* unordered_map and list never part, whatever is evicted, refreshed or removed.
THEOREM ListMatchesSlots == Spec => []LruMatchesSlots
<1>1. DataCacheInv => LruMatchesSlots
  BY DEF DataCacheInv, CacheInv, Room, LruMatchesSlots
<1> QED
  BY <1>1, CacheInvariant, PTL

\* A careful manager loses no write, however far its write-backs lag behind.
THEOREM NoWriteLost == Spec => []NewestVisible
<1>1. DataCacheInv => NewestVisible
  BY SafeContentsIs DEF DataCacheInv
<1> QED
  BY <1>1, CacheInvariant, PTL

\* A cached page that is not waiting for its write-back may be dropped at any time.
THEOREM FlushedPagesSafe == Spec => []FlushedIsSafe
<1>1. DataCacheInv => FlushedIsSafe
  BY SafeContentsIs DEF DataCacheInv
<1> QED
  BY <1>1, CacheInvariant, PTL

\* Only EvictOneDirtyPage lets an unflushed page go, and its scan from the back finds
\* the one that was used before all others: the list is in the order of use.
LEMMA UnflushedLeaves ==
    ASSUME DataCacheInv, [Next]_vars,
           NEW j \in Unflushed(cache), NEW k \in Unflushed(cache), j # k,
           k \notin Cached(cache')
    PROVE  Precedes(used, k, j)
<1>1. CacheInv(cache) /\ k \in Cached(cache) /\ k \in Pages
  BY CacheFields DEF DataCacheInv, CacheInv, Unflushed
<1>2. CASE EvictOneDirtyPage
  <2>1. PICK victim \in DirtyVictim(cache) : cache' = Dropped(cache, victim)
    BY <1>2 DEF EvictOneDirtyPage
  <2>2. victim \in OldestUnflushed(cache)
    BY <2>1 DEF DirtyVictim
  <2>3. Cached(cache') = Cached(cache) \ {victim}
    BY <1>1, <2>1, <2>2, DroppedKeeps DEF OldestUnflushed, Unflushed
  <2>4. Precedes(cache.lru_list, j, k)
    BY <1>1, <2>2, <2>3 DEF OldestUnflushed
  <2> QED
    BY <2>4 DEF DataCacheInv, UsedOrder
<1>3. ASSUME NEW x \in Pages, NEW slot, x \notin Cached(cache), RoomMade,
             cache' = Insert(cache, x, slot)
      PROVE  FALSE
  <2>1. CheckFreeSlotAvailability(cache)
    BY <1>3 DEF RoomMade
  <2>2. cache' = Added(cache, x, slot)
    BY <1>3, <2>1 DEF Insert
  <2>3. Cached(cache') = Cached(cache) \cup {x}
    BY <2>2 DEF Cached, Added
  <2> QED
    BY <1>1, <2>3
<1>4. ASSUME NEW x \in Pages, GetSlot(x) PROVE FALSE
  <2>1. cache' = Refreshed(cache, x) /\ x \in Cached(cache)
    BY <1>4 DEF GetSlot
  <2> QED
    BY <1>1, <2>1, RefreshedKeeps
<1>5. ASSUME NEW x \in Pages, NEW data \in Contents, UpdateData(x, data) PROVE FALSE
  <2> DEFINE slot    == [data |-> data, status |-> "DIRTY_NO_FLUSH"]
             changed == [cache EXCEPT !.slots[x] = slot]
  <2>1. cache' = Refreshed(changed, x) /\ x \in Cached(cache)
    BY <1>5 DEF UpdateData, Updated
  <2>2. slot \in Slot
    BY DEF Slot
  <2> HIDE DEF slot
  <2>3. CacheInv(changed) /\ Cached(changed) = Cached(cache)
    BY <1>1, <2>1, <2>2, SlotChanged
  <2> HIDE DEF changed
  <2> QED
    BY <1>1, <2>1, <2>3, RefreshedKeeps
<1>6. ASSUME NEW x \in Pages, ChangeSlotStatusToWriteBack(x) PROVE FALSE
  <2> DEFINE slot == [data |-> cache.slots[x].data, status |-> "DIRTY_FLUSH"]
  <2>1. /\ x \in Cached(cache) /\ cache' = [cache EXCEPT !.slots[x].status = "DIRTY_FLUSH"]
        /\ cache.slots[x] \in Slot
    BY <1>1, <1>6, CacheFields DEF ChangeSlotStatusToWriteBack, Unflushed, CacheInv
  <2>2. slot \in Slot /\ cache' = [cache EXCEPT !.slots[x] = slot]
    BY <2>1 DEF Slot
  <2> HIDE DEF slot
  <2> QED
    BY <1>1, <2>1, <2>2, SlotChanged
<1>7. ASSUME NEW x \in Pages, RemoveSlot(x) PROVE FALSE
  <2>1. x \in Cached(cache) /\ x # k
    BY <1>7 DEF RemoveSlot, Unflushed
  <2>2. cache' = Dropped(cache, x) \/ cache' = cache
    BY <1>7 DEF RemoveSlot
  <2> QED
    BY <1>1, <2>1, <2>2, DroppedKeeps
<1>8. ASSUME FlushDone \/ UNCHANGED vars PROVE FALSE
  BY <1>1, <1>8 DEF FlushDone, vars
<1>9. ASSUME NEW x \in Pages, NEW data \in Contents,
             InsertWriteData(x, data) \/ InsertReadData(x)
      PROVE  FALSE
  BY <1>3, <1>9 DEF InsertWriteData, InsertReadData
<1> QED
  BY <1>2, <1>4, <1>5, <1>6, <1>7, <1>8, <1>9, CacheAssumption DEF Next

\* EvictOneDirtyPage is least-recently-used among the unflushed pages: whatever GetSlot,
\* UpdateData and the inserts do to the list in between.
THEOREM OldestFlushedFirst == Spec => LeastRecentlyUsed
<1>1. DataCacheInv /\ [Next]_vars =>
        [\A j, k \in Unflushed(cache) :
            j # k /\ k \notin Cached(cache') => Precedes(used, k, j)]_vars
  BY UnflushedLeaves
<1> QED
  BY <1>1, CacheInvariant, PTL DEF Spec, LeastRecentlyUsed

=============================================================================
