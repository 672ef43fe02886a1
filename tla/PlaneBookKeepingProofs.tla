----------------------- MODULE PlaneBookKeepingProofs -----------------------
(***************************************************************************)
(* Lemmas about the operators of PlaneBookKeeping, for any plane: what     *)
(* each method of BlockManager makes of its record.  They know nothing of  *)
(* any specification, so every module that calls the methods can use them. *)
(***************************************************************************)
EXTENDS PlaneBookKeeping, SequenceTheorems, FiniteSetTheorems, TLAPS

-----------------------------------------------------------------------------
(* The free block pool                                                        *)

\* Inserting an entry shifts those behind it by one.
LEMMA InsertAtProperties ==
    ASSUME NEW S, NEW seq \in Seq(S), NEW i \in 1..(Len(seq) + 1), NEW e \in S
    PROVE  /\ InsertAt(seq, i, e) \in Seq(S)
           /\ Len(InsertAt(seq, i, e)) = Len(seq) + 1
           /\ \A k \in 1..(Len(seq) + 1) :
                 InsertAt(seq, i, e)[k] = IF k < i THEN seq[k]
                                          ELSE IF k = i THEN e ELSE seq[k - 1]
  <1>. DEFINE before == SubSeq(seq, 1, i - 1)
              after == SubSeq(seq, i, Len(seq))
  <1>1. /\ before \in Seq(S) /\ Len(before) = i - 1
        /\ \A k \in 1..(i - 1) : before[k] = seq[k]
    <2>1. \A k \in 1..(i - 1) : seq[k] \in S
      BY ElementOfSeq
    <2>2. /\ before \in Seq(S)
          /\ Len(before) = IF 1 <= i - 1 THEN (i - 1) - 1 + 1 ELSE 0
          /\ \A k \in 1..((i - 1) - 1 + 1) : before[k] = seq[1 + k - 1]
      BY <2>1, SubSeqProperties
    <2>. QED BY <2>2
  <1>2. /\ after \in Seq(S) /\ Len(after) = Len(seq) - i + 1
        /\ \A k \in 1..(Len(seq) - i + 1) : after[k] = seq[i + k - 1]
    <2>1. \A k \in i..Len(seq) : seq[k] \in S
      BY ElementOfSeq
    <2>2. /\ after \in Seq(S)
          /\ Len(after) = IF i <= Len(seq) THEN Len(seq) - i + 1 ELSE 0
          /\ \A k \in 1..(Len(seq) - i + 1) : after[k] = seq[i + k - 1]
      BY <2>1, SubSeqProperties
    <2>. QED BY <2>2
  <1>3. <<e>> \in Seq(S) /\ Len(<<e>>) = 1 /\ <<e>>[1] = e
    OBVIOUS
  <1>. HIDE DEF before, after
  <1>. DEFINE front == before \o <<e>>
  <1>4. /\ front \in Seq(S) /\ Len(front) = i
        /\ \A k \in 1..i : front[k] = IF k <= i - 1 THEN before[k] ELSE <<e>>[k - (i - 1)]
    BY <1>1, <1>3, ConcatProperties
  <1>. HIDE DEF front
  <1>5. /\ front \o after \in Seq(S) /\ Len(front \o after) = Len(seq) + 1
        /\ \A k \in 1..(Len(seq) + 1) :
              (front \o after)[k] = IF k <= i THEN front[k] ELSE after[k - i]
    <2>1. /\ front \o after \in Seq(S) /\ Len(front \o after) = Len(front) + Len(after)
          /\ \A k \in 1..(Len(front) + Len(after)) :
                (front \o after)[k] = IF k <= Len(front) THEN front[k]
                                       ELSE after[k - Len(front)]
      BY <1>2, <1>4, ConcatProperties
    <2>2. Len(front) + Len(after) = Len(seq) + 1 /\ Len(front) = i
      BY <1>2, <1>4
    <2>. QED BY <2>1, <2>2
  <1>6. \A k \in 1..(Len(seq) + 1) :
           (front \o after)[k] = IF k < i THEN seq[k] ELSE IF k = i THEN e ELSE seq[k - 1]
    <2>. TAKE k \in 1..(Len(seq) + 1)
    <2>0. k \in Int /\ i \in Int
      BY LenProperties
    <2>1. CASE k < i
      <3>1. k \in 1..i /\ k \in 1..(i - 1) /\ k <= i - 1
        BY <2>0, <2>1
      <3>2. (front \o after)[k] = front[k] /\ front[k] = before[k] /\ before[k] = seq[k]
        BY <1>1, <1>4, <1>5, <3>1
      <3>. QED BY <2>1, <3>2
    <2>2. CASE k = i
      <3>1. front[i] = <<e>>[i - (i - 1)] /\ i - (i - 1) = 1
        BY <1>4
      <3>. QED BY <1>3, <1>5, <2>2, <3>1
    <2>3. CASE k > i
      <3>1. (front \o after)[k] = after[k - i] /\ k - i \in 1..(Len(seq) - i + 1)
        BY <1>5, <2>3
      <3>2. after[k - i] = seq[k - 1]
        BY <1>2, <3>1
      <3>. QED BY <2>3, <3>1, <3>2
    <2>4. k < i \/ k = i \/ k > i
      BY <2>0
    <2>. QED BY <2>1, <2>2, <2>3, <2>4, Zenon
  <1>7. InsertAt(seq, i, e) = front \o after
    BY DEF InsertAt, before, after, front
  <1>. QED BY <1>5, <1>6, <1>7

LEMMA InsertIntoPool ==
    ASSUME NEW pool \in Seq(PoolEntry), NEW i \in 1..(Len(pool) + 1), NEW e \in PoolEntry
    PROVE  /\ InsertAt(pool, i, e) \in Seq(PoolEntry)
           /\ Len(InsertAt(pool, i, e)) = Len(pool) + 1
           /\ \A k \in 1..(Len(pool) + 1) :
                 InsertAt(pool, i, e)[k] = IF k < i THEN pool[k]
                                           ELSE IF k = i THEN e ELSE pool[k - 1]
  BY InsertAtProperties

\* Taking the first entry takes its block out of the pool, and only it.
LEMMA TailOfPool ==
    ASSUME NEW pool \in Seq(PoolEntry), pool # <<>>, EachPooledOnce(pool)
    PROVE  /\ Head(pool) \in PoolEntry
           /\ Tail(pool) \in Seq(PoolEntry)
           /\ EachPooledOnce(Tail(pool))
           /\ Pooled(pool, Head(pool).block)
           /\ \A c : Pooled(Tail(pool), c) <=> Pooled(pool, c) /\ c # Head(pool).block
  <1>1. /\ Head(pool) \in PoolEntry /\ Head(pool) = pool[1]
        /\ Tail(pool) \in Seq(PoolEntry)
        /\ DOMAIN Tail(pool) = 1..(Len(pool) - 1)
        /\ \A i \in 1..(Len(pool) - 1) : Tail(pool)[i] = pool[i + 1]
        /\ DOMAIN pool = 1..Len(pool) /\ Len(pool) \in Nat \ {0}
    BY HeadTailProperties, LenProperties, EmptySeq
  <1>2. EachPooledOnce(Tail(pool))
    BY <1>1 DEF EachPooledOnce
  <1>3. Pooled(pool, Head(pool).block)
    BY <1>1 DEF Pooled
  <1>4. ASSUME NEW c, Pooled(Tail(pool), c)
        PROVE  Pooled(pool, c) /\ c # Head(pool).block
    BY <1>1, <1>4 DEF Pooled, EachPooledOnce
  <1>5. ASSUME NEW c, Pooled(pool, c), c # Head(pool).block
        PROVE  Pooled(Tail(pool), c)
    <2>1. PICK i \in DOMAIN pool : pool[i].block = c
      BY <1>5 DEF Pooled
    <2>2. i # 1 /\ i - 1 \in DOMAIN Tail(pool) /\ Tail(pool)[i - 1] = pool[i]
      BY <1>1, <1>5, <2>1
    <2>. QED BY <2>1, <2>2 DEF Pooled
  <1>. QED BY <1>1, <1>2, <1>3, <1>4, <1>5

\* An erased block enters the pool, and no other block does.
LEMMA AddToPool ==
    ASSUME NEW pool \in Seq(PoolEntry), EachPooledOnce(pool),
           NEW key \in Nat, NEW b \in Blocks, ~ Pooled(pool, b)
    PROVE  /\ AddToFreeBlockPool(pool, key, b) \in Seq(PoolEntry)
           /\ EachPooledOnce(AddToFreeBlockPool(pool, key, b))
           /\ \A c : Pooled(AddToFreeBlockPool(pool, key, b), c)
                       <=> Pooled(pool, c) \/ c = b
  <1>. DEFINE notGreater == {i \in DOMAIN pool : pool[i].key <= key}
              at == Cardinality(notGreater) + 1
              entry == [key |-> key, block |-> b]
              after == AddToFreeBlockPool(pool, key, b)
  <1>1. at \in 1..(Len(pool) + 1)
    <2>1. /\ IsFiniteSet(1..Len(pool)) /\ Cardinality(1..Len(pool)) = Len(pool)
          /\ DOMAIN pool = 1..Len(pool) /\ Len(pool) \in Nat
      BY FS_Interval, LenProperties
    <2>2. notGreater \subseteq 1..Len(pool)
      BY <2>1
    <2>3. /\ Cardinality(notGreater) \in Nat
          /\ Cardinality(notGreater) <= Cardinality(1..Len(pool))
      BY <2>1, <2>2, FS_Subset, FS_CardinalityType
    <2>. QED BY <2>1, <2>3
  <1>2. after = InsertAt(pool, at, entry)
    BY DEF AddToFreeBlockPool
  <1>3. entry \in PoolEntry /\ entry.block = b
    BY DEF PoolEntry
  <1>. HIDE DEF at, entry, after
  <1>4. /\ after \in Seq(PoolEntry) /\ DOMAIN after = 1..(Len(pool) + 1)
        /\ \A k \in 1..(Len(pool) + 1) :
              after[k] = IF k < at THEN pool[k] ELSE IF k = at THEN entry ELSE pool[k - 1]
    <2>1. /\ after \in Seq(PoolEntry) /\ Len(after) = Len(pool) + 1
          /\ \A k \in 1..(Len(pool) + 1) :
                after[k] = IF k < at THEN pool[k] ELSE IF k = at THEN entry ELSE pool[k - 1]
      <3>1. /\ InsertAt(pool, at, entry) \in Seq(PoolEntry)
            /\ Len(InsertAt(pool, at, entry)) = Len(pool) + 1
            /\ \A k \in 1..(Len(pool) + 1) :
                  InsertAt(pool, at, entry)[k]
                    = IF k < at THEN pool[k] ELSE IF k = at THEN entry ELSE pool[k - 1]
        BY <1>1, <1>3, InsertIntoPool
      <3>. QED BY <1>2, <3>1
    <2>. QED BY <2>1, LenProperties
  <1>5. DOMAIN pool = 1..Len(pool) /\ Len(pool) \in Nat
    BY LenProperties
  \* Where the entry at a place of the new pool comes from.
  <1>6. \A k \in DOMAIN after :
           \/ k = at /\ after[k].block = b
           \/ k < at /\ k \in DOMAIN pool /\ after[k] = pool[k]
           \/ k > at /\ k - 1 \in DOMAIN pool /\ after[k] = pool[k - 1]
    BY <1>1, <1>3, <1>4, <1>5
  <1>7. \A i \in DOMAIN pool : pool[i].block # b
    BY DEF Pooled
  <1>8. EachPooledOnce(after)
    <2>. SUFFICES ASSUME NEW j \in DOMAIN after, NEW k \in DOMAIN after,
                         after[j].block = after[k].block
                  PROVE  j = k
      BY DEF EachPooledOnce
    <2>1. at \in Int /\ j \in Int /\ k \in Int
      BY <1>1, <1>4, <1>5
    <2>2. \A x, y \in DOMAIN pool : pool[x].block = pool[y].block => x = y
      BY DEF EachPooledOnce
    <2>3. CASE j = at
      BY <1>6, <1>7, <2>1, <2>3
    <2>4. CASE k = at
      BY <1>6, <1>7, <2>1, <2>4
    <2>5. CASE j # at /\ k # at
      BY <1>6, <2>1, <2>2, <2>5
    <2>. QED BY <2>3, <2>4, <2>5
  <1>9. ASSUME NEW c, Pooled(after, c)
        PROVE  Pooled(pool, c) \/ c = b
    BY <1>6, <1>9 DEF Pooled
  <1>10. Pooled(after, b)
    <2>1. at \in DOMAIN after /\ after[at].block = b
      BY <1>1, <1>4, <1>6
    <2>. QED BY <2>1 DEF Pooled
  <1>11. ASSUME NEW c, Pooled(pool, c)
         PROVE  Pooled(after, c)
    <2>1. PICK i \in DOMAIN pool : pool[i].block = c
      BY <1>11 DEF Pooled
    <2>2. CASE i < at
      <3>1. i \in DOMAIN after /\ after[i] = pool[i]
        BY <1>1, <1>4, <1>5, <2>2
      <3>. QED BY <2>1, <3>1 DEF Pooled
    <2>3. CASE i >= at
      <3>1. i + 1 \in DOMAIN after /\ after[i + 1] = pool[i]
        BY <1>1, <1>4, <1>5, <2>3
      <3>. QED BY <2>1, <3>1 DEF Pooled
    <2>. QED BY <1>1, <1>5, <2>2, <2>3
  <1>. QED BY <1>4, <1>8, <1>9, <1>10, <1>11 DEF after

\* The pool is in the order of its keys.
Sorted(pool) == \A i, j \in DOMAIN pool : i <= j => pool[i].key <= pool[j].key

LEMMA TailSorted ==
    ASSUME NEW pool \in Seq(PoolEntry), pool # <<>>, Sorted(pool)
    PROVE  /\ Sorted(Tail(pool))
           /\ \A i \in DOMAIN pool : Head(pool).key <= pool[i].key
           /\ \A i \in DOMAIN Tail(pool) : i + 1 \in DOMAIN pool /\ Tail(pool)[i] = pool[i + 1]
  <1>1. /\ Head(pool) = pool[1]
        /\ DOMAIN Tail(pool) = 1..(Len(pool) - 1)
        /\ \A i \in 1..(Len(pool) - 1) : Tail(pool)[i] = pool[i + 1]
        /\ DOMAIN pool = 1..Len(pool) /\ Len(pool) \in Nat \ {0}
    BY HeadTailProperties, LenProperties, EmptySeq
  <1>2. \A i \in DOMAIN Tail(pool) : i + 1 \in DOMAIN pool /\ Tail(pool)[i] = pool[i + 1]
    BY <1>1
  <1>3. \A i \in DOMAIN pool : Head(pool).key <= pool[i].key
    BY <1>1 DEF Sorted
  <1>4. Sorted(Tail(pool))
    <2>. SUFFICES ASSUME NEW i \in DOMAIN Tail(pool), NEW j \in DOMAIN Tail(pool), i <= j
                  PROVE  Tail(pool)[i].key <= Tail(pool)[j].key
      BY DEF Sorted
    <2>1. i + 1 \in DOMAIN pool /\ j + 1 \in DOMAIN pool /\ i + 1 <= j + 1
      BY <1>1
    <2>. QED BY <1>2, <2>1 DEF Sorted
  <1>. QED BY <1>2, <1>3, <1>4

\* In a sorted pool the entries whose key is not greater come first, so that counting
\* them finds the place of the new one.
LEMMA NotGreaterFirst ==
    ASSUME NEW pool \in Seq(PoolEntry), Sorted(pool), NEW key \in Nat
    PROVE  LET n == Cardinality({i \in DOMAIN pool : pool[i].key <= key})
           IN  /\ n \in 0..Len(pool)
               /\ \A i \in DOMAIN pool : pool[i].key <= key <=> i <= n
  <1>. DEFINE notGreater == {i \in DOMAIN pool : pool[i].key <= key}
              n == Cardinality(notGreater)
  <1>1. DOMAIN pool = 1..Len(pool) /\ Len(pool) \in Nat
    BY LenProperties
  <1>2. \A i \in DOMAIN pool : pool[i].key \in Nat
    <2>1. \A i \in DOMAIN pool : pool[i] \in PoolEntry
      BY <1>1, ElementOfSeq
    <2>. QED BY <2>1 DEF PoolEntry
  <1>3. \A m \in 0..Len(pool) : IsFiniteSet(1..m) /\ Cardinality(1..m) = m
    BY <1>1, FS_Interval
  <1>4. IsFiniteSet(notGreater) /\ n \in Nat /\ n <= Len(pool)
    <2>1. notGreater \subseteq 1..Len(pool)
      BY <1>1
    <2>2. IsFiniteSet(1..Len(pool)) /\ Cardinality(1..Len(pool)) = Len(pool)
      BY <1>1, <1>3
    <2>. QED BY <2>1, <2>2, FS_Subset, FS_CardinalityType
  <1>5. ASSUME NEW i \in DOMAIN pool, pool[i].key <= key
        PROVE  i <= n
    <2>1. 1..i \subseteq notGreater
      BY <1>1, <1>2, <1>5 DEF Sorted
    <2>2. Cardinality(1..i) = i
      BY <1>1, <1>3
    <2>. QED BY <1>4, <2>1, <2>2, FS_Subset
  <1>6. ASSUME NEW i \in DOMAIN pool, ~ (pool[i].key <= key)
        PROVE  ~ (i <= n)
    <2>1. notGreater \subseteq 1..(i - 1)
      <3>. SUFFICES ASSUME NEW j \in DOMAIN pool, pool[j].key <= key PROVE j < i
        BY <1>1
      <3>1. i <= j => pool[i].key <= pool[j].key
        BY DEF Sorted
      <3>. QED BY <1>1, <1>2, <1>6, <3>1
    <2>2. IsFiniteSet(1..(i - 1)) /\ Cardinality(1..(i - 1)) = i - 1
      BY <1>1, <1>3
    <2>3. n <= i - 1
      BY <2>1, <2>2, FS_Subset
    <2>. QED BY <1>1, <1>4, <2>3
  <1>. QED BY <1>1, <1>4, <1>5, <1>6

LEMMA AddToPoolSorted ==
    ASSUME NEW pool \in Seq(PoolEntry), Sorted(pool), NEW key \in Nat, NEW b \in Blocks
    PROVE  LET after == AddToFreeBlockPool(pool, key, b)
               entry == [key |-> key, block |-> b]
           IN  /\ Sorted(after)
               /\ \A k \in DOMAIN after :
                     after[k] = entry \/ \E i \in DOMAIN pool : after[k] = pool[i]
  <1>. DEFINE n == Cardinality({i \in DOMAIN pool : pool[i].key <= key})
              entry == [key |-> key, block |-> b]
              after == AddToFreeBlockPool(pool, key, b)
  <1>1. n \in 0..Len(pool) /\ \A i \in DOMAIN pool : pool[i].key <= key <=> i <= n
    BY NotGreaterFirst
  <1>2. entry \in PoolEntry /\ entry.key = key
    BY DEF PoolEntry
  <1>3. after = InsertAt(pool, n + 1, entry)
    BY DEF AddToFreeBlockPool
  <1>. HIDE DEF n, entry, after
  <1>4. DOMAIN pool = 1..Len(pool) /\ Len(pool) \in Nat
    BY LenProperties
  <1>5. \A i \in DOMAIN pool : pool[i].key \in Nat
    <2>1. \A i \in DOMAIN pool : pool[i] \in PoolEntry
      BY <1>4, ElementOfSeq
    <2>. QED BY <2>1 DEF PoolEntry
  <1>6. /\ DOMAIN after = 1..(Len(pool) + 1)
        /\ \A k \in 1..(Len(pool) + 1) :
              after[k] = IF k < n + 1 THEN pool[k] ELSE IF k = n + 1 THEN entry ELSE pool[k - 1]
    <2>1. PICK at : at = n + 1
      OBVIOUS
    <2>2. at \in 1..(Len(pool) + 1)
      BY <1>1, <1>4, <2>1
    <2>3. /\ InsertAt(pool, at, entry) \in Seq(PoolEntry)
          /\ Len(InsertAt(pool, at, entry)) = Len(pool) + 1
          /\ \A k \in 1..(Len(pool) + 1) :
                InsertAt(pool, at, entry)[k]
                  = IF k < at THEN pool[k] ELSE IF k = at THEN entry ELSE pool[k - 1]
      BY <1>2, <2>2, InsertIntoPool
    <2>4. after \in Seq(PoolEntry) /\ Len(after) = Len(pool) + 1
      BY <1>3, <2>1, <2>3
    <2>5. DOMAIN after = 1..(Len(pool) + 1)
      BY <2>4, LenProperties
    <2>. QED BY <1>3, <2>1, <2>3, <2>5
  <1>7. ASSUME NEW k \in DOMAIN after
        PROVE  after[k] = entry \/ \E i \in DOMAIN pool : after[k] = pool[i]
    <2>1. CASE k < n + 1
      BY <1>1, <1>4, <1>6, <2>1
    <2>2. CASE k = n + 1
      BY <1>6, <2>2
    <2>3. CASE k > n + 1
      <3>1. k - 1 \in DOMAIN pool /\ after[k] = pool[k - 1]
        BY <1>1, <1>4, <1>6, <2>3
      <3>. QED BY <3>1
    <2>. QED BY <1>1, <1>6, <2>1, <2>2, <2>3
  \* In front of the new entry no key is greater, behind it all are.
  <1>8. ASSUME NEW j \in DOMAIN after, NEW k \in DOMAIN after, j <= k
        PROVE  after[j].key <= after[k].key
    <2>0. j \in Int /\ k \in Int /\ n \in Int
      BY <1>1, <1>6
    <2>1. CASE j < n + 1 /\ k < n + 1
      BY <1>1, <1>4, <1>6, <1>8, <2>1 DEF Sorted
    <2>2. CASE j < n + 1 /\ k >= n + 1
      <3>1. j \in DOMAIN pool /\ after[j] = pool[j] /\ pool[j].key <= key
        BY <1>1, <1>4, <1>6, <2>2
      <3>2. CASE k = n + 1
        BY <1>2, <1>6, <3>1, <3>2
      <3>3. CASE k > n + 1
        <4>1. k - 1 \in DOMAIN pool /\ after[k] = pool[k - 1] /\ ~ (pool[k - 1].key <= key)
          BY <1>1, <1>4, <1>6, <3>3
        <4>. QED BY <1>5, <3>1, <4>1
      <3>. QED BY <2>0, <2>2, <3>2, <3>3
    <2>3. CASE j = n + 1
      <3>1. CASE k = n + 1
        BY <1>2, <1>6, <2>3, <3>1
      <3>2. CASE k > n + 1
        <4>1. k - 1 \in DOMAIN pool /\ after[k] = pool[k - 1] /\ ~ (pool[k - 1].key <= key)
          BY <1>1, <1>4, <1>6, <3>2
        <4>. QED BY <1>2, <1>5, <1>6, <2>3, <4>1
      <3>. QED BY <1>8, <2>0, <2>3, <3>1, <3>2
    <2>4. CASE j > n + 1
      <3>1. /\ j - 1 \in DOMAIN pool /\ after[j] = pool[j - 1]
            /\ k - 1 \in DOMAIN pool /\ after[k] = pool[k - 1] /\ j - 1 <= k - 1
        BY <1>1, <1>4, <1>6, <1>8, <2>4
      <3>. QED BY <3>1 DEF Sorted
    <2>. QED BY <1>8, <2>0, <2>1, <2>2, <2>3, <2>4
  <1>. QED BY <1>7, <1>8 DEF Sorted, after, entry

-----------------------------------------------------------------------------
(* What each operator makes of a plane                                        *)

\* Writing a page moves the write pointer and nothing else the invariants read.
LEMMA WrittenSlot ==
    ASSUME NEW slot \in BlockSlot, NEW role \in Roles,
           slot.current_write_page_index < PagesPerBlock
    PROVE  LET new == Written(slot, role)
           IN  /\ new \in BlockSlot
               /\ new.current_write_page_index = slot.current_write_page_index + 1
               /\ new.invalid_page_bitmap = slot.invalid_page_bitmap
               /\ new.stream_id = slot.stream_id
               /\ new.has_ongoing_gc = slot.has_ongoing_gc
  <1>. DEFINE programs == IF role = "data" THEN slot.ongoing_user_program_cnt + 1
                                           ELSE slot.ongoing_user_program_cnt
  <1>1. slot.current_write_page_index + 1 \in 0..PagesPerBlock
    BY PlaneAssumption DEF BlockSlot
  <1>2. programs \in Nat
    BY DEF BlockSlot
  <1>3. Written(slot, role) = [slot EXCEPT !.current_write_page_index = @ + 1,
                                           !.ongoing_user_program_cnt = programs]
    BY DEF Written, BlockSlot
  <1>. HIDE DEF programs
  <1>. QED BY <1>1, <1>2, <1>3 DEF BlockSlot

LEMMA TakenPage ==
    ASSUME NEW p \in PlaneRecord, NEW role \in Roles, NEW s \in Streams,
           p.blocks[p.open_blocks[role][s]].current_write_page_index < PagesPerBlock
    PROVE  LET b == p.open_blocks[role][s]
               q == TakePage(p, role, s)
           IN  /\ q \in PlaneRecord
               /\ q.blocks = [p.blocks EXCEPT ![b] = Written(p.blocks[b], role)]
               /\ q.open_blocks = p.open_blocks
               /\ q.free_block_pool = p.free_block_pool
               /\ q.block_usage_history = p.block_usage_history
  <1>. DEFINE b == p.open_blocks[role][s]
              new == Written(p.blocks[b], role)
              blocks == [p.blocks EXCEPT ![b] = new]
  <1>1. b \in Blocks /\ p.blocks[b] \in BlockSlot
    BY DEF PlaneRecord
  <1>2. new \in BlockSlot
    BY <1>1, WrittenSlot
  <1>3. TakePage(p, role, s) = [p EXCEPT !.valid_pages_count = @ + 1,
                                         !.free_pages_count = @ - 1,
                                         !.blocks = blocks]
    BY DEF TakePage, PlaneRecord
  <1>. HIDE DEF new
  <1>4. blocks \in [Blocks -> BlockSlot]
    BY <1>2 DEF PlaneRecord
  <1>5. p.valid_pages_count + 1 \in Int /\ p.free_pages_count - 1 \in Int
    BY DEF PlaneRecord
  <1>. HIDE DEF blocks, b
  <1>6. /\ TakePage(p, role, s) \in PlaneRecord
        /\ TakePage(p, role, s).blocks = blocks
        /\ TakePage(p, role, s).open_blocks = p.open_blocks
        /\ TakePage(p, role, s).free_block_pool = p.free_block_pool
        /\ TakePage(p, role, s).block_usage_history = p.block_usage_history
    BY <1>3, <1>4, <1>5 DEF PlaneRecord
  <1>. QED BY <1>6 DEF blocks, b, new

\* A new open block comes from the front of the pool and gets its stream.
LEMMA ReplacedOpenBlock ==
    ASSUME NEW p \in PlaneRecord, NEW role \in Roles, NEW s \in Streams,
           p.free_block_pool # <<>>
    PROVE  LET n == Head(p.free_block_pool).block
               q == ReplaceOpenBlock(p, role, s)
           IN  /\ q \in PlaneRecord
               /\ q.blocks = [p.blocks EXCEPT ![n] = [@ EXCEPT !.stream_id = s]]
               /\ q.open_blocks = [p.open_blocks EXCEPT ![role][s] = n]
               /\ q.free_block_pool = Tail(p.free_block_pool)
               /\ q.block_usage_history = Append(p.block_usage_history, n)
  <1>. DEFINE n == Head(p.free_block_pool).block
              blocks == [p.blocks EXCEPT ![n] = [@ EXCEPT !.stream_id = s]]
              open == [p.open_blocks EXCEPT ![role][s] = n]
  <1>1. /\ Head(p.free_block_pool) \in PoolEntry
        /\ Tail(p.free_block_pool) \in Seq(PoolEntry)
    BY HeadTailProperties DEF PlaneRecord
  <1>2. n \in Blocks
    BY <1>1 DEF PoolEntry
  <1>3. blocks \in [Blocks -> BlockSlot]
    <2>1. p.blocks \in [Blocks -> BlockSlot] /\ p.blocks[n] \in BlockSlot
      BY <1>2 DEF PlaneRecord
    <2>2. [p.blocks[n] EXCEPT !.stream_id = s] \in BlockSlot
      BY <2>1 DEF BlockSlot
    <2>. QED BY <1>2, <2>1, <2>2
  <1>4. open \in [Roles -> [Streams -> Blocks]]
    BY <1>2 DEF PlaneRecord
  <1>5. Append(p.block_usage_history, n) \in Seq(Blocks)
    BY <1>2 DEF PlaneRecord
  <1>6. ReplaceOpenBlock(p, role, s) =
          [p EXCEPT !.free_block_pool = Tail(@),
                    !.block_usage_history = Append(@, n),
                    !.blocks = blocks,
                    !.open_blocks = open]
    BY DEF ReplaceOpenBlock, GetOneFreeBlock, PlaneRecord
  <1>. HIDE DEF n, blocks, open
  <1>7. /\ ReplaceOpenBlock(p, role, s) \in PlaneRecord
        /\ ReplaceOpenBlock(p, role, s).blocks = blocks
        /\ ReplaceOpenBlock(p, role, s).open_blocks = open
        /\ ReplaceOpenBlock(p, role, s).free_block_pool = Tail(p.free_block_pool)
        /\ ReplaceOpenBlock(p, role, s).block_usage_history
              = Append(p.block_usage_history, n)
    BY <1>1, <1>3, <1>4, <1>5, <1>6 DEF PlaneRecord
  <1>. QED BY <1>7 DEF n, blocks, open

\* The garbage-collection trigger changes the usage history at most.
LEMMA GcCheckKeeps ==
    ASSUME NEW p \in PlaneRecord, p.block_usage_history # <<>>,
           NEW o \in CheckGcRequired(p)
    PROVE  /\ o.plane \in PlaneRecord
           /\ o.plane.blocks = p.blocks
           /\ o.plane.open_blocks = p.open_blocks
           /\ o.plane.free_block_pool = p.free_block_pool
           /\ Len(o.plane.block_usage_history) + 1 >= Len(p.block_usage_history)
           /\ o.exit \in Exits
  <1>. DEFINE history == IF GcPolicy = "FIFO" THEN Tail(p.block_usage_history)
                                              ELSE p.block_usage_history
              searched == [p EXCEPT !.block_usage_history = history]
  <1>1. /\ history \in Seq(Blocks)
        /\ p.block_usage_history \in Seq(Blocks)
        /\ Len(history) + 1 >= Len(p.block_usage_history)
    <2>1. p.block_usage_history \in Seq(Blocks) /\ Len(p.block_usage_history) \in Nat
      BY LenProperties DEF PlaneRecord
    <2>. QED BY <2>1, HeadTailProperties
  <1>2. /\ searched = [p EXCEPT !.block_usage_history =
                                IF GcPolicy = "FIFO" THEN Tail(@) ELSE @]
    BY DEF PlaneRecord
  <1>. HIDE DEF history
  <1>3. /\ searched \in PlaneRecord
        /\ searched.blocks = p.blocks
        /\ searched.open_blocks = p.open_blocks
        /\ searched.free_block_pool = p.free_block_pool
        /\ searched.block_usage_history = history
    BY <1>1 DEF PlaneRecord
  <1>. HIDE DEF searched
  <1>4. \A q : CheckBookKeepingCorrectness(q) \in Exits
    BY DEF CheckBookKeepingCorrectness, Exits
  <1>5. \/ o = Checked(p)
        \/ o = Checked(searched)
        \/ o = [plane |-> p, exit |-> "gc_victim"]
    BY <1>2 DEF CheckGcRequired
  <1>6. Len(p.block_usage_history) + 1 >= Len(p.block_usage_history)
    BY <1>1, LenProperties
  <1>. QED BY <1>1, <1>3, <1>4, <1>5, <1>6 DEF Checked, Exits

\* The two ways an allocation can succeed: the open block still has room, or it is
\* full and the first block of the pool replaces it.
RoomLeft(p, role, s, q) ==
    LET b == p.open_blocks[role][s]
        new == Written(p.blocks[b], role)
    IN  /\ new.current_write_page_index # PagesPerBlock
        /\ q.blocks = [p.blocks EXCEPT ![b] = new]
        /\ q.open_blocks = p.open_blocks
        /\ q.free_block_pool = p.free_block_pool

BlockReplaced(p, role, s, q) ==
    LET b == p.open_blocks[role][s]
        new == Written(p.blocks[b], role)
        n == Head(p.free_block_pool).block
    IN  /\ new.current_write_page_index = PagesPerBlock
        /\ p.free_block_pool # <<>>
        /\ q.blocks = [[p.blocks EXCEPT ![b] = new] EXCEPT ![n] = [@ EXCEPT !.stream_id = s]]
        /\ q.open_blocks = [p.open_blocks EXCEPT ![role][s] = n]
        /\ q.free_block_pool = Tail(p.free_block_pool)

LEMMA AllocationOutcome ==
    ASSUME NEW p \in PlaneRecord, NEW role \in Roles, NEW s \in Streams,
           p.blocks[p.open_blocks[role][s]].current_write_page_index < PagesPerBlock,
           NEW o \in AllocateBlockAndPage(p, role, s)
    PROVE  /\ o.exit \in Exits
           /\ o.exit = "none" =>
                /\ o.plane \in PlaneRecord
                /\ RoomLeft(p, role, s, o.plane) \/ BlockReplaced(p, role, s, o.plane)
                /\ Len(o.plane.block_usage_history) >= Len(p.block_usage_history)
  <1>. DEFINE b == p.open_blocks[role][s]
              new == Written(p.blocks[b], role)
              n == Head(p.free_block_pool).block
              q == TakePage(p, role, s)
  <1>1. /\ q \in PlaneRecord
        /\ q.blocks = [p.blocks EXCEPT ![b] = new]
        /\ q.open_blocks = p.open_blocks
        /\ q.free_block_pool = p.free_block_pool
        /\ q.block_usage_history = p.block_usage_history
    BY TakenPage
  <1>2. b \in Blocks /\ q.blocks[b] = new
    BY <1>1 DEF PlaneRecord
  <1>6. Len(p.block_usage_history) \in Nat
    BY LenProperties DEF PlaneRecord
  <1>3. CASE ~ IsFull(q, b)
    <2>1. o = Checked(q)
      BY <1>3 DEF AllocateBlockAndPage
    <2>2. new.current_write_page_index # PagesPerBlock
      BY <1>2, <1>3 DEF IsFull
    <2>3. o.plane = q /\ o.exit \in Exits
      BY <2>1 DEF Checked, CheckBookKeepingCorrectness, Exits
    <2>. QED BY <1>1, <1>6, <2>2, <2>3 DEF RoomLeft
  <1>4. CASE IsFull(q, b) /\ q.free_block_pool = <<>>
    <2>1. o = [plane |-> q, exit |-> "empty_pool"]
      BY <1>4 DEF AllocateBlockAndPage
    <2>. QED BY <2>1 DEF Exits
  <1>5. CASE IsFull(q, b) /\ q.free_block_pool # <<>>
    <2>. DEFINE r == ReplaceOpenBlock(q, role, s)
    <2>1. o \in CheckGcRequired(r)
      BY <1>5 DEF AllocateBlockAndPage
    <2>2. /\ r \in PlaneRecord
          /\ r.blocks = [q.blocks EXCEPT ![n] = [@ EXCEPT !.stream_id = s]]
          /\ r.open_blocks = [p.open_blocks EXCEPT ![role][s] = n]
          /\ r.free_block_pool = Tail(p.free_block_pool)
          /\ r.block_usage_history = Append(q.block_usage_history, n)
      <3>. DEFINE m == Head(q.free_block_pool).block
      <3>. HIDE DEF q
      <3>1. /\ r \in PlaneRecord
            /\ r.blocks = [q.blocks EXCEPT ![m] = [@ EXCEPT !.stream_id = s]]
            /\ r.open_blocks = [q.open_blocks EXCEPT ![role][s] = m]
            /\ r.free_block_pool = Tail(q.free_block_pool)
            /\ r.block_usage_history = Append(q.block_usage_history, m)
        <4>1. q \in PlaneRecord /\ q.free_block_pool # <<>>
          BY <1>1, <1>5
        <4>. QED BY <4>1, ReplacedOpenBlock
      <3>2. m = n
        BY <1>1
      <3>. QED BY <1>1, <3>1, <3>2
    <2>3. /\ r.block_usage_history # <<>>
          /\ Len(r.block_usage_history) = Len(p.block_usage_history) + 1
      <3>1. n \in Blocks /\ q.block_usage_history \in Seq(Blocks)
        <4>1. Head(p.free_block_pool) \in PoolEntry
          BY <1>1, <1>5, HeadTailProperties DEF PlaneRecord
        <4>. QED BY <1>1, <4>1 DEF PlaneRecord, PoolEntry
      <3>. QED BY <1>1, <2>2, <3>1, AppendProperties
    <2>. HIDE DEF r
    <2>4. /\ o.plane \in PlaneRecord
          /\ o.plane.blocks = r.blocks
          /\ o.plane.open_blocks = r.open_blocks
          /\ o.plane.free_block_pool = r.free_block_pool
          /\ Len(o.plane.block_usage_history) + 1 >= Len(r.block_usage_history)
          /\ o.exit \in Exits
      BY <2>1, <2>2, <2>3, GcCheckKeeps
    <2>5. new.current_write_page_index = PagesPerBlock
      BY <1>2, <1>5 DEF IsFull
    <2>. HIDE DEF q, new
    <2>6. /\ o.plane.blocks = [[p.blocks EXCEPT ![b] = new]
                                 EXCEPT ![n] = [@ EXCEPT !.stream_id = s]]
          /\ o.plane.open_blocks = [p.open_blocks EXCEPT ![role][s] = n]
          /\ o.plane.free_block_pool = Tail(p.free_block_pool)
      BY <1>1, <2>2, <2>4
    <2>7. p.free_block_pool # <<>>
      BY <1>1, <1>5
    <2>8. BlockReplaced(p, role, s, o.plane)
      BY <2>5, <2>6, <2>7 DEF BlockReplaced, new
    <2>9. Len(o.plane.block_usage_history) >= Len(p.block_usage_history)
      <3>1. Len(o.plane.block_usage_history) \in Nat
        BY <2>4, LenProperties DEF PlaneRecord
      <3>. QED BY <1>6, <2>3, <2>4, <3>1
    <2>. QED BY <2>4, <2>8, <2>9
  <1>. QED BY <1>3, <1>4, <1>5

\* Invalidating a page marks it in its block.
LEMMA InvalidationOutcome ==
    ASSUME NEW p \in PlaneRecord, NEW a \in PageAddress
    PROVE  LET o == InvalidatePageInBlock(p, a)
           IN  /\ o.exit \in Exits
               /\ o.plane \in PlaneRecord
               /\ o.plane.blocks = [p.blocks EXCEPT ![a.block] = Marked(@, a.page)]
               /\ o.plane.open_blocks = p.open_blocks
               /\ o.plane.free_block_pool = p.free_block_pool
  <1>. DEFINE new == Marked(p.blocks[a.block], a.page)
              blocks == [p.blocks EXCEPT ![a.block] = new]
              q == [p EXCEPT !.valid_pages_count = @ - 1,
                             !.invalid_pages_count = @ + 1,
                             !.blocks = blocks]
  <1>1. a.block \in Blocks /\ a.page \in Pages /\ p.blocks[a.block] \in BlockSlot
    BY DEF PageAddress, PlaneRecord
  <1>2. new \in BlockSlot
    <2>1. /\ p.blocks[a.block].invalid_page_count + 1 \in Nat
          /\ p.blocks[a.block].invalid_page_bitmap \cup {a.page} \in SUBSET Pages
      BY <1>1 DEF BlockSlot
    <2>. QED BY <1>1, <2>1 DEF Marked, BlockSlot
  <1>3. /\ InvalidatePageInBlock(p, a).plane = q
        /\ InvalidatePageInBlock(p, a).exit \in {"none", "wrong_stream"}
    BY DEF InvalidatePageInBlock, PlaneRecord
  <1>. HIDE DEF new
  <1>4. blocks \in [Blocks -> BlockSlot]
    BY <1>1, <1>2 DEF PlaneRecord
  <1>5. p.valid_pages_count - 1 \in Int /\ p.invalid_pages_count + 1 \in Int
    BY DEF PlaneRecord
  <1>. HIDE DEF blocks
  <1>6. /\ q \in PlaneRecord
        /\ q.blocks = blocks
        /\ q.open_blocks = p.open_blocks
        /\ q.free_block_pool = p.free_block_pool
    BY <1>4, <1>5 DEF PlaneRecord
  <1>. QED BY <1>3, <1>6 DEF Exits, blocks, new

\* A completed erase blanks the block, ends its collection and puts it in the pool.
LEMMA EraseOutcome ==
    ASSUME NEW p \in PlaneRecord, NEW b \in Blocks,
           EachPooledOnce(p.free_block_pool), ~ Pooled(p.free_block_pool, b)
    PROVE  LET o == [AddErasedBlockToPool(p, b)
                        EXCEPT !.plane.blocks[b].has_ongoing_gc = FALSE]
               pool == o.plane.free_block_pool
           IN  /\ o.exit \in Exits
               /\ o.plane \in PlaneRecord
               /\ o.plane.blocks = [p.blocks EXCEPT
                                      ![b] = [Erase(@) EXCEPT !.has_ongoing_gc = FALSE]]
               /\ o.plane.open_blocks = p.open_blocks
               /\ EachPooledOnce(pool)
               /\ \A c : Pooled(pool, c) <=> Pooled(p.free_block_pool, c) \/ c = b
  <1>. DEFINE slot == p.blocks[b]
              key == IF DynamicWl THEN slot.erase_count + 1 ELSE 0
              pool == AddToFreeBlockPool(p.free_block_pool, key, b)
              erased == [p EXCEPT
                  !.free_pages_count = @ + ErasedCredit(slot),
                  !.invalid_pages_count = @ - slot.invalid_page_count,
                  !.blocks[b] = Erase(@),
                  !.free_block_pool = pool]
              new == [Erase(slot) EXCEPT !.has_ongoing_gc = FALSE]
              blocks == [p.blocks EXCEPT ![b] = new]
              q == [p EXCEPT
                  !.free_pages_count = @ + ErasedCredit(slot),
                  !.invalid_pages_count = @ - slot.invalid_page_count,
                  !.blocks = blocks,
                  !.free_block_pool = pool]
              o == [AddErasedBlockToPool(p, b)
                        EXCEPT !.plane.blocks[b].has_ongoing_gc = FALSE]
  <1>1. slot \in BlockSlot /\ key \in Nat
    BY DEF PlaneRecord, BlockSlot
  <1>2. new \in BlockSlot
    <2>1. 0 \in 0..PagesPerBlock /\ 0 \in Nat /\ {} \in SUBSET Pages
      BY PlaneAssumption
    <2>2. slot.erase_count + 1 \in Nat
      BY <1>1 DEF BlockSlot
    <2>3. Erase(slot) \in BlockSlot
      BY <1>1, <2>1, <2>2 DEF Erase, BlockSlot
    <2>. QED BY <2>3 DEF BlockSlot
  <1>3. /\ pool \in Seq(PoolEntry)
        /\ EachPooledOnce(pool)
        /\ \A c : Pooled(pool, c) <=> Pooled(p.free_block_pool, c) \/ c = b
    BY <1>1, AddToPool DEF PlaneRecord
  <1>4. AddErasedBlockToPool(p, b) = [plane |-> erased,
                                      exit |-> CheckBookKeepingCorrectness(erased)]
    BY DEF AddErasedBlockToPool, Checked
  <1>5. CheckBookKeepingCorrectness(erased) \in Exits
    BY DEF CheckBookKeepingCorrectness, Exits
  <1>6. p.free_pages_count + ErasedCredit(slot) \in Int
    BY <1>1, PlaneAssumption DEF ErasedCredit, PlaneRecord, BlockSlot
  <1>7. p.invalid_pages_count - slot.invalid_page_count \in Int
    BY <1>1 DEF PlaneRecord, BlockSlot
  <1>8. o.exit = CheckBookKeepingCorrectness(erased)
        /\ o.plane = [erased EXCEPT !.blocks[b].has_ongoing_gc = FALSE]
    <2>. DEFINE e == AddErasedBlockToPool(p, b)
    <2>1. e = [plane |-> erased, exit |-> CheckBookKeepingCorrectness(erased)]
      BY <1>4
    <2>. HIDE DEF e, erased
    <2>2. /\ [e EXCEPT !.plane.blocks[b].has_ongoing_gc = FALSE].exit = e.exit
          /\ [e EXCEPT !.plane.blocks[b].has_ongoing_gc = FALSE].plane
               = [e.plane EXCEPT !.blocks[b].has_ongoing_gc = FALSE]
      BY <2>1
    <2>. QED BY <2>1, <2>2 DEF e
  <1>. HIDE DEF pool, key, o
  <1>9. [erased EXCEPT !.blocks[b].has_ongoing_gc = FALSE] = q
    BY DEF PlaneRecord
  <1>. HIDE DEF new, slot, erased
  <1>10. blocks \in [Blocks -> BlockSlot]
    BY <1>2 DEF PlaneRecord
  <1>. HIDE DEF blocks
  <1>11. /\ q \in PlaneRecord
         /\ q.blocks = blocks
         /\ q.open_blocks = p.open_blocks
         /\ q.free_block_pool = pool
    BY <1>3, <1>6, <1>7, <1>10 DEF PlaneRecord
  <1>. HIDE DEF q
  <1>12. /\ o.exit \in Exits /\ o.plane \in PlaneRecord
         /\ o.plane.blocks = blocks
         /\ o.plane.open_blocks = p.open_blocks
         /\ o.plane.free_block_pool = pool
    BY <1>5, <1>8, <1>9, <1>11
  <1>. QED BY <1>3, <1>12 DEF o, blocks, new, slot

\* A function on 1..n is a sequence of length n.
LEMMA FunctionIsSeq ==
    ASSUME NEW S, NEW n \in Nat, NEW f \in [1..n -> S]
    PROVE  f \in Seq(S) /\ Len(f) = n /\ DOMAIN f = 1..n
  <1>1. f \in Seq(S)
    BY SeqDef
  <1>. QED BY <1>1, LenProperties

-----------------------------------------------------------------------------
(* What each operator does to the plane's counters                            *)

Balance(p) == p.free_pages_count + p.valid_pages_count + p.invalid_pages_count

SameCounts(q, p) ==
    /\ q.free_pages_count = p.free_pages_count
    /\ q.valid_pages_count = p.valid_pages_count
    /\ q.invalid_pages_count = p.invalid_pages_count

LEMMA TakenPageCounts ==
    ASSUME NEW p \in PlaneRecord, NEW role \in Roles, NEW s \in Streams
    PROVE  LET q == TakePage(p, role, s)
           IN  /\ q.free_pages_count = p.free_pages_count - 1
               /\ q.valid_pages_count = p.valid_pages_count + 1
               /\ q.invalid_pages_count = p.invalid_pages_count
  BY DEF TakePage, PlaneRecord

LEMMA GcCheckCounts ==
    ASSUME NEW p \in PlaneRecord, NEW o \in CheckGcRequired(p)
    PROVE  /\ SameCounts(o.plane, p)
           /\ o.exit \in {CheckBookKeepingCorrectness(p), "gc_victim"}
  <1>. DEFINE searched == [p EXCEPT !.block_usage_history =
                                      IF GcPolicy = "FIFO" THEN Tail(@) ELSE @]
  <1>1. SameCounts(searched, p) /\ SameCounts(p, p)
    BY DEF SameCounts, PlaneRecord
  <1>2. \/ o = Checked(p)
        \/ o = Checked(searched)
        \/ o = [plane |-> p, exit |-> "gc_victim"]
    BY DEF CheckGcRequired
  <1>. HIDE DEF searched
  <1>3. CheckBookKeepingCorrectness(searched) = CheckBookKeepingCorrectness(p)
    BY <1>1 DEF SameCounts, CheckBookKeepingCorrectness
  <1>. QED BY <1>1, <1>2, <1>3 DEF Checked

\* An allocation counts one page over from free to valid, and its check ends the
\* process only when that page was the last free one or the counters were off before.
LEMMA AllocationCounts ==
    ASSUME NEW p \in PlaneRecord, NEW role \in Roles, NEW s \in Streams,
           p.blocks[p.open_blocks[role][s]].current_write_page_index < PagesPerBlock,
           NEW o \in AllocateBlockAndPage(p, role, s)
    PROVE  /\ o.plane.free_pages_count = p.free_pages_count - 1
           /\ o.plane.valid_pages_count = p.valid_pages_count + 1
           /\ o.plane.invalid_pages_count = p.invalid_pages_count
           /\ o.exit # "wrong_stream"
           /\ o.exit = "no_free_pages" => p.free_pages_count = 1
           /\ o.exit = "inconsistent" => Balance(p) # TotalPages
  <1>. DEFINE q == TakePage(p, role, s)
  <1>1. /\ q.free_pages_count = p.free_pages_count - 1
        /\ q.valid_pages_count = p.valid_pages_count + 1
        /\ q.invalid_pages_count = p.invalid_pages_count
    BY TakenPageCounts
  <1>2. q \in PlaneRecord
    BY TakenPage
  <1>3. /\ CheckBookKeepingCorrectness(q) # "wrong_stream"
        /\ CheckBookKeepingCorrectness(q) = "no_free_pages" => p.free_pages_count = 1
        /\ CheckBookKeepingCorrectness(q) = "inconsistent" => Balance(p) # TotalPages
    <2>1. /\ p.free_pages_count \in Int /\ p.valid_pages_count \in Int
          /\ p.invalid_pages_count \in Int
      BY DEF PlaneRecord
    <2>. QED BY <1>1, <2>1 DEF CheckBookKeepingCorrectness, Balance
  <1>4. CASE ~ IsFull(q, p.open_blocks[role][s])
    BY <1>1, <1>3, <1>4 DEF AllocateBlockAndPage, Checked
  <1>5. CASE IsFull(q, p.open_blocks[role][s]) /\ q.free_block_pool = <<>>
    <2>1. o = [plane |-> q, exit |-> "empty_pool"]
      BY <1>5 DEF AllocateBlockAndPage
    <2>. QED BY <1>1, <2>1
  <1>6. CASE IsFull(q, p.open_blocks[role][s]) /\ q.free_block_pool # <<>>
    <2>. DEFINE r == ReplaceOpenBlock(q, role, s)
    <2>1. o \in CheckGcRequired(r)
      BY <1>6 DEF AllocateBlockAndPage
    <2>. HIDE DEF q
    <2>2. r \in PlaneRecord
      BY <1>2, <1>6, ReplacedOpenBlock
    <2>3. SameCounts(r, q)
      BY <1>2 DEF ReplaceOpenBlock, GetOneFreeBlock, SameCounts, PlaneRecord
    <2>. HIDE DEF r
    <2>4. SameCounts(o.plane, r) /\ o.exit \in {CheckBookKeepingCorrectness(r), "gc_victim"}
      BY <2>1, <2>2, GcCheckCounts
    <2>5. CheckBookKeepingCorrectness(r) = CheckBookKeepingCorrectness(q)
      BY <2>3 DEF SameCounts, CheckBookKeepingCorrectness
    <2>. QED BY <1>1, <1>3, <2>3, <2>4, <2>5 DEF SameCounts
  <1>. QED BY <1>4, <1>5, <1>6

LEMMA InvalidationCounts ==
    ASSUME NEW p \in PlaneRecord, NEW a \in PageAddress
    PROVE  LET q == InvalidatePageInBlock(p, a).plane
           IN  /\ q.free_pages_count = p.free_pages_count
               /\ q.valid_pages_count = p.valid_pages_count - 1
               /\ q.invalid_pages_count = p.invalid_pages_count + 1
  BY DEF InvalidatePageInBlock, PlaneRecord

\* After an erase the check of the counters fails when they do not balance any more,
\* or when the erase has left no page free.
LEMMA EraseCounts ==
    ASSUME NEW p \in PlaneRecord, NEW b \in Blocks
    PROVE  LET o == [AddErasedBlockToPool(p, b)
                        EXCEPT !.plane.blocks[b].has_ongoing_gc = FALSE]
               slot == p.blocks[b]
               lost == slot.invalid_page_count - ErasedCredit(slot)
           IN  /\ o.plane.free_pages_count = p.free_pages_count + ErasedCredit(slot)
               /\ o.plane.valid_pages_count = p.valid_pages_count
               /\ o.plane.invalid_pages_count = p.invalid_pages_count - slot.invalid_page_count
               /\ o.exit = IF Balance(p) - lost # TotalPages THEN "inconsistent"
                           ELSE IF p.free_pages_count + ErasedCredit(slot) = 0
                           THEN "no_free_pages" ELSE "none"
               /\ o.plane.free_block_pool =
                     AddToFreeBlockPool(p.free_block_pool,
                                        IF DynamicWl THEN slot.erase_count + 1 ELSE 0, b)
  <1>. DEFINE slot == p.blocks[b]
              pool == AddToFreeBlockPool(p.free_block_pool,
                                         IF DynamicWl THEN slot.erase_count + 1 ELSE 0, b)
              erased == [p EXCEPT
                  !.free_pages_count = @ + ErasedCredit(slot),
                  !.invalid_pages_count = @ - slot.invalid_page_count,
                  !.blocks[b] = Erase(@),
                  !.free_block_pool = pool]
              e == AddErasedBlockToPool(p, b)
              o == [e EXCEPT !.plane.blocks[b].has_ongoing_gc = FALSE]
  <1>1. e = [plane |-> erased, exit |-> CheckBookKeepingCorrectness(erased)]
    BY DEF AddErasedBlockToPool, Checked, PlaneRecord
  <1>2. /\ erased.free_pages_count = p.free_pages_count + ErasedCredit(slot)
        /\ erased.valid_pages_count = p.valid_pages_count
        /\ erased.invalid_pages_count = p.invalid_pages_count - slot.invalid_page_count
        /\ erased.free_block_pool = pool
    BY DEF PlaneRecord
  <1>. HIDE DEF e, pool
  <1>3. o.exit = e.exit /\ o.plane = [erased EXCEPT !.blocks[b].has_ongoing_gc = FALSE]
    <2>. HIDE DEF erased
    <2>. QED BY <1>1
  <1>4. /\ o.plane.free_pages_count = erased.free_pages_count
        /\ o.plane.valid_pages_count = erased.valid_pages_count
        /\ o.plane.invalid_pages_count = erased.invalid_pages_count
        /\ o.plane.free_block_pool = erased.free_block_pool
    <2>. DEFINE blocks == [erased.blocks EXCEPT ![b].has_ongoing_gc = FALSE]
    <2>1. o.plane = [erased EXCEPT !.blocks = blocks]
      BY <1>3
    <2>. HIDE DEF blocks, o
    <2>. QED BY <2>1 DEF PlaneRecord
  <1>. HIDE DEF o, erased
  <1>5. CheckBookKeepingCorrectness(erased)
          = IF Balance(p) - (slot.invalid_page_count - ErasedCredit(slot)) # TotalPages
            THEN "inconsistent"
            ELSE IF p.free_pages_count + ErasedCredit(slot) = 0
            THEN "no_free_pages" ELSE "none"
    <2>1. /\ p.free_pages_count \in Int /\ p.valid_pages_count \in Int
          /\ p.invalid_pages_count \in Int /\ slot.invalid_page_count \in Int
          /\ ErasedCredit(slot) \in Int
      <3>1. slot \in BlockSlot
        BY DEF PlaneRecord
      <3>. HIDE DEF slot
      <3>2. slot.invalid_page_count \in Int /\ PagesPerBlock \in Int
        BY <3>1, PlaneAssumption DEF BlockSlot
      <3>. QED BY <3>2 DEF PlaneRecord, ErasedCredit
    <2>. HIDE DEF slot
    <2>2. erased.free_pages_count + erased.valid_pages_count + erased.invalid_pages_count
            = Balance(p) - (slot.invalid_page_count - ErasedCredit(slot))
      BY <1>2, <2>1 DEF Balance
    <2>. QED BY <1>2, <2>2 DEF CheckBookKeepingCorrectness
  <1>. QED BY <1>1, <1>2, <1>3, <1>4, <1>5 DEF o, e, pool

-----------------------------------------------------------------------------
(* Sound planes: what holds of a plane that only the methods have changed     *)

\* No block is handed out twice.
HoldersApart(p) ==
    /\ EachPooledOnce(p.free_block_pool)
    /\ \A r1, r2 \in Roles, s1, s2 \in Streams :
          p.open_blocks[r1][s1] = p.open_blocks[r2][s2] => r1 = r2 /\ s1 = s2
    /\ \A b \in Blocks : ~ (Pooled(p.free_block_pool, b) /\ IsOpen(p, b))

\* Blank in the pool, with room and its stream while open, full everywhere else.
PointersAgree(p) ==
    /\ \A b \in Blocks : Pooled(p.free_block_pool, b) =>
          /\ p.blocks[b].current_write_page_index = 0
          /\ p.blocks[b].invalid_page_bitmap = {}
    /\ \A role \in Roles, s \in Streams :
          LET slot == p.blocks[p.open_blocks[role][s]]
          IN  slot.current_write_page_index < PagesPerBlock /\ slot.stream_id = s
    /\ \A b \in Blocks :
          \/ Pooled(p.free_block_pool, b)
          \/ IsOpen(p, b)
          \/ p.blocks[b].current_write_page_index = PagesPerBlock

\* A block under collection is closed and takes no user program.
VictimsKept(p) ==
    \A b \in Blocks : p.blocks[b].has_ongoing_gc =>
        /\ ~ IsOpen(p, b)
        /\ ~ Pooled(p.free_block_pool, b)
        /\ p.blocks[b].ongoing_user_program_cnt = 0

\* The bitmap marks no page that has not been written.
MarksWritten(p) ==
    \A b \in Blocks : \A page \in p.blocks[b].invalid_page_bitmap :
        page < p.blocks[b].current_write_page_index

SoundPlane(p) ==
    /\ p \in PlaneRecord
    /\ HoldersApart(p)
    /\ PointersAgree(p)
    /\ VictimsKept(p)
    /\ MarksWritten(p)

LEMMA NewPlaneSound == SoundPlane(NewPlane)
  <1>. DEFINE open == NewPlane.open_blocks
              pool == NewPlane.free_block_pool
              blocks == NewPlane.blocks
  <1>1. /\ NumStreams \in Nat \ {0} /\ NumBlocks \in Nat /\ NumBlocks >= 3 * NumStreams
        /\ PagesPerBlock \in Nat \ {0}
    BY PlaneAssumption
  <1>2. /\ NewPlane.open_blocks = open /\ NewPlane.free_block_pool = pool
        /\ NewPlane.blocks = blocks
    OBVIOUS
  <1>3. \A role \in Roles, s \in Streams :
           /\ open[role][s] = 3 * s + RoleIndex(role)
           /\ open[role][s] \in 0..(3 * NumStreams - 1)
           /\ open[role][s] \div 3 = s
    BY <1>1 DEF NewPlane, Roles, RoleIndex, Streams
  <1>4. /\ pool \in Seq(PoolEntry) /\ DOMAIN pool = 1..(NumBlocks - 3 * NumStreams)
        /\ \A i \in 1..(NumBlocks - 3 * NumStreams) :
              pool[i].block = 3 * NumStreams + i - 1
    <2>1. \A i \in 1..(NumBlocks - 3 * NumStreams) : 3 * NumStreams + i - 1 \in Blocks
      BY <1>1 DEF Blocks
    <2>2. NumBlocks - 3 * NumStreams \in Nat
      BY <1>1
    <2>3. pool = [i \in 1..(NumBlocks - 3 * NumStreams) |->
                    [key |-> 0, block |-> 3 * NumStreams + i - 1]]
      BY DEF NewPlane
    <2>4. pool \in [1..(NumBlocks - 3 * NumStreams) -> PoolEntry]
      BY <2>1, <2>3 DEF PoolEntry
    <2>5. pool \in Seq(PoolEntry) /\ DOMAIN pool = 1..(NumBlocks - 3 * NumStreams)
      BY <2>2, <2>4, FunctionIsSeq
    <2>. QED BY <2>3, <2>5
  <1>5. \A b \in Blocks :
           /\ blocks[b] \in BlockSlot
           /\ blocks[b].current_write_page_index = 0
           /\ blocks[b].invalid_page_bitmap = {}
           /\ blocks[b].stream_id = IF b < 3 * NumStreams THEN b \div 3 ELSE NoStream
           /\ blocks[b].has_ongoing_gc = FALSE
    <2>1. 0 \in 0..PagesPerBlock
      BY <1>1
    <2>2. \A b \in Blocks : b < 3 * NumStreams => b \div 3 \in Streams
      BY <1>1 DEF Blocks, Streams
    <2>. QED BY <2>1, <2>2 DEF NewPlane, BlockSlot
  <1>6. NewPlane \in PlaneRecord
    <2>1. TotalPages \in Int
      BY <1>1 DEF TotalPages
    <2>2. open \in [Roles -> [Streams -> Blocks]]
      <3>1. \A role \in Roles, s \in Streams : 3 * s + RoleIndex(role) \in Blocks
        BY <1>1, <1>3 DEF Blocks
      <3>. QED BY <3>1 DEF NewPlane
    <2>3. NewPlane.block_usage_history \in Seq(Blocks)
      <3>1. NewPlane.block_usage_history \in [1..(3 * NumStreams) -> Blocks]
        BY <1>1 DEF NewPlane, Blocks
      <3>. QED BY <1>1, <3>1, FunctionIsSeq
    <2>4. blocks \in [Blocks -> BlockSlot]
      BY <1>5 DEF NewPlane
    <2>5. NewPlane \in PlaneRecord
      BY <1>4, <2>1, <2>2, <2>3, <2>4 DEF NewPlane, PlaneRecord
    <2>. QED BY <2>5
  <1>7. HoldersApart(NewPlane)
    <2>1. EachPooledOnce(pool)
      <3>. DEFINE n == NumBlocks - 3 * NumStreams
      <3>1. DOMAIN pool = 1..n /\ \A i \in 1..n : pool[i].block = 3 * NumStreams + i - 1
        BY <1>4
      <3>. HIDE DEF pool, n
      <3>2. \A i, j \in 1..n : 3 * NumStreams + i - 1 = 3 * NumStreams + j - 1 => i = j
        BY <1>1
      <3>. QED BY <3>1, <3>2 DEF EachPooledOnce
    <2>2. ASSUME NEW r1 \in Roles, NEW r2 \in Roles, NEW s1 \in Streams, NEW s2 \in Streams,
                 open[r1][s1] = open[r2][s2]
          PROVE  r1 = r2 /\ s1 = s2
      BY <1>3, <2>2 DEF Roles, RoleIndex, Streams
    <2>3. ASSUME NEW b, Pooled(pool, b), IsOpen(NewPlane, b)
          PROVE  FALSE
      <3>1. PICK i \in 1..(NumBlocks - 3 * NumStreams) : pool[i].block = b
        BY <1>2, <1>4, <2>3 DEF Pooled
      <3>2. b \in 0..(3 * NumStreams - 1)
        BY <1>2, <1>3, <2>3 DEF IsOpen
      <3>. QED BY <1>1, <1>4, <3>1, <3>2
    <2>. QED BY <1>2, <2>1, <2>2, <2>3 DEF HoldersApart
  <1>8. PointersAgree(NewPlane)
    <2>1. \A role \in Roles, s \in Streams :
             open[role][s] \in Blocks /\ open[role][s] < 3 * NumStreams
      BY <1>1, <1>3 DEF Blocks
    <2>2. ASSUME NEW b \in Blocks
          PROVE  Pooled(pool, b) \/ IsOpen(NewPlane, b)
      <3>1. CASE b >= 3 * NumStreams
        <4>1. b - 3 * NumStreams + 1 \in DOMAIN pool
          BY <1>1, <1>4, <3>1 DEF Blocks
        <4>2. pool[b - 3 * NumStreams + 1].block = b
          BY <1>1, <1>4, <4>1 DEF Blocks
        <4>. QED BY <1>2, <4>1, <4>2 DEF Pooled
      <3>2. CASE b < 3 * NumStreams
        <4>. DEFINE third == b - 3 * (b \div 3)
        <4>1. b \in Nat
          BY <1>1 DEF Blocks
        <4>2. b \div 3 \in Streams /\ third \in 0..2 /\ b = 3 * (b \div 3) + third
          BY <1>1, <3>2, <4>1 DEF Streams
        <4>. HIDE DEF third
        <4>3. PICK role \in Roles : RoleIndex(role) = third
          BY <4>2 DEF Roles, RoleIndex
        <4>4. open[role][b \div 3] = 3 * (b \div 3) + third
          BY <1>3, <4>2, <4>3
        <4>. QED BY <1>2, <4>2, <4>4 DEF IsOpen
      <3>. QED BY <1>1, <3>1, <3>2 DEF Blocks
    <2>. QED BY <1>1, <1>2, <1>3, <1>5, <2>1, <2>2 DEF PointersAgree
  <1>9. VictimsKept(NewPlane) /\ MarksWritten(NewPlane)
    BY <1>2, <1>5 DEF VictimsKept, MarksWritten
  <1>. QED BY <1>6, <1>7, <1>8, <1>9 DEF SoundPlane

-----------------------------------------------------------------------------
\* An allocation elsewhere leaves a block alone, but for the stream of a blank one.
Untouched(new, old) ==
    /\ new.current_write_page_index = old.current_write_page_index
    /\ new.invalid_page_count = old.invalid_page_count
    /\ new.invalid_page_bitmap = old.invalid_page_bitmap
    /\ new.erase_count = old.erase_count
    /\ new.has_ongoing_gc = old.has_ongoing_gc
    /\ new.ongoing_user_read_cnt = old.ongoing_user_read_cnt
    /\ new.ongoing_user_program_cnt = old.ongoing_user_program_cnt
    /\ new.stream_id = old.stream_id \/ old.current_write_page_index = 0

\* An open block has room, belongs to its stream and is nobody's victim.
LEMMA OpenBlock ==
    ASSUME NEW p, SoundPlane(p), NEW role \in Roles, NEW s \in Streams
    PROVE  LET b == p.open_blocks[role][s]
           IN  /\ b \in Blocks /\ p.blocks[b] \in BlockSlot
               /\ p.blocks[b].current_write_page_index \in Pages
               /\ p.blocks[b].current_write_page_index < PagesPerBlock
               /\ p.blocks[b].stream_id = s
               /\ IsOpen(p, b) /\ ~ Pooled(p.free_block_pool, b)
               /\ ~ p.blocks[b].has_ongoing_gc
  <1>. DEFINE b == p.open_blocks[role][s]
  <1>1. /\ b \in Blocks /\ p.blocks[b] \in BlockSlot
        /\ p.blocks[b].current_write_page_index < PagesPerBlock
        /\ p.blocks[b].stream_id = s
    BY DEF SoundPlane, PlaneRecord, PointersAgree
  <1>2. IsOpen(p, b) /\ ~ Pooled(p.free_block_pool, b)
    BY <1>1 DEF IsOpen, SoundPlane, HoldersApart
  <1>3. ~ p.blocks[b].has_ongoing_gc
    BY <1>1, <1>2 DEF SoundPlane, VictimsKept
  <1>4. p.blocks[b].current_write_page_index \in Pages
    <2>1. p.blocks[b].current_write_page_index \in 0..PagesPerBlock
      BY <1>1 DEF BlockSlot
    <2>. QED BY <1>1, <2>1, PlaneAssumption DEF Pages
  <1>. QED BY <1>1, <1>2, <1>3, <1>4

\* The block stays open: only its own slot changes.
LEMMA PageTakenSound ==
    ASSUME NEW p, SoundPlane(p), NEW role \in Roles, NEW s \in Streams,
           NEW q \in PlaneRecord, RoomLeft(p, role, s, q)
    PROVE  LET b == p.open_blocks[role][s]
           IN  /\ SoundPlane(q)
               /\ q.blocks[b] = Written(p.blocks[b], role)
               /\ \A c \in Blocks \ {b} : Untouched(q.blocks[c], p.blocks[c])
  <1>. DEFINE b == p.open_blocks[role][s]
              slot == p.blocks[b]
              new == Written(slot, role)
  <1>1. /\ b \in Blocks /\ slot \in BlockSlot /\ p \in PlaneRecord
        /\ slot.current_write_page_index < PagesPerBlock
        /\ slot.stream_id = s /\ IsOpen(p, b) /\ ~ Pooled(p.free_block_pool, b)
        /\ ~ slot.has_ongoing_gc
    BY OpenBlock DEF SoundPlane
  <1>2. /\ new \in BlockSlot
        /\ new.current_write_page_index = slot.current_write_page_index + 1
        /\ new.invalid_page_bitmap = slot.invalid_page_bitmap
        /\ new.stream_id = slot.stream_id
        /\ new.has_ongoing_gc = slot.has_ongoing_gc
    BY <1>1, WrittenSlot
  <1>3. /\ new.current_write_page_index # PagesPerBlock
        /\ q.blocks = [p.blocks EXCEPT ![b] = new]
        /\ q.open_blocks = p.open_blocks
        /\ q.free_block_pool = p.free_block_pool
    BY DEF RoomLeft
  <1>. HIDE DEF b, new
  <1>4. q.blocks[b] = new /\ \A c \in Blocks \ {b} : q.blocks[c] = p.blocks[c]
    BY <1>1, <1>3 DEF PlaneRecord
  <1>5. \A c : (IsOpen(q, c) <=> IsOpen(p, c))
    BY <1>3 DEF IsOpen
  <1>6. HoldersApart(q)
    BY <1>3, <1>5 DEF SoundPlane, HoldersApart
  <1>7. PointersAgree(q)
    <2>1. ASSUME NEW r \in Roles, NEW t \in Streams
          PROVE  LET open == q.blocks[q.open_blocks[r][t]]
                 IN  open.current_write_page_index < PagesPerBlock /\ open.stream_id = t
      <3>. DEFINE c == p.open_blocks[r][t]
      <3>1. /\ c \in Blocks /\ p.blocks[c].current_write_page_index < PagesPerBlock
            /\ p.blocks[c].stream_id = t
        BY OpenBlock
      <3>2. CASE c = b
        <4>1. new.current_write_page_index \in 0..PagesPerBlock
          BY <1>2 DEF BlockSlot
        <4>2. new.current_write_page_index < PagesPerBlock
          BY <1>3, <4>1, PlaneAssumption
        <4>. QED BY <1>2, <1>3, <1>4, <3>1, <3>2, <4>2
      <3>3. CASE c # b
        BY <1>3, <1>4, <3>1, <3>3
      <3>. QED BY <3>2, <3>3
    <2>2. ASSUME NEW c \in Blocks, Pooled(q.free_block_pool, c)
          PROVE  /\ q.blocks[c].current_write_page_index = 0
                 /\ q.blocks[c].invalid_page_bitmap = {}
      BY <1>1, <1>3, <1>4, <2>2 DEF SoundPlane, PointersAgree
    <2>3. ASSUME NEW c \in Blocks
          PROVE  \/ Pooled(q.free_block_pool, c)
                 \/ IsOpen(q, c)
                 \/ q.blocks[c].current_write_page_index = PagesPerBlock
      BY <1>1, <1>3, <1>4, <1>5 DEF SoundPlane, PointersAgree
    <2>. QED BY <2>1, <2>2, <2>3 DEF PointersAgree
  <1>8. VictimsKept(q)
    BY <1>1, <1>2, <1>3, <1>4, <1>5 DEF SoundPlane, VictimsKept
  <1>9. MarksWritten(q)
    <2>1. slot.current_write_page_index \in Nat /\ Pages \subseteq Int
      BY <1>1, PlaneAssumption DEF BlockSlot, Pages
    <2>2. slot.invalid_page_bitmap \subseteq Pages
      BY <1>1 DEF BlockSlot
    <2>3. ASSUME NEW x \in new.invalid_page_bitmap
          PROVE  x < new.current_write_page_index
      <3>1. x < slot.current_write_page_index /\ x \in Int
        BY <1>1, <1>2, <2>1, <2>2, <2>3 DEF SoundPlane, MarksWritten
      <3>. QED BY <1>2, <2>1, <3>1
    <2>. QED BY <1>4, <2>3 DEF SoundPlane, MarksWritten
  <1>10. \A c \in Blocks \ {b} : Untouched(q.blocks[c], p.blocks[c])
    BY <1>4 DEF Untouched
  <1>11. SoundPlane(q)
    BY <1>6, <1>7, <1>8, <1>9 DEF SoundPlane
  <1>. QED BY <1>4, <1>10, <1>11 DEF b, new

\* The full block is closed and the pool's first block is open in its place.
LEMMA BlockReplacedSound ==
    ASSUME NEW p, SoundPlane(p), NEW role \in Roles, NEW s \in Streams,
           NEW q \in PlaneRecord, BlockReplaced(p, role, s, q)
    PROVE  LET b == p.open_blocks[role][s]
           IN  /\ SoundPlane(q)
               /\ q.blocks[b] = Written(p.blocks[b], role)
               /\ \A c \in Blocks \ {b} : Untouched(q.blocks[c], p.blocks[c])
  <1>. DEFINE b == p.open_blocks[role][s]
              slot == p.blocks[b]
              new == Written(slot, role)
              n == Head(p.free_block_pool).block
  <1>1. /\ b \in Blocks /\ slot \in BlockSlot /\ p \in PlaneRecord
        /\ slot.current_write_page_index < PagesPerBlock
        /\ slot.stream_id = s /\ IsOpen(p, b) /\ ~ Pooled(p.free_block_pool, b)
        /\ ~ slot.has_ongoing_gc
    BY OpenBlock DEF SoundPlane
  <1>2. /\ new \in BlockSlot
        /\ new.current_write_page_index = slot.current_write_page_index + 1
        /\ new.invalid_page_bitmap = slot.invalid_page_bitmap
        /\ new.stream_id = slot.stream_id
        /\ new.has_ongoing_gc = slot.has_ongoing_gc
    BY <1>1, WrittenSlot
  <1>3. /\ new.current_write_page_index = PagesPerBlock
        /\ p.free_block_pool # <<>>
        /\ q.blocks = [[p.blocks EXCEPT ![b] = new] EXCEPT ![n] = [@ EXCEPT !.stream_id = s]]
        /\ q.open_blocks = [p.open_blocks EXCEPT ![role][s] = n]
        /\ q.free_block_pool = Tail(p.free_block_pool)
    BY DEF BlockReplaced
  <1>. HIDE DEF new
  <1>4. /\ EachPooledOnce(p.free_block_pool)
        /\ p.free_block_pool \in Seq(PoolEntry)
    BY <1>1 DEF SoundPlane, HoldersApart, PlaneRecord
  <1>5. /\ n \in Blocks /\ Pooled(p.free_block_pool, n) /\ EachPooledOnce(q.free_block_pool)
        /\ \A c : Pooled(q.free_block_pool, c) <=> Pooled(p.free_block_pool, c) /\ c # n
    <2>1. /\ Head(p.free_block_pool) \in PoolEntry
          /\ EachPooledOnce(Tail(p.free_block_pool))
          /\ Pooled(p.free_block_pool, n)
          /\ \A c : Pooled(Tail(p.free_block_pool), c)
                       <=> Pooled(p.free_block_pool, c) /\ c # n
      BY <1>3, <1>4, TailOfPool
    <2>2. n \in Blocks
      BY <2>1 DEF PoolEntry
    <2>. QED BY <1>3, <2>1, <2>2
  <1>6. ~ IsOpen(p, n) /\ n # b
    BY <1>1, <1>5 DEF SoundPlane, HoldersApart
  <1>. HIDE DEF b, n
  <1>7. /\ q.blocks[b] = new
        /\ q.blocks[n] = [p.blocks[n] EXCEPT !.stream_id = s]
        /\ \A c \in Blocks \ {b, n} : q.blocks[c] = p.blocks[c]
    BY <1>1, <1>3, <1>5, <1>6 DEF PlaneRecord
  <1>8. /\ p.blocks[n].current_write_page_index = 0
        /\ q.blocks[n].stream_id = s
        /\ Untouched(q.blocks[n], p.blocks[n])
    <2>1. p.blocks[n] \in BlockSlot
      BY <1>1, <1>5 DEF PlaneRecord
    <2>2. p.blocks[n].current_write_page_index = 0
      BY <1>5 DEF SoundPlane, PointersAgree
    <2>. QED BY <1>7, <2>1, <2>2 DEF BlockSlot, Untouched
  <1>9. \A c \in Blocks \ {b} : Untouched(q.blocks[c], p.blocks[c])
    BY <1>7, <1>8 DEF Untouched
  <1>10. \A r \in Roles, t \in Streams :
            q.open_blocks[r][t] = IF r = role /\ t = s THEN n ELSE p.open_blocks[r][t]
    BY <1>1, <1>3 DEF PlaneRecord
  <1>11. \A r1, r2 \in Roles, s1, s2 \in Streams :
            p.open_blocks[r1][s1] = p.open_blocks[r2][s2] => r1 = r2 /\ s1 = s2
    BY DEF SoundPlane, HoldersApart
  <1>12. \A r \in Roles, t \in Streams : p.open_blocks[r][t] # n
    BY <1>6 DEF IsOpen
  <1>13. \A c : IsOpen(q, c) <=> (IsOpen(p, c) /\ c # b) \/ c = n
    <2>1. \A c : IsOpen(q, c) => (IsOpen(p, c) /\ c # b) \/ c = n
      BY <1>10, <1>11 DEF IsOpen, b
    <2>2. ASSUME NEW c, IsOpen(p, c), c # b
          PROVE  IsOpen(q, c)
      BY <1>10, <2>2 DEF IsOpen, b
    <2>3. IsOpen(q, n)
      BY <1>10 DEF IsOpen
    <2>. QED BY <2>1, <2>2, <2>3
  <1>14. HoldersApart(q)
    <2>1. \A r1, r2 \in Roles, s1, s2 \in Streams :
             q.open_blocks[r1][s1] = q.open_blocks[r2][s2] => r1 = r2 /\ s1 = s2
      BY <1>10, <1>11, <1>12
    <2>2. \A c \in Blocks : ~ (Pooled(q.free_block_pool, c) /\ IsOpen(q, c))
      BY <1>5, <1>13 DEF SoundPlane, HoldersApart
    <2>. QED BY <1>5, <2>1, <2>2 DEF HoldersApart
  <1>15. PointersAgree(q)
    <2>1. ASSUME NEW r \in Roles, NEW t \in Streams
          PROVE  LET open == q.blocks[q.open_blocks[r][t]]
                 IN  open.current_write_page_index < PagesPerBlock /\ open.stream_id = t
      <3>. DEFINE c == p.open_blocks[r][t]
      <3>1. /\ c \in Blocks /\ p.blocks[c].current_write_page_index < PagesPerBlock
            /\ p.blocks[c].stream_id = t
        BY OpenBlock
      <3>2. CASE r = role /\ t = s
        BY <1>8, <1>10, <3>2, PlaneAssumption DEF Untouched
      <3>3. CASE ~ (r = role /\ t = s)
        <4>1. c # b /\ c # n
          BY <1>11, <1>12, <3>3 DEF b
        <4>. QED BY <1>7, <1>10, <3>1, <3>3, <4>1
      <3>. QED BY <3>2, <3>3
    <2>2. ASSUME NEW c \in Blocks, Pooled(q.free_block_pool, c)
          PROVE  /\ q.blocks[c].current_write_page_index = 0
                 /\ q.blocks[c].invalid_page_bitmap = {}
      BY <1>1, <1>5, <1>7, <2>2 DEF SoundPlane, PointersAgree
    <2>3. ASSUME NEW c \in Blocks
          PROVE  \/ Pooled(q.free_block_pool, c)
                 \/ IsOpen(q, c)
                 \/ q.blocks[c].current_write_page_index = PagesPerBlock
      BY <1>3, <1>5, <1>7, <1>13 DEF SoundPlane, PointersAgree
    <2>. QED BY <2>1, <2>2, <2>3 DEF PointersAgree
  <1>16. VictimsKept(q)
    <2>. SUFFICES ASSUME NEW c \in Blocks, q.blocks[c].has_ongoing_gc
                  PROVE  /\ ~ IsOpen(q, c) /\ ~ Pooled(q.free_block_pool, c)
                         /\ q.blocks[c].ongoing_user_program_cnt = 0
      BY DEF VictimsKept
    <2>1. c # b /\ p.blocks[c].has_ongoing_gc
      BY <1>1, <1>2, <1>7, <1>9 DEF Untouched, b
    <2>2. /\ ~ IsOpen(p, c) /\ ~ Pooled(p.free_block_pool, c)
          /\ p.blocks[c].ongoing_user_program_cnt = 0
      BY <2>1 DEF SoundPlane, VictimsKept
    <2>3. c # n
      BY <1>5, <2>2
    <2>. QED BY <1>5, <1>7, <1>13, <2>1, <2>2, <2>3
  <1>17. MarksWritten(q)
    <2>1. slot.current_write_page_index \in Nat /\ Pages \subseteq Int
      BY <1>1, PlaneAssumption DEF BlockSlot, Pages
    <2>2. slot.invalid_page_bitmap \subseteq Pages
      BY <1>1 DEF BlockSlot
    <2>3. ASSUME NEW x \in new.invalid_page_bitmap
          PROVE  x < new.current_write_page_index
      <3>1. x < slot.current_write_page_index /\ x \in Int
        BY <1>1, <1>2, <2>1, <2>2, <2>3 DEF SoundPlane, MarksWritten
      <3>. QED BY <1>2, <2>1, <3>1
    <2>. QED BY <1>7, <1>9, <2>3 DEF SoundPlane, MarksWritten, Untouched
  <1>18. SoundPlane(q)
    BY <1>14, <1>15, <1>16, <1>17 DEF SoundPlane
  <1>. QED BY <1>7, <1>9, <1>18 DEF b, new

LEMMA SoundAllocation ==
    ASSUME NEW p, SoundPlane(p), NEW role \in Roles, NEW s \in Streams,
           NEW o \in AllocateBlockAndPage(p, role, s), o.exit = "none"
    PROVE  LET b == p.open_blocks[role][s]
           IN  /\ SoundPlane(o.plane)
               /\ o.plane.blocks[b] = Written(p.blocks[b], role)
               /\ \A c \in Blocks \ {b} : Untouched(o.plane.blocks[c], p.blocks[c])
  <1>1. /\ o.plane \in PlaneRecord
        /\ RoomLeft(p, role, s, o.plane) \/ BlockReplaced(p, role, s, o.plane)
    BY OpenBlock, AllocationOutcome DEF SoundPlane
  <1>. QED BY <1>1, PageTakenSound, BlockReplacedSound

\* A page that is not valid before is after; the others stay as they are.
LEMMA AllocatedPageValid ==
    ASSUME NEW p, SoundPlane(p), NEW role \in Roles, NEW s \in Streams, NEW q,
           q.blocks[p.open_blocks[role][s]] = Written(p.blocks[p.open_blocks[role][s]], role),
           \A c \in Blocks \ {p.open_blocks[role][s]} : Untouched(q.blocks[c], p.blocks[c])
    PROVE  LET b == p.open_blocks[role][s]
               page == p.blocks[b].current_write_page_index
           IN  /\ page \notin ValidPagesOf(p, b)
               /\ ValidPagesOf(q, b) = ValidPagesOf(p, b) \cup {page}
               /\ \A c \in Blocks \ {b} : ValidPagesOf(q, c) = ValidPagesOf(p, c)
  <1>. DEFINE b == p.open_blocks[role][s]
              slot == p.blocks[b]
              page == slot.current_write_page_index
              new == Written(slot, role)
  <1>1. b \in Blocks /\ slot \in BlockSlot /\ page \in Pages /\ page < PagesPerBlock
    BY OpenBlock
  <1>2. /\ new.current_write_page_index = page + 1
        /\ new.invalid_page_bitmap = slot.invalid_page_bitmap
    BY <1>1, WrittenSlot
  <1>3. page \notin slot.invalid_page_bitmap
    BY <1>1, PlaneAssumption DEF SoundPlane, MarksWritten, Pages
  <1>4. \A x \in Pages : x < page + 1 <=> x < page \/ x = page
    BY <1>1, PlaneAssumption DEF Pages
  <1>5. page \notin ValidPagesOf(p, b)
    BY <1>1, PlaneAssumption DEF ValidPagesOf, Pages
  <1>. HIDE DEF new
  <1>6. ValidPagesOf(q, b) = ValidPagesOf(p, b) \cup {page}
    <2>1. q.blocks[b] = new
      BY DEF new
    <2>. HIDE DEF b
    <2>2. \A x \in Pages : x \in ValidPagesOf(q, b)
                              <=> x < page + 1 /\ x \notin slot.invalid_page_bitmap
      BY <1>2, <2>1 DEF ValidPagesOf, IsPageValid
    <2>3. \A x \in Pages : x \in ValidPagesOf(p, b)
                              <=> x < page /\ x \notin slot.invalid_page_bitmap
      BY DEF ValidPagesOf, IsPageValid
    <2>4. ValidPagesOf(q, b) \subseteq Pages /\ ValidPagesOf(p, b) \subseteq Pages
      BY DEF ValidPagesOf
    <2>. HIDE DEF page, slot
    <2>. QED BY <1>1, <1>3, <1>4, <2>2, <2>3, <2>4
  <1>7. \A c \in Blocks \ {b} : ValidPagesOf(q, c) = ValidPagesOf(p, c)
    BY DEF ValidPagesOf, IsPageValid, Untouched
  <1>. QED BY <1>5, <1>6, <1>7

LEMMA SoundInvalidation ==
    ASSUME NEW p, SoundPlane(p), NEW a \in PageAddress,
           a.page \in ValidPagesOf(p, a.block)
    PROVE  LET o == InvalidatePageInBlock(p, a)
               b == a.block
           IN  /\ o.exit = IF p.blocks[b].stream_id = a.stream THEN "none" ELSE "wrong_stream"
               /\ SoundPlane(o.plane)
               /\ o.plane.blocks = [p.blocks EXCEPT ![b] = Marked(p.blocks[b], a.page)]
               /\ o.plane.open_blocks = p.open_blocks
               /\ o.plane.free_block_pool = p.free_block_pool
               /\ ValidPagesOf(o.plane, b) = ValidPagesOf(p, b) \ {a.page}
               /\ \A c \in Blocks \ {b} : ValidPagesOf(o.plane, c) = ValidPagesOf(p, c)
  <1>. DEFINE b == a.block
              new == Marked(p.blocks[b], a.page)
              o == InvalidatePageInBlock(p, a)
              q == o.plane
  <1>1. /\ p \in PlaneRecord /\ b \in Blocks /\ p.blocks[b] \in BlockSlot
    BY DEF SoundPlane, PageAddress, PlaneRecord
  <1>2. o.exit = IF p.blocks[b].stream_id = a.stream THEN "none" ELSE "wrong_stream"
    BY DEF InvalidatePageInBlock
  <1>3. /\ q \in PlaneRecord
        /\ q.blocks = [p.blocks EXCEPT ![b] = new]
        /\ q.open_blocks = p.open_blocks
        /\ q.free_block_pool = p.free_block_pool
    BY <1>1, InvalidationOutcome
  <1>. HIDE DEF o
  <1>4. /\ new.current_write_page_index = p.blocks[b].current_write_page_index
        /\ new.invalid_page_bitmap = p.blocks[b].invalid_page_bitmap \cup {a.page}
        /\ new.stream_id = p.blocks[b].stream_id
        /\ new.has_ongoing_gc = p.blocks[b].has_ongoing_gc
        /\ new.ongoing_user_program_cnt = p.blocks[b].ongoing_user_program_cnt
    BY <1>1 DEF Marked, BlockSlot
  <1>. HIDE DEF new, q
  <1>5. q.blocks[b] = new /\ \A c \in Blocks \ {b} : q.blocks[c] = p.blocks[c]
    BY <1>1, <1>3 DEF PlaneRecord
  <1>6. \A c : IsOpen(q, c) <=> IsOpen(p, c)
    BY <1>3 DEF IsOpen
  <1>7. HoldersApart(q)
    BY <1>3, <1>6 DEF SoundPlane, HoldersApart
  <1>8. PointersAgree(q)
    <2>1. ~ Pooled(p.free_block_pool, b)
      BY <1>1 DEF SoundPlane, PointersAgree, ValidPagesOf, Pages
    <2>2. \A role \in Roles, s \in Streams : p.open_blocks[role][s] \in Blocks
      BY <1>1 DEF PlaneRecord
    <2>3. \A c \in Blocks :
             /\ q.blocks[c].current_write_page_index = p.blocks[c].current_write_page_index
             /\ q.blocks[c].stream_id = p.blocks[c].stream_id
             /\ c # b => q.blocks[c].invalid_page_bitmap = p.blocks[c].invalid_page_bitmap
      BY <1>4, <1>5
    <2>. QED BY <1>3, <1>6, <2>1, <2>2, <2>3 DEF SoundPlane, PointersAgree
  <1>9. VictimsKept(q)
    BY <1>3, <1>4, <1>5, <1>6 DEF SoundPlane, VictimsKept
  <1>10. MarksWritten(q)
    <2>1. a.page < p.blocks[b].current_write_page_index
      BY DEF ValidPagesOf
    <2>. QED BY <1>4, <1>5, <2>1 DEF SoundPlane, MarksWritten
  <1>11. SoundPlane(q)
    BY <1>3, <1>7, <1>8, <1>9, <1>10 DEF SoundPlane
  <1>12. ValidPagesOf(q, b) = ValidPagesOf(p, b) \ {a.page}
    BY <1>4, <1>5 DEF ValidPagesOf, IsPageValid
  <1>13. \A c \in Blocks \ {b} : ValidPagesOf(q, c) = ValidPagesOf(p, c)
    BY <1>5 DEF ValidPagesOf, IsPageValid
  <1>. QED BY <1>2, <1>3, <1>11, <1>12, <1>13 DEF o, q, new

\* Reads, programs and collections change a slot and not what its pages hold.
LEMMA SoundSlot ==
    ASSUME NEW p, SoundPlane(p), NEW b \in Blocks, NEW new \in BlockSlot,
           new.current_write_page_index = p.blocks[b].current_write_page_index,
           new.invalid_page_bitmap = p.blocks[b].invalid_page_bitmap,
           new.stream_id = p.blocks[b].stream_id,
           new.has_ongoing_gc =>
              /\ ~ IsOpen(p, b) /\ ~ Pooled(p.free_block_pool, b)
              /\ new.ongoing_user_program_cnt = 0
    PROVE  LET q == [p EXCEPT !.blocks[b] = new]
           IN  /\ SoundPlane(q)
               /\ q.blocks = [p.blocks EXCEPT ![b] = new]
               /\ q.open_blocks = p.open_blocks
               /\ q.free_block_pool = p.free_block_pool
               /\ SameCounts(q, p)
               /\ \A c \in Blocks : ValidPagesOf(q, c) = ValidPagesOf(p, c)
  <1>. DEFINE blocks == [p.blocks EXCEPT ![b] = new]
              q == [p EXCEPT !.blocks[b] = new]
  <1>1. p \in PlaneRecord
    BY DEF SoundPlane
  <1>2. q = [p EXCEPT !.blocks = blocks]
    BY <1>1 DEF PlaneRecord
  <1>3. blocks \in [Blocks -> BlockSlot]
    BY <1>1 DEF PlaneRecord
  <1>4. blocks[b] = new /\ \A c \in Blocks \ {b} : blocks[c] = p.blocks[c]
    BY <1>1 DEF PlaneRecord
  <1>. HIDE DEF blocks, q
  <1>5. /\ q \in PlaneRecord /\ q.blocks = blocks
        /\ q.open_blocks = p.open_blocks
        /\ q.free_block_pool = p.free_block_pool
        /\ SameCounts(q, p)
    BY <1>1, <1>2, <1>3 DEF PlaneRecord, SameCounts
  <1>6. \A c \in Blocks :
           /\ q.blocks[c].current_write_page_index = p.blocks[c].current_write_page_index
           /\ q.blocks[c].invalid_page_bitmap = p.blocks[c].invalid_page_bitmap
           /\ q.blocks[c].stream_id = p.blocks[c].stream_id
    BY <1>4, <1>5
  <1>7. \A c : IsOpen(q, c) <=> IsOpen(p, c)
    BY <1>5 DEF IsOpen
  <1>8. HoldersApart(q)
    BY <1>5, <1>7 DEF SoundPlane, HoldersApart
  <1>9. PointersAgree(q)
    <2>1. \A role \in Roles, s \in Streams : p.open_blocks[role][s] \in Blocks
      BY <1>1 DEF PlaneRecord
    <2>. QED BY <1>5, <1>6, <1>7, <2>1 DEF SoundPlane, PointersAgree
  <1>10. VictimsKept(q)
    BY <1>4, <1>5, <1>7 DEF SoundPlane, VictimsKept
  <1>11. MarksWritten(q)
    BY <1>6 DEF SoundPlane, MarksWritten
  <1>12. \A c \in Blocks : ValidPagesOf(q, c) = ValidPagesOf(p, c)
    BY <1>6 DEF ValidPagesOf, IsPageValid
  <1>13. SoundPlane(q)
    BY <1>5, <1>8, <1>9, <1>10, <1>11 DEF SoundPlane
  <1>. QED BY <1>5, <1>12, <1>13 DEF q, blocks

\* A closed block without valid pages comes back to the pool blank.
LEMMA SoundErase ==
    ASSUME NEW p, SoundPlane(p), NEW b \in Blocks, p.blocks[b].has_ongoing_gc,
           ValidPagesOf(p, b) = {}
    PROVE  LET o == [AddErasedBlockToPool(p, b)
                        EXCEPT !.plane.blocks[b].has_ongoing_gc = FALSE]
               new == o.plane.blocks[b]
           IN  /\ p.blocks[b].current_write_page_index = PagesPerBlock
               /\ p.blocks[b].invalid_page_bitmap = Pages
               /\ SoundPlane(o.plane)
               /\ new.current_write_page_index = 0 /\ new.invalid_page_bitmap = {}
               /\ new.invalid_page_count = 0 /\ ~ new.has_ongoing_gc
               /\ new.erase_count = p.blocks[b].erase_count + 1
               /\ new.ongoing_user_read_cnt = p.blocks[b].ongoing_user_read_cnt
               /\ new.ongoing_user_program_cnt = p.blocks[b].ongoing_user_program_cnt
               /\ \A c \in Blocks \ {b} : o.plane.blocks[c] = p.blocks[c]
               /\ ValidPagesOf(o.plane, b) = {}
               /\ \A c \in Blocks \ {b} : ValidPagesOf(o.plane, c) = ValidPagesOf(p, c)
  <1>. DEFINE slot == p.blocks[b]
              new == [Erase(slot) EXCEPT !.has_ongoing_gc = FALSE]
              o == [AddErasedBlockToPool(p, b)
                       EXCEPT !.plane.blocks[b].has_ongoing_gc = FALSE]
              q == o.plane
  <1>1. /\ p \in PlaneRecord /\ slot \in BlockSlot
        /\ EachPooledOnce(p.free_block_pool)
        /\ ~ Pooled(p.free_block_pool, b) /\ ~ IsOpen(p, b)
    BY DEF SoundPlane, PlaneRecord, HoldersApart, VictimsKept
  <1>2. slot.current_write_page_index = PagesPerBlock
    BY <1>1 DEF SoundPlane, PointersAgree
  <1>3. slot.invalid_page_bitmap = Pages
    <2>1. slot.invalid_page_bitmap \subseteq Pages
      BY <1>1 DEF BlockSlot
    <2>2. \A x \in Pages : x < PagesPerBlock
      BY PlaneAssumption DEF Pages
    <2>. QED BY <1>2, <2>1, <2>2 DEF ValidPagesOf, IsPageValid
  <1>4. /\ q \in PlaneRecord
        /\ q.blocks = [p.blocks EXCEPT ![b] = new]
        /\ q.open_blocks = p.open_blocks
        /\ EachPooledOnce(q.free_block_pool)
        /\ \A c : Pooled(q.free_block_pool, c) <=> Pooled(p.free_block_pool, c) \/ c = b
    BY <1>1, EraseOutcome
  <1>5. /\ new.current_write_page_index = 0 /\ new.invalid_page_count = 0
        /\ new.invalid_page_bitmap = {} /\ new.has_ongoing_gc = FALSE
        /\ new.erase_count = slot.erase_count + 1
        /\ new.ongoing_user_read_cnt = slot.ongoing_user_read_cnt
        /\ new.ongoing_user_program_cnt = slot.ongoing_user_program_cnt
    BY <1>1 DEF Erase, BlockSlot
  <1>. HIDE DEF o, q, new
  <1>6. q.blocks[b] = new /\ \A c \in Blocks \ {b} : q.blocks[c] = p.blocks[c]
    BY <1>1, <1>4 DEF PlaneRecord
  <1>7. \A c : IsOpen(q, c) <=> IsOpen(p, c)
    BY <1>4 DEF IsOpen
  <1>8. HoldersApart(q)
    BY <1>1, <1>4, <1>7 DEF SoundPlane, HoldersApart
  <1>9. PointersAgree(q)
    <2>1. \A role \in Roles, s \in Streams : p.open_blocks[role][s] \in Blocks \ {b}
      BY <1>1 DEF PlaneRecord, IsOpen
    <2>. QED BY <1>4, <1>5, <1>6, <1>7, <2>1 DEF SoundPlane, PointersAgree
  <1>10. VictimsKept(q)
    BY <1>4, <1>5, <1>6, <1>7 DEF SoundPlane, VictimsKept
  <1>11. MarksWritten(q)
    BY <1>5, <1>6 DEF SoundPlane, MarksWritten
  <1>12. ValidPagesOf(q, b) = {}
    BY <1>5, <1>6 DEF ValidPagesOf, Pages
  <1>13. \A c \in Blocks \ {b} : ValidPagesOf(q, c) = ValidPagesOf(p, c)
    BY <1>6 DEF ValidPagesOf, IsPageValid
  <1>14. SoundPlane(q)
    BY <1>4, <1>8, <1>9, <1>10, <1>11 DEF SoundPlane
  <1>. QED BY <1>2, <1>3, <1>5, <1>6, <1>12, <1>13, <1>14 DEF o, q

-----------------------------------------------------------------------------
(* The counters of a plane                                                    *)

LEMMA PagesFinite ==
    /\ IsFiniteSet(Blocks) /\ IsFiniteSet(Pages) /\ IsFiniteSet(Blocks \X Pages)
    /\ Cardinality(Pages) = PagesPerBlock
    /\ Cardinality(Blocks \X Pages) = TotalPages
    /\ \A b \in Blocks : /\ IsFiniteSet({b} \X Pages)
                         /\ Cardinality({b} \X Pages) = PagesPerBlock
  <1>1. IsFiniteSet(Blocks) /\ Cardinality(Blocks) = NumBlocks
    BY FS_Interval, PlaneAssumption DEF Blocks
  <1>2. IsFiniteSet(Pages) /\ Cardinality(Pages) = PagesPerBlock
    BY FS_Interval, PlaneAssumption DEF Pages
  <1>3. IsFiniteSet(Blocks \X Pages) /\ Cardinality(Blocks \X Pages) = NumBlocks * PagesPerBlock
    BY <1>1, <1>2, FS_Product
  <1>4. ASSUME NEW b \in Blocks
        PROVE  IsFiniteSet({b} \X Pages) /\ Cardinality({b} \X Pages) = PagesPerBlock
    <2>1. IsFiniteSet({b}) /\ Cardinality({b}) = 1
      BY FS_Singleton
    <2>2. /\ IsFiniteSet({b} \X Pages)
          /\ Cardinality({b} \X Pages) = Cardinality({b}) * Cardinality(Pages)
      BY <1>2, <2>1, FS_Product
    <2>. QED BY <1>2, <2>1, <2>2, PlaneAssumption
  <1>. QED BY <1>1, <1>2, <1>3, <1>4 DEF TotalPages

LEMMA PairCardinality ==
    ASSUME NEW x, NEW y, x # y
    PROVE  Cardinality({x, y}) = 2
  <1>1. IsFiniteSet({x}) /\ Cardinality({x}) = 1 /\ y \notin {x}
    BY FS_Singleton
  <1>2. Cardinality({x} \cup {y}) = Cardinality({x}) + 1
    BY <1>1, FS_AddElement
  <1>3. {x, y} = {x} \cup {y}
    OBVIOUS
  <1>. QED BY <1>1, <1>2, <1>3

UnwrittenPages(p) ==
    {x \in Blocks \X Pages : x[2] >= p.blocks[x[1]].current_write_page_index}

\* The counters add up, the free ones are those not written, and each block counts
\* the bits of its bitmap.
CountedPlane(p) ==
    /\ Balance(p) = TotalPages
    /\ p.free_pages_count = Cardinality(UnwrittenPages(p))
    /\ \A b \in Blocks : p.blocks[b].invalid_page_count
                           = Cardinality(p.blocks[b].invalid_page_bitmap)

LEMMA UnwrittenFinite ==
    ASSUME NEW p
    PROVE  IsFiniteSet(UnwrittenPages(p)) /\ Cardinality(UnwrittenPages(p)) \in Nat
  BY PagesFinite, FS_Subset, FS_CardinalityType DEF UnwrittenPages

LEMMA NewPlaneCounted == CountedPlane(NewPlane)
  <1>1. /\ NewPlane.valid_pages_count = 0 /\ NewPlane.invalid_pages_count = 0
        /\ NewPlane.free_pages_count = TotalPages
        /\ \A b \in Blocks : /\ NewPlane.blocks[b].current_write_page_index = 0
                             /\ NewPlane.blocks[b].invalid_page_count = 0
                             /\ NewPlane.blocks[b].invalid_page_bitmap = {}
    BY DEF NewPlane
  <1>2. UnwrittenPages(NewPlane) = Blocks \X Pages
    BY <1>1 DEF UnwrittenPages, Pages
  <1>3. TotalPages \in Int
    BY PlaneAssumption DEF TotalPages
  <1>4. Cardinality({}) = 0 /\ Cardinality(Blocks \X Pages) = TotalPages
    BY PagesFinite, FS_EmptySet
  <1>5. Balance(NewPlane) = TotalPages
    BY <1>1, <1>3 DEF Balance
  <1>. QED BY <1>1, <1>2, <1>4, <1>5 DEF CountedPlane

\* Each stream's open blocks have room, and they are three different blocks.
LEMMA RoomInTwoBlocks ==
    ASSUME NEW p, SoundPlane(p), CountedPlane(p)
    PROVE  p.free_pages_count \in Nat /\ p.free_pages_count >= 2
  <1>. DEFINE d == p.open_blocks["data"][0]
              g == p.open_blocks["gc"][0]
              page(b) == p.blocks[b].current_write_page_index
  <1>1. 0 \in Streams /\ "data" \in Roles /\ "gc" \in Roles
    BY PlaneAssumption DEF Streams, Roles
  <1>2. d \in Blocks /\ g \in Blocks /\ page(d) \in Pages /\ page(g) \in Pages
    BY <1>1, OpenBlock
  <1>3. d # g
    BY <1>1 DEF SoundPlane, HoldersApart
  <1>. DEFINE two == {<<d, page(d)>>, <<g, page(g)>>}
  <1>4. two \subseteq UnwrittenPages(p)
    <2>1. page(d) >= page(d) /\ page(g) >= page(g)
      BY <1>2, PlaneAssumption DEF Pages
    <2>. QED BY <1>2, <2>1 DEF UnwrittenPages
  <1>5. Cardinality(two) = 2
    <2>1. <<d, page(d)>> # <<g, page(g)>>
      BY <1>3
    <2>. QED BY <2>1, PairCardinality
  <1>. HIDE DEF two
  <1>6. 2 <= Cardinality(UnwrittenPages(p))
    BY <1>4, <1>5, UnwrittenFinite, FS_Subset
  <1>. QED BY <1>6, UnwrittenFinite DEF CountedPlane

\* One page less is blank.
LEMMA CountedAllocation ==
    ASSUME NEW p, SoundPlane(p), CountedPlane(p), NEW role \in Roles, NEW s \in Streams,
           NEW o \in AllocateBlockAndPage(p, role, s), o.exit = "none"
    PROVE  CountedPlane(o.plane)
  <1>. DEFINE b == p.open_blocks[role][s]
              slot == p.blocks[b]
              page == slot.current_write_page_index
              q == o.plane
  <1>1. /\ b \in Blocks /\ slot \in BlockSlot /\ page \in Pages /\ page < PagesPerBlock
        /\ p \in PlaneRecord
    BY OpenBlock DEF SoundPlane
  <1>2. /\ q.blocks[b].current_write_page_index = page + 1
        /\ q.blocks[b].invalid_page_count = slot.invalid_page_count
        /\ q.blocks[b].invalid_page_bitmap = slot.invalid_page_bitmap
        /\ \A c \in Blocks \ {b} : Untouched(q.blocks[c], p.blocks[c])
    <2>. DEFINE new == Written(slot, role)
    <2>1. /\ new.current_write_page_index = page + 1
          /\ new.invalid_page_count = slot.invalid_page_count
          /\ new.invalid_page_bitmap = slot.invalid_page_bitmap
      BY <1>1 DEF Written, BlockSlot
    <2>. HIDE DEF new
    <2>2. q.blocks[b] = new /\ \A c \in Blocks \ {b} : Untouched(q.blocks[c], p.blocks[c])
      BY SoundAllocation DEF new
    <2>. QED BY <2>1, <2>2
  <1>3. /\ q.free_pages_count = p.free_pages_count - 1
        /\ q.valid_pages_count = p.valid_pages_count + 1
        /\ q.invalid_pages_count = p.invalid_pages_count
    BY <1>1, AllocationCounts
  <1>. HIDE DEF b, page, q
  <1>4. UnwrittenPages(q) = UnwrittenPages(p) \ {<<b, page>>}
    <2>1. b = p.open_blocks[role][s] /\ page = p.blocks[b].current_write_page_index
      BY DEF b, page
    <2>2. \A x \in Pages : x >= page + 1 <=> x >= page /\ x # page
      BY <1>1, PlaneAssumption DEF Pages
    <2>3. ASSUME NEW x \in Blocks \X Pages
          PROVE  x[2] >= q.blocks[x[1]].current_write_page_index
                   <=> /\ x[2] >= p.blocks[x[1]].current_write_page_index
                       /\ x # <<b, page>>
      <3>1. CASE x[1] = b
        <4>1. x = <<b, x[2]>> /\ x[2] \in Pages
          BY <3>1
        <4>2. x # <<b, page>> <=> x[2] # page
          BY <4>1
        <4>3. x[2] >= page + 1 <=> x[2] >= page /\ x[2] # page
          BY <2>2, <4>1
        <4>. QED BY <1>2, <2>1, <3>1, <4>2, <4>3
      <3>2. CASE x[1] # b
        <4>1. x[1] \in Blocks \ {b} /\ x # <<b, page>>
          BY <3>2
        <4>. QED BY <1>2, <4>1 DEF Untouched
      <3>. QED BY <3>1, <3>2
    <2>. QED BY <2>3 DEF UnwrittenPages
  <1>5. <<b, page>> \in UnwrittenPages(p)
    <2>1. page >= page
      BY <1>1, PlaneAssumption DEF Pages
    <2>. QED BY <1>1, <2>1 DEF UnwrittenPages, b, page
  <1>6. Cardinality(UnwrittenPages(q)) = Cardinality(UnwrittenPages(p)) - 1
    BY <1>4, <1>5, UnwrittenFinite, FS_RemoveElement
  <1>7. ASSUME NEW c \in Blocks
        PROVE  q.blocks[c].invalid_page_count = Cardinality(q.blocks[c].invalid_page_bitmap)
    BY <1>2 DEF CountedPlane, Untouched
  <1>8. Balance(q) = TotalPages
    BY <1>1, <1>3 DEF CountedPlane, Balance, PlaneRecord
  <1>9. CountedPlane(q)
    BY <1>3, <1>6, <1>7, <1>8 DEF CountedPlane
  <1>. QED BY <1>9 DEF q

\* An allocation from a plane that is counted meets none of the plane's own checks.
LEMMA AllocationExits ==
    ASSUME NEW p, SoundPlane(p), CountedPlane(p), NEW role \in Roles, NEW s \in Streams,
           NEW o \in AllocateBlockAndPage(p, role, s)
    PROVE  o.exit \in {"none", "empty_pool", "gc_victim"}
  <1>1. o.exit \in Exits
    BY OpenBlock, AllocationOutcome DEF SoundPlane
  <1>2. o.exit \notin {"wrong_stream", "no_free_pages", "inconsistent"}
    BY OpenBlock, AllocationCounts, RoomInTwoBlocks DEF SoundPlane, CountedPlane
  <1>. QED BY <1>1, <1>2 DEF Exits

LEMMA CountedInvalidation ==
    ASSUME NEW p, SoundPlane(p), CountedPlane(p), NEW a \in PageAddress,
           a.page \in ValidPagesOf(p, a.block)
    PROVE  CountedPlane(InvalidatePageInBlock(p, a).plane)
  <1>. DEFINE b == a.block
              new == Marked(p.blocks[b], a.page)
              q == InvalidatePageInBlock(p, a).plane
  <1>1. p \in PlaneRecord /\ b \in Blocks /\ p.blocks[b] \in BlockSlot
    BY DEF SoundPlane, PlaneRecord, PageAddress
  <1>2. q.blocks = [p.blocks EXCEPT ![b] = new]
    BY SoundInvalidation
  <1>3. /\ q.free_pages_count = p.free_pages_count
        /\ q.valid_pages_count = p.valid_pages_count - 1
        /\ q.invalid_pages_count = p.invalid_pages_count + 1
    BY <1>1, InvalidationCounts
  <1>4. /\ new.current_write_page_index = p.blocks[b].current_write_page_index
        /\ new.invalid_page_count = p.blocks[b].invalid_page_count + 1
        /\ new.invalid_page_bitmap = p.blocks[b].invalid_page_bitmap \cup {a.page}
    BY <1>1 DEF Marked, BlockSlot
  <1>. HIDE DEF new, q
  <1>5. q.blocks[b] = new /\ \A c \in Blocks \ {b} : q.blocks[c] = p.blocks[c]
    BY <1>1, <1>2 DEF PlaneRecord
  <1>6. UnwrittenPages(q) = UnwrittenPages(p)
    <2>1. \A c \in Blocks : q.blocks[c].current_write_page_index
                               = p.blocks[c].current_write_page_index
      BY <1>4, <1>5
    <2>. QED BY <2>1 DEF UnwrittenPages
  <1>7. Cardinality(new.invalid_page_bitmap) = Cardinality(p.blocks[b].invalid_page_bitmap) + 1
    <2>1. IsFiniteSet(p.blocks[b].invalid_page_bitmap)
      BY <1>1, PagesFinite, FS_Subset DEF BlockSlot
    <2>2. a.page \notin p.blocks[b].invalid_page_bitmap
      BY DEF ValidPagesOf, IsPageValid
    <2>. QED BY <1>4, <2>1, <2>2, FS_AddElement
  <1>8. ASSUME NEW c \in Blocks
        PROVE  q.blocks[c].invalid_page_count = Cardinality(q.blocks[c].invalid_page_bitmap)
    BY <1>1, <1>4, <1>5, <1>7 DEF CountedPlane
  <1>9. Balance(q) = TotalPages
    BY <1>1, <1>3 DEF CountedPlane, Balance, PlaneRecord
  <1>10. CountedPlane(q)
    BY <1>3, <1>6, <1>8, <1>9 DEF CountedPlane
  <1>. QED BY <1>10 DEF q

LEMMA CountedSlot ==
    ASSUME NEW p, NEW q, CountedPlane(p), SameCounts(q, p),
           \A c \in Blocks :
              /\ q.blocks[c].current_write_page_index = p.blocks[c].current_write_page_index
              /\ q.blocks[c].invalid_page_count = p.blocks[c].invalid_page_count
              /\ q.blocks[c].invalid_page_bitmap = p.blocks[c].invalid_page_bitmap
    PROVE  CountedPlane(q)
  <1>1. UnwrittenPages(q) = UnwrittenPages(p)
    BY DEF UnwrittenPages
  <1>. QED BY <1>1 DEF CountedPlane, SameCounts, Balance

\* The pages of an erased block were all marked and are all blank: the plane is counted
\* if the check after the erase passes, which is so when what is taken off is credited.
LEMMA CountedErase ==
    ASSUME NEW p, SoundPlane(p), CountedPlane(p), NEW b \in Blocks,
           p.blocks[b].has_ongoing_gc, ValidPagesOf(p, b) = {}
    PROVE  LET o == [AddErasedBlockToPool(p, b)
                        EXCEPT !.plane.blocks[b].has_ongoing_gc = FALSE]
           IN  /\ o.exit = "none" => CountedPlane(o.plane)
               /\ o.exit = IF CreditReclaimed THEN "none" ELSE "inconsistent"
  <1>. DEFINE slot == p.blocks[b]
              own == {b} \X Pages
              o == [AddErasedBlockToPool(p, b)
                       EXCEPT !.plane.blocks[b].has_ongoing_gc = FALSE]
              q == o.plane
  <1>1. p \in PlaneRecord /\ slot \in BlockSlot
    BY DEF SoundPlane, PlaneRecord
  <1>2. /\ slot.current_write_page_index = PagesPerBlock
        /\ slot.invalid_page_bitmap = Pages
        /\ q.blocks[b].current_write_page_index = 0
        /\ q.blocks[b].invalid_page_count = 0
        /\ q.blocks[b].invalid_page_bitmap = {}
        /\ \A c \in Blocks \ {b} : q.blocks[c] = p.blocks[c]
    BY SoundErase, SMTT(30)
  <1>3. slot.invalid_page_count = PagesPerBlock
    BY <1>2, PagesFinite DEF CountedPlane
  <1>4. /\ q.free_pages_count = p.free_pages_count + ErasedCredit(slot)
        /\ q.valid_pages_count = p.valid_pages_count
        /\ q.invalid_pages_count = p.invalid_pages_count - slot.invalid_page_count
        /\ o.exit = IF Balance(p) - (slot.invalid_page_count - ErasedCredit(slot)) # TotalPages
                    THEN "inconsistent"
                    ELSE IF p.free_pages_count + ErasedCredit(slot) = 0
                    THEN "no_free_pages" ELSE "none"
    BY <1>1, EraseCounts
  <1>5. /\ PagesPerBlock \in Nat \ {0} /\ TotalPages \in Int /\ Balance(p) = TotalPages
        /\ p.free_pages_count \in Nat /\ p.free_pages_count >= 2
        /\ CreditReclaimed \in BOOLEAN
    BY RoomInTwoBlocks, PlaneAssumption DEF CountedPlane, TotalPages
  <1>6. ErasedCredit(slot) = IF CreditReclaimed THEN PagesPerBlock ELSE 0
    BY <1>3, <1>5 DEF ErasedCredit
  <1>. HIDE DEF o, q, slot, own
  <1>7. o.exit = IF CreditReclaimed THEN "none" ELSE "inconsistent"
    <2>1. CASE CreditReclaimed
      BY <1>3, <1>4, <1>5, <1>6, <2>1
    <2>2. CASE ~ CreditReclaimed
      BY <1>3, <1>4, <1>5, <1>6, <2>2
    <2>. QED BY <2>1, <2>2
  <1>8. ASSUME CreditReclaimed PROVE CountedPlane(q)
    <2>1. IsFiniteSet(own) /\ Cardinality(own) = PagesPerBlock
          /\ \A x \in own : x \in Blocks \X Pages
      BY PagesFinite DEF own
    <2>2. UnwrittenPages(q) = UnwrittenPages(p) \cup own /\ UnwrittenPages(p) \cap own = {}
      <3>1. \A x \in Pages : x >= 0 /\ ~ (x >= PagesPerBlock)
        BY PlaneAssumption DEF Pages
      <3>2. ASSUME NEW x \in Blocks \X Pages
            PROVE  x[2] >= q.blocks[x[1]].current_write_page_index
                     <=> x[2] >= p.blocks[x[1]].current_write_page_index \/ x \in own
        BY <1>2, <3>1 DEF own
      <3>3. ASSUME NEW x \in own
            PROVE  ~ (x[2] >= p.blocks[x[1]].current_write_page_index)
        BY <1>2, <3>1 DEF own, slot
      <3>. QED BY <2>1, <3>2, <3>3 DEF UnwrittenPages
    <2>3. Cardinality(UnwrittenPages(q)) = Cardinality(UnwrittenPages(p)) + PagesPerBlock
      <3>1. Cardinality(UnwrittenPages(p) \cup own)
              = Cardinality(UnwrittenPages(p)) + Cardinality(own)
                  - Cardinality(UnwrittenPages(p) \cap own)
        BY <2>1, UnwrittenFinite, FS_Union
      <3>2. Cardinality(UnwrittenPages(p) \cap own) = 0
        BY <2>2, FS_EmptySet
      <3>. QED BY <2>1, <2>2, <3>1, <3>2, UnwrittenFinite, PlaneAssumption
    <2>4. ASSUME NEW c \in Blocks
          PROVE  q.blocks[c].invalid_page_count = Cardinality(q.blocks[c].invalid_page_bitmap)
      BY <1>2, FS_EmptySet DEF CountedPlane
    <2>5. Balance(q) = TotalPages
      BY <1>1, <1>3, <1>4, <1>5, <1>6, <1>8 DEF Balance, PlaneRecord
    <2>6. q.free_pages_count = Cardinality(UnwrittenPages(q))
      BY <1>4, <1>6, <1>8, <2>3 DEF CountedPlane
    <2>. QED BY <2>4, <2>5, <2>6 DEF CountedPlane
  <1>. QED BY <1>5, <1>7, <1>8 DEF o, q

-----------------------------------------------------------------------------
(* The order of the pool                                                      *)

\* The pool is in the order of its keys, and with dynamic wear leveling the key under
\* which a block was pooled is still the number of its erasures.
PoolInOrder(p) ==
    /\ Sorted(p.free_block_pool)
    /\ DynamicWl => \A i \in DOMAIN p.free_block_pool :
          p.free_block_pool[i].key = p.blocks[p.free_block_pool[i].block].erase_count

SameErasures(q, p) == \A c \in Blocks : q.blocks[c].erase_count = p.blocks[c].erase_count

\* What the methods make of the pool: they leave it alone, open its first block, or
\* return an erased one.
PoolKept(q, p) == q.free_block_pool = p.free_block_pool /\ SameErasures(q, p)

FirstOpened(q, p) ==
    /\ p.free_block_pool # <<>>
    /\ q.free_block_pool = Tail(p.free_block_pool)
    /\ SameErasures(q, p)

ErasedReturned(q, p, b) ==
    /\ ~ Pooled(p.free_block_pool, b)
    /\ q.free_block_pool = AddToFreeBlockPool(p.free_block_pool,
                              IF DynamicWl THEN p.blocks[b].erase_count + 1 ELSE 0, b)
    /\ q.blocks[b].erase_count = p.blocks[b].erase_count + 1
    /\ \A c \in Blocks \ {b} : q.blocks[c].erase_count = p.blocks[c].erase_count

PoolStep(q, p) ==
    \/ PoolKept(q, p)
    \/ FirstOpened(q, p)
    \/ \E b \in Blocks : ErasedReturned(q, p, b)

LEMMA NewPoolInOrder == PoolInOrder(NewPlane)
  <1>. DEFINE n == NumBlocks - 3 * NumStreams
              pool == NewPlane.free_block_pool
  <1>1. /\ NumStreams \in Nat \ {0} /\ n \in Nat
        /\ \A i \in 1..n : 3 * NumStreams + i - 1 \in Blocks
    BY PlaneAssumption DEF Blocks
  <1>2. pool = [i \in 1..n |-> [key |-> 0, block |-> 3 * NumStreams + i - 1]]
    BY DEF NewPlane
  <1>3. \A b \in Blocks : NewPlane.blocks[b].erase_count = 0
    BY DEF NewPlane
  <1>. HIDE DEF n, pool
  <1>4. /\ DOMAIN pool = 1..n
        /\ \A i \in 1..n : pool[i].key = 0 /\ pool[i].block \in Blocks
    BY <1>1, <1>2
  <1>. QED BY <1>3, <1>4 DEF PoolInOrder, Sorted, pool

LEMMA PoolEntries ==
    ASSUME NEW p, SoundPlane(p)
    PROVE  /\ p.free_block_pool \in Seq(PoolEntry) /\ EachPooledOnce(p.free_block_pool)
           /\ \A i \in DOMAIN p.free_block_pool : p.free_block_pool[i].block \in Blocks
           /\ \A b \in Blocks : p.blocks[b].erase_count \in Nat
  <1>1. p.free_block_pool \in Seq(PoolEntry) /\ EachPooledOnce(p.free_block_pool)
    BY DEF SoundPlane, HoldersApart, PlaneRecord
  <1>2. \A i \in DOMAIN p.free_block_pool : p.free_block_pool[i] \in PoolEntry
    BY <1>1, ElementOfSeq, LenProperties
  <1>3. \A b \in Blocks : p.blocks[b].erase_count \in Nat
    BY DEF SoundPlane, PlaneRecord, BlockSlot
  <1>. QED BY <1>1, <1>2, <1>3 DEF PoolEntry

\* Whatever the methods do, the pool stays in order.
LEMMA PoolStaysInOrder ==
    ASSUME NEW p, NEW q, SoundPlane(p), PoolInOrder(p), PoolStep(q, p)
    PROVE  PoolInOrder(q)
  <1>1. PICK pool : pool = p.free_block_pool
    OBVIOUS
  <1>2. /\ pool \in Seq(PoolEntry) /\ EachPooledOnce(pool) /\ Sorted(pool)
        /\ \A i \in DOMAIN pool : pool[i].block \in Blocks
        /\ \A b \in Blocks : p.blocks[b].erase_count \in Nat
        /\ DynamicWl => \A i \in DOMAIN pool : pool[i].key = p.blocks[pool[i].block].erase_count
    BY <1>1, PoolEntries DEF PoolInOrder
  <1>3. CASE PoolKept(q, p)
    BY <1>1, <1>2, <1>3 DEF PoolInOrder, PoolKept, SameErasures
  <1>4. CASE FirstOpened(q, p)
    <2>1. /\ Sorted(Tail(pool)) /\ q.free_block_pool = Tail(pool)
          /\ \A i \in DOMAIN Tail(pool) : i + 1 \in DOMAIN pool /\ Tail(pool)[i] = pool[i + 1]
      BY <1>1, <1>2, <1>4, TailSorted DEF FirstOpened
    <2>2. DynamicWl => \A i \in DOMAIN Tail(pool) :
             Tail(pool)[i].key = q.blocks[Tail(pool)[i].block].erase_count
      BY <1>2, <1>4, <2>1 DEF FirstOpened, SameErasures
    <2>. QED BY <2>1, <2>2 DEF PoolInOrder
  <1>5. ASSUME NEW b \in Blocks, ErasedReturned(q, p, b)
        PROVE  PoolInOrder(q)
    <2>1. PICK key : key = IF DynamicWl THEN p.blocks[b].erase_count + 1 ELSE 0
      OBVIOUS
    <2>2. PICK entry : entry = [key |-> key, block |-> b]
      OBVIOUS
    <2>3. PICK after : after = AddToFreeBlockPool(pool, key, b)
      OBVIOUS
    <2>4. /\ key \in Nat /\ q.free_block_pool = after
          /\ DynamicWl => key = q.blocks[b].erase_count
          /\ entry.key = key /\ entry.block = b
      BY <1>1, <1>2, <1>5, <2>1, <2>2, <2>3 DEF ErasedReturned
    <2>5. /\ Sorted(after)
          /\ \A k \in DOMAIN after : after[k] = entry \/ \E i \in DOMAIN pool : after[k] = pool[i]
      BY <1>2, <2>2, <2>3, <2>4, AddToPoolSorted
    <2>6. \A i \in DOMAIN pool : pool[i].block \in Blocks \ {b}
      BY <1>1, <1>2, <1>5 DEF ErasedReturned, Pooled
    <2>7. ASSUME DynamicWl, NEW k \in DOMAIN after
          PROVE  after[k].key = q.blocks[after[k].block].erase_count
      <3>1. CASE after[k] = entry
        BY <2>4, <2>7, <3>1
      <3>2. ASSUME NEW i \in DOMAIN pool, after[k] = pool[i]
            PROVE  after[k].key = q.blocks[after[k].block].erase_count
        BY <1>2, <1>5, <2>6, <2>7, <3>2 DEF ErasedReturned
      <3>. QED BY <2>5, <3>1, <3>2
    <2>. QED BY <2>4, <2>5, <2>7 DEF PoolInOrder
  <1>. QED BY <1>3, <1>4, <1>5 DEF PoolStep

\* A block that leaves the pool was its first entry, and the first entry is among the
\* least worn.
LEMMA LeavesFromFront ==
    ASSUME NEW p, NEW q, SoundPlane(p), PoolInOrder(p), PoolStep(q, p), DynamicWl,
           NEW b, Pooled(p.free_block_pool, b), ~ Pooled(q.free_block_pool, b),
           NEW c, Pooled(p.free_block_pool, c)
    PROVE  p.blocks[b].erase_count <= p.blocks[c].erase_count
  <1>1. PICK pool : pool = p.free_block_pool
    OBVIOUS
  <1>2. /\ pool \in Seq(PoolEntry) /\ EachPooledOnce(pool) /\ Sorted(pool)
        /\ \A d \in Blocks : p.blocks[d].erase_count \in Nat
        /\ \A i \in DOMAIN pool : pool[i].key = p.blocks[pool[i].block].erase_count
    BY <1>1, PoolEntries DEF PoolInOrder
  <1>3. ASSUME NEW d \in Blocks, ErasedReturned(q, p, d) PROVE FALSE
    <2>1. PICK key \in Nat : /\ ~ Pooled(pool, d)
                             /\ q.free_block_pool = AddToFreeBlockPool(pool, key, d)
      BY <1>1, <1>2, <1>3 DEF ErasedReturned
    <2>2. Pooled(AddToFreeBlockPool(pool, key, d), b)
      BY <1>1, <1>2, <2>1, AddToPool
    <2>. QED BY <2>1, <2>2
  <1>4. pool # <<>> /\ q.free_block_pool = Tail(pool)
    BY <1>1, <1>3 DEF PoolStep, PoolKept, FirstOpened
  <1>5. Head(pool).block = b
    BY <1>1, <1>2, <1>4, TailOfPool
  <1>6. PICK i \in DOMAIN pool : pool[i].block = c
    BY <1>1 DEF Pooled
  <1>7. Head(pool).key <= pool[i].key
    BY <1>2, <1>4, TailSorted
  <1>8. Head(pool) = pool[1] /\ 1 \in DOMAIN pool
    BY <1>2, <1>4, HeadTailProperties, LenProperties, EmptySeq
  <1>. QED BY <1>2, <1>5, <1>6, <1>7, <1>8

\* An allocation leaves the pool alone or opens its first block.
LEMMA AllocationPoolStep ==
    ASSUME NEW p, SoundPlane(p), NEW role \in Roles, NEW s \in Streams,
           NEW o \in AllocateBlockAndPage(p, role, s), o.exit = "none"
    PROVE  PoolKept(o.plane, p) \/ FirstOpened(o.plane, p)
  <1>1. PICK b : b = p.open_blocks[role][s]
    OBVIOUS
  <1>2. p \in PlaneRecord /\ b \in Blocks /\ p.blocks[b] \in BlockSlot
    BY <1>1, OpenBlock DEF SoundPlane
  <1>3. p.blocks[b].current_write_page_index < PagesPerBlock
    BY <1>1, OpenBlock
  <1>4. PICK new : new = Written(p.blocks[b], role)
    OBVIOUS
  <1>5. new.erase_count = p.blocks[b].erase_count
    BY <1>2, <1>4 DEF Written, BlockSlot
  <1>6. PICK blocks : blocks = [p.blocks EXCEPT ![b] = new]
    OBVIOUS
  <1>7. /\ blocks \in [Blocks -> {blocks[c] : c \in Blocks}]
        /\ \A c \in Blocks : blocks[c].erase_count = p.blocks[c].erase_count
    BY <1>2, <1>5, <1>6 DEF PlaneRecord
  <1>8. RoomLeft(p, role, s, o.plane) \/ BlockReplaced(p, role, s, o.plane)
    BY <1>1, <1>2, <1>3, AllocationOutcome
  <1>9. CASE RoomLeft(p, role, s, o.plane)
    BY <1>1, <1>4, <1>6, <1>7, <1>9 DEF RoomLeft, PoolKept, SameErasures
  <1>10. CASE BlockReplaced(p, role, s, o.plane)
    <2>1. PICK n : n = Head(p.free_block_pool).block
      OBVIOUS
    <2>2. /\ p.free_block_pool # <<>> /\ o.plane.free_block_pool = Tail(p.free_block_pool)
          /\ o.plane.blocks = [blocks EXCEPT ![n] = [@ EXCEPT !.stream_id = s]]
      BY <1>1, <1>4, <1>6, <1>10, <2>1 DEF BlockReplaced
    <2>3. n \in Blocks
      BY <1>2, <2>1, <2>2, TailOfPool, PoolEntries DEF PoolEntry
    <2>4. blocks[n] = new \/ (blocks[n] = p.blocks[n] /\ p.blocks[n] \in BlockSlot)
      BY <1>2, <1>6, <2>3 DEF PlaneRecord
    <2>5. [blocks[n] EXCEPT !.stream_id = s].erase_count = blocks[n].erase_count
      BY <1>2, <1>4, <2>4 DEF Written, BlockSlot
    <2>6. SameErasures(o.plane, p)
      BY <1>7, <2>2, <2>3, <2>5 DEF SameErasures
    <2>. QED BY <2>2, <2>6 DEF FirstOpened
  <1>. QED BY <1>8, <1>9, <1>10

\* A completed erase returns the block.
LEMMA ErasePoolStep ==
    ASSUME NEW p, SoundPlane(p), NEW b \in Blocks, p.blocks[b].has_ongoing_gc,
           NEW o, o = AddErasedBlockToPool(p, b),
           NEW q, q = [o.plane EXCEPT !.blocks[b].has_ongoing_gc = FALSE]
    PROVE  PoolStep(q, p)
  <1>1. /\ ~ Pooled(p.free_block_pool, b) /\ p \in PlaneRecord /\ p.blocks[b] \in BlockSlot
    BY DEF SoundPlane, VictimsKept, PlaneRecord
  <1>2. PICK key : key = IF DynamicWl THEN p.blocks[b].erase_count + 1 ELSE 0
    OBVIOUS
  <1>3. PICK new : new = [Erase(p.blocks[b]) EXCEPT !.has_ongoing_gc = FALSE]
    OBVIOUS
  <1>4. new.erase_count = p.blocks[b].erase_count + 1
    BY <1>1, <1>3 DEF Erase, BlockSlot
  <1>5. /\ q.free_block_pool = AddToFreeBlockPool(p.free_block_pool, key, b)
        /\ q.blocks = [p.blocks EXCEPT ![b] = new]
    BY <1>1, <1>2, <1>3 DEF AddErasedBlockToPool, Checked, PlaneRecord
  <1>6. /\ q.blocks[b].erase_count = p.blocks[b].erase_count + 1
        /\ \A c \in Blocks \ {b} : q.blocks[c].erase_count = p.blocks[c].erase_count
    BY <1>1, <1>4, <1>5 DEF PlaneRecord
  <1>7. ErasedReturned(q, p, b)
    BY <1>1, <1>2, <1>5, <1>6 DEF ErasedReturned
  <1>. QED BY <1>7 DEF PoolStep
=============================================================================
