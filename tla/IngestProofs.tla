---------------------------- MODULE IngestProofs ----------------------------
(***************************************************************************)
(* What the parts of MCIngest guarantee for any size of their constants,   *)
(* and with them MCIngest as a whole (at the end).                         *)
(*                                                                         *)
(* The transcript (MessageStore).  Its rows are genuine copies of the      *)
(* messages, those with an id once; a sort moves rows and loses none       *)
(* (Arranging), and its key grows with the conversation.                   *)
(*                                                                         *)
(* The inbox runner (InboxMas) works on such a transcript and such a       *)
(* queue.  A mark is less than the number of messages claiming runs have   *)
(* read, and the table keeps all of those: a waiting message is one more.  *)
(*                                                                         *)
(* A fetch in a tab, the locks and the checkpoint have their invariants    *)
(* explained where they stand; InboxSync has a module of its own.          *)
(***************************************************************************)
EXTENDS MCIngest, InboxSyncProofs, ActionQueueProofs,
        SequenceTheorems, FiniteSetTheorems, FunctionTheorems, NaturalsInduction, TLAPS

-----------------------------------------------------------------------------
(* What the helpers of the transcript return.                              *)

\* A bounded set of numbers has a largest one.
LEMMA LargestIn ==
    ASSUME NEW S \in SUBSET Nat, S # {}, NEW bound \in Nat, \A n \in S : n <= bound
    PROVE  Max(S) \in S /\ \A n \in S : n <= Max(S)
  <1> DEFINE Distances == {bound - n : n \in S}
  <1>0. \A n \in S : bound - n \in Nat
    <2> SUFFICES ASSUME NEW n \in S PROVE bound - n \in Nat
      OBVIOUS
    <2>1. n \in Nat /\ n <= bound
      OBVIOUS
    <2> QED
      BY <2>1
  <1>1. Distances \subseteq Nat /\ Distances # {}
    BY <1>0
  <1>2. PICK least \in Distances : \A m \in Distances : <<m, least>> \notin OpToRel(<, Nat)
    BY <1>1, NatLessThanWellFounded, WFMin
  <1>3. \A m \in Distances : ~(m < least)
    BY <1>1, <1>2 DEF OpToRel
  <1>4. PICK largest \in S : least = bound - largest
    OBVIOUS
  <1>5. \A n \in S : largest >= n
    <2> SUFFICES ASSUME NEW n \in S PROVE largest >= n
      OBVIOUS
    <2>1. ~(bound - n < least)
      BY <1>3
    <2> QED
      BY <2>1, <1>4
  <1>6. Max(S) \in S /\ \A n \in S : Max(S) >= n
    BY <1>5 DEF Max
  <1> QED
    BY <1>6

StrictlyOrders(S, order) ==
    /\ \A k \in S : <<k, k>> \notin order
    /\ \A j, k \in S : j # k => <<j, k>> \in order \/ <<k, j>> \in order
    /\ \A i, j, k \in S : <<i, j>> \in order /\ <<j, k>> \in order => <<i, k>> \in order

\* Whatever comes earlier in the order has the smaller rank.
LEMMA RankFollowsOrder ==
    ASSUME NEW S, IsFiniteSet(S), NEW order, StrictlyOrders(S, order),
           NEW j \in S, NEW k \in S, <<j, k>> \in order
    PROVE  Rank(j, S, order) < Rank(k, S, order)
  <1> DEFINE Before(n) == {i \in S : <<i, n>> \in order}
  <1>1. Before(j) \in SUBSET Before(k) /\ j \in Before(k) /\ j \notin Before(j)
    BY DEF StrictlyOrders
  <1>2. IsFiniteSet(Before(k))
    BY FS_Subset
  <1>3. /\ IsFiniteSet(Before(j))
        /\ Cardinality(Before(j)) <= Cardinality(Before(k))
        /\ Cardinality(Before(j)) # Cardinality(Before(k))
    BY <1>1, <1>2, FS_Subset
  <1>4. Cardinality(Before(j)) \in Nat /\ Cardinality(Before(k)) \in Nat
    BY <1>2, <1>3, FS_CardinalityType
  <1>5. /\ Rank(j, S, order) = Cardinality(Before(j)) + 1
        /\ Rank(k, S, order) = Cardinality(Before(k)) + 1
    BY DEF Rank
  <1> HIDE DEF Before
  <1> QED
    BY <1>3, <1>4, <1>5

LEMMA RankBounds ==
    ASSUME NEW S, IsFiniteSet(S), NEW order, StrictlyOrders(S, order), NEW k \in S
    PROVE  Rank(k, S, order) \in 1 .. Cardinality(S)
  <1> DEFINE Before == {i \in S : <<i, k>> \in order}
  <1>1. Before \in SUBSET S /\ Before # S
    BY DEF StrictlyOrders
  <1>2. /\ IsFiniteSet(Before)
        /\ Cardinality(Before) <= Cardinality(S)
        /\ Cardinality(Before) # Cardinality(S)
    BY <1>1, FS_Subset
  <1>3. Cardinality(Before) \in Nat /\ Cardinality(S) \in Nat
    BY <1>2, FS_CardinalityType
  <1>4. Rank(k, S, order) = Cardinality(Before) + 1
    BY DEF Rank
  <1> HIDE DEF Before
  <1> QED
    BY <1>2, <1>3, <1>4

\* Which position each row of an arrangement comes from: every one once, in the order.
ArrangedBy(f, list, S, order) ==
    /\ f \in [1 .. Cardinality(S) -> S]
    /\ \A n \in 1 .. Cardinality(S) : Arranged(list, S, order)[n] = list[f[n]]
    /\ \A k \in S : \E n \in 1 .. Cardinality(S) : f[n] = k
    /\ \A m, n \in 1 .. Cardinality(S) : m < n => f[m] # f[n] /\ <<f[n], f[m]>> \notin order

LEMMA Arranging ==
    ASSUME NEW S, IsFiniteSet(S), NEW order, StrictlyOrders(S, order), NEW list
    PROVE  \E f : ArrangedBy(f, list, S, order)
  <1> DEFINE size == Cardinality(S)
             rank == [k \in S |-> Rank(k, S, order)]
             f == [n \in 1 .. size |-> CHOOSE k \in S : Rank(k, S, order) = n]
  <1>0. size \in Nat
    BY FS_CardinalityType
  <1>1. rank \in [S -> 1 .. size]
    BY RankBounds
  <1>2. \A j, k \in S : <<j, k>> \in order => rank[j] < rank[k]
    BY RankFollowsOrder
  <1>3. \A j, k \in S : rank[j] = rank[k] => j = k
    <2> SUFFICES ASSUME NEW j \in S, NEW k \in S, j # k PROVE rank[j] # rank[k]
      OBVIOUS
    <2>1. rank[j] < rank[k] \/ rank[k] < rank[j]
      BY <1>2 DEF StrictlyOrders
    <2>2. rank[j] \in Int /\ rank[k] \in Int
      BY <1>1, <1>0
    <2> HIDE DEF rank
    <2> QED
      BY <2>1, <2>2
  <1>4. rank \in Injection(S, 1 .. size)
    BY <1>1, <1>3 DEF Injection, IsInjective
  <1>5. IsFiniteSet(1 .. size) /\ Cardinality(1 .. size) = size
    BY <1>0, FS_Interval
  <1>6. rank \in Surjection(S, 1 .. size)
    BY <1>4, <1>5, FS_Injection
  <1>7. \A n \in 1 .. size : \E k \in S : rank[k] = n
    BY <1>6 DEF Surjection
  <1>8. \A n \in 1 .. size : f[n] \in S /\ rank[f[n]] = n
    BY <1>7
  <1>9. f \in [1 .. size -> S]
    BY <1>8
  <1>10. \A n \in 1 .. size : Arranged(list, S, order)[n] = list[f[n]]
    BY DEF Arranged
  <1>11. \A k \in S : f[rank[k]] = k
    BY <1>1, <1>3, <1>8
  <1>12. \A k \in S : \E n \in 1 .. size : f[n] = k
    BY <1>1, <1>11
  <1>13. ASSUME NEW m \in 1 .. size, NEW n \in 1 .. size, m < n
         PROVE  f[m] # f[n] /\ <<f[n], f[m]>> \notin order
    <2>1. f[m] \in S /\ f[n] \in S /\ rank[f[m]] = m /\ rank[f[n]] = n
      BY <1>8
    <2>2. ~(n < m) /\ m # n
      BY <1>0, <1>13
    <2> HIDE DEF rank, f
    <2> QED
      BY <2>1, <2>2, <1>2
  <1>14. ArrangedBy(f, list, S, order)
    <2> HIDE DEF f
    <2> QED
      BY <1>9, <1>10, <1>12, <1>13 DEF ArrangedBy
  <1> QED
    BY <1>14
-----------------------------------------------------------------------------
(* The transcript.                                                         *)

\* What a copy of a message says of it.
Correct(message) == /\ message \in Message
                    /\ message.is \in DOMAIN talk
                    /\ message.source = talk[message.is].source
                    /\ message.at \in {NoTime, message.is}

Talk == \A n \in DOMAIN talk :
    /\ talk[n].is = n /\ talk[n].at = n
    /\ talk[n].source \in {n, NoSource}

Copies == /\ \A k \in DOMAIN store : Correct(store[k])
          /\ \A k \in DOMAIN snapshot : Correct(snapshot[k])

ReadOnce == \A j, k \in DOMAIN snapshot : snapshot[j].is = snapshot[k].is => j = k

OnceEach == \A j, k \in DOMAIN store :
    store[j].source # NoSource /\ store[j].is = store[k].is => j = k

KnownStored == \A n \in known :
    talk[n].source # NoSource => \E k \in DOMAIN store : store[k].is = n

StoreInv == /\ StoreTypeOK /\ Talk /\ Copies /\ ReadOnce
            /\ OnceEach /\ KnownStored /\ OrderFollowsTime

\* A message with an id is named by it.
LEMMA NamedById ==
    ASSUME Talk, NEW message, Correct(message), message.source # NoSource
    PROVE  message.source = message.is
  BY DEF Talk, Correct

\* What is at the top of a snapshot and matches the end of the table.
LEMMA OverlapMatches ==
    ASSUME NEW kept \in Seq(Message), NEW shown \in Seq(Message)
    PROVE  /\ Overlap(kept, shown) \in 0 .. Len(shown)
           /\ Overlap(kept, shown) <= Len(kept)
           /\ \A k \in 1 .. Overlap(kept, shown) :
                 Matches(kept[Len(kept) - Overlap(kept, shown) + k], shown[k])
  <1> DEFINE smaller == Min({Len(kept), Len(shown)})
             Fits(n) == \A k \in 1 .. n : Matches(kept[Len(kept) - n + k], shown[k])
             fitting == {0} \cup {n \in 1 .. smaller : Fits(n)}
  <1>1. Len(kept) \in Nat /\ Len(shown) \in Nat
    OBVIOUS
  <1>2. smaller \in Nat /\ smaller <= Len(kept) /\ smaller <= Len(shown)
    <2>1. CASE Len(kept) <= Len(shown)
      <3>1. \A y \in {Len(kept), Len(shown)} : Len(kept) <= y
        BY <1>1, <2>1
      <3>2. smaller \in {Len(kept), Len(shown)} /\ smaller <= Len(kept) /\ smaller <= Len(shown)
        BY <3>1 DEF Min
      <3> QED
        BY <1>1, <3>2
    <2>2. CASE Len(shown) <= Len(kept)
      <3>1. \A y \in {Len(kept), Len(shown)} : Len(shown) <= y
        BY <1>1, <2>2
      <3>2. smaller \in {Len(kept), Len(shown)} /\ smaller <= Len(kept) /\ smaller <= Len(shown)
        BY <3>1 DEF Min
      <3> QED
        BY <1>1, <3>2
    <2> QED
      BY <1>1, <2>1, <2>2
  <1> HIDE DEF smaller, Fits
  <1>3. fitting \in SUBSET Nat /\ fitting # {} /\ \A n \in fitting : n <= smaller
    BY <1>2
  <1>4. Max(fitting) \in fitting
    BY <1>2, <1>3, LargestIn
  <1>5. Overlap(kept, shown) = Max(fitting)
    BY DEF Overlap, smaller, Fits
  <1>6. CASE Max(fitting) = 0
    <2> HIDE DEF fitting
    <2>1. Overlap(kept, shown) = 0 /\ 1 .. 0 = {}
      BY <1>5, <1>6
    <2> QED
      BY <1>1, <2>1
  <1>7. CASE Max(fitting) \in 1 .. smaller /\ Fits(Max(fitting))
    <2> DEFINE most == Max(fitting)
    <2>1. most \in 1 .. Len(shown) /\ most <= Len(kept)
      BY <1>1, <1>2, <1>7
    <2> HIDE DEF most, fitting
    <2>2. \A k \in 1 .. most : Matches(kept[Len(kept) - most + k], shown[k])
      BY <1>7 DEF Fits, most
    <2>3. Overlap(kept, shown) = most
      BY <1>5 DEF most
    <2> QED
      BY <1>1, <2>1, <2>2, <2>3
  <1> QED
    BY <1>4, <1>6, <1>7

\* A row keeps the message it is of when it takes over what is shown now.
LEMMA UpdatedRows ==
    ASSUME StoreInv
    PROVE  /\ Updated(store, snapshot) \in Seq(Message)
           /\ Len(Updated(store, snapshot)) = Len(store)
           /\ \A k \in DOMAIN store :
                 /\ Correct(Updated(store, snapshot)[k])
                 /\ Updated(store, snapshot)[k].is = store[k].is
  <1> DEFINE updated == Updated(store, snapshot)
  <1>1. store \in Seq(Message) /\ snapshot \in Seq(Message)
    BY DEF StoreInv, StoreTypeOK
  <1>2. updated = [n \in DOMAIN store |-> updated[n]] /\ DOMAIN store = 1 .. Len(store)
    BY <1>1 DEF Updated
  <1>3. ASSUME NEW k \in DOMAIN store
        PROVE  Correct(updated[k]) /\ updated[k].is = store[k].is
    <2>1. Correct(store[k])
      BY DEF StoreInv, Copies
    <2>2. CASE store[k].source \in SourcesOf(snapshot)
      <3>1. PICK n \in DOMAIN snapshot : store[k].source = snapshot[n].source
        BY <2>2 DEF SourcesOf
      <3>2. updated[k] = CHOOSE message \in ToSet(snapshot) : message.source = store[k].source
        BY <2>2 DEF Updated
      <3>3. updated[k] \in ToSet(snapshot) /\ updated[k].source = store[k].source
        BY <3>1, <3>2 DEF ToSet
      <3>4. Correct(updated[k])
        BY <3>3 DEF ToSet, StoreInv, Copies
      <3>5. store[k].source # NoSource
        BY <2>2 DEF SourcesOf
      <3> QED
        BY <2>1, <3>3, <3>4, <3>5, NamedById DEF StoreInv
    <2>3. CASE store[k].source \notin SourcesOf(snapshot)
      BY <2>1, <2>3 DEF Updated
    <2> QED
      BY <2>2, <2>3
  <1>4. \A k \in 1 .. Len(store) : updated[k] \in Message
    BY <1>2, <1>3 DEF Correct
  <1>5. Len(store) \in Nat
    BY <1>1
  <1> HIDE DEF updated
  <1>6. updated \in Seq(Message) /\ Len(updated) = Len(store)
    BY <1>2, <1>4, <1>5, LenProperties
  <1> QED
    BY <1>3, <1>6 DEF updated

\* What is appended is shown behind the overlap and in no row yet.
LEMMA FreshRows ==
    ASSUME StoreInv
    PROVE  /\ Fresh(store, snapshot) \in Seq(Message)
           /\ \E f \in [1 .. Len(Fresh(store, snapshot)) -> New(store, snapshot)] :
                 /\ \A n \in 1 .. Len(Fresh(store, snapshot)) :
                       Fresh(store, snapshot)[n] = snapshot[f[n]]
                 /\ \A k \in New(store, snapshot) :
                       \E n \in 1 .. Len(Fresh(store, snapshot)) : f[n] = k
                 /\ \A m, n \in 1 .. Len(Fresh(store, snapshot)) : f[m] = f[n] => m = n
  <1> DEFINE newer == Fresh(store, snapshot)
             new == New(store, snapshot)
             order == AsShown(store, snapshot)
             size == Cardinality(new)
  <1>1. store \in Seq(Message) /\ snapshot \in Seq(Message)
    BY DEF StoreInv, StoreTypeOK
  <1>2. Overlap(store, snapshot) \in Nat /\ Len(snapshot) \in Nat
    BY <1>1, OverlapMatches
  <1>3. new \in SUBSET (1 .. Len(snapshot))
    BY <1>2 DEF New
  <1>4. IsFiniteSet(new) /\ size \in Nat
    <2>1. 1 \in Int /\ Len(snapshot) \in Int
      BY <1>2
    <2>2. IsFiniteSet(1 .. Len(snapshot))
      BY <2>1, FS_Interval
    <2> QED
      BY <1>3, <2>2, FS_Subset, FS_CardinalityType
  <1>5. StrictlyOrders(new, order)
    <2>1. \A j, k \in new : <<j, k>> \in order <=> j < k
      BY DEF AsShown
    <2>2. \A k \in new : k \in Nat
      BY <1>2, <1>3
    <2> HIDE DEF order, new
    <2> QED
      BY <2>1, <2>2 DEF StrictlyOrders
  <1>6. PICK f : ArrangedBy(f, snapshot, new, order)
    BY <1>4, <1>5, Arranging
  <1>7. /\ f \in [1 .. size -> new]
        /\ \A n \in 1 .. size : newer[n] = snapshot[f[n]]
        /\ \A k \in new : \E n \in 1 .. size : f[n] = k
        /\ \A m, n \in 1 .. size : m < n => f[m] # f[n]
    BY <1>6 DEF ArrangedBy, Fresh
  <1>0. newer = [n \in 1 .. size |-> newer[n]]
    BY DEF Fresh, Arranged
  <1> HIDE DEF newer, new, order, size
  <1>8. \A n \in 1 .. size : snapshot[f[n]] \in Message
    BY <1>1, <1>3, <1>7, ElementOfSeq
  <1>9. newer \in Seq(Message) /\ Len(newer) = size
    <2>1. \A n \in 1 .. size : newer[n] \in Message
      BY <1>7, <1>8
    <2> QED
      BY <1>0, <1>4, <2>1, LenProperties
  <1>10. \A m, n \in 1 .. size : f[m] = f[n] => m = n
    <2> SUFFICES ASSUME NEW m \in 1 .. size, NEW n \in 1 .. size, m # n PROVE f[m] # f[n]
      OBVIOUS
    <2>1. m < n \/ n < m
      BY <1>4
    <2> QED
      BY <1>7, <2>1
  <1>11. \A n \in 1 .. size : newer[n] = snapshot[f[n]]
    BY <1>7
  <1> QED
    BY <1>7, <1>9, <1>10, <1>11 DEF newer, new

\* Every row the table has before it is put in order: those of before, brought up
\* to date, and the new ones.
Joined == Updated(store, snapshot) \o Fresh(store, snapshot)

LEMMA AllRows ==
    ASSUME StoreInv
    PROVE  /\ Joined \in Seq(Message)
           /\ \A k \in DOMAIN Joined : Correct(Joined[k])
           /\ \A j, k \in DOMAIN Joined :
                 Joined[j].source # NoSource /\ Joined[j].is = Joined[k].is => j = k
           /\ \A k \in DOMAIN store : \E n \in DOMAIN Joined : Joined[n].is = store[k].is
           /\ \A k \in DOMAIN snapshot : snapshot[k].source # NoSource =>
                 \E n \in DOMAIN Joined : Joined[n].is = snapshot[k].is
  <1> DEFINE updated == Updated(store, snapshot)
             newer == Fresh(store, snapshot)
             new == New(store, snapshot)
             old == Len(store)
             added == Len(newer)
  <1>1. /\ updated \in Seq(Message) /\ Len(updated) = old
        /\ \A k \in DOMAIN store : Correct(updated[k]) /\ updated[k].is = store[k].is
    BY UpdatedRows
  <1>2. newer \in Seq(Message)
    BY FreshRows
  <1>3. PICK f \in [1 .. added -> new] :
            /\ \A n \in 1 .. added : newer[n] = snapshot[f[n]]
            /\ \A k \in new : \E n \in 1 .. added : f[n] = k
            /\ \A m, n \in 1 .. added : f[m] = f[n] => m = n
    BY FreshRows
  <1>4. store \in Seq(Message) /\ snapshot \in Seq(Message)
    BY DEF StoreInv, StoreTypeOK
  <1>5. /\ old \in Nat /\ DOMAIN store = 1 .. old
        /\ added \in Nat
        /\ Len(snapshot) \in Nat /\ DOMAIN snapshot = 1 .. Len(snapshot)
    BY <1>2, <1>4, LenProperties
  <1>6. Overlap(store, snapshot) \in 0 .. Len(snapshot)
    BY <1>4, OverlapMatches
  <1>7. \A k \in new : k \in DOMAIN snapshot /\ snapshot[k].source \notin SourcesOf(store)
    BY <1>5, <1>6 DEF New
  <1>8. \A n \in 1 .. added : f[n] \in new
    BY <1>3
  <1>0. Joined = updated \o newer
    BY DEF Joined
  <1> HIDE DEF updated, newer, new, old, added
  <1>9. /\ Joined \in Seq(Message) /\ Len(Joined) = old + added
        /\ \A n \in 1 .. old + added :
              Joined[n] = IF n <= old THEN updated[n] ELSE newer[n - old]
    BY <1>0, <1>1, <1>2, ConcatProperties DEF added
  <1>10. DOMAIN Joined = 1 .. old + added
    BY <1>9, LenProperties
  <1>11. \A n \in 1 .. old : n \in DOMAIN store /\ n \in DOMAIN Joined /\ Joined[n] = updated[n]
    BY <1>5, <1>9, <1>10
  <1>12. \A n \in 1 .. added : n + old \in DOMAIN Joined /\ Joined[n + old] = newer[n]
    <2> SUFFICES ASSUME NEW n \in 1 .. added
                 PROVE  n + old \in DOMAIN Joined /\ Joined[n + old] = newer[n]
      OBVIOUS
    <2>1. n + old \in 1 .. old + added /\ ~(n + old <= old) /\ (n + old) - old = n
      BY <1>5
    <2> QED
      BY <1>9, <1>10, <2>1
  <1>13. ASSUME NEW k \in DOMAIN Joined
         PROVE  \/ k \in 1 .. old /\ Joined[k] = updated[k]
                \/ \E n \in 1 .. added : k = n + old /\ Joined[k] = newer[n]
    <2>1. k \in 1 .. old + added
      BY <1>10
    <2>2. CASE k <= old
      BY <1>5, <1>9, <2>1, <2>2
    <2>3. CASE ~(k <= old)
      <3>1. k - old \in 1 .. added /\ k = (k - old) + old
        BY <1>5, <2>1, <2>3
      <3> QED
        BY <1>9, <2>1, <2>3, <3>1
    <2> QED
      BY <2>2, <2>3
  <1>14. \A n \in 1 .. added : Correct(newer[n])
    BY <1>3, <1>7, <1>8 DEF StoreInv, Copies
  <1>15. \A k \in DOMAIN Joined : Correct(Joined[k])
    BY <1>1, <1>5, <1>13, <1>14
  <1>16. ASSUME NEW j \in DOMAIN Joined, NEW k \in DOMAIN Joined,
                Joined[j].source # NoSource, Joined[j].is = Joined[k].is
         PROVE  j = k
    <2>0. Joined[k].source = Joined[j].source
      BY <1>15, <1>16 DEF Correct
    <2>1. \A n \in 1 .. old : Correct(store[n]) /\ store[n].is = updated[n].is
                                /\ store[n].source = updated[n].source
      BY <1>1, <1>5 DEF StoreInv, Copies, Correct
    <2>2. ASSUME NEW m \in 1 .. old, NEW n \in 1 .. added,
                 updated[m].source # NoSource, updated[m].is = newer[n].is
          PROVE  FALSE
      <3>1. Correct(newer[n]) /\ newer[n].source \notin SourcesOf(store)
        BY <1>3, <1>7, <1>8, <1>14
      <3>2. newer[n].source = updated[m].source
        BY <2>1, <2>2, <3>1 DEF Correct
      <3> QED
        BY <1>5, <2>1, <2>2, <3>1, <3>2 DEF SourcesOf
    <2>3. CASE j \in 1 .. old /\ k \in 1 .. old
      BY <1>5, <1>11, <1>16, <2>1, <2>3 DEF StoreInv, OnceEach
    <2>4. ASSUME NEW m \in 1 .. added, NEW n \in 1 .. added,
                 j = m + old, k = n + old, Joined[j] = newer[m], Joined[k] = newer[n]
          PROVE  j = k
      <3>1. f[m] = f[n]
        BY <1>3, <1>7, <1>8, <1>16, <2>4 DEF StoreInv, ReadOnce
      <3> QED
        BY <1>3, <2>4, <3>1
    <2>5. CASE j \in 1 .. old /\ Joined[j] = updated[j]
      BY <1>13, <1>16, <2>2, <2>3, <2>5
    <2>6. CASE k \in 1 .. old /\ Joined[k] = updated[k]
      BY <1>13, <1>16, <2>0, <2>2, <2>3, <2>6
    <2> QED
      BY <1>13, <2>4, <2>5, <2>6
  <1>17. \A k \in DOMAIN store : \E n \in DOMAIN Joined : Joined[n].is = store[k].is
    BY <1>1, <1>5, <1>11
  <1>18. ASSUME NEW k \in DOMAIN snapshot, snapshot[k].source # NoSource
         PROVE  \E n \in DOMAIN Joined : Joined[n].is = snapshot[k].is
    <2>0. Correct(snapshot[k])
      BY DEF StoreInv, Copies
    <2>1. CASE \E j \in DOMAIN store : store[j].source = snapshot[k].source
      <3>1. PICK j \in DOMAIN store : store[j].source = snapshot[k].source
        BY <2>1
      <3>2. Correct(store[j])
        BY DEF StoreInv, Copies
      <3>3. store[j].is = snapshot[k].is
        BY <1>18, <2>0, <3>1, <3>2, NamedById DEF StoreInv
      <3> QED
        BY <1>17, <3>3
    <2>2. CASE k \in new
      BY <1>3, <1>12, <2>2
    <2>3. ASSUME k \in 1 .. Overlap(store, snapshot)
          PROVE  \E j \in DOMAIN store : store[j].source = snapshot[k].source
      <3> DEFINE most == Overlap(store, snapshot)
                 j == Len(store) - most + k
      <3>1. Matches(store[j], snapshot[k])
        BY <1>4, <2>3, OverlapMatches
      <3>2. most \in Nat /\ most <= Len(store) /\ k \in 1 .. most
        BY <1>4, <1>5, <1>6, <2>3, OverlapMatches
      <3>3. j \in DOMAIN store
        <4> HIDE DEF most
        <4> QED
          BY <1>5, <3>2 DEF old
      <3> QED
        BY <1>18, <3>1, <3>3 DEF Matches
    <2>4. CASE k \notin 1 .. Overlap(store, snapshot)
      <3>1. k \in Overlap(store, snapshot) + 1 .. Len(snapshot)
        BY <1>5, <1>6, <2>4
      <3>2. k \in new \/ snapshot[k].source \in SourcesOf(store)
        BY <3>1 DEF new, New
      <3> QED
        BY <2>1, <2>2, <3>2 DEF SourcesOf
    <2> QED
      BY <2>1, <2>3, <2>4
  <1> QED
    BY <1>9, <1>15, <1>16, <1>17, <1>18

LEMMA CarriedTime ==
    ASSUME NEW all \in Seq(Message), NEW k \in DOMAIN all
    PROVE  /\ Carried(all, k) \in Nat
           /\ all[k].at # NoTime => Carried(all, k) = all[k].at
  <1> DEFINE timed == {n \in 1 .. k : all[n].at # NoTime}
  <1>1. DOMAIN all = 1 .. Len(all) /\ Len(all) \in Nat
    BY LenProperties
  <1>2. k \in Nat /\ \A n \in 1 .. k : n \in DOMAIN all
    BY <1>1
  <1>3. \A n \in DOMAIN all : all[n].at \in Nat
    <2>1. \A n \in DOMAIN all : all[n] \in Message
      BY <1>1, ElementOfSeq
    <2> QED
      BY <2>1, StoreAssumption DEF Message
  <1>4. Carried(all, k) = IF timed = {} THEN NoTime ELSE all[Max(timed)].at
    BY DEF Carried
  <1>5. timed \in SUBSET Nat /\ \A n \in timed : n <= k
    BY <1>2
  <1>6. timed # {} => Max(timed) \in timed /\ \A n \in timed : n <= Max(timed)
    BY <1>2, <1>5, LargestIn
  <1>7. Carried(all, k) \in Nat
    BY <1>2, <1>3, <1>4, <1>6 DEF NoTime
  <1>8. ASSUME all[k].at # NoTime
        PROVE  Carried(all, k) = all[k].at
    <2>1. k \in timed
      BY <1>1, <1>8
    <2>2. timed # {} /\ Max(timed) \in Nat /\ Max(timed) <= k /\ k <= Max(timed)
      BY <1>5, <1>6, <2>1
    <2>3. Max(timed) = k
      <3> HIDE DEF timed
      <3> QED
        BY <1>2, <2>2
    <2> QED
      BY <1>4, <2>2, <2>3
  <1> QED
    BY <1>7, <1>8

\* Putting the rows in order keeps each of them, and known times end up ascending.
LEMMA InOrder ==
    ASSUME NEW all \in Seq(Message)
    PROVE  /\ Resequenced(all) \in Seq(Message)
           /\ Len(Resequenced(all)) = Len(all)
           /\ \E f \in [DOMAIN all -> DOMAIN all] :
                 /\ \A n \in DOMAIN all : Resequenced(all)[n] = all[f[n]]
                 /\ \A k \in DOMAIN all : \E n \in DOMAIN all : f[n] = k
                 /\ \A m, n \in DOMAIN all : f[m] = f[n] => m = n
                 /\ \A m, n \in DOMAIN all :
                       /\ m < n /\ all[f[m]].at # NoTime /\ all[f[n]].at # NoTime
                       => all[f[m]].at <= all[f[n]].at
  <1> DEFINE places == DOMAIN all
             order == Earlier(all)
             c == [k \in places |-> Carried(all, k)]
  <1>1. places = 1 .. Len(all) /\ Len(all) \in Nat
    BY LenProperties
  <1>2. IsFiniteSet(places) /\ Cardinality(places) = Len(all)
    <2>1. 1 \in Int /\ Len(all) \in Int /\ (1 > Len(all) => Len(all) = 0) /\ Len(all) - 1 + 1 = Len(all)
      BY <1>1
    <2> HIDE DEF places
    <2>2. IsFiniteSet(1 .. Len(all))
      BY <2>1, FS_Interval
    <2>3. Cardinality(1 .. Len(all)) = Len(all)
      BY <2>1, FS_Interval
    <2> QED
      BY <1>1, <2>2, <2>3
  <1>3. \A k \in places : c[k] \in Nat
    BY CarriedTime
  <1>4. \A j, k \in places : <<j, k>> \in order <=> c[j] < c[k] \/ (c[j] = c[k] /\ j < k)
    BY DEF Earlier
  <1>5. StrictlyOrders(places, order)
    <2>1. \A k \in places : k \in Nat
      BY <1>1
    <2> HIDE DEF places, order, c
    <2>2. \A k \in places : <<k, k>> \notin order
      BY <1>3, <1>4, <2>1
    <2>3. \A j, k \in places : j # k => <<j, k>> \in order \/ <<k, j>> \in order
      BY <1>3, <1>4, <2>1
    <2>4. ASSUME NEW i \in places, NEW j \in places, NEW k \in places,
                 <<i, j>> \in order, <<j, k>> \in order
          PROVE  <<i, k>> \in order
      <3>1. c[i] \in Nat /\ c[j] \in Nat /\ c[k] \in Nat /\ i \in Nat /\ j \in Nat /\ k \in Nat
        BY <1>3, <2>1
      <3>2. /\ c[i] < c[j] \/ (c[i] = c[j] /\ i < j)
            /\ c[j] < c[k] \/ (c[j] = c[k] /\ j < k)
        BY <1>4, <2>4
      <3>3. c[i] < c[k] \/ (c[i] = c[k] /\ i < k)
        BY <3>1, <3>2
      <3> QED
        BY <1>4, <3>3
    <2> QED
      BY <2>2, <2>3, <2>4 DEF StrictlyOrders
  <1>6. Resequenced(all) = Arranged(all, places, order)
    BY DEF Resequenced
  <1>7. PICK f : ArrangedBy(f, all, places, order)
    <2> HIDE DEF places, order, c
    <2> QED
      BY <1>2, <1>5, Arranging
  <1>7f. /\ f \in [1 .. Len(all) -> places]
         /\ \A n \in 1 .. Len(all) : Arranged(all, places, order)[n] = all[f[n]]
         /\ \A k \in places : \E n \in 1 .. Len(all) : f[n] = k
         /\ \A m, n \in 1 .. Len(all) :
               m < n => f[m] # f[n] /\ <<f[n], f[m]>> \notin order
    <2> HIDE DEF places, order, c
    <2> QED
      BY <1>2, <1>7 DEF ArrangedBy
  <1>8. \A n \in places : Resequenced(all)[n] = all[f[n]] /\ f[n] \in places
    BY <1>1, <1>6, <1>7f
  <1>9. \A n \in places : all[f[n]] \in Message
    BY <1>1, <1>8, ElementOfSeq
  <1>10. Resequenced(all) \in Seq(Message) /\ Len(Resequenced(all)) = Len(all)
    <2>1. Resequenced(all) = [n \in 1 .. Len(all) |-> Resequenced(all)[n]]
      BY <1>2 DEF Resequenced, Arranged
    <2>2. \A n \in 1 .. Len(all) : Resequenced(all)[n] \in Message
      BY <1>1, <1>8, <1>9
    <2> HIDE DEF places, order, c
    <2> QED
      BY <1>1, <2>1, <2>2
  <1>11. \A m, n \in places : f[m] = f[n] => m = n
    <2> SUFFICES ASSUME NEW m \in places, NEW n \in places, m # n PROVE f[m] # f[n]
      OBVIOUS
    <2>1. m < n \/ n < m
      BY <1>1
    <2> HIDE DEF order
    <2> QED
      BY <1>1, <1>7f, <2>1
  <1>12. ASSUME NEW m \in places, NEW n \in places, m < n,
                all[f[m]].at # NoTime, all[f[n]].at # NoTime
         PROVE  all[f[m]].at <= all[f[n]].at
    <2>1. f[m] \in places /\ f[n] \in places /\ <<f[n], f[m]>> \notin order
      BY <1>1, <1>7f, <1>12
    <2>2. ~(c[f[n]] < c[f[m]])
      BY <1>4, <2>1
    <2>3. c[f[m]] = all[f[m]].at /\ c[f[n]] = all[f[n]].at
      BY <1>12, <2>1, CarriedTime
    <2>4. c[f[m]] \in Nat /\ c[f[n]] \in Nat
      BY <1>3, <2>1
    <2> HIDE DEF c
    <2> QED
      BY <2>2, <2>3, <2>4
  <1>13. \A k \in places : \E n \in places : f[n] = k
    BY <1>1, <1>7f
  <1>14. f \in [places -> places]
    BY <1>1, <1>7f
  <1> QED
    BY <1>8, <1>10, <1>11, <1>12, <1>13, <1>14

\* The whole transaction.
LEMMA PersistInv ==
    ASSUME StoreInv, PersistThread
    PROVE  /\ StoreInv'
           /\ \A k \in DOMAIN store : \E n \in DOMAIN store' : store'[n].is = store[k].is
           /\ \A k \in DOMAIN snapshot : snapshot[k].source # NoSource =>
                 \E n \in DOMAIN store' : store'[n].is = snapshot[k].is
  <1>1. /\ Joined \in Seq(Message)
        /\ \A k \in DOMAIN Joined : Correct(Joined[k])
        /\ \A j, k \in DOMAIN Joined :
              Joined[j].source # NoSource /\ Joined[j].is = Joined[k].is => j = k
        /\ \A k \in DOMAIN store : \E n \in DOMAIN Joined : Joined[n].is = store[k].is
        /\ \A k \in DOMAIN snapshot : snapshot[k].source # NoSource =>
              \E n \in DOMAIN Joined : Joined[n].is = snapshot[k].is
    BY AllRows
  <1>2. store' = Resequenced(Joined)
    BY DEF PersistThread, Persisted, Joined
  <1>3. store' \in Seq(Message) /\ Len(store') = Len(Joined)
    BY <1>1, <1>2, InOrder
  <1>4. DOMAIN store' = DOMAIN Joined /\ DOMAIN Joined = 1 .. Len(Joined) /\ Len(Joined) \in Nat
    BY <1>1, <1>3, LenProperties
  <1>5. PICK f \in [DOMAIN Joined -> DOMAIN Joined] :
            /\ \A n \in DOMAIN Joined : store'[n] = Joined[f[n]]
            /\ \A k \in DOMAIN Joined : \E n \in DOMAIN Joined : f[n] = k
            /\ \A m, n \in DOMAIN Joined : f[m] = f[n] => m = n
            /\ \A m, n \in DOMAIN Joined :
                  /\ m < n /\ Joined[f[m]].at # NoTime /\ Joined[f[n]].at # NoTime
                  => Joined[f[m]].at <= Joined[f[n]].at
    BY <1>1, <1>2, InOrder
  <1>6. talk' = talk /\ snapshot' = <<>>
        /\ known' = known \cup {snapshot[n].is : n \in DOMAIN snapshot}
    BY DEF PersistThread
  <1>7. \A n \in DOMAIN store' : f[n] \in DOMAIN Joined /\ Correct(store'[n])
    BY <1>1, <1>4, <1>5
  <1>8. \A k \in DOMAIN store : \E n \in DOMAIN store' : store'[n].is = store[k].is
    BY <1>1, <1>4, <1>5
  <1>9. \A k \in DOMAIN snapshot : snapshot[k].source # NoSource =>
           \E n \in DOMAIN store' : store'[n].is = snapshot[k].is
    BY <1>1, <1>4, <1>5
  <1>10. Talk' /\ Copies'
    <2>1. DOMAIN snapshot' = {}
      BY <1>6
    <2>2. Talk'
      BY <1>6 DEF StoreInv, Talk
    <2>3. Copies'
      BY <1>6, <1>7, <2>1 DEF Copies, Correct
    <2> QED
      BY <2>2, <2>3
  <1>11. OnceEach'
    <2> SUFFICES ASSUME NEW j \in DOMAIN store', NEW k \in DOMAIN store',
                        store'[j].source # NoSource, store'[j].is = store'[k].is
                 PROVE  j = k
      BY DEF OnceEach
    <2>1. j \in DOMAIN Joined /\ k \in DOMAIN Joined /\ f[j] \in DOMAIN Joined /\ f[k] \in DOMAIN Joined
      BY <1>4, <1>7
    <2>2. store'[j] = Joined[f[j]] /\ store'[k] = Joined[f[k]]
      BY <1>5, <2>1
    <2>3. f[j] = f[k]
      BY <1>1, <2>1, <2>2
    <2> QED
      BY <1>5, <2>1, <2>3
  <1>12. KnownStored'
    <2> SUFFICES ASSUME NEW n \in known', talk[n].source # NoSource
                 PROVE  \E k \in DOMAIN store' : store'[k].is = n
      BY <1>6 DEF KnownStored
    <2>1. CASE n \in known
      BY <1>8, <2>1 DEF StoreInv, KnownStored
    <2>2. CASE n \in {snapshot[k].is : k \in DOMAIN snapshot}
      <3>1. PICK k \in DOMAIN snapshot : n = snapshot[k].is
        BY <2>2
      <3>2. snapshot[k].source = talk[n].source
        BY <3>1 DEF StoreInv, Copies, Correct
      <3> QED
        BY <1>9, <3>1, <3>2
    <2> QED
      BY <1>6, <2>1, <2>2
  <1>13. OrderFollowsTime'
    <2> SUFFICES ASSUME NEW j \in DOMAIN store', NEW k \in DOMAIN store', j < k,
                        store'[j].source # NoSource, store'[k].source # NoSource,
                        store'[j].at # NoTime, store'[k].at # NoTime
                 PROVE  store'[j].is < store'[k].is
      BY DEF OrderFollowsTime
    <2>1. store'[j].at <= store'[k].at
      <3>1. /\ j \in DOMAIN Joined /\ k \in DOMAIN Joined
            /\ store'[j] = Joined[f[j]] /\ store'[k] = Joined[f[k]]
        BY <1>4, <1>5
      <3> QED
        BY <1>5, <3>1
    <2>2. store'[j].at = store'[j].is /\ store'[k].at = store'[k].is
      BY <1>7 DEF Correct
    <2>3. store'[j].is # store'[k].is
      <3>1. j # k
        BY <1>4
      <3>2. j \in DOMAIN Joined /\ k \in DOMAIN Joined
        BY <1>4
      <3> QED
        BY <1>11, <3>1 DEF OnceEach
    <2>4. store'[j].is \in Nat /\ store'[k].is \in Nat
      BY <1>7, StoreAssumption DEF Correct, Message
    <2> QED
      BY <2>1, <2>2, <2>3, <2>4
  <1>14. StoreTypeOK'
    <2>1. known' \subseteq DOMAIN talk
      BY <1>6, LenProperties DEF StoreInv, StoreTypeOK, Copies, Correct
    <2>2. talk \in Seq(Message) /\ Len(talk) <= MaxTalk /\ DOMAIN talk = 1 .. Len(talk)
      BY LenProperties DEF StoreInv, StoreTypeOK
    <2>3. snapshot' \in Seq(Message)
      BY <1>6
    <2> QED
      BY <1>3, <1>6, <2>1, <2>2, <2>3 DEF StoreTypeOK
  <1>15. ReadOnce'
    BY <1>6 DEF ReadOnce
  <1> QED
    BY <1>8, <1>9, <1>10, <1>11, <1>12, <1>13, <1>14, <1>15 DEF StoreInv

\* A crawl reads genuine copies, of each message once.
LEMMA ReadInv ==
    ASSUME StoreInv, NEW top \in DOMAIN talk, NEW undated \in {0, 1}, ReadThread(top, undated)
    PROVE  StoreInv'
  <1> DEFINE size == Len(talk) - top + 1
             Copy(message) == IF message.is > Len(talk) - undated
                              THEN [message EXCEPT !.at = NoTime] ELSE message
  <1>1. /\ talk \in Seq(Message) /\ DOMAIN talk = 1 .. Len(talk) /\ Len(talk) \in Nat
        /\ snapshot' = [n \in 1 .. size |-> Copy(talk[top + n - 1])]
        /\ talk' = talk /\ store' = store /\ known' = known
    BY LenProperties DEF StoreInv, StoreTypeOK, ReadThread
  <1>2. size \in Nat /\ \A n \in 1 .. size : top + n - 1 \in DOMAIN talk
    BY <1>1
  <1>3. ASSUME NEW n \in DOMAIN talk
        PROVE  /\ Correct(Copy(talk[n])) /\ Copy(talk[n]).is = n
    <2>1. talk[n] \in Message
      BY <1>1, ElementOfSeq
    <2>2. talk[n].is = n /\ talk[n].at = n
      BY DEF StoreInv, Talk
    <2>3. CASE n > Len(talk) - undated
      <3>1. Copy(talk[n]) = [talk[n] EXCEPT !.at = NoTime]
        BY <2>2, <2>3
      <3>2. NoTime \in 0 .. MaxTalk
        BY StoreAssumption DEF NoTime
      <3> HIDE DEF Copy
      <3>3. /\ Copy(talk[n]) \in Message /\ Copy(talk[n]).is = talk[n].is
            /\ Copy(talk[n]).source = talk[n].source /\ Copy(talk[n]).at = NoTime
        BY <2>1, <3>1, <3>2 DEF Message
      <3> QED
        BY <2>2, <3>3 DEF Correct
    <2>4. CASE ~(n > Len(talk) - undated)
      <3>1. Copy(talk[n]) = talk[n]
        BY <2>2, <2>4
      <3> QED
        BY <2>1, <2>2, <3>1 DEF Correct
    <2> QED
      BY <2>3, <2>4
  <1> HIDE DEF Copy, size
  <1>4. \A n \in 1 .. size : /\ Correct(snapshot'[n])
                             /\ snapshot'[n].is = top + n - 1
    BY <1>1, <1>2, <1>3
  <1>5. snapshot' \in Seq(Message) /\ DOMAIN snapshot' = 1 .. size
    <2>1. \A n \in 1 .. size : Copy(talk[top + n - 1]) \in Message
      BY <1>2, <1>3 DEF Correct
    <2> QED
      BY <1>1, <1>2, <2>1
  <1>6. Copies'
    BY <1>1, <1>4, <1>5 DEF StoreInv, Copies, Correct
  <1>7. ReadOnce'
    <2> SUFFICES ASSUME NEW j \in DOMAIN snapshot', NEW k \in DOMAIN snapshot',
                        snapshot'[j].is = snapshot'[k].is
                 PROVE  j = k
      BY DEF ReadOnce
    <2>1. top + j - 1 = top + k - 1
      BY <1>4, <1>5
    <2>2. j \in Int /\ k \in Int /\ top \in Int
      BY <1>1, <1>2, <1>5
    <2> QED
      BY <2>1, <2>2
  <1>8. StoreTypeOK' /\ Talk' /\ OnceEach' /\ KnownStored' /\ OrderFollowsTime'
    BY <1>1, <1>5 DEF StoreInv, StoreTypeOK, Talk, OnceEach, KnownStored, OrderFollowsTime
  <1> QED
    BY <1>6, <1>7, <1>8 DEF StoreInv

\* What is written later leaves every copy genuine.
LEMMA WriteInv ==
    ASSUME StoreInv, NEW sender \in Senders, NEW body \in Bodies, NEW sourced \in BOOLEAN,
           Write(sender, body, sourced)
    PROVE  StoreInv'
  <1> DEFINE n == Len(talk) + 1
             message == [is |-> n, sender |-> sender, body |-> body,
                         source |-> IF sourced THEN n ELSE NoSource, at |-> n]
  <1>1. talk \in Seq(Message) /\ DOMAIN talk = 1 .. Len(talk) /\ Len(talk) \in Nat
    BY LenProperties DEF StoreInv, StoreTypeOK
  <1>2. /\ talk' = Append(talk, message) /\ Len(talk) < MaxTalk
        /\ store' = store /\ snapshot' = snapshot /\ known' = known
    BY DEF Write
  <1>3. n \in 1 .. MaxTalk /\ n \in 0 .. MaxTalk /\ NoSource \in 0 .. MaxTalk
    BY <1>1, <1>2, StoreAssumption DEF NoSource
  <1>4. /\ message \in Message /\ message.is = n /\ message.at = n
        /\ message.source \in {n, NoSource}
    <2> HIDE DEF n
    <2> QED
      BY <1>3 DEF Message
  <1> HIDE DEF message
  <1>5. /\ talk' \in Seq(Message) /\ Len(talk') = n /\ talk'[n] = message
        /\ \A k \in DOMAIN talk : talk'[k] = talk[k]
    BY <1>1, <1>2, <1>4, AppendProperties
  <1>6. DOMAIN talk' = DOMAIN talk \cup {n} /\ n <= MaxTalk
    BY <1>1, <1>3, <1>5, LenProperties
  <1>7. Talk'
    BY <1>4, <1>5, <1>6 DEF StoreInv, Talk
  <1>8. Copies'
    BY <1>2, <1>5, <1>6 DEF StoreInv, Copies, Correct
  <1>9. KnownStored'
    BY <1>1, <1>2, <1>5 DEF StoreInv, StoreTypeOK, KnownStored
  <1>10. StoreTypeOK'
    BY <1>1, <1>2, <1>5, <1>6 DEF StoreInv, StoreTypeOK
  <1>11. ReadOnce' /\ OnceEach' /\ OrderFollowsTime'
    BY <1>2 DEF StoreInv, ReadOnce, OnceEach, OrderFollowsTime
  <1> QED
    BY <1>7, <1>8, <1>9, <1>10, <1>11 DEF StoreInv

LEMMA DropInv ==
    ASSUME StoreInv, snapshot' = <<>>, UNCHANGED <<talk, store, known>>
    PROVE  StoreInv'
  <1>1. DOMAIN snapshot' = {} /\ snapshot' \in Seq(Message)
    OBVIOUS
  <1> QED
    BY <1>1 DEF StoreInv, StoreTypeOK, Talk, Copies, Correct, ReadOnce, OnceEach,
                KnownStored, OrderFollowsTime

LEMMA StoreNextInv == StoreInv /\ [StoreNext]_storeVars => StoreInv'
  <1> SUFFICES ASSUME StoreInv, [StoreNext]_storeVars PROVE StoreInv'
    OBVIOUS
  <1>1. CASE Writes
    BY <1>1, WriteInv DEF Writes
  <1>2. ASSUME NEW top \in DOMAIN talk, NEW undated \in {0, 1}, ReadThread(top, undated)
        PROVE  StoreInv'
    BY <1>2, ReadInv
  <1>3. CASE PersistThread
    BY <1>3, PersistInv
  <1>4. CASE DropSnapshot
    BY <1>4, DropInv DEF DropSnapshot
  <1>5. CASE UNCHANGED storeVars
    BY <1>5 DEF storeVars, StoreInv, StoreTypeOK, Talk, Copies, Correct, ReadOnce, OnceEach,
                KnownStored, OrderFollowsTime
  <1> QED
    BY <1>1, <1>2, <1>3, <1>4, <1>5 DEF StoreNext, Crawl

LEMMA StoreInitInv == StoreInit => StoreInv
  <1> SUFFICES ASSUME StoreInit PROVE StoreInv
    OBVIOUS
  <1>1. DOMAIN talk = {} /\ DOMAIN store = {} /\ DOMAIN snapshot = {} /\ known = {}
    BY DEF StoreInit
  <1>2. StoreTypeOK
    BY StoreAssumption DEF StoreInit, StoreTypeOK
  <1> QED
    BY <1>1, <1>2 DEF StoreInv, Talk, Copies, ReadOnce, OnceEach, KnownStored, OrderFollowsTime

\* A message stored with its id has one row, not none and not two.
LEMMA OneRow == StoreInv => StoredOnce
  <1> SUFFICES ASSUME StoreInv, NEW n \in known, talk[n].source # NoSource
               PROVE  Cardinality({k \in DOMAIN store : store[k].is = n}) = 1
    BY DEF StoredOnce
  <1>1. PICK j \in DOMAIN store : store[j].is = n
    BY DEF StoreInv, KnownStored
  <1>2. store[j].source # NoSource
    BY <1>1 DEF StoreInv, Copies, Correct
  <1>3. {k \in DOMAIN store : store[k].is = n} = {j}
    BY <1>1, <1>2 DEF StoreInv, OnceEach
  <1> QED
    BY <1>3, FS_Singleton

\* However deep the crawls reach and in whatever order their snapshots are
\* stored, the rows of the transcript are genuine copies of the messages.
THEOREM StoreInvariance == StoreSpec => []StoreInv
  <1> QED
    BY StoreInitInv, StoreNextInv, PTL DEF StoreSpec

\* persist_thread_record: a message shown with its id is in the table once.
THEOREM NeitherLostNorDoubled == StoreSpec => []StoredOnce
  <1> QED
    BY StoreInvariance, OneRow, PTL

\* resequence_thread_by_time: seq follows the conversation.
THEOREM SeqFollowsTime == StoreSpec => []OrderFollowsTime
  <1>1. StoreInv => OrderFollowsTime
    BY DEF StoreInv
  <1> QED
    BY <1>1, StoreInvariance, PTL

-----------------------------------------------------------------------------
(* The MAS runner.                                                         *)

\* Which messages these are copies of.
Of(dialogue) == {dialogue[n].is : n \in DOMAIN dialogue}

Steps == {"rest", "claim", "llm", "outcome", "enqueue", "tell"}
Turns == [step : Steps, messages : Seq(Message), seq : Int]

\* A turn holds what the table held when it was read, each message once.
TurnRead == turn.step # "rest" =>
    /\ turn.messages # <<>> /\ Of(turn.messages) \subseteq Of(store)
    /\ \A j, k \in DOMAIN turn.messages : turn.messages[j].is = turn.messages[k].is => j = k
    /\ turn.step = "claim" => turn.seq < Len(turn.messages)

AllSourced == \A n \in DOMAIN talk : talk[n].source = n

\* The mark is below the number of messages claiming runs have had in front of
\* them, all of which the table has.
MarkBounded == seen \subseteq Of(store) /\ mark < Cardinality(seen)

MasInv == /\ StoreInv /\ MasTypeOK /\ turn \in Turns /\ Len(store) <= MaxRows
          /\ AllSourced /\ TurnRead /\ MarkBounded

-----------------------------------------------------------------------------

\* What the runner and the operator do leaves the transcript alone.
LEMMA MasStepOfStore == [MasInboxNext]_inboxVars => [StoreNext]_storeVars
  <1> SUFFICES ASSUME [MasInboxNext]_inboxVars PROVE [StoreNext]_storeVars
    OBVIOUS
  <1>1. CASE Runner
    BY <1>1 DEF Runner, RunnerGate, RunnerClaim, RunnerEscalates, RunnerText,
                RunnerOutcome, RunnerEnqueue, RunnerTell, RunnerDies
  <1>2. CASE Arrives
    BY <1>2 DEF Arrives, StoreNext, Writes
  <1>3. CASE Crawl
    BY <1>3 DEF StoreNext
  <1>4. CASE UNCHANGED storeVars
    BY <1>4
  <1> QED
    BY <1>1, <1>2, <1>3, <1>4 DEF MasInboxNext, inboxVars

\* No step takes a message out of the table.
LEMMA RowsStay ==
    ASSUME StoreInv, [StoreNext]_storeVars
    PROVE  Of(store) \subseteq Of(store')
  <1>1. CASE PersistThread
    BY <1>1, PersistInv DEF Of
  <1>2. CASE store' = store
    BY <1>2 DEF Of
  <1> QED
    BY <1>1, <1>2 DEF StoreNext, Writes, Write, Crawl, ReadThread, DropSnapshot, storeVars

LEMMA RowsBounded ==
    ASSUME Len(store) <= MaxRows, [StoreNext]_storeVars
    PROVE  Len(store') <= MaxRows
  BY DEF StoreNext, Writes, Write, Crawl, ReadThread, PersistThread, DropSnapshot, storeVars

\* Every message that arrives in this specification has its id.
LEMMA SourcedStay ==
    ASSUME StoreInv, AllSourced, [MasInboxNext]_inboxVars
    PROVE  AllSourced'
  <1>1. CASE UNCHANGED talk
    BY <1>1 DEF AllSourced
  <1>2. ASSUME NEW sender \in Senders, NEW body \in Bodies, Write(sender, body, TRUE)
        PROVE  AllSourced'
    <2> DEFINE n == Len(talk) + 1
               message == [is |-> n, sender |-> sender, body |-> body, source |-> n, at |-> n]
    <2>1. talk \in Seq(Message) /\ DOMAIN talk = 1 .. Len(talk) /\ Len(talk) \in Nat
      BY LenProperties DEF StoreInv, StoreTypeOK
    <2>2. talk' = Append(talk, message)
      BY <1>2 DEF Write
    <2>3. message.source = n
      OBVIOUS
    <2>4. DOMAIN talk' = 1 .. n
      BY <2>1, <2>2
    <2>5. \A k \in 1 .. n : talk'[k] = IF k = n THEN message ELSE talk[k]
      BY <2>1, <2>2
    <2> HIDE DEF message
    <2> QED
      BY <2>1, <2>3, <2>4, <2>5 DEF AllSourced
  <1>3. CASE Runner
    BY <1>1, <1>3 DEF Runner, RunnerGate, RunnerClaim, RunnerEscalates, RunnerText,
                RunnerOutcome, RunnerEnqueue, RunnerTell, RunnerDies, storeVars
  <1>4. CASE Arrives
    BY <1>2, <1>4 DEF Arrives
  <1>5. CASE Crawl
    BY <1>1, <1>5 DEF Crawl, ReadThread, PersistThread, DropSnapshot
  <1>6. CASE UNCHANGED storeVars
    BY <1>1, <1>6 DEF storeVars
  <1> QED
    BY <1>3, <1>4, <1>5, <1>6 DEF MasInboxNext, inboxVars

\* The newest turn of somebody stands among the messages.
LEMMA LastSaidBounds ==
    ASSUME NEW dialogue \in Seq(Message), NEW senders
    PROVE  LastSaid(dialogue, senders) \in 0 .. Len(dialogue)
  <1> DEFINE places == {0} \cup Said(dialogue, senders)
  <1>1. Len(dialogue) \in Nat /\ DOMAIN dialogue = 1 .. Len(dialogue)
    BY LenProperties
  <1>2. Said(dialogue, senders) \subseteq 1 .. Len(dialogue)
    BY <1>1 DEF Said
  <1>3. places \in SUBSET Nat /\ places # {} /\ \A n \in places : n <= Len(dialogue)
    BY <1>1, <1>2
  <1>4. Max(places) \in places
    BY <1>1, <1>3, LargestIn
  <1> HIDE DEF places
  <1>5. Max(places) \in Nat /\ Max(places) <= Len(dialogue)
    BY <1>3, <1>4
  <1>6. LastSaid(dialogue, senders) = Max(places)
    BY DEF LastSaid, places
  <1> QED
    BY <1>1, <1>5, <1>6

\* In a table of messages with ids each stands once.
LEMMA EachOnce ==
    ASSUME StoreInv, AllSourced, NEW j \in DOMAIN store, NEW k \in DOMAIN store,
           store[j].is = store[k].is
    PROVE  j = k
  <1>1. store[j].source # NoSource
    <2>1. store[j].is \in DOMAIN talk /\ store[j].source = talk[store[j].is].source
      BY DEF StoreInv, Copies, Correct
    <2>2. DOMAIN talk = 1 .. Len(talk) /\ Len(talk) \in Nat
      BY LenProperties DEF StoreInv, StoreTypeOK
    <2> QED
      BY <2>1, <2>2 DEF AllSourced, NoSource
  <1> QED
    BY <1>1 DEF StoreInv, OnceEach

\* As many messages as places, when each is there once; never more than places.
LEMMA HowMany ==
    ASSUME NEW dialogue \in Seq(Message)
    PROVE  /\ IsFiniteSet(Of(dialogue)) /\ Cardinality(Of(dialogue)) \in Nat
           /\ Cardinality(Of(dialogue)) <= Len(dialogue)
           /\ (\A j, k \in DOMAIN dialogue : dialogue[j].is = dialogue[k].is => j = k)
                => Cardinality(Of(dialogue)) = Len(dialogue)
  <1> DEFINE places == DOMAIN dialogue
             f == [n \in places |-> dialogue[n].is]
  <1>1. places = 1 .. Len(dialogue) /\ Len(dialogue) \in Nat
    BY LenProperties
  <1>2. IsFiniteSet(places) /\ Cardinality(places) = Len(dialogue)
    <2>1. 1 \in Int /\ Len(dialogue) \in Int
          /\ (1 > Len(dialogue) => Len(dialogue) = 0) /\ Len(dialogue) - 1 + 1 = Len(dialogue)
      BY <1>1
    <2>2. IsFiniteSet(1 .. Len(dialogue)) /\ Cardinality(1 .. Len(dialogue)) = Len(dialogue)
      BY <2>1, FS_Interval
    <2> QED
      BY <1>1, <2>2
  <1>3. f \in Surjection(places, Of(dialogue))
    BY DEF Surjection, Of
  <1>4. /\ IsFiniteSet(Of(dialogue))
        /\ Cardinality(Of(dialogue)) <= Cardinality(places)
        /\ Cardinality(Of(dialogue)) = Cardinality(places) <=> f \in Injection(places, Of(dialogue))
    <2> HIDE DEF f, places
    <2> QED
      BY <1>2, <1>3, FS_Surjection
  <1>5. ASSUME \A j, k \in places : dialogue[j].is = dialogue[k].is => j = k
        PROVE  f \in Injection(places, Of(dialogue))
    BY <1>5 DEF Injection, IsInjective, Of
  <1>6. Cardinality(Of(dialogue)) \in Nat
    BY <1>4, FS_CardinalityType
  <1> HIDE DEF f
  <1> QED
    BY <1>2, <1>4, <1>5, <1>6

\* A step that claims nothing, and reads nothing anew.
LEMMA TurnKept ==
    ASSUME MasInv, Of(store) \subseteq Of(store'), mark' = mark, seen' = seen,
           told' \in NoSeq .. MaxRows,
           \/ turn' \in {turn, Resting}
           \/ /\ turn.step # "rest" /\ turn' \in Turns /\ turn'.messages = turn.messages
              /\ turn'.step \in {"llm", "outcome", "enqueue", "tell"}
              /\ turn'.seq \in NoSeq .. MaxRows
    PROVE  MasTypeOK' /\ turn' \in Turns /\ TurnRead' /\ MarkBounded'
  <1>1. /\ MasTypeOK /\ turn \in Turns /\ TurnRead /\ MarkBounded
        /\ seen' \subseteq 1 .. MaxTalk /\ mark' \in NoSeq .. MaxRows
    BY DEF MasInv, MasTypeOK
  <1>2. MarkBounded'
    BY <1>1 DEF MarkBounded
  <1>3. CASE turn' = turn
    BY <1>1, <1>2, <1>3 DEF MasTypeOK, TurnRead
  <1>4. CASE turn' = Resting
    <2>1. NoSeq \in NoSeq .. MaxRows /\ NoSeq \in Int
      BY StoreAssumption DEF NoSeq
    <2>2. /\ turn'.step = "rest" /\ turn'.messages = <<>> /\ turn'.seq = NoSeq
          /\ turn' = [step |-> "rest", messages |-> <<>>, seq |-> NoSeq]
      BY <1>4 DEF Resting
    <2>3. <<>> \in Seq(Message) /\ turn'.step \in Steps
      BY <2>2 DEF Steps
    <2>4. turn' \in Turns
      BY <2>1, <2>2, <2>3 DEF Turns
    <2> QED
      BY <1>1, <1>2, <2>1, <2>2, <2>3, <2>4 DEF MasTypeOK, Steps, TurnRead
  <1>5. CASE /\ turn.step # "rest" /\ turn' \in Turns /\ turn'.messages = turn.messages
             /\ turn'.step \in {"llm", "outcome", "enqueue", "tell"}
             /\ turn'.seq \in NoSeq .. MaxRows
    <2>1. turn.messages \in Seq(Message)
      BY <1>1 DEF MasTypeOK
    <2>2. MasTypeOK'
      BY <1>1, <1>5, <2>1 DEF MasTypeOK
    <2>3. TurnRead'
      BY <1>1, <1>5 DEF TurnRead
    <2> QED
      BY <1>2, <1>5, <2>2, <2>3
  <1> QED
    BY <1>3, <1>4, <1>5

LEMMA GateInv ==
    ASSUME MasInv, RunnerGate
    PROVE  MasTypeOK' /\ turn' \in Turns /\ TurnRead' /\ MarkBounded'
  <1> DEFINE last == LastSaid(store, {"Customer"})
  <1>1. /\ turn' = [step |-> "claim", messages |-> store, seq |-> last - 1]
        /\ store # <<>> /\ store' = store /\ mark' = mark /\ seen' = seen /\ told' = told
    BY DEF RunnerGate, Unreplied, storeVars
  <1>2. store \in Seq(Message) /\ Len(store) \in Nat /\ Len(store) <= MaxRows
    BY LenProperties DEF MasInv, StoreInv, StoreTypeOK
  <1>3. last \in 0 .. Len(store)
    BY <1>2, LastSaidBounds
  <1> HIDE DEF last
  <1>4. last - 1 \in NoSeq .. MaxRows /\ last - 1 \in Int /\ last - 1 < Len(store)
    BY <1>2, <1>3, StoreAssumption DEF NoSeq
  <1>5. turn'.step = "claim" /\ turn'.messages = store /\ turn'.seq = last - 1
    BY <1>1
  <1>6. turn' \in Turns
    BY <1>1, <1>2, <1>4 DEF Turns, Steps
  <1>7. MasTypeOK'
    BY <1>1, <1>2, <1>4, <1>5 DEF MasInv, MasTypeOK
  <1>8. TurnRead'
    <2>1. \A j, k \in DOMAIN store : store[j].is = store[k].is => j = k
      BY EachOnce DEF MasInv
    <2> QED
      BY <1>1, <1>4, <1>5, <2>1 DEF TurnRead
  <1>9. MarkBounded'
    BY <1>1 DEF MasInv, MarkBounded
  <1> QED
    BY <1>6, <1>7, <1>8, <1>9

\* The claim: every message up to the mark was in front of the run.
LEMMA ClaimMarks ==
    ASSUME MasInv, RunnerClaim
    PROVE  MasTypeOK' /\ turn' \in Turns /\ TurnRead' /\ MarkBounded'
  <1>1. /\ turn.step = "claim" /\ store' = store /\ told' = told
    BY DEF RunnerClaim, storeVars
  <1>2. CASE turn' = Resting /\ mark' = mark /\ seen' = seen
    <2>1. told' \in NoSeq .. MaxRows
      BY <1>1 DEF MasInv, MasTypeOK
    <2> QED
      BY <1>1, <1>2, <2>1, TurnKept
  <1>3. CASE /\ mark' = turn.seq
             /\ turn' = [turn EXCEPT !.step = "llm"]
             /\ seen' = seen \cup Of(turn.messages)
    <2>1. /\ turn \in Turns /\ turn.messages \in Seq(Message) /\ turn.seq \in NoSeq .. MaxRows
          /\ seen \subseteq Of(store) /\ Of(turn.messages) \subseteq Of(store)
          /\ turn.seq < Len(turn.messages) /\ turn.messages # <<>>
          /\ \A j, k \in DOMAIN turn.messages :
                turn.messages[j].is = turn.messages[k].is => j = k
      BY <1>1 DEF MasInv, MasTypeOK, TurnRead, MarkBounded
    <2>2. store \in Seq(Message)
      BY DEF MasInv, StoreInv, StoreTypeOK
    <2>3. IsFiniteSet(Of(store)) /\ seen' \in SUBSET Of(store)
      BY <1>3, <2>1, <2>2, HowMany
    <2>4. IsFiniteSet(seen') /\ Cardinality(seen') \in Nat
      BY <2>3, FS_Subset, FS_CardinalityType
    <2>5. Of(turn.messages) \in SUBSET seen'
      BY <1>3
    <2>6. Cardinality(Of(turn.messages)) <= Cardinality(seen')
      BY <2>4, <2>5, FS_Subset
    <2>7. Cardinality(Of(turn.messages)) = Len(turn.messages) /\ Len(turn.messages) \in Nat
      BY <2>1, HowMany, LenProperties
    <2>8. turn.seq \in Int
      BY <2>1, StoreAssumption DEF NoSeq
    <2>9. mark' < Cardinality(seen')
      BY <1>3, <2>1, <2>4, <2>6, <2>7, <2>8
    <2>10. Of(store') = Of(store)
      BY <1>1
    <2>11. MarkBounded'
      BY <2>3, <2>9, <2>10 DEF MarkBounded
    <2>12. /\ turn' \in Turns /\ turn'.messages = turn.messages /\ turn'.step = "llm"
           /\ turn'.seq = turn.seq
      BY <1>3, <2>1 DEF Turns, Steps
    <2>13. TurnRead'
      BY <2>1, <2>10, <2>12 DEF TurnRead
    <2>14. seen' \subseteq 1 .. MaxTalk
      <3>1. \A n \in DOMAIN store : store[n].is \in 1 .. MaxTalk
        <4>1. DOMAIN store = 1 .. Len(store)
          BY <2>2, LenProperties
        <4>2. \A n \in DOMAIN store : store[n] \in Message
          BY <2>2, <4>1, ElementOfSeq
        <4> QED
          BY <4>2 DEF Message
      <3> QED
        BY <2>3, <3>1 DEF Of
    <2>15. MasTypeOK'
      BY <1>1, <1>3, <2>1, <2>12, <2>14 DEF MasInv, MasTypeOK
    <2> QED
      BY <2>11, <2>12, <2>13, <2>15
  <1> QED
    BY <1>2, <1>3 DEF RunnerClaim, Rest, Of

\* The other steps of the runner.
LEMMA RunnerKept ==
    ASSUME MasInv, Runner, ~RunnerGate, ~RunnerClaim
    PROVE  MasTypeOK' /\ turn' \in Turns /\ TurnRead' /\ MarkBounded'
  <1>1. /\ turn \in Turns /\ turn.seq \in NoSeq .. MaxRows /\ told \in NoSeq .. MaxRows
    BY DEF MasInv, MasTypeOK
  <1>2. /\ store' = store /\ mark' = mark /\ seen' = seen
    BY DEF Runner, RunnerEscalates, RunnerText, RunnerOutcome, RunnerEnqueue, RunnerTell,
           RunnerDies, storeVars
  <1>3. told' \in NoSeq .. MaxRows
    <2>1. CASE told' = told
      BY <1>1, <2>1
    <2>2. CASE told' = Max({told, turn.seq})
      <3> DEFINE both == {told, turn.seq}
      <3>1. told \in Int /\ turn.seq \in Int
        BY <1>1, StoreAssumption DEF NoSeq
      <3>2. \E x \in both : \A y \in both : x >= y
        <4>1. CASE told >= turn.seq
          BY <3>1, <4>1
        <4>2. CASE turn.seq >= told
          BY <3>1, <4>2
        <4> QED
          BY <3>1, <4>1, <4>2
      <3>3. Max(both) \in both
        BY <3>2 DEF Max
      <3> QED
        BY <1>1, <2>2, <3>3
    <2> QED
      BY <2>1, <2>2 DEF Runner, RunnerEscalates, RunnerText, RunnerOutcome, RunnerEnqueue,
                        RunnerTell, RunnerDies
  <1>4. CASE turn' = Resting
    BY <1>2, <1>3, <1>4, TurnKept
  <1>5. ASSUME NEW next \in {"tell", "enqueue"}, turn.step \in {"outcome", "enqueue"},
               turn' = [turn EXCEPT !.step = next]
        PROVE  MasTypeOK' /\ turn' \in Turns /\ TurnRead' /\ MarkBounded'
    <2>1. /\ turn' \in Turns /\ turn'.messages = turn.messages /\ turn'.step = next
          /\ turn'.seq = turn.seq
      BY <1>1, <1>5 DEF Turns, Steps
    <2> QED
      BY <1>1, <1>2, <1>3, <1>5, <2>1, TurnKept
  <1>6. CASE RunnerText
    <2>1. turn' = [turn EXCEPT !.step = "outcome", !.seq = LastSeq(store)] /\ turn.step = "llm"
      BY <1>6 DEF RunnerText
    <2>2. Len(store) \in Nat /\ Len(store) <= MaxRows
      BY LenProperties DEF MasInv, StoreInv, StoreTypeOK
    <2>3. LastSeq(store) \in NoSeq .. MaxRows /\ LastSeq(store) \in Int
      BY <2>2, StoreAssumption DEF LastSeq, NoSeq
    <2>4. /\ turn' \in Turns /\ turn'.messages = turn.messages /\ turn'.step = "outcome"
          /\ turn'.seq = LastSeq(store)
      BY <1>1, <2>1, <2>3 DEF Turns, Steps
    <2> QED
      BY <1>2, <1>3, <2>1, <2>3, <2>4, TurnKept
  <1> QED
    BY <1>4, <1>5, <1>6 DEF Runner, RunnerEscalates, RunnerOutcome, RunnerEnqueue,
                            RunnerTell, RunnerDies, Rest

LEMMA MasNextInv == MasInv /\ [MasInboxNext]_inboxVars => MasInv'
  <1> SUFFICES ASSUME MasInv, [MasInboxNext]_inboxVars PROVE MasInv'
    OBVIOUS
  <1>1. [StoreNext]_storeVars
    BY MasStepOfStore
  <1>2. StoreInv' /\ Len(store') <= MaxRows /\ AllSourced'
    BY <1>1, StoreNextInv, RowsBounded, SourcedStay DEF MasInv
  <1>3. Of(store) \subseteq Of(store')
    BY <1>1, RowsStay DEF MasInv
  <1>4. CASE UNCHANGED masVars
    <2>1. told' \in NoSeq .. MaxRows
      BY <1>4 DEF MasInv, MasTypeOK, masVars
    <2>2. MasTypeOK' /\ turn' \in Turns /\ TurnRead' /\ MarkBounded'
      BY <1>3, <1>4, <2>1, TurnKept DEF masVars
    <2> QED
      BY <1>2, <2>2 DEF MasInv
  <1>5. CASE Runner
    <2>1. MasTypeOK' /\ turn' \in Turns /\ TurnRead' /\ MarkBounded'
      BY <1>5, GateInv, ClaimMarks, RunnerKept
    <2> QED
      BY <1>2, <2>1 DEF MasInv
  <1> QED
    BY <1>4, <1>5 DEF MasInboxNext, inboxVars

LEMMA MasInitInv == MasInboxInit => MasInv
  <1> SUFFICES ASSUME MasInboxInit PROVE MasInv
    OBVIOUS
  <1>1. turn = [step |-> "rest", messages |-> <<>>, seq |-> NoSeq]
        /\ mark = NoSeq /\ told = NoSeq /\ seen = {} /\ talk = <<>> /\ store = <<>>
    BY DEF MasInboxInit, MasInit, StoreInit, Resting
  <1>2. NoSeq \in NoSeq .. MaxRows /\ NoSeq \in Int /\ 0 <= MaxRows /\ NoSeq < 0
    BY StoreAssumption DEF NoSeq
  <1>3. Cardinality(seen) = 0
    BY <1>1, FS_EmptySet
  <1>4. turn \in Turns
    BY <1>1, <1>2 DEF Turns, Steps
  <1>5. MasTypeOK
    BY <1>1, <1>2 DEF MasTypeOK
  <1>6. StoreInv
    BY StoreInitInv DEF MasInboxInit
  <1>7. AllSourced /\ TurnRead /\ Len(store) <= MaxRows
    BY <1>1, <1>2 DEF AllSourced, TurnRead
  <1>8. MarkBounded
    BY <1>1, <1>2, <1>3 DEF MarkBounded
  <1> QED
    BY <1>4, <1>5, <1>6, <1>7, <1>8 DEF MasInv

\* A waiting turn is a message the claiming runs have not had, so fewer messages
\* than the table has rows are below the mark.
LEMMA NewerLeft == MasInv => ClaimLeavesNewer
  <1> SUFFICES ASSUME MasInv, Waiting PROVE mark < LastSeq(store)
    BY DEF ClaimLeavesNewer
  <1> DEFINE newest == Last(store).is
             others == Of(store) \ {newest}
  <1>1. store \in Seq(Message) /\ Len(store) \in Nat /\ DOMAIN store = 1 .. Len(store)
    BY LenProperties DEF MasInv, StoreInv, StoreTypeOK
  <1>2. store # <<>> /\ newest \notin seen
    BY DEF Waiting
  <1>3. newest \in Of(store)
    <2>1. Len(store) \in DOMAIN store
      BY <1>1, <1>2
    <2> QED
      BY <2>1 DEF Of, Last
  <1>4. /\ IsFiniteSet(Of(store)) /\ Cardinality(Of(store)) \in Nat
        /\ Cardinality(Of(store)) <= Len(store)
    BY <1>1, HowMany
  <1>5. IsFiniteSet(others) /\ Cardinality(others) = Cardinality(Of(store)) - 1
    BY <1>3, <1>4, FS_RemoveElement
  <1>6. seen \in SUBSET others
    BY <1>2 DEF MasInv, MarkBounded
  <1>7. Cardinality(seen) <= Cardinality(others) /\ IsFiniteSet(seen)
    BY <1>5, <1>6, FS_Subset
  <1>8. Cardinality(seen) \in Nat
    BY <1>7, FS_CardinalityType
  <1>9. mark < Cardinality(seen) /\ mark \in Int
    BY StoreAssumption DEF MasInv, MarkBounded, MasTypeOK, NoSeq
  <1> HIDE DEF others
  <1> QED
    BY <1>1, <1>4, <1>5, <1>7, <1>8, <1>9 DEF LastSeq

\* The transcript under the runner is a transcript of MessageStore, so that its
\* theorems hold here too.
THEOREM RunnerUsesStore == MasInboxSpec => StoreSpec
  <1>1. MasInboxInit => StoreInit
    BY DEF MasInboxInit
  <1> QED
    BY <1>1, MasStepOfStore, PTL DEF MasInboxSpec, StoreSpec

THEOREM RunnerInvariant == MasInboxSpec => []MasInv
  <1> QED
    BY MasInitInv, MasNextInv, PTL DEF MasInboxSpec

\* claim_scheduled_inbox_message: the claim of an earlier turn never covers a
\* newer one, though seqs are renumbered by crawls that reach further up.
THEOREM NewerStaysEligible == MasInboxSpec => []ClaimLeavesNewer
  <1> QED
    BY RunnerInvariant, NewerLeft, PTL

\* The draft of a turn is a proposal for the thread.
LEMMA DraftProposed ==
    ASSUME MasInv, turn.step # "rest", EnqueueAction(Draft(turn.messages))
    PROVE  Propose
  <1> DEFINE newest == Last(turn.messages).is
             kind == CHOOSE k \in Kinds : TRUE
  <1>1. turn.messages \in Seq(Message) /\ turn.messages # <<>>
    BY DEF MasInv, MasTypeOK, TurnRead
  <1>2. Len(turn.messages) \in 1 .. Len(turn.messages)
    BY <1>1, LenProperties
  <1>3. Last(turn.messages) \in Message
    BY <1>1, <1>2, ElementOfSeq DEF Last
  <1>4. newest \in 1 .. MaxTalk
    BY <1>3 DEF Message
  <1> HIDE DEF newest
  <1>5. newest \in 0 .. MaxTalk
    BY <1>4, StoreAssumption
  <1>6. /\ newest \in Texts /\ newest \in Snapshots /\ Thread \in Targets /\ kind \in Kinds
        /\ "reply_message" \in QueueTypes
    BY <1>5, InboxMasAssumption, QueueTypesAssumption DEF OutboundQueueTypes
  <1>7. Draft(turn.messages) = Proposal("reply_message", Thread, kind, newest, newest)
    BY DEF Draft, newest
  <1> HIDE DEF kind
  <1>8. EnqueueAction(Proposal("reply_message", Thread, kind, newest, newest))
    BY <1>7
  <1> QED
    BY <1>6, <1>8 DEF Propose

LEMMA MasStepOfQueue ==
    ASSUME MasInv, [MasInboxNext]_inboxVars
    PROVE  [QueueNext]_queueVars
  <1>1. CASE RunnerEnqueue
    <2>1. CASE EnqueueAction(Draft(turn.messages))
      BY <1>1, <2>1, DraftProposed DEF RunnerEnqueue, QueueNext
    <2> QED
      BY <1>1, <2>1 DEF RunnerEnqueue
  <1>2. CASE Runner /\ ~RunnerEnqueue
    BY <1>2 DEF Runner, RunnerGate, RunnerClaim, RunnerEscalates, RunnerText,
                RunnerOutcome, RunnerTell, RunnerDies
  <1>3. CASE UNCHANGED queueVars
    BY <1>3
  <1>4. CASE Decide
    BY <1>4 DEF QueueNext
  <1> QED
    BY <1>1, <1>2, <1>3, <1>4 DEF MasInboxNext, inboxVars

\* The runner enqueues as everybody does: what is proved of action_queue holds
\* of it here.
THEOREM RunnerUsesQueue == MasInboxSpec => QueueSpec
  <1>1. MasInboxInit => QueueInit
    BY DEF MasInboxInit
  <1>2. MasInv /\ [MasInboxNext]_inboxVars => [QueueNext]_queueVars
    BY MasStepOfQueue
  <1> QED
    BY <1>1, <1>2, RunnerInvariant, PTL DEF MasInboxSpec, QueueSpec

\* So its drafts are one per conversation and kind however often it is run again,
\* and no recipient has two DMs executing.
THEOREM RunnerKeepsQueue == MasInboxSpec => [](OneDmPerRecipient /\ OneLivePerSlot)
  BY RunnerUsesQueue, OneDm, OneLive, PTL

\* Table, transcript and marks keep the shape their code gives them.
THEOREM RunnerTypes == MasInboxSpec => [](QueueTypeOK /\ StoreTypeOK /\ MasTypeOK)
  <1>1. MasInv => StoreTypeOK /\ MasTypeOK
    BY DEF MasInv, StoreInv
  <1> QED
    BY <1>1, RunnerInvariant, RunnerUsesQueue, TypeCorrect, PTL

-----------------------------------------------------------------------------
(* No message is stored under another conversation, for any number of      *)
(* conversations and messages and any behaviour of the tab.                *)
(*                                                                         *)
(* The strengthening: once a first read was taken and nothing contradicted *)
(* it, all its messages with evidence are of the identity the task is      *)
(* bound to, whatever the tab has shown since.  A read that clashes is     *)
(* remembered in `hard`, which no later step takes back.                   *)

Fields == {"step", "card", "target", "unique", "stable", "identity", "first", "hard"}

ReadDone == work.step \in {"final", "confirm", "last", "admit"}

OwnRows == ReadDone /\ ~work.hard => \A m \in Evidenced : m.of = work.identity

FetchInv == DOMAIN work = Fields /\ OwnRows /\ StoredWhereWritten

-----------------------------------------------------------------------------

\* The steps that end a task without storing, or come before the first read.
LEMMA OutsideInv ==
    ASSUME FetchInv, UNCHANGED messages,
           \/ work' = NoWork
           \/ DOMAIN work' = Fields /\ work'.step \in {"locate", "verify", "read"}
    PROVE  FetchInv'
  <1>1. DOMAIN work' = Fields /\ ~ReadDone'
    BY DEF NoWork, Fields, ReadDone
  <1> QED
    BY <1>1 DEF FetchInv, OwnRows, StoredWhereWritten

\* The steps after the first read keep it and take no contradiction back.
LEMMA AfterReadInv ==
    ASSUME FetchInv, UNCHANGED messages, ReadDone, DOMAIN work' = Fields,
           work'.first = work.first, work'.identity = work.identity,
           ~work'.hard => ~work.hard
    PROVE  FetchInv'
  BY DEF FetchInv, OwnRows, Evidenced, StoredWhereWritten

\* The first read: a panel that is not the identity's is a clash.
LEMMA FirstReadInv ==
    ASSUME FetchInv, FirstRead
    PROVE  FetchInv'
  <1>0. PICK shown \in Shown : \E unbound \in SUBSET shown : \E bare \in SUBSET unbound :
            \/ Ends("no_messages", work.identity, FALSE)
            \/ /\ shown # {}
               /\ work' = [work EXCEPT !.step = "final", !.first = Read(shown, unbound, bare),
                                       !.hard = Read(shown, unbound, bare).clash]
    BY DEF FirstRead
  <1>1. PICK unbound, bare :
            /\ unbound \in SUBSET shown /\ bare \in SUBSET unbound
            /\ \/ Ends("no_messages", work.identity, FALSE)
               \/ /\ shown # {}
                  /\ work' = [work EXCEPT !.step = "final", !.first = Read(shown, unbound, bare),
                                          !.hard = Read(shown, unbound, bare).clash]
    BY <1>0
  <1>2. messages' = messages /\ DOMAIN work = Fields
    BY DEF FirstRead, FetchInv
  <1>3. CASE Ends("no_messages", work.identity, FALSE)
    BY <1>2, <1>3, OutsideInv DEF Ends
  <1>4. CASE /\ shown # {}
             /\ work' = [work EXCEPT !.step = "final", !.first = Read(shown, unbound, bare),
                                     !.hard = Read(shown, unbound, bare).clash]
    <2>1. /\ DOMAIN work' = Fields /\ work'.identity = work.identity
          /\ work'.first.rows = shown /\ work'.first.unbound = unbound
          /\ (work'.hard <=> Clash(shown \ bare))
      BY <1>2, <1>4 DEF Read, Fields
    <2>2. \A m \in shown : m.of = tab["panel"]
      BY DEF Shown
    <2>3. ~work'.hard /\ shown \ unbound # {} => tab["panel"] = work.identity
      BY <1>1, <2>1 DEF Clash
    <2>4. Evidenced' = shown \ unbound
      BY <2>1 DEF Evidenced
    <2>5. OwnRows'
      BY <2>1, <2>2, <2>3, <2>4 DEF OwnRows
    <2> QED
      BY <1>2, <2>1, <2>5 DEF FetchInv, StoredWhereWritten
  <1> QED
    BY <1>1, <1>3, <1>4

\* What is stored comes from a read nothing contradicted.
LEMMA StoresInv ==
    ASSUME FetchInv, Persist
    PROVE  FetchInv'
  <1>1. \A m \in Evidenced : m.of = work.identity
    BY DEF FetchInv, OwnRows, ReadDone, Persist
  <1>2. messages' = messages \cup {[thread |-> work.identity, message |-> m] : m \in Evidenced}
    BY DEF Persist
  <1>3. StoredWhereWritten'
    BY <1>1, <1>2 DEF FetchInv, StoredWhereWritten
  <1>4. work' = NoWork
    BY DEF Persist, Ends
  <1> QED
    BY <1>3, <1>4 DEF FetchInv, OwnRows, ReadDone, NoWork, Fields

\* Every step of the worker.
LEMMA WorkerInv ==
    ASSUME FetchInv, Worker
    PROVE  FetchInv'
  <1>1. DOMAIN work = Fields
    BY DEF FetchInv
  <1>2. CASE Click \/ Direct \/ Verified
    BY <1>1, <1>2, OutsideInv DEF Click, Direct, Verified, Fields
  <1>3. CASE NotLocated \/ NotVerified \/ Refused \/ Unresolved
    BY <1>3, OutsideInv DEF NotLocated, NotVerified, Refused, Unresolved, Ends
  <1>4. ASSUME NEW at \in {"verify", "final", "last"}, LookAt(at)
        PROVE  FetchInv'
    <2>1. /\ messages' = messages /\ DOMAIN work' = Fields /\ work'.step = work.step
          /\ work'.first = work.first /\ work'.identity = work.identity
          /\ work'.hard = work.hard /\ work.step = at
      BY <1>1, <1>4 DEF LookAt, Fields
    <2>2. CASE at = "verify"
      BY <2>1, <2>2, OutsideInv
    <2>3. CASE at # "verify"
      BY <1>4, <2>1, <2>3, AfterReadInv DEF ReadDone
    <2> QED
      BY <2>2, <2>3
  <1>5. CASE FinalVerified \/ LastVerified \/ Unverified
    <2>1. /\ messages' = messages /\ DOMAIN work' = Fields /\ ReadDone
          /\ work'.first = work.first /\ work'.identity = work.identity
          /\ work'.hard = work.hard \/ work'.hard = TRUE
      BY <1>1, <1>5 DEF FinalVerified, LastVerified, Unverified, Agreed, Goes, Fields, ReadDone
    <2> QED
      BY <2>1, AfterReadInv
  <1>6. CASE SecondRead
    <2>0. PICK shown \in Shown : \E unbound \in SUBSET shown : \E bare \in SUBSET unbound :
              work' = [work EXCEPT !.step = "last", !.stable = Nobody,
                                   !.hard = @ \/ Read(shown, unbound, bare) # work.first]
      BY <1>6 DEF SecondRead
    <2>1. PICK unbound, bare :
              work' = [work EXCEPT !.step = "last", !.stable = Nobody,
                                   !.hard = @ \/ Read(shown, unbound, bare) # work.first]
      BY <2>0
    <2>2. /\ messages' = messages /\ DOMAIN work' = Fields /\ ReadDone
          /\ work'.first = work.first /\ work'.identity = work.identity
          /\ work'.hard = (work.hard \/ Read(shown, unbound, bare) # work.first)
      BY <1>1, <1>6, <2>1 DEF SecondRead, Fields, ReadDone
    <2> QED
      BY <2>2, AfterReadInv
  <1> QED
    BY <1>2, <1>3, <1>4, <1>5, <1>6, FirstReadInv, StoresInv DEF Worker

-----------------------------------------------------------------------------

\* thread_worker.py:189-194, for any number of conversations and messages and any
\* tab: what is stored stands under the conversation it was written in.
THEOREM StoredRight == FetchSpec => []StoredWhereWritten
  <1>1. FetchInit => FetchInv
    BY DEF FetchInit, FetchInv, NoWork, Fields, OwnRows, ReadDone, StoredWhereWritten
  <1>2. FetchInv /\ [FetchNext]_fetchVars => FetchInv'
    <2> SUFFICES ASSUME FetchInv, [FetchNext]_fetchVars PROVE FetchInv'
      OBVIOUS
    <2>1. CASE Worker
      BY <2>1, WorkerInv
    <2>2. ASSUME NEW card \in Conversations, NEW target \in Someone, Dispatch(card, target)
          PROVE  FetchInv'
      BY <2>2, OutsideInv DEF Dispatch, NoWork, Fields
    <2>3. ASSUME UNCHANGED <<work, messages>>
          PROVE  FetchInv'
      BY <2>3 DEF FetchInv, OwnRows, Evidenced, ReadDone, StoredWhereWritten
    <2>4. ASSUME NEW at \in Parts, NEW shows \in Someone, TabMoves(at, shows)
          PROVE  FetchInv'
      BY <2>3, <2>4 DEF TabMoves
    <2>5. ASSUME NEW c \in Conversations, Speaks(c)
          PROVE  FetchInv'
      BY <2>3, <2>5 DEF Speaks
    <2>6. CASE UNCHANGED fetchVars
      BY <2>3, <2>6 DEF fetchVars
    <2> QED
      BY <2>1, <2>2, <2>4, <2>5, <2>6 DEF FetchNext
  <1>3. FetchInv => StoredWhereWritten
    BY DEF FetchInv
  <1> QED
    BY <1>1, <1>2, <1>3, PTL DEF FetchSpec

-----------------------------------------------------------------------------
(* The types of a fetch in a tab.  An open task has a card, one that has   *)
(* verified the tab an identity, and both are conversations.               *)

WorkRecords ==
    [step : {"none", "locate", "verify", "read", "final", "confirm", "last", "admit"},
     card : Someone, target : Someone, unique : BOOLEAN, stable : Someone, identity : Someone,
     first : [rows : SUBSET Spoken, unbound : SUBSET Spoken, clash : BOOLEAN], hard : BOOLEAN]

Results == [status : {"none", "click_verify_failed", "no_messages", "error", "needs_review",
                      "persisted"},
            thread : Someone, complete : BOOLEAN]

TaskNamed == /\ work.step # "none" => work.card \in Conversations
             /\ work.step \notin {"none", "locate", "verify"} => work.identity \in Conversations
             /\ work.first.unbound \subseteq work.first.rows

TabTypes == /\ FetchTypeOK
            /\ work \in WorkRecords /\ TaskNamed
            /\ results \in [Conversations -> Results]

\* The records of a task that does nothing.
LEMMA NoWorkTyped == NoWork \in WorkRecords /\ NoWork.step = "none" /\ NoWork.first = NoRead
  BY DEF NoWork, WorkRecords, NoRead, Someone

\* Whom a look identifies is somebody's conversation, or nobody's.
LEMMA IdentifiedIs ==
    ASSUME TabTypes
    PROVE  Identified \in Someone
  BY DEF TabTypes, FetchTypeOK, WorkRecords, Identified, Parts, Someone

\* What the panel shows are messages that were written.
LEMMA ShownIs ==
    ASSUME TabTypes, NEW shown \in Shown
    PROVE  shown \in SUBSET Spoken
  <1>1. tab["panel"] \in Someone
    BY DEF TabTypes, FetchTypeOK, Parts
  <1>2. CASE tab["panel"] = Nobody
    BY <1>2 DEF Shown
  <1>3. CASE tab["panel"] # Nobody
    <2>1. tab["panel"] \in Conversations /\ said[tab["panel"]] \in 0 .. MaxSaid
      BY <1>1, <1>3 DEF TabTypes, FetchTypeOK, Someone
    <2>2. PICK top \in 1 .. MaxSaid + 1 :
              shown = {[of |-> tab["panel"], n |-> n] : n \in top .. said[tab["panel"]]}
      BY <1>3 DEF Shown
    <2>3. \A n \in top .. said[tab["panel"]] : n \in 1 .. MaxSaid
      BY <2>1, FetchAssumption
    <2> QED
      BY <2>1, <2>2, <2>3 DEF Spoken
  <1> QED
    BY <1>2, <1>3

\* A read is typed by what it shows.
LEMMA ReadTyped ==
    ASSUME NEW shown \in SUBSET Spoken, NEW unbound \in SUBSET shown, NEW bare \in SUBSET unbound
    PROVE  /\ Read(shown, unbound, bare) \in
                  [rows : SUBSET Spoken, unbound : SUBSET Spoken, clash : BOOLEAN]
           /\ Read(shown, unbound, bare).rows = shown
           /\ Read(shown, unbound, bare).unbound = unbound
  <1> DEFINE clash == shown # {} /\ Clash(shown \ bare)
  <1>1. clash \in BOOLEAN
    BY Zenon
  <1>2. Read(shown, unbound, bare) = [rows |-> shown, unbound |-> unbound, clash |-> clash]
    BY DEF Read
  <1> HIDE DEF clash
  <1> QED
    BY <1>1, <1>2

\* A step of the task that leaves tables and tab alone.
LEMMA WorkGoes ==
    ASSUME TabTypes, UNCHANGED <<tab, said, messages, threads, results>>,
           work' \in WorkRecords, TaskNamed'
    PROVE  TabTypes'
  BY DEF TabTypes, FetchTypeOK, TaskNamed, WorkRecords

\* The end of a task, with its result under its card.
LEMMA EndTyped ==
    ASSUME TabTypes, work.step # "none",
           NEW status \in {"click_verify_failed", "no_messages", "error", "needs_review",
                           "persisted"},
           NEW thread \in Someone, NEW complete \in BOOLEAN, Ends(status, thread, complete),
           UNCHANGED <<tab, said>>,
           messages' \subseteq [thread : Conversations, message : Spoken],
           threads' \in [Conversations -> {Name[c] : c \in Conversations} \cup {NoName}]
    PROVE  TabTypes'
  <1>1. work.card \in Conversations /\ results \in [Conversations -> Results]
    BY DEF TabTypes, TaskNamed
  <1>2. [status |-> status, thread |-> thread, complete |-> complete] \in Results
    BY DEF Results
  <1>3. results' \in [Conversations -> Results]
    BY <1>1, <1>2 DEF Ends
  <1>4. work' \in WorkRecords /\ TaskNamed' /\ work'.first = NoRead /\ work'.step = "none"
    BY NoWorkTyped DEF Ends, TaskNamed, NoRead
  <1>5. \A c \in Conversations : results'[c].status \in
            {"none", "click_verify_failed", "no_messages", "error", "needs_review", "persisted"}
    BY <1>3 DEF Results
  <1> QED
    BY <1>3, <1>4, <1>5 DEF TabTypes, FetchTypeOK, NoRead

\* Before the identity is bound.
LEMMA LocatingTyped ==
    ASSUME TabTypes, Click \/ Direct \/ Verified \/ \E at \in {"verify", "final", "last"} : LookAt(at)
    PROVE  TabTypes'
  <1>1. work \in WorkRecords /\ TaskNamed /\ Identified \in Someone
    BY IdentifiedIs DEF TabTypes
  <1>2. CASE Click \/ Direct
    <2>1. HeadingUnique \in BOOLEAN
      BY Zenon DEF HeadingUnique
    <2>2. PICK unique \in BOOLEAN : unique = HeadingUnique
      BY <2>1
    <2>3. work' = [work EXCEPT !.step = "verify", !.unique = unique] /\ work.step = "locate"
      BY <1>2, <2>2 DEF Click, Direct
    <2>4. work' \in WorkRecords /\ TaskNamed'
      BY <1>1, <2>3 DEF WorkRecords, TaskNamed
    <2> QED
      BY <1>2, <2>4, WorkGoes DEF Click, Direct
  <1>3. CASE Verified
    <2>1. Identified \in Conversations
      BY <1>1, <1>3 DEF Verified, Agreed, Someone
    <2>2. PICK who \in Conversations : who = Identified
      BY <2>1
    <2>3. /\ work' = [work EXCEPT !.step = "read", !.stable = Nobody, !.identity = who,
                                  !.target = who]
          /\ work.step = "verify" /\ who \in Someone /\ Nobody \in Someone
      BY <1>3, <2>2 DEF Verified, Agreed, Someone
    <2>4. work' \in WorkRecords /\ TaskNamed'
      BY <1>1, <2>2, <2>3 DEF WorkRecords, TaskNamed
    <2> QED
      BY <1>3, <2>4, WorkGoes DEF Verified
  <1>4. ASSUME NEW at \in {"verify", "final", "last"}, LookAt(at)
        PROVE  TabTypes'
    <2>1. work' \in WorkRecords /\ TaskNamed'
      BY <1>1, <1>4 DEF LookAt, WorkRecords, TaskNamed
    <2> QED
      BY <1>4, <2>1, WorkGoes DEF LookAt
  <1> QED
    BY <1>2, <1>3, <1>4

\* The two reads and the verifications between them.
LEMMA ReadingTyped ==
    ASSUME TabTypes, FirstRead \/ FinalVerified \/ Unverified \/ SecondRead \/ LastVerified
    PROVE  TabTypes'
  <1>1. work \in WorkRecords /\ TaskNamed /\ Nobody \in Someone
    BY DEF TabTypes, Someone
  <1>2. CASE FirstRead
    <2>1. PICK shown \in Shown : \E unbound \in SUBSET shown : \E bare \in SUBSET unbound :
              \/ Ends("no_messages", work.identity, FALSE)
              \/ /\ work' = [work EXCEPT !.step = "final", !.first = Read(shown, unbound, bare),
                                         !.hard = Read(shown, unbound, bare).clash]
                 /\ UNCHANGED results
      BY <1>2 DEF FirstRead
    <2>2. PICK unbound, bare :
              /\ unbound \in SUBSET shown /\ bare \in SUBSET unbound
              /\ \/ Ends("no_messages", work.identity, FALSE)
                 \/ /\ work' = [work EXCEPT !.step = "final", !.first = Read(shown, unbound, bare),
                                            !.hard = Read(shown, unbound, bare).clash]
                    /\ UNCHANGED results
      BY <2>1
    <2>3. UNCHANGED <<tab, said, messages, threads>> /\ work.step = "read"
      BY <1>2 DEF FirstRead
    <2>4. CASE Ends("no_messages", work.identity, FALSE)
      <3>1. work.identity \in Someone
        BY <1>1 DEF WorkRecords
      <3> QED
        BY <2>3, <2>4, <3>1, EndTyped DEF TabTypes, FetchTypeOK
    <2>5. CASE /\ work' = [work EXCEPT !.step = "final", !.first = Read(shown, unbound, bare),
                                       !.hard = Read(shown, unbound, bare).clash]
               /\ UNCHANGED results
      <3>1. PICK read \in [rows : SUBSET Spoken, unbound : SUBSET Spoken, clash : BOOLEAN] :
                read = Read(shown, unbound, bare) /\ read.unbound \subseteq read.rows
        <4>1. shown \in SUBSET Spoken
          BY ShownIs
        <4>2. unbound \in SUBSET shown /\ bare \in SUBSET unbound
          BY <2>2
        <4> QED
          BY <4>1, <4>2, ReadTyped
      <3>2. work' = [work EXCEPT !.step = "final", !.first = read, !.hard = read.clash]
        BY <2>5, <3>1
      <3>3. work' \in WorkRecords /\ TaskNamed'
        BY <1>1, <2>3, <3>1, <3>2 DEF WorkRecords, TaskNamed
      <3> QED
        BY <2>3, <2>5, <3>3, WorkGoes
    <2> QED
      BY <2>2, <2>4, <2>5
  <1>3. CASE FinalVerified \/ LastVerified
    <2>1. PICK next \in {"confirm", "admit"} :
              work' = [work EXCEPT !.step = next, !.stable = Nobody]
      BY <1>3 DEF FinalVerified, LastVerified, Goes
    <2>2. work.step \in {"final", "last"}
      BY <1>3 DEF FinalVerified, LastVerified, Agreed
    <2>3. work' \in WorkRecords /\ TaskNamed'
      BY <1>1, <2>1, <2>2 DEF WorkRecords, TaskNamed
    <2> QED
      BY <1>3, <2>3, WorkGoes DEF FinalVerified, LastVerified
  <1>4. CASE Unverified
    <2>1. work' \in WorkRecords /\ TaskNamed'
      BY <1>1, <1>4 DEF Unverified, WorkRecords, TaskNamed
    <2> QED
      BY <1>4, <2>1, WorkGoes DEF Unverified
  <1>5. CASE SecondRead
    <2>0. PICK shown \in Shown : \E unbound \in SUBSET shown : \E bare \in SUBSET unbound :
              work' = [work EXCEPT !.step = "last", !.stable = Nobody,
                                   !.hard = @ \/ Read(shown, unbound, bare) # work.first]
      BY <1>5 DEF SecondRead
    <2>1. PICK unbound, bare :
              work' = [work EXCEPT !.step = "last", !.stable = Nobody,
                                   !.hard = @ \/ Read(shown, unbound, bare) # work.first]
      BY <2>0
    <2>2. (work.hard \/ Read(shown, unbound, bare) # work.first) \in BOOLEAN
      BY Zenon
    <2>3. PICK hard \in BOOLEAN : hard = (work.hard \/ Read(shown, unbound, bare) # work.first)
      BY <2>2
    <2>4. work' = [work EXCEPT !.step = "last", !.stable = Nobody, !.hard = hard]
      BY <2>1, <2>3
    <2>5. work' \in WorkRecords /\ TaskNamed'
      BY <1>1, <1>5, <2>4 DEF SecondRead, WorkRecords, TaskNamed
    <2> QED
      BY <1>5, <2>5, WorkGoes DEF SecondRead
  <1> QED
    BY <1>2, <1>3, <1>4, <1>5

\* The steps that end a task.
LEMMA EndingTyped ==
    ASSUME TabTypes, NotLocated \/ NotVerified \/ Refused \/ Unresolved \/ Persist
    PROVE  TabTypes'
  <1>1. /\ messages \subseteq [thread : Conversations, message : Spoken]
        /\ threads \in [Conversations -> {Name[c] : c \in Conversations} \cup {NoName}]
        /\ work \in WorkRecords /\ TaskNamed
    BY DEF TabTypes, FetchTypeOK
  <1>2. Nobody \in Someone /\ work.identity \in Someone
    BY <1>1 DEF Someone, WorkRecords
  <1>3. CASE NotLocated \/ NotVerified
    BY <1>1, <1>2, <1>3, EndTyped DEF NotLocated, NotVerified
  <1>4. CASE Refused \/ Unresolved
    BY <1>1, <1>2, <1>4, EndTyped DEF Refused, Unresolved
  <1>5. CASE Persist
    <2>1. work.step = "admit" /\ work.card \in Conversations /\ work.identity \in Conversations
      BY <1>1, <1>5 DEF Persist, TaskNamed
    <2>2. \A m \in Evidenced : m \in Spoken
      BY <1>1 DEF Evidenced, WorkRecords
    <2>3. messages' \subseteq [thread : Conversations, message : Spoken]
      BY <1>1, <1>5, <2>1, <2>2 DEF Persist
    <2>4. threads' \in [Conversations -> {Name[c] : c \in Conversations} \cup {NoName}]
      BY <1>1, <1>5, <2>1 DEF Persist
    <2>5. (work.first.unbound = {}) \in BOOLEAN
      BY Zenon
    <2>6. PICK complete \in BOOLEAN : complete = (work.first.unbound = {})
      BY <2>5
    <2>7. Ends("persisted", work.identity, complete) /\ UNCHANGED <<tab, said>>
      BY <1>5, <2>6 DEF Persist
    <2> QED
      BY <1>2, <2>1, <2>3, <2>4, <2>7, EndTyped
  <1> QED
    BY <1>3, <1>4, <1>5

LEMMA TabTypesStep == TabTypes /\ [FetchNext]_fetchVars => TabTypes'
  <1> SUFFICES ASSUME TabTypes, [FetchNext]_fetchVars PROVE TabTypes'
    OBVIOUS
  <1>1. CASE Worker
    BY <1>1, LocatingTyped, ReadingTyped, EndingTyped DEF Worker
  <1>2. ASSUME NEW card \in Conversations, NEW target \in Someone, Dispatch(card, target)
        PROVE  TabTypes'
    <2>1. /\ work' \in WorkRecords /\ work'.step = "locate" /\ work'.card = card
          /\ work'.first = NoRead
      BY <1>2, NoWorkTyped DEF Dispatch, NoWork, WorkRecords, Someone
    <2>2. TaskNamed'
      BY <2>1 DEF TaskNamed, NoRead
    <2> QED
      BY <1>2, <2>1, <2>2, WorkGoes DEF Dispatch
  <1>3. ASSUME NEW at \in Parts, NEW shows \in Someone, TabMoves(at, shows)
        PROVE  TabTypes'
    BY <1>3 DEF TabMoves, TabTypes, FetchTypeOK, TaskNamed
  <1>4. ASSUME NEW c \in Conversations, Speaks(c)
        PROVE  TabTypes'
    <2>1. said' \in [Conversations -> 0 .. MaxSaid]
      BY <1>4, FetchAssumption DEF Speaks, TabTypes, FetchTypeOK
    <2> QED
      BY <1>4, <2>1 DEF Speaks, TabTypes, FetchTypeOK, TaskNamed
  <1>5. CASE UNCHANGED fetchVars
    BY <1>5 DEF fetchVars, TabTypes, FetchTypeOK, TaskNamed
  <1> QED
    BY <1>1, <1>2, <1>3, <1>4, <1>5 DEF FetchNext

LEMMA TabTypesStart == FetchInit => TabTypes
  <1> SUFFICES ASSUME FetchInit PROVE TabTypes
    OBVIOUS
  <1>1. tab \in [Parts -> Someone] /\ said \in [Conversations -> 0 .. MaxSaid]
    BY FetchAssumption DEF FetchInit, Someone
  <1>2. threads \in [Conversations -> {Name[c] : c \in Conversations} \cup {NoName}]
    BY DEF FetchInit
  <1>3. /\ work \in WorkRecords /\ work.step = "none" /\ work.first = NoRead
    BY NoWorkTyped DEF FetchInit
  <1>4. NoResult \in Results
    BY DEF NoResult, Results, Someone
  <1>5. results \in [Conversations -> Results]
    BY <1>4 DEF FetchInit
  <1>6. \A c \in Conversations : results[c].status = "none"
    BY DEF FetchInit, NoResult
  <1> QED
    BY <1>1, <1>2, <1>3, <1>5, <1>6 DEF FetchInit, TabTypes, FetchTypeOK, TaskNamed, NoRead

\* Whatever the tab shows, the table holds messages that were written, and a task that
\* ends under a card of the page.
THEOREM TabIsTyped == FetchSpec => []FetchTypeOK
  <1>1. FetchSpec => []TabTypes
    BY TabTypesStart, TabTypesStep, PTL DEF FetchSpec
  <1>2. TabTypes => FetchTypeOK
    BY DEF TabTypes
  <1> QED
    BY <1>1, <1>2, PTL

-----------------------------------------------------------------------------
(* When the fetch and a browser job meet in Chrome, for any number of      *)
(* processes and crashes.                                                  *)
(*                                                                         *)
(* As long as no record fell quiet under a holder and none was overwritten *)
(* (mishap = {}), a role that is held has a fresh record that names its    *)
(* only, living holder (RecordsTrue).  A process that finds the other role *)
(* free or stale has then noted nobody, and so has everyone who holds a    *)
(* role or is about to publish one (NobodyNoted).                          *)

DeadHoldNothing == \A p \in dead : held[p] = {} /\ step[p] = "left"

\* What a process is taking or giving up, it does not hold.
WantsNew == \A p \in Procs :
    step[p] \in {"look", "unlink", "publish", "drop"} => want[p] \in Roles \ held[p]

RecordsTrue == \A p \in Procs : \A role \in held[p] : record[role] = p /\ fresh[role]

NobodyNoted == \A p \in Procs :
    /\ held[p] # {} \/ step[p] \in {"publish", "unlink"} => noted[p] = {}
    /\ step[p] = "unlink" => Other(want[p]) \notin held[p]

LockInv == /\ LockTypeOK /\ DeadHoldNothing /\ WantsNew
           /\ mishap = {} => RecordsTrue /\ NobodyNoted

-----------------------------------------------------------------------------

\* The other role is a role.
LEMMA OtherRole ==
    ASSUME NEW role \in Roles
    PROVE  /\ Other(role) \in Roles /\ Other(role) # role
           /\ \A r \in Roles : r = role \/ r = Other(role)
  BY DEF Other, Roles, Fetch, Browser

\* A mishap is never undone.
LEMMA MishapStays ==
    ASSUME LockInv, [LockNext]_lockVars, mishap' = {}
    PROVE  mishap = {}
  <1>1. \A p, role : Overwrites(p, role) = {} => mishap = {}
    BY DEF Overwrites
  <1> QED
    BY <1>1 DEF LockNext, Look, Unlink, Publish, Drop, HeartbeatWrite, Kill, Begin, Heartbeat,
                Release, Quiet, lockVars

\* With no mishap, who holds a role is the one its record names, and he lives.
LEMMA OnlyHolder ==
    ASSUME LockInv, mishap = {}, NEW role \in Roles, NEW q \in Holders(role)
    PROVE  record[role] = q /\ fresh[role] /\ q \in Procs \ dead
  BY DEF LockInv, RecordsTrue, Holders, DeadHoldNothing

\* Begin and Heartbeat touch neither records nor holders.
LEMMA BeginInv ==
    ASSUME LockInv, NEW p \in Procs, NEW role \in Roles, Begin(p, role) \/ Heartbeat(p, role)
    PROVE  LockInv'
  <1>1. LockTypeOK
    BY DEF LockInv
  <1>2. CASE Begin(p, role)
    <2>1. /\ step[p] = "run" /\ role \notin held[p]
          /\ step' = [step EXCEPT ![p] = "look"] /\ want' = [want EXCEPT ![p] = role]
          /\ UNCHANGED <<record, fresh, held, beating, dead, noted, mishap>>
      BY <1>2 DEF Begin, Wants, Goto
    <2>2. LockTypeOK'
      BY <1>1, <2>1 DEF LockTypeOK
    <2>3. DeadHoldNothing' /\ WantsNew'
      BY <1>1, <2>1 DEF LockInv, LockTypeOK, DeadHoldNothing, WantsNew
    <2>4. mishap = {} => RecordsTrue' /\ NobodyNoted'
      BY <1>1, <2>1 DEF LockInv, LockTypeOK, RecordsTrue, NobodyNoted
    <2> QED
      BY <2>1, <2>2, <2>3, <2>4 DEF LockInv
  <1>3. CASE Heartbeat(p, role)
    <2>1. /\ beating' = [beating EXCEPT ![p] = role]
          /\ UNCHANGED <<record, fresh, held, step, want, dead, noted, mishap>>
      BY <1>3 DEF Heartbeat
    <2>2. LockTypeOK'
      BY <1>1, <2>1 DEF LockTypeOK
    <2> QED
      BY <2>1, <2>2 DEF LockInv, DeadHoldNothing, WantsNew, RecordsTrue, NobodyNoted
  <1> QED
    BY <1>2, <1>3

\* Looking notes who holds the other role: nobody, for who goes on or holds
\* something already.
LEMMA LookInv ==
    ASSUME LockInv, NEW p \in Procs, Look(p)
    PROVE  LockInv'
  <1> DEFINE other == Other(want[p])
  <1>1. LockTypeOK /\ step[p] = "look" /\ want[p] \in Roles \ held[p]
    BY DEF LockInv, WantsNew, Look
  <1>2. /\ other \in Roles
        /\ noted' = [noted EXCEPT ![p] = Holders(other) \ {p}]
        /\ UNCHANGED <<record, fresh, held, beating, dead, mishap>>
    BY <1>1, OtherRole DEF Look
  <1>3. PICK next \in {"look", "publish", "unlink", "run", "left"} :
            /\ step' = [step EXCEPT ![p] = next]
            /\ \/ want' = want
               \/ next \in {"run", "left"} /\ want' = [want EXCEPT ![p] = NoRole]
            /\ next = "publish" => Free(p, other)
            /\ next = "unlink" => Stale(p, other)
    <2>1. [step EXCEPT ![p] = "look"] = step /\ [want EXCEPT ![p] = want[p]] = want
      BY <1>1 DEF LockTypeOK
    <2>2. \/ Free(p, other) /\ Goto(p, "publish", want[p])
          \/ Stale(p, other) /\ Goto(p, "unlink", want[p])
          \/ \E next \in {"run", "left"} : Goto(p, next, NoRole)
          \/ UNCHANGED <<step, want>>
      BY DEF Look
    <2> QED
      BY <2>1, <2>2 DEF Goto
  <1>4. LockTypeOK'
    <2>1. step' \in [Procs -> {"run", "look", "unlink", "publish", "drop", "left"}]
      BY <1>1, <1>3 DEF LockTypeOK
    <2>2. want' \in [Procs -> Roles \cup {NoRole}]
      BY <1>1, <1>3 DEF LockTypeOK
    <2>3. noted' \in [Procs -> SUBSET Procs]
      BY <1>1, <1>2 DEF LockTypeOK, Holders
    <2> QED
      BY <1>1, <1>2, <2>1, <2>2, <2>3 DEF LockTypeOK
  <1>5. p \notin dead
    BY <1>1 DEF LockInv, DeadHoldNothing
  <1>6. /\ step'[p] = next
        /\ \A q \in Procs \ {p} : step'[q] = step[q] /\ want'[q] = want[q] /\ noted'[q] = noted[q]
        /\ want'[p] = want[p] \/ next \in {"run", "left"}
        /\ noted'[p] = Holders(other) \ {p}
    BY <1>1, <1>2, <1>3 DEF LockTypeOK
  <1>7. DeadHoldNothing' /\ WantsNew'
    BY <1>1, <1>2, <1>5, <1>6 DEF LockInv, DeadHoldNothing, WantsNew, LockTypeOK
  <1>8. ASSUME mishap = {}
        PROVE  RecordsTrue' /\ NobodyNoted'
    <2>1. RecordsTrue'
      BY <1>2, <1>8 DEF LockInv, RecordsTrue
    <2>2. \A q \in Holders(other) : record[other] = q /\ fresh[other] /\ q \in Procs \ dead
      BY <1>2, <1>8, OnlyHolder
    <2>3. next \in {"publish", "unlink"} => Holders(other) \ {p} = {}
      <3>1. ASSUME next = "publish", NEW q \in Holders(other)
            PROVE  q = p
        <4>1. record[other] \in {NoProc, p} /\ record[other] = q /\ q \in Procs
          BY <1>3, <2>2, <3>1 DEF Free
        <4> QED
          BY <4>1, ProcessesAssumption DEF Procs
      <3>2. ASSUME next = "unlink", NEW q \in Holders(other)
            PROVE  FALSE
        <4>1. record[other] \in dead \/ ~fresh[other]
          BY <1>3, <3>2 DEF Stale
        <4> QED
          BY <2>2, <3>2, <4>1
      <3> QED
        BY <3>1, <3>2
    <2>4. held[p] # {} => Holders(other) \ {p} = {}
      <3> SUFFICES ASSUME held[p] # {} PROVE Holders(other) \ {p} = {}
        OBVIOUS
      <3>1. held[p] \subseteq Roles
        BY <1>1 DEF LockTypeOK
      <3>2. other \in held[p]
        BY <1>1, <3>1, OtherRole
      <3>3. p \in Holders(other)
        BY <3>2 DEF Holders
      <3> QED
        BY <2>2, <3>3
    <2>5. next = "unlink" => other \notin held[p]
      <3>1. other \in held[p] => p \in Holders(other)
        BY DEF Holders
      <3> QED
        BY <1>3, <2>2, <3>1 DEF Stale, Free
    <2>6. NobodyNoted'
      BY <1>2, <1>6, <1>8, <2>3, <2>4, <2>5 DEF LockInv, NobodyNoted
    <2> QED
      BY <2>1, <2>6
  <1> QED
    BY <1>2, <1>4, <1>7, <1>8 DEF LockInv

\* Removing a stale record: without a mishap nobody held the role.
LEMMA UnlinkInv ==
    ASSUME LockInv, NEW p \in Procs, Unlink(p), mishap' = {} => mishap = {}
    PROVE  LockInv'
  <1> DEFINE other == Other(want[p])
  <1>1. LockTypeOK /\ step[p] = "unlink" /\ want[p] \in Roles \ held[p] /\ other \in Roles
    BY OtherRole DEF LockInv, WantsNew, Unlink
  <1>2. /\ record' = [record EXCEPT ![other] = NoProc]
        /\ step' = [step EXCEPT ![p] = "publish"] /\ want' = [want EXCEPT ![p] = want[p]]
        /\ mishap' = IF record[other] \in Holders(other) THEN Overwrites(p, other) ELSE mishap
        /\ UNCHANGED <<fresh, held, beating, dead, noted>>
    BY DEF Unlink, Unlinked, Goto
  <1>3. want' = want
    BY <1>1, <1>2 DEF LockTypeOK
  <1>4. LockTypeOK'
    <2>1. mishap' \subseteq {"quiet", "lost"}
      BY <1>1, <1>2 DEF LockTypeOK, Overwrites
    <2> QED
      BY <1>1, <1>2, <1>3, <2>1 DEF LockTypeOK
  <1>5. DeadHoldNothing' /\ WantsNew'
    BY <1>1, <1>2, <1>3 DEF LockInv, LockTypeOK, DeadHoldNothing, WantsNew
  <1>6. ASSUME mishap' = {}
        PROVE  RecordsTrue' /\ NobodyNoted'
    <2>1. mishap = {} /\ RecordsTrue /\ NobodyNoted
      BY <1>6 DEF LockInv
    <2>2. Holders(other) = {}
      <3>1. record[other] \in Holders(other) => Holders(other) \ {p} = {}
        BY <1>2, <1>6 DEF Overwrites
      <3>2. p \notin Holders(other)
        BY <1>1, <2>1 DEF NobodyNoted, Holders
      <3>3. \A q \in Holders(other) : record[other] = q
        BY <1>1, <2>1, OnlyHolder
      <3> QED
        BY <3>1, <3>2, <3>3
    <2>3. RecordsTrue'
      BY <1>1, <1>2, <2>1, <2>2 DEF RecordsTrue, Holders, LockTypeOK
    <2>4. NobodyNoted'
      BY <1>1, <1>2, <1>3, <2>1 DEF NobodyNoted, LockTypeOK
    <2> QED
      BY <2>3, <2>4
  <1> QED
    BY <1>4, <1>5, <1>6 DEF LockInv

\* Writing a record, by publishing or by a heartbeat: without a mishap nobody
\* else held the role.
LEMMA HeartbeatInv ==
    ASSUME LockInv, NEW p \in Procs, Publish(p) \/ HeartbeatWrite(p), mishap' = {} => mishap = {}
    PROVE  LockInv'
  <1>1. LockTypeOK
    BY DEF LockInv
  <1>2. PICK role \in Roles :
            /\ record' = [record EXCEPT ![role] = p] /\ fresh' = [fresh EXCEPT ![role] = TRUE]
            /\ mishap' = Overwrites(p, role)
            /\ \/ /\ step[p] = "publish" /\ step' = [step EXCEPT ![p] = "run"]
                  /\ want' = [want EXCEPT ![p] = NoRole]
                  /\ held' = [held EXCEPT ![p] = @ \cup {role}] /\ beating' = beating
               \/ UNCHANGED <<step, want, held>> /\ beating' = [beating EXCEPT ![p] = NoRole]
    <2>1. CASE Publish(p)
      <3>1. want[p] \in Roles
        BY <2>1 DEF LockInv, WantsNew, Publish
      <3> QED
        BY <2>1, <3>1 DEF Publish, WriteRecord, Goto
    <2>2. CASE HeartbeatWrite(p)
      <3>1. beating[p] \in Roles
        BY <1>1, <2>2 DEF HeartbeatWrite, LockTypeOK
      <3> QED
        BY <2>2, <3>1 DEF HeartbeatWrite, WriteRecord
    <2> QED
      BY <2>1, <2>2
  <1>3. UNCHANGED <<dead, noted>>
    BY DEF Publish, HeartbeatWrite
  <1>4. LockTypeOK'
    <2>1. /\ record' \in [Roles -> Procs \cup {NoProc}] /\ fresh' \in [Roles -> BOOLEAN]
          /\ held' \in [Procs -> SUBSET Roles]
      BY <1>1, <1>2 DEF LockTypeOK
    <2>2. /\ step' \in [Procs -> {"run", "look", "unlink", "publish", "drop", "left"}]
          /\ want' \in [Procs -> Roles \cup {NoRole}] /\ beating' \in [Procs -> Roles \cup {NoRole}]
      BY <1>1, <1>2 DEF LockTypeOK
    <2>3. mishap' \subseteq {"quiet", "lost"}
      BY <1>1, <1>2 DEF LockTypeOK, Overwrites
    <2> QED
      BY <1>1, <1>3, <2>1, <2>2, <2>3 DEF LockTypeOK
  <1>5. \A q \in Procs \ {p} : held'[q] = held[q] /\ step'[q] = step[q] /\ want'[q] = want[q]
    BY <1>1, <1>2 DEF LockTypeOK
  <1>6. \/ held'[p] = held[p] /\ step'[p] = step[p] /\ want'[p] = want[p]
        \/ step[p] = "publish" /\ step'[p] = "run" /\ held'[p] = held[p] \cup {role}
    BY <1>1, <1>2 DEF LockTypeOK
  <1>7. DeadHoldNothing' /\ WantsNew'
    BY <1>1, <1>3, <1>5, <1>6 DEF LockInv, LockTypeOK, DeadHoldNothing, WantsNew
  <1>8. ASSUME mishap' = {}
        PROVE  RecordsTrue' /\ NobodyNoted'
    <2>1. mishap = {} /\ RecordsTrue /\ NobodyNoted
      BY <1>8 DEF LockInv
    <2>2. \A q \in Procs \ {p} : role \notin held[q]
      BY <1>2, <1>8 DEF Overwrites, Holders
    <2>3. record'[role] = p /\ fresh'[role] /\ \A r \in Roles \ {role} :
              record'[r] = record[r] /\ fresh'[r] = fresh[r]
      BY <1>1, <1>2 DEF LockTypeOK
    <2>4. \A q \in Procs : held'[q] \subseteq Roles
      BY <1>4 DEF LockTypeOK
    <2>5. RecordsTrue'
      BY <1>5, <1>6, <2>1, <2>2, <2>3, <2>4 DEF RecordsTrue
    <2>6. NobodyNoted'
      BY <1>3, <1>5, <1>6, <2>1 DEF NobodyNoted
    <2> QED
      BY <2>5, <2>6
  <1> QED
    BY <1>4, <1>7, <1>8 DEF LockInv

\* Giving a role up: first in memory, then the file.
LEMMA ReleaseInv ==
    ASSUME LockInv, NEW p \in Procs, NEW role \in Roles, Release(p, role)
    PROVE  LockInv'
  <1>1. LockTypeOK /\ step[p] = "run"
    BY DEF LockInv, Release
  <1>2. PICK next \in {"drop", "left", "run"} :
            /\ step' = [step EXCEPT ![p] = next]
            /\ want' = [want EXCEPT ![p] = IF next = "drop" THEN role ELSE NoRole]
    BY DEF Release, Goto
  <1>3. /\ held' = [held EXCEPT ![p] = @ \ {role}]
        /\ noted' = [noted EXCEPT ![p] = {}]
        /\ UNCHANGED <<record, fresh, beating, dead, mishap>>
    BY DEF Release
  <1>4. LockTypeOK'
    <2>1. /\ step' \in [Procs -> {"run", "look", "unlink", "publish", "drop", "left"}]
          /\ want' \in [Procs -> Roles \cup {NoRole}]
      BY <1>1, <1>2 DEF LockTypeOK
    <2>2. held' \in [Procs -> SUBSET Roles] /\ noted' \in [Procs -> SUBSET Procs]
      BY <1>1, <1>3 DEF LockTypeOK
    <2> QED
      BY <1>1, <1>3, <2>1, <2>2 DEF LockTypeOK
  <1>5. /\ \A q \in Procs \ {p} : /\ held'[q] = held[q] /\ step'[q] = step[q]
                                  /\ want'[q] = want[q] /\ noted'[q] = noted[q]
        /\ held'[p] = held[p] \ {role} /\ step'[p] = next /\ noted'[p] = {}
        /\ next = "drop" => want'[p] = role
    BY <1>1, <1>2, <1>3 DEF LockTypeOK
  <1>6. DeadHoldNothing' /\ WantsNew'
    BY <1>1, <1>3, <1>5 DEF LockInv, DeadHoldNothing, WantsNew, LockTypeOK
  <1>7. mishap = {} => RecordsTrue' /\ NobodyNoted'
    BY <1>3, <1>5 DEF LockInv, RecordsTrue, NobodyNoted
  <1> QED
    BY <1>3, <1>4, <1>6, <1>7 DEF LockInv

\* Deleting the file of a role given up: without a mishap nobody holds it.
LEMMA GiveUpInv ==
    ASSUME LockInv, NEW p \in Procs, Drop(p), mishap' = {} => mishap = {}
    PROVE  LockInv'
  <1>1. LockTypeOK /\ step[p] = "drop" /\ want[p] \in Roles \ held[p]
    BY DEF LockInv, WantsNew, Drop
  <1>2. PICK next \in {"left", "run"} :
            /\ step' = [step EXCEPT ![p] = next] /\ want' = [want EXCEPT ![p] = NoRole]
    BY DEF Drop, Goto
  <1>3. /\ record' = [record EXCEPT ![want[p]] = NoProc]
        /\ mishap' = Overwrites(p, want[p])
        /\ UNCHANGED <<fresh, held, beating, dead, noted>>
    BY DEF Drop, Unlinked
  <1>4. LockTypeOK'
    <2>1. /\ step' \in [Procs -> {"run", "look", "unlink", "publish", "drop", "left"}]
          /\ want' \in [Procs -> Roles \cup {NoRole}]
      BY <1>1, <1>2 DEF LockTypeOK
    <2>2. mishap' \subseteq {"quiet", "lost"} /\ record' \in [Roles -> Procs \cup {NoProc}]
      BY <1>1, <1>3 DEF LockTypeOK, Overwrites
    <2> QED
      BY <1>1, <1>3, <2>1, <2>2 DEF LockTypeOK
  <1>5. /\ \A q \in Procs \ {p} : step'[q] = step[q] /\ want'[q] = want[q]
        /\ step'[p] = next
    BY <1>1, <1>2 DEF LockTypeOK
  <1>6. DeadHoldNothing' /\ WantsNew'
    BY <1>1, <1>3, <1>5 DEF LockInv, DeadHoldNothing, WantsNew, LockTypeOK
  <1>7. ASSUME mishap' = {}
        PROVE  RecordsTrue' /\ NobodyNoted'
    <2>1. mishap = {} /\ RecordsTrue /\ NobodyNoted
      BY <1>7 DEF LockInv
    <2>2. Holders(want[p]) = {}
      BY <1>1, <1>3, <1>7 DEF Overwrites, Holders
    <2>3. RecordsTrue'
      BY <1>1, <1>3, <2>1, <2>2 DEF RecordsTrue, Holders, LockTypeOK
    <2>4. NobodyNoted'
      BY <1>3, <1>5, <2>1 DEF NobodyNoted
    <2> QED
      BY <2>3, <2>4
  <1> QED
    BY <1>4, <1>6, <1>7 DEF LockInv

\* A record falls quiet: a mishap, unless nobody holds the role.
LEMMA QuietInv ==
    ASSUME LockInv, NEW role \in Roles, Quiet(role), mishap' = {} => mishap = {}
    PROVE  LockInv'
  <1>1. /\ fresh' = [fresh EXCEPT ![role] = FALSE]
        /\ mishap' = IF Holders(role) # {} THEN mishap \cup {"quiet"} ELSE mishap
        /\ UNCHANGED <<record, held, step, want, beating, dead, noted>>
    BY DEF Quiet
  <1>2. LockTypeOK'
    BY <1>1 DEF LockInv, LockTypeOK
  <1>3. DeadHoldNothing' /\ WantsNew'
    BY <1>1 DEF LockInv, DeadHoldNothing, WantsNew
  <1>4. ASSUME mishap' = {}
        PROVE  RecordsTrue' /\ NobodyNoted'
    <2>1. RecordsTrue /\ NobodyNoted /\ Holders(role) = {}
      BY <1>1, <1>4 DEF LockInv
    <2> QED
      BY <1>1, <2>1 DEF LockInv, LockTypeOK, RecordsTrue, NobodyNoted, Holders
  <1> QED
    BY <1>2, <1>3, <1>4 DEF LockInv

\* A killed process holds nothing; its records stay behind.
LEMMA KillInv ==
    ASSUME LockInv, NEW p \in Procs, Kill(p)
    PROVE  LockInv'
  <1>1. /\ dead' = dead \cup {p} /\ held' = [held EXCEPT ![p] = {}]
        /\ beating' = [beating EXCEPT ![p] = NoRole] /\ noted' = [noted EXCEPT ![p] = {}]
        /\ step' = [step EXCEPT ![p] = "left"] /\ want' = [want EXCEPT ![p] = NoRole]
        /\ UNCHANGED <<record, fresh, mishap>>
    BY DEF Kill, Goto
  <1>2. LockTypeOK
    BY DEF LockInv
  <1>3. LockTypeOK'
    BY <1>1, <1>2 DEF LockTypeOK
  <1>4. /\ \A q \in Procs \ {p} : /\ held'[q] = held[q] /\ step'[q] = step[q]
                                  /\ want'[q] = want[q] /\ noted'[q] = noted[q]
        /\ held'[p] = {} /\ step'[p] = "left" /\ noted'[p] = {}
    BY <1>1, <1>2 DEF LockTypeOK
  <1>5. DeadHoldNothing' /\ WantsNew'
    BY <1>1, <1>2, <1>4 DEF LockInv, DeadHoldNothing, WantsNew, LockTypeOK
  <1>6. mishap = {} => RecordsTrue' /\ NobodyNoted'
    BY <1>1, <1>4 DEF LockInv, RecordsTrue, NobodyNoted
  <1> QED
    BY <1>1, <1>3, <1>5, <1>6 DEF LockInv

-----------------------------------------------------------------------------

\* As long as no mishap occurs, records are true and nobody is noted, in every state of
\* every sequence of looks, writes, releases and crashes.
THEOREM LockInvariance == LockSpec => []LockInv
  <1>1. LockInit => LockInv
    BY DEF LockInit, LockInv, LockTypeOK, DeadHoldNothing, WantsNew, RecordsTrue, NobodyNoted
  <1>2. LockInv /\ [LockNext]_lockVars => LockInv'
    <2> SUFFICES ASSUME LockInv, [LockNext]_lockVars PROVE LockInv'
      OBVIOUS
    <2>1. mishap' = {} => mishap = {}
      BY MishapStays
    <2>2. CASE UNCHANGED lockVars
      BY <2>2 DEF lockVars, LockInv, LockTypeOK, DeadHoldNothing, WantsNew, RecordsTrue,
                  NobodyNoted
    <2>3. CASE LockNext
      BY <2>1, <2>3, BeginInv, LookInv, UnlinkInv, HeartbeatInv, ReleaseInv, GiveUpInv,
         QuietInv, KillInv
         DEF LockNext
    <2> QED
      BY <2>2, <2>3
  <1> QED
    BY <1>1, <1>2, PTL DEF LockSpec

\* l2_activity_lock.py:254-256, for any number of processes: while records stay
\* fresh and their own, nobody drives Chrome beside a holder it could have noted.
THEOREM Respected == LockSpec => []PublishedIsRespected
  <1>1. LockInv => PublishedIsRespected
    BY DEF LockInv, NobodyNoted, PublishedIsRespected, Together
  <1> QED
    BY <1>1, LockInvariance, PTL

-----------------------------------------------------------------------------
(* A killed fetch run is resumed with all it had recorded, for any number  *)
(* of tasks, tabs, kills and resumptions.                                  *)
(*                                                                         *)
(* The strengthening: what a join did not destroy is among the lines that  *)
(* can be read, and a run that has a file without final newline open is    *)
(* about to write onto a record.  As long as no line was joined, only the  *)
(* last line can be unreadable, and that only while no run has the file    *)
(* open.                                                                   *)

\* What the tabs hold is what an outcome line can say.
TabsHold == \A t \in Tabs : \/ tabs[t] = FreeTab
                            \/ tabs[t].ordinal \in Ordinals /\ tabs[t].status \in Outcomes

\* Every line but a torn last one is a record.
Intact == Damaged \cap ToSet(Readable(lines)) = {}

\* What was written and not joined can be read.
Kept == sure \ joined \subseteq ToSet(Readable(lines))

\* What lacks its newline is a line, to a run that writes on a record.
OntoRecord == ~ended => lines # <<>> /\ (alive => Last(lines) \in Records)

WholeFile == joined = {} => /\ Intact
                            /\ alive \/ ended => Readable(lines) = lines
                            /\ alive => mem = Parsed(lines)

JournalInv == /\ lines \in Seq(Records \cup Damaged)
              /\ sure \subseteq Records /\ joined \subseteq Records
              /\ TabsHold
              /\ Kept /\ OntoRecord
              /\ WholeFile

-----------------------------------------------------------------------------

\* What a reader knows of a set of records, kind by kind.
LEMMA KnownParts ==
    ASSUME NEW records
    PROVE  /\ Known(records).tasks = {r.ordinal : r \in {r \in records : r.kind = "task"}}
           /\ Known(records).results = [o \in Ordinals |-> Outcome(records, o)]
           /\ Known(records).heads = {r.kind : r \in {r \in records : r.kind \in Heads}}
  BY DEF Known

\* No record is a damaged line.
LEMMA RecordParses ==
    ASSUME NEW line \in Records
    PROVE  line \notin Damaged
  <1>1. line.kind \in Heads \cup {"task", "result"}
    BY DEF Records
  <1> QED
    BY <1>1 DEF Heads, Damaged, Unparsable, Undecodable

\* _apply, record by record, comes to what Known says of all of them, so the
\* order in which records were written does not matter.
LEMMA ApplyKnown ==
    ASSUME NEW records \in SUBSET Records, NEW line \in Records
    PROVE  Apply(Known(records), line) = Known(records \cup {line})
  <1> DEFINE more == records \cup {line}
  <1>0. CASE line.kind \in Heads
    <2>1. {r.kind : r \in {r \in more : r.kind \in Heads}}
              = {r.kind : r \in {r \in records : r.kind \in Heads}} \cup {line.kind}
      BY <1>0
    <2>2. \A o \in Ordinals : Outcome(more, o) = Outcome(records, o)
      <3> SUFFICES ASSUME NEW o \in Ordinals PROVE Outcome(more, o) = Outcome(records, o)
        OBVIOUS
      <3>1. {r \in more : r.kind = "result" /\ r.ordinal = o}
                = {r \in records : r.kind = "result" /\ r.ordinal = o}
        BY <1>0 DEF Heads
      <3> QED
        BY <3>1 DEF Outcome
    <2>3. {r \in more : r.kind = "task"} = {r \in records : r.kind = "task"}
      BY <1>0 DEF Heads
    <2>4. Apply(Known(records), line)
              = [heads |-> Known(records).heads \cup {line.kind},
                 tasks |-> Known(records).tasks,
                 results |-> Known(records).results]
      BY <1>0 DEF Apply, Known
    <2> QED
      BY <2>1, <2>2, <2>3, <2>4, KnownParts DEF Known
  <1>1. CASE line.kind = "task"
    <2>0. {r \in more : r.kind \in Heads} = {r \in records : r.kind \in Heads}
      BY <1>1 DEF Heads
    <2>1. {r.ordinal : r \in {r \in more : r.kind = "task"}}
              = {r.ordinal : r \in {r \in records : r.kind = "task"}} \cup {line.ordinal}
      BY <1>1
    <2>2. \A o \in Ordinals : Outcome(more, o) = Outcome(records, o)
      <3> SUFFICES ASSUME NEW o \in Ordinals PROVE Outcome(more, o) = Outcome(records, o)
        OBVIOUS
      <3>1. {r \in more : r.kind = "result" /\ r.ordinal = o}
                = {r \in records : r.kind = "result" /\ r.ordinal = o}
        BY <1>1
      <3> QED
        BY <3>1 DEF Outcome
    <2>3. Apply(Known(records), line)
              = [heads |-> Known(records).heads,
                 tasks |-> Known(records).tasks \cup {line.ordinal},
                 results |-> Known(records).results]
      BY <1>1 DEF Apply, Known, Heads
    <2> QED
      BY <2>0, <2>1, <2>2, <2>3, KnownParts DEF Known
  <1>2. CASE line.kind \notin Heads /\ line.kind # "task"
    <2> DEFINE o == line.ordinal
    <2>1. line.kind = "result" /\ o \in Ordinals /\ line.status \in Outcomes
      BY <1>2 DEF Records
    <2>2. /\ {r \in more : r.kind = "task"} = {r \in records : r.kind = "task"}
          /\ {r \in more : r.kind \in Heads} = {r \in records : r.kind \in Heads}
      BY <2>1 DEF Heads
    <2>3. \A p \in Ordinals \ {o} : Outcome(more, p) = Outcome(records, p)
      <3> SUFFICES ASSUME NEW p \in Ordinals \ {o} PROVE Outcome(more, p) = Outcome(records, p)
        OBVIOUS
      <3>1. {r \in more : r.kind = "result" /\ r.ordinal = p}
                = {r \in records : r.kind = "result" /\ r.ordinal = p}
        OBVIOUS
      <3> QED
        BY <3>1 DEF Outcome
    <2>4. Outcome(more, o) = IF Outcome(records, o) = "persisted" THEN "persisted"
                             ELSE line.status
      <3> DEFINE says(rs) == {r.status : r \in {r \in rs : r.kind = "result" /\ r.ordinal = o}}
      <3>1. says(more) = says(records) \cup {line.status}
        BY <2>1
      <3>2. Outcome(more, o) = IF says(more) = {} THEN NoOutcome
                               ELSE IF "persisted" \in says(more) THEN "persisted" ELSE "error"
        BY DEF Outcome
      <3>3. Outcome(records, o) = IF says(records) = {} THEN NoOutcome
                                  ELSE IF "persisted" \in says(records) THEN "persisted" ELSE "error"
        BY DEF Outcome
      <3> HIDE DEF says
      <3> QED
        BY <2>1, <3>1, <3>2, <3>3 DEF Outcomes, NoOutcome
    <2>5. Apply(Known(records), line)
              = [heads |-> Known(records).heads,
                 tasks |-> Known(records).tasks,
                 results |-> IF Outcome(records, o) = "persisted" THEN Known(records).results
                             ELSE [Known(records).results EXCEPT ![o] = line.status]]
      BY <1>2, <2>1, KnownParts DEF Apply, Known
    <2>6. [p \in Ordinals |-> Outcome(more, p)]
              = IF Outcome(records, o) = "persisted" THEN Known(records).results
                ELSE [Known(records).results EXCEPT ![o] = line.status]
      <3> DEFINE was == [p \in Ordinals |-> Outcome(records, p)]
      <3>1. CASE Outcome(records, o) = "persisted"
        <4>1. \A p \in Ordinals : Outcome(more, p) = Outcome(records, p)
          BY <2>3, <2>4, <3>1
        <4> HIDE DEF more
        <4> QED
          BY <3>1, <4>1, KnownParts
      <3>2. CASE Outcome(records, o) # "persisted"
        <4>1. [was EXCEPT ![o] = line.status]
                  = [p \in Ordinals |-> IF p = o THEN line.status ELSE Outcome(records, p)]
          OBVIOUS
        <4>2. \A p \in Ordinals :
                  Outcome(more, p) = IF p = o THEN line.status ELSE Outcome(records, p)
          BY <2>3, <2>4, <3>2
        <4> HIDE DEF more
        <4> QED
          BY <3>2, <4>1, <4>2, KnownParts
      <3> QED
        BY <3>1, <3>2
    <2> QED
      BY <2>2, <2>5, <2>6, KnownParts DEF Known
  <1> QED
    BY <1>0, <1>1, <1>2

\* A line more at the end of the file.
LEMMA LineMore ==
    ASSUME NEW S, NEW file \in Seq(S), NEW line
    PROVE  /\ ToSet(Append(file, line)) = ToSet(file) \cup {line}
           /\ Append(file, line) # <<>>
           /\ Last(Append(file, line)) = line
           /\ Front(Append(file, line)) = file
  <1>1. /\ Len(Append(file, line)) = Len(file) + 1
        /\ Append(file, line)[Len(file) + 1] = line
        /\ \A n \in 1 .. Len(file) : Append(file, line)[n] = file[n]
        /\ DOMAIN Append(file, line) = 1 .. Len(file) + 1
        /\ DOMAIN file = 1 .. Len(file)
        /\ Len(file) \in Nat
    OBVIOUS
  <1>2. ToSet(Append(file, line)) = ToSet(file) \cup {line}
    BY <1>1 DEF ToSet
  <1>3. Last(Append(file, line)) = line /\ Append(file, line) # <<>>
    BY <1>1 DEF Last
  <1>4. Front(Append(file, line)) = file
    BY <1>1, SubSeqProperties DEF Front
  <1> QED
    BY <1>2, <1>3, <1>4

\* The file without its last line.
LEMMA FrontSeq ==
    ASSUME NEW S, NEW file \in Seq(S)
    PROVE  /\ Front(file) \in Seq(S)
           /\ ToSet(Front(file)) \subseteq ToSet(file)
  <1>1. /\ Len(file) \in Nat /\ DOMAIN file = 1 .. Len(file)
    OBVIOUS
  <1>2. CASE file = <<>>
    BY <1>2 DEF Front, ToSet
  <1>3. CASE file # <<>>
    <2>1. Len(file) >= 1
      BY <1>1, <1>3
    <2>2. /\ Front(file) \in Seq(S) /\ Len(Front(file)) = Len(file) - 1
          /\ \A n \in 1 .. Len(file) - 1 : Front(file)[n] = file[n]
      BY <1>1, <2>1, SubSeqProperties DEF Front
    <2> QED
      BY <1>1, <2>1, <2>2 DEF ToSet
  <1> QED
    BY <1>2, <1>3

\* What a sequence consists of.
LEMMA SeqElements ==
    ASSUME NEW S, NEW D, NEW file \in Seq(S \cup D), D \cap ToSet(file) = {}
    PROVE  ToSet(file) \subseteq S
  BY DEF ToSet

\* The last line and those before it.
LEMMA LastLine ==
    ASSUME NEW S, NEW file \in Seq(S), file # <<>>
    PROVE  ToSet(file) = ToSet(Front(file)) \cup {Last(file)}
  <1>1. /\ Len(file) \in Nat \ {0} /\ DOMAIN file = 1 .. Len(file)
    OBVIOUS
  <1>2. /\ Front(file) \in Seq(S) /\ Len(Front(file)) = Len(file) - 1
        /\ \A n \in 1 .. Len(file) - 1 : Front(file)[n] = file[n]
    BY <1>1, SubSeqProperties DEF Front
  <1>3. 1 .. Len(file) = (1 .. Len(file) - 1) \cup {Len(file)}
    BY <1>1
  <1>4. DOMAIN Front(file) = 1 .. Len(file) - 1
    BY <1>2
  <1> QED
    BY <1>1, <1>2, <1>3, <1>4 DEF ToSet, Last

\* An append to a file whose last line is ended loses nothing and tears nothing;
\* one onto a line without newline costs that line and itself.
LEMMA AppendInv ==
    ASSUME JournalInv, NEW line \in Records, AppendRecord(line), alive' = alive, TabsHold'
    PROVE  JournalInv'
  <1>1. /\ lines \in Seq(Records \cup Damaged) /\ alive /\ ended' = TRUE
        /\ sure' = sure \cup {line} /\ sure' \subseteq Records
        /\ sure \ joined \subseteq ToSet(Readable(lines)) /\ joined \subseteq Records
        /\ OntoRecord'
    BY DEF JournalInv, AppendRecord, Kept, OntoRecord
  <1>0. ToSet(Readable(lines)) \subseteq ToSet(lines)
    BY <1>1, FrontSeq DEF Readable
  <1>2. CASE ended
    <2>1. lines' = Append(lines, line) /\ joined' = joined
      BY <1>2 DEF AppendRecord, Written
    <2>2. /\ ToSet(lines') = ToSet(lines) \cup {line}
          /\ Readable(lines') = lines'
      BY <1>1, <2>1, LineMore, RecordParses DEF Readable
    <2>3. ASSUME joined = {}
          PROVE  WholeFile'
      <3>1. /\ Readable(lines) = lines /\ Damaged \cap ToSet(lines) = {}
            /\ mem = Known(ToSet(lines))
        BY <1>1, <2>3 DEF JournalInv, WholeFile, Intact, Parsed
      <3>2. ToSet(lines) \subseteq Records
        BY <1>1, <3>1, SeqElements
      <3>3. mem' = Known(ToSet(lines) \cup {line})
        BY <3>1, <3>2, ApplyKnown DEF AppendRecord
      <3> QED
        BY <2>2, <3>1, <3>3, RecordParses DEF WholeFile, Intact, Parsed
    <2>4. lines' \in Seq(Records \cup Damaged)
      BY <1>1, <2>1, AppendProperties
    <2>5. Kept'
      BY <1>0, <1>1, <2>1, <2>2 DEF Kept
    <2>6. WholeFile'
      BY <2>1, <2>3 DEF WholeFile
    <2> QED
      BY <1>1, <2>1, <2>4, <2>5, <2>6 DEF JournalInv
  <1>3. CASE ~ended
    <2>1. /\ joined' = joined \cup {Last(lines), line}
          /\ lines' = Append(Front(lines), Unparsable)
          /\ lines # <<>> /\ Last(lines) \in Records
      BY <1>1, <1>3 DEF AppendRecord, Written, JournalInv, OntoRecord
    <2>2. /\ Front(lines) \in Seq(Records \cup Damaged) /\ Unparsable \in Damaged
          /\ ToSet(lines) = ToSet(Front(lines)) \cup {Last(lines)}
      BY <1>1, <2>1, FrontSeq, LastLine DEF Damaged
    <2>3. lines' \in Seq(Records \cup Damaged)
      BY <2>1, <2>2, AppendProperties
    <2>4. Readable(lines') = Front(lines)
      BY <2>1, <2>2, LineMore DEF Readable
    <2>5. Kept'
      BY <1>0, <1>1, <2>1, <2>2, <2>4 DEF Kept
    <2>6. WholeFile'
      BY <2>1 DEF WholeFile
    <2> QED
      BY <1>1, <2>1, <2>3, <2>5, <2>6 DEF JournalInv
  <1> QED
    BY <1>2, <1>3

\* A process that is gone has nothing in its tabs.
LEMMA GoneTabs ==
    ASSUME Gone
    PROVE  TabsHold' /\ ~alive'
  BY DEF Gone, TabsHold

\* A kill inside an append tears the last line at most, or leaves a whole one
\* that lacks its newline.
LEMMA TornInv ==
    ASSUME JournalInv, NEW line \in Records, Torn(line)
    PROVE  JournalInv'
  <1>1. /\ lines \in Seq(Records \cup Damaged) /\ sure \subseteq Records
        /\ alive /\ ~alive' /\ TabsHold' /\ ended' = FALSE /\ sure' = sure
        /\ sure \ joined \subseteq ToSet(Readable(lines)) /\ joined \subseteq Records
    BY GoneTabs DEF JournalInv, Torn, Gone, Kept
  <1>0. ToSet(Readable(lines)) \subseteq ToSet(lines)
    BY <1>1, FrontSeq DEF Readable
  <1>2. line \in Records \cup Damaged
    OBVIOUS
  <1>3. ASSUME NEW damage \in Damaged, ended, lines' = Append(lines, damage), joined' = joined
        PROVE  JournalInv'
    <2>1. Readable(lines') = lines /\ OntoRecord'
      BY <1>1, <1>3, LineMore DEF Readable, OntoRecord
    <2>2. lines' \in Seq(Records \cup Damaged)
      BY <1>1, <1>2, <1>3, AppendProperties
    <2>3. Kept'
      BY <1>0, <1>1, <1>3, <2>1 DEF Kept
    <2>4. WholeFile'
      BY <1>1, <1>3, <2>1 DEF JournalInv, WholeFile, Intact
    <2> QED
      BY <1>1, <1>3, <2>1, <2>2, <2>3, <2>4 DEF JournalInv
  <1>4. ASSUME NEW damage \in Damaged, ~ended, lines' = Append(Front(lines), damage),
               joined' = joined \cup {Last(lines)}
        PROVE  JournalInv'
    <2>1. lines # <<>> /\ Last(lines) \in Records
      BY <1>1, <1>4 DEF JournalInv, OntoRecord
    <2>2. /\ Front(lines) \in Seq(Records \cup Damaged)
          /\ ToSet(lines) = ToSet(Front(lines)) \cup {Last(lines)}
      BY <1>1, <2>1, FrontSeq, LastLine
    <2>3. lines' \in Seq(Records \cup Damaged)
      BY <1>4, <2>2, AppendProperties
    <2>4. Readable(lines') = Front(lines) /\ OntoRecord'
      BY <1>1, <1>4, <2>2, LineMore DEF Readable, OntoRecord
    <2>5. Kept'
      BY <1>0, <1>1, <1>4, <2>2, <2>4 DEF Kept
    <2>6. WholeFile'
      BY <1>4 DEF WholeFile
    <2> QED
      BY <1>1, <1>4, <2>1, <2>3, <2>4, <2>5, <2>6 DEF JournalInv
  <1>5. CASE ended /\ lines' = Append(lines, line) /\ UNCHANGED joined
    <2>1. /\ Readable(lines') = lines' /\ ToSet(lines') = ToSet(lines) \cup {line}
          /\ OntoRecord'
      BY <1>1, <1>5, LineMore, RecordParses DEF Readable, OntoRecord
    <2>2. lines' \in Seq(Records \cup Damaged)
      BY <1>1, <1>2, <1>5, AppendProperties
    <2>3. WholeFile'
      BY <1>1, <1>5, <2>1, RecordParses DEF JournalInv, WholeFile, Intact
    <2>4. Kept'
      BY <1>0, <1>1, <1>5, <2>1 DEF Kept
    <2> QED
      BY <1>1, <1>5, <2>1, <2>2, <2>3, <2>4 DEF JournalInv
  <1> QED
    BY <1>3, <1>4, <1>5 DEF Torn

\* A resumed run reads what is legible, cuts off what is not, and knows the rest.
LEMMA ResumeInv ==
    ASSUME JournalInv, ResumeFile
    PROVE  JournalInv'
  <1>1. /\ lines \in Seq(Records \cup Damaged) /\ sure' = sure /\ joined' = joined
        /\ Damaged \cap ToSet(Readable(lines)) = {} /\ lines' = Readable(lines)
        /\ alive' => mem' = Parsed(lines)
        /\ tabs' = tabs
    <2>1. ToSet(Readable(lines)) \subseteq ToSet(lines)
      BY FrontSeq DEF JournalInv, Readable
    <2> QED
      BY <2>1 DEF JournalInv, ResumeFile, Legible, Damaged
  <1>2. lines' \in Seq(Records \cup Damaged)
    BY <1>1, FrontSeq DEF Readable
  <1>3. ASSUME lines' # <<>> PROVE Last(lines') \in ToSet(lines')
    BY <1>2, <1>3 DEF Last, ToSet
  <1>4. Readable(lines') = lines'
    BY <1>1, <1>3 DEF Readable
  <1>5. Kept'
    BY <1>1, <1>4 DEF JournalInv, Kept
  <1>6. OntoRecord'
    <2>1. ASSUME ~ended'
          PROVE  lines' # <<>>
      <3>1. ~ended /\ lines' = lines
        BY <1>1, <2>1 DEF ResumeFile
      <3> QED
        BY <3>1 DEF JournalInv, OntoRecord
    <2>2. ToSet(lines') \subseteq Records
      BY <1>1, <1>2, SeqElements
    <2> QED
      BY <1>3, <2>1, <2>2 DEF OntoRecord
  <1> QED
    BY <1>1, <1>2, <1>4, <1>5, <1>6 DEF JournalInv, WholeFile, Intact, TabsHold, Parsed

\* What the tabs hold can be written down.
LEMMA WrittenRecords ==
    ASSUME TabsHold
    PROVE  /\ \A kind \in Heads : HeadRecord(kind) \in Records
           /\ \A o \in Ordinals : TaskRecord(o) \in Records
           /\ \A t \in Tabs : tabs[t] # FreeTab => ResultRecord(t) \in Records
  BY DEF TabsHold, HeadRecord, TaskRecord, ResultRecord, Records

\* Every step of a run, of its tabs and of a kill keeps the invariant.
LEMMA JournalStep == JournalInv /\ [CheckpointNext]_checkpointVars => JournalInv'
  <1> SUFFICES ASSUME JournalInv, [CheckpointNext]_checkpointVars
               PROVE  JournalInv'
    OBVIOUS
  <1>1. TabsHold
    BY DEF JournalInv
  <1>0. ASSUME NEW kind \in Heads, AddHead(kind)
        PROVE  JournalInv'
    <2>1. HeadRecord(kind) \in Records
      BY <1>1, WrittenRecords
    <2>2. CASE AppendRecord(HeadRecord(kind)) /\ UNCHANGED <<alive, tabs, tries, kills>>
      BY <1>1, <2>1, <2>2, AppendInv DEF TabsHold
    <2> QED
      BY <1>0, <2>1, <2>2, TornInv DEF AddHead
  <1>2. ASSUME NEW o \in Ordinals, AddTask(o)
        PROVE  JournalInv'
    <2>1. TaskRecord(o) \in Records
      BY <1>1, WrittenRecords
    <2>2. CASE AppendRecord(TaskRecord(o)) /\ UNCHANGED <<alive, tabs, tries, kills>>
      BY <1>1, <2>1, <2>2, AppendInv DEF TabsHold
    <2> QED
      BY <1>2, <2>1, <2>2, TornInv DEF AddTask
  <1>3. ASSUME NEW t \in Tabs, NEW o \in Ordinals, FetchOrdinal(t, o)
        PROVE  JournalInv'
    <2>1. PICK status \in Outcomes :
              tabs' = [tabs EXCEPT ![t] = [ordinal |-> o, status |-> status]]
      BY <1>3 DEF FetchOrdinal
    <2>2. TabsHold'
      BY <1>1, <2>1 DEF TabsHold
    <2> QED
      BY <1>3, <2>2 DEF FetchOrdinal, JournalInv, Kept, OntoRecord, WholeFile, Intact, Parsed
  <1>4. ASSUME NEW t \in Tabs, AddResult(t)
        PROVE  JournalInv'
    <2>1. ResultRecord(t) \in Records
      BY <1>1, <1>4, WrittenRecords DEF AddResult
    <2>2. CASE /\ AppendRecord(ResultRecord(t))
               /\ tabs' = [tabs EXCEPT ![t] = FreeTab]
               /\ UNCHANGED <<alive, tries, kills>>
      <3>1. TabsHold'
        BY <1>1, <2>2 DEF TabsHold
      <3> QED
        BY <2>1, <2>2, <3>1, AppendInv
    <2> QED
      BY <1>4, <2>1, <2>2, TornInv DEF AddResult
  <1>5. CASE Killed
    <2>1. TabsHold' /\ ~alive' /\ sure' = sure
      BY <1>5, GoneTabs DEF Killed, Gone
    <2>2. Kept' /\ OntoRecord' /\ WholeFile'
      BY <1>5, <2>1 DEF Killed, JournalInv, Kept, OntoRecord, WholeFile, Intact
    <2> QED
      BY <1>5, <2>1, <2>2 DEF Killed, JournalInv
  <1>6. CASE UNCHANGED checkpointVars
    BY <1>6 DEF checkpointVars, JournalInv, TabsHold, Kept, OntoRecord, WholeFile, Intact, Parsed
  <1> QED
    BY <1>0, <1>2, <1>3, <1>4, <1>5, <1>6, ResumeInv DEF CheckpointNext

\* An empty file says nothing.
LEMMA JournalStart == CheckpointInit => JournalInv
  <1> SUFFICES ASSUME CheckpointInit PROVE JournalInv
    OBVIOUS
  <1>1. Readable(lines) = <<>> /\ ToSet(<<>>) = {} /\ lines = <<>>
    BY DEF CheckpointInit, Readable, ToSet
  <1>2. Known({}) = Empty
    BY DEF Known, Outcome, Empty
  <1>3. Kept /\ OntoRecord /\ WholeFile
    BY <1>1, <1>2 DEF CheckpointInit, Kept, OntoRecord, WholeFile, Intact, Parsed
  <1>4. TabsHold
    BY DEF CheckpointInit, TabsHold
  <1> QED
    BY <1>1, <1>3, <1>4 DEF CheckpointInit, JournalInv

\* A file that can be read holds all that was recorded.
LEMMA JournalMeans == JournalInv => ResumeFindsAll
  <1> SUFFICES ASSUME JournalInv PROVE ResumeFindsAll
    OBVIOUS
  <1>1. sure \ joined \subseteq ToSet(Readable(lines)) /\ sure \subseteq Records
    BY DEF JournalInv, Kept
  <1> DEFINE records == ToSet(Readable(lines))
  <1>0. ASSUME NEW line \in sure \ joined, line.kind \in Heads
        PROVE  line.kind \in Known(records).heads
    BY <1>0, <1>1, KnownParts
  <1>2. ASSUME NEW line \in sure \ joined, line.kind = "task"
        PROVE  line.ordinal \in Known(records).tasks
    <2>1. Known(records).tasks = {r.ordinal : r \in {r \in records : r.kind = "task"}}
      BY KnownParts
    <2>2. line \in records
      BY <1>1, <1>2
    <2> QED
      BY <1>2, <2>1, <2>2
  <1>3. ASSUME NEW line \in sure \ joined, line.status = "persisted"
        PROVE  line.ordinal \notin Pending(Known(records))
    <2>1. line.kind = "result" /\ line.ordinal \in Ordinals /\ line \in records
      BY <1>1, <1>3 DEF Records, NoOutcome
    <2>2. Outcome(records, line.ordinal) = "persisted"
      BY <1>3, <2>1 DEF Outcome
    <2>3. Known(records).results[line.ordinal] = "persisted"
      BY <2>1, <2>2 DEF Known
    <2> HIDE DEF records
    <2> QED
      BY <2>3 DEF Pending
  <1>4. ASSUME joined = {}, HeadRecord("metadata") \in sure, Undecodable \notin ToSet(lines)
        PROVE  Resumable
    <2>1. HeadRecord("metadata").kind = "metadata" /\ "metadata" \in Heads
      BY DEF HeadRecord, Heads
    <2>2. "metadata" \in Known(records).heads
      BY <1>0, <1>4, <2>1
    <2>3. Unparsable \notin records
      BY <1>4 DEF JournalInv, WholeFile, Intact, Damaged
    <2> QED
      BY <1>4, <2>2, <2>3 DEF Resumable, Legible, Parsed
  <1>5. joined = {} => (alive => mem = Parsed(lines)) /\ Damaged \cap records = {}
    BY DEF JournalInv, WholeFile, Intact
  <1> QED
    BY <1>0, <1>2, <1>3, <1>4, <1>5 DEF ResumeFindsAll, Parsed

\* l3_fetch_checkpoint.py:3-4, 36-40: whatever was recorded before any kill can
\* be read in the file, but for the records of a joined line, and a file is refused
\* for a damaged record only, for any number of tasks, tabs, kills and resumptions.
THEOREM ResumedWhole == CheckpointSpec => []ResumeFindsAll
  <1>1. CheckpointSpec => []JournalInv
    BY JournalStart, JournalStep, PTL DEF CheckpointSpec
  <1> QED
    BY <1>1, JournalMeans, PTL

-----------------------------------------------------------------------------
(* The types of the checkpoint.                                            *)

Minds == [heads : SUBSET Heads, tasks : SUBSET Ordinals, results : [Ordinals -> Outcomes \cup {NoOutcome}]]

RunTypes == /\ ended \in BOOLEAN /\ alive \in BOOLEAN
            /\ mem \in Minds
            /\ tries \in [Ordinals -> 0 .. MaxTries]
            /\ kills \in 0 .. MaxKills

\* What a run knows stays of its tasks, whatever record it applies.
LEMMA ApplyTyped ==
    ASSUME NEW mind \in Minds, NEW line \in Records
    PROVE  Apply(mind, line) \in Minds
  <1>0. CASE line.kind \in Heads
    BY <1>0 DEF Apply, Minds
  <1>1. CASE line.kind = "task"
    <2>1. line.ordinal \in Ordinals /\ line.kind \notin Heads
      BY <1>1 DEF Records, Heads
    <2> QED
      BY <1>1, <2>1 DEF Apply, Minds
  <1>2. CASE line.kind \notin Heads /\ line.kind # "task"
    <2>1. line.status \in Outcomes /\ line.ordinal \in Ordinals
      BY <1>2 DEF Records
    <2> QED
      BY <1>2, <2>1 DEF Apply, Minds
  <1> QED
    BY <1>0, <1>1, <1>2

\* So does what it reads from a file.
LEMMA KnownTyped ==
    ASSUME NEW records \in SUBSET Records
    PROVE  Known(records) \in Minds
  <1>1. \A r \in records : r.kind = "task" => r.ordinal \in Ordinals
    BY DEF Records, Heads
  <1>2. \A o \in Ordinals : Outcome(records, o) \in Outcomes \cup {NoOutcome}
    BY DEF Outcome, Outcomes
  <1> QED
    BY <1>1, <1>2 DEF Known, Minds

\* An append, torn or not, of a record.
LEMMA AppendTyped ==
    ASSUME RunTypes, NEW line \in Records,
           \/ AppendRecord(line) /\ UNCHANGED <<alive, tries, kills>>
           \/ Torn(line)
    PROVE  RunTypes'
  <1>1. CASE AppendRecord(line) /\ UNCHANGED <<alive, tries, kills>>
    BY <1>1, ApplyTyped DEF AppendRecord, RunTypes
  <1>2. CASE Torn(line)
    <2>1. kills' \in 0 .. MaxKills
      BY <1>2, CheckpointAssumption DEF Torn, Gone, RunTypes
    <2> QED
      BY <1>2, <2>1 DEF Torn, Gone, RunTypes
  <1> QED
    BY <1>1, <1>2

LEMMA RunTypesStep == JournalInv /\ RunTypes /\ [CheckpointNext]_checkpointVars => RunTypes'
  <1> SUFFICES ASSUME JournalInv, RunTypes, [CheckpointNext]_checkpointVars
               PROVE  RunTypes'
    OBVIOUS
  <1>1. /\ \A kind \in Heads : HeadRecord(kind) \in Records
        /\ \A o \in Ordinals : TaskRecord(o) \in Records
        /\ \A t \in Tabs : tabs[t] # FreeTab => ResultRecord(t) \in Records
    BY WrittenRecords DEF JournalInv
  <1>0. ASSUME NEW kind \in Heads, AddHead(kind)
        PROVE  RunTypes'
    BY <1>0, <1>1, AppendTyped DEF AddHead
  <1>2. ASSUME NEW o \in Ordinals, AddTask(o)
        PROVE  RunTypes'
    BY <1>1, <1>2, AppendTyped DEF AddTask
  <1>3. ASSUME NEW t \in Tabs, NEW o \in Ordinals, FetchOrdinal(t, o)
        PROVE  RunTypes'
    <2>1. tries' \in [Ordinals -> 0 .. MaxTries]
      BY <1>3, CheckpointAssumption DEF FetchOrdinal, RunTypes
    <2> QED
      BY <1>3, <2>1 DEF FetchOrdinal, RunTypes
  <1>4. ASSUME NEW t \in Tabs, AddResult(t)
        PROVE  RunTypes'
    BY <1>1, <1>4, AppendTyped DEF AddResult
  <1>5. CASE Killed
    <2>1. kills' \in 0 .. MaxKills
      BY <1>5, CheckpointAssumption DEF Killed, Gone, RunTypes
    <2> QED
      BY <1>5, <2>1 DEF Killed, Gone, RunTypes
  <1>6. CASE ResumeFile
    <2>1. /\ lines \in Seq(Records \cup Damaged)
          /\ Readable(lines) \in Seq(Records \cup Damaged)
          /\ ToSet(Readable(lines)) \subseteq ToSet(lines)
      BY <1>6, FrontSeq DEF ResumeFile, JournalInv, Readable
    <2>2. ToSet(Readable(lines)) \in SUBSET Records
      <3>1. Damaged \cap ToSet(Readable(lines)) = {}
        BY <1>6, <2>1 DEF ResumeFile, Legible, Damaged
      <3> QED
        BY <2>1, <3>1, SeqElements
    <2>3. mem' \in Minds
      BY <1>6, <2>2, KnownTyped DEF ResumeFile, Parsed, RunTypes
    <2>4. ended' \in BOOLEAN
      <3> DEFINE cut == ended \/ Readable(lines) # lines
      <3>1. cut \in BOOLEAN
        BY Zenon
      <3>2. ended' = cut
        BY <1>6 DEF ResumeFile
      <3> HIDE DEF cut
      <3> QED
        BY <3>1, <3>2
    <2>5. tries' \in [Ordinals -> 0 .. MaxTries]
      BY <1>6, CheckpointAssumption DEF ResumeFile, RunTypes
    <2>6. alive' \in BOOLEAN
      BY <1>6, Zenon DEF ResumeFile, RunTypes
    <2> QED
      BY <1>6, <2>3, <2>4, <2>5, <2>6 DEF ResumeFile, RunTypes
  <1>7. CASE UNCHANGED checkpointVars
    BY <1>7 DEF checkpointVars, RunTypes
  <1> QED
    BY <1>0, <1>2, <1>3, <1>4, <1>5, <1>6, <1>7 DEF CheckpointNext

LEMMA RunTypesStart == CheckpointInit => RunTypes
  <1> SUFFICES ASSUME CheckpointInit PROVE RunTypes
    OBVIOUS
  <1>1. mem \in Minds
    BY DEF CheckpointInit, Empty, Minds
  <1>2. tries \in [Ordinals -> 0 .. MaxTries] /\ kills \in 0 .. MaxKills
    BY CheckpointAssumption DEF CheckpointInit
  <1>3. ended \in BOOLEAN /\ alive \in BOOLEAN
    BY Zenon DEF CheckpointInit
  <1> QED
    BY <1>1, <1>2, <1>3 DEF RunTypes

LEMMA JournalTypes == JournalInv /\ RunTypes => CheckpointTypeOK
  <1> SUFFICES ASSUME JournalInv, RunTypes PROVE CheckpointTypeOK
    OBVIOUS
  <1>1. {ended, alive} \subseteq BOOLEAN
    BY Zenon DEF RunTypes
  <1>2. mem.heads \subseteq Heads /\ mem.tasks \subseteq Ordinals /\ mem.results \in [Ordinals -> Outcomes \cup {NoOutcome}]
    BY DEF RunTypes, Minds
  <1>3. \A t \in Tabs : tabs[t].ordinal \in Ordinals \cup {0}
    BY DEF JournalInv, TabsHold, FreeTab
  <1> QED
    BY <1>1, <1>2, <1>3 DEF JournalInv, RunTypes, CheckpointTypeOK

\* The file holds records and torn lines only, and what a run knows of it is of its
\* tasks, through every kill and resumption.
THEOREM CheckpointTypes == CheckpointSpec => []CheckpointTypeOK
  <1>1. CheckpointSpec => []JournalInv
    BY JournalStart, JournalStep, PTL DEF CheckpointSpec
  <1>2. CheckpointSpec => []RunTypes
    BY <1>1, RunTypesStart, RunTypesStep, PTL DEF CheckpointSpec
  <1> QED
    BY <1>1, <1>2, JournalTypes, PTL

-----------------------------------------------------------------------------
(* MCIngest as a whole: each part behaves as its own specification says    *)
(* while the others rest, so that all of the above holds of it.            *)

\* Seen alone, the variables of a part do what the part's specification allows.
THEOREM PartsBehave ==
    IngestSpec => MasInboxSpec /\ SyncSpec /\ FetchSpec /\ CheckpointSpec /\ LockSpec
  <1> DEFINE ingestVars == <<part, inboxVars, syncVars, fetchVars, checkpointVars, lockVars>>
  <1>1. IngestInit => /\ MasInboxInit /\ SyncInit /\ FetchInit
                      /\ CheckpointInit /\ LockInit
    BY DEF IngestInit
  <1>2. [IngestNext]_ingestVars => /\ [MasInboxNext]_inboxVars /\ [SyncNext]_syncVars
                                   /\ [FetchNext]_fetchVars /\ [CheckpointNext]_checkpointVars
                                   /\ [LockNext]_lockVars
    BY DEF IngestNext
  <1> QED
    BY <1>1, <1>2, PTL DEF IngestSpec, MasInboxSpec, SyncSpec, FetchSpec, CheckpointSpec, LockSpec

\* Every table, file and record of a fetch has the shape its code gives it, in
\* every part and for every size.
THEOREM IngestTypes == IngestSpec => []IngestTypeOK
  <1>1. LockSpec => []LockTypeOK
    <2>1. LockInv => LockTypeOK
      BY DEF LockInv
    <2> QED
      BY <2>1, LockInvariance, PTL
  <1>2. /\ QueueTypeOK /\ StoreTypeOK /\ MasTypeOK /\ SyncTypeOK /\ FetchTypeOK
        /\ CheckpointTypeOK /\ LockTypeOK
        => IngestTypeOK
    BY DEF IngestTypeOK
  <1> QED
    BY <1>1, <1>2, PartsBehave, RunnerTypes, SyncTypes, TabIsTyped, CheckpointTypes, PTL

\* What the run over the parts checks, for every value of the constants: nothing
\* shown is stored twice or out of order, a claim leaves what is newer to the next
\* run, a scan ends early only above what is stored, messages stand under their own
\* conversation, a resumed run finds what was recorded, and who holds the browser
\* is respected.
THEOREM IngestSafe ==
    IngestSpec => [](/\ StoredOnce /\ OrderFollowsTime /\ ClaimLeavesNewer
                     /\ EarlyExitSound /\ StoredWhereWritten /\ ResumeFindsAll
                     /\ PublishedIsRespected)
  BY PartsBehave, RunnerUsesStore, NeitherLostNorDoubled, SeqFollowsTime, NewerStaysEligible,
     EarlyExitIsSound, StoredRight, ResumedWhole, Respected, PTL

\* l3_sync_decision.py:15-18: the skips of a fetch, whatever the other parts do.
THEOREM IngestExcused == IngestSpec => SkipIsExcused
  BY PartsBehave, SkipsExcused, PTL
=============================================================================
