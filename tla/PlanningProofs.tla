--------------------------- MODULE PlanningProofs ---------------------------
(***************************************************************************)
(* What the operators of Calculations, Capabilities and Planning return,   *)
(* for sequences of any length and any task: sorted, filtered and ranked   *)
(* observations, claims that repeat what was observed, and plans that      *)
(* their own validators accept.                                            *)
(***************************************************************************)
EXTENDS Capabilities, FiniteSetTheorems, SequenceTheorems, TLAPS

-----------------------------------------------------------------------------
(* Sequences *)

LEMMA SequenceFacts ==
  ASSUME NEW s, IsSequence(s)
  PROVE  /\ Len(s) \in Nat /\ DOMAIN s = 1..Len(s) /\ IsFiniteSet(DOMAIN s)
         /\ s = [i \in 1..Len(s) |-> s[i]]
<1>1. s \in Seq(ToSet(s))
  BY DEF IsSequence
<1>2. Len(s) \in Nat /\ DOMAIN s = 1..Len(s)
  BY <1>1, LenProperties
<1>3. IsFiniteSet(1..Len(s))
  BY <1>2, FS_Interval
<1>4. s = [i \in 1..Len(s) |-> s[i]]
  BY <1>1, <1>2
<1> QED BY <1>2, <1>3, <1>4

LEMMA MadeSequence ==
  ASSUME NEW n \in Nat, NEW s, s = [i \in 1..n |-> s[i]]
  PROVE  IsSequence(s) /\ Len(s) = n
<1>1. DOMAIN s = 1..n
  OBVIOUS
<1>2. s \in [1..n -> ToSet(s)]
  BY <1>1 DEF ToSet
<1>3. s \in Seq(ToSet(s))
  BY <1>2, SeqDef
<1> QED BY <1>1, <1>3, LenProperties DEF IsSequence

\* A place for every rank, in a finite set under a strict total order.
StrictOrder(places, earlier) ==
  /\ earlier \in [places -> SUBSET places]
  /\ \A i \in places : i \notin earlier[i]
  /\ \A i, j \in places : j \in earlier[i] => earlier[j] \subseteq earlier[i]
  /\ \A i, j \in places : i # j => i \in earlier[j] \/ j \in earlier[i]

\* The rank of a place: one more than the places earlier than it.
LEMMA RankFacts ==
  ASSUME NEW places, IsFiniteSet(places), NEW earlier, StrictOrder(places, earlier),
         NEW rank, rank = [i \in places |-> Cardinality(earlier[i]) + 1]
  PROVE  /\ rank \in [places -> 1..Cardinality(places)]
         /\ \A i \in places : Cardinality(earlier[i]) = rank[i] - 1
         /\ \A i, j \in places : i \in earlier[j] => rank[i] < rank[j]
         /\ \A i, j \in places : rank[i] = rank[j] => i = j
<1> USE DEF StrictOrder
<1> DEFINE n == Cardinality(places)
<1>1. n \in Nat
  BY FS_CardinalityType
<1>2. ASSUME NEW i \in places
      PROVE  /\ IsFiniteSet(earlier[i]) /\ Cardinality(earlier[i]) \in Nat
             /\ Cardinality(earlier[i] \cup {i}) = rank[i]
             /\ rank[i] \in Nat \ {0} /\ Cardinality(earlier[i]) = rank[i] - 1
  <2>1. earlier[i] \in SUBSET places /\ i \notin earlier[i]
    OBVIOUS
  <2>2. IsFiniteSet(earlier[i])
    BY <2>1, FS_Subset
  <2>3. PICK m \in Nat : m = Cardinality(earlier[i])
    BY <2>2, FS_CardinalityType
  <2>4. Cardinality(earlier[i] \cup {i}) = m + 1
    BY <2>1, <2>2, <2>3, FS_AddElement
  <2>5. rank[i] = m + 1
    BY <2>3
  <2>6. rank[i] \in Nat \ {0} /\ m = rank[i] - 1
    BY <2>5
  <2> QED BY <2>2, <2>3, <2>4, <2>5, <2>6
<1>3. rank \in [places -> 1..n]
  <2> SUFFICES ASSUME NEW i \in places PROVE rank[i] \in 1..n
    OBVIOUS
  <2>1. earlier[i] \cup {i} \in SUBSET places
    OBVIOUS
  <2>2. Cardinality(earlier[i] \cup {i}) <= n
    BY <2>1, FS_Subset
  <2>3. rank[i] <= n /\ rank[i] \in Nat \ {0}
    BY <1>2, <2>2
  <2> HIDE DEF n
  <2> QED BY <1>1, <2>3
<1>4. ASSUME NEW i \in places, NEW j \in places, i \in earlier[j]
      PROVE  rank[i] < rank[j]
  <2>1. earlier[i] \cup {i} \in SUBSET earlier[j]
    BY <1>4
  <2>2. Cardinality(earlier[i] \cup {i}) <= Cardinality(earlier[j])
    BY <1>2, <2>1, FS_Subset
  <2>3. rank[i] <= rank[j] - 1
    BY <1>2, <2>2
  <2>4. rank[i] \in Nat /\ rank[j] \in Nat
    BY <1>2
  <2> QED BY <2>3, <2>4
<1>5. \A i, j \in places : rank[i] = rank[j] => i = j
  <2> SUFFICES ASSUME NEW i \in places, NEW j \in places, rank[i] = rank[j], i # j
               PROVE  FALSE
    OBVIOUS
  <2>1. rank[i] \in Nat /\ rank[j] \in Nat
    BY <1>2
  <2>2. rank[i] < rank[j] \/ rank[j] < rank[i]
    BY <1>4
  <2> QED BY <2>1, <2>2
<1> QED BY <1>2, <1>3, <1>4, <1>5

LEMMA RanksAreTaken ==
  ASSUME NEW places, IsFiniteSet(places), NEW earlier, StrictOrder(places, earlier)
  PROVE  \A k \in 1..Cardinality(places) :
           \E i \in places : Cardinality(earlier[i]) = k - 1
<1> DEFINE n == Cardinality(places)
<1>1. n \in Nat
  BY FS_CardinalityType
<1>2. PICK rank : rank = [i \in places |-> Cardinality(earlier[i]) + 1]
  OBVIOUS
<1>3. /\ rank \in [places -> 1..n]
      /\ \A i \in places : Cardinality(earlier[i]) = rank[i] - 1
      /\ \A i, j \in places : rank[i] = rank[j] => i = j
  BY <1>2, RankFacts
<1>4. rank \in Injection(places, 1..n)
  BY <1>3 DEF Injection, IsInjective
<1>5. IsFiniteSet(1..n) /\ Cardinality(1..n) = n
  <2> HIDE DEF n
  <2> QED BY <1>1, FS_Interval
<1>6. rank \in Surjection(places, 1..n)
  BY <1>4, <1>5, FS_Injection
<1> SUFFICES ASSUME NEW k \in 1..n PROVE \E i \in places : Cardinality(earlier[i]) = k - 1
  OBVIOUS
<1>7. PICK i \in places : rank[i] = k
  BY <1>6 DEF Surjection
<1> QED BY <1>3, <1>7

\* One place has none earlier than it.
LEMMA FirstIsTaken ==
  ASSUME NEW places, IsFiniteSet(places), places # {}, NEW earlier, StrictOrder(places, earlier)
  PROVE  \E i \in places : earlier[i] = {}
<1>1. PICK n \in Nat : n = Cardinality(places)
  BY FS_CardinalityType
<1>2. n # 0
  BY <1>1, FS_EmptySet
<1>3. PICK i \in places : Cardinality(earlier[i]) = 1 - 1
  <2>1. 1 \in 1..Cardinality(places)
    BY <1>1, <1>2
  <2> QED BY <2>1, RanksAreTaken
<1>4. earlier[i] \in SUBSET places
  BY DEF StrictOrder
<1>5. IsFiniteSet(earlier[i])
  BY <1>4, FS_Subset
<1>6. Cardinality(earlier[i]) = 0
  BY <1>3
<1> QED BY <1>5, <1>6, FS_EmptySet

LEMMA ArrangedSequence ==
  ASSUME NEW seq, NEW earlier, IsFiniteSet(DOMAIN earlier)
  PROVE  /\ IsSequence(Arranged(seq, earlier))
         /\ Len(Arranged(seq, earlier)) = Cardinality(DOMAIN earlier)
<1> DEFINE n == Cardinality(DOMAIN earlier)
           s == Arranged(seq, earlier)
<1>1. n \in Nat
  BY FS_CardinalityType
<1>2. s = [i \in 1..n |-> s[i]]
  BY DEF Arranged
<1> HIDE DEF n, s
<1>3. IsSequence(s) /\ Len(s) = n
  BY <1>1, <1>2, MadeSequence
<1> QED BY <1>3 DEF n, s

\* Where an item of an arrangement comes from.
LEMMA ArrangedFrom ==
  ASSUME NEW seq, NEW earlier, NEW k \in 1..Cardinality(DOMAIN earlier),
         \E i \in DOMAIN earlier : Cardinality(earlier[i]) = k - 1
  PROVE  \E i \in DOMAIN earlier :
           Arranged(seq, earlier)[k] = seq[i] /\ Cardinality(earlier[i]) = k - 1
<1> DEFINE i == CHOOSE j \in DOMAIN earlier : Cardinality(earlier[j]) = k - 1
<1>1. i \in DOMAIN earlier /\ Cardinality(earlier[i]) = k - 1
  OBVIOUS
<1>2. Arranged(seq, earlier)[k] = seq[i]
  BY DEF Arranged
<1> QED BY <1>1, <1>2

\* What an arrangement holds: the items at the places, each at its rank.
LEMMA ArrangedItems ==
  ASSUME NEW seq, NEW places, IsFiniteSet(places), NEW earlier, StrictOrder(places, earlier),
         NEW rank, rank = [i \in places |-> Cardinality(earlier[i]) + 1]
  PROVE  /\ \A k \in 1..Cardinality(places) :
              \E i \in places : Arranged(seq, earlier)[k] = seq[i] /\ rank[i] = k
         /\ \A i \in places : Arranged(seq, earlier)[rank[i]] = seq[i]
         /\ ToSet(Arranged(seq, earlier)) = {seq[i] : i \in places}
<1> DEFINE n == Cardinality(places)
           s == Arranged(seq, earlier)
<1>1. DOMAIN earlier = places
  BY DEF StrictOrder
<1>2. /\ rank \in [places -> 1..n]
      /\ \A i \in places : Cardinality(earlier[i]) = rank[i] - 1
      /\ \A i, j \in places : rank[i] = rank[j] => i = j
  BY RankFacts
<1>3. n \in Nat /\ DOMAIN s = 1..n
  BY <1>1, FS_CardinalityType DEF Arranged
<1>4. ASSUME NEW k \in 1..n
      PROVE  \E i \in places : s[k] = seq[i] /\ rank[i] = k
  <2>1. \E i \in places : Cardinality(earlier[i]) = k - 1
    BY RanksAreTaken
  <2>2. PICK i \in places : s[k] = seq[i] /\ Cardinality(earlier[i]) = k - 1
    BY <1>1, <2>1, ArrangedFrom
  <2>3. rank[i] \in Int /\ k \in Int /\ rank[i] - 1 = k - 1
    BY <1>2, <1>3, <2>2
  <2>4. rank[i] = k
    BY <2>3
  <2> QED BY <2>2, <2>4
<1>5. ASSUME NEW i \in places
      PROVE  s[rank[i]] = seq[i] /\ rank[i] \in 1..n
  <2>1. rank[i] \in 1..n
    BY <1>2
  <2>2. PICK j \in places : s[rank[i]] = seq[j] /\ rank[j] = rank[i]
    BY <1>4, <2>1
  <2> QED BY <1>2, <2>1, <2>2
<1>6. ToSet(s) = {seq[i] : i \in places}
  <2> HIDE DEF s, n
  <2> QED BY <1>3, <1>4, <1>5 DEF ToSet
<1> QED BY <1>4, <1>5, <1>6

\* What a stable sort goes by: R says which places come before which others,
\* and where it says nothing the earlier place comes first.
WeakOrder(places, R) ==
  /\ \A i \in places : <<i, i>> \notin R
  /\ \A i, j, k \in places : <<i, j>> \in R /\ <<j, k>> \in R => <<i, k>> \in R
  /\ \A i, j, k \in places : <<i, k>> \in R => <<i, j>> \in R \/ <<j, k>> \in R

LEMMA StableOrder ==
  ASSUME NEW places \in SUBSET Int, NEW R, WeakOrder(places, R),
         NEW earlier,
         earlier = [i \in places |->
                      {j \in places : <<j, i>> \in R \/ (<<i, j>> \notin R /\ j < i)}]
  PROVE  StrictOrder(places, earlier)
<1> USE DEF WeakOrder
<1>1. earlier \in [places -> SUBSET places]
  OBVIOUS
<1>2. \A i \in places : i \notin earlier[i]
  <2> SUFFICES ASSUME NEW i \in places PROVE i \notin earlier[i]
    OBVIOUS
  <2>1. i \in Int /\ ~(i < i)
    OBVIOUS
  <2> QED BY <2>1
<1>3. \A i, j \in places : j \in earlier[i] => earlier[j] \subseteq earlier[i]
  <2> SUFFICES ASSUME NEW i \in places, NEW j \in earlier[i], NEW k \in earlier[j]
               PROVE  k \in earlier[i]
    OBVIOUS
  <2>1. j \in places /\ (<<j, i>> \in R \/ (<<i, j>> \notin R /\ j < i))
    OBVIOUS
  <2>2. k \in places /\ (<<k, j>> \in R \/ (<<j, k>> \notin R /\ k < j))
    <3>1. k \in {x \in places : <<x, j>> \in R \/ (<<j, x>> \notin R /\ x < j)}
      BY <2>1
    <3> QED BY <3>1
  <2>3. j < i /\ k < j => k < i
    BY <2>1, <2>2
  <2>4. <<k, i>> \in R \/ (<<i, k>> \notin R /\ k < i)
    <3>1. CASE <<j, i>> \in R
      BY <2>1, <2>2, <3>1
    <3>2. CASE <<j, i>> \notin R /\ <<k, j>> \in R
      BY <2>1, <2>2, <3>2
    <3>3. CASE <<j, i>> \notin R /\ <<k, j>> \notin R
      BY <2>1, <2>2, <2>3, <3>3
    <3> QED BY <3>1, <3>2, <3>3
  <2> QED BY <2>2, <2>4
<1>4. \A i, j \in places : i # j => i \in earlier[j] \/ j \in earlier[i]
  <2>1. \A i, j \in places : i # j => i < j \/ j < i
    OBVIOUS
  <2> QED BY <2>1
<1> QED BY <1>1, <1>2, <1>3, <1>4 DEF StrictOrder

LEMMA PlacesAreOrdered ==
  ASSUME NEW places \in SUBSET Int,
         NEW earlier, earlier = [i \in places |-> {j \in places : j < i}]
  PROVE  StrictOrder(places, earlier)
<1>1. earlier \in [places -> SUBSET places]
  OBVIOUS
<1>2. \A i \in places : i \notin earlier[i]
  OBVIOUS
<1>3. \A i, j \in places : j \in earlier[i] => earlier[j] \subseteq earlier[i]
  <2> SUFFICES ASSUME NEW i \in places, NEW j \in earlier[i], NEW k \in earlier[j]
               PROVE  k \in earlier[i]
    OBVIOUS
  <2>1. j \in places /\ j < i
    OBVIOUS
  <2>2. k \in places /\ k < j
    BY <2>1
  <2> QED BY <2>1, <2>2
<1>4. \A i, j \in places : i # j => i \in earlier[j] \/ j \in earlier[i]
  <2>1. \A i, j \in places : i # j => i < j \/ j < i
    OBVIOUS
  <2> QED BY <2>1
<1> QED BY <1>1, <1>2, <1>3, <1>4 DEF StrictOrder

\* What AtPlaces returns: the items at those places, each once.
LEMMA AtPlacesFacts ==
  ASSUME NEW seq, NEW places \in SUBSET Int, IsFiniteSet(places)
  PROVE  /\ IsSequence(AtPlaces(seq, places))
         /\ Len(AtPlaces(seq, places)) = Cardinality(places)
         /\ ToSet(AtPlaces(seq, places)) = {seq[i] : i \in places}
<1>1. PICK earlier : earlier = [i \in places |-> {j \in places : j < i}]
  OBVIOUS
<1>2. AtPlaces(seq, places) = Arranged(seq, earlier) /\ DOMAIN earlier = places
  BY <1>1 DEF AtPlaces
<1>3. StrictOrder(places, earlier)
  BY <1>1, PlacesAreOrdered
<1>4. PICK rank : rank = [i \in places |-> Cardinality(earlier[i]) + 1]
  OBVIOUS
<1>5. ToSet(Arranged(seq, earlier)) = {seq[i] : i \in places}
  BY <1>3, <1>4, ArrangedItems
<1> QED BY <1>2, <1>5, ArrangedSequence

LEMMA OnlyFacts ==
  ASSUME NEW seq, IsSequence(seq), NEW values
  PROVE  /\ IsSequence(Only(seq, values))
         /\ ToSet(Only(seq, values)) = ToSet(seq) \cap values
<1> DEFINE places == {i \in DOMAIN seq : seq[i] \in values}
<1>1. DOMAIN seq \in SUBSET Int /\ IsFiniteSet(DOMAIN seq)
  BY SequenceFacts
<1>2. places \in SUBSET DOMAIN seq
  OBVIOUS
<1>3. places \in SUBSET Int /\ IsFiniteSet(places)
  BY <1>1, <1>2, FS_Subset
<1>4. Only(seq, values) = AtPlaces(seq, places)
  BY DEF Only
<1>5. {seq[i] : i \in places} = ToSet(seq) \cap values
  BY DEF ToSet
<1> HIDE DEF places
<1> QED BY <1>3, <1>4, <1>5, AtPlacesFacts

LEMMA UniqueSequence ==
  ASSUME NEW seq, IsSequence(seq)
  PROVE  IsSequence(Unique(seq)) /\ ToSet(Unique(seq)) \subseteq ToSet(seq)
<1> DEFINE places == {i \in DOMAIN seq : \A j \in DOMAIN seq : seq[j] = seq[i] => i <= j}
<1>1. DOMAIN seq \in SUBSET Int /\ IsFiniteSet(DOMAIN seq)
  BY SequenceFacts
<1>2. places \in SUBSET DOMAIN seq
  OBVIOUS
<1>3. places \in SUBSET Int /\ IsFiniteSet(places)
  BY <1>1, <1>2, FS_Subset
<1>4. Unique(seq) = AtPlaces(seq, places)
  BY DEF Unique
<1>5. {seq[i] : i \in places} \subseteq ToSet(seq)
  BY DEF ToSet
<1> HIDE DEF places
<1> QED BY <1>3, <1>4, <1>5, AtPlacesFacts


LEMMA LeastNumber ==
  ASSUME NEW T, T \subseteq Nat, T # {}
  PROVE  \E x \in T : \A y \in T : x <= y
<1>1. IsWellFoundedOn(OpToRel(<, Nat), Nat)
  BY NatLessThanWellFounded
<1>2. \A x, y \in Nat : y < x => <<y, x>> \in OpToRel(<, Nat)
  BY DEF OpToRel
<1>3. PICK R : R = OpToRel(<, Nat)
  OBVIOUS
<1>4. IsWellFoundedOn(R, Nat)
  BY <1>1, <1>3, Zenon
<1>5. \A x, y \in Nat : y < x => <<y, x>> \in R
  BY <1>2, <1>3, Zenon
<1>6. PICK x \in T : \A y \in T : ~ (<<y, x>> \in R)
  BY <1>4, WFMin
<1>7. \A y \in T : y \in Nat /\ x \in Nat
  OBVIOUS
<1>8. \A y \in T : ~ (y < x)
  BY <1>5, <1>6, <1>7, Zenon
<1> QED BY <1>7, <1>8

\* A property that the least exception would pass on from the numbers below it
\* holds of every number up to n: Holds is the set of those that have it.
LEMMA Upwards ==
  ASSUME NEW n \in Nat, NEW Holds,
         \A m \in 0..n : (\A k \in 0..n : k < m => k \in Holds) => m \in Holds
  PROVE  \A m \in 0..n : m \in Holds
<1> DEFINE T == {m \in 0..n : m \notin Holds}
<1>1. CASE T = {}
  BY <1>1
<1>2. CASE T # {}
  <2>1. T \subseteq Nat
    OBVIOUS
  <2>2. PICK x \in T : \A y \in T : x <= y
    BY <1>2, <2>1, LeastNumber
  <2>3. \A k \in 0..n : k < x => k \in Holds
    BY <2>1, <2>2
  <2> QED BY <2>2, <2>3
<1> QED BY <1>1, <1>2

LEMMA UptoFacts ==
  ASSUME NEW seq, IsSequence(seq), NEW n \in Nat
  PROVE  /\ IsSequence(Upto(seq, n))
         /\ ToSet(Upto(seq, n)) \subseteq ToSet(seq)
         /\ seq # <<>> /\ n # 0 => Upto(seq, n) # <<>>
<1> DEFINE m == IF Len(seq) < n THEN Len(seq) ELSE n
           s == Upto(seq, n)
<1>1. Len(seq) \in Nat /\ DOMAIN seq = 1..Len(seq) /\ seq \in Seq(ToSet(seq))
  BY SequenceFacts DEF IsSequence
<1>2. m \in Nat /\ m <= Len(seq)
  BY <1>1
<1>3. s = SubSeq(seq, 1, m)
  BY DEF Upto
<1> HIDE DEF m
<1>4. s = [i \in 1..m |-> seq[i]]
  BY <1>1, <1>2, <1>3
<1>5. IsSequence(s) /\ Len(s) = m
  BY <1>2, <1>4, MadeSequence
<1>6. ToSet(s) \subseteq ToSet(seq)
  BY <1>1, <1>2, <1>4 DEF ToSet
<1>7. seq # <<>> /\ n # 0 => s # <<>>
  <2>1. seq # <<>> => Len(seq) # 0
    BY <1>1, EmptySeq
  <2>2. seq # <<>> /\ n # 0 => m # 0
    BY <1>1, <2>1 DEF m
  <2>3. Len(<<>>) = 0
    OBVIOUS
  <2> HIDE DEF s
  <2> QED BY <1>5, <2>2, <2>3
<1> QED BY <1>5, <1>6, <1>7

LEMMA EndsAreItems ==
  ASSUME NEW s, IsSequence(s), s # <<>>
  PROVE  Head(s) \in ToSet(s) /\ Last(s) \in ToSet(s) /\ Len(s) \in Nat \ {0}
<1>1. Len(s) \in Nat /\ DOMAIN s = 1..Len(s) /\ s \in Seq(ToSet(s))
  BY SequenceFacts DEF IsSequence
<1>2. Len(s) # 0
  BY <1>1, EmptySeq
<1>3. 1 \in DOMAIN s /\ Len(s) \in DOMAIN s
  BY <1>1, <1>2
<1>4. Head(s) = s[1] /\ Last(s) = s[Len(s)]
  BY <1>1, <1>2 DEF Last
<1> QED BY <1>1, <1>2, <1>3, <1>4 DEF ToSet

LEMMA MappedSequence ==
  ASSUME NEW s, IsSequence(s), NEW t, t = [i \in DOMAIN s |-> t[i]]
  PROVE  IsSequence(t) /\ Len(t) = Len(s)
BY SequenceFacts, MadeSequence


\* FlattenSeq builds its result item by item: it is a sequence of the items of
\* the sequences that it joins.
LEMMA FlattenFacts ==
  ASSUME NEW seqs, IsSequence(seqs), \A i \in DOMAIN seqs : IsSequence(seqs[i])
  PROVE  /\ IsSequence(FlattenSeq(seqs))
         /\ ToSet(FlattenSeq(seqs)) \subseteq UNION {ToSet(seqs[i]) : i \in DOMAIN seqs}
<1>1. PICK S : S = UNION {ToSet(seqs[i]) : i \in DOMAIN seqs}
  OBVIOUS
<1>2. PICK n \in Nat : n = Len(seqs) /\ DOMAIN seqs = 1..n
  BY SequenceFacts
<1>3. \A i \in 1..n : seqs[i] \in Seq(S)
  <2> SUFFICES ASSUME NEW i \in 1..n PROVE seqs[i] \in Seq(S)
    OBVIOUS
  <2>1. ToSet(seqs[i]) \subseteq S
    BY <1>1, <1>2
  <2>2. seqs[i] \in Seq(ToSet(seqs[i]))
    BY <1>2 DEF IsSequence
  <2> QED BY <2>1, <2>2
<1>4. CASE n = 0
  <2>1. FlattenSeq(seqs) = seqs
    BY <1>2, <1>4 DEF FlattenSeq
  <2>2. ToSet(seqs) = {}
    BY <1>2, <1>4 DEF ToSet
  <2> QED BY <2>1, <2>2
<1>5. CASE n # 0
  <2> DEFINE Joins(f, m) ==
               f = [i \in 1..m |-> IF i = 1 THEN seqs[i] ELSE f[i-1] \o seqs[i]]
             Good == {m \in 0..n : \E f : Joins(f, m)}
  <2>1. ASSUME NEW m \in 0..n, \A k \in 0..n : k < m => k \in Good
        PROVE  m \in Good
    <3>1. CASE m = 0
      <4>1. Joins(<<>>, 0)
        OBVIOUS
      <4> QED BY <3>1, <4>1
    <3>2. CASE m # 0
      <4>1. m - 1 \in 0..n /\ m - 1 < m
        BY <3>2
      <4>2. PICK f : Joins(f, m - 1)
        BY <2>1, <4>1
      <4> DEFINE last == IF m = 1 THEN seqs[m] ELSE f[m-1] \o seqs[m]
                 g == [i \in 1..m |-> IF i < m THEN f[i] ELSE last]
      <4>3. ASSUME NEW i \in 1..m
            PROVE  g[i] = IF i = 1 THEN seqs[i] ELSE g[i-1] \o seqs[i]
        <5>1. CASE i < m
          <6>1. i \in 1..(m-1) /\ g[i] = f[i]
            BY <5>1
          <6>2. f[i] = IF i = 1 THEN seqs[i] ELSE f[i-1] \o seqs[i]
            BY <4>2, <6>1
          <6>3. i # 1 => g[i-1] = f[i-1]
            BY <5>1
          <6> HIDE DEF g, Joins
          <6> QED BY <6>1, <6>2, <6>3
        <5>2. CASE i = m
          <6>1. g[i] = last
            BY <5>2
          <6>2. i # 1 => g[i-1] = f[i-1]
            BY <5>2
          <6> HIDE DEF g, Joins
          <6> QED BY <5>2, <6>1, <6>2
        <5> QED BY <5>1, <5>2
      <4>4. g = [i \in 1..m |-> g[i]]
        OBVIOUS
      <4> HIDE DEF g
      <4>5. Joins(g, m)
        BY <4>3, <4>4
      <4> QED BY <4>5
    <3> QED BY <3>1, <3>2
  <2>2. n \in Good
    <3> HIDE DEF Good
    <3>1. \A m \in 0..n : m \in Good
      BY <2>1, Upwards
    <3> QED BY <3>1
  <2> DEFINE flatten == CHOOSE f : Joins(f, n)
  <2>3. Joins(flatten, n)
    BY <2>2
  <2>4. FlattenSeq(seqs) = flatten[n]
    BY <1>2, <1>5 DEF FlattenSeq
  <2> HIDE DEF flatten
  <2> DEFINE Typed == {m \in 0..n : m # 0 => flatten[m] \in Seq(S)}
  <2>5. ASSUME NEW m \in 0..n, \A k \in 0..n : k < m => k \in Typed
        PROVE  m \in Typed
    <3>1. CASE m = 0
      BY <3>1
    <3>2. CASE m = 1
      BY <1>3, <2>3, <3>2
    <3>3. CASE m > 1
      <4>1. m - 1 \in 0..n /\ m - 1 < m /\ m - 1 # 0 /\ m \in 1..n /\ m # 1
        BY <3>3
      <4>2. flatten[m-1] \in Seq(S) /\ seqs[m] \in Seq(S)
        BY <1>3, <2>5, <4>1
      <4>3. flatten[m] = flatten[m-1] \o seqs[m]
        BY <2>3, <4>1
      <4>4. flatten[m-1] \o seqs[m] \in Seq(S)
        BY <4>2
      <4> QED BY <4>3, <4>4
    <3> QED BY <3>1, <3>2, <3>3
  <2>6. flatten[n] \in Seq(S)
    <3> HIDE DEF Typed
    <3>1. \A m \in 0..n : m \in Typed
      BY <2>5, Upwards
    <3> QED BY <1>5, <3>1 DEF Typed
  <2>7. PICK t : t = flatten[n]
    OBVIOUS
  <2>8. t \in Seq(S)
    BY <2>6, <2>7
  <2>9. IsSequence(t) /\ ToSet(t) \subseteq S
    <3>1. DOMAIN t = 1..Len(t) /\ Len(t) \in Nat /\ \A i \in DOMAIN t : t[i] \in S
      BY <2>8, ElementOfSeq, LenProperties
    <3>2. t = [i \in 1..Len(t) |-> t[i]]
      BY <2>8
    <3> QED BY <3>1, <3>2, MadeSequence DEF ToSet
  <2> QED BY <1>1, <2>4, <2>7, <2>9
<1> QED BY <1>4, <1>5

\* Find returns an item with the symbol, the first one, if there is any.
LEMMA FindFacts ==
  ASSUME NEW obs, IsSequence(obs), NEW sym
  PROVE  \/ Find(obs, sym) = None /\ sym \notin Symbols(obs)
         \/ Find(obs, sym) \in ToSet(obs) /\ Find(obs, sym).sym = sym
<1> DEFINE places == {i \in DOMAIN obs : obs[i].sym = sym}
<1>1. CASE places = {}
  BY <1>1 DEF Find, Symbols
<1>2. CASE places # {}
  <2>1. DOMAIN obs \subseteq Nat
    BY SequenceFacts
  <2>2. places \subseteq Nat
    BY <2>1
  <2>3. PICK x \in places : \A y \in places : x <= y
    BY <1>2, <2>2, LeastNumber
  <2>4. Min(places) \in places
    BY <2>3 DEF Min
  <2>5. Find(obs, sym) = obs[Min(places)]
    BY <1>2 DEF Find
  <2> QED BY <2>4, <2>5 DEF ToSet
<1> QED BY <1>1, <1>2


-----------------------------------------------------------------------------
(* What the capabilities claim *)

\* A claim over a window has a history, a claim of a move an observation of
\* the coin and the change it gives.
RestsOn(claim, obs, history) ==
  /\ claim.kind = "over window" => history # <<>>
  /\ claim.kind \in {"move", "unusual"} =>
       \E o \in ToSet(obs) : claim.names = {o.sym} /\ claim.value = o.change

MadeFrom(claims, obs, history) ==
  IsSequence(claims) /\ \A claim \in ToSet(claims) : RestsOn(claim, obs, history)

LEMMA ConcatFacts ==
  ASSUME NEW s, IsSequence(s), NEW t, IsSequence(t)
  PROVE  IsSequence(s \o t) /\ ToSet(s \o t) = ToSet(s) \cup ToSet(t)
<1>1. PICK n \in Nat, m \in Nat :
        n = Len(s) /\ m = Len(t) /\ DOMAIN s = 1..n /\ DOMAIN t = 1..m
  BY SequenceFacts
<1>2. s \in Seq(ToSet(s) \cup ToSet(t)) /\ t \in Seq(ToSet(s) \cup ToSet(t))
  <2>1. s \in Seq(ToSet(s)) /\ t \in Seq(ToSet(t))
    BY DEF IsSequence
  <2> QED BY <2>1
<1>3. /\ s \o t \in Seq(ToSet(s) \cup ToSet(t)) /\ Len(s \o t) = n + m
      /\ \A i \in 1..(n + m) : (s \o t)[i] = IF i <= n THEN s[i] ELSE t[i - n]
  BY <1>1, <1>2, ConcatProperties
<1> PICK u : u = s \o t
  OBVIOUS
<1>4. DOMAIN u = 1..(n + m) /\ u = [i \in 1..(n + m) |-> u[i]]
  BY <1>1, <1>3, LenProperties
<1>5. IsSequence(u)
  BY <1>1, <1>4, MadeSequence
<1>6. ASSUME NEW i \in 1..(n + m)
      PROVE  u[i] \in ToSet(s) \cup ToSet(t)
  <2>1. CASE i <= n
    BY <1>1, <1>3, <2>1 DEF ToSet
  <2>2. CASE ~(i <= n)
    <3>1. i - n \in 1..m
      BY <1>1, <2>2
    <3> QED BY <1>1, <1>3, <2>2, <3>1 DEF ToSet
  <2> QED BY <2>1, <2>2
<1>7. ASSUME NEW i \in 1..n
      PROVE  s[i] \in ToSet(u)
  <2>1. i \in 1..(n + m) /\ u[i] = s[i]
    BY <1>3
  <2> QED BY <1>4, <2>1 DEF ToSet
<1>8. ASSUME NEW j \in 1..m
      PROVE  t[j] \in ToSet(u)
  <2>1. n + j \in 1..(n + m) /\ u[n + j] = t[j]
    BY <1>3
  <2> QED BY <1>4, <2>1 DEF ToSet
<1>9. ToSet(u) = ToSet(s) \cup ToSet(t)
  BY <1>1, <1>4, <1>6, <1>7, <1>8 DEF ToSet
<1> QED BY <1>5, <1>9

LEMMA ConcatMade ==
  ASSUME NEW s, NEW t, NEW obs, NEW history,
         MadeFrom(s, obs, history), MadeFrom(t, obs, history)
  PROVE  MadeFrom(s \o t, obs, history)
BY ConcatFacts DEF MadeFrom

LEMMA PairIsSequence ==
  ASSUME NEW a, NEW b
  PROVE  /\ IsSequence(<<>>) /\ ToSet(<<>>) = {}
         /\ IsSequence(<<a>>) /\ ToSet(<<a>>) = {a}
         /\ IsSequence(<<a, b>>) /\ ToSet(<<a, b>>) = {a, b}
<1>1. ToSet(<<>>) = {} /\ ToSet(<<a>>) = {a} /\ ToSet(<<a, b>>) = {a, b}
  BY DEF ToSet
<1>2. <<>> \in Seq({}) /\ <<a>> \in Seq({a}) /\ <<a, b>> \in Seq({a, b})
  OBVIOUS
<1> QED BY <1>1, <1>2 DEF IsSequence

LEMMA SaidMade ==
  ASSUME NEW a, NEW b, NEW obs, NEW history, RestsOn(a, obs, history), RestsOn(b, obs, history)
  PROVE  MadeFrom(<<a>>, obs, history) /\ MadeFrom(<<a, b>>, obs, history)
<1>1. ASSUME NEW c \in {a, b}
      PROVE  RestsOn(c, obs, history)
  OBVIOUS
<1> HIDE DEF RestsOn
<1> QED BY <1>1, PairIsSequence DEF MadeFrom

\* A claim that gives nothing of a coin.
LEMMA PlainMade ==
  ASSUME NEW kind, kind \notin {"over window", "move", "unusual"}, NEW names, NEW value,
         NEW obs, NEW history
  PROVE  /\ RestsOn(Claim(kind, names, value), obs, history)
         /\ MadeFrom(<<Claim(kind, names, value)>>, obs, history)
<1>1. RestsOn(Claim(kind, names, value), obs, history)
  BY DEF RestsOn, Claim
<1> QED BY <1>1, SaidMade

\* A claim if its condition holds.
LEMMA IfMade ==
  ASSUME NEW condition, NEW s, NEW obs, NEW history,
         condition => MadeFrom(s, obs, history)
  PROVE  MadeFrom(If(condition, s), obs, history)
<1>1. MadeFrom(<<>>, obs, history)
  BY PairIsSequence DEF MadeFrom
<1>2. CASE condition
  BY <1>2 DEF If
<1>3. CASE ~condition
  BY <1>1, <1>3 DEF If
<1> QED BY <1>2, <1>3

LEMMA MappedMade ==
  ASSUME NEW seq, IsSequence(seq), NEW t, t = [i \in DOMAIN seq |-> t[i]],
         NEW obs, NEW history, \A i \in DOMAIN seq : RestsOn(t[i], obs, history)
  PROVE  MadeFrom(t, obs, history)
<1>1. PICK n \in Nat : DOMAIN seq = 1..n
  BY SequenceFacts
<1>2. IsSequence(t) /\ DOMAIN t = 1..n
  BY <1>1, MadeSequence
<1> QED BY <1>1, <1>2 DEF MadeFrom, ToSet

LEMMA MarketMade ==
  ASSUME NEW obs, IsSequence(obs), NEW fear, NEW task, NEW history
  PROVE  MadeFrom(MarketClaims(obs, fear, task).claims, obs, history)
<1> DEFINE moving == Only(Upto(obs, 3), {o \in ToSet(obs) : o.change # None})
           moves == [i \in DOMAIN moving |-> MoveOf(moving[i])]
           feared == If(fear # None, <<Claim("fear", {}, fear)>>)
<1>1. PICK wide, declining, mean :
        MarketClaims(obs, fear, task).claims =
          Upto(If(wide, <<Claim("breadth", {}, declining), Claim("mean", {}, mean)>>)
               \o moves \o feared, 8)
  BY DEF MarketClaims, Claims
<1> PICK breadth : breadth = If(wide, <<Claim("breadth", {}, declining), Claim("mean", {}, mean)>>)
  OBVIOUS
<1>2. MadeFrom(breadth, obs, history)
  <2>1. /\ RestsOn(Claim("breadth", {}, declining), obs, history)
        /\ RestsOn(Claim("mean", {}, mean), obs, history)
    BY PlainMade
  <2>2. MadeFrom(<<Claim("breadth", {}, declining), Claim("mean", {}, mean)>>, obs, history)
    BY <2>1, SaidMade
  <2> QED BY <2>2, IfMade
<1>3. MadeFrom(feared, obs, history)
  <2>1. MadeFrom(<<Claim("fear", {}, fear)>>, obs, history)
    BY PlainMade
  <2> QED BY <2>1, IfMade
<1>4. MadeFrom(moves, obs, history)
  <2>1. IsSequence(Upto(obs, 3)) /\ ToSet(Upto(obs, 3)) \subseteq ToSet(obs)
    BY UptoFacts
  <2>2. IsSequence(moving) /\ ToSet(moving) \subseteq ToSet(obs)
    BY <2>1, OnlyFacts
  <2>3. ASSUME NEW i \in DOMAIN moving
        PROVE  RestsOn(moves[i], obs, history)
    <3>1. moving[i] \in ToSet(obs)
      BY <2>2 DEF ToSet
    <3>2. moves[i] = MoveOf(moving[i])
      OBVIOUS
    <3> HIDE DEF moving, moves
    <3> QED BY <3>1, <3>2 DEF RestsOn, MoveOf, Claim
  <2>4. moves = [i \in DOMAIN moving |-> moves[i]]
    OBVIOUS
  <2> HIDE DEF moving, moves
  <2> QED BY <2>2, <2>3, <2>4, MappedMade
<1> HIDE DEF moves, feared
<1>5. MadeFrom(breadth \o moves \o feared, obs, history)
  BY <1>2, <1>3, <1>4, ConcatMade
<1> PICK all : all = breadth \o moves \o feared
  OBVIOUS
<1>6. MadeFrom(Upto(all, 8), obs, history)
  BY <1>5, UptoFacts DEF MadeFrom
<1> QED BY <1>1, <1>6

LEMMA AnomalyMade ==
  ASSUME NEW obs, IsSequence(obs), NEW task, NEW history, FlaggedMost \in Nat
  PROVE  MadeFrom(AnomalyClaims(obs, task).claims, obs, history)
<1> DEFINE flagged == Only(obs, {o \in ToSet(obs) : Unusual(o, task)})
           named == Upto(flagged, FlaggedMost)
           flags == [i \in DOMAIN named |-> Claim("unusual", {named[i].sym}, named[i].change)]
<1>1. IsSequence(flagged) /\ ToSet(flagged) \subseteq ToSet(obs)
  BY OnlyFacts
<1>2. IsSequence(named) /\ ToSet(named) \subseteq ToSet(obs)
  <2> HIDE DEF flagged
  <2> QED BY <1>1, UptoFacts
<1>3. AnomalyClaims(obs, task).claims = IF flagged = <<>> THEN <<Claim("quiet", {}, None)>> ELSE flags
  BY DEF AnomalyClaims, Claims
<1>4. MadeFrom(<<Claim("quiet", {}, None)>>, obs, history)
  BY PlainMade
<1>5. ASSUME NEW i \in DOMAIN named
      PROVE  RestsOn(flags[i], obs, history)
  <2>1. named[i] \in ToSet(obs)
    BY <1>2 DEF ToSet
  <2>2. flags[i] = Claim("unusual", {named[i].sym}, named[i].change)
    OBVIOUS
  <2> HIDE DEF named, flags
  <2> QED BY <2>1, <2>2 DEF RestsOn, Claim
<1>6. flags = [i \in DOMAIN named |-> flags[i]]
  OBVIOUS
<1> HIDE DEF flagged, named, flags
<1>7. MadeFrom(flags, obs, history)
  BY <1>2, <1>5, <1>6, MappedMade
<1> QED BY <1>3, <1>4, <1>7


LEMMA FoundMove ==
  ASSUME NEW obs, IsSequence(obs), NEW sym, Find(obs, sym) # None, NEW history
  PROVE  RestsOn(MoveOf(Find(obs, sym)), obs, history)
<1> PICK o : o = Find(obs, sym)
  OBVIOUS
<1>1. o \in ToSet(obs)
  BY FindFacts
<1> QED BY <1>1 DEF RestsOn, MoveOf, Claim

LEMMA ReactionMade ==
  ASSUME NEW obs, IsSequence(obs), NEW task, NEW history
  PROVE  MadeFrom(ReactionClaims(obs, task).claims, obs, history)
<1> PICK asset : asset = TriggerAsset(task)
  OBVIOUS
<1> PICK trigger : trigger = Find(obs, asset)
  OBVIOUS
<1>1. PICK some, declining, steep, names :
        ReactionClaims(obs, task).claims =
          IF asset = "" THEN <<>>
          ELSE If(trigger # None /\ trigger.change # None, <<MoveOf(trigger)>>)
            \o If(some, <<Claim("declined", {}, declining)>>)
            \o If(steep, <<Claim("moved more", names, None)>>)
  BY DEF ReactionClaims, Claims
<1> PICK moved : moved = If(trigger # None /\ trigger.change # None, <<MoveOf(trigger)>>)
  OBVIOUS
<1> PICK declined : declined = If(some, <<Claim("declined", {}, declining)>>)
  OBVIOUS
<1> PICK steeper : steeper = If(steep, <<Claim("moved more", names, None)>>)
  OBVIOUS
<1>2. MadeFrom(moved, obs, history)
  <2>1. trigger # None => MadeFrom(<<MoveOf(trigger)>>, obs, history)
    BY FoundMove, SaidMade
  <2>2. (trigger # None /\ trigger.change # None) => MadeFrom(<<MoveOf(trigger)>>, obs, history)
    BY <2>1
  <2> QED BY <2>2, IfMade
<1>3. MadeFrom(declined, obs, history)
  <2>1. MadeFrom(<<Claim("declined", {}, declining)>>, obs, history)
    BY PlainMade
  <2> QED BY <2>1, IfMade
<1>4. MadeFrom(steeper, obs, history)
  <2>1. MadeFrom(<<Claim("moved more", names, None)>>, obs, history)
    BY PlainMade
  <2> QED BY <2>1, IfMade
<1>5. MadeFrom(moved \o declined \o steeper, obs, history)
  BY <1>2, <1>3, <1>4, ConcatMade
<1>6. MadeFrom(<<>>, obs, history)
  BY PairIsSequence DEF MadeFrom
<1> QED BY <1>1, <1>5, <1>6

LEMMA HistoricalMade ==
  ASSUME NEW obs, IsSequence(obs), NEW task, NEW extras, IsSequence(extras.history)
  PROVE  MadeFrom(HistoricalClaims(obs, task, extras).claims, obs, extras.history)
<1> DEFINE syms == Unique([i \in DOMAIN extras.history |-> extras.history[i].sym])
           Moved(sym) == PercentageChange(Last(Prices(extras.history, sym)).price,
                                          Head(Prices(extras.history, sym)).price)
           moved == Only(syms, {s \in ToSet(syms) :
                                  Len(Prices(extras.history, s)) >= 2 /\ Moved(s) # None})
           absent == <<Claim("no history", {}, None)>>
           live == [i \in DOMAIN obs |-> Claim("live only", {obs[i].sym}, None)]
           over == [i \in DOMAIN moved |-> Claim("over window", {moved[i]}, Moved(moved[i]))]
<1>1. PICK period :
        HistoricalClaims(obs, task, extras).claims =
          IF extras.history = <<>> THEN IF period # "" THEN absent ELSE live
          ELSE IF moved # <<>> THEN over ELSE absent
  BY DEF HistoricalClaims, Claims
<1>2. MadeFrom(absent, obs, extras.history)
  BY PlainMade
<1>3. MadeFrom(live, obs, extras.history)
  <2>1. \A i \in DOMAIN obs : RestsOn(live[i], obs, extras.history)
    BY PlainMade
  <2>2. live = [i \in DOMAIN obs |-> live[i]]
    OBVIOUS
  <2> HIDE DEF live, syms, moved, over
  <2> QED BY <2>1, <2>2, MappedMade
<1>4. ASSUME extras.history # <<>>
      PROVE  MadeFrom(over, obs, extras.history)
  <2>1. IsSequence(syms)
    <3> PICK named : named = [i \in DOMAIN extras.history |-> extras.history[i].sym]
      OBVIOUS
    <3>1. PICK n \in Nat : DOMAIN extras.history = 1..n
      BY SequenceFacts
    <3>2. IsSequence(named)
      BY <3>1, MadeSequence
    <3> QED BY <3>2, UniqueSequence
  <2>2. IsSequence(moved)
    <3> HIDE DEF syms
    <3> QED BY <2>1, OnlyFacts
  <2>3. ASSUME NEW i \in DOMAIN moved
        PROVE  RestsOn(over[i], obs, extras.history)
    <3>1. over[i].kind = "over window"
      BY DEF Claim
    <3> HIDE DEF over, moved
    <3> QED BY <1>4, <3>1 DEF RestsOn
  <2>4. over = [i \in DOMAIN moved |-> over[i]]
    OBVIOUS
  <2> HIDE DEF moved, over
  <2> QED BY <2>2, <2>3, <2>4, MappedMade
<1> HIDE DEF syms, Moved, moved, absent, live, over
<1> QED BY <1>1, <1>2, <1>3, <1>4

LEMMA DiscoveryMade ==
  ASSUME NEW obs, IsSequence(obs), NEW history
  PROVE  MadeFrom(DiscoveryClaims(obs).claims, obs, history)
<1>1. PICK chosen :
        DiscoveryClaims(obs).claims =
          IF Only(Upto(obs, 15), chosen) = <<>> THEN <<Claim("none together", {}, None)>>
          ELSE [i \in DOMAIN Only(Upto(obs, 15), chosen) |->
                  Claim("together", {Only(Upto(obs, 15), chosen)[i].sym}, None)]
  BY DEF DiscoveryClaims, Claims
<1> PICK together : together = Only(Upto(obs, 15), chosen)
  OBVIOUS
<1>2. IsSequence(together)
  BY UptoFacts, OnlyFacts
<1> PICK said : said = [i \in DOMAIN together |-> Claim("together", {together[i].sym}, None)]
  OBVIOUS
<1>3. MadeFrom(said, obs, history)
  <2>1. \A i \in DOMAIN together : RestsOn(said[i], obs, history)
    BY PlainMade
  <2>2. said = [i \in DOMAIN together |-> said[i]]
    OBVIOUS
  <2> QED BY <1>2, <2>1, <2>2, MappedMade
<1>4. MadeFrom(<<Claim("none together", {}, None)>>, obs, history)
  BY PlainMade
<1> QED BY <1>1, <1>3, <1>4

LEMMA RegimeMade ==
  ASSUME NEW obs, IsSequence(obs), NEW fear, NEW history
  PROVE  MadeFrom(RegimeClaims(obs, fear).claims, obs, history)
<1>1. PICK known, led :
        LET tape == If(known, <<IF led THEN Claim("led by bitcoin", {}, None)
                                ELSE Claim("broad tape", {}, None)>>)
            reading == tape \o If(fear # None, <<Claim("fear", {}, fear)>>)
        IN RegimeClaims(obs, fear).claims =
             IF reading = <<>> THEN <<Claim("needs data", {"BTC"}, None)>> ELSE reading
  BY DEF RegimeClaims, Claims
<1> PICK said : said = IF led THEN Claim("led by bitcoin", {}, None) ELSE Claim("broad tape", {}, None)
  OBVIOUS
<1>2. MadeFrom(<<said>>, obs, history)
  BY PlainMade
<1> PICK tape : tape = If(known, <<said>>)
  OBVIOUS
<1> PICK feared : feared = If(fear # None, <<Claim("fear", {}, fear)>>)
  OBVIOUS
<1>3. MadeFrom(tape, obs, history)
  BY <1>2, IfMade
<1>4. MadeFrom(feared, obs, history)
  <2>1. MadeFrom(<<Claim("fear", {}, fear)>>, obs, history)
    BY PlainMade
  <2> QED BY <2>1, IfMade
<1>5. MadeFrom(tape \o feared, obs, history)
  BY <1>3, <1>4, ConcatMade
<1>6. MadeFrom(<<Claim("needs data", {"BTC"}, None)>>, obs, history)
  BY PlainMade
<1> QED BY <1>1, <1>5, <1>6

\* Whichever capability is asked.
LEMMA CapabilityMade ==
  ASSUME NEW name \in CapabilityNames, NEW obs, IsSequence(obs), NEW fear, NEW task,
         NEW extras, IsSequence(extras.history), FlaggedMost \in Nat
  PROVE  MadeFrom(Analyze(name, obs, fear, task, extras).claims, obs, extras.history)
<1>1. CASE name = "market"
  BY <1>1, MarketMade DEF Analyze
<1>2. CASE name = "anomaly"
  BY <1>2, AnomalyMade DEF Analyze
<1>3. CASE name = "reaction"
  BY <1>3, ReactionMade DEF Analyze
<1>4. CASE name = "historical"
  BY <1>4, HistoricalMade DEF Analyze
<1>5. CASE name = "discovery"
  BY <1>5, DiscoveryMade DEF Analyze
<1>6. CASE name = "regime"
  BY <1>6, RegimeMade DEF Analyze
<1> QED BY <1>1, <1>2, <1>3, <1>4, <1>5, <1>6 DEF CapabilityNames

\* And what is merged of all that were asked.
LEMMA MergedMade ==
  ASSUME NEW task, NEW names, IsSequence(names), ToSet(names) \subseteq CapabilityNames,
         NEW obs, IsSequence(obs), NEW fear, NEW extras, IsSequence(extras.history),
         FlaggedMost \in Nat
  PROVE  MadeFrom(Merged(RunCapabilities(task, names, obs, fear, extras)).claims, obs, extras.history)
<1> PICK chosen : chosen = SelectCapabilities(task, names)
  OBVIOUS
<1>1. IsSequence(chosen) /\ ToSet(chosen) \subseteq CapabilityNames
  <2> PICK own : own = Only(names, {name \in ToSet(names) : Accepts(name, task)})
    OBVIOUS
  <2>1. IsSequence(own) /\ ToSet(own) \subseteq CapabilityNames
    BY OnlyFacts
  <2>2. IsSequence(<<"market">>) /\ ToSet(<<"market">>) \subseteq CapabilityNames
    BY PairIsSequence DEF CapabilityNames
  <2> QED BY <2>1, <2>2 DEF SelectCapabilities
<1> DEFINE results == RunCapabilities(task, names, obs, fear, extras)
           said == [i \in DOMAIN results |-> results[i].claims]
           all == FlattenSeq(said)
<1>2. results = [i \in DOMAIN chosen |-> Analyze(chosen[i], obs, fear, task, extras)]
  BY DEF RunCapabilities
<1>3. DOMAIN said = DOMAIN chosen
      /\ \A i \in DOMAIN chosen : MadeFrom(said[i], obs, extras.history)
  <2>1. ASSUME NEW i \in DOMAIN chosen
        PROVE  MadeFrom(Analyze(chosen[i], obs, fear, task, extras).claims, obs, extras.history)
    <3>1. chosen[i] \in CapabilityNames
      BY <1>1 DEF ToSet
    <3> QED BY <3>1, CapabilityMade
  <2> HIDE DEF results
  <2> QED BY <1>2, <2>1
<1>4. said = [i \in DOMAIN chosen |-> said[i]]
  BY <1>2
<1>5. Merged(results).claims = Unique(all)
  BY DEF Merged
<1> HIDE DEF said, results
<1>6. IsSequence(said)
  <2>1. PICK n \in Nat : DOMAIN chosen = 1..n
    BY <1>1, SequenceFacts
  <2> QED BY <1>4, <2>1, MadeSequence
<1>7. IsSequence(all) /\ ToSet(all) \subseteq UNION {ToSet(said[i]) : i \in DOMAIN said}
  BY <1>3, <1>6, FlattenFacts DEF MadeFrom
<1>8. ASSUME NEW claim \in ToSet(all)
      PROVE  RestsOn(claim, obs, extras.history)
  <2>1. PICK i \in DOMAIN said : claim \in ToSet(said[i])
    BY <1>7
  <2> QED BY <1>3, <2>1 DEF MadeFrom
<1>9. IsSequence(Unique(all)) /\ ToSet(Unique(all)) \subseteq ToSet(all)
  <2> HIDE DEF all
  <2> QED BY <1>7, UniqueSequence
<1>10. MadeFrom(Unique(all), obs, extras.history)
  <2> HIDE DEF all
  <2> QED BY <1>8, <1>9 DEF MadeFrom
<1> QED BY <1>5, <1>10 DEF results


-----------------------------------------------------------------------------
(* The plan of a run *)

LEMMA CapabilitiesAreKnown ==
  ASSUME NEW model, NEW workflow
  PROVE  /\ IsSequence(CapabilitiesFor(model, workflow))
         /\ ToSet(CapabilitiesFor(model, workflow)) \subseteq CapabilityNames
<1> DEFINE Named(s) == IsSequence(s) /\ ToSet(s) \subseteq CapabilityNames
<1>1. PICK past, found, standing :
        /\ CapabilitiesFor(model, workflow) = Unique(<<"market">> \o past \o found \o standing)
        /\ past \in {<<>>, <<"historical">>} /\ found \in {<<>>, <<"discovery">>}
        /\ standing \in {<<>>, <<"anomaly">>, <<"regime">>, <<"reaction", "anomaly">>}
  <2> DEFINE past == IF \/ HasStep(workflow, "get_quotes_historical")
                        \/ HasStep(workflow, "get_ohlcv_historical")
                     THEN <<"historical">> ELSE <<>>
             found == IF \E t \in ToolGroup("discovery") : HasStep(workflow, t)
                      THEN <<"discovery">> ELSE <<>>
             standing == CASE model = "watch_plus_workflow" -> <<"reaction", "anomaly">>
                           [] model = "scheduled"           -> <<"regime">>
                           [] model = "watch"               -> <<"anomaly">>
                           [] OTHER                         -> <<>>
  <2>1. CapabilitiesFor(model, workflow) = Unique(<<"market">> \o past \o found \o standing)
    BY DEF CapabilitiesFor
  <2>2. past \in {<<>>, <<"historical">>} /\ found \in {<<>>, <<"discovery">>}
    OBVIOUS
  <2>3. standing \in {<<>>, <<"anomaly">>, <<"regime">>, <<"reaction", "anomaly">>}
    OBVIOUS
  <2> HIDE DEF past, found, standing
  <2> QED BY <2>1, <2>2, <2>3
<1>2. Named(<<"market">>) /\ Named(past) /\ Named(found) /\ Named(standing)
  <2>1. Named(<<>>)
    BY PairIsSequence
  <2>2. ASSUME NEW a \in CapabilityNames, NEW b \in CapabilityNames
        PROVE  Named(<<a>>) /\ Named(<<a, b>>)
    BY PairIsSequence
  <2>3. {"market", "historical", "discovery", "anomaly", "regime", "reaction"} \subseteq CapabilityNames
    BY DEF CapabilityNames
  <2> HIDE DEF Named
  <2>4. Named(<<"market">>) /\ Named(past) /\ Named(found)
    BY <1>1, <2>1, <2>2, <2>3
  <2>5. Named(standing)
    BY <1>1, <2>1, <2>2, <2>3
  <2> QED BY <2>4, <2>5
<1>3. ASSUME NEW s, NEW t, Named(s), Named(t)
      PROVE  Named(s \o t)
  BY <1>3, ConcatFacts
<1>4. Named(<<"market">> \o past \o found \o standing)
  <2>1. Named(<<"market">> \o past)
    BY <1>2, <1>3
  <2>2. Named(<<"market">> \o past \o found)
    BY <1>2, <1>3, <2>1
  <2> QED BY <1>2, <1>3, <2>2
<1> PICK all : all = <<"market">> \o past \o found \o standing
  OBVIOUS
<1>5. Named(Unique(all))
  BY <1>4, UniqueSequence
<1> QED BY <1>1, <1>5

\* The plan of a run names capabilities there are, and checks the fields.
LEMMA PlanForRunFacts ==
  ASSUME NEW report, IsReport(report)
  PROVE  /\ IsSequence(PlanForRun(report).caps)
         /\ ToSet(PlanForRun(report).caps) \subseteq CapabilityNames
         /\ "fields" \in PlanForRun(report).checks
<1>1. CASE report.plan # None
  <2>1. /\ PlanForRun(report).caps = report.plan.caps
        /\ PlanForRun(report).checks = report.plan.checks
    BY <1>1 DEF PlanForRun, ToAgentPlan, BuildAgentPlan
  <2> QED BY <1>1, <2>1 DEF IsReport
<1>2. CASE report.plan = None
  <2>1. /\ PlanForRun(report).caps = CapabilitiesFor(report.model, report.workflow)
        /\ PlanForRun(report).checks = BuiltChecks(report.workflow)
    BY <1>2 DEF PlanForRun, PlanFromVersion, BuildAgentPlan
  <2>2. "fields" \in BuiltChecks(report.workflow)
    BY DEF BuiltChecks
  <2> QED BY <2>1, <2>2, CapabilitiesAreKnown
<1> QED BY <1>1, <1>2


-----------------------------------------------------------------------------
(* The plans of the planner *)

LEMMA UniqueItems ==
  ASSUME NEW seq, IsSequence(seq)
  PROVE  ToSet(Unique(seq)) = ToSet(seq)
<1> DEFINE places == {i \in DOMAIN seq : \A j \in DOMAIN seq : seq[j] = seq[i] => i <= j}
<1>1. DOMAIN seq \in SUBSET Int /\ IsFiniteSet(DOMAIN seq) /\ DOMAIN seq \subseteq Nat
  BY SequenceFacts
<1>2. places \in SUBSET DOMAIN seq
  OBVIOUS
<1>3. places \in SUBSET Int /\ IsFiniteSet(places)
  BY <1>1, <1>2, FS_Subset
<1>4. Unique(seq) = AtPlaces(seq, places)
  BY DEF Unique
<1>5. ASSUME NEW v \in ToSet(seq)
      PROVE  v \in {seq[i] : i \in places}
  <2> PICK same : same = {i \in DOMAIN seq : seq[i] = v}
    OBVIOUS
  <2>1. same \subseteq Nat /\ same # {}
    BY <1>1 DEF ToSet
  <2>2. PICK x \in same : \A y \in same : x <= y
    BY <2>1, LeastNumber
  <2> QED BY <2>2
<1>6. {seq[i] : i \in places} \subseteq ToSet(seq)
  BY DEF ToSet
<1> HIDE DEF places
<1> QED BY <1>3, <1>4, <1>5, <1>6, AtPlacesFacts

\* What a task says of capabilities: names there are, and a history never
\* alone, as nothing would account for the quotes of a trigger.
NamesCapabilities(task) ==
  /\ {"caps", "window", "assets", "universe"} \subseteq DOMAIN task
  /\ IsSequence(task.caps) /\ ToSet(task.caps) \subseteq CapabilityNames
  /\ ToSet(task.caps) # {"historical"}

\* The capabilities of the plan of a task, as PlanTask chooses them.
ChosenFor(task) == IF task.caps = <<>> THEN DefaultCapabilities(task) ELSE task.caps

LEMMA InheritedCapabilities ==
  ASSUME NEW task, NamesCapabilities(task), NEW context
  PROVE  LET inherited == Inherit(task, context)
         IN /\ IsSequence(inherited.caps) /\ ToSet(inherited.caps) \subseteq CapabilityNames
            /\ ToSet(inherited.caps) # {"historical"}
<1> PICK inherited : inherited = Inherit(task, context)
  OBVIOUS
<1> PICK joined : joined = task.caps \o <<"historical", "market">>
  OBVIOUS
<1>1. inherited.caps \in {task.caps, Unique(joined)}
  <2>1. CASE ~task.follow
    BY <2>1 DEF Inherit
  <2>2. CASE task.follow
    <3> PICK dated :
          dated \in {task, [task EXCEPT !.window = context.timeframe,
                                        !.caps = Unique(@ \o <<"historical", "market">>)]}
          /\ inherited = [dated EXCEPT !.assets = IF @ = <<>> THEN context.entities ELSE @,
                                       !.universe = Else(@, context.universe)]
      BY <2>2 DEF Inherit
    <3>1. DOMAIN dated = DOMAIN task /\ dated.caps \in {task.caps, Unique(joined)}
      BY DEF NamesCapabilities
    <3>2. inherited.caps = dated.caps
      BY <3>1 DEF NamesCapabilities
    <3> QED BY <3>1, <3>2
  <2> QED BY <2>1, <2>2
<1> PICK pair : pair = <<"historical", "market">>
  OBVIOUS
<1>2. IsSequence(pair) /\ ToSet(pair) = {"historical", "market"}
  BY PairIsSequence
<1>3. IsSequence(joined) /\ ToSet(joined) = ToSet(task.caps) \cup ToSet(pair)
  BY <1>2, ConcatFacts DEF NamesCapabilities
<1>4. IsSequence(Unique(joined)) /\ ToSet(Unique(joined)) = ToSet(joined)
  BY <1>3, UniqueSequence, UniqueItems
<1>5. ToSet(Unique(joined)) \subseteq CapabilityNames /\ "market" \in ToSet(Unique(joined))
  BY <1>2, <1>3, <1>4 DEF NamesCapabilities, CapabilityNames
<1> QED BY <1>1, <1>4, <1>5 DEF NamesCapabilities

LEMMA DefaultsHaveTheMarket ==
  ASSUME NEW task
  PROVE  LET caps == DefaultCapabilities(task)
         IN IsSequence(caps) /\ ToSet(caps) \subseteq CapabilityNames /\ "market" \in ToSet(caps)
<1> DEFINE Named(s) == IsSequence(s) /\ ToSet(s) \subseteq CapabilityNames
           first == CASE \/ task.type = "watch_plus_investigate"
                         \/ task.action = "investigate_market_reaction" -> <<"market", "reaction">>
                      [] task.type = "persistent_monitor" -> <<"anomaly", "market">>
                      [] task.type = "scheduled_brief"    -> <<"market", "regime">>
                      [] OTHER                            -> <<"market">>
           past == IF task.window # "" THEN <<"historical">> ELSE <<>>
<1>1. DefaultCapabilities(task) = first \o past
  BY DEF DefaultCapabilities
<1>2. first \in {<<"market", "reaction">>, <<"anomaly", "market">>, <<"market", "regime">>,
                <<"market">>}
  OBVIOUS
<1>3. past \in {<<>>, <<"historical">>}
  OBVIOUS
<1> HIDE DEF first, past
<1>4. ASSUME NEW a \in CapabilityNames, NEW b \in CapabilityNames
      PROVE  /\ Named(<<>>) /\ Named(<<a>>) /\ Named(<<a, b>>)
             /\ a \in ToSet(<<a>>) /\ a \in ToSet(<<a, b>>) /\ b \in ToSet(<<a, b>>)
  BY PairIsSequence
<1>5. {"market", "historical", "anomaly", "regime", "reaction"} \subseteq CapabilityNames
  BY DEF CapabilityNames
<1> HIDE DEF Named
<1>6. Named(first) /\ "market" \in ToSet(first)
  BY <1>2, <1>4, <1>5
<1>7. Named(past)
  BY <1>3, <1>4, <1>5
<1> QED BY <1>1, <1>6, <1>7, ConcatFacts DEF Named

LEMMA ChosenCapabilities ==
  ASSUME NEW task, IsSequence(task.caps), ToSet(task.caps) \subseteq CapabilityNames,
         ToSet(task.caps) # {"historical"}
  PROVE  /\ IsSequence(ChosenFor(task)) /\ ToSet(ChosenFor(task)) \subseteq CapabilityNames
         /\ \E name \in ToSet(ChosenFor(task)) : name # "historical"
         /\ ToSet(SelectCapabilities(task, ChosenFor(task))) \subseteq ToSet(ChosenFor(task))
<1> PICK names : names = ChosenFor(task)
  OBVIOUS
<1> PICK accepted : accepted = {name \in ToSet(names) : Accepts(name, task)}
  OBVIOUS
<1>1. CASE task.caps = <<>>
  <2>1. names = DefaultCapabilities(task)
    BY <1>1 DEF ChosenFor
  <2>2. /\ IsSequence(names) /\ ToSet(names) \subseteq CapabilityNames
        /\ "market" \in ToSet(names)
    BY <2>1, DefaultsHaveTheMarket
  <2>3. "market" \in accepted
    BY <2>2 DEF Accepts
  <2>4. ToSet(Only(names, accepted)) \subseteq ToSet(names) /\ "market" \in ToSet(Only(names, accepted))
    BY <2>2, <2>3, OnlyFacts
  <2>5. Only(names, accepted) # <<>>
    BY <2>4, PairIsSequence
  <2>6. SelectCapabilities(task, names) = Only(names, accepted)
    BY <2>5 DEF SelectCapabilities
  <2> QED BY <2>2, <2>4, <2>6
<1>2. CASE task.caps # <<>>
  <2>1. names = task.caps
    BY <1>2 DEF ChosenFor
  <2>2. DOMAIN names = 1..Len(names) /\ Len(names) \in Nat
    BY <2>1, SequenceFacts
  <2>3. names[1] \in ToSet(names)
    <3>1. Head(names) \in ToSet(names)
      BY <1>2, <2>1, EndsAreItems
    <3> QED BY <3>1
  <2>4. accepted = ToSet(names)
    BY <2>1, <2>2 DEF Accepts, Contains, ToSet
  <2>5. ToSet(Only(names, accepted)) = ToSet(names)
    BY <2>1, <2>4, OnlyFacts
  <2>6. ToSet(names) # {}
    BY <2>3
  <2>7. Only(names, accepted) # <<>>
    BY <2>5, <2>6, PairIsSequence
  <2>8. SelectCapabilities(task, names) = Only(names, accepted)
    BY <2>7 DEF SelectCapabilities
  <2>9. \E name \in ToSet(names) : name # "historical"
    BY <2>1, <2>6
  <2> QED BY <2>1, <2>5, <2>8, <2>9
<1> QED BY <1>1, <1>2

LEMMA ToolsAreAccounted ==
  ASSUME NEW task, NEW name \in CapabilityNames, NEW caps, name \in ToSet(caps)
  PROVE  /\ RequiredBy(name, task) \subseteq AllowedToolsFor(caps)
         /\ RequiredBy(name, task) \subseteq CmcTools
         /\ name # "historical" => "get_quotes" \in AllowedToolsFor(caps)
<1> DEFINE plain == [universe |-> "", type |-> "one_shot_research"]
           wide == [universe |-> "top", type |-> "scheduled_brief"]
<1>1. ~WholeMarket(plain) /\ WholeMarket(wide)
  BY DEF WholeMarket
<1>2. RequiredBy(name, task) \in {RequiredBy(name, plain), RequiredBy(name, wide)}
  BY <1>1 DEF RequiredBy, CapabilityNames
<1>3. /\ RequiredBy(name, plain) \subseteq AllowedToolsFor(caps)
      /\ RequiredBy(name, wide) \subseteq AllowedToolsFor(caps)
      /\ \A g \in CapabilityGroups(name) : ToolGroup(g) \subseteq AllowedToolsFor(caps)
  <2> DEFINE Grouped(n) == UNION {ToolGroup(g) : g \in CapabilityGroups(n)}
             Allowed(n) == RequiredBy(n, plain) \cup RequiredBy(n, wide) \cup Grouped(n)
  <2>1. AllowedToolsFor(caps) = UNION {Allowed(n) : n \in ToSet(caps)}
    BY DEF AllowedToolsFor
  <2>2. \A g \in CapabilityGroups(name) : ToolGroup(g) \subseteq Grouped(name)
    OBVIOUS
  <2> HIDE DEF Grouped, plain, wide
  <2>3. Allowed(name) \subseteq AllowedToolsFor(caps)
    BY <2>1
  <2> QED BY <2>2, <2>3
<1>4. name # "historical" => "market" \in CapabilityGroups(name)
  BY DEF CapabilityGroups, CapabilityNames
<1>5. "get_quotes" \in ToolGroup("market")
  BY DEF ToolGroup
<1>6. RequiredBy(name, task) \subseteq CmcTools
  BY DEF RequiredBy, CmcTools, CapabilityNames
<1> QED BY <1>2, <1>3, <1>4, <1>5, <1>6

LEMMA RequiredAreTools ==
  ASSUME NEW task, NEW names, ToSet(SelectCapabilities(task, names)) \subseteq CapabilityNames
  PROVE  RequiredTools(task, names) \subseteq CmcTools
<1>1. ASSUME NEW name \in CapabilityNames
      PROVE  RequiredBy(name, task) \subseteq CmcTools
  <2>1. name \in ToSet(<<name>>)
    BY PairIsSequence
  <2> QED BY <2>1, ToolsAreAccounted
<1> QED BY <1>1 DEF RequiredTools

\* The validators of a plan never raise for a task that names known
\* capabilities, whichever they are and whatever workflow they come with.
THEOREM PlannersPass ==
  ASSUME NEW task, NamesCapabilities(task), NEW context
  PROVE  PlanTask(task, context).accepted
<1> PICK inherited : inherited = Inherit(task, context)
  OBVIOUS
<1> PICK caps : caps = ChosenFor(inherited)
  OBVIOUS
<1> PICK workflow : workflow = WorkflowFromTask(inherited)
  OBVIOUS
<1> PICK needed : needed = RequiredTools(inherited, caps)
  OBVIOUS
<1>1. /\ ToSet(caps) \subseteq CapabilityNames
      /\ \E name \in ToSet(caps) : name # "historical"
      /\ ToSet(SelectCapabilities(inherited, caps)) \subseteq ToSet(caps)
  BY InheritedCapabilities, ChosenCapabilities
<1>2. PlanTask(task, context) = CapabilityPlan(caps, needed \cup ToolsFromWorkflow(workflow),
                                               workflow, inherited.mode = "work")
  BY DEF PlanTask, ChosenFor
<1> PICK steps : steps = UNION {StepTool(workflow.steps[i].type) : i \in DOMAIN workflow.steps}
  OBVIOUS
<1>3. needed \subseteq AllowedToolsFor(caps) /\ needed \subseteq CmcTools
  BY <1>1, ToolsAreAccounted DEF RequiredTools
<1>4. "get_quotes" \in AllowedToolsFor(caps)
  BY <1>1, ToolsAreAccounted
<1>5. ToolsFromWorkflow(workflow) \subseteq {"get_quotes"} \cup steps
  BY DEF ToolsFromWorkflow
<1>6. steps \subseteq CmcTools /\ "get_quotes" \in CmcTools
  <2>1. \A type : StepTool(type) \subseteq CmcTools
    BY DEF StepTool, CmcTools
  <2> QED BY <2>1 DEF CmcTools
<1> HIDE DEF NamesCapabilities
<1> QED BY <1>1, <1>2, <1>3, <1>4, <1>5, <1>6 DEF CapabilityPlan


\* What is compiled of a task that names capabilities is accepted.
LEMMA CompiledPlansPass ==
  ASSUME NEW task, NamesCapabilities(task), NEW context
  PROVE  Compile(task, context).plan.accepted
<1> PICK plan : plan = PlanTask(task, context)
  OBVIOUS
<1>1. plan.accepted
  BY PlannersPass
<1>2. {"accepted", "workflow"} \subseteq DOMAIN plan
  BY DEF PlanTask, CapabilityPlan
<1>3. \E workflow : Compile(task, context).plan \in {plan, [plan EXCEPT !.workflow = workflow]}
  BY DEF Compile, CompileFromTask
<1> QED BY <1>1, <1>2, <1>3
=============================================================================
