-------------------------- MODULE SelectionProofs --------------------------
(***************************************************************************)
(* What the selection of some elements of a list yields, whatever the list  *)
(* and the places: each of these elements, once, and no other.              *)
(***************************************************************************)
EXTENDS Selection, Sequences, FiniteSetTheorems, WellFoundedInduction, TLAPS

\* A place has a rank, of which there are as many as there are places.
LEMMA RankType ==
  ASSUME NEW places, IsFiniteSet(places), places \subseteq Nat, NEW n \in places
  PROVE  Rank(places, n) \in 1 .. Cardinality(places)
  <1> DEFINE upto == {m \in places : m <= n}
  <1>1. IsFiniteSet(upto) /\ Cardinality(upto) <= Cardinality(places)
    BY FS_Subset
  <1>2. Cardinality(places) \in Nat /\ Cardinality(upto) \in Nat
    BY <1>1, FS_CardinalityType
  <1>3. n \in upto
    OBVIOUS
  <1> HIDE DEF upto
  <1>4. Cardinality(upto) # 0
    BY <1>1, <1>3, FS_EmptySet
  <1>5. Cardinality(upto) \in 1 .. Cardinality(places)
    BY <1>1, <1>2, <1>4
  <1>6. QED
    BY <1>5 DEF Rank, upto

\* Two places differ in rank.
LEMMA RankTells ==
  ASSUME NEW places, IsFiniteSet(places), places \subseteq Nat,
         NEW n \in places, NEW p \in places, Rank(places, n) = Rank(places, p)
  PROVE  n = p
  <1>1. ASSUME NEW a \in places, NEW b \in places, a < b
        PROVE  Rank(places, a) # Rank(places, b)
    <2> DEFINE upto(x) == {m \in places : m <= x}
    <2>a. a \in Nat /\ b \in Nat
      OBVIOUS
    <2>b. \A m \in Nat : m <= a => m <= b
      BY <1>1, <2>a
    <2>c. ~ (b <= a) /\ b <= b
      BY <1>1, <2>a
    <2>1. upto(a) \in SUBSET upto(b) /\ b \in upto(b) /\ b \notin upto(a)
      BY <2>b, <2>c
    <2>2. IsFiniteSet(upto(b))
      BY FS_Subset
    <2> HIDE DEF upto
    <2>3. Cardinality(upto(a)) # Cardinality(upto(b))
      BY <2>1, <2>2, FS_Subset
    <2>4. QED
      BY <2>3 DEF Rank, upto
  <1>2. n \in Nat /\ p \in Nat
    OBVIOUS
  <1>3. QED
    BY <1>1, <1>2

\* Every rank belongs to a place.
LEMMA RankHasPlace ==
  ASSUME NEW places, IsFiniteSet(places), places \subseteq Nat,
         NEW k \in 1 .. Cardinality(places)
  PROVE  \E n \in places : Rank(places, n) = k
  <1> DEFINE ranks == 1 .. Cardinality(places)
             rank == [n \in places |-> Rank(places, n)]
  <1>1. Cardinality(places) \in Nat
    BY FS_CardinalityType
  <1>2. rank \in Injection(places, ranks)
    BY RankType, RankTells DEF Injection, IsInjective
  <1>3. IsFiniteSet(ranks) /\ Cardinality(ranks) = Cardinality(places)
    BY <1>1, FS_Interval
  <1> HIDE DEF rank, ranks
  <1>4. rank \in Surjection(places, ranks)
    BY <1>2, <1>3, FS_Injection
  <1> USE DEF rank, ranks
  <1>5. QED
    BY <1>4 DEF Surjection

\* The sequence t holds the elements of s at the places, each once: place[k] is where
\* element k comes from.
TakenFrom(t, s, places, place) ==
  /\ place \in [1 .. Cardinality(places) -> places]
  /\ \A k \in 1 .. Cardinality(places) : t[k] = s[place[k]]
  /\ \A j, k \in 1 .. Cardinality(places) : place[j] = place[k] => j = k
  /\ \A n \in places : \E k \in 1 .. Cardinality(places) : place[k] = n

\* A selection is such a sequence.
LEMMA SelectedPlaces ==
  ASSUME NEW S, NEW s \in Seq(S), NEW places, places \subseteq DOMAIN s
  PROVE  /\ Len(SelectPlaces(s, places)) = Cardinality(places) /\ Cardinality(places) \in Nat
         /\ DOMAIN SelectPlaces(s, places) = 1 .. Cardinality(places)
         /\ SelectPlaces(s, places) \in Seq(S)
         /\ \E place : TakenFrom(SelectPlaces(s, places), s, places, place)
  <1> DEFINE ranks == 1 .. Cardinality(places)
             place == [k \in ranks |-> CHOOSE n \in places : Rank(places, n) = k]
             chosen == [k \in ranks |-> s[place[k]]]
  <1>1. places \subseteq Nat /\ IsFiniteSet(places) /\ Cardinality(places) \in Nat
    <2>1. places \subseteq 1 .. Len(s) /\ Len(s) \in Nat
      OBVIOUS
    <2>2. IsFiniteSet(1 .. Len(s))
      BY <2>1, FS_Interval
    <2>3. QED
      BY <2>1, <2>2, FS_Subset, FS_CardinalityType
  <1>2. ASSUME NEW k \in ranks PROVE place[k] \in places /\ Rank(places, place[k]) = k
    BY <1>1, RankHasPlace
  <1>3. SelectPlaces(s, places) = chosen
    BY DEF SelectPlaces
  <1> HIDE DEF place
  <1>4. ASSUME NEW n \in places PROVE \E k \in ranks : place[k] = n
    <2>1. PICK k \in ranks : k = Rank(places, n)
      BY <1>1, RankType
    <2>2. place[k] = n
      BY <1>1, <1>2, <2>1, RankTells
    <2>3. QED
      BY <2>2
  <1>5. place \in [ranks -> places]
    BY <1>2 DEF place
  <1>6. ASSUME NEW k \in ranks PROVE s[place[k]] \in S
    <2>1. PICK n \in 1 .. Len(s) : n = place[k]
      BY <1>2
    <2>2. QED
      BY <2>1
  <1>7. chosen \in Seq(S) /\ Len(chosen) = Cardinality(places) /\ DOMAIN chosen = ranks
    BY <1>1, <1>6
  <1>8. /\ \A k \in ranks : chosen[k] = s[place[k]]
        /\ \A j, k \in ranks : place[j] = place[k] => j = k
        /\ \A n \in places : \E k \in ranks : place[k] = n
    BY <1>2, <1>4
  <1>9. TakenFrom(chosen, s, places, place)
    BY <1>5, <1>8 DEF TakenFrom
  <1> HIDE DEF chosen
  <1>10. QED
    BY <1>1, <1>3, <1>7, <1>9

\* The elements, without their places.
LEMMA SelectedElements ==
  ASSUME NEW S, NEW s \in Seq(S), NEW places, places \subseteq DOMAIN s
  PROVE  /\ SelectPlaces(s, places) \in Seq(S)
         /\ \A k \in DOMAIN SelectPlaces(s, places) : \E n \in places : SelectPlaces(s, places)[k] = s[n]
         /\ \A n \in places : \E k \in DOMAIN SelectPlaces(s, places) : SelectPlaces(s, places)[k] = s[n]
  <1>1. PICK place : TakenFrom(SelectPlaces(s, places), s, places, place)
    BY SelectedPlaces
  <1>2. /\ SelectPlaces(s, places) \in Seq(S)
        /\ DOMAIN SelectPlaces(s, places) = 1 .. Cardinality(places)
    BY SelectedPlaces
  <1>3. QED
    BY <1>1, <1>2 DEF TakenFrom

\* Of some places in a list, one is the last.
LEMMA LastPlace ==
  ASSUME NEW n \in Nat, NEW T, T \subseteq 0 .. n, T # {}
  PROVE  \E x \in T : \A y \in T : y <= x
  <1> DEFINE Rest == {k \in Nat : \E x \in T : k = n - x}
  <1>1. Rest # {} /\ Rest \subseteq Nat
    <2>1. PICK x \in T : TRUE
      OBVIOUS
    <2>2. n - x \in Rest
      BY <2>1
    <2>3. QED
      BY <2>2
  <1>2. PICK r \in Rest : \A k \in Rest : ~ (<<k, r>> \in OpToRel(<, Nat))
    BY <1>1, NatLessThanWellFounded, WFMin
  <1>3. \A k \in Rest : ~ (k < r)
    BY <1>2 DEF OpToRel
  <1>4. PICK x \in T : r = n - x
    OBVIOUS
  <1>5. ASSUME NEW y \in T PROVE y <= x
    <2>1. n - y \in Rest
      OBVIOUS
    <2>2. ~ (n - y < n - x)
      BY <1>3, <1>4, <2>1
    <2>3. QED
      BY <2>2
  <1>6. QED
    BY <1>5
=============================================================================
