----------------------------- MODULE Selection -----------------------------
(***************************************************************************)
(* What the scripts do with `Where-Object' and with loops that keep or      *)
(* remove some of the elements of a list: the elements at some places stay, *)
(* in their order.  Written with the rank of a place instead of recursion,  *)
(* so that it can be proved about.                                          *)
(***************************************************************************)
EXTENDS Integers, FiniteSets

\* How many of the places come no later than n.
Rank(places, n) == Cardinality({m \in places : m <= n})

\* The elements of the sequence s at the places.
SelectPlaces(s, places) ==
  [k \in 1 .. Cardinality(places) |-> s[CHOOSE n \in places : Rank(places, n) = k]]
=============================================================================
