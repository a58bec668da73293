------------------------------ MODULE MinFacts ------------------------------
(***************************************************************************)
(* The least element of a set of numbers exists, and the greatest one of a *)
(* set with an upper bound.  Searches that begin at the lowest index, and  *)
(* the newest of several commands, are modelled with Min and Max of        *)
(* FiniteSetsExt.                                                          *)
(***************************************************************************)
EXTENDS Naturals, FiniteSetsExt, WellFoundedInduction, TLAPS

LEMMA MinOfNats ==
    ASSUME NEW S, S \subseteq Nat, S # {}
    PROVE  Min(S) \in S /\ \A y \in S : Min(S) <= y
<1> DEFINE Less == {pair \in Nat \X Nat : pair[1] < pair[2]}
<1>1. IsWellFoundedOn(Less, Nat)
  BY NatLessThanWellFounded DEF OpToRel
<1>2. PICK x \in S : \A y \in S : ~(<<y, x>> \in Less)
  <2> HIDE DEF Less
  <2> QED BY <1>1, WFMin
<1>3. ASSUME NEW y \in S PROVE x <= y
  <2>1. y < x => <<y, x>> \in Less
    OBVIOUS
  <2>2. ~(y < x)
    BY <1>2, <2>1
  <2> QED BY <2>2
<1> QED BY <1>3 DEF Min

LEMMA MaxOfBounded ==
    ASSUME NEW n \in Nat, NEW S, S \subseteq 1 .. n, S # {}
    PROVE  Max(S) \in S /\ \A y \in S : y <= Max(S)
<1> DEFINE Above == {k \in 1 .. n : \A y \in S : y <= k}
           m == Min(Above)
<1>0. PICK x \in S : TRUE
  OBVIOUS
<1>1. n \in Above
  <2>1. \A y \in S : y \in 1 .. n
    OBVIOUS
  <2>2. \A y \in S : y <= n
    BY <2>1
  <2>3. x \in 1 .. n
    BY <2>1
  <2>4. n \in 1 .. n
    BY <2>3
  <2> QED BY <2>2, <2>4
<1>2. m \in Above /\ \A k \in Above : m <= k
  <2>1. Above \subseteq Nat /\ Above # {}
    BY <1>1
  <2> HIDE DEF Above
  <2> QED BY <2>1, MinOfNats
<1> HIDE DEF m
<1>3. m \in 1 .. n /\ x \in 1 .. n /\ \A y \in S : y \in 1 .. n /\ y <= m
  BY <1>2
<1>4. m \in S
  <2> SUFFICES ASSUME m \notin S PROVE FALSE
    OBVIOUS
  <2>1. \A y \in S : y <= m - 1
    BY <1>3
  <2>2. m - 1 \in 1 .. n
    <3>1. x <= m - 1
      BY <2>1
    <3> QED BY <1>3, <3>1
  <2>3. m <= m - 1
    BY <1>2, <2>1, <2>2
  <2> QED BY <1>3, <2>3
<1> QED BY <1>3, <1>4 DEF Max
=============================================================================
