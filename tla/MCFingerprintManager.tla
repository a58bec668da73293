------------------------ MODULE MCFingerprintManager ------------------------
(***************************************************************************)
(* Instances of FingerprintManager for TLC: a sensor with two places, and  *)
(* one name besides the dummy names.                                       *)
(***************************************************************************)
EXTENDS FingerprintManager

CONSTANTS anna, finger0, finger1

DummyNames == [i \in Indices |-> IF i = 0 THEN finger0 ELSE finger1]
=============================================================================
