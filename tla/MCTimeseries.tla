---------------------------- MODULE MCTimeseries ----------------------------
(***************************************************************************)
(* Instances of Timeseries for TLC.  As in the code, the records of a      *)
(* sector are a multiple of the first trigger (504 of 6) and not of the    *)
(* second (504 of 60), and the average of the third ring reads more        *)
(* records than trigger it (60 of 24).                                     *)
(***************************************************************************)
EXTENDS Timeseries

FourStart == <<0, 2, 4, 5>>
FourCount == <<2, 2, 1, 1>>
FourTrigger == <<2, 3, 1>>
FourFused == <<2, 3, 2>>

TwoStart == <<0, 3>>
TwoCount == <<3, 2>>
TwoTrigger == <<2>>
=============================================================================
