---------------------------- MODULE MCSerialLine ----------------------------
(***************************************************************************)
(* An instance of SerialLine for TLC: lengths in the order of 12, 15 and   *)
(* 17 bytes, two of any of which are longer than each.                     *)
(***************************************************************************)
EXTENDS SerialLine

Lengths == [ack |-> 3, enroll |-> 4, identify |-> 5]
=============================================================================
