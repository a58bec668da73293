----------------------------- MODULE MCUploads -----------------------------
(***************************************************************************)
(* Instances of Uploads for TLC: the partitions ota_0 and ota_1, two paths *)
(* and two versions of a file.                                             *)
(***************************************************************************)
EXTENDS Uploads

CONSTANTS ota_0, ota_1, index, style, old, new

OtherSlot == [s \in {ota_0, ota_1} |-> IF s = ota_0 THEN ota_1 ELSE ota_0]
=============================================================================
