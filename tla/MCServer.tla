------------------------------ MODULE MCServer ------------------------------
(***************************************************************************)
(* An instance of Server for TLC: two browsers, one group of two settings. *)
(***************************************************************************)
EXTENDS Server

CONSTANTS desktop, phone, heating, limit, title, low, high
=============================================================================
