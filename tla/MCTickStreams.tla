------------------------------ MODULE MCTickStreams ------------------------------
(***************************************************************************)
(* The tick streams alone, for what a comment of the code says of the      *)
(* readers and the code does not do.                                       *)
(***************************************************************************)
EXTENDS TickStreams
=================================================================================
