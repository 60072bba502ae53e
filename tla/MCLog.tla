------------------------------- MODULE MCLog -------------------------------
(***************************************************************************)
(* Instances of Log for TLC.                                               *)
(***************************************************************************)
EXTENDS Log

CONSTANTS p1, p2, p3, b1, b2
=============================================================================
