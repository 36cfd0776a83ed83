----------------------------- MODULE MCRedBlack ---------------------------
(* Instances of RedBlack for TLC.                                          *)
EXTENDS RedBlack

MCName == 1 .. 7
=============================================================================
