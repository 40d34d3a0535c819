------------------------------ MODULE MCUpdate ------------------------------
(* Instances of Update for TLC.                                            *)
EXTENDS Update, TLC
CONSTANTS t1, t2
=============================================================================
