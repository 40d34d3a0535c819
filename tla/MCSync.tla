------------------------------ MODULE MCSync ------------------------------
(* Instances of Sync for TLC.                                              *)
EXTENDS Sync, TLC
CONSTANTS d1, d2

\* A device whose connections may overlap, and one that has one at a time.
TwoAndOne == 1 :> d1 @@ 2 :> d1 @@ 3 :> d2
=============================================================================
