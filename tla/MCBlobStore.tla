----------------------------- MODULE MCBlobStore -----------------------------
(* Values for checking BlobStore: model values for the uploads, and the    *)
(* account each is of.                                                     *)
EXTENDS BlobStore
CONSTANTS a1, b1, b2

PairOwner == [b \in {b1, b2} |-> a1]
==============================================================================
