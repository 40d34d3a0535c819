------------------------------ MODULE MCAgent ------------------------------
(* Instances of Agent for TLC.                                             *)
EXTENDS Agent, TLC
CONSTANTS b, picture, png, file, paper

\* The clipboard re-encodes a picture.
AsPng == picture :> png @@ png :> png
=============================================================================
