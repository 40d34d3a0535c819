----------------------------- MODULE MCClipStore -----------------------------
(* Values for checking ClipStore: model values for devices and texts, and  *)
(* the numbers whose order the code uses (ids, epochs, the clock).         *)
EXTENDS ClipStore

TwoIds == 1..2
==============================================================================
