------------------------- MODULE MCThreadController -------------------------
(* Instances of ThreadController for TLC.                                   *)
EXTENDS ThreadController
=============================================================================
