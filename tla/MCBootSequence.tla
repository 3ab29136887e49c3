--------------------------- MODULE MCBootSequence ---------------------------
(* BootSequence for TLC; BootSequence.cfg has the bounds.                  *)
EXTENDS BootSequence, TLC
=============================================================================
