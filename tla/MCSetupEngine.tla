--------------------------- MODULE MCSetupEngine ---------------------------
(* The managed setup for TLC. *)
EXTENDS SetupEngine
=============================================================================
