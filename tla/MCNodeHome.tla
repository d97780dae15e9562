---------------------------- MODULE MCNodeHome -----------------------------
(* NodeHome for TLC. *)
EXTENDS NodeHome

MCRollbacks == {0, 1, 2}
=============================================================================
