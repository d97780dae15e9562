----------------------------- MODULE MCUBIPool -----------------------------
(***************************************************************************)
(* Two keys, distributions of up to two entries (also of the same key) and *)
(* two distributions, so that claims of the first are open when the second *)
(* is set.                                                                 *)
(***************************************************************************)
EXTENDS Emission

MCPercentages == {1, 2, 3}
=============================================================================
