----------------------------- MODULE MCUpgrades ----------------------------
(***************************************************************************)
(* Six blocks with Terence in the third: upgrades are scheduled before,   *)
(* across and after it; two names let an applied one be asked for again.   *)
(***************************************************************************)
EXTENDS Upgrades
=============================================================================
