-------------------------------- MODULE Sums -------------------------------
(***************************************************************************)
(* Sums of amounts, as the code adds them up in loops and as the accounts  *)
(* of the properties do.                                                   *)
(***************************************************************************)
EXTENDS Integers, Sequences, FiniteSets

\* The units of all amounts of a function, each with its argument.
Units(f) == UNION {{x} \X (1 .. f[x]) : x \in DOMAIN f}

\* The sum of the values of a function with natural numbers as its values.
Sum(f) == Cardinality(Units(f))
=============================================================================
