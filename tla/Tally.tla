------------------------------- MODULE Tally -------------------------------
(***************************************************************************)
(* The sum of natural numbers, counted: f[x] units for every x of a finite *)
(* set S.  Unlike a sum by recursion it can be reasoned about with what is *)
(* known of the cardinality of finite sets.                                *)
(***************************************************************************)
EXTENDS Naturals, FiniteSets

Units(f, S) == UNION {{x} \X (1..f[x]) : x \in S}
Tally(f, S) == Cardinality(Units(f, S))

=============================================================================
