----------------------------- MODULE Recursion -----------------------------
(***************************************************************************)
(* Recursion over the numbers, for the definitions that a step or a result *)
(* is judged by.                                                           *)
(***************************************************************************)
EXTENDS Naturals

\* c, F[c], F[F[c]] and so on.
Iterate(F, c, max) == LET f[n \in 0 .. max] == IF n = 0 THEN c ELSE F[f[n - 1]] IN f
=============================================================================
