------------------------------- MODULE Totals -------------------------------
(***************************************************************************)
(* The sum of a function with natural values over a finite domain, as the  *)
(* number of units its values hand out.  Counting units instead of folding *)
(* keeps the definition free of recursion, so that facts about it follow   *)
(* from facts about cardinality (module UserAiuQuotaProofs).               *)
(***************************************************************************)
EXTENDS Integers, FiniteSets

(* f[x] numbered units for every x of f's domain.                          *)
Units(f) == UNION {{x} \X (1 .. f[x]) : x \in DOMAIN f}

Total(f) == Cardinality(Units(f))
=============================================================================
