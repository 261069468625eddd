-------------------------------- MODULE Sums --------------------------------
(***************************************************************************)
(* The sum of a function of naturals over a finite part of its domain.     *)
(* It is the number of units in the heaps f[x]: counting a disjoint union  *)
(* needs neither recursion nor a fold, so that its laws can be proved      *)
(* (module StorageProofs).                                                 *)
(***************************************************************************)
EXTENDS Integers, FiniteSets

Units(f, S) == UNION { {x} \X (1 .. f[x]) : x \in S }

Total(f, S) == Cardinality(Units(f, S))
=============================================================================
