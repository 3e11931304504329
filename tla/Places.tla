------------------------------- MODULE Places -------------------------------
(***************************************************************************)
(* Places in a sequence.                                                   *)
(* (The prover cannot reason about SelectSeq or a fold; it can about how   *)
(* many places with a property there are up to one of them.)               *)
(***************************************************************************)
EXTENDS Naturals, FiniteSets

\* How many places of S there are up to j.
Rank(S, j) == Cardinality({i \in S : i <= j})
=============================================================================
