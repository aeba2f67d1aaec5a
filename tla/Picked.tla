------------------------------- MODULE Picked -------------------------------
(***************************************************************************)
(* The part of a sequence at chosen positions: what SelectSeq leaves, said *)
(* without the recursion that proofs cannot unfold.                        *)
(***************************************************************************)
EXTENDS Naturals, Sequences, FiniteSets

(* Which of the positions at, counted from the first, i is. *)
Rank(at, i) == Cardinality({j \in at : j <= i})

Picked(s, at) == [k \in 1 .. Cardinality(at) |-> s[CHOOSE i \in at : Rank(at, i) = k]]
=============================================================================
