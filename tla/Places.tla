------------------------------- MODULE Places -------------------------------
(* Positions in a sequence, in order, and what stands there.               *)
EXTENDS Naturals, Sequences, FiniteSets

\* The elements of a finite set of numbers in increasing order.
Increasing(S) ==
    [k \in 1..Cardinality(S) |->
        CHOOSE x \in S : Cardinality({y \in S : y <= x}) = k]

\* What is left of a sequence if only the elements at some positions are kept.
AtPlaces(s, S) == [k \in 1..Cardinality(S) |-> s[Increasing(S)[k]]]
=============================================================================
