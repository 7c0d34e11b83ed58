------------------------------- MODULE Lists -------------------------------
(***************************************************************************)
(* Lists of which some entries are kept: what a loop over a slice leaves   *)
(* that appends the entries it likes to a new one.                         *)
(***************************************************************************)
EXTENDS Naturals, Sequences, FiniteSets

\* The entries of s at the positions in kept, in their order: the i-th is the
\* one with i - 1 kept positions before it.
Kept(s, kept) ==
    [i \in 1..Cardinality(kept) |->
        s[CHOOSE k \in kept : Cardinality({j \in kept : j < k}) = i - 1]]
=============================================================================
