------------------------------ MODULE Histories ------------------------------
(***************************************************************************)
(* Operators the specifications state their histories with.  The models    *)
(* number readings in the order they are offered or measured, so a queue   *)
(* that keeps its order is an increasing sequence.                         *)
(***************************************************************************)
EXTENDS Naturals, Sequences

Increasing(s) == \A i, j \in DOMAIN s : i < j => s[i] < s[j]

=============================================================================
