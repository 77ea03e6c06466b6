---------------------------- MODULE Subsequences ----------------------------
(***************************************************************************)
(* What a loop over a list that keeps some of its elements leaves of it.   *)
(* SelectSeq says the same by recursion; this definition counts, so that   *)
(* its properties can be proved (Subsequences_proofs).                     *)
(***************************************************************************)
EXTENDS Naturals, Sequences, FiniteSets

(* The places of s that have an element of S, and how many up to place i.  *)
Places(s, S) == {i \in DOMAIN s : s[i] \in S}
PlacesUpTo(s, S, i) == {j \in Places(s, S) : j <= i}

(* The elements of s that are in S, in their order.                        *)
Filter(s, S) ==
    [k \in 1 .. Cardinality(Places(s, S)) |->
        s[CHOOSE i \in Places(s, S) : Cardinality(PlacesUpTo(s, S, i)) = k]]
=============================================================================
