------------------------------- MODULE MCCache -------------------------------
EXTENDS Cache, TLC

CONSTANTS k1, k2

TwoKeys == {[key |-> k1, params |-> 0], [key |-> k1, params |-> 1],
            [key |-> k2, params |-> 0]}
Symmetry == Permutations(Users) \cup Permutations(Entries)
=============================================================================
