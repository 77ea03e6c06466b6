---------------------------- MODULE MCSharedImage ----------------------------
EXTENDS SharedImage

CONSTANTS r1, r2, r3, a1

Row == 1..3
Regions == {1..3, 2..3, {2}}
=============================================================================
