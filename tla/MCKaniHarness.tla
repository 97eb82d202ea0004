--------------------------- MODULE MCKaniHarness ----------------------------
EXTENDS KaniHarness

\* Every index but the all-ones one: the largest bound that can be assumed
\* short of dropping the assume.
MCBelowAllOnes == 2^W - 1

\* No assume: x ranges over every W-bit word.
MCNoAssume == 2^W
=============================================================================
