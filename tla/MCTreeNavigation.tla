-------------------------- MODULE MCTreeNavigation --------------------------
(***************************************************************************)
(* Model-checking instance of TreeNavigation on 8-bit node indices.        *)
(***************************************************************************)
EXTENDS TreeNavigation

\* Every node of the largest tree an 8-bit index can hold (2^7 leaves,
\* positions 0 .. 254): every index except the all-ones word.
MCTreeNodes == Word \ {2^W - 1}

\* The all-ones word: level W, the only index whose right_step shifts a
\* set bit out of the word.
MCAllOnes == {2^W - 1}
=============================================================================
