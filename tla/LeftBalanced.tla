---------------------------- MODULE LeftBalanced ----------------------------
(***************************************************************************)
(* The index arithmetic of rust/keytrans/src/left_balanced.rs: the nodes   *)
(* of a left-balanced binary tree are numbered left to right in a flat     *)
(* array, leaves at even and intermediate nodes at odd indices.  Every     *)
(* function is pure; it is translated here as an operator over W-bit      *)
(* unsigned integers (W = 64 for the u64 of the code).  Arithmetic keeps   *)
(* the width: a left shift drops the bits above W-1.                       *)
(***************************************************************************)
EXTENDS Integers, Bitwise

CONSTANT W            \* bit width of a node index (u64 in the code)

ASSUME W \in Nat \ {0}

\* Every value of the index type.
Word == 0 .. (2^W - 1)

\* The abort of a call (the panic! of left_step/right_step on a leaf, or a
\* debug build's overflow check): a value no u64 takes.
Panic == -1

(***************************************************************************)
(* Rust shifts on a W-bit integer.  A shift amount s < W is well defined   *)
(* and `a << s` keeps only the low W bits.  A shift amount s >= W is an    *)
(* arithmetic overflow: a debug build panics, a release build masks the    *)
(* amount to s % W.  Shl/Shr give the release result; ShiftOverflows says  *)
(* that a debug build panics instead.                                      *)
(***************************************************************************)
Shl(a, s) == (a * 2^(s % W)) % 2^W
Shr(a, s) == a \div 2^(s % W)
ShiftOverflows(s) == s >= W

\* u64::trailing_ones: the number of consecutive one bits from bit 0.
RECURSIVE TrailingOnes(_)
TrailingOnes(x) == IF x % 2 = 1 THEN 1 + TrailingOnes(x \div 2) ELSE 0

\* u64::checked_ilog2 on a positive n: the position of the highest set bit.
RECURSIVE CheckedIlog2(_)
CheckedIlog2(n) == IF n < 2 THEN 0 ELSE 1 + CheckedIlog2(n \div 2)

\* Mutant of log2: the bit length of n (64 - leading_zeros) in place of
\* the index of its highest set bit.
log2_bit_length(n) == IF n = 0 THEN 0 ELSE CheckedIlog2(n) + 1

\* log2(n): checked_ilog2 returns None for 0, and unwrap_or(0) maps it to 0.
log2(n) == IF n = 0 THEN 0 ELSE CheckedIlog2(n)

\* is_leaf(x): (x & 1) == 0.
is_leaf(x) == (x & 1) = 0

\* level(x): x.trailing_ones().
level(x) == TrailingOnes(x)

\* left_step(x): panics at level 0, otherwise x ^ (1 << (k - 1)).
left_step(x) ==
    LET k == level(x)
    IN  IF k = 0 THEN Panic ELSE x ^^ Shl(1, k - 1)

\* Mutant of right_step: x ^ (2 << (k - 1)) sets bit k but leaves bit k - 1.
right_step_keeps_low(x) ==
    LET k == level(x)
    IN  IF k = 0 THEN Panic ELSE x ^^ Shl(2, k - 1)

\* right_step(x): panics at level 0, otherwise x ^ (3 << (k - 1)).  The
\* constant 3 is a u64, so for k = W its high bit is shifted out.
right_step(x) ==
    LET k == level(x)
    IN  IF k = 0 THEN Panic ELSE x ^^ Shl(3, k - 1)

\* Mutant of parent_step: the left/right-child test read backwards.
parent_step_flipped(x) ==
    LET k == level(x)
        b == 1 - (Shr(x, k + 1) & 1)
    IN  (x | Shl(1, k)) ^^ Shl(b, k + 1)

\* Mutant of parent_step: the bit k + 1 is added instead of toggled.
parent_step_added(x) ==
    LET k == level(x)
        b == Shr(x, k + 1) & 1
    IN  (x | Shl(1, k)) + Shl(b, k + 1)

\* Mutant of parent_step: the bit 1 << k is not set, so a left child is
\* its own "parent".
parent_step_no_set(x) ==
    LET k == level(x)
        b == Shr(x, k + 1) & 1
    IN  x ^^ Shl(b, k + 1)

(***************************************************************************)
(* parent_step(x): with k = level(x) and b = (x >> (k + 1)) & 1, the       *)
(* result is (x | (1 << k)) ^ (b << (k + 1)).  The code has no guard: for  *)
(* k + 1 >= W the shifts overflow, so the outcome is the build's: a panic  *)
(* (debug) or the masked-shift value (release).  ParentStepOutcomes is the *)
(* set of outcomes; parent_step is the value when no shift overflows.      *)
(***************************************************************************)
parent_step(x) ==
    LET k == level(x)
        b == Shr(x, k + 1) & 1
    IN  (x | Shl(1, k)) ^^ Shl(b, k + 1)

ParentStepOutcomes(x) ==
    IF ShiftOverflows(level(x) + 1)
    THEN {Panic, parent_step(x)}
    ELSE {parent_step(x)}
=============================================================================
