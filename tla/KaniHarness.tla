---------------------------- MODULE KaniHarness -----------------------------
(***************************************************************************)
(* The Kani proof harness verify_tree_navigation_properties of             *)
(* rust/keytrans/src/left_balanced.rs, as the program Kani explores: x is  *)
(* kani::any() restricted by kani::assume, then the two blocks of          *)
(* assertions run in order.  Kani fails a path at the first assertion that *)
(* does not hold and at every arithmetic overflow, a shift by at least the *)
(* bit width included; pc names where the path stopped.                    *)
(***************************************************************************)
EXTENDS LeftBalanced

CONSTANT AssumeBound  \* kani::assume(x < AssumeBound): 1 << 16 in the code

ASSUME AssumeBound \in 1 .. 2^W

VARIABLES
    x,                \* the symbolic input
    pc                \* "children", "parent", "done", or the failure

vars == <<x, pc>>

\* A path of the harness stops at an overflow or a failed assertion.
Failures == {"overflow", "assert_level", "assert_parent", "assert_order",
             "assert_child"}

\* The outcome of an assertion: continue at next if it holds.
Check(cond, next, failure) == IF cond THEN next ELSE failure

\* let x = kani::any(); kani::assume(x < (1 << 16)); let lvl = level(x);
Init ==
    /\ x \in {v \in Word : v < AssumeBound}
    /\ pc = "children"

(***************************************************************************)
(* Property 2: for a non-leaf x the two children are one level lower, have *)
(* x as parent, and are ordered.  The assertions are evaluated in the      *)
(* order of the code; parent_step of a child overflows when the child's    *)
(* level plus one reaches the width.                                        *)
(***************************************************************************)
ChildrenBlock ==
    /\ pc = "children"
    /\ pc' =
         IF is_leaf(x) \/ level(x) = 0 THEN "parent"
         ELSE LET l == left_step(x)
                  r == right_step(x)
              IN  CASE level(l) # level(x) - 1        -> "assert_level"
                    [] level(r) # level(x) - 1        -> "assert_level"
                    [] ShiftOverflows(level(l) + 1)   -> "overflow"
                    [] parent_step(l) # x             -> "assert_parent"
                    [] ShiftOverflows(level(r) + 1)   -> "overflow"
                    [] parent_step(r) # x             -> "assert_parent"
                    [] ~(l < r)                       -> "assert_order"
                    [] OTHER                          -> "parent"
    /\ UNCHANGED x

(***************************************************************************)
(* Property 3: below level 63 (W - 1) the parent is one level higher and,  *)
(* when it is not a leaf, x is one of its two children.                    *)
(***************************************************************************)
ParentBlock ==
    /\ pc = "parent"
    /\ pc' =
         IF ~(level(x) < W - 1) THEN "done"
         ELSE LET p == parent_step(x)
              IN  CASE level(p) # level(x) + 1 -> "assert_level"
                    [] is_leaf(p)              -> "done"
                    [] OTHER -> Check(x \in {left_step(p), right_step(p)},
                                      "done", "assert_child")
    /\ UNCHANGED x

Next == ChildrenBlock \/ ParentBlock

Spec == Init /\ [][Next]_vars

-----------------------------------------------------------------------------
(***************************************************************************)
(* The harness verifies: no path for an x the assume admits stops at an    *)
(* overflow or at a failed assertion of Property 2 or Property 3.  This is  *)
(* what a successful `cargo kani` run of verify_tree_navigation_properties *)
(* reports.                                                                *)
(***************************************************************************)
HarnessHolds == pc \notin Failures
=============================================================================
