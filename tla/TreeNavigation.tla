--------------------------- MODULE TreeNavigation ---------------------------
(***************************************************************************)
(* A consumer of left_balanced.rs (the log tree or the implicit binary     *)
(* search tree) walking the flat array: a cursor holds a node index and    *)
(* each step is one call of left_step, right_step or parent_step.  The     *)
(* walker keeps the preconditions the consumer is responsible for: it      *)
(* only descends from an intermediate node and only ascends below the      *)
(* maximal level.  The walk is shown to implement TreeSpans, the           *)
(* arithmetic-free description of in-order navigation.                     *)
(***************************************************************************)
EXTENDS LeftBalanced

CONSTANT StartNodes   \* indices the walker may start from

ASSUME StartNodes \subseteq Word

VARIABLE cursor

vars == <<cursor>>

Init == cursor \in StartNodes

GoLeft ==
    /\ ~is_leaf(cursor)
    /\ cursor' = left_step(cursor)

GoRight ==
    /\ ~is_leaf(cursor)
    /\ cursor' = right_step(cursor)

GoUp ==
    /\ level(cursor) < W - 1
    /\ cursor' \in ParentStepOutcomes(cursor)

Next == GoLeft \/ GoRight \/ GoUp

Spec == Init /\ [][Next]_vars

(***************************************************************************)
(* A consumer computing the path from a node to the root (the direct path  *)
(* of the log tree) calls parent_step in a loop until the root is reached. *)
(* The loop is the consumer's only work, so it is weakly fair: while a      *)
(* parent can be asked for, one is eventually asked for.                   *)
(***************************************************************************)
ClimbSpec == Init /\ [][GoUp]_vars /\ WF_vars(GoUp)

(***************************************************************************)
(* A consumer whose tree-size bookkeeping is wrong asks for the parent of  *)
(* any node, the root of the largest tree included: parent_step has no     *)
(* guard of its own.  An aborted call (Panic) ends the walk.               *)
(***************************************************************************)
GoUpUnchecked ==
    /\ cursor \in Word
    /\ cursor' \in ParentStepOutcomes(cursor)

UncheckedClimbSpec == Init /\ [][GoUpUnchecked]_vars

-----------------------------------------------------------------------------
TypeOK == cursor \in Word

(***************************************************************************)
(* Refinement: the interval of array positions covered by the subtree of   *)
(* node x at level k is x - (2^k - 1) .. x + (2^k - 1).  Under this mapping *)
(* every left_step, right_step and parent_step the walker takes is the     *)
(* corresponding TreeSpans step, so the bit tricks of left_balanced.rs     *)
(* compute exactly the in-order children and parent.                       *)
(***************************************************************************)
SpanOf(x) == [lo |-> x - (2^level(x) - 1), hi |-> x + (2^level(x) - 1)]

Spans == INSTANCE TreeSpans WITH span <- SpanOf(cursor)

\* Navigation through left_step, right_step and parent_step implements the
\* in-order subtree navigation of TreeSpans.
ImplementsTreeSpans == Spans!Spec

\* log2 of the cursor is the position of its highest set bit, and 0 for
\* index 0 (checked_ilog2(..).unwrap_or(0)); the cursor ranges over every
\* start node, so every index of the tree is checked.
Log2IsFloorLog ==
    IF cursor = 0
    THEN log2(cursor) = 0
    ELSE 2^log2(cursor) <= cursor /\ cursor < 2^(log2(cursor) + 1)

\* Climbing terminates at the root: from every start node, repeated
\* parent_step calls reach level W-1, the root of the largest tree, so no
\* parent_step returns its argument or a node of a lower level.
ReachesRoot == <>(level(cursor) = W - 1)

\* A parent_step whose shifts overflow the index aborts (spec, "Failure
\* semantics": overflowing the index width is a defect to signal, not a
\* sentinel to return); it never hands the caller an index.
ParentOverflowAborts ==
    [][(cursor \in Word /\ ShiftOverflows(level(cursor) + 1)) => cursor' = Panic]_vars

\* A right child lies above its parent in the array (spec, section 8:
\* "for all non-leaf x ... right_step(x) > x"), for each right_step taken.
RightChildAbove == [][GoRight => cursor' > cursor]_vars
=============================================================================
