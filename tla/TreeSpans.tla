----------------------------- MODULE TreeSpans -----------------------------
(***************************************************************************)
(* What tree navigation promises, without bit arithmetic.  The nodes of a  *)
(* complete binary tree laid out in in-order over array positions          *)
(* 0 .. 2^W - 2 are identified by the interval of positions their subtree  *)
(* covers.  A node is the middle of its interval; its left child covers    *)
(* the half below the middle, its right child the half above; a subtree of *)
(* size s is the left child of its parent iff its first position is a      *)
(* multiple of 2 * (s + 1).  A walker moves a cursor down to a child or up *)
(* to the parent, never above the root of the whole array.                 *)
(***************************************************************************)
EXTENDS Naturals

CONSTANT W            \* bit width of a node index

VARIABLE span         \* [lo, hi] interval covered by the cursor's subtree

Size(s) == s.hi - s.lo + 1
Mid(s) == (s.lo + s.hi) \div 2

\* Interval of a subtree of height h (h = 0 is a leaf) starting at lo.
SpanAt(lo, h) == [lo |-> lo, hi |-> lo + 2^(h + 1) - 2]

\* Every subtree of the complete tree with 2^(W-1) leaves.
Spans == UNION { { SpanAt(m * 2^(h + 1), h) : m \in 0 .. (2^(W - 1 - h) - 1) } :
                 h \in 0 .. (W - 1) }

Init == span \in Spans

Left ==
    /\ Size(span) > 1
    /\ span' = [lo |-> span.lo, hi |-> Mid(span) - 1]

Right ==
    /\ Size(span) > 1
    /\ span' = [lo |-> Mid(span) + 1, hi |-> span.hi]

Up ==
    LET s == Size(span)
    IN  /\ 2 * s + 1 < 2^W
        /\ span' = IF span.lo % (2 * (s + 1)) = 0
                   THEN [lo |-> span.lo, hi |-> span.hi + s + 1]
                   ELSE [lo |-> span.lo - s - 1, hi |-> span.hi]

Next == Left \/ Right \/ Up

Spec == Init /\ [][Next]_span
=============================================================================
