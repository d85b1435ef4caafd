------------------------------ MODULE HeapPool ------------------------------
(***************************************************************************)
(* What lwIP's heap promises its callers: areas that never overlap, each   *)
(* at least as long as asked for and with room for its header, and no      *)
(* refusal as long as any gap between them is long enough.                 *)
(***************************************************************************)
EXTENDS Naturals

CONSTANTS MEM, HDR, Sizes   \* units of the heap and of a header; requests

VARIABLE areas   \* the areas handed out, headers included, as <<from, to>>

Disjoint(x, y) == x[2] <= y[1] \/ y[2] <= x[1]
FitsGap(f, t) == f + HDR <= t /\ \A x \in areas : Disjoint(x, <<f, t>>)

Init == areas = {}

\* n units are found wherever they fit; the area may be longer than asked for.
Alloc(n) ==
  \E f \in 0 .. MEM : \E t \in f + HDR + n .. MEM :
    FitsGap(f, t) /\ areas' = areas \cup {<<f, t>>}

\* The caller gives up an area, or the end of one.
Free(x) == areas' = areas \ {x}
Shrink(x) ==
  \E t \in x[1] + HDR .. x[2] - 1 : areas' = (areas \ {x}) \cup {<<x[1], t>>}

\* A refusal leaves the areas alone, and says that no gap was long enough.
NoRoom(n) == \A f \in 0 .. MEM : f + HDR + n <= MEM => ~FitsGap(f, f + HDR + n)

Next == \/ \E n \in Sizes : Alloc(n)
        \/ \E x \in areas : Free(x) \/ Shrink(x)

Spec == Init /\ [][Next]_areas
=============================================================================
