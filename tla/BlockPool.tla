----------------------------- MODULE BlockPool -----------------------------
(***************************************************************************)
(* What malloc.c promises the caller of one memory bank: blocks are runs   *)
(* of cells that never overlap, a request takes the highest run that is    *)
(* free, and fails only when there is none.                                *)
(***************************************************************************)
EXTENDS Integers

CONSTANTS
  N,     \* cells of the bank
  Lens,  \* lengths in cells that a caller may request
  NIL    \* the null pointer

VARIABLES
  held,  \* the blocks the caller holds
  ret    \* what the last request returned

Cells(b)   == b.off .. b.off + b.len - 1
Block(o, n) == [off |-> o, len |-> n]
Free(c)    == \A b \in held : c \notin Cells(b)
Fits(o, n) == /\ o \in 0 .. N - n
              /\ \A c \in Cells(Block(o, n)) : Free(c)
Highest(o, n) == Fits(o, n) /\ \A p \in 0 .. N - n : Fits(p, n) => p <= o

Init == held = {} /\ ret = NIL

Grant(n) == \E o \in 0 .. N - n :
              /\ Highest(o, n)
              /\ ret' = Block(o, n)
              /\ held' = held \cup {ret'}
Refuse(n) == /\ \A o \in 0 .. N - n : ~Fits(o, n)
             /\ ret' = NIL /\ UNCHANGED held
RefuseEmpty == ret' = NIL /\ UNCHANGED held     \* a request for zero bytes
Release(b) == held' = held \ {b} /\ UNCHANGED ret
Move(b, n) == \E o \in 0 .. N - n :
                /\ Highest(o, n)
                /\ ret' = Block(o, n)
                /\ held' = (held \ {b}) \cup {ret'}

Next == \/ RefuseEmpty
        \/ \E n \in Lens : Grant(n) \/ Refuse(n)
        \/ \E b \in held : Release(b) \/ \E n \in Lens : Move(b, n)

Spec == Init /\ [][Next]_<<held, ret>>
=============================================================================
