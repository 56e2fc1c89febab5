----------------------------- MODULE Allocator -----------------------------
(***************************************************************************)
(* What mem_alloc and mem_free promise (lib/kernel/mem.h:46-48): a block   *)
(* that is handed out lies inside the heap and overlaps none of those that *)
(* are still in use, until the heap is broken.                             *)
(***************************************************************************)
EXTENDS Integers

CONSTANT HeapSize

VARIABLES
  blocks,   \* the blocks in use: address and length
  broken    \* was the heap destroyed?

Apart(b, c) == b[1] + b[2] <= c[1] \/ c[1] + c[2] <= b[1]

Init == blocks = {} /\ broken = FALSE

Alloc == \E a \in 0 .. HeapSize - 1, n \in 1 .. HeapSize :
           /\ ~broken
           /\ a + n <= HeapSize
           /\ \A b \in blocks : Apart(b, <<a, n>>)
           /\ blocks' = blocks \cup {<<a, n>>}
           /\ UNCHANGED broken

Free == \E b \in blocks : /\ ~broken
                          /\ blocks' = blocks \ {b}
                          /\ UNCHANGED broken

Break == ~broken /\ broken' = TRUE /\ UNCHANGED blocks

Next == Alloc \/ Free \/ Break

Spec == Init /\ [][Next]_<<blocks, broken>>
=============================================================================
