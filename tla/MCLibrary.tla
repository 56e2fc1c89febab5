------------------------------ MODULE MCLibrary ------------------------------
(***************************************************************************)
(* The library on words of ten bits: every number is printed in both bases,*)
(* and the times are taken around the boundaries of the division.          *)
(***************************************************************************)
EXTENDS Library

MCTimes == 0 .. 12 \cup 30 .. 33 \cup 98 .. 102 \cup {255, 256, 257}
             \cup 509 .. 514 \cup {640, 1000, 1023}
=============================================================================
