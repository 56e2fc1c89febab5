------------------------------ MODULE MCMemory ------------------------------
(***************************************************************************)
(* A heap for five pcbs of three headers and a remainder too small to be   *)
(* split off, which begins inside a page of four headers; four free pages, *)
(* and pids up to 3 that get one.                                          *)
(***************************************************************************)
EXTENDS Memory
=============================================================================
