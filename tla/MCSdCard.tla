------------------------------ MODULE MCSdCard ------------------------------
(***************************************************************************)
(* The SD card with every kind of card and of controller, buffers of less  *)
(* than a block, one block, one and a half, two, and too many.             *)
(***************************************************************************)
EXTENDS SdCard
=============================================================================
