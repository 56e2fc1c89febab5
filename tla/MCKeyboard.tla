----------------------------- MODULE MCKeyboard -----------------------------
(***************************************************************************)
(* The instance for TLC: two printable characters, one of which is also    *)
(* what the enumeration leaves in byte 8 of transfer_buffer (bMaxPower of  *)
(* the configuration descriptor: 100 mA is the scancode of ~), reports of  *)
(* two keys and a line buffer of three characters.                         *)
(***************************************************************************)
EXTENDS Keyboard
=============================================================================
