----------------------------- MODULE MCKeyboard -----------------------------
(* A small instance of Keyboard.                                           *)
EXTENDS Keyboard
=============================================================================
