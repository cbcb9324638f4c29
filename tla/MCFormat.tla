------------------------------ MODULE MCFormat -------------------------------
(* A small instance of Format.                                             *)
EXTENDS Format
=============================================================================
