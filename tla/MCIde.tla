-------------------------------- MODULE MCIde --------------------------------
(* A small instance of Ide.                                                *)
EXTENDS Ide
=============================================================================
