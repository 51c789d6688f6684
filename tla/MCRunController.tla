-------------------------- MODULE MCRunController --------------------------
(* Model-checking instance of RunController.                               *)
EXTENDS RunController
=============================================================================
