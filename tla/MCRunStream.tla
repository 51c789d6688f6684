---------------------------- MODULE MCRunStream ----------------------------
(* Model-checking instances of RunStream.                                  *)
EXTENDS RunStream
=============================================================================
