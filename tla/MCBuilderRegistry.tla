-------------------------- MODULE MCBuilderRegistry --------------------------
(* Model values of BuilderRegistry for TLC.                                *)
EXTENDS BuilderRegistry

CONSTANTS b1, b2, r1
=============================================================================
