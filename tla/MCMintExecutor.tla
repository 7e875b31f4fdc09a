---------------------------- MODULE MCMintExecutor ----------------------------
(* Model values of MintExecutor for TLC.                                   *)
EXTENDS MintExecutor

CONSTANT j1
===============================================================================
