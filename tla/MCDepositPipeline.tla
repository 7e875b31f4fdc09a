-------------------------- MODULE MCDepositPipeline --------------------------
EXTENDS DepositPipeline, TLC

CONSTANTS j1, r1

MCTokenIndexOf == <<1, 2, 0>>

=============================================================================
