------------------------- MODULE MCTokenMapRegister -------------------------
EXTENDS TokenMapRegister, TLC

CONSTANTS r1, r2

MCTokenIndexOf == <<1, 0, 2>>

=============================================================================
