------------------------------ MODULE MCTokenApi ------------------------------
(* Filters of TokenApi that begin with the same token, for TLC.            *)
EXTENDS TokenApi

MCFilters == {<<1>>, <<1, 2>>}
=============================================================================
