--------------------------- MODULE MCMessageRelay ---------------------------
EXTENDS MessageRelay, TLC

CONSTANTS j1, j2

MCItemsOf == <<3, 2>>
MCTypeMaps == {<<"withdrawal", "withdrawal">>, <<"withdrawal", "claim">>}
MCCanRevert == {{}, {1}}
=============================================================================
