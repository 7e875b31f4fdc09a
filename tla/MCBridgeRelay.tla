---------------------------- MODULE MCBridgeRelay ----------------------------
(* Model values of BridgeRelay for TLC.                                    *)
EXTENDS BridgeRelay

CONSTANTS j1, j2
=============================================================================
