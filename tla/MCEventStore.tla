---------------------------- MODULE MCEventStore ----------------------------
EXTENDS EventStore, TLC

CONSTANTS p1, p2, a1, b1, main, other

MCStoreOf == (a1 :> p1) @@ (b1 :> p2)
=============================================================================
