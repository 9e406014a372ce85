--------------------------- MODULE MCBudgetLedger ---------------------------
EXTENDS BudgetLedger, TLC

CONSTANTS root, child, turn, call, e1, e2, e3, p, q

MCParent    == child :> root
MCLimit     == (root :> 4) @@ (child :> 2)
MCCeiling   == child :> 3
MCRetained  == child :> 1
MCAgentOf   == (turn :> child) @@ (call :> child)
MCCallOf    == (e1 :> turn) @@ (e2 :> call) @@ (e3 :> call)
MCOuter     == (e1 :> "nobody") @@ (e2 :> e1) @@ (e3 :> "nobody")
MCServiceOf == (e1 :> p) @@ (e2 :> p) @@ (e3 :> q)
=============================================================================
