----------------------------- MODULE MCPromotion -----------------------------
EXTENDS Promotion, TLC

CONSTANTS p, q, r1, r2, o1, o2, o3

MCPatch    == (r1 :> "a") @@ (r2 :> "b")
MCReviewOf == (o1 :> r1) @@ (o2 :> r1) @@ (o3 :> r2)
=============================================================================
