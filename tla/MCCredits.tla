----------------------------- MODULE MCCredits -----------------------------
(* Model values and bounds for checking Credits with TLC. *)
EXTENDS Credits

CONSTANTS acme, borsari, c1, c2
MCOrgs == {acme, borsari}
MCConns == {c1, c2}
MCPrices == {1, 2}
MCPurchases == {-1, 0, 1, 2}
=============================================================================
