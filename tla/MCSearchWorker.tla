--------------------------- MODULE MCSearchWorker ---------------------------
(* Model values and bounds for checking SearchWorker with TLC: one organisation  *)
(* whose searches match the same three companies, so that runs compete for them. *)
EXTENDS SearchWorker

CONSTANTS acme, s1, s2, w1, w2

MCOrgs == {acme}
MCOrgOf == [s \in Searches |-> acme]
MCMode == [s \in Searches |-> IF s = s1 THEN "structured" ELSE "semantic"]
MCMatches == [s \in Searches |-> {1, 2, 3}]
MCNoMaxResults == [s \in Searches |-> 0]
MCMaxResults == [s \in Searches |-> IF s = s1 THEN 2 ELSE 0]
=============================================================================
