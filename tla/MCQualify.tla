------------------------------ MODULE MCQualify ------------------------------
(* Model values and bounds for checking Qualify with TLC: one organisation whose *)
(* users ask for one company twice and consult another, and a second one.        *)
EXTENDS Qualify

CONSTANTS acme, beta, q1, q2, q3, k1, shop, ghost

MCKind == [r \in Requests |-> IF r = k1 THEN "consult" ELSE "qualify"]
MCOrgOf == [r \in Requests |-> IF r = q3 THEN beta ELSE acme]
MCCompanyOf == [r \in Requests |-> IF r = k1 THEN ghost ELSE shop]
MCLedgers == {{"consult"}, {"consult", "qualify"}}
=============================================================================
