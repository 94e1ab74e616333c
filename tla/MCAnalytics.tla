----------------------------- MODULE MCAnalytics -----------------------------
(* Model values and bounds for checking Analytics with TLC: two organisations, one of *)
(* them created while the ETL runs; ana searches and exports, root works for both.    *)
EXTENDS Analytics

CONSTANTS acme, beta, ana, root, buy, t1, t2, t3, s1, s2, x1, x2

MCRuns == {"hourly", "manual"}
MCHourly == "hourly"
MCHome == [u \in Users |-> acme]
MCAuthor == [x \in {buy, t1, t2, t3, s1, s2, x1, x2} |->
               IF x = buy THEN Null ELSE IF x \in {t3, s2} THEN root ELSE ana]
MCOrgOf == [x \in {buy, t1, t2, t3, s1, s2} |-> IF x \in {t3, s2} THEN beta ELSE acme]
MCAmount == [t \in Txs |-> IF t = buy THEN 5 ELSE IF t = t1 THEN -2 ELSE -1]
MCRef == [t \in Txs |-> IF t \in {t1, t2} THEN s1 ELSE Null]
MCDay == [t \in Txs |-> IF t \in {buy, t1} THEN 1 ELSE 2]
=============================================================================
