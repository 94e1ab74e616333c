--------------------------- MODULE MCExportWorker ---------------------------
(* Model values and bounds for checking ExportWorker with TLC: two exports of one *)
(* organisation; the lead of the second is in no company table.                   *)
EXTENDS ExportWorker

CONSTANTS acme, e1, e2

MCOrgs == {acme}
MCOrgOf == [e \in Exports |-> acme]
MCCNPJs == [e \in Exports |-> IF e = e1 THEN <<1, 2>> ELSE <<3>>]
MCKnown == {1, 2}
=============================================================================
