---------------------------- MODULE ExportWorker ----------------------------
(***************************************************************************)
(* Exports of leads to the customer's CRM (internal/exports).              *)
(*                                                                         *)
(* POST /exports inserts a row and pushes its id on the Redis list         *)
(* queue:exports.  One goroutine, Worker.Run, pops ids and processes them: *)
(* each lead is sent to Chatwoot and then charged, in that order.  A run   *)
(* with failures is put in the sorted set queue:exports:delayed, until     *)
(* maxAttempts runs were made; a second goroutine, the promoter, moves     *)
(* what is due back to the list, every 30 seconds.                         *)
(*                                                                         *)
(* Unlike a search, an export is not recovered at start, nothing tests     *)
(* its status before it is run, and a run begins with the first lead again.*)
(***************************************************************************)
EXTENDS Integers, FiniteSets, SequencesExt

CONSTANTS Orgs,         \* organisations
          Exports,      \* exports that users may create
          OrgOf,        \* OrgOf[e]: organisation that owns e
          CNPJs,        \* CNPJs[e]: the leads of e, as the request lists them
          Known,        \* CNPJs that are in tb_companies
          MaxAttempts,  \* maxAttempts (3)
          Funds,        \* credits each organisation has at the start
          MaxFaults,    \* bound: failed calls and crashes the model explores
          None          \* no export

ASSUME ExportAssumption ==
  /\ IsFiniteSet(Exports)
  /\ OrgOf \in [Exports -> Orgs]
  /\ CNPJs \in [Exports -> Seq(Nat)]
  /\ \A e \in Exports : CNPJs[e] # <<>>
  /\ MaxAttempts \in Nat \ {0}
  /\ Funds \in Nat
  /\ MaxFaults \in Nat
  /\ None \notin Exports

VARIABLES
  \* tb_export_queue
  status,    \* status[e]; "none" before the row exists
  attempt,
  success,   \* success_count
  fail,      \* fail_count
  retryAt,   \* retryAt[e]: next_retry_at is set
  \* fato_funil_leads
  inFunnel,  \* exports whose search has a row (the ETL has seen the search)
  exported,  \* exported[e]: what e added to leads_exportados
  \* Redis, and requests between the INSERT and the RPush
  queue,     \* queue:exports
  delayed,   \* members of queue:exports:delayed
  due,       \* those whose score has passed
  unpushed,
  \* The credit ledger and the CRM
  balance,
  spent,
  charges,   \* charges[e][i]: debits for the i-th lead of e
  delivered, \* delivered[e]: positions of the leads of e that the CRM received
  \* Worker.Run
  pc,
  cur,       \* the export being processed
  try,       \* attempt, as MarkProcessing returned it
  pos,       \* position of the lead being processed
  good,      \* successCount
  bad,       \* failCount
  \* The promoter
  promo,     \* where it is: "down", "wait" (for a tick), "push" or "remove"
  ids,       \* ids it has left to move
  faults

rowVars == <<status, attempt, success, fail, retryAt>>
funnelVars == <<inFunnel, exported>>
redisVars == <<queue, delayed, due>>
ledgerVars == <<balance, spent, charges>>
runVars == <<cur, try, pos, good, bad>>
promoVars == <<promo, ids>>
vars == <<rowVars, funnelVars, redisVars, unpushed, ledgerVars, delivered,
          pc, runVars, promoVars, faults>>

Ledger == INSTANCE CreditLedger WITH MaxInt <- Funds

Ended == {"done", "partial", "failed"}
PCs == {"down", "pop", "mark", "integration", "lead", "charge", "schedule", "record", "funnel"}

Init ==
  /\ status = [e \in Exports |-> "none"]
  /\ attempt = [e \in Exports |-> 0]
  /\ success = [e \in Exports |-> 0]
  /\ fail = [e \in Exports |-> 0]
  /\ retryAt = [e \in Exports |-> FALSE]
  /\ inFunnel = {}
  /\ exported = [e \in Exports |-> 0]
  /\ queue = <<>>
  /\ delayed = {}
  /\ due = {}
  /\ unpushed = {}
  /\ balance = [o \in Orgs |-> Funds]
  /\ spent = [o \in Orgs |-> 0]
  /\ charges = [e \in Exports |-> [i \in DOMAIN CNPJs[e] |-> 0]]
  /\ delivered = [e \in Exports |-> {}]
  /\ pc = "down"
  /\ cur = None
  /\ try = 0 /\ pos = 0 /\ good = 0 /\ bad = 0
  /\ promo = "down"
  /\ ids = <<>>
  /\ faults = 0

\* A call fails, within the bound.
Fails ==
  /\ faults < MaxFaults
  /\ faults' = faults + 1

-----------------------------------------------------------------------------
(* Requests, and what happens around the worker *)

\* Service.CreateExport: the balance covers one credit for each lead now; nothing
\* is reserved.
CreateExport(e) ==
  /\ status[e] = "none"
  /\ Len(CNPJs[e]) <= balance[OrgOf[e]]
  /\ status' = [status EXCEPT ![e] = "pending"]
  /\ unpushed' = unpushed \cup {e}
  /\ UNCHANGED <<attempt, success, fail, retryAt, funnelVars, redisVars, ledgerVars,
                 delivered, pc, runVars, promoVars, faults>>

\* Handler.CreateExport, RPush: an error is only logged.
Push(e) ==
  /\ e \in unpushed
  /\ unpushed' = unpushed \ {e}
  /\ \/ queue' = Append(queue, e) /\ UNCHANGED faults
     \/ Fails /\ UNCHANGED queue
  /\ UNCHANGED <<rowVars, funnelVars, delayed, due, ledgerVars, delivered, pc, runVars, promoVars>>

\* The ETL makes the row of the search the leads come from.
EnterFunnel(e) ==
  /\ e \notin inFunnel
  /\ inFunnel' = inFunnel \cup {e}
  /\ UNCHANGED <<rowVars, exported, redisVars, unpushed, ledgerVars, delivered, pc,
                 runVars, promoVars, faults>>

\* The time of a delayed retry comes.
FallDue(e) ==
  /\ e \in delayed \ due
  /\ due' = due \cup {e}
  /\ UNCHANGED <<rowVars, funnelVars, queue, delayed, unpushed, ledgerVars, delivered,
                 pc, runVars, promoVars, faults>>

-----------------------------------------------------------------------------
(* The promoter *)

\* promoteDelayed, ZRangeByScore: by score, so in any order here.
ListDue ==
  /\ promo = "wait"
  /\ due # {}
  /\ ids' \in SetToSeqs(due)
  /\ promo' = "push"
  /\ UNCHANGED <<rowVars, funnelVars, redisVars, unpushed, ledgerVars, delivered, pc,
                 runVars, faults>>

\* On to the next of the ids.
NextId ==
  /\ ids' = Tail(ids)
  /\ promo' = IF Len(ids) = 1 THEN "wait" ELSE "push"

\* promoteDelayed, RPush: the id is skipped when it fails.
Promote ==
  /\ promo = "push"
  /\ \/ /\ queue' = Append(queue, Head(ids))
        /\ promo' = "remove"
        /\ UNCHANGED <<ids, faults>>
     \/ Fails /\ NextId /\ UNCHANGED queue
  /\ UNCHANGED <<rowVars, funnelVars, delayed, due, unpushed, ledgerVars, delivered,
                 pc, runVars>>

\* promoteDelayed, ZRem: whatever score the member has by now.
RemovePromoted ==
  /\ promo = "remove"
  /\ NextId
  /\ \/ /\ delayed' = delayed \ {Head(ids)}
        /\ due' = due \ {Head(ids)}
        /\ UNCHANGED faults
     \/ Fails /\ UNCHANGED <<delayed, due>>
  /\ UNCHANGED <<rowVars, funnelVars, queue, unpushed, ledgerVars, delivered, pc, runVars>>

-----------------------------------------------------------------------------
(* Worker.process *)

Start ==
  /\ pc = "down"
  /\ pc' = "pop"
  /\ promo' = "wait"
  /\ UNCHANGED <<rowVars, funnelVars, redisVars, unpushed, ledgerVars, delivered,
                 runVars, ids, faults>>

\* BLPop and getExportByID.
Pop ==
  /\ pc = "pop"
  /\ queue # <<>>
  /\ queue' = Tail(queue)
  /\ \/ pc' = "mark" /\ cur' = Head(queue) /\ UNCHANGED faults
     \/ Fails /\ UNCHANGED <<pc, cur>>
  /\ UNCHANGED <<rowVars, funnelVars, delayed, due, unpushed, ledgerVars, delivered,
                 try, pos, good, bad, promoVars>>

\* process returns.
Return ==
  /\ pc' = "pop"
  /\ cur' = None
  /\ try' = 0 /\ pos' = 0 /\ good' = 0 /\ bad' = 0

MarkProcessing ==
  /\ pc = "mark"
  /\ \/ /\ status' = [status EXCEPT ![cur] = "processing"]
        /\ attempt' = [attempt EXCEPT ![cur] = @ + 1]
        /\ pc' = "integration"
        /\ try' = attempt[cur] + 1
        /\ UNCHANGED <<cur, pos, good, bad, faults>>
     \/ Fails /\ Return /\ UNCHANGED <<status, attempt>>
  /\ UNCHANGED <<success, fail, retryAt, funnelVars, redisVars, unpushed, ledgerVars,
                 delivered, promoVars>>

\* GetIntegrationRaw and Decrypt: an error leaves the export as it is, "processing".
GetIntegration ==
  /\ pc = "integration"
  /\ \/ pc' = "lead" /\ pos' = 1 /\ UNCHANGED <<cur, try, good, bad, faults>>
     \/ Fails /\ Return
  /\ UNCHANGED <<rowVars, funnelVars, redisVars, unpushed, ledgerVars, delivered, promoVars>>

AtLead == pc = "lead" /\ pos <= Len(CNPJs[cur])

\* The loop goes on with the next lead.
NextLead ==
  /\ pos' = pos + 1
  /\ pc' = "lead"
  /\ UNCHANGED <<cur, try>>

LeadFails == NextLead /\ bad' = bad + 1 /\ UNCHANGED good

\* companies.GetByCNPJ finds no such company, or fails.
LookupFails ==
  /\ AtLead
  /\ \/ CNPJs[cur][pos] \notin Known /\ UNCHANGED faults
     \/ Fails
  /\ LeadFails
  /\ UNCHANGED <<rowVars, funnelVars, redisVars, unpushed, ledgerVars, delivered, promoVars>>

\* chatwoot.ExportCompany: a refusal, or an error after the CRM took the lead.
SendFails ==
  /\ AtLead
  /\ CNPJs[cur][pos] \in Known
  /\ \E got \in SUBSET {pos} : delivered' = [delivered EXCEPT ![cur] = @ \cup got]
  /\ LeadFails
  /\ UNCHANGED <<rowVars, funnelVars, redisVars, unpushed, ledgerVars, promoVars, faults>>

\* Mutant of Send: the status the CRM answers with is not looked at.
SendUnchecked ==
  /\ AtLead
  /\ CNPJs[cur][pos] \in Known
  /\ \E got \in SUBSET {pos} : delivered' = [delivered EXCEPT ![cur] = @ \cup got]
  /\ pc' = "charge"
  /\ UNCHANGED <<rowVars, funnelVars, redisVars, unpushed, ledgerVars, runVars,
                 promoVars, faults>>

\* chatwoot.ExportCompany: the contact and its conversation exist.
Send ==
  /\ AtLead
  /\ CNPJs[cur][pos] \in Known
  /\ delivered' = [delivered EXCEPT ![cur] = @ \cup {pos}]
  /\ pc' = "charge"
  /\ UNCHANGED <<rowVars, funnelVars, redisVars, unpushed, ledgerVars, runVars,
                 promoVars, faults>>

\* Mutant of PayForLead: Deduct does not look at the balance.
PayUnchecked ==
  /\ balance' = [balance EXCEPT ![OrgOf[cur]] = @ - 1]
  /\ spent' = [spent EXCEPT ![OrgOf[cur]] = @ + 1]
  /\ charges' = [charges EXCEPT ![cur][pos] = @ + 1]

\* BeginTx, Deduct of one credit, Commit.
PayForLead ==
  /\ Ledger!Debit(OrgOf[cur], 1)
  /\ charges' = [charges EXCEPT ![cur][pos] = @ + 1]

ChargeLead ==
  /\ pc = "charge"
  /\ PayForLead
  /\ NextLead
  /\ good' = good + 1
  /\ UNCHANGED <<rowVars, funnelVars, redisVars, unpushed, delivered, bad, promoVars, faults>>

\* ErrInsufficientCredits, after the lead was delivered.
ChargeRefused ==
  /\ pc = "charge"
  /\ balance[OrgOf[cur]] < 1
  /\ LeadFails
  /\ UNCHANGED <<rowVars, funnelVars, redisVars, unpushed, ledgerVars, delivered,
                 promoVars, faults>>

\* Any other error of the debit; the commit may have taken effect.
ChargeError ==
  /\ pc = "charge"
  /\ Fails
  /\ PayForLead \/ UNCHANGED ledgerVars
  /\ LeadFails
  /\ UNCHANGED <<rowVars, funnelVars, redisVars, unpushed, delivered, promoVars>>

\* Mutant of Retries: off by one.
RetriesOnceMore == bad > 0 /\ try <= MaxAttempts

Retries == bad > 0 /\ try < MaxAttempts

\* Mutant of LeadsDone: off by one, the loop is never left.
LeadsDoneLate ==
  /\ pc = "lead"
  /\ pos > Len(CNPJs[cur]) + 1
  /\ pc' = "record"
  /\ UNCHANGED <<rowVars, funnelVars, redisVars, unpushed, ledgerVars, delivered,
                 runVars, promoVars, faults>>

LeadsDone ==
  /\ pc = "lead"
  /\ pos > Len(CNPJs[cur])
  /\ pc' = IF Retries THEN "schedule" ELSE "record"
  /\ UNCHANGED <<rowVars, funnelVars, redisVars, unpushed, ledgerVars, delivered,
                 runVars, promoVars, faults>>

\* ZAdd: a member that is there already gets the new score.
ScheduleRetry ==
  /\ pc = "schedule"
  /\ pc' = "record"
  /\ \/ /\ delayed' = delayed \cup {cur}
        /\ due' = due \ {cur}
        /\ UNCHANGED faults
     \/ Fails /\ UNCHANGED <<delayed, due>>
  /\ UNCHANGED <<rowVars, funnelVars, queue, unpushed, ledgerVars, delivered, runVars, promoVars>>

\* Mutant of FinalStatus: some success is taken for all of it.
StatusBySuccess == IF Retries THEN "failed" ELSE IF good > 0 THEN "done" ELSE "failed"

FinalStatus ==
  IF Retries THEN "failed"
  ELSE IF bad = 0 THEN "done"
  ELSE IF good > 0 THEN "partial" ELSE "failed"

\* UpdateExportResult: an error is only logged.
RecordResult ==
  /\ pc = "record"
  /\ pc' = "funnel"
  /\ \/ /\ status' = [status EXCEPT ![cur] = FinalStatus]
        /\ success' = [success EXCEPT ![cur] = good]
        /\ fail' = [fail EXCEPT ![cur] = bad]
        /\ retryAt' = [retryAt EXCEPT ![cur] = Retries]
        /\ UNCHANGED faults
     \/ Fails /\ UNCHANGED <<status, success, fail, retryAt>>
  /\ UNCHANGED <<attempt, funnelVars, redisVars, unpushed, ledgerVars, delivered,
                 runVars, promoVars>>

\* IncrFunnelExported updates the row of the search, if there is one.
CountInFunnel ==
  /\ pc = "funnel"
  /\ \/ /\ exported' = [exported EXCEPT ![cur] = IF cur \in inFunnel THEN @ + good ELSE @]
        /\ UNCHANGED faults
     \/ Fails /\ UNCHANGED exported
  /\ Return
  /\ UNCHANGED <<rowVars, inFunnel, redisVars, unpushed, ledgerVars, delivered, promoVars>>

\* The server process ends, between any two calls; PostgreSQL and Redis go on.
Crash ==
  /\ pc # "down"
  /\ Fails
  /\ pc' = "down"
  /\ cur' = None
  /\ try' = 0 /\ pos' = 0 /\ good' = 0 /\ bad' = 0
  /\ promo' = "down"
  /\ ids' = <<>>
  /\ unpushed' = {}
  /\ UNCHANGED <<rowVars, funnelVars, redisVars, ledgerVars, delivered>>

-----------------------------------------------------------------------------

Promoter == ListDue \/ Promote \/ RemovePromoted

Process ==
  \/ Pop \/ MarkProcessing \/ GetIntegration
  \/ LookupFails \/ SendFails \/ Send
  \/ ChargeLead \/ ChargeRefused \/ ChargeError
  \/ LeadsDone \/ ScheduleRetry \/ RecordResult \/ CountInFunnel

Next ==
  \/ \E e \in Exports : CreateExport(e) \/ Push(e) \/ EnterFunnel(e) \/ FallDue(e)
  \/ Start \/ Promoter \/ Process \/ Crash

\* The process is started, its goroutines go on, requests are served and time passes.
Fairness ==
  /\ \A e \in Exports : WF_vars(Push(e)) /\ WF_vars(FallDue(e))
  /\ WF_vars(Start)
  /\ WF_vars(Promoter)
  /\ WF_vars(Process)

Spec == Init /\ [][Next]_vars
FairSpec == Spec /\ Fairness

-----------------------------------------------------------------------------
(* Properties *)

TypeOK ==
  /\ status \in [Exports -> {"none", "pending", "processing"} \cup Ended]
  /\ attempt \in [Exports -> Nat]
  /\ success \in [Exports -> Nat]
  /\ fail \in [Exports -> Nat]
  /\ retryAt \in [Exports -> BOOLEAN]
  /\ inFunnel \in SUBSET Exports
  /\ exported \in [Exports -> Nat]
  /\ queue \in Seq(Exports)
  /\ due \in SUBSET delayed
  /\ delayed \in SUBSET Exports
  /\ unpushed \in SUBSET Exports
  /\ balance \in [Orgs -> Nat]
  /\ spent \in [Orgs -> Nat]
  /\ \A e \in Exports : charges[e] \in [DOMAIN CNPJs[e] -> Nat]
  /\ \A e \in Exports : delivered[e] \in SUBSET DOMAIN CNPJs[e]
  /\ pc \in PCs
  /\ cur \in Exports \cup {None}
  /\ try \in Nat /\ pos \in Nat /\ good \in Nat /\ bad \in Nat
  /\ promo \in {"down", "wait", "push", "remove"}
  /\ ids \in Seq(Exports)
  /\ faults \in 0..MaxFaults

Total(e) == SumFunction(charges[e])

\* A lead is charged only when the CRM has it, whatever failed and whatever is retried.
ChargedOnlyWhenDelivered ==
  \A e \in Exports : \A i \in DOMAIN CNPJs[e] : charges[e][i] > 0 => i \in delivered[e]

\* An export that shows as done has delivered and charged every one of its leads,
\* although the counts it shows are those of its last run.
DoneIsComplete ==
  \A e \in Exports :
    status[e] = "done" => \A i \in DOMAIN CNPJs[e] : i \in delivered[e] /\ charges[e][i] > 0

\* maxAttempts bounds the runs of an export, and so what a lead can cost, except for
\* one more run for each failure that leaves its id in both Redis structures.
RunsAreBounded == \A e \in Exports : attempt[e] <= MaxAttempts + faults

\* The funnel never reports more exported leads than were charged.
FunnelWithinCharges == \A e \in Exports : exported[e] <= Total(e)

\* Every attempt at an export ends, unless a call fails: nothing else leaves an
\* export pending or processing.
EveryAttemptEnds ==
  \A e \in Exports :
    status[e] \in {"pending", "processing"} ~> status[e] \in Ended \/ faults > 0

\* "runDelayedPromoter checks queue:exports:delayed every 30s and moves ready items to
\* queue:exports": a retry that an export announces is kept somewhere in Redis.
AnnouncedRetryIsKept ==
  \A e \in Exports : retryAt[e] /\ cur # e => e \in delayed \cup ToSet(queue)

\* README.md, "Exportação para CRM | 1 crédito": a lead of an export costs one credit.
LeadChargedOnce ==
  \A e \in Exports : \A i \in DOMAIN CNPJs[e] : charges[e][i] <= 1
=============================================================================
