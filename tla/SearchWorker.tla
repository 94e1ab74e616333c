---------------------------- MODULE SearchWorker ----------------------------
(***************************************************************************)
(* Lead searches, from the request that creates one to the worker that     *)
(* runs and charges it (internal/searches).                                *)
(*                                                                         *)
(* POST /searches inserts a row with status "queued" and pushes its id on  *)
(* the Redis list queue:searches; either can survive without the other.    *)
(* SEARCH_WORKERS goroutines (2 by default) each run Worker.Run: pop an    *)
(* id, mark the search "processing", find companies that no search of the  *)
(* organisation has delivered, copy them to tb_search_results, charge one  *)
(* credit for each, mark the search "done".  Each of these is a statement  *)
(* or transaction of its own, and each is an action here.  At start and on *)
(* a 5 minute ticker every worker also sets searches that are "processing" *)
(* and older than 5 minutes back to "queued", and pushes every "queued"    *)
(* search again.                                                           *)
(*                                                                         *)
(* A charge is the debit CreditLedger promises; Credits.tla shows that     *)
(* BeginTx, Deduct and Commit implement it.                                *)
(***************************************************************************)
EXTENDS Integers, FiniteSets, SequencesExt

CONSTANTS Orgs,         \* organisations
          Searches,     \* searches that users may create
          Workers,      \* goroutines that run Worker.Run
          OrgOf,        \* OrgOf[s]: organisation that owns s
          Mode,         \* Mode[s]: "structured" or "semantic"
          Matches,      \* Matches[s]: CNPJs that satisfy the filters of s
          MaxResults,   \* MaxResults[s]: filters.max_results, 0 when it is not given
          HardLimit,    \* the LIMIT without max_results (10000)
          MaxStructuredCredits,  \* cap on the charge of a structured run (1000)
          Funds,        \* credits each organisation has at the start
          MaxFaults,    \* bound: failed calls and crashes the model explores
          None          \* no search

ASSUME SearchAssumption ==
  /\ IsFiniteSet(Searches)
  /\ OrgOf \in [Searches -> Orgs]
  /\ Mode \in [Searches -> {"structured", "semantic"}]
  /\ Matches \in [Searches -> SUBSET Nat]
  /\ \A s \in Searches : IsFiniteSet(Matches[s])
  /\ MaxResults \in [Searches -> Nat]
  /\ HardLimit \in Nat \ {0}
  /\ MaxStructuredCredits \in Nat
  /\ Funds \in Nat
  /\ MaxFaults \in Nat
  /\ None \notin Searches

VARIABLES
  \* tb_searches and tb_search_results
  status,    \* status[s]; "none" before the row exists
  count,     \* result_count, None when NULL
  old,       \* old[s]: created_at is more than staleMinutes ago
  results,   \* results[s]: CNPJs in tb_search_results
  \* Redis, and requests between the INSERT and the RPush
  queue,
  unpushed,
  \* The credit ledger
  balance,
  spent,
  charged,   \* charged[s]: debits with reference_id s
  billed,    \* billed[s]: CNPJs that a committed debit of s counted (history)
  \* Worker.Run
  pc,
  listed,    \* listed[w]: ids returned by ListQueuedSearchIDs
  cur,       \* cur[w]: the search w is processing
  found,     \* found[w]: rows to copy or to charge
  faults

searchVars == <<status, count, old, results>>
creditVars == <<balance, spent, charged, billed>>
workerVars == <<pc, listed, cur, found>>
vars == <<searchVars, queue, unpushed, creditVars, workerVars, faults>>

Ledger == INSTANCE CreditLedger WITH MaxInt <- Funds

Statuses == {"none", "queued", "processing", "done", "failed"}
Terminal == {"done", "failed"}
PCs == {"down", "recover", "list", "push", "loop", "pop",
        "read", "mark", "find", "save", "charge", "finish", "fail"}

Companies == UNION {Matches[s] : s \in Searches}

Init ==
  /\ status = [s \in Searches |-> "none"]
  /\ count = [s \in Searches |-> None]
  /\ old = [s \in Searches |-> FALSE]
  /\ results = [s \in Searches |-> {}]
  /\ queue = <<>>
  /\ unpushed = {}
  /\ balance = [o \in Orgs |-> Funds]
  /\ spent = [o \in Orgs |-> 0]
  /\ charged = [s \in Searches |-> 0]
  /\ billed = [s \in Searches |-> {}]
  /\ pc = [w \in Workers |-> "down"]
  /\ listed = [w \in Workers |-> <<>>]
  /\ cur = [w \in Workers |-> None]
  /\ found = [w \in Workers |-> {}]
  /\ faults = 0

-----------------------------------------------------------------------------
(* The request handler *)

\* Handler.Create, up to the INSERT.
Create(s) ==
  /\ status[s] = "none"
  /\ status' = [status EXCEPT ![s] = "queued"]
  /\ unpushed' = unpushed \cup {s}
  /\ UNCHANGED <<count, old, results, queue, creditVars, workerVars, faults>>

\* Handler.Create, RPush: an error is only logged.
Push(s) ==
  /\ s \in unpushed
  /\ unpushed' = unpushed \ {s}
  /\ \/ /\ queue' = Append(queue, s)
        /\ UNCHANGED faults
     \/ /\ faults < MaxFaults
        /\ faults' = faults + 1
        /\ UNCHANGED queue
  /\ UNCHANGED <<searchVars, creditVars, workerVars>>

\* Five minutes pass since the search was created.
GrowOld(s) ==
  /\ status[s] # "none"
  /\ ~old[s]
  /\ old' = [old EXCEPT ![s] = TRUE]
  /\ UNCHANGED <<status, count, results, queue, unpushed, creditVars, workerVars, faults>>

-----------------------------------------------------------------------------
(* Worker.Run and recoverStale *)

\* Worker w goes from one point of its program to another.
Goes(w, from, to) ==
  /\ pc[w] = from
  /\ pc' = [pc EXCEPT ![w] = to]

Start(w) ==
  /\ Goes(w, "down", "recover")
  /\ UNCHANGED <<searchVars, queue, unpushed, creditVars, listed, cur, found, faults>>

\* The select finds a tick: some pass of the loop later than the last one did.
TakeTick(w) ==
  /\ Goes(w, "loop", "recover")
  /\ UNCHANGED <<searchVars, queue, unpushed, creditVars, listed, cur, found, faults>>

\* Mutant of Stale: the first restart finds nothing to recover.
NeverStale(s) == FALSE

\* RecoverStaleSearches looks at created_at, not at when processing began.
Stale(s) == status[s] = "processing" /\ old[s]

RecoverStale(w) ==
  /\ Goes(w, "recover", "list")
  /\ status' = [s \in Searches |-> IF Stale(s) THEN "queued" ELSE status[s]]
  /\ UNCHANGED <<count, old, results, queue, unpushed, creditVars, listed, cur, found, faults>>

\* The SELECT has no ORDER BY.
ListQueued(w) ==
  /\ Goes(w, "list", "push")
  /\ \E ids \in SetToSeqs({s \in Searches : status[s] = "queued"}) :
       listed' = [listed EXCEPT ![w] = ids]
  /\ UNCHANGED <<searchVars, queue, unpushed, creditVars, cur, found, faults>>

Requeue(w) ==
  /\ Goes(w, "push", "pop")
  /\ queue' = queue \o listed[w]
  /\ listed' = [listed EXCEPT ![w] = <<>>]
  /\ UNCHANGED <<searchVars, unpushed, creditVars, cur, found, faults>>

\* BLPop: at once when the select finds no tick, and after recovering when it does.
AtPop(w) == pc[w] \in {"loop", "pop"}

Pop(w) ==
  /\ AtPop(w)
  /\ queue # <<>>
  /\ pc' = [pc EXCEPT ![w] = "read"]
  /\ cur' = [cur EXCEPT ![w] = Head(queue)]
  /\ queue' = Tail(queue)
  /\ UNCHANGED <<searchVars, unpushed, creditVars, listed, found, faults>>

PopTimeout(w) ==
  /\ queue = <<>>
  /\ Goes(w, "pop", "loop")
  /\ UNCHANGED <<searchVars, queue, unpushed, creditVars, listed, cur, found, faults>>

-----------------------------------------------------------------------------
(* Worker.process *)

\* process returns to the loop.
Return(w) ==
  /\ pc' = [pc EXCEPT ![w] = "loop"]
  /\ cur' = [cur EXCEPT ![w] = None]
  /\ found' = [found EXCEPT ![w] = {}]

\* Mutant of Settled: only a search that is done is skipped.
SettledDone(st) == st = "done"

\* The idempotency test.
Settled(st) == st \in Terminal

ReadSearch(w) ==
  /\ pc[w] = "read"
  /\ IF Settled(status[cur[w]])
     THEN Return(w)
     ELSE Goes(w, "read", "mark") /\ UNCHANGED <<cur, found>>
  /\ UNCHANGED <<searchVars, queue, unpushed, creditVars, listed, faults>>

\* UpdateStatus writes status, result_count and error_msg together.
UpdateStatus(s, st, n) ==
  /\ status' = [status EXCEPT ![s] = st]
  /\ count' = [count EXCEPT ![s] = n]
  /\ UNCHANGED <<old, results>>

MarkProcessing(w) ==
  /\ Goes(w, "mark", "find")
  /\ UpdateStatus(cur[w], "processing", None)
  /\ UNCHANGED <<queue, unpushed, creditVars, listed, cur, found, faults>>

\* Mutant of Delivered: only searches that are done count.
DeliveredByDone(o) ==
  UNION {results[s] : s \in {t \in Searches : OrgOf[t] = o /\ status[t] = "done"}}

\* CNPJs that some search of the organisation has delivered.
Delivered(o) == UNION {results[s] : s \in {t \in Searches : OrgOf[t] = o}}

Limit(s) ==
  IF MaxResults[s] > 0 /\ MaxResults[s] < HardLimit THEN MaxResults[s] ELSE HardLimit

\* RunStructuredSearch: ORDER BY cnpj LIMIT n.
Lowest(S, n) == {c \in S : Cardinality({d \in S : d < c}) < n}

\* A semantic run returns companies by the distance of their embedding or, when it
\* finds none, by keywords: some of the companies that match, no more than the limit.
Selections(s) ==
  LET fresh == Matches[s] \ Delivered(OrgOf[s])
  IN  IF Mode[s] = "structured"
      THEN {Lowest(fresh, Limit(s))}
      ELSE {S \in SUBSET fresh : Cardinality(S) <= Limit(s)}

FindCompanies(w) ==
  /\ Goes(w, "find", "save")
  /\ \E S \in Selections(cur[w]) : found' = [found EXCEPT ![w] = S]
  /\ UNCHANGED <<searchVars, queue, unpushed, creditVars, listed, cur, faults>>

\* Mutant of SaveResults: INSERT ... ON CONFLICT DO NOTHING.
SaveIgnoringConflicts(w) ==
  /\ Goes(w, "save", IF found[w] = {} THEN "finish" ELSE "charge")
  /\ results' = [results EXCEPT ![cur[w]] = @ \cup found[w]]
  /\ UNCHANGED <<status, count, old, queue, unpushed, creditVars, listed, cur, found, faults>>

\* CopyFrom is one statement; a row that is there already (another worker saved it
\* after FindCompanies) makes all of it fail on the primary key.
SaveResults(w) ==
  /\ pc[w] = "save"
  /\ LET s == cur[w] IN
       IF found[w] \cap results[s] # {}
       THEN /\ Goes(w, "save", "fail")
            /\ UNCHANGED results
       ELSE /\ Goes(w, "save", IF found[w] = {} THEN "finish" ELSE "charge")
            /\ results' = [results EXCEPT ![s] = @ \cup found[w]]
  /\ UNCHANGED <<status, count, old, queue, unpushed, creditVars, listed, cur, found, faults>>

\* Mutant of Price: no cap.
PriceUncapped(s, n) == n

\* One credit for each row; a structured run costs at most MaxStructuredCredits.
Price(s, n) ==
  IF Mode[s] = "structured" /\ n > MaxStructuredCredits THEN MaxStructuredCredits ELSE n

\* Mutant of PayFor: Deduct does not look at the balance.
PayUnchecked(w) ==
  LET s == cur[w]
      price == Price(s, Cardinality(found[w]))
  IN  /\ balance' = [balance EXCEPT ![OrgOf[s]] = @ - price]
      /\ spent' = [spent EXCEPT ![OrgOf[s]] = @ + price]
      /\ charged' = [charged EXCEPT ![s] = @ + price]
      /\ billed' = [billed EXCEPT ![s] = @ \cup found[w]]

\* BeginTx, Deduct and Commit.
PayFor(w) ==
  LET s == cur[w]
      price == Price(s, Cardinality(found[w]))
  IN  /\ Ledger!Debit(OrgOf[s], price)
      /\ charged' = [charged EXCEPT ![s] = @ + price]
      /\ billed' = [billed EXCEPT ![s] = @ \cup found[w]]

Charge(w) ==
  /\ Goes(w, "charge", "finish")
  /\ PayFor(w)
  /\ UNCHANGED <<searchVars, queue, unpushed, listed, cur, found, faults>>

\* Mutant of ChargeRefused: the refusal is not looked at.
ChargeIgnored(w) ==
  /\ Goes(w, "charge", "finish")
  /\ balance[OrgOf[cur[w]]] < Price(cur[w], Cardinality(found[w]))
  /\ UNCHANGED <<searchVars, queue, unpushed, creditVars, listed, cur, found, faults>>

\* ErrInsufficientCredits: rolled back; the rows stay in tb_search_results.
ChargeRefused(w) ==
  /\ Goes(w, "charge", "fail")
  /\ balance[OrgOf[cur[w]]] < Price(cur[w], Cardinality(found[w]))
  /\ UNCHANGED <<searchVars, queue, unpushed, creditVars, listed, cur, found, faults>>

Finish(w) ==
  /\ pc[w] = "finish"
  /\ UpdateStatus(cur[w], "done", Cardinality(found[w]))
  /\ Return(w)
  /\ UNCHANGED <<queue, unpushed, creditVars, listed, faults>>

MarkFailed(w) ==
  /\ pc[w] = "fail"
  /\ UpdateStatus(cur[w], "failed", None)
  /\ Return(w)
  /\ UNCHANGED <<queue, unpushed, creditVars, listed, faults>>

\* Handler.Estimate of a structured search: the least of what countStructured counts
\* and of the two caps, the handler's own copy of the cap of a run among them.
Estimate(s) ==
  LET bounds == {Cardinality(Matches[s]), MaxStructuredCredits}
                  \cup {n \in {MaxResults[s]} : n > 0}
  IN  Min(bounds)

-----------------------------------------------------------------------------
(* Failures *)

\* Where a worker goes on when the call at each point fails: recoverStale and process
\* return on most errors, and mark the search failed when the search or the debit did.
OnError ==
  [recover |-> {"pop"}, list |-> {"pop"}, push |-> {"pop"},
   read |-> {"loop"}, mark |-> {"loop"},
   find |-> {"fail"}, save |-> {"fail"}, charge |-> {"loop", "fail"},
   finish |-> {"loop"}, fail |-> {"loop"}]

CallFails(w) ==
  /\ faults < MaxFaults
  /\ faults' = faults + 1
  /\ pc[w] \in DOMAIN OnError
  /\ \E to \in OnError[pc[w]] :
       IF to = "loop"
       THEN Return(w)
       ELSE pc' = [pc EXCEPT ![w] = to] /\ UNCHANGED <<cur, found>>
  /\ listed' = [listed EXCEPT ![w] = <<>>]
  /\ UNCHANGED <<searchVars, queue, unpushed, creditVars>>

\* Commit takes effect and its answer is lost: process returns the error.
CommitUnanswered(w) ==
  /\ faults < MaxFaults
  /\ faults' = faults + 1
  /\ pc[w] = "charge"
  /\ PayFor(w)
  /\ Return(w)
  /\ UNCHANGED <<searchVars, queue, unpushed, listed>>

\* The answer to BLPop is lost, with the id it had removed from the list.
PopUnanswered(w) ==
  /\ faults < MaxFaults
  /\ faults' = faults + 1
  /\ AtPop(w)
  /\ queue # <<>>
  /\ queue' = Tail(queue)
  /\ pc' = [pc EXCEPT ![w] = "loop"]
  /\ UNCHANGED <<searchVars, unpushed, creditVars, listed, cur, found>>

\* The server process ends, between any two statements; PostgreSQL and Redis go on.
Crash ==
  /\ faults < MaxFaults
  /\ faults' = faults + 1
  /\ \E w \in Workers : pc[w] # "down"
  /\ unpushed' = {}
  /\ pc' = [w \in Workers |-> "down"]
  /\ listed' = [w \in Workers |-> <<>>]
  /\ cur' = [w \in Workers |-> None]
  /\ found' = [w \in Workers |-> {}]
  /\ UNCHANGED <<searchVars, queue, creditVars>>

-----------------------------------------------------------------------------

Recovery(w) == TakeTick(w) \/ RecoverStale(w) \/ ListQueued(w) \/ Requeue(w)

Process(w) ==
  \/ Pop(w) \/ PopTimeout(w)
  \/ ReadSearch(w) \/ MarkProcessing(w)
  \/ FindCompanies(w) \/ SaveResults(w)
  \/ Charge(w) \/ ChargeRefused(w)
  \/ Finish(w) \/ MarkFailed(w)

Fault(w) == CallFails(w) \/ CommitUnanswered(w) \/ PopUnanswered(w)

Next ==
  \/ \E s \in Searches : Create(s) \/ Push(s) \/ GrowOld(s)
  \/ \E w \in Workers : Start(w) \/ Recovery(w) \/ Process(w) \/ Fault(w)
  \/ Crash

\* Time passes (searches grow old; a ticker that fires every 5 minutes is found to
\* have fired in some pass of a loop that makes infinitely many), a process that ended
\* is started again, and a running goroutine goes on.  Nobody has to create a search, and nothing has to fail.
Fairness ==
  /\ \A s \in Searches : WF_vars(GrowOld(s)) /\ WF_vars(Push(s))
  /\ \A w \in Workers :
       /\ WF_vars(Start(w))
       /\ SF_vars(TakeTick(w))
       /\ WF_vars(Recovery(w) \/ Process(w))

Spec == Init /\ [][Next]_vars
FairSpec == Spec /\ Fairness

-----------------------------------------------------------------------------
(* Properties *)

TypeOK ==
  /\ status \in [Searches -> Statuses]
  /\ count \in [Searches -> Nat \cup {None}]
  /\ old \in [Searches -> BOOLEAN]
  /\ results \in [Searches -> SUBSET Companies]
  /\ queue \in Seq(Searches)
  /\ unpushed \in SUBSET Searches
  /\ balance \in [Orgs -> Nat]
  /\ spent \in [Orgs -> Nat]
  /\ charged \in [Searches -> Nat]
  /\ billed \in [Searches -> SUBSET Companies]
  /\ pc \in [Workers -> PCs]
  /\ listed \in [Workers -> Seq(Searches)]
  /\ cur \in [Workers -> Searches \cup {None}]
  /\ found \in [Workers -> SUBSET Companies]
  /\ faults \in 0..MaxFaults

\* However often a search is run again (a duplicate in the queue, a recovery of a run
\* that is still going on, a crash at any point, a commit whose answer was lost), no
\* row is counted by two charges: what a worker is about to charge was not charged.
NoRowBilledTwice ==
  \A w \in Workers :
    pc[w] = "charge" => found[w] \cap billed[cur[w]] = {}

\* A search never costs more than the leads the organisation can see it delivered.
ChargedWithinDelivery ==
  \A s \in Searches : charged[s] <= Cardinality(results[s])

\* What POST /searches/estimate answered for the same filters bounds what one run of a
\* structured search charges, although the estimate knows neither the leads delivered
\* before nor the LIMIT of the query.
RunWithinEstimate ==
  \A w \in Workers :
    pc[w] = "charge" /\ Mode[cur[w]] = "structured" =>
      Price(cur[w], Cardinality(found[w])) <= Estimate(cur[w])

\* When nothing fails, a search that is done has charged for exactly the leads it
\* counts and shows, and a search that failed has charged nothing.
FaultFreeAccounts ==
  faults = 0 =>
    \A s \in Searches :
      /\ status[s] = "done" =>
           count[s] = Cardinality(results[s]) /\ charged[s] = Price(s, count[s])
      /\ status[s] = "failed" => charged[s] = 0

\* No organisation is delivered, nor charged for, the same company twice.
LeadDeliveredOnce ==
  \A s, t \in Searches :
    s # t /\ OrgOf[s] = OrgOf[t] => results[s] \cap results[t] = {}

\* A search that ended stays as it ended, whatever duplicates of it are still queued.
SettledIsFinal ==
  [][\A s \in Searches : status[s] \in Terminal => status'[s] = status[s]]_vars

\* README.md, "Lead retornado na pesquisa | 1 crédito": a search that is done has been
\* charged for every lead it shows.
DonePaysForLeads ==
  \A s \in Searches :
    status[s] = "done" => charged[s] = Price(s, Cardinality(results[s]))

\* Lost pushes, lost pops, failed statements and crashes never lose a search: once it
\* is created, some run of it ends.
EverySearchEnds ==
  \A s \in Searches : status[s] = "queued" ~> status[s] \in Terminal
=============================================================================
