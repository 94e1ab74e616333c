------------------------------ MODULE Analytics ------------------------------
(***************************************************************************)
(* The ETL of the dashboards (internal/analytics), and the reports over    *)
(* the same tables.                                                        *)
(*                                                                         *)
(* A run synchronises the dimensions and then moves credit transactions    *)
(* and finished searches into the fact tables, in batches: one statement   *)
(* takes up to BatchSize unmarked rows that nobody has locked, inserts     *)
(* facts for those whose organisation is in the dimension, and marks them. *)
(* One run is made every hour by a goroutine; others are started by an     *)
(* administrator and may overlap with it.  Meanwhile transactions are      *)
(* posted, organisations created, and searches finish, and run again.      *)
(***************************************************************************)
EXTENDS Reports, FiniteSetsExt

CONSTANTS Runs,        \* who runs the ETL
          Hourly,      \* the goroutine of StartETLJob
          FirstOrgs,   \* organisations there are at the start
          BatchSize,   \* rows of a batch (1000)
          MaxCount,    \* largest result_count
          MaxRuns,     \* bound: runs of a search
          MaxFaults    \* bound: statements that fail

ASSUME AnalyticsAssumption ==
  /\ Hourly \in Runs
  /\ FirstOrgs \subseteq Orgs
  /\ BatchSize \in Nat \ {0}
  /\ MaxCount \in Nat /\ MaxRuns \in Nat /\ MaxFaults \in Nat

VARIABLES
  \* The tables of the other components
  orgs,      \* rows of tb_organizations
  posted,    \* rows of tb_credit_transactions
  status,    \* status[s]: "none", "running" or "done"
  result,    \* result[s]: result_count
  runsOf,    \* runsOf[s]: runs of s that have begun (history)
  \* etl_processed_at, dimensions and facts
  marked,    \* transactions and searches that are marked
  dimOrgs,   \* dim_organizacao
  facts,     \* facts[x]: rows of the fact table that x, a transaction or a search, has
  leads,     \* leads[s]: leads_extraidos of the row of s
  \* The runs
  pc,        \* pc[r]: the statement r is about to make, or makes
  batch,     \* batch[r]: rows that the statement of r has locked
  eligible,  \* eligible[r]: those whose organisation was in the dimension
  faults

sourceVars == <<orgs, posted, status, result, runsOf>>
factVars == <<marked, dimOrgs, facts, leads>>
vars == <<sourceVars, factVars, pc, batch, eligible, faults>>

Rows == Txs \cup Searches

Init ==
  /\ orgs = FirstOrgs
  /\ posted = {}
  /\ status = [s \in Searches |-> "none"]
  /\ result = [s \in Searches |-> 0]
  /\ runsOf = [s \in Searches |-> 0]
  /\ marked = {}
  /\ dimOrgs = {}
  /\ facts = [x \in Rows |-> 0]
  /\ leads = [s \in Searches |-> 0]
  /\ pc = [r \in Runs |-> "idle"]
  /\ batch = [r \in Runs |-> {}]
  /\ eligible = [r \in Runs |-> {}]
  /\ faults = 0

LockedRows == UNION {batch[r] : r \in Runs}

-----------------------------------------------------------------------------
(* What the rest of the system does to the tables *)

CreateOrg(o) ==
  /\ o \notin orgs
  /\ orgs' = orgs \cup {o}
  /\ UNCHANGED <<posted, status, result, runsOf, factVars, pc, batch, eligible, faults>>

\* A debit or a purchase is committed; the debit of a search while it runs.
PostTransaction(t) ==
  /\ t \notin posted
  /\ OrgOf[t] \in orgs
  /\ Ref[t] # Null => status[Ref[t]] = "running"
  /\ posted' = posted \cup {t}
  /\ UNCHANGED <<orgs, status, result, runsOf, factVars, pc, batch, eligible, faults>>

\* A worker takes a search, also one that is done already (see SearchWorker).
SearchRuns(s) ==
  /\ OrgOf[s] \in orgs
  /\ s \notin LockedRows
  /\ status[s] # "running"
  /\ runsOf[s] < MaxRuns
  /\ status' = [status EXCEPT ![s] = "running"]
  /\ runsOf' = [runsOf EXCEPT ![s] = @ + 1]
  /\ UNCHANGED <<orgs, posted, result, factVars, pc, batch, eligible, faults>>

SearchDone(s) ==
  /\ status[s] = "running"
  /\ s \notin LockedRows
  /\ status' = [status EXCEPT ![s] = "done"]
  /\ \E n \in 0..MaxCount : result' = [result EXCEPT ![s] = n]
  /\ UNCHANGED <<orgs, posted, runsOf, factVars, pc, batch, eligible, faults>>

-----------------------------------------------------------------------------
(* RunETL *)

\* The hourly tick, or POST /internal/etl/run.
Begin(r) ==
  /\ pc[r] = "idle"
  /\ pc' = [pc EXCEPT ![r] = "sync"]
  /\ UNCHANGED <<sourceVars, factVars, batch, eligible, faults>>

\* Mutant of SyncDims: the dimension is filled only once.
SyncDimsOnce(r) ==
  /\ pc[r] = "sync"
  /\ dimOrgs' = IF dimOrgs = {} THEN orgs ELSE dimOrgs
  /\ pc' = [pc EXCEPT ![r] = "credits"]
  /\ UNCHANGED <<sourceVars, marked, facts, leads, batch, eligible, faults>>

\* Mutant of SyncDims: it sees organisations whose INSERT is not committed.
SyncDimsDirty(r) ==
  /\ pc[r] = "sync"
  /\ dimOrgs' = Orgs
  /\ pc' = [pc EXCEPT ![r] = "credits"]
  /\ UNCHANGED <<sourceVars, marked, facts, leads, batch, eligible, faults>>

\* syncDimOrganizacao; no query of this module reads the other dimensions.
SyncDims(r) ==
  /\ pc[r] = "sync"
  /\ dimOrgs' = orgs
  /\ pc' = [pc EXCEPT ![r] = "credits"]
  /\ UNCHANGED <<sourceVars, marked, facts, leads, batch, eligible, faults>>

\* The rows that a batch may take.
Unmarked(r) ==
  IF pc[r] = "credits" THEN posted \ marked
  ELSE {s \in Searches \ marked : status[s] = "done"}

\* Mutant of Lockable: no FOR UPDATE SKIP LOCKED.
LockableByAnyone(r) == Unmarked(r)

\* FOR UPDATE SKIP LOCKED
Lockable(r) == Unmarked(r) \ LockedRows

\* LIMIT without ORDER BY: any rows, as many as there are.
Batches(r) ==
  LET n == Cardinality(Lockable(r))
  IN  kSubset(IF n < BatchSize THEN n ELSE BatchSize, Lockable(r))

\* The statement of a batch locks its rows.
StartBatch(r) ==
  /\ pc[r] \in {"credits", "searches"}
  /\ batch[r] = {}
  /\ \E b \in Batches(r) \ {{}} :
       /\ batch' = [batch EXCEPT ![r] = b]
       /\ eligible' = [eligible EXCEPT ![r] = {x \in b : OrgOf[x] \in dimOrgs}]
  /\ UNCHANGED <<sourceVars, factVars, pc, faults>>

\* RowsAffected = 0: on to the next table, or the end of the run.
NextTable(r) ==
  pc' = [pc EXCEPT ![r] = IF @ = "credits" THEN "searches" ELSE "idle"]

\* There is no row to take.
EmptyBatch(r) ==
  /\ pc[r] \in {"credits", "searches"}
  /\ batch[r] = {}
  /\ Lockable(r) = {}
  /\ NextTable(r)
  /\ UNCHANGED <<sourceVars, factVars, batch, eligible, faults>>

\* Mutant of CommitBatch: the whole batch is marked, not only what was inserted.
CommitWholeBatch(r) ==
  /\ batch[r] # {}
  /\ marked' = marked \cup batch[r]
  /\ facts' = [x \in Rows |-> facts[x] + (IF x \in eligible[r] THEN 1 ELSE 0)]
  /\ leads' = [s \in Searches |-> IF s \in eligible[r] THEN result[s] ELSE leads[s]]
  /\ batch' = [batch EXCEPT ![r] = {}]
  /\ eligible' = [eligible EXCEPT ![r] = {}]
  /\ UNCHANGED <<sourceVars, dimOrgs, pc, faults>>

\* The statement ends: facts and marks of the eligible rows become visible together,
\* the locks are released, and a batch that marked nothing ends the loop.
CommitBatch(r) ==
  /\ batch[r] # {}
  /\ marked' = marked \cup eligible[r]
  /\ facts' = [x \in Rows |-> facts[x] + (IF x \in eligible[r] THEN 1 ELSE 0)]
  /\ leads' = [s \in Searches |-> IF s \in eligible[r] THEN result[s] ELSE leads[s]]
  /\ batch' = [batch EXCEPT ![r] = {}]
  /\ eligible' = [eligible EXCEPT ![r] = {}]
  /\ IF eligible[r] = {} THEN NextTable(r) ELSE UNCHANGED pc
  /\ UNCHANGED <<sourceVars, dimOrgs, faults>>

\* A statement fails, the five minutes of a manual run are over, or the process ends:
\* nothing of the statement remains and the run is over.
RunFails(r) ==
  /\ pc[r] # "idle"
  /\ faults < MaxFaults
  /\ faults' = faults + 1
  /\ pc' = [pc EXCEPT ![r] = "idle"]
  /\ batch' = [batch EXCEPT ![r] = {}]
  /\ eligible' = [eligible EXCEPT ![r] = {}]
  /\ UNCHANGED <<sourceVars, factVars>>

-----------------------------------------------------------------------------

Run(r) == SyncDims(r) \/ StartBatch(r) \/ EmptyBatch(r) \/ CommitBatch(r)

Next ==
  \/ \E o \in Orgs : CreateOrg(o)
  \/ \E t \in Txs : PostTransaction(t)
  \/ \E s \in Searches : SearchRuns(s) \/ SearchDone(s)
  \/ \E r \in Runs : Begin(r) \/ Run(r) \/ RunFails(r)

\* The ticker fires every hour, and statements end.
Fairness ==
  /\ WF_vars(Begin(Hourly))
  /\ \A r \in Runs : WF_vars(Run(r))

Spec == Init /\ [][Next]_vars
FairSpec == Spec /\ Fairness

-----------------------------------------------------------------------------
(* Properties *)

TypeOK ==
  /\ orgs \in SUBSET Orgs
  /\ posted \in SUBSET Txs
  /\ status \in [Searches -> {"none", "running", "done"}]
  /\ result \in [Searches -> 0..MaxCount]
  /\ runsOf \in [Searches -> 0..MaxRuns]
  /\ marked \in SUBSET Rows
  /\ dimOrgs \in SUBSET orgs
  /\ facts \in [Rows -> Nat]
  /\ leads \in [Searches -> 0..MaxCount]
  /\ pc \in [Runs -> {"idle", "sync", "credits", "searches"}]
  /\ batch \in [Runs -> SUBSET Rows]
  /\ \A r \in Runs : eligible[r] \in SUBSET batch[r]
  /\ faults \in 0..MaxFaults

\* However runs overlap and fail, a row is counted when it is marked, and once; and what
\* is counted for a search that ran only once is its result.
CountedOnce ==
  /\ \A x \in Rows : facts[x] = IF x \in marked THEN 1 ELSE 0
  /\ \A s \in Searches \cap marked : runsOf[s] = 1 => leads[s] = result[s]

\* What the dashboard shows and what the ETL has still to count make the balance, over
\* any period; and the daily series adds up to the total of the period.
DashboardsMatchLedger ==
  LET days == {Day[t] : t \in Txs}
  IN  \A o \in orgs, from \in days : \A to \in {d \in days : d >= from} :
        LET rows == {t \in posted : OrgOf[t] = o /\ Day[t] \in from..to}
            daily == [d \in from..to |-> DailyCredits(o, facts, d)]
        IN  /\ Kpi(o, facts, TRUE, from, to) - Kpi(o, facts, FALSE, from, to)
                 + SumFunctionOnSet(Amount, rows \ marked) = SumFunctionOnSet(Amount, rows)
            /\ SumFunctionOnSet(daily, from..to) = Kpi(o, facts, FALSE, from, to)

\* The reports of who spent what never show less than was spent, by a user or in an
\* organisation, except for what visitors and deleted users spent, whoever was deleted; and
\* show just that for a user with no more than one search and one export.
ReportsCoverSpending ==
  LET made == {s \in Searches : status[s] # "none"}
      consumed == [u \in Users |-> CreditsConsumed(u, posted, made, Exports)]
  IN  /\ \A u \in Users :
           LET searches == SearchCount(u, posted, made, Exports)
               exports == ExportCount(u, posted, made, Exports)
           IN  /\ searches = Cardinality(By(u, made))
               /\ consumed[u] >= ConsumedMonth(u, posted)
               /\ searches <= 1 /\ exports <= 1 => consumed[u] = ConsumedMonth(u, posted)
               /\ HistoryTotal(u, posted, made) =
                    Spending({t \in posted : Ref[t] \in InHome(u, made)})
      /\ \A o \in Orgs, deleted \in SUBSET Users :
           LET sellers == Sellers(o, deleted)
               others == {t \in posted : OrgOf[t] = o /\ Author[t] \notin sellers}
           IN  TotalConsumed(o, posted) <= SumFunctionOnSet(consumed, sellers) + Spending(others)

\* The ETL catches up: once nothing more is posted, no transaction and no search that is
\* done is left out, whatever batches were filled with rows that could not be counted yet.
EverythingIsCounted ==
  []<>(posted \cup {s \in Searches : status[s] = "done"} \subseteq marked)
=============================================================================
