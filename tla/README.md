# Vantaggio Hunter: TLA+ verification

TLA+ specifications of the Go program in `src/api` (credits, lead search, CRM export, AI
qualification, dashboards and cost reports, accounts, and the import of company data), TLC
configurations that check them on small instances, and TLAPS proofs, for instances of any
size, of every safety property that a passing run checks. Everything here is read from the
code; where a comment or the repository's README says something else, a run exhibits the
difference (see *Disagreements*).

| module | models | checked by | proved in |
|---|---|---|---|
| `CreditLedger` | what the credit subsystem promises: atomic debits and purchases | abstract specification | - |
| `Credits` | `internal/credits` and migration 006: row locks, transactions, trigger | `MCCredits` | `Credits_proofs` |
| `SearchWorker` | `internal/searches`: request, queue, workers, recovery, charge | `MCSearchWorker` | `SearchWorker_proofs` |
| `ExportWorker` | `internal/exports`: request, worker, promoter of retries, charge | `MCExportWorker` | `ExportWorker_proofs` |
| `Qualify` | `internal/ia` and the consultation of `internal/companies`: requests that pay while the client waits | `MCQualify` | `Qualify_proofs` |
| `Reports` | the queries behind cost reports and dashboards, as operators | `MCAnalytics` | `Analytics_proofs` |
| `Analytics` | `internal/analytics`: ETL runs over ledger and searches; reads through `Reports` | `MCAnalytics` | `Analytics_proofs` |
| `Accounts` | `internal/auth`, `invitations`, `orgadmin`, `admin`: sessions, users, invitations, audit log | `MCAccounts` | `Accounts_proofs` |
| `Ingestion` | `cmd/ingestion`: phases, progress file, staging tables, embeddings | `MCIngestion` | `Ingestion_proofs` |
| `FiniteSums` | nothing of the code: facts about sums over finite sets | - | itself |

`SearchWorker` and `ExportWorker` use `CreditLedger!Debit` as their view of a committed
debit; `Credits` is shown (by TLC and by TLAPS) to implement `CreditLedger`. That is how the
components compose: through the credit ledger, and through the two things they share, the
PostgreSQL tables and the Redis lists. `Analytics` runs beside transactions that are posted
and searches that finish and run again, as `Credits` and `SearchWorker` let them. `Qualify`
opens the steps of `Credits` up once more, because what it does between the debit and the
commit is its subject.

## 1. Inventory

One server process (`cmd/server`) serves HTTP and starts the background goroutines:
`SEARCH_WORKERS` search workers (2 by default), one export worker with its promoter, and
the hourly ETL. State is in PostgreSQL and Redis; a goroutine's own state is lost when the
process ends. Two further commands, `cmd/ingestion` and `cmd/migrate`, run on their own.

| component | state | operations | interacts with | hard | what makes it correct |
|---|---|---|---|---|---|
| credit ledger | `tb_credit_transactions`, `tb_credit_balances`, row locks, open transactions | BeginTx, Deduct, Commit/Rollback by the caller, AddCredits, trigger | called by every component that charges | concurrent charges of one organisation; callers that hold the lock for long; no CHECK on the balance | no overdraft; balance = sum of the ledger; a charge ends |
| lead searches | `tb_searches`, `tb_search_results`, Redis list `queue:searches`, each worker's local state | Create, Estimate, BLPop, process, recoverStale | credit ledger, company tables, ETL reads the result | duplicates in the queue, recovery of live runs, crashes between the INSERT of rows, the debit and the status, commit in doubt | no row charged twice; a search ends; what ended stays |
| CRM exports | `tb_export_queue`, Redis list `queue:exports`, sorted set `queue:exports:delayed`, `fato_funil_leads.leads_exportados` | CreateExport, process, promoteDelayed | credit ledger, CRM (external), analytics | retries from the first lead, the promoter's race with the worker, no recovery, charge after delivery | charges follow deliveries; "done" is complete; runs are bounded |
| AI qualification | `tb_ai_qualifications` (cache), semaphore, open transaction | FindRecent, Qualify | credit ledger, LLM (external) | lock and connection held over a long call; save outside the transaction | a failure costs nothing; concurrent requests for one company |
| company consultation | none of its own | GetByCNPJ | credit ledger | debit committed before the lookup | a charge has an answer |
| analytics ETL | `fato_*`, `dim_*`, markers of what was processed | RunETL, processCredits, processSearches | reads the ledger and the searches; exports update its funnel | concurrent runs, batches, late changes | each fact counted once; all facts eventually counted |
| cost reports | none | ListUsers, GetUserHistory, GetOrgCosts, GetSellerProfile, GetOrgDetail | read users, searches, exports and ledger | joins of independent one-to-many tables | never less than was spent |
| authentication | users, `tb_refresh_tokens` (sessions) | Login, Refresh, Logout | administration | refresh against logout and deactivation | a token is used once; logout ends sessions |
| invitations | `tb_invitations`, `tb_users` | ValidateToken, Accept | organisation users | three statements without a transaction | one user per invitation |
| organisation users | users and invitations of an organisation | PatchUser, DeleteUser, CreateInvitation | authentication | administrators that act on each other, ids that are texts | the log accounts for who was removed |
| platform administration | organisations, plans | CreateOrgWithAdmin, AddCreditsToOrg, Impersonate | ledger, authentication | partial failure | no organisation without its administrator |
| ingestion | company tables, staging tables, progress file | phases, batches, markDone, embeddings | searches read the result | interruption between a batch and the progress line, reads and writes that fail | a resumed import equals an uninterrupted one; nothing is missing |
| shared packages | none | normalisation, AES-GCM, HTTP helpers, pools | all | - | stateless |
| migration command, web interface | none / browser | goose; pages that call the API | - | - | - |

`PROJECT.json` lists the hazards of each of these, at their lines, with the properties that
cover them. Three that no property covers say why, and so do those of which a property covers a
part: several properties except a race or a loss that the code leaves open.

## 2. Plan

The order is that of importance: what handles the customers' credits first.

1. `CreditLedger`, `Credits` and proofs. *Done.*
2. `SearchWorker` and proofs of the charge. Proofs for a single
   worker, and of the estimate. *Done.*
3. `ExportWorker` and proofs. Proofs of the number of runs and of the funnel. *Done.*
4. `Qualify`: AI qualification and company consultation. Proofs of
   its invariants. *Done.*
5. `Reports`, `Analytics`: ETL batches, concurrent runs, and what the reports show.
   Proofs of the counting, of the dashboards and of the reports. *Done.*
6. `Accounts`: sessions, invitations, organisation users, administration. Proofs of
   its invariants. *Done.*
7. `Ingestion`: phases, progress file and staging over interruptions. Proofs of its
   invariants. *Done.*

Modules are written to be proved about: constants with named assumptions, one action per
statement or call, no RECURSIVE operator.

## 3. Credits

*State.* `rows`, `balance`: `tb_credit_balances` (`rows` because an organisation created
after the migration has none). `bought`, `spent`: `tb_credit_transactions`, abstracted to its
sums by sign. `lock`: the row locks. `pc`, `org`, `amt`, `seen`: for each connection that
runs a caller's transaction, where it is, whom and what it charges, and the balance that the
SELECT returned.

*Actions.* `BeginTx`; Deduct as its two statements, `LockBalance` (SELECT ... FOR UPDATE) or
`MissingBalance`, then `InsufficientBalance` or `InsertDebit`, with `DeductError` for either
failing; `Commit` and `Rollback` by the caller (the table changes become visible at commit);
`ConnectionLost`; `AddCredits`, one statement whose trigger runs `UpsertBalance`.

*Run `credits`.* Two organisations and two connections are enough for two charges of one
organisation to compete while the other goes on beside them; `MaxInt` 3 makes the column
overflow reachable and `MaxBought` 4 only bounds how much is ever bought. Negative and zero
purchases are tried because `AddCredits` must refuse them.

- `BalanceNonNegative`, `CheckedBalanceIsCurrent`: FOR UPDATE keeps the compared balance
  current until the commit. Without the lock both are violated.
- `BalanceMatchesLedger`: for organisations without a row too.
- `LedgerSpec`: refinement of `CreditLedger`; a commit is a debit, everything else of a
  charge is a stutter.
- `ChargeEnds`: nobody waits for ever for a row lock.

*Fairness.* A caller goes on to end its transaction (all callers in the code do, on every
path); PostgreSQL serves the waiters of a row lock in their order of arrival, hence strong
fairness of the lock. Nothing is assumed of errors.

*Proved* (`Credits_proofs`): type correctness, the three invariants and the safety part of
the refinement, for any sets of organisations, connections and prices and any column width. The
inductive invariant adds `ChecksAreLocked` (who passed the SELECT holds the lock, and the
balance it saw is today's) and `PostedIsCovered`: without them that Commit keeps the balance
non-negative does not follow, because the comparison was made two steps before.
`ChargeEnds` is only model-checked.

## 4. SearchWorker

*State.* `status`, `count`, `old` (older than 5 minutes), `results`: the tables. `queue`: the
Redis list. `unpushed`: requests between the INSERT and the RPush. `balance`, `spent`,
`charged`: the ledger, by organisation and by reference_id. `billed` is a history variable:
the rows committed debits counted. `pc`, `listed`, `cur`, `found`: the workers.

*Actions*, one per statement, transaction or Redis call: `Create`, `Push`, `GrowOld`; `Start`,
`TakeTick`, `RecoverStale`, `ListQueued`, `Requeue` (recoverStale); `Pop`, `PopTimeout`
(Run); `ReadSearch`, `MarkProcessing`, `FindCompanies`, `SaveResults`, `Charge` or
`ChargeRefused`, `Finish`, `MarkFailed` (process). Failures, bounded by `MaxFaults`:
`CallFails` at each call, with the place the code goes on at; `CommitUnanswered`, a commit
that took effect and was reported as failed; `PopUnanswered`, an id removed from the list and
lost; `Crash`.

*Abstractions.* Time is the one bit `old`; a tick may be found at any pass of the loop.
A structured query is the lowest CNPJs that match up to its limit; a semantic one (vector
search, or keywords when it finds nothing) is any selection within the limit. CNPJs are
numbers. The migration partitions companies by state; that a company appears in one partition
is taken as given (the vector query has no DISTINCT). Filters' contents, scores, texts, the
embedding cache and reading endpoints are left out. `Charge` is one step: BeginTx, Deduct and
Commit of this caller do nothing in between, and `Credits` refines that step.
A failed call had no effect, except Commit and BLPop; a CopyFrom or RPush that took effect and
was reported as failed reaches a state that its success followed by a failure of the next call
reaches.

*Runs.*

- `search_race`: two workers, one search, two failures. `NoRowBilledTwice`,
  `ChargedWithinDelivery`, `EverySearchEnds`. Two failures are enough for a run that stops
  between save and charge and a second one whose commit is in doubt. Balances of 4 and 3
  matching companies with a cap of 2 let the run that pays and the one that cannot both occur.
- `search_one_worker`: one worker, a structured search with max_results and a semantic one,
  of the same organisation, whose balance does not pay for both, one failure. `TypeOK`,
  `RunWithinEstimate` (the caps in the worker, in the estimate and in the query agree),
  `FaultFreeAccounts`, `LeadDeliveredOnce`, `SettledIsFinal`.
  `LeadDeliveredOnce` and `SettledIsFinal` hold for one worker; with two the code does not
  exclude the contrary (see *Disagreements* and the hazards).

*Fairness.* Time passes, a request that was accepted ends (the RPush is made or fails), a
process that ended is started again, a goroutine goes on, and the loop finds a tick again and
again (the ticker fires every 5 minutes while the loop makes passes at least every 5 seconds).
Nobody has to create a search and nothing has to fail.

`EverySearchEnds` says that *some* run of a search ends. With two workers and duplicates in
the queue a search that is done can be set back to "processing" again; that it stays done is
`SettledIsFinal`, checked for one worker and refuted for two.

*Proved* (`SearchWorker_proofs`), for any numbers of workers, searches and failures and any
finite matches: `TypeOK`, `NoRowBilledTwice`, `ChargedWithinDelivery`. The argument is the
primary key of `tb_search_results`: CopyFrom fails as a whole when a row is there already, so
a worker that passed it owns its rows. The invariant states this of every worker at the
charge (`ClaimsOwned`: its rows are saved, not billed, and disjoint from those of any other
worker at the charge of the same search) and of the tables (`BilledRows`: billed rows are
saved rows, and the debits are at most their number). `Shape` carries the types and that a
worker's rows match its search, which makes them finite. Steps that neither save nor charge
are `Quiet` and keep the accounts by one lemma.

For one worker (`SEARCH_WORKERS=1`; the theorems have the hypothesis `OneWorker`, nothing else)
also `LeadDeliveredOnce`, `FaultFreeAccounts` and `SettledIsFinal`. `AloneInv` says that nobody
ends the search that the worker has found unfinished (`RunsGoOn`) nor delivers what it is about
to save (`RowsAreFresh`), which is what a second worker could do, and, while nothing has failed,
what rows and charge a search has at each place of its run (`RunSoFar`); then a search that was
recovered or queued twice is found ended or as it was left.

`RunWithinEstimate` holds for any number of workers. A LIMIT keeps the lowest rows, so what
`SaveResults` charges is bounded by the limit and by the number of matches; the estimate is
`Price` of the matches, and `Price` is monotone and capped as the LIMIT is.

## 5. ExportWorker

*State.* `status`, `attempt`, `success`, `fail`, `retryAt`: the row. `inFunnel`, `exported`:
the funnel row of the search and what the export added to it. `queue`, `delayed`, `due`: the
list, the sorted set, and its members whose score has passed. `charges`, `delivered`: debits
for, and delivery of, each lead (by position; `delivered` is the CRM's state). `pc`, `cur`,
`try`, `pos`, `good`, `bad`: Worker.process. `promo`, `ids`: the promoter.

*Actions.* `CreateExport` (compares the balance with the number of leads, reserves nothing),
`Push`, `EnterFunnel` (the ETL), `FallDue`; promoter `ListDue`, `Promote` (RPush),
`RemovePromoted` (ZRem); worker `Pop`, `MarkProcessing`, `GetIntegration`, `LookupFails`,
`Send`/`SendFails`, `ChargeLead`/`ChargeRefused`/`ChargeError`, `LeadsDone`, `ScheduleRetry`
(ZAdd), `RecordResult`, `CountInFunnel`. Every call to PostgreSQL or Redis can fail within
`MaxFaults` and goes where the code goes; `Crash` ends both goroutines.

*External.* The CRM takes a lead, refuses it, or takes it and the answer is lost, at any
attempt and without bound. Backoff durations are abstracted to "due or not".
CreateExport's check of the integration is left out: no code path deactivates one.

*Run `exports`.* Export e1 has two leads, e2 one that no company table has, so a run can
succeed, succeed in part and fail for sure; `MaxAttempts` 2 has one retry; 3 credits cover
the leads but not every retry; one failure or crash. It checks `TypeOK`,
`ChargedOnlyWhenDelivered`, `DoneIsComplete`, `RunsAreBounded` (one more run for each failure
that leaves an id in the list and in the set), `EveryAttemptEnds` (an export gets stuck only
after a failure; nothing recovers one, which the code leaves so).
Deadlock is not checked: when all exports have ended and nobody makes another, the worker's
pops time out, which changes nothing.

*Fairness.* Accepted requests end, delays pass, and the process and its two goroutines go on.

*Proved* (`ExportWorker_proofs`), for any exports, leads, attempts and failures: `TypeOK`,
`ChargedOnlyWhenDelivered`, `DoneIsComplete`. A run starts from the first lead and forgets the
runs before it, so the invariant (`RunAccounts`) says of the run in progress that the lead at
the charge is delivered and that, while no lead of the run has failed, every lead passed is
charged; at the end of the loop with no failure that is every lead.

`RunsAreBounded` counts the copies of an id (`Copies`): in the request that has it to push, in
the list, popped and not yet marked, and in the sorted set, where it counts no more once the
promoter has pushed it. The invariant (`Bounded`) is that copies and a run that may still be
scheduled again are at most one more than the failures, that attempts and copies are at most
`MaxAttempts` and the failures, and that an export nobody has created has no copy anywhere;
without the first the second is not kept by a ZAdd. The promoter's ids have to be distinct and in
the sorted set (`PromoterIds`), or a ZRem could fail to take away what its RPush added.

`FunnelWithinCharges` is proved and not part of a run, being an upper bound only (leads that
are exported before the funnel has a row of their search are never counted): what was reported
and what the run has counted since are at most the sum of the charges; a debit adds one to that
sum and the run counts it after, and a run that is cut off reports less. `EveryAttemptEnds` is
only model-checked.

## 6. Qualify

*State.* `balance`, `paid`, `lock`: the ledger and its row locks. `saved`, `old`: rows of
`tb_ai_qualifications`, by the request that made them, and those past 30 days. `pc`,
`slots`, `tries`, `answer`: the requests in flight, the semaphore, rate-limited attempts,
what the client got. `failed` and `late` are history. Which requests hold a connection of
the pool follows from `pc`: those with an open transaction.

*Actions*, one per call. A qualification: `FindRecent` (the cache), `GetCompanyPromptData`,
`BeginTx`, `LockBalance` and `InsertDebit` (Deduct), `AcquireSlot`, then `Complete`,
`RateLimited` (tried again) or `Incomplete` (no completion, or one that does not parse),
`Save`, `Commit`. A consultation: `BeginTx`, `LockBalance`, `InsertDebit`, `Commit`,
`GetByCNPJ`. `CallFails` ends any of them; a COMMIT or a Save that failed may have taken
effect. `Expire` lets an answer become old.

*The ledger as it is today.* Migration 006 has a CHECK on the type of a transaction that
does not name `ai_qualification`, and `reference_id` is a UUID while Qualify passes the
CNPJ: PostgreSQL refuses the INSERT, so every qualification that is not in the cache is
answered with an error and rolled back. `takes` is chosen once, among a ledger that takes
consultations only (the tables as they are) and one that takes both (what the service is
written for, and its tests use); all properties are checked with either.

*Run `qualify`.* acme's users qualify one company twice and consult one that does not exist,
beta's qualify the same company. Two connections and one slot make every wait happen: for
the row lock, for the slot by who holds the lock, for a second connection by who holds the
slot. 20 credits pay two of acme's three requests. Deadlock is not checked: the requests
end.

- `RowsMatchDebits`, `ChargeHasAnswer`: Save is on another connection and outside the
  transaction; a debit without a saved row does not occur, a saved row without a debit only
  after a failed call, and a debit without an answer only after one or for a company that is
  not there.
- `LateRequestsAreFree`: two requests that begin together both pay, nothing in the code excludes
  it; one that begins after an answer was saved does not.
- `StuckOnlyWhenPoolIsHeld`: slot and row lock alone cannot block everybody; the pool can,
  when every connection belongs to a transaction whose request waits for another connection, the
  row lock or a slot.
- `EveryRequestEnds`: then too, because the waits are on the context of the request.

*Fairness.* Calls that can go on do (the provider's client has a timeout), and a client does
not wait for ever (`GivesUp`, which cancels the context). Without the second the property
fails: nothing in the server ends the wait for a connection.

*Proved* (`Qualify_proofs`), for any requests, organisations, prices, slots and connections:
the five invariants. None of them is inductive alone. `Inv` adds what the place of a request
says of it (`Phases`: paid only after the commit, saved only after `Save`), that a row lock
belongs to exactly one open transaction past the SELECT (`LocksAreHeld`), that the balance
compared there still covers the debit, since nobody else can commit one
(`OpenIsCovered`), that slots belong to qualifications between the semaphore and their end
(`SlotsAreHeld`), and that who began late finds an answer (`LateFindsAnswer`).
`StuckOnlyWhenPoolIsHeld` then follows along the chain of waits: with a connection free, who
has a slot can go on, so nobody waits for a slot; who has a row lock is then past it, and
goes on too. `EveryRequestEnds` is only model-checked.

## 7. Reports and Analytics

`Reports` has no state: rows are ids with constant columns, a query is an operator over sets
of rows, and a LEFT JOIN pads with `Null` (`Pad`). Periods and paging are left out.

*State of `Analytics`.* `orgs`, `posted`, `status`, `result`: the tables it reads, changed by
`CreateOrg`, `PostTransaction`, `SearchRuns`, `SearchDone` as the other components do.
`marked` (`etl_processed_at`), `dimOrgs`, `facts`, `leads`: what it writes. `pc`, `batch`,
`eligible`: its runs.

*Actions.* `Begin`; `SyncDims`; a batch is one statement, but it locks its rows when it
begins (`StartBatch`, FOR UPDATE SKIP LOCKED with any choice, the LIMIT has no order) and its
effect appears when it ends (`CommitBatch`), so that two runs overlap; `EmptyBatch`: no rows;
`RunFails`. A worker's UPDATE of a search waits while a batch has its row.

*Run `analytics`.* An hourly and a manual run, batches of two of four transactions, a search
that runs twice, an organisation that is created meanwhile, one failure. Ana has a search,
two exports and two debits, so that the joins multiply; root spends in a foreign
organisation. Deadlock is not checked, because rows and faults are bounded.

- `CountedOnce`: facts and marks agree however runs overlap, and a search that ran once is
  counted with its result. A search that runs again after it was counted keeps the first
  count: the code does not look at it again.
- `DashboardsMatchLedger`: entries minus consumption of any period, with what is still
  unmarked, is the ledger's sum; the daily series adds up to the total.
- `ReportsCoverSpending`: see the operators. The joins show a user's consumption
  max(1, searches) times max(1, exports) too often, so that the property is an inequality,
  and an equality for at most one of each; the history repeats a search that has two debits.
  Deleted users and visitors (impersonating administrators) are in the total of an
  organisation and not in its list of sellers.
- `EverythingIsCounted`: a batch of rows that are all ineligible ends the loop; a later run,
  after SyncDims, reaches them.

*Fairness.* The ticker fires and statements end. Nothing needs to be posted.
`dim_tempo` covers the years 2024 to 2030; later days are out of the model.

*Proved* (`Analytics_proofs`), for any rows, amounts, periods, runs and sizes of a batch: the
four invariants. `CountedOnce` needs that batches are locked (`BatchesAreLocked`: no row is in
two of them or in one and marked, and a search in one stays done) and that a search that is
marked and ran once is done (`MarkedWereDone`). `DashboardsMatchLedger` is then a matter of
splitting the sum of the ledger by sign, by mark and by day. `ReportsCoverSpending` says of each
join how often it shows a debit: its rows, grouped by the debit they show (`Grouped`,
`SumByKey`), are as many for each as the searches times the exports that pad to at least one.
`EverythingIsCounted` is only model-checked.

*Sums.* The community modules define a sum by recursion on the set, through `CHOOSE`, which
no theorem of the library says anything of. `FiniteSums` derives what is needed: strict
inclusion is well-founded on finite sets (a theorem of the library), so a family of subsets of a
finite set has a smallest member (`SmallestSet`), which gives induction over finite sets for a
set `G` of sets instead of a predicate (`SetInduction`), and with it that the chosen function
exists (`SumsExist`), that any element may be added last (`SumRemove`), and the laws of unions,
comparison, grouping and renaming.

## 8. Accounts

*State.* `orgs`, `users`, `invites`, `tokens`, `audit`: the tables. `issued`: whom each
refresh token was made for and the login it goes back to. `access`: the claims of access
tokens that clients hold; they are believed until they expire, whatever happens to the row
(the model lets them never expire, which allows more). `req`: requests between two
statements, with what they have read. `expired`: refresh tokens and invitations past their
time. The rest is history: which logins, invitations and users had a race or a cut-off
request (`shaken`, `severed`), logged-out logins (`closed`), users switched by the platform.

*Actions*, a handler statement by statement: `Login`, `StoreRefreshToken`; `Refresh`,
`DeleteRefreshToken` or `DeleteFails`, `StoreRefreshToken`; `Logout`; `Accept`,
`CreateUserFromInvite`, `AcceptInvitation`, `LoginAfterAccept`, `StoreRefreshToken`;
`PatchUser`, `DeleteUser`, `CreateInvitation`, `Impersonate`, each followed by
`WriteAuditLog` or `AuditFails`; `DeleteInvitation`; `CreateOrg`, `CreateOrgAdmin`;
`CreateUser`; `SetUserActive`. `Cut` ends a request between two statements.

*Abstractions.* A row of `tb_users` is named by its address, which is unique for good. The id
of a user in a URL is one of two texts (`Texts`), the one PostgreSQL prints or another of the
same UUID, in capitals say: PatchUser and DeleteUser compare it as a text with the one in the
claims (`IsOwnId`), and the UPDATE compares UUIDs, so that an administrator can remove himself.
An entry of the audit log names the row; the column `target_id` keeps the text of the request,
which is another text of the same id. Whoever knows an invitation's token may accept it; how it
reaches the invited person is external (the handler returns the id and the date, and the code
sends no mail). Audit rows other than removals of users are not kept. Not modelled: names and
passwords, plans, `is_active` of organisations and `credit_limit`, which no check reads.

*Run `accounts`.* Two requests at once, an organisation with two administrators who are signed
in, one to be created, a free address, one invitation, three refresh tokens, four requests or
deadlines, one failure. Four starts reach two logins or rotations of one line with a logout
beside them, an invitation that is revoked while it is accepted, two administrators who remove
each other, and one who removes himself. The two requests are symmetric. Deadlock is not
checked, because starts are bounded.

- `RotationKeepsOneToken`, `LogoutEndsSessions`: what rotation and logout keep, and the
  races that the code leaves open as the only exceptions.
- `InvitationsMatchUsers`: three statements without a transaction; what is half done belongs
  to a request that was cut off or revoked.
- `RemovalsAreLogged`: an organisation may end without an active administrator, by the hand of
  one or of several of them, and the code does not prevent it; but of everybody who cannot sign
  in the audit log names, or the request is about to write, an administrator of his organisation
  who removed him, unless the platform did or the write failed.

No liveness is stated: nothing here is retried or recovered.

Observed, and reached by the run: `orgadmin/service.go:14` calls it impossible to deactivate
oneself, and the test of that (`service_test.go:158`) sends the id as the claims have it. With the
id in capitals `service.go:45` and `:64` see two texts, the UPDATE finds one row, and an
organisation can lose its only administrator by his own hand. No property forbids what the code
lets through; the log tells of it.

*Proved* (`Accounts_proofs`), for any users, organisations, invitations, tokens and requests:
the five invariants. Each compares rows that different statements write, so the inductive
invariant says what a request between two statements holds. `Types`: rows refer to rows, and
what its first statement read is still there. `Sessions`: a rotation holds the only token of
its login, the old one before the DELETE and the right to insert one after it, and no two
rotations that are not `shaken` hold the same. `Joining`: a request that accepts has made its
user, with the organisation and the role of its invitation, or the invitation counts as cut off.
`InactiveIsAccounted`: who is inactive was made so by the platform, or by an administrator of his
organisation whom the log names or the request has still to name; `RemovalsAreAccounted` follows.

## 9. Ingestion

*State.* `present`, `marks`: the directory and the progress file. `staging`, `cnaes`,
`companies`, `links`, `mains`, `partners`, `vector`, `indexed`: the tables. `phase`, `queue`,
`pos`, `done`, `asked`, `tries`: main's locals, lost when it ends. `lost` is history: the
progress line of a file whose order matters (`Ordered`) was not written, or not read.

*Actions.* `Start` (loadProgress, CreateStagingTables), or `StartUnread` when the progress file
cannot be opened or read to its end, which loadProgress takes for a shorter one; `FindFiles`,
`SendBatch` (the batch of one kind's Upsert, all or nothing), `MarkDone` or `MarkFails`,
`NextPhase`, `DropStagingTables` or `DropFails`, `FetchPending`, `CallFails`, `CallAnswers`,
`CreateHNSWIndex`; `Crash` at any point, a fatal error included; `AddFile` by the operator.
`ReadFails`: the parsers skip a read error as they skip a malformed line, and the next read has
the same error, so that the program reads for ever and comes to no batch and no progress line;
`Interrupt`: the operator stops such a program. `Ends` is what all ends have in common. A file
is its place in the order of `os.ReadDir`, a line its number in the file. A parser hands on the
well-formed lines (`Lines`); a batch (`NextBatch`) is the next `BatchSize` of them, or all
lines of a file of CNAEs; the columns are abstracted to the key, the name, the Simples flag and
the codes.

*Abstractions.* `marks` is a set: when the progress file cannot be read to its end, any part of
it may be what was read. A progress line is written whole or not at all. Municipios are loaded
by every run again, and only a failing read of them matters.

*Run `ingestion`.* Seven files of five kinds with malformed lines, a name corrected by a
later file, a company in two lines, one without Empresas, a line without main CNAE, a partner
in two lines, and a late file of Estabelecimentos; batches of two, two attempts at the embedding
service. Two crashes, or reads or writes that fail, are what the hard cases take: a file staged
again and cut off, a progress file that is not read before or after a crash.

- `ResumedImportIsComplete`: an import that is cut off anywhere ends with the tables of one
  that was not (`Direct` is that reference, defined from the files alone). Two cases are
  excepted (`OutOfOrder`) because the code behaves otherwise there. Estabelecimentos that come
  late are enriched from staging tables that were dropped, and blank the names. A file whose
  progress line was not written, or not read by a later run, is imported again: Estabelecimentos
  with the same effect, and an older Empresas over a newer one; when that run is cut off, a
  third one may skip both and take the older names.
- `NothingIsMissing`: what holds in those cases too. Whatever failed, an import that ends has
  every CNAE, company, code and embedding of the files that are noted or were there from the start.
- `PartnersWithinFaults`: `tb_partners` has no key to conflict on; a partner is there for
  every line of a noted file that names it, and at most once more per line and failure.
- `EveryImportEnds`: with fewer than all vectors in an answer, failed attempts and restarts, and
  any failure but one: a failing read holds the program for ever, unless the operator stops it.

*Fairness.* The program goes on, somebody starts it again after an error, and the embedding
service gives a whole answer again and again (strong: the code has no other way to end).
Nothing is assumed of `Interrupt`: nothing in the code ends a program that reads for ever.
`Crash` and failing reads and writes are bounded by `MaxFaults`; calls to the service may fail
without bound.

*Proved* (`Ingestion_proofs`), for any files, lines, keys and sizes of a batch: all four. The
types are inductive. `ResumedImportIsComplete` says what holds at the end, and needs what holds
in between: `Phases` (the kinds before the current one are done, its files are done or in the
queue, and unless a progress line was lost, what is noted of the kinds whose order matters is
just what is done), `Noting` (the files of a kind are noted in their order) and, for each table
that is filled again (names and options in `Staging`, the companies in `Filling`), `Resumes`: a
key that the first file without a note does *not* have has the value that the noted files give
it, a key that was sent in this run has the value of the last line sent, and of the other keys
of that file nothing is known - an earlier run may have left a later line's value.
`ResumesBatch` keeps this over a batch, `ResumesNoted` turns it into the next file's when all
lines are sent. Companies get the right data because the staging tables are complete by then
(`EnrichedIsDirect`), even when they were dropped or lost: while Estabelecimentos are left they
are new, with nothing noted, or they resume. `Growing` is the same for the tables that only
grow, `Embedding` for the vectors. `EndsWhole` (`NothingIsMissing`) needs nothing of the order:
what was sent is there (`Growing`, `Existing`), files that are noted or done were sent, and
those that were there from the start are done at the end. `PartnersAreCounted` rests on
`Repeating`: a partner is there at least once for every place (file and line) that is noted or
sent (`SentPlaces`), and at most once for every place that is noted and known to be
(`Through`), or sent of the current file, and once more for all places per failure
(`OncePlaces`). A crash, a failed read or write and a progress file that is not read take
places away from those that count once, and the failure pays for them.

Observed and not stated as a property: `is_primary` is never cleared when the
main CNAE changes (`mains` keeps both); an embedding is not renewed when a later import
changes the name it was made of.

## 10. Disagreements between the code and its comments

Each is a run that TLC ends with a counterexample.

- `search_runs_twice` / `SettledIsFinal`: `worker.go:115` calls the status test idempotency.
  With two workers it is read in one statement and written in another: a search that is done
  goes back to "processing" and runs again, with nothing failing. (No row is charged twice
  by this, but the next lot of companies can be.)
- `search_unpaid` / `DonePaysForLeads`: `README.md:54` prices a returned lead at one credit.
  When the process stops between the rows and the debit, the next run leaves those rows out
  and the search ends done with leads that were never charged.
- `export_retry_lost` / `AnnouncedRetryIsKept`: `exports/worker.go:85` says the promoter moves
  ready items. RPush and ZRem are two calls, and ZRem removes the member whatever its score:
  a retry that the worker scheduled in between is dropped while `next_retry_at` announces it.
- `export_recharged` / `LeadChargedOnce`: `README.md:56` prices an exported lead at one
  credit; a retry sends and charges the leads that succeeded again.

## 11. What rests on what

TLAPS proves the theorems for every value of the constants under the named assumptions
`CreditsAssumption`, `SearchAssumption`, `ExportAssumption`, `QualifyAssumption`,
`ReportsAssumption`, `AnalyticsAssumption`, `AccountsAssumption` and `IngestionAssumption`, which
TLC evaluates on each run. They say of the constants what the tables and the code do: finite
tables and files, ids of different tables that differ (UUIDs), keys and flags of their types in
the lines that a parser hands on, positive attempts and sizes of a batch; and that the model's
bounds are numbers. Three theorems of `SearchWorker_proofs` have one
hypothesis more, `OneWorker`, because with two workers their properties do not hold. The
inductive invariants were also run through TLC before they were proved.

Model-checked only is liveness (temporal reasoning with ENABLED is out of the prover's reach):
`ChargeEnds`, `EverySearchEnds`, `EveryAttemptEnds`, `EveryRequestEnds`, `EverythingIsCounted`
and `EveryImportEnds`. The proofs take nothing on trust: sums, counts and the
induction they need are derived from the definitions (see *Sums*).

Not modelled, for good: the stateless packages, the goose command and the web pages, which
have no state that these properties speak of; listings that only read (companies,
invitations, transactions, qualifications), paging and periods; the column formats of the
CSV files; passwords, names, plans and `credit_limit`; the embeddings a worker caches after a
search (a semantic search of the model finds any selection, whatever is cached).
