------------------------------- MODULE Qualify -------------------------------
(***************************************************************************)
(* The requests that pay while their client waits: POST /ia/qualify/{cnpj} *)
(* (internal/ia) and GET /companies/{cnpj} (internal/companies).           *)
(*                                                                         *)
(* A qualification answers from a cache of 30 days or else pays: it keeps  *)
(* a transaction open, and with it a connection of the pool and the row    *)
(* lock of the organisation's balance, while it waits for one of few slots *)
(* and for a language model; it saves the answer on another connection,    *)
(* and then commits.  A consultation commits its debit and then looks for  *)
(* the company.                                                            *)
(*                                                                         *)
(* The INSERT of a qualification's debit is refused by the tables of       *)
(* migrations 006 and 009 as they are (the type is not in the CHECK, and   *)
(* the CNPJ given as reference is no UUID).  takes says which debits the   *)
(* ledger takes, so that the service is checked with that ledger and with  *)
(* one that takes them.                                                    *)
(***************************************************************************)
EXTENDS Integers, FiniteSets

CONSTANTS Orgs,       \* organisations
          Requests,   \* requests that clients may make
          Kind,       \* Kind[r]: "qualify" or "consult"
          OrgOf,      \* OrgOf[r]: organisation of the user
          CompanyOf,  \* CompanyOf[r]: the CNPJ in the URL
          Known,      \* CNPJs that are in tb_companies
          Ledgers,    \* sets of kinds whose debit some ledger takes
          Cost,       \* qualifyCost, and the price of a consultation (both 10)
          Funds,      \* credits each organisation has at the start
          Slots,      \* maxAISemaphore (5)
          PoolSize,   \* connections of the pool
          MaxRetries, \* maxRetries of the provider (3)
          None        \* no request

ASSUME QualifyAssumption ==
  /\ IsFiniteSet(Requests)
  /\ Kind \in [Requests -> {"qualify", "consult"}]
  /\ OrgOf \in [Requests -> Orgs]
  /\ Cost \in Nat
  /\ Funds \in Nat
  /\ Slots \in Nat \ {0}
  /\ PoolSize \in Nat \ {0}
  /\ MaxRetries \in Nat \ {0}
  /\ None \notin Requests

VARIABLES
  takes,    \* kinds of request whose debit the ledger takes
  \* PostgreSQL
  balance,  \* tb_credit_balances
  paid,     \* requests whose debit is committed
  lock,     \* lock[o]: request that holds the row lock of o's balance
  saved,    \* rows of tb_ai_qualifications, named by the request that made them
  old,      \* those whose created_at is more than 30 days ago
  \* The server
  pc,       \* pc[r]: the call that r is about to make, or waits in
  slots,    \* requests that hold a slot of the semaphore
  tries,    \* tries[r]: rate-limited attempts at the completion
  answer,   \* answer[r]: what the client got
  \* History
  failed,   \* requests in which a call failed, or whose client gave up
  late      \* requests that began when an answer was in the cache, and still is

dbVars == <<balance, paid, lock, saved, old>>
vars == <<takes, dbVars, pc, slots, tries, answer, failed, late>>

Steps == {"cache", "company", "begin", "lock", "debit", "slot", "chat", "save", "commit", "lookup"}
\* Where the request has its transaction, and so a connection, and the lock.
InTx == {"lock", "debit", "slot", "chat", "save", "commit"}
Locked == InTx \ {"lock"}
Answers == {"none", "cached", "ok", "refused", "missing", "error"}

Init ==
  /\ takes \in Ledgers
  /\ balance = [o \in Orgs |-> Funds]
  /\ paid = {}
  /\ lock = [o \in Orgs |-> None]
  /\ saved = {}
  /\ old = {}
  /\ pc = [r \in Requests |-> "new"]
  /\ slots = {}
  /\ tries = [r \in Requests |-> 0]
  /\ answer = [r \in Requests |-> "none"]
  /\ failed = {}
  /\ late = {}

\* A connection of the pool is free, for one statement or for a transaction.
ConnFree == Cardinality({r \in Requests : pc[r] \in InTx}) < PoolSize

\* FindRecent: the answers for that company and organisation that are young enough.
Cached(r) == {s \in saved \ old : OrgOf[s] = OrgOf[r] /\ CompanyOf[s] = CompanyOf[r]}

At(r, step) == pc[r] = step

GoTo(r, step) ==
  /\ pc' = [pc EXCEPT ![r] = step]
  /\ UNCHANGED <<answer, slots>>

\* Mutant of Answer: no deferred release of the slot.
AnswerKeepingSlot(r, a) ==
  /\ pc' = [pc EXCEPT ![r] = "ended"]
  /\ answer' = [answer EXCEPT ![r] = a]
  /\ UNCHANGED slots

\* The handler returns; the deferred release gives a slot back on every path.
Answer(r, a) ==
  /\ pc' = [pc EXCEPT ![r] = "ended"]
  /\ answer' = [answer EXCEPT ![r] = a]
  /\ slots' = slots \ {r}

\* The transaction of r ends: its row lock is free.
Unlock(r) == lock' = [o \in Orgs |-> IF lock[o] = r THEN None ELSE lock[o]]

Rollback(r) == Unlock(r) /\ UNCHANGED <<balance, paid>>

-----------------------------------------------------------------------------

Start(r) ==
  /\ At(r, "new")
  /\ GoTo(r, IF Kind[r] = "qualify" THEN "cache" ELSE "begin")
  /\ late' = IF Kind[r] = "qualify" /\ Cached(r) # {} THEN late \cup {r} ELSE late
  /\ UNCHANGED <<takes, dbVars, tries, failed>>

\* An answer becomes too old for the cache.
Expire(s) ==
  /\ s \in saved \ old
  /\ old' = old \cup {s}
  /\ late' = {r \in late : Cached(r) # {s}}
  /\ UNCHANGED <<takes, balance, paid, lock, saved, pc, slots, tries, answer, failed>>

\* Mutant of FindRecent: created_at is compared the wrong way round.
FindOld(r) ==
  /\ At(r, "cache")
  /\ ConnFree
  /\ IF Cached(r) \cap old # {} THEN Answer(r, "cached") ELSE GoTo(r, "company")
  /\ UNCHANGED <<takes, dbVars, tries, failed, late>>

FindRecent(r) ==
  /\ At(r, "cache")
  /\ ConnFree
  /\ IF Cached(r) # {} THEN Answer(r, "cached") ELSE GoTo(r, "company")
  /\ UNCHANGED <<takes, dbVars, tries, failed, late>>

GetCompanyPromptData(r) ==
  /\ At(r, "company")
  /\ ConnFree
  /\ IF CompanyOf[r] \in Known THEN GoTo(r, "begin") ELSE Answer(r, "missing")
  /\ UNCHANGED <<takes, dbVars, tries, failed, late>>

BeginTx(r) ==
  /\ At(r, "begin")
  /\ ConnFree
  /\ GoTo(r, "lock")
  /\ UNCHANGED <<takes, dbVars, tries, failed, late>>

\* Mutant of LockBalance: no FOR UPDATE.
ReadBalance(r) ==
  /\ At(r, "lock")
  /\ IF balance[OrgOf[r]] < Cost THEN Answer(r, "refused") ELSE GoTo(r, "debit")
  /\ UNCHANGED <<takes, dbVars, tries, failed, late>>

\* Deduct, SELECT ... FOR UPDATE and the comparison; a refusal is rolled back.
LockBalance(r) ==
  /\ At(r, "lock")
  /\ lock[OrgOf[r]] = None
  /\ IF balance[OrgOf[r]] < Cost
     THEN Answer(r, "refused") /\ UNCHANGED lock
     ELSE GoTo(r, "debit") /\ lock' = [lock EXCEPT ![OrgOf[r]] = r]
  /\ UNCHANGED <<takes, balance, paid, saved, old, tries, failed, late>>

\* Deduct, INSERT of the debit: a refusal is rolled back and answered as an error.
InsertDebit(r) ==
  /\ At(r, "debit")
  /\ IF Kind[r] \in takes
     THEN GoTo(r, IF Kind[r] = "qualify" THEN "slot" ELSE "commit") /\ UNCHANGED lock
     ELSE Answer(r, "error") /\ Unlock(r)
  /\ UNCHANGED <<takes, balance, paid, saved, old, tries, failed, late>>

AcquireSlot(r) ==
  /\ At(r, "slot")
  /\ Cardinality(slots) < Slots
  /\ slots' = slots \cup {r}
  /\ pc' = [pc EXCEPT ![r] = "chat"]
  /\ UNCHANGED <<takes, dbVars, tries, answer, failed, late>>

\* Chat and parseQualifyResponse: a score from 0 to 100 and a justification.
Complete(r) ==
  /\ At(r, "chat")
  /\ GoTo(r, "save")
  /\ UNCHANGED <<takes, dbVars, tries, failed, late>>

\* doRequest: only a rate limit is tried again, after a wait.
RateLimited(r) ==
  /\ At(r, "chat")
  /\ tries[r] < MaxRetries - 1
  /\ tries' = [tries EXCEPT ![r] = @ + 1]
  /\ UNCHANGED <<takes, dbVars, pc, slots, answer, failed, late>>

\* Mutant of Incomplete: what the model was asked for is charged.
IncompleteCharged(r) ==
  /\ At(r, "chat")
  /\ Answer(r, "error")
  /\ Unlock(r)
  /\ balance' = [balance EXCEPT ![OrgOf[r]] = @ - Cost]
  /\ paid' = paid \cup {r}
  /\ UNCHANGED <<takes, saved, old, tries, failed, late>>

\* No completion, or one that cannot be parsed.
Incomplete(r) ==
  /\ At(r, "chat")
  /\ Answer(r, "error")
  /\ Rollback(r)
  /\ UNCHANGED <<takes, saved, old, tries, failed, late>>

\* Mutant of Save: the answer is saved after the commit, if nothing fails.
SaveNothing(r) ==
  /\ At(r, "save")
  /\ ConnFree
  /\ GoTo(r, "commit")
  /\ UNCHANGED <<takes, dbVars, tries, failed, late>>

\* Save takes a second connection from the pool; its row is visible at once.
Save(r) ==
  /\ At(r, "save")
  /\ ConnFree
  /\ saved' = saved \cup {r}
  /\ GoTo(r, "commit")
  /\ UNCHANGED <<takes, balance, paid, lock, old, tries, failed, late>>

\* The debit becomes visible; the trigger subtracts and compares with nothing.
Pay(r) ==
  /\ balance' = [balance EXCEPT ![OrgOf[r]] = @ - Cost]
  /\ paid' = paid \cup {r}
  /\ Unlock(r)

Commit(r) ==
  /\ At(r, "commit")
  /\ Pay(r)
  /\ IF Kind[r] = "qualify" THEN Answer(r, "ok") ELSE GoTo(r, "lookup")
  /\ UNCHANGED <<takes, saved, old, tries, failed, late>>

\* companies.Service.GetByCNPJ: the company, its CNAEs and its partners.
GetByCNPJ(r) ==
  /\ At(r, "lookup")
  /\ ConnFree
  /\ Answer(r, IF CompanyOf[r] \in Known THEN "ok" ELSE "missing")
  /\ UNCHANGED <<takes, dbVars, tries, failed, late>>

\* The current call of r returns an error, or r's context is cancelled: every path
\* rolls back and returns.  What was sent may have taken effect.
CallFails(r) ==
  /\ pc[r] \in Steps
  /\ Answer(r, "error")
  /\ failed' = failed \cup {r}
  /\ \/ Rollback(r)
     \/ At(r, "commit") /\ Pay(r)
  /\ \/ UNCHANGED saved
     \/ At(r, "save") /\ ConnFree /\ saved' = saved \cup {r}
  /\ UNCHANGED <<takes, old, tries, late>>

-----------------------------------------------------------------------------

\* r can only wait: for a connection, for the row lock, or for a slot.
Waiting(r) ==
  \/ pc[r] \in {"cache", "company", "begin", "save", "lookup"} /\ ~ConnFree
  \/ At(r, "lock") /\ lock[OrgOf[r]] # None
  \/ At(r, "slot") /\ Cardinality(slots) >= Slots

\* Mutant of GivesUp: the transaction and what is done in it have a context of their own.
GivesUpOutsideTx(r) == pc[r] \notin InTx /\ Waiting(r) /\ CallFails(r)

\* The client of a request that waits goes away: it waits in calls that are given the
\* context of the request, or in a select on it.
GivesUp(r) == Waiting(r) /\ CallFails(r)

Handle(r) ==
  \/ FindRecent(r) \/ GetCompanyPromptData(r) \/ BeginTx(r) \/ LockBalance(r)
  \/ InsertDebit(r) \/ AcquireSlot(r) \/ Complete(r) \/ RateLimited(r)
  \/ Incomplete(r) \/ Save(r) \/ Commit(r) \/ GetByCNPJ(r)

Next == \E r \in Requests : Start(r) \/ Expire(r) \/ Handle(r) \/ CallFails(r)

\* A request that can go on does (the provider has a timeout), and no client waits for ever.
Fairness == \A r \in Requests : WF_vars(Handle(r)) /\ WF_vars(GivesUp(r))

Spec == Init /\ [][Next]_vars
FairSpec == Spec /\ Fairness

-----------------------------------------------------------------------------
(* Properties *)

\* Types; that a balance is a natural number says that no charge overdraws it, although
\* each is compared with it long before it is committed.
TypeOK ==
  /\ takes \in Ledgers
  /\ balance \in [Orgs -> Nat]
  /\ paid \in SUBSET Requests
  /\ lock \in [Orgs -> Requests \cup {None}]
  /\ saved \in SUBSET Requests
  /\ old \in SUBSET saved
  /\ pc \in [Requests -> Steps \cup {"new", "ended"}]
  /\ slots \in SUBSET Requests
  /\ tries \in [Requests -> 0..MaxRetries]
  /\ answer \in [Requests -> Answers]
  /\ failed \in SUBSET Requests
  /\ late \in SUBSET Requests

\* The row and the debit of a qualification, made on two connections, go together: no
\* debit without its row, and a row without its debit only when a call failed.
RowsMatchDebits ==
  /\ \A r \in paid : Kind[r] = "qualify" => r \in saved
  /\ \A r \in saved : r \in paid \cup failed \/ At(r, "commit")

\* A debit that the client got no answer for comes from a failed call, or from the
\* consultation of a company that is not there.
ChargeHasAnswer ==
  \A r \in paid :
    pc[r] = "ended" =>
      \/ answer[r] = "ok"
      \/ r \in failed
      \/ Kind[r] = "consult" /\ CompanyOf[r] \notin Known

\* Who asks after an answer was saved, and while it is recent, does not pay for another:
\* a company is paid twice only by requests that began before the first of them had saved.
LateRequestsAreFree == late \cap paid = {}

\* Requests can all wait for each other only when open transactions hold the whole pool.
StuckOnlyWhenPoolIsHeld ==
  LET active == {r \in Requests : pc[r] \in Steps}
  IN  active # {} /\ (\A r \in active : Waiting(r)) => ~ConnFree

\* Every request ends, also when all of them wait for each other: their clients give up.
EveryRequestEnds == \A r \in Requests : pc[r] \in Steps ~> pc[r] = "ended"
=============================================================================
