------------------------------- MODULE Credits -------------------------------
(***************************************************************************)
(* The credit subsystem: internal/credits over the schema of               *)
(* migrations/006_credits.sql, as the callers of Deduct use it.            *)
(*                                                                         *)
(* tb_credit_transactions is an append-only ledger.  A trigger on INSERT   *)
(* keeps tb_credit_balances.balance; no CHECK constraint keeps it from     *)
(* going negative.  That rests on Deduct alone: it reads the balance with  *)
(* SELECT ... FOR UPDATE inside the transaction its caller opened, and     *)
(* inserts the debit in the same transaction.  The caller commits or rolls *)
(* back, possibly much later (internal/ia keeps the transaction open over  *)
(* a call to the language model).                                          *)
(*                                                                         *)
(* A connection of the pool runs at most one transaction at a time.  Rows  *)
(* of the ledger are abstracted to their sums per organisation, by sign:   *)
(* bought and spent.                                                       *)
(***************************************************************************)
EXTENDS Integers

CONSTANTS Orgs,       \* organisations
          Conns,      \* connections that run a caller's transaction
          Prices,     \* amounts callers of Deduct charge
          Purchases,  \* amounts AddCredits is called with
          MaxInt,     \* largest value of a column of SQL type INT
          MaxBought,  \* bound: purchases of an organisation the model explores
          None        \* neither a connection nor an organisation

ASSUME CreditsAssumption ==
  /\ MaxInt \in Nat
  /\ MaxBought \in Nat
  /\ Prices \subseteq Nat \ {0}
  /\ Purchases \subseteq Int
  /\ None \notin Conns \cup Orgs

VARIABLES
  \* The committed tables.
  rows,      \* organisations that have a row in tb_credit_balances
  balance,   \* the balance column (0 for an organisation without a row)
  bought,    \* sum of the positive amounts in tb_credit_transactions
  spent,     \* sum of the debits in tb_credit_transactions, as a positive number
  \* The transactions in progress.
  lock,      \* lock[o]: connection that holds the lock on o's balance row, or None
  pc,        \* pc[c]: where connection c is in its transaction
  org,       \* org[c]: organisation that is charged (None outside a transaction)
  amt,       \* amt[c]: amount that is charged (0 outside a transaction)
  seen       \* seen[c]: balance that Deduct's SELECT returned

tables == <<rows, balance, bought, spent>>
request == <<org, amt>>
vars == <<rows, balance, bought, spent, lock, pc, org, amt, seen>>

PCs == {"idle", "begun", "locked", "posted", "refused"}

-----------------------------------------------------------------------------

\* Migration 006 creates a row for the organisations that exist then; one created
\* later has none until its first purchase.
Init ==
  /\ rows \in SUBSET Orgs
  /\ balance = [o \in Orgs |-> 0]
  /\ bought = [o \in Orgs |-> 0]
  /\ spent = [o \in Orgs |-> 0]
  /\ lock = [o \in Orgs |-> None]
  /\ pc = [c \in Conns |-> "idle"]
  /\ org = [c \in Conns |-> None]
  /\ amt = [c \in Conns |-> 0]
  /\ seen = [c \in Conns |-> 0]

\* A row of tb_credit_balances can be locked or updated by c.
CanLock(c, o) == lock[o] \in {None, c}

\* The end of c's transaction, however it ends.
EndTx(c) ==
  /\ lock' = [o \in Orgs |-> IF lock[o] = c THEN None ELSE lock[o]]
  /\ pc' = [pc EXCEPT ![c] = "idle"]
  /\ org' = [org EXCEPT ![c] = None]
  /\ amt' = [amt EXCEPT ![c] = 0]
  /\ seen' = [seen EXCEPT ![c] = 0]

-----------------------------------------------------------------------------
(* A transaction that charges: BeginTx, Deduct, then Commit or Rollback. *)

BeginTx(c, o, a) ==
  /\ pc[c] = "idle"
  /\ pc' = [pc EXCEPT ![c] = "begun"]
  /\ org' = [org EXCEPT ![c] = o]
  /\ amt' = [amt EXCEPT ![c] = a]
  /\ UNCHANGED <<tables, lock, seen>>

\* Mutant of LockBalance: the SELECT without FOR UPDATE.
ReadBalance(c) ==
  /\ pc[c] = "begun"
  /\ org[c] \in rows
  /\ seen' = [seen EXCEPT ![c] = balance[org[c]]]
  /\ pc' = [pc EXCEPT ![c] = "locked"]
  /\ UNCHANGED <<tables, request, lock>>

\* Deduct, SELECT ... FOR UPDATE: waits for the row lock, then reads the row.
LockBalance(c) ==
  /\ pc[c] = "begun"
  /\ org[c] \in rows
  /\ CanLock(c, org[c])
  /\ lock' = [lock EXCEPT ![org[c]] = c]
  /\ seen' = [seen EXCEPT ![c] = balance[org[c]]]
  /\ pc' = [pc EXCEPT ![c] = "locked"]
  /\ UNCHANGED <<tables, request>>

\* Deduct, no row: ErrInsufficientCredits, and nothing is locked.
MissingBalance(c) ==
  /\ pc[c] = "begun"
  /\ org[c] \notin rows
  /\ pc' = [pc EXCEPT ![c] = "refused"]
  /\ UNCHANGED <<tables, request, lock, seen>>

\* Mutant of Covers: off by one.
NearlyCovers(c) == amt[c] <= seen[c] + 1

Covers(c) == amt[c] <= seen[c]

\* Deduct, balance < amount: ErrInsufficientCredits.
InsufficientBalance(c) ==
  /\ pc[c] = "locked"
  /\ ~Covers(c)
  /\ pc' = [pc EXCEPT ![c] = "refused"]
  /\ UNCHANGED <<tables, request, lock, seen>>

\* Deduct, INSERT of the debit: the trigger's UPDATE needs the row lock (this
\* transaction has it) and adds -amount to the row.  Others see that on commit.
InsertDebit(c) ==
  /\ pc[c] = "locked"
  /\ Covers(c)
  /\ CanLock(c, org[c])
  /\ lock' = [lock EXCEPT ![org[c]] = c]
  /\ pc' = [pc EXCEPT ![c] = "posted"]
  /\ UNCHANGED <<tables, request, seen>>

\* Deduct, the SELECT or the INSERT fails: the transaction is aborted.
DeductError(c) ==
  /\ pc[c] \in {"begun", "locked"}
  /\ pc' = [pc EXCEPT ![c] = "refused"]
  /\ UNCHANGED <<tables, request, lock, seen>>

Commit(c) ==
  /\ pc[c] = "posted"
  /\ balance' = [balance EXCEPT ![org[c]] = @ - amt[c]]
  /\ spent' = [spent EXCEPT ![org[c]] = @ + amt[c]]
  /\ EndTx(c)
  /\ UNCHANGED <<rows, bought>>

\* Mutant of Rollback: a caller that returns on an error of Deduct without rolling
\* the transaction back.
RollbackPostedOnly(c) ==
  /\ pc[c] = "posted"
  /\ EndTx(c)
  /\ UNCHANGED tables

\* The caller gives up: after an error of Deduct, or after one of its own while the
\* debit is pending (internal/ia, when the completion fails).
Rollback(c) ==
  /\ pc[c] \in {"refused", "posted"}
  /\ EndTx(c)
  /\ UNCHANGED tables

\* The process dies, or the connection is lost: the server ends the session.
ConnectionLost(c) ==
  /\ pc[c] # "idle"
  /\ EndTx(c)
  /\ UNCHANGED tables

-----------------------------------------------------------------------------

\* Mutants of UpsertBalance: an UPDATE that makes no row, and no range check.
UpdateBalance(o, amount) ==
  /\ balance[o] + amount <= MaxInt
  /\ UNCHANGED rows
  /\ balance' = [balance EXCEPT ![o] = IF o \in rows THEN @ + amount ELSE @]

UpsertUnbounded(o, amount) ==
  /\ rows' = rows \cup {o}
  /\ balance' = [balance EXCEPT ![o] = @ + amount]

\* The statement the trigger runs: a row is made for an organisation without one.
UpsertBalance(o, amount) ==
  /\ balance[o] + amount <= MaxInt
  /\ rows' = rows \cup {o}
  /\ balance' = [balance EXCEPT ![o] = @ + amount]

\* Service.AddCredits refuses an amount that is not positive.  The INSERT is one
\* statement with its own transaction: the trigger waits for the row lock, and a sum
\* out of the column's range fails the INSERT with it.
AddCredits(o, amount) ==
  /\ amount > 0
  /\ bought[o] + amount <= MaxBought
  /\ lock[o] = None
  /\ UpsertBalance(o, amount)
  /\ bought' = [bought EXCEPT ![o] = @ + amount]
  /\ UNCHANGED <<spent, lock, pc, request, seen>>

-----------------------------------------------------------------------------

Deduct(c) ==
  \/ LockBalance(c)
  \/ MissingBalance(c)
  \/ InsufficientBalance(c)
  \/ InsertDebit(c)
  \/ DeductError(c)

Next ==
  \/ \E c \in Conns, o \in Orgs, a \in Prices : BeginTx(c, o, a)
  \/ \E c \in Conns : Deduct(c) \/ Commit(c) \/ Rollback(c) \/ ConnectionLost(c)
  \/ \E o \in Orgs, a \in Purchases : AddCredits(o, a)

\* Every caller goes on to end its transaction.  The server serves the waiters of a
\* row lock in their order of arrival, so none is passed over for ever.  Nothing is
\* assumed of errors and lost connections.
Fairness ==
  \A c \in Conns :
    /\ SF_vars(LockBalance(c) \/ MissingBalance(c))
    /\ WF_vars(InsufficientBalance(c) \/ InsertDebit(c))
    /\ WF_vars(Commit(c) \/ Rollback(c))

Spec == Init /\ [][Next]_vars
FairSpec == Spec /\ Fairness

-----------------------------------------------------------------------------
(* Properties *)

TypeOK ==
  /\ rows \in SUBSET Orgs
  /\ balance \in [Orgs -> (-MaxInt)..MaxInt]
  /\ bought \in [Orgs -> Nat]
  /\ spent \in [Orgs -> Nat]
  /\ lock \in [Orgs -> Conns \cup {None}]
  /\ pc \in [Conns -> PCs]
  /\ org \in [Conns -> Orgs \cup {None}]
  /\ amt \in [Conns -> Prices \cup {0}]
  /\ seen \in [Conns -> Int]

\* However many transactions charge one organisation at once, its balance never
\* goes below zero, although nothing in the schema forbids it.
BalanceNonNegative == \A o \in Orgs : balance[o] >= 0

\* The balance is the sum of the ledger, for organisations without a balance row
\* too: no interleaving of charges and purchases loses or repeats a row's effect.
BalanceMatchesLedger == \A o \in Orgs : balance[o] = bought[o] - spent[o]

\* Between Deduct's SELECT and the end of the transaction nobody else changes the
\* balance that was compared with the amount.
CheckedBalanceIsCurrent ==
  \A c \in Conns :
    pc[c] \in {"locked", "posted"} => seen[c] = balance[org[c]]

\* A charge that was begun ends: waiting for another transaction's row lock never
\* turns into waiting for ever.
ChargeEnds == \A c \in Conns : pc[c] = "begun" ~> pc[c] = "idle"

\* The transactions, locks and trigger implement an atomic ledger.
Ledger == INSTANCE CreditLedger
LedgerSpec == Ledger!LedgerSpec
=============================================================================
