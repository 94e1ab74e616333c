--------------------------- MODULE Credits_proofs ---------------------------
(***************************************************************************)
(* Proofs about Credits for any sets of organisations, connections and     *)
(* prices, and any width of the balance column.                            *)
(***************************************************************************)
EXTENDS Credits, TLAPS

\* A transaction in progress charges some organisation a positive amount.
RequestsInUse ==
  \A c \in Conns :
    pc[c] # "idle" => org[c] \in Orgs /\ amt[c] \in Prices

\* What Deduct compared with the amount is protected by the row lock until the end.
ChecksAreLocked ==
  \A c \in Conns :
    pc[c] \in {"locked", "posted"} =>
      /\ lock[org[c]] = c
      /\ seen[c] = balance[org[c]]

PostedIsCovered == \A c \in Conns : pc[c] = "posted" => Covers(c)

\* The inductive invariant.  BalanceNonNegative alone is not inductive: that Commit
\* keeps it rests on the comparison made earlier still being about today's balance.
IInv ==
  /\ TypeOK
  /\ BalanceNonNegative
  /\ BalanceMatchesLedger
  /\ RequestsInUse
  /\ ChecksAreLocked
  /\ PostedIsCovered

-----------------------------------------------------------------------------

\* No transaction is open and every sum is 0 at the start.
LEMMA InitInv == Init => IInv
  BY CreditsAssumption
  DEF Init, IInv, TypeOK, BalanceNonNegative, BalanceMatchesLedger,
      RequestsInUse, ChecksAreLocked, PostedIsCovered, PCs

\* BeginTx only makes the request of one connection.
LEMMA BeginTxInv ==
  ASSUME IInv, NEW c \in Conns, NEW o \in Orgs, NEW a \in Prices, BeginTx(c, o, a)
  PROVE  IInv'
  BY CreditsAssumption
  DEF BeginTx, tables, IInv, TypeOK, BalanceNonNegative, BalanceMatchesLedger,
      RequestsInUse, ChecksAreLocked, PostedIsCovered, Covers, PCs

\* SELECT ... FOR UPDATE returns the balance it locks, so the comparison starts current.
LEMMA LockBalanceInv ==
  ASSUME IInv, NEW c \in Conns, LockBalance(c)
  PROVE  IInv'
  BY CreditsAssumption
  DEF LockBalance, CanLock, tables, request, IInv, TypeOK, BalanceNonNegative,
      BalanceMatchesLedger, RequestsInUse, ChecksAreLocked, PostedIsCovered, Covers, PCs

\* A refused or failed Deduct changes nothing but where its transaction is.
LEMMA RefusalInv ==
  ASSUME IInv, NEW c \in Conns,
         MissingBalance(c) \/ InsufficientBalance(c) \/ DeductError(c)
  PROVE  IInv'
  BY CreditsAssumption
  DEF MissingBalance, InsufficientBalance, DeductError, tables, request, IInv, TypeOK,
      BalanceNonNegative, BalanceMatchesLedger, RequestsInUse, ChecksAreLocked,
      PostedIsCovered, Covers, PCs

\* The INSERT follows the comparison, under the same lock.
LEMMA InsertDebitInv ==
  ASSUME IInv, NEW c \in Conns, InsertDebit(c)
  PROVE  IInv'
  BY CreditsAssumption
  DEF InsertDebit, CanLock, tables, request, IInv, TypeOK, BalanceNonNegative,
      BalanceMatchesLedger, RequestsInUse, ChecksAreLocked, PostedIsCovered, Covers, PCs

\* Ending a transaction without its debit releases locks that nobody else relies on.
LEMMA AbandonInv ==
  ASSUME IInv, NEW c \in Conns, Rollback(c) \/ ConnectionLost(c)
  PROVE  IInv'
  BY CreditsAssumption
  DEF Rollback, ConnectionLost, EndTx, tables, IInv, TypeOK, BalanceNonNegative,
      BalanceMatchesLedger, RequestsInUse, ChecksAreLocked, PostedIsCovered, Covers, PCs

\* A commit subtracts an amount that was compared with the balance it is subtracted from.
LEMMA CommitInv ==
  ASSUME IInv, NEW c \in Conns, Commit(c)
  PROVE  IInv'
<1> DEFINE o == org[c]
<1>1. /\ o \in Orgs /\ amt[c] \in Nat \ {0}
      /\ lock[o] = c
      /\ amt[c] <= balance[o]
      /\ balance[o] \in 0..MaxInt /\ spent[o] \in Nat
  <2>1. pc[c] = "posted" /\ o \in Orgs /\ amt[c] \in Nat \ {0}
    BY CreditsAssumption DEF Commit, IInv, RequestsInUse
  <2>2. lock[o] = c /\ amt[c] <= balance[o]
    BY <2>1 DEF IInv, ChecksAreLocked, PostedIsCovered, Covers
  <2>3. balance[o] \in 0..MaxInt /\ spent[o] \in Nat
    BY <2>1, CreditsAssumption DEF IInv, TypeOK, BalanceNonNegative
  <2> QED
    BY <2>1, <2>2, <2>3
<1>2. TypeOK'
  BY <1>1, CreditsAssumption DEF Commit, EndTx, IInv, TypeOK, PCs
<1>3. BalanceNonNegative'
  BY <1>1 DEF Commit, IInv, TypeOK, BalanceNonNegative
<1>4. BalanceMatchesLedger'
  BY <1>1, CreditsAssumption DEF Commit, IInv, TypeOK, BalanceMatchesLedger
<1>5. RequestsInUse'
  BY DEF Commit, EndTx, IInv, TypeOK, RequestsInUse
<1>6. ChecksAreLocked'
  \* Another transaction that has checked a balance has locked another row.
  <2> SUFFICES ASSUME NEW d \in Conns, pc'[d] \in {"locked", "posted"}
               PROVE  lock'[org'[d]] = d /\ seen'[d] = balance'[org'[d]]
    BY DEF ChecksAreLocked
  <2>1. d # c /\ pc[d] \in {"locked", "posted"}
    BY DEF Commit, EndTx, IInv, TypeOK
  <2>2. org[d] \in Orgs /\ lock[org[d]] = d /\ seen[d] = balance[org[d]]
    BY <2>1 DEF IInv, RequestsInUse, ChecksAreLocked
  <2>3. org[d] # o
    BY <1>1, <2>1, <2>2
  <2> QED
    BY <1>1, <2>1, <2>2, <2>3 DEF Commit, EndTx, IInv, TypeOK
<1>7. PostedIsCovered'
  BY DEF Commit, EndTx, IInv, TypeOK, PostedIsCovered, Covers
<1> QED
  BY <1>2, <1>3, <1>4, <1>5, <1>6, <1>7 DEF IInv

\* A purchase waits for the row lock, so no comparison in progress is about its row.
LEMMA AddCreditsInv ==
  ASSUME IInv, NEW o \in Orgs, NEW a \in Purchases, AddCredits(o, a)
  PROVE  IInv'
  BY CreditsAssumption
  DEF AddCredits, UpsertBalance, request, IInv, TypeOK, BalanceNonNegative,
      BalanceMatchesLedger, RequestsInUse, ChecksAreLocked, PostedIsCovered, Covers, PCs

\* Every step keeps the inductive invariant: one case for each action.
LEMMA NextInv == IInv /\ [Next]_vars => IInv'
<1> SUFFICES ASSUME IInv, [Next]_vars
             PROVE  IInv'
  OBVIOUS
<1>1. ASSUME NEW c \in Conns, NEW o \in Orgs, NEW a \in Prices, BeginTx(c, o, a)
      PROVE  IInv'
  BY <1>1, BeginTxInv
<1>2. ASSUME NEW c \in Conns, Deduct(c)
      PROVE  IInv'
  BY <1>2, LockBalanceInv, RefusalInv, InsertDebitInv DEF Deduct
<1>3. ASSUME NEW c \in Conns, Commit(c)
      PROVE  IInv'
  BY <1>3, CommitInv
<1>4. ASSUME NEW c \in Conns, Rollback(c) \/ ConnectionLost(c)
      PROVE  IInv'
  BY <1>4, AbandonInv
<1>5. ASSUME NEW o \in Orgs, NEW a \in Purchases, AddCredits(o, a)
      PROVE  IInv'
  BY <1>5, AddCreditsInv
<1>6. CASE UNCHANGED vars
  BY <1>6
  DEF vars, IInv, TypeOK, BalanceNonNegative, BalanceMatchesLedger, RequestsInUse,
      ChecksAreLocked, PostedIsCovered, Covers
<1> QED
  BY <1>1, <1>2, <1>3, <1>4, <1>5, <1>6 DEF Next

\* The inductive invariant holds in every state of every behaviour.
LEMMA Invariance == Spec => []IInv
  BY InitInv, NextInv, PTL DEF Spec

-----------------------------------------------------------------------------

\* Every variable keeps its type; in particular the balance column never leaves the
\* range of its SQL type.
THEOREM TypeCorrect == Spec => []TypeOK
<1>1. IInv => TypeOK
  BY DEF IInv
<1> QED
  BY <1>1, Invariance, PTL

\* No number of concurrent charges overdraws an organisation.
THEOREM NoOverdraft == Spec => []BalanceNonNegative
<1>1. IInv => BalanceNonNegative
  BY DEF IInv
<1> QED
  BY <1>1, Invariance, PTL

\* The balance the trigger maintains is always the sum of the ledger.
THEOREM BalanceIsSumOfLedger == Spec => []BalanceMatchesLedger
<1>1. IInv => BalanceMatchesLedger
  BY DEF IInv
<1> QED
  BY <1>1, Invariance, PTL

\* The balance a charge was checked against is still the balance when it commits.
THEOREM ChecksStayCurrent == Spec => []CheckedBalanceIsCurrent
<1>1. IInv => CheckedBalanceIsCurrent
  BY DEF IInv, ChecksAreLocked, CheckedBalanceIsCurrent
<1> QED
  BY <1>1, Invariance, PTL

-----------------------------------------------------------------------------
(* Credits implements CreditLedger. *)

\* Initial states are initial states of the ledger.
LEMMA InitRefines == Init => Ledger!LedgerInit
  BY DEF Init, Ledger!LedgerInit

\* Commit is the debit and AddCredits the purchase; every other step stutters.
LEMMA StepRefines == IInv /\ [Next]_vars => [Ledger!LedgerNext]_(Ledger!ledgerVars)
<1> SUFFICES ASSUME IInv, [Next]_vars
             PROVE  Ledger!LedgerNext \/ UNCHANGED <<balance, spent>>
  BY DEF Ledger!ledgerVars
<1>1. ASSUME NEW c \in Conns, Commit(c)
      PROVE  Ledger!LedgerNext
  <2> DEFINE o == org[c]
  <2>1. o \in Orgs /\ amt[c] \in 1..MaxInt /\ amt[c] <= balance[o]
    <3>1. pc[c] = "posted" /\ o \in Orgs /\ amt[c] \in Nat \ {0}
      BY <1>1, CreditsAssumption DEF Commit, IInv, RequestsInUse
    <3>2. amt[c] <= balance[o]
      BY <3>1 DEF IInv, ChecksAreLocked, PostedIsCovered, Covers
    <3>3. balance[o] \in (-MaxInt)..MaxInt
      BY <3>1 DEF IInv, TypeOK
    <3> QED
      BY <3>1, <3>2, <3>3, CreditsAssumption
  <2>2. Ledger!Debit(o, amt[c])
    BY <1>1, <2>1 DEF Commit, Ledger!Debit
  <2> QED
    BY <2>1, <2>2 DEF Ledger!LedgerNext
<1>2. ASSUME NEW o \in Orgs, NEW a \in Purchases, AddCredits(o, a)
      PROVE  Ledger!LedgerNext
  <2>1. a \in 1..MaxInt
    BY <1>2, CreditsAssumption
    DEF AddCredits, UpsertBalance, IInv, TypeOK, BalanceNonNegative
  <2>2. Ledger!Purchase(o, a)
    BY <1>2 DEF AddCredits, UpsertBalance, Ledger!Purchase
  <2> QED
    BY <2>1, <2>2 DEF Ledger!LedgerNext
<1>3. ASSUME NEW c \in Conns, Deduct(c) \/ Rollback(c) \/ ConnectionLost(c)
      PROVE  UNCHANGED <<balance, spent>>
  BY <1>3
  DEF Deduct, LockBalance, MissingBalance, InsufficientBalance, InsertDebit,
      DeductError, Rollback, ConnectionLost, tables
<1>4. ASSUME NEW c \in Conns, NEW o \in Orgs, NEW a \in Prices, BeginTx(c, o, a)
      PROVE  UNCHANGED <<balance, spent>>
  BY <1>4 DEF BeginTx, tables
<1>5. CASE UNCHANGED vars
  BY <1>5 DEF vars
<1> QED
  BY <1>1, <1>2, <1>3, <1>4, <1>5 DEF Next

\* Transactions, row locks and the trigger implement the atomic ledger: a charge is
\* seen to happen in one step, entirely, and only when the balance covers it.
THEOREM ImplementsLedger == Spec => LedgerSpec
<1>1. Spec => []IInv
  BY Invariance
<1>2. Init => Ledger!LedgerInit
  BY InitRefines
<1>3. IInv /\ [Next]_vars => [Ledger!LedgerNext]_(Ledger!ledgerVars)
  BY StepRefines
<1> QED
  BY <1>1, <1>2, <1>3, PTL DEF Spec, LedgerSpec, Ledger!LedgerSpec
=============================================================================
