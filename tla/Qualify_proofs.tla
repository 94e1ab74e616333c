--------------------------- MODULE Qualify_proofs ---------------------------
(***************************************************************************)
(* Proofs about Qualify for any requests, organisations, prices, slots and *)
(* connections: the invariants that its runs check.                        *)
(***************************************************************************)
EXTENDS Qualify, FiniteSetTheorems, TLAPS

\* What the place of a request says of it.
Phases ==
  \A r \in Requests :
    /\ pc[r] \in {"cache", "company", "slot", "chat", "save"} => Kind[r] = "qualify"
    /\ pc[r] = "lookup" => Kind[r] = "consult"
    /\ pc[r] = "commit" /\ Kind[r] = "qualify" => r \in saved
    /\ r \in paid => pc[r] \in {"lookup", "ended"}
    /\ r \in saved => pc[r] \in {"commit", "ended"} /\ Kind[r] = "qualify"

\* Row locks belong to the open transactions that passed the SELECT ... FOR UPDATE.
LocksAreHeld ==
  /\ \A r \in Requests : pc[r] \in Locked => lock[OrgOf[r]] = r
  /\ \A o \in Orgs : lock[o] # None => pc[lock[o]] \in Locked

\* The balance that was compared is still enough, until the commit.
OpenIsCovered == \A r \in Requests : pc[r] \in Locked => balance[OrgOf[r]] >= Cost

\* Slots belong to qualifications between the semaphore and their end.
SlotsAreHeld ==
  \A r \in slots : pc[r] \in {"chat", "save", "commit"} /\ Kind[r] = "qualify"

\* Who began late finds an answer, and gets no further than that.
LateFindsAnswer ==
  \A r \in late : pc[r] \in {"cache", "ended"} /\ r \notin paid /\ Cached(r) # {}

Inv == TypeOK /\ Phases /\ LocksAreHeld /\ OpenIsCovered /\ SlotsAreHeld
       /\ LateFindsAnswer /\ RowsMatchDebits /\ ChargeHasAnswer

-----------------------------------------------------------------------------

\* Nothing is open, saved or paid at the start.
LEMMA InitInv == Init => Inv
  BY QualifyAssumption
  DEF Init, Inv, TypeOK, Phases, LocksAreHeld, OpenIsCovered, SlotsAreHeld, LateFindsAnswer,
      RowsMatchDebits, ChargeHasAnswer, Locked, InTx, Steps, Answers

\* A request that leaves its transaction frees its own lock and no other.
LEMMA UnlockHolds ==
  ASSUME Inv, NEW r \in Requests, Unlock(r), pc' = [pc EXCEPT ![r] = "ended"] \/ pc' = [pc EXCEPT ![r] = "lookup"]
  PROVE  LocksAreHeld' /\ lock' \in [Orgs -> Requests \cup {None}]
<1>1. lock' \in [Orgs -> Requests \cup {None}]
  BY DEF Inv, TypeOK, Unlock
<1>2. ASSUME NEW q \in Requests, pc'[q] \in Locked
      PROVE  lock'[OrgOf[q]] = q
  <2>1. q # r /\ pc[q] \in Locked
    BY <1>2 DEF Inv, TypeOK, Locked, InTx
  <2> QED
    BY <2>1, QualifyAssumption DEF Inv, LocksAreHeld, Unlock
<1>3. ASSUME NEW o \in Orgs, lock'[o] # None
      PROVE  pc'[lock'[o]] \in Locked
  <2>1. lock'[o] = lock[o] /\ lock[o] # None /\ lock[o] # r /\ lock[o] \in Requests
    BY <1>3 DEF Inv, TypeOK, Unlock
  <2> QED
    BY <2>1 DEF Inv, TypeOK, LocksAreHeld
<1> QED
  BY <1>1, <1>2, <1>3 DEF LocksAreHeld

\* A commit subtracts what its own lock has kept there; nobody else relies on that balance.
LEMMA PayIsCovered ==
  ASSUME Inv, NEW r \in Requests, At(r, "commit"), Pay(r),
         pc' = [pc EXCEPT ![r] = "ended"] \/ pc' = [pc EXCEPT ![r] = "lookup"]
  PROVE  OpenIsCovered' /\ balance' \in [Orgs -> Nat]
<1>1. OrgOf[r] \in Orgs /\ Cost \in Nat
  BY QualifyAssumption
<1>2. lock[OrgOf[r]] = r /\ balance[OrgOf[r]] >= Cost
  BY DEF Inv, LocksAreHeld, OpenIsCovered, At, Locked, InTx
<1>3. balance' \in [Orgs -> Nat]
  BY <1>1, <1>2 DEF Inv, TypeOK, Pay
<1>4. ASSUME NEW q \in Requests, pc'[q] \in Locked
      PROVE  balance'[OrgOf[q]] >= Cost
  <2>1. q # r /\ pc[q] \in Locked
    BY <1>4 DEF Inv, TypeOK, Locked, InTx
  <2>2. OrgOf[q] # OrgOf[r]
    BY <1>2, <2>1 DEF Inv, LocksAreHeld
  <2> QED
    BY <1>1, <2>1, <2>2, QualifyAssumption DEF Inv, TypeOK, OpenIsCovered, Pay
<1> QED
  BY <1>3, <1>4 DEF OpenIsCovered

\* A request starts; late are those that find an answer.
LEMMA StartInv ==
  ASSUME Inv, NEW r \in Requests, Start(r)
  PROVE  Inv'
<1>1. TypeOK'
  BY QualifyAssumption
  DEF Start, At, GoTo, dbVars, Cached, TypeOK, Steps, Answers, Inv
<1>2. Phases'
  BY QualifyAssumption
  DEF Start, At, GoTo, dbVars, Cached, TypeOK, Phases, Inv
<1>3. LocksAreHeld'
  BY QualifyAssumption
  DEF Start, At, GoTo, dbVars, Cached, TypeOK, LocksAreHeld, Phases, Locked, InTx, Inv
<1>4. OpenIsCovered'
  BY QualifyAssumption
  DEF Start, At, GoTo, dbVars, Cached, TypeOK, LocksAreHeld, OpenIsCovered, Locked, InTx, Inv
<1>5. SlotsAreHeld'
  BY QualifyAssumption
  DEF Start, At, GoTo, dbVars, Cached, TypeOK, Phases, SlotsAreHeld, Inv
<1>6. LateFindsAnswer'
  BY QualifyAssumption
  DEF Start, At, GoTo, dbVars, Cached, TypeOK, Phases, LateFindsAnswer, Inv
<1>7. RowsMatchDebits'
  BY QualifyAssumption
  DEF Start, At, GoTo, dbVars, Cached, TypeOK, Phases, RowsMatchDebits, Inv
<1>8. ChargeHasAnswer'
  BY QualifyAssumption
  DEF Start, At, GoTo, dbVars, Cached, TypeOK, Phases, ChargeHasAnswer, Inv
<1> QED
  BY <1>1, <1>2, <1>3, <1>4, <1>5, <1>6, <1>7, <1>8 DEF Inv

\* Who finds no other answer than the one that expires is not late any more.
LEMMA ExpireInv ==
  ASSUME Inv, NEW s \in Requests, Expire(s)
  PROVE  Inv'
<1>1. TypeOK'
  BY QualifyAssumption
  DEF Expire, Cached, TypeOK, Steps, Answers, Inv
<1>2. Phases'
  BY QualifyAssumption
  DEF Expire, Cached, TypeOK, Phases, Inv
<1>3. LocksAreHeld'
  BY QualifyAssumption
  DEF Expire, Cached, TypeOK, LocksAreHeld, Phases, Locked, InTx, Inv
<1>4. OpenIsCovered'
  BY QualifyAssumption
  DEF Expire, Cached, TypeOK, LocksAreHeld, OpenIsCovered, Locked, InTx, Inv
<1>5. SlotsAreHeld'
  BY QualifyAssumption
  DEF Expire, Cached, TypeOK, Phases, SlotsAreHeld, Inv
<1>6. LateFindsAnswer'
  BY QualifyAssumption
  DEF Expire, Cached, TypeOK, Phases, LateFindsAnswer, Inv
<1>7. RowsMatchDebits'
  BY QualifyAssumption
  DEF Expire, Cached, TypeOK, Phases, RowsMatchDebits, At, Inv
<1>8. ChargeHasAnswer'
  BY QualifyAssumption
  DEF Expire, Cached, TypeOK, Phases, ChargeHasAnswer, Inv
<1> QED
  BY <1>1, <1>2, <1>3, <1>4, <1>5, <1>6, <1>7, <1>8 DEF Inv

\* A late request finds an answer.
LEMMA FindRecentInv ==
  ASSUME Inv, NEW r \in Requests, FindRecent(r)
  PROVE  Inv'
<1>1. TypeOK'
  BY QualifyAssumption
  DEF FindRecent, At, GoTo, dbVars, Answer, Cached, TypeOK, Steps, Answers, Inv
<1>2. Phases'
  BY QualifyAssumption
  DEF FindRecent, At, GoTo, dbVars, Answer, Cached, TypeOK, Phases, Inv
<1>3. LocksAreHeld'
  BY QualifyAssumption
  DEF FindRecent, At, GoTo, dbVars, Answer, Cached, TypeOK, LocksAreHeld, Phases, Locked, InTx,
      Inv
<1>4. OpenIsCovered'
  BY QualifyAssumption
  DEF FindRecent, At, GoTo, dbVars, Answer, Cached, TypeOK, LocksAreHeld, OpenIsCovered, Locked,
      InTx, Inv
<1>5. SlotsAreHeld'
  BY QualifyAssumption
  DEF FindRecent, At, GoTo, dbVars, Answer, Cached, TypeOK, Phases, SlotsAreHeld, Inv
<1>6. LateFindsAnswer'
  BY QualifyAssumption
  DEF FindRecent, At, GoTo, dbVars, Answer, Cached, TypeOK, Phases, LateFindsAnswer, Inv
<1>7. RowsMatchDebits'
  BY QualifyAssumption
  DEF FindRecent, At, GoTo, dbVars, Answer, Cached, TypeOK, Phases, RowsMatchDebits, Inv
<1>8. ChargeHasAnswer'
  BY QualifyAssumption
  DEF FindRecent, At, GoTo, dbVars, Answer, Cached, TypeOK, Phases, ChargeHasAnswer, Inv
<1> QED
  BY <1>1, <1>2, <1>3, <1>4, <1>5, <1>6, <1>7, <1>8 DEF Inv

\* A request reads, or waits, and nobody else notices.
LEMMA ReadInv ==
  ASSUME Inv, NEW r \in Requests, GetCompanyPromptData(r) \/ BeginTx(r) \/ Complete(r) \/ RateLimited(r)
  PROVE  Inv'
<1>1. TypeOK'
  BY QualifyAssumption
  DEF GetCompanyPromptData, BeginTx, Complete, RateLimited, At, GoTo, dbVars, Answer, TypeOK,
      Steps, Answers, Inv
<1>2. Phases'
  BY QualifyAssumption
  DEF GetCompanyPromptData, BeginTx, Complete, RateLimited, At, GoTo, dbVars, Answer, TypeOK,
      Phases, Inv
<1>3. LocksAreHeld'
  BY QualifyAssumption
  DEF GetCompanyPromptData, BeginTx, Complete, RateLimited, At, GoTo, dbVars, Answer, TypeOK,
      LocksAreHeld, Phases, Locked, InTx, Inv
<1>4. OpenIsCovered'
  BY QualifyAssumption
  DEF GetCompanyPromptData, BeginTx, Complete, RateLimited, At, GoTo, dbVars, Answer, TypeOK,
      LocksAreHeld, OpenIsCovered, Locked, InTx, Inv
<1>5. SlotsAreHeld'
  BY QualifyAssumption
  DEF GetCompanyPromptData, BeginTx, Complete, RateLimited, At, GoTo, dbVars, Answer, TypeOK,
      Phases, SlotsAreHeld, Inv
<1>6. LateFindsAnswer'
  BY QualifyAssumption
  DEF GetCompanyPromptData, BeginTx, Complete, RateLimited, At, GoTo, dbVars, Answer, TypeOK,
      Phases, LateFindsAnswer, Cached, Inv
<1>7. RowsMatchDebits'
  BY QualifyAssumption
  DEF GetCompanyPromptData, BeginTx, Complete, RateLimited, At, GoTo, dbVars, Answer, TypeOK,
      Phases, RowsMatchDebits, Inv
<1>8. ChargeHasAnswer'
  BY QualifyAssumption
  DEF GetCompanyPromptData, BeginTx, Complete, RateLimited, At, GoTo, dbVars, Answer, TypeOK,
      Phases, ChargeHasAnswer, Inv
<1> QED
  BY <1>1, <1>2, <1>3, <1>4, <1>5, <1>6, <1>7, <1>8 DEF Inv

\* The debit of a consultation is answered when the company is there.
LEMMA GetByCNPJInv ==
  ASSUME Inv, NEW r \in Requests, GetByCNPJ(r)
  PROVE  Inv'
<1>1. TypeOK'
  BY QualifyAssumption
  DEF GetByCNPJ, At, GoTo, dbVars, Answer, TypeOK, Steps, Answers, Inv
<1>2. Phases'
  BY QualifyAssumption
  DEF GetByCNPJ, At, GoTo, dbVars, Answer, TypeOK, Phases, Inv
<1>3. LocksAreHeld'
  BY QualifyAssumption
  DEF GetByCNPJ, At, GoTo, dbVars, Answer, TypeOK, LocksAreHeld, Phases, Locked, InTx, Inv
<1>4. OpenIsCovered'
  BY QualifyAssumption
  DEF GetByCNPJ, At, GoTo, dbVars, Answer, TypeOK, LocksAreHeld, OpenIsCovered, Locked, InTx, Inv
<1>5. SlotsAreHeld'
  BY QualifyAssumption
  DEF GetByCNPJ, At, GoTo, dbVars, Answer, TypeOK, Phases, SlotsAreHeld, Inv
<1>6. LateFindsAnswer'
  BY QualifyAssumption
  DEF GetByCNPJ, At, GoTo, dbVars, Answer, TypeOK, Phases, LateFindsAnswer, Cached, Inv
<1>7. RowsMatchDebits'
  BY QualifyAssumption
  DEF GetByCNPJ, At, GoTo, dbVars, Answer, TypeOK, Phases, RowsMatchDebits, Inv
<1>8. ChargeHasAnswer'
  BY QualifyAssumption
  DEF GetByCNPJ, At, GoTo, dbVars, Answer, TypeOK, Phases, ChargeHasAnswer, Inv
<1> QED
  BY <1>1, <1>2, <1>3, <1>4, <1>5, <1>6, <1>7, <1>8 DEF Inv

\* The lock is free, and the balance is compared under it.
LEMMA LockBalanceInv ==
  ASSUME Inv, NEW r \in Requests, LockBalance(r)
  PROVE  Inv'
<1>1. TypeOK'
  BY QualifyAssumption
  DEF LockBalance, At, GoTo, Answer, TypeOK, Steps, Answers, Inv
<1>2. Phases'
  BY QualifyAssumption
  DEF LockBalance, At, GoTo, Answer, TypeOK, Phases, Inv
<1>3. LocksAreHeld'
  BY QualifyAssumption
  DEF LockBalance, At, GoTo, Answer, TypeOK, LocksAreHeld, Phases, Locked, InTx, Inv
<1>4. OpenIsCovered'
  BY QualifyAssumption
  DEF LockBalance, At, GoTo, Answer, TypeOK, LocksAreHeld, OpenIsCovered, Locked, InTx, Inv
<1>5. SlotsAreHeld'
  BY QualifyAssumption
  DEF LockBalance, At, GoTo, Answer, TypeOK, Phases, SlotsAreHeld, Inv
<1>6. LateFindsAnswer'
  BY QualifyAssumption
  DEF LockBalance, At, GoTo, Answer, TypeOK, Phases, LateFindsAnswer, Cached, Inv
<1>7. RowsMatchDebits'
  BY QualifyAssumption
  DEF LockBalance, At, GoTo, Answer, TypeOK, Phases, RowsMatchDebits, Inv
<1>8. ChargeHasAnswer'
  BY QualifyAssumption
  DEF LockBalance, At, GoTo, Answer, TypeOK, Phases, ChargeHasAnswer, Inv
<1> QED
  BY <1>1, <1>2, <1>3, <1>4, <1>5, <1>6, <1>7, <1>8 DEF Inv

\* A debit that is refused releases the lock.
LEMMA InsertDebitInv ==
  ASSUME Inv, NEW r \in Requests, InsertDebit(r)
  PROVE  Inv'
<1>1. TypeOK'
  BY QualifyAssumption
  DEF InsertDebit, At, GoTo, Answer, Unlock, TypeOK, Steps, Answers, Inv
<1>2. Phases'
  BY QualifyAssumption
  DEF InsertDebit, At, GoTo, Answer, Unlock, TypeOK, Phases, Inv
<1>3. LocksAreHeld'
  BY QualifyAssumption
  DEF InsertDebit, At, GoTo, Answer, Unlock, TypeOK, LocksAreHeld, Phases, Locked, InTx, Inv
<1>4. OpenIsCovered'
  BY QualifyAssumption
  DEF InsertDebit, At, GoTo, Answer, Unlock, TypeOK, LocksAreHeld, OpenIsCovered, Locked, InTx,
      Inv
<1>5. SlotsAreHeld'
  BY QualifyAssumption
  DEF InsertDebit, At, GoTo, Answer, Unlock, TypeOK, Phases, SlotsAreHeld, Inv
<1>6. LateFindsAnswer'
  BY QualifyAssumption
  DEF InsertDebit, At, GoTo, Answer, Unlock, TypeOK, Phases, LateFindsAnswer, Cached, Inv
<1>7. RowsMatchDebits'
  BY QualifyAssumption
  DEF InsertDebit, At, GoTo, Answer, Unlock, TypeOK, Phases, RowsMatchDebits, Inv
<1>8. ChargeHasAnswer'
  BY QualifyAssumption
  DEF InsertDebit, At, GoTo, Answer, Unlock, TypeOK, Phases, ChargeHasAnswer, Inv
<1> QED
  BY <1>1, <1>2, <1>3, <1>4, <1>5, <1>6, <1>7, <1>8 DEF Inv

\* A slot is taken by who goes on to the completion.
LEMMA AcquireSlotInv ==
  ASSUME Inv, NEW r \in Requests, AcquireSlot(r)
  PROVE  Inv'
<1>1. TypeOK'
  BY QualifyAssumption
  DEF AcquireSlot, At, dbVars, TypeOK, Steps, Answers, Inv
<1>2. Phases'
  BY QualifyAssumption
  DEF AcquireSlot, At, dbVars, TypeOK, Phases, Inv
<1>3. LocksAreHeld'
  BY QualifyAssumption
  DEF AcquireSlot, At, dbVars, TypeOK, LocksAreHeld, Phases, Locked, InTx, Inv
<1>4. OpenIsCovered'
  BY QualifyAssumption
  DEF AcquireSlot, At, dbVars, TypeOK, LocksAreHeld, OpenIsCovered, Locked, InTx, Inv
<1>5. SlotsAreHeld'
  BY QualifyAssumption
  DEF AcquireSlot, At, dbVars, TypeOK, Phases, SlotsAreHeld, Inv
<1>6. LateFindsAnswer'
  BY QualifyAssumption
  DEF AcquireSlot, At, dbVars, TypeOK, Phases, LateFindsAnswer, Cached, Inv
<1>7. RowsMatchDebits'
  BY QualifyAssumption
  DEF AcquireSlot, At, dbVars, TypeOK, Phases, RowsMatchDebits, Inv
<1>8. ChargeHasAnswer'
  BY QualifyAssumption
  DEF AcquireSlot, At, dbVars, TypeOK, Phases, ChargeHasAnswer, Inv
<1> QED
  BY <1>1, <1>2, <1>3, <1>4, <1>5, <1>6, <1>7, <1>8 DEF Inv

\* Without an answer nothing is paid.
LEMMA IncompleteInv ==
  ASSUME Inv, NEW r \in Requests, Incomplete(r)
  PROVE  Inv'
<1>1. TypeOK'
  BY QualifyAssumption
  DEF Incomplete, At, Answer, Rollback, Unlock, TypeOK, Steps, Answers, Inv
<1>2. Phases'
  BY QualifyAssumption
  DEF Incomplete, At, Answer, Rollback, Unlock, TypeOK, Phases, Inv
<1>3. LocksAreHeld'
  BY UnlockHolds DEF Incomplete, Answer, Rollback
<1>4. OpenIsCovered'
  BY QualifyAssumption
  DEF Incomplete, At, Answer, Rollback, Unlock, TypeOK, LocksAreHeld, OpenIsCovered, Locked,
      InTx, Inv
<1>5. SlotsAreHeld'
  BY QualifyAssumption
  DEF Incomplete, At, Answer, Rollback, Unlock, TypeOK, Phases, SlotsAreHeld, Inv
<1>6. LateFindsAnswer'
  BY QualifyAssumption
  DEF Incomplete, At, Answer, Rollback, Unlock, TypeOK, Phases, LateFindsAnswer, Cached, Inv
<1>7. RowsMatchDebits'
  BY QualifyAssumption
  DEF Incomplete, At, Answer, Rollback, Unlock, TypeOK, Phases, RowsMatchDebits, Inv
<1>8. ChargeHasAnswer'
  BY QualifyAssumption
  DEF Incomplete, At, Answer, Rollback, Unlock, TypeOK, Phases, ChargeHasAnswer, Inv
<1> QED
  BY <1>1, <1>2, <1>3, <1>4, <1>5, <1>6, <1>7, <1>8 DEF Inv

\* The row is saved before the commit.
LEMMA SaveInv ==
  ASSUME Inv, NEW r \in Requests, Save(r)
  PROVE  Inv'
<1>1. TypeOK'
  BY QualifyAssumption
  DEF Save, At, GoTo, TypeOK, Steps, Answers, Inv
<1>2. Phases'
  BY QualifyAssumption
  DEF Save, At, GoTo, TypeOK, Phases, Inv
<1>3. LocksAreHeld'
  BY QualifyAssumption
  DEF Save, At, GoTo, TypeOK, LocksAreHeld, Phases, Locked, InTx, Inv
<1>4. OpenIsCovered'
  BY QualifyAssumption
  DEF Save, At, GoTo, TypeOK, LocksAreHeld, OpenIsCovered, Locked, InTx, Inv
<1>5. SlotsAreHeld'
  BY QualifyAssumption
  DEF Save, At, GoTo, TypeOK, Phases, SlotsAreHeld, Inv
<1>6. LateFindsAnswer'
  BY QualifyAssumption
  DEF Save, At, GoTo, TypeOK, Phases, LateFindsAnswer, Cached, Inv
<1>7. RowsMatchDebits'
  BY QualifyAssumption
  DEF Save, At, GoTo, TypeOK, Phases, RowsMatchDebits, Inv
<1>8. ChargeHasAnswer'
  BY QualifyAssumption
  DEF Save, At, GoTo, TypeOK, Phases, ChargeHasAnswer, Inv
<1> QED
  BY <1>1, <1>2, <1>3, <1>4, <1>5, <1>6, <1>7, <1>8 DEF Inv

\* No other open transaction has the balance of this one locked.
LEMMA CommitInv ==
  ASSUME Inv, NEW r \in Requests, Commit(r)
  PROVE  Inv'
<1>1. TypeOK'
  <2>1. lock' \in [Orgs -> Requests \cup {None}]
    BY UnlockHolds DEF Commit, Answer, GoTo, Pay
  <2>2. balance' \in [Orgs -> Nat]
    BY PayIsCovered DEF Commit, Answer, GoTo
  <2> QED
    BY <2>1, <2>2 DEF Commit, Answer, GoTo, Pay, Inv, TypeOK, Steps, Answers
<1>2. Phases'
  BY QualifyAssumption
  DEF Commit, At, GoTo, Answer, Pay, Unlock, TypeOK, Phases, Inv
<1>3. LocksAreHeld'
  BY UnlockHolds DEF Commit, Answer, GoTo, Pay
<1>4. OpenIsCovered'
  BY PayIsCovered DEF Commit, Answer, GoTo
<1>5. SlotsAreHeld'
  BY QualifyAssumption
  DEF Commit, At, GoTo, Answer, Pay, Unlock, TypeOK, Phases, SlotsAreHeld, Inv
<1>6. LateFindsAnswer'
  BY QualifyAssumption
  DEF Commit, At, GoTo, Answer, Pay, Unlock, TypeOK, Phases, LateFindsAnswer, Cached, Inv
<1>7. RowsMatchDebits'
  BY QualifyAssumption
  DEF Commit, At, GoTo, Answer, Pay, Unlock, TypeOK, Phases, RowsMatchDebits, Inv
<1>8. ChargeHasAnswer'
  BY QualifyAssumption
  DEF Commit, At, GoTo, Answer, Pay, Unlock, TypeOK, Phases, ChargeHasAnswer, Inv
<1> QED
  BY <1>1, <1>2, <1>3, <1>4, <1>5, <1>6, <1>7, <1>8 DEF Inv

\* A failed call rolls back, or is a commit or a save that took effect.
LEMMA CallFailsInv ==
  ASSUME Inv, NEW r \in Requests, CallFails(r)
  PROVE  Inv'
<1>1. TypeOK'
  <2>1. lock' \in [Orgs -> Requests \cup {None}]
    BY UnlockHolds DEF CallFails, Answer, Pay, Rollback
  <2>2. balance' \in [Orgs -> Nat] /\ paid' \in SUBSET Requests
    BY PayIsCovered DEF CallFails, Answer, Rollback, Pay, Inv, TypeOK
  <2> QED
    BY <2>1, <2>2 DEF CallFails, Answer, Inv, TypeOK, Steps, Answers
<1>2. Phases'
  BY QualifyAssumption
  DEF CallFails, At, Answer, Pay, Rollback, Unlock, TypeOK, Phases, Inv
<1>3. LocksAreHeld'
  BY UnlockHolds DEF CallFails, Answer, Pay, Rollback
<1>4. OpenIsCovered'
  <2>1. CASE Rollback(r)
    BY <2>1 DEF CallFails, Answer, Rollback, Inv, TypeOK, OpenIsCovered, Locked, InTx
  <2>2. CASE At(r, "commit") /\ Pay(r)
    BY <2>2, PayIsCovered DEF CallFails, Answer
  <2> QED
    BY <2>1, <2>2 DEF CallFails
<1>5. SlotsAreHeld'
  BY QualifyAssumption
  DEF CallFails, At, Answer, Pay, Rollback, Unlock, TypeOK, Phases, SlotsAreHeld, Inv
<1>6. LateFindsAnswer'
  BY QualifyAssumption
  DEF CallFails, At, Answer, Pay, Rollback, Unlock, TypeOK, Phases, LateFindsAnswer, Cached, Inv
<1>7. RowsMatchDebits'
  BY QualifyAssumption
  DEF CallFails, At, Answer, Pay, Rollback, Unlock, TypeOK, Phases, RowsMatchDebits, Inv
<1>8. ChargeHasAnswer'
  BY QualifyAssumption
  DEF CallFails, At, Answer, Pay, Rollback, Unlock, TypeOK, Phases, ChargeHasAnswer, Inv
<1> QED
  BY <1>1, <1>2, <1>3, <1>4, <1>5, <1>6, <1>7, <1>8 DEF Inv

-----------------------------------------------------------------------------

\* Every step of any request, of the clock, or none.
LEMMA StepInv == Inv /\ [Next]_vars => Inv'
<1> SUFFICES ASSUME Inv, [Next]_vars
             PROVE  Inv'
  OBVIOUS
<1>1. CASE UNCHANGED vars
  BY <1>1 DEF vars, dbVars, Inv, TypeOK, Phases, LocksAreHeld, OpenIsCovered, SlotsAreHeld,
              LateFindsAnswer, RowsMatchDebits, ChargeHasAnswer, Cached, At
<1>2. ASSUME NEW r \in Requests, Start(r) \/ Expire(r) \/ Handle(r) \/ CallFails(r)
      PROVE  Inv'
  BY <1>2, StartInv, ExpireInv, FindRecentInv, ReadInv, GetByCNPJInv, LockBalanceInv,
     InsertDebitInv, AcquireSlotInv, IncompleteInv, SaveInv, CommitInv, CallFailsInv
  DEF Handle
<1> QED
  BY <1>1, <1>2 DEF Next

\* Requests that wait although a connection is free wait for each other's row lock or slot,
\* and that chain ends: who has a slot waits for a connection only.
LEMMA ChainOfWaits == Inv => StuckOnlyWhenPoolIsHeld
<1> SUFFICES ASSUME Inv,
                    NEW r \in Requests, pc[r] \in Steps,
                    \A q \in Requests : pc[q] \in Steps => Waiting(q),
                    ConnFree
             PROVE  FALSE
  BY DEF StuckOnlyWhenPoolIsHeld
<1>1. \A q \in Requests : pc[q] \in Steps =>
        \/ At(q, "lock") /\ lock[OrgOf[q]] # None
        \/ At(q, "slot") /\ Cardinality(slots) >= Slots
  BY DEF Waiting
<1>2. slots = {}
  BY <1>1 DEF Inv, TypeOK, SlotsAreHeld, Steps, At
<1>3. \A q \in Requests : pc[q] \in Steps => At(q, "lock") /\ lock[OrgOf[q]] # None
  BY <1>1, <1>2, FS_EmptySet, QualifyAssumption
<1>4. LET h == lock[OrgOf[r]]
      IN  h \in Requests /\ pc[h] \in Locked
  BY <1>3, QualifyAssumption DEF Inv, TypeOK, LocksAreHeld
<1> QED
  BY <1>3, <1>4 DEF Locked, InTx, Steps, At

-----------------------------------------------------------------------------

\* The inductive invariant holds in every state.
LEMMA Invariant == Spec => []Inv
  BY InitInv, StepInv, PTL DEF Spec

\* Types; no charge overdraws a balance, although it is compared long before it is committed.
THEOREM TypeCorrect == Spec => []TypeOK
  BY Invariant, PTL DEF Inv

\* The row and the debit of a qualification go together (ia.Service.Qualify).
THEOREM SavedWithItsDebit == Spec => []RowsMatchDebits
  BY Invariant, PTL DEF Inv

\* A debit without an answer comes from a failed call or a company that is not there.
THEOREM ChargesAreAnswered == Spec => []ChargeHasAnswer
  BY Invariant, PTL DEF Inv

\* A request that begins when a recent answer is saved does not pay.
THEOREM CacheIsFree == Spec => []LateRequestsAreFree
<1>1. Inv => LateRequestsAreFree
  BY DEF Inv, LateFindsAnswer, LateRequestsAreFree
<1> QED
  BY <1>1, Invariant, PTL

\* Requests that all wait for each other hold the whole pool.
THEOREM OnlyThePoolDeadlocks == Spec => []StuckOnlyWhenPoolIsHeld
  BY ChainOfWaits, Invariant, PTL

=============================================================================
