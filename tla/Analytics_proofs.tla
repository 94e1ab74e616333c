-------------------------- MODULE Analytics_proofs --------------------------
(***************************************************************************)
(* Proofs about Analytics and Reports for any rows, runs and sizes of a    *)
(* batch.  What the queries show is a matter of sums alone: it rests on    *)
(* FiniteSums, and of the states only on which rows there are.             *)
(***************************************************************************)
EXTENDS Analytics, FiniteSums

\* The rows of a batch are locked: nobody else has them, they are not marked, and a search
\* among them is done and stays done.
BatchesAreLocked ==
  /\ eligible \in [Runs -> SUBSET Rows]
  /\ \A r \in Runs : batch[r] \cap marked = {}
  /\ \A r, q \in Runs : r # q => batch[r] \cap batch[q] = {}
  /\ \A r \in Runs : \A s \in Searches \cap batch[r] : status[s] = "done"

\* A search that is not new has run, and one that ran only once and is marked is done.
MarkedWereDone ==
  /\ \A s \in Searches : status[s] # "none" => runsOf[s] >= 1
  /\ \A s \in Searches \cap marked : runsOf[s] >= 1 /\ (runsOf[s] = 1 => status[s] = "done")

\* A batch takes, and the ETL marks, only transactions that are committed.
OnlyPosted ==
  /\ marked \cap Txs \subseteq posted
  /\ \A r \in Runs : batch[r] \cap Txs \subseteq posted

Inv == TypeOK /\ BatchesAreLocked /\ MarkedWereDone /\ OnlyPosted /\ CountedOnce

-----------------------------------------------------------------------------
(* The tables of the other components *)

\* What is posted is only ever added to.
LEMMA PostTransactionKeeps ==
  ASSUME Inv, NEW t \in Txs, PostTransaction(t)
  PROVE  Inv'
  BY DEF PostTransaction, factVars, Inv, TypeOK, BatchesAreLocked, MarkedWereDone, OnlyPosted,
     CountedOnce

\* The dimension lags behind the organisations.
LEMMA CreateOrgKeeps ==
  ASSUME Inv, NEW o \in Orgs, CreateOrg(o)
  PROVE  Inv'
  BY DEF CreateOrg, factVars, Inv, TypeOK, BatchesAreLocked, MarkedWereDone, OnlyPosted,
     CountedOnce

\* A search that runs again has run twice: its fact may be older than its result.
LEMMA SearchRunsKeeps ==
  ASSUME Inv, NEW s \in Searches, SearchRuns(s)
  PROVE  Inv'
<1>1. /\ status' = [status EXCEPT ![s] = "running"] /\ runsOf' = [runsOf EXCEPT ![s] = @ + 1]
      /\ UNCHANGED <<orgs, posted, result, marked, dimOrgs, facts, leads, pc, batch, eligible,
                     faults>>
      /\ s \notin LockedRows /\ runsOf[s] < MaxRuns /\ status[s] # "running"
  BY DEF SearchRuns, factVars
<1>2. runsOf[s] \in 0..MaxRuns /\ MaxRuns \in Nat
  BY AnalyticsAssumption DEF Inv, TypeOK
<1>3. TypeOK'
  BY <1>1, <1>2 DEF Inv, TypeOK
<1>4. BatchesAreLocked'
  BY <1>1 DEF Inv, TypeOK, BatchesAreLocked, LockedRows
<1>5. MarkedWereDone'
  BY <1>1, <1>2 DEF Inv, TypeOK, MarkedWereDone
<1>6. OnlyPosted' /\ CountedOnce'
  BY <1>1, <1>2 DEF Inv, TypeOK, MarkedWereDone, OnlyPosted, CountedOnce
<1> QED
  BY <1>3, <1>4, <1>5, <1>6 DEF Inv

\* A search that is marked and ends again has run twice.
LEMMA SearchDoneKeeps ==
  ASSUME Inv, NEW s \in Searches, SearchDone(s)
  PROVE  Inv'
<1>1. /\ status' = [status EXCEPT ![s] = "done"]
      /\ UNCHANGED <<orgs, posted, runsOf, marked, dimOrgs, facts, leads, pc, batch, eligible,
                     faults>>
      /\ s \notin LockedRows /\ status[s] = "running"
  BY DEF SearchDone, factVars
<1>2. PICK n \in 0..MaxCount : result' = [result EXCEPT ![s] = n]
  BY DEF SearchDone
<1>3. TypeOK'
  BY <1>1, <1>2 DEF Inv, TypeOK
<1>4. BatchesAreLocked'
  BY <1>1 DEF Inv, TypeOK, BatchesAreLocked, LockedRows
<1>5. MarkedWereDone'
  BY <1>1, <1>2 DEF Inv, TypeOK, MarkedWereDone
<1>6. OnlyPosted' /\ CountedOnce'
  BY <1>1, <1>2 DEF Inv, TypeOK, MarkedWereDone, OnlyPosted, CountedOnce
<1> QED
  BY <1>3, <1>4, <1>5, <1>6 DEF Inv

-----------------------------------------------------------------------------
(* RunETL *)

\* A run that begins holds no row.
LEMMA BeginKeeps ==
  ASSUME Inv, NEW r \in Runs, Begin(r)
  PROVE  Inv'
  BY DEF Begin, sourceVars, factVars, Inv, TypeOK, BatchesAreLocked, MarkedWereDone, OnlyPosted,
     CountedOnce

\* The dimension has only organisations that there are.
LEMMA SyncDimsKeeps ==
  ASSUME Inv, NEW r \in Runs, SyncDims(r)
  PROVE  Inv'
  BY DEF SyncDims, sourceVars, Inv, TypeOK, BatchesAreLocked, MarkedWereDone, OnlyPosted,
     CountedOnce

\* Nothing is locked or marked.
LEMMA EmptyBatchKeeps ==
  ASSUME Inv, NEW r \in Runs, EmptyBatch(r)
  PROVE  Inv'
  BY DEF EmptyBatch, NextTable, sourceVars, factVars, Inv, TypeOK, BatchesAreLocked,
     MarkedWereDone,
         OnlyPosted, CountedOnce

\* A batch is of rows that nobody has locked or marked.
LEMMA StartBatchKeeps ==
  ASSUME Inv, NEW r \in Runs, StartBatch(r)
  PROVE  Inv'
<1>1. PICK b \in Batches(r) :
        /\ batch' = [batch EXCEPT ![r] = b]
        /\ eligible' = [eligible EXCEPT ![r] = {x \in b : OrgOf[x] \in dimOrgs}]
  BY DEF StartBatch
<1>2. /\ b \subseteq Rows /\ b \cap marked = {} /\ b \cap LockedRows = {}
      /\ \A s \in Searches \cap b : status[s] = "done"
      /\ b \cap Txs \subseteq posted
  <2>1. b \subseteq Unmarked(r) \ LockedRows
    BY DEF Batches, kSubset, Lockable
  <2>2. Unmarked(r) \subseteq Rows \ marked
    BY DEF Unmarked, Inv, TypeOK, Rows
  <2>3. \A s \in Searches \cap Unmarked(r) : status[s] = "done"
    BY ReportsAssumption DEF Unmarked, Inv, TypeOK
  <2>4. Unmarked(r) \cap Txs \subseteq posted
    BY ReportsAssumption DEF Unmarked
  <2> QED
    BY <2>1, <2>2, <2>3, <2>4
<1>3. UNCHANGED <<orgs, posted, status, result, runsOf, marked, dimOrgs, facts, leads, pc, faults>>
  BY DEF StartBatch, sourceVars, factVars
<1>4. TypeOK' /\ eligible' \in [Runs -> SUBSET Rows]
  BY <1>1, <1>2, <1>3 DEF Inv, TypeOK, BatchesAreLocked
<1>5. BatchesAreLocked'
  <2>1. \A q \in Runs : batch[q] \subseteq LockedRows
    BY DEF LockedRows
  <2>2. batch'[r] = b /\ \A q \in Runs : q # r => batch'[q] = batch[q]
    BY <1>1 DEF Inv, TypeOK
  <2>3. \A q \in Runs : batch'[q] \cap marked = {}
    BY <1>2, <2>2 DEF Inv, BatchesAreLocked
  <2>4. \A q, s \in Runs : q # s => batch'[q] \cap batch'[s] = {}
    BY <1>2, <2>1, <2>2 DEF Inv, BatchesAreLocked
  <2>5. \A q \in Runs : \A s \in Searches \cap batch'[q] : status[s] = "done"
    BY <1>2, <2>2 DEF Inv, BatchesAreLocked
  <2> QED
    BY <1>3, <1>4, <2>3, <2>4, <2>5 DEF BatchesAreLocked
<1>6. MarkedWereDone' /\ CountedOnce'
  BY <1>3 DEF Inv, MarkedWereDone, CountedOnce
<1>7. OnlyPosted'
  BY <1>1, <1>2, <1>3 DEF Inv, TypeOK, OnlyPosted
<1> QED
  BY <1>4, <1>5, <1>6, <1>7 DEF Inv

\* What is counted was not marked, and is now; no other run has it in its batch.
LEMMA CommitBatchKeeps ==
  ASSUME Inv, NEW r \in Runs, CommitBatch(r)
  PROVE  Inv'
<1>1. /\ marked' = marked \cup eligible[r]
      /\ facts' = [x \in Rows |-> facts[x] + (IF x \in eligible[r] THEN 1 ELSE 0)]
      /\ leads' = [s \in Searches |-> IF s \in eligible[r] THEN result[s] ELSE leads[s]]
      /\ batch' = [batch EXCEPT ![r] = {}]
      /\ eligible' = [eligible EXCEPT ![r] = {}]
      /\ UNCHANGED <<orgs, posted, status, result, runsOf, dimOrgs, faults>>
  BY DEF CommitBatch, sourceVars
<1>2. pc' \in [Runs -> {"idle", "sync", "credits", "searches"}]
  BY DEF CommitBatch, NextTable, Inv, TypeOK
<1>3. /\ eligible[r] \subseteq batch[r] /\ eligible[r] \subseteq Rows
      /\ eligible[r] \cap marked = {}
      /\ \A q \in Runs : q # r => batch[q] \cap eligible[r] = {}
      /\ \A s \in Searches \cap eligible[r] : status[s] = "done"
  BY DEF Inv, TypeOK, BatchesAreLocked
<1>4. TypeOK'
  <2>1. facts' \in [Rows -> Nat]
    BY <1>1 DEF Inv, TypeOK
  <2>2. leads' \in [Searches -> 0..MaxCount]
    BY <1>1 DEF Inv, TypeOK
  <2>3. \A q \in Runs : eligible'[q] \subseteq batch'[q]
    BY <1>1 DEF Inv, TypeOK, BatchesAreLocked
  <2>4. marked' \in SUBSET Rows /\ batch' \in [Runs -> SUBSET Rows]
    BY <1>1, <1>3 DEF Inv, TypeOK
  <2> QED
    BY <1>1, <1>2, <2>1, <2>2, <2>3, <2>4 DEF Inv, TypeOK
<1>5. BatchesAreLocked'
  BY <1>1, <1>3 DEF Inv, TypeOK, BatchesAreLocked
<1>6. MarkedWereDone'
  BY <1>1, <1>3 DEF Inv, MarkedWereDone
<1>7. OnlyPosted'
  BY <1>1, <1>3 DEF Inv, TypeOK, OnlyPosted
<1>8. CountedOnce'
  BY <1>1, <1>3 DEF Inv, TypeOK, CountedOnce
<1> QED
  BY <1>4, <1>5, <1>6, <1>7, <1>8 DEF Inv

\* What was locked is free again, and nothing of it is marked.
LEMMA RunFailsKeeps ==
  ASSUME Inv, NEW r \in Runs, RunFails(r)
  PROVE  Inv'
<1>1. /\ batch' = [batch EXCEPT ![r] = {}] /\ eligible' = [eligible EXCEPT ![r] = {}]
      /\ pc' = [pc EXCEPT ![r] = "idle"] /\ faults < MaxFaults /\ faults' = faults + 1
      /\ UNCHANGED <<orgs, posted, status, result, runsOf, marked, dimOrgs, facts, leads>>
  BY DEF RunFails, sourceVars, factVars
<1>2. TypeOK'
  BY <1>1, AnalyticsAssumption DEF Inv, TypeOK, BatchesAreLocked
<1>3. BatchesAreLocked' /\ MarkedWereDone' /\ OnlyPosted' /\ CountedOnce'
  BY <1>1 DEF Inv, TypeOK, BatchesAreLocked, MarkedWereDone, OnlyPosted, CountedOnce
<1> QED
  BY <1>2, <1>3 DEF Inv

-----------------------------------------------------------------------------

\* Nothing is posted, searched or counted at the start.
LEMMA InitInv == Init => Inv
  BY AnalyticsAssumption DEF Init, Rows, Inv, TypeOK, BatchesAreLocked, MarkedWereDone,
     OnlyPosted, CountedOnce

\* One lemma above for each action.
LEMMA StepInv == Inv /\ [Next]_vars => Inv'
<1> SUFFICES ASSUME Inv, [Next]_vars
             PROVE  Inv'
  OBVIOUS
<1>1. CASE \E o \in Orgs : CreateOrg(o)
  BY <1>1, CreateOrgKeeps
<1>2. CASE \E t \in Txs : PostTransaction(t)
  BY <1>2, PostTransactionKeeps
<1>3. CASE \E s \in Searches : SearchRuns(s) \/ SearchDone(s)
  BY <1>3, SearchRunsKeeps, SearchDoneKeeps
<1>4. CASE \E r \in Runs : Begin(r) \/ Run(r) \/ RunFails(r)
  BY <1>4, BeginKeeps, SyncDimsKeeps, StartBatchKeeps, EmptyBatchKeeps, CommitBatchKeeps,
     RunFailsKeeps DEF Run
<1>5. CASE UNCHANGED vars
  BY <1>5 DEF vars, sourceVars, factVars, Inv, TypeOK, BatchesAreLocked, MarkedWereDone,
     OnlyPosted, CountedOnce
<1> QED
  BY <1>1, <1>2, <1>3, <1>4, <1>5 DEF Next

\* So the invariant holds always.
LEMMA Invariant == Spec => []Inv
<1>1. Init => Inv
  BY InitInv
<1>2. Inv /\ [Next]_vars => Inv'
  BY StepInv
<1> QED
  BY <1>1, <1>2, PTL DEF Spec

\* Marks, facts and batches are of rows that there are; what a run may insert is in its batch.
THEOREM TypeCorrect == Spec => []TypeOK
<1>1. Inv => TypeOK
  BY DEF Inv
<1> QED
  BY <1>1, Invariant, PTL

\* However many runs overlap and wherever they fail, a transaction or a search is counted when
\* it is marked, and once, and a search that ran once with its own result.
THEOREM RowsAreCountedOnce == Spec => []CountedOnce
<1>1. Inv => CountedOnce
  BY DEF Inv
<1> QED
  BY <1>1, Invariant, PTL

-----------------------------------------------------------------------------
(* The dashboards *)

\* The rows of an organisation in a period.
RowsOf(o, from, to) == {t \in Txs : OrgOf[t] = o /\ Day[t] \in from..to}

\* The two cards of the dashboard.
In(o, f, from, to) == Kpi(o, f, TRUE, from, to)
Out(o, f, from, to) == Kpi(o, f, FALSE, from, to)

\* The transactions M are those that are counted, once.
Counts(f, M) == \A t \in Txs : f[t] = IF t \in M THEN 1 ELSE 0

\* The cards "Entradas" and "Saidas" together show the net amount of what is counted.
LEMMA KpisAreNet ==
  ASSUME NEW o, NEW from, NEW to, NEW f, NEW M, Counts(f, M)
  PROVE  /\ In(o, f, from, to) \in Int /\ Out(o, f, from, to) \in Int
         /\ In(o, f, from, to) - Out(o, f, from, to)
              = SumFunctionOnSet(Amount, RowsOf(o, from, to) \cap M)
<1> DEFINE c == Credits(f)
           h == [t \in Txs |-> IF t \in M THEN Amount[t] ELSE 0]
           P == RowsOf(o, from, to)
           E == {t \in P : Amount[t] > 0}
           X == P \ E
<1>1. /\ In(o, f, from, to) = SumFunctionOnSet(c, E)
      /\ Out(o, f, from, to) = SumFunctionOnSet(c, X)
  <2>1. {t \in Txs : OrgOf[t] = o /\ (Entry(t) <=> TRUE) /\ Day[t] \in from..to} = E
    BY DEF Entry, RowsOf
  <2>2. {t \in Txs : OrgOf[t] = o /\ (Entry(t) <=> FALSE) /\ Day[t] \in from..to} = X
    BY DEF Entry, RowsOf
  <2> QED
    BY <2>1, <2>2 DEF In, Out, Kpi
<1>2. /\ P \subseteq Txs /\ IsFiniteSet(P) /\ IsFiniteSet(E) /\ IsFiniteSet(X)
      /\ IsFiniteSet(P \cap M) /\ IsFiniteSet(P \ M)
  BY ReportsAssumption, FS_Subset DEF RowsOf
<1>3. \A t \in Txs : Amount[t] \in Int /\ h[t] \in Int /\ c[t] \in Int
  BY ReportsAssumption DEF Counts, Credits, Size
<1>4. \A t \in E : c[t] = h[t]
  BY <1>2, <1>3 DEF Counts, Credits, Size
<1>5. \A t \in X : c[t] = -h[t]
  BY <1>2, <1>3 DEF Counts, Credits, Size
<1>6. \A t \in P \cap M : h[t] = Amount[t]
  BY <1>2
<1>7. \A t \in P \ M : h[t] = 0
  BY <1>2
<1>8. E \subseteq P /\ X = P \ E /\ P \ (P \cap M) = P \ M
  OBVIOUS
<1> HIDE DEF c, h, P, E, X
<1>9. SumFunctionOnSet(c, E) = SumFunctionOnSet(h, E)
  BY <1>2, <1>3, <1>4, <1>8, SumEqual
<1>10. SumFunctionOnSet(c, X) = -SumFunctionOnSet(h, X)
  BY <1>2, <1>3, <1>5, <1>8, SumNegative
<1>11. SumFunctionOnSet(h, P) = SumFunctionOnSet(h, E) + SumFunctionOnSet(h, X)
  BY <1>2, <1>3, <1>8, SumSplit
<1>12. SumFunctionOnSet(h, P) = SumFunctionOnSet(h, P \cap M) + SumFunctionOnSet(h, P \ M)
  <2>1. P \cap M \in SUBSET P /\ \A t \in P : h[t] \in Int
    BY <1>2, <1>3
  <2> QED
    BY <1>2, <1>8, <2>1, SumSplit
<1>13. SumFunctionOnSet(h, P \cap M) = SumFunctionOnSet(Amount, P \cap M)
  BY <1>2, <1>3, <1>6, SumEqual
<1>14. SumFunctionOnSet(h, P \ M) = 0
  BY <1>2, <1>7, SumZero
<1>15. /\ SumFunctionOnSet(h, E) \in Int /\ SumFunctionOnSet(h, X) \in Int
       /\ SumFunctionOnSet(h, P \cap M) \in Int
  BY <1>2, <1>3, <1>8, SumRemove
<1> DEFINE e == SumFunctionOnSet(h, E)
           x == SumFunctionOnSet(h, X)
           m == SumFunctionOnSet(h, P \cap M)
<1>16. /\ In(o, f, from, to) = e /\ Out(o, f, from, to) = -x
       /\ e \in Int /\ x \in Int /\ m \in Int
       /\ e + x = m + 0
  BY <1>1, <1>9, <1>10, <1>11, <1>12, <1>14, <1>15
<1>17. SumFunctionOnSet(Amount, RowsOf(o, from, to) \cap M) = m
  BY <1>13 DEF P
<1> HIDE DEF e, x, m
<1> QED
  BY <1>16, <1>17

\* The days of a period make up its total.
LEMMA DaysMakeThePeriod ==
  ASSUME NEW o, NEW from \in Int, NEW to \in Int, NEW f, \A t \in Txs : f[t] \in Int
  PROVE  SumFunctionOnSet([d \in from..to |-> DailyCredits(o, f, d)], from..to)
           = Out(o, f, from, to)
<1> DEFINE c == Credits(f)
           S == {t \in Txs : OrgOf[t] = o /\ ~Entry(t)}
           D == from..to
           g == [d \in D |-> DailyCredits(o, f, d)]
<1>1. IsFiniteSet(S) /\ IsFiniteSet(D)
  BY ReportsAssumption, FS_Subset, FS_Interval
<1>2. \A t \in S : c[t] \in Int
  BY ReportsAssumption DEF Credits, Size
<1>3. Grouped(c, S, Day, D, g)
  <2>1. \A d : {t \in Txs : OrgOf[t] = o /\ ~Entry(t) /\ Day[t] = d} = Keyed(S, Day, {d})
    BY DEF Keyed
  <2> QED
    BY <2>1 DEF DailyCredits, Grouped
<1>4. Out(o, f, from, to) = SumFunctionOnSet(c, Keyed(S, Day, D))
  <2>1. {t \in Txs : OrgOf[t] = o /\ (Entry(t) <=> FALSE) /\ Day[t] \in from..to}
          = Keyed(S, Day, D)
    BY DEF Entry, Keyed
  <2> QED
    BY <2>1 DEF Out, Kpi
<1>5. SumFunctionOnSet(g, D) = SumFunctionOnSet(c, Keyed(S, Day, D))
  <2> HIDE DEF c, S, D, g
  <2> QED
    BY <1>1, <1>2, <1>3, SumByKey
<1> QED
  BY <1>4, <1>5

\* What is counted of a period, and what is not yet, make up its balance.
LEMMA InvMatchesLedger == Inv => DashboardsMatchLedger
<1> SUFFICES ASSUME Inv, NEW o \in orgs, NEW from \in {Day[t] : t \in Txs},
                    NEW to \in {Day[t] : t \in Txs}
             PROVE  LET rows == {t \in posted : OrgOf[t] = o /\ Day[t] \in from..to}
                        daily == [d \in from..to |-> DailyCredits(o, facts, d)]
                    IN  /\ Kpi(o, facts, TRUE, from, to) - Kpi(o, facts, FALSE, from, to)
                             + SumFunctionOnSet(Amount, rows \ marked)
                               = SumFunctionOnSet(Amount, rows)
                        /\ SumFunctionOnSet(daily, from..to) = Kpi(o, facts, FALSE, from, to)
  BY DEF DashboardsMatchLedger
<1> DEFINE rows == {t \in posted : OrgOf[t] = o /\ Day[t] \in from..to}
<1>1. Counts(facts, marked)
  BY DEF Inv, CountedOnce, Rows, Counts
<1>2. rows \subseteq Txs /\ RowsOf(o, from, to) \cap marked = rows \cap marked
  BY DEF Inv, TypeOK, OnlyPosted, RowsOf
<1>3. from \in Int /\ to \in Int
  BY ReportsAssumption
<1> DEFINE part == rows \cap marked
<1>4. IsFiniteSet(rows) /\ part \in SUBSET rows /\ rows \ part = rows \ marked
  BY <1>2, ReportsAssumption, FS_Subset
<1>5. \A t \in rows : Amount[t] \in Int
  BY <1>2, ReportsAssumption
<1>6. /\ In(o, facts, from, to) \in Int /\ Out(o, facts, from, to) \in Int
      /\ In(o, facts, from, to) - Out(o, facts, from, to)
           = SumFunctionOnSet(Amount, part)
  <2>1. RowsOf(o, from, to) \cap marked = part
    BY <1>2
  <2> HIDE DEF part
  <2> QED
    BY <1>1, <2>1, KpisAreNet
<1>7. /\ SumFunctionOnSet(Amount, rows)
           = SumFunctionOnSet(Amount, part) + SumFunctionOnSet(Amount, rows \ marked)
      /\ SumFunctionOnSet(Amount, rows \ marked) \in Int
  <2> HIDE DEF rows, part
  <2>1. SumFunctionOnSet(Amount, rows)
          = SumFunctionOnSet(Amount, part) + SumFunctionOnSet(Amount, rows \ part)
    BY <1>4, <1>5, SumSplit
  <2>2. IsFiniteSet(rows \ marked) /\ \A t \in rows \ marked : Amount[t] \in Int
    BY <1>4, <1>5, FS_Subset
  <2>3. SumFunctionOnSet(Amount, rows \ marked) \in Int
    BY <2>2, SumRemove
  <2> QED
    BY <1>4, <2>1, <2>3
<1>8. In(o, facts, from, to) - Out(o, facts, from, to)
        + SumFunctionOnSet(Amount, rows \ marked) = SumFunctionOnSet(Amount, rows)
  BY <1>6, <1>7
<1>9. SumFunctionOnSet([d \in from..to |-> DailyCredits(o, facts, d)], from..to)
        = Out(o, facts, from, to)
  <2>1. \A t \in Txs : facts[t] \in Int
    BY <1>1 DEF Counts
  <2> QED
    BY <1>3, <2>1, DaysMakeThePeriod
<1> QED
  BY <1>8, <1>9 DEF In, Out

\* Over any period, what the cards show and what the ETL has still to count make the balance
\* of an organisation, and the daily series adds up to its card.
THEOREM DashboardsAreRight == Spec => []DashboardsMatchLedger
  BY InvMatchesLedger, Invariant, PTL

-----------------------------------------------------------------------------
(* The cost reports *)

\* What a transaction adds to the spending.
Owed == [t \in Txs |-> IF Amount[t] < 0 THEN Size[t] ELSE 0]

\* Amounts are integers, sizes are not negative.
LEMMA Amounts ==
  /\ \A t \in Txs : Amount[t] \in Int /\ Size[t] \in Nat /\ Owed[t] \in Nat
  /\ \A T \in SUBSET Txs : IsFiniteSet(T)
  BY ReportsAssumption, FS_Subset DEF Size, Owed

\* The spending is a sum over all rows.
LEMMA SpendingIsOwed ==
  ASSUME NEW T \in SUBSET Txs
  PROVE  Spending(T) = SumFunctionOnSet(Owed, T) /\ Spending(T) \in Nat
<1> DEFINE D == Debits(T)
<1>1. /\ IsFiniteSet(T) /\ IsFiniteSet(D) /\ IsFiniteSet(T \ D) /\ D \in SUBSET T
      /\ \A t \in T : Size[t] \in Int /\ Owed[t] \in Nat
  BY Amounts, FS_Subset DEF Debits
<1>2. \A t \in D : Size[t] = Owed[t]
  BY DEF Debits, Owed
<1>3. \A t \in T \ D : Owed[t] = 0
  BY DEF Debits, Owed
<1>4. SumFunctionOnSet(Size, D) = SumFunctionOnSet(Owed, D)
  <2> HIDE DEF D
  <2> QED
    BY <1>1, <1>2, SumEqual
<1>5. SumFunctionOnSet(Owed, T) = SumFunctionOnSet(Owed, D) + SumFunctionOnSet(Owed, T \ D)
  <2> HIDE DEF D
  <2> QED
    BY <1>1, SumSplit
<1>6. SumFunctionOnSet(Owed, T \ D) = 0
  BY <1>1, <1>3, SumZero
<1>7. SumFunctionOnSet(Owed, D) \in Nat
  <2> HIDE DEF D
  <2> QED
    BY <1>1, SumPart
<1> QED
  BY <1>4, <1>5, <1>6, <1>7 DEF Spending

\* One side of a LEFT JOIN has a row, and no other than those that match and NULL.
LEMMA Padded ==
  ASSUME NEW S, IsFiniteSet(S), Null \notin S
  PROVE  /\ IsFiniteSet(Pad(S)) /\ Pad(S) # {} /\ Pad(S) \ {Null} = S
         /\ Cardinality(S) <= 1 => \E x : Pad(S) = {x}
<1>1. IsFiniteSet({Null})
  BY FS_Singleton
<1>2. ASSUME Cardinality(S) <= 1
      PROVE  \E x : Pad(S) = {x}
  <2>1. Cardinality(S) \in Nat
    BY FS_CardinalityType
  <2>2. Cardinality(S) = 0 \/ Cardinality(S) = 1
    BY <1>2, <2>1
  <2>3. CASE Cardinality(S) = 0
    BY <2>3, FS_EmptySet DEF Pad
  <2>4. CASE Cardinality(S) = 1
    BY <2>4, FS_Singleton DEF Pad
  <2> QED
    BY <2>2, <2>3, <2>4
<1> QED
  BY <1>1, <1>2 DEF Pad

\* A join of three tables has finitely many rows.
LEMMA FiniteJoin ==
  ASSUME NEW A, IsFiniteSet(A), NEW B, IsFiniteSet(B), NEW C, IsFiniteSet(C)
  PROVE  IsFiniteSet(A \X B \X C)
<1> DEFINE S == (A \X B) \X C
           T == A \X B \X C
           f == [q \in S |-> <<q[1][1], q[1][2], q[2]>>]
<1>1. IsFiniteSet(S)
  BY FS_Product
<1>2. f \in [S -> T]
  OBVIOUS
<1>3. ASSUME NEW t \in T
      PROVE  \E q \in S : f[q] = t
  <2>1. <<<<t[1], t[2]>>, t[3]>> \in S
    OBVIOUS
  <2>2. f[<<<<t[1], t[2]>>, t[3]>>] = t
    BY <2>1
  <2> QED
    BY <2>1, <2>2
<1>4. f \in Surjection(S, T)
  BY <1>2, <1>3 DEF Surjection
<1> HIDE DEF S, T, f
<1>5. IsFiniteSet(T)
  BY <1>1, <1>4, FS_Surjection
<1> QED
  BY <1>5 DEF T
\* The three sides of the join for a user.
LEMMA Sides ==
  ASSUME NEW u, NEW T \in SUBSET Txs, NEW S \in SUBSET Searches, NEW X \in SUBSET Exports
  PROVE  /\ By(u, T) \in SUBSET Txs /\ Null \notin By(u, T)
         /\ IsFiniteSet(Pad(By(u, S))) /\ Pad(By(u, S)) # {} /\ Pad(By(u, S)) \ {Null} = By(u, S)
         /\ IsFiniteSet(Pad(By(u, X))) /\ Pad(By(u, X)) # {} /\ Pad(By(u, X)) \ {Null} = By(u, X)
         /\ IsFiniteSet(Pad(By(u, T))) /\ Pad(By(u, T)) # {} /\ Pad(By(u, T)) \ {Null} = By(u, T)
         /\ Cardinality(By(u, S)) <= 1 => \E a : Pad(By(u, S)) = {a}
         /\ Cardinality(By(u, X)) <= 1 => \E b : Pad(By(u, X)) = {b}
<1>1. /\ By(u, S) \subseteq Searches /\ By(u, X) \subseteq Exports /\ By(u, T) \subseteq Txs
  BY DEF By
<1>2. /\ IsFiniteSet(By(u, S)) /\ IsFiniteSet(By(u, X)) /\ IsFiniteSet(By(u, T))
      /\ Null \notin By(u, S) /\ Null \notin By(u, X) /\ Null \notin By(u, T)
  BY <1>1, ReportsAssumption, FS_Subset
<1> QED
  BY <1>1, <1>2, Padded

\* COUNT(DISTINCT ...) counts the searches and the exports, however often the join repeats them.
LEMMA DistinctCounts ==
  ASSUME NEW u, NEW T \in SUBSET Txs, NEW S \in SUBSET Searches, NEW X \in SUBSET Exports
  PROVE  /\ SearchCount(u, T, S, X) = Cardinality(By(u, S))
         /\ ExportCount(u, T, S, X) = Cardinality(By(u, X))
<1> DEFINE A == Pad(By(u, S))
           B == Pad(By(u, X))
           C == Pad(By(u, T))
<1>1. A # {} /\ B # {} /\ C # {} /\ A \ {Null} = By(u, S) /\ B \ {Null} = By(u, X)
  BY Sides
<1> HIDE DEF A, B, C
<1>2. PICK a0 \in A, b0 \in B, c0 \in C : TRUE
  BY <1>1
<1>3. {j[1] : j \in A \X B \X C} = A
  <2>1. ASSUME NEW a \in A
        PROVE  <<a, b0, c0>> \in A \X B \X C /\ <<a, b0, c0>>[1] = a
    BY <1>2
  <2>2. \A a \in A : \E j \in A \X B \X C : j[1] = a
    BY <2>1
  <2>3. \A j \in A \X B \X C : j[1] \in A
    OBVIOUS
  <2> QED
    BY <2>2, <2>3
<1>4. {j[2] : j \in A \X B \X C} = B
  <2>1. ASSUME NEW b \in B
        PROVE  <<a0, b, c0>> \in A \X B \X C /\ <<a0, b, c0>>[2] = b
    BY <1>2
  <2>2. \A b \in B : \E j \in A \X B \X C : j[2] = b
    BY <2>1
  <2>3. \A j \in A \X B \X C : j[2] \in B
    OBVIOUS
  <2> QED
    BY <2>2, <2>3
<1>5. JoinOf(u, T, S, X) = A \X B \X C
  BY DEF JoinOf, A, B, C
<1> QED
  BY <1>1, <1>3, <1>4, <1>5 DEF SearchCount, ExportCount

\* What a row of the join adds: its transaction, if it has one.
OwedOrNone(c) == IF c = Null THEN 0 ELSE Spending({c})

\* The rows that differ only in the transaction add up to the spending; all of them, to no
\* less, and to the same when there are no others.
LEMMA JoinCoversSpending ==
  ASSUME NEW u, NEW T \in SUBSET Txs, NEW S \in SUBSET Searches, NEW X \in SUBSET Exports
  PROVE  /\ ConsumedMonth(u, T) = SumFunctionOnSet(Owed, By(u, T)) /\ ConsumedMonth(u, T) \in Nat
         /\ CreditsConsumed(u, T, S, X) \in Nat
         /\ ConsumedMonth(u, T) <= CreditsConsumed(u, T, S, X)
         /\ Cardinality(By(u, S)) <= 1 /\ Cardinality(By(u, X)) <= 1 =>
              CreditsConsumed(u, T, S, X) = ConsumedMonth(u, T)
<1> DEFINE A == Pad(By(u, S))
           B == Pad(By(u, X))
           C == Pad(By(u, T))
           join == A \X B \X C
           debit == [j \in join |-> IF j[3] = Null THEN 0 ELSE Spending({j[3]})]
           g == [c \in C |-> OwedOrNone(c)]
<1>1. /\ A # {} /\ B # {} /\ IsFiniteSet(A) /\ IsFiniteSet(B) /\ IsFiniteSet(C)
      /\ C \ {Null} = By(u, T) /\ By(u, T) \in SUBSET Txs /\ Null \notin By(u, T)
  BY Sides
<1>2. \A c \in C : c # Null => OwedOrNone(c) = Owed[c]
  <2>1. ASSUME NEW t \in Txs
        PROVE  Spending({t}) = Owed[t]
    <3>1. Spending({t}) = SumFunctionOnSet(Owed, {t})
      BY SpendingIsOwed
    <3>2. IsFiniteSet({}) /\ t \notin {} /\ {} \cup {t} = {t} /\ Owed[t] \in Int
      BY FS_EmptySet, Amounts
    <3>3. SumFunctionOnSet(Owed, {t}) = Owed[t] + SumFunctionOnSet(Owed, {})
      BY <3>2, SumAdd
    <3> QED
      BY <3>1, <3>2, <3>3, SumEmpty
  <2> QED
    BY <1>1, <2>1 DEF OwedOrNone
<1>3. \A c \in C : OwedOrNone(c) \in Nat
  BY <1>1, <1>2, Amounts DEF OwedOrNone
<1>4. ConsumedMonth(u, T) = SumFunctionOnSet(Owed, By(u, T)) /\ ConsumedMonth(u, T) \in Nat
  BY <1>1, SpendingIsOwed DEF ConsumedMonth
<1>5. SumFunctionOnSet(g, C) = ConsumedMonth(u, T)
  <2> DEFINE Y == By(u, T)
  <2>1. /\ Y \in SUBSET C /\ IsFiniteSet(Y) /\ IsFiniteSet(C \ Y)
        /\ \A c \in C : g[c] \in Nat
    BY <1>1, <1>3, FS_Subset
  <2>2. \A c \in C \ Y : g[c] = 0
    BY <1>1 DEF OwedOrNone
  <2>3. \A c \in Y : g[c] = Owed[c]
    BY <1>1, <1>2
  <2> HIDE DEF g, C, Y
  <2>4. SumFunctionOnSet(g, C) = SumFunctionOnSet(g, Y) + SumFunctionOnSet(g, C \ Y)
    BY <1>1, <2>1, SumSplit
  <2>5. SumFunctionOnSet(g, C \ Y) = 0
    BY <2>1, <2>2, SumZero
  <2>6. SumFunctionOnSet(g, Y) = SumFunctionOnSet(Owed, Y)
    BY <2>1, <2>3, SumEqual
  <2> QED
    BY <1>4, <2>4, <2>5, <2>6 DEF Y
<1>6. PICK a0 \in A, b0 \in B : TRUE
  BY <1>1
<1> DEFINE row == [c \in C |-> <<a0, b0, c>>]
           R == {row[c] : c \in C}
<1>7. \A c \in C : row[c] \in join /\ debit[row[c]] = OwedOrNone(c)
  BY <1>6 DEF OwedOrNone
<1>8. IsFiniteSet(join) /\ R \in SUBSET join /\ \A j \in join : debit[j] \in Nat
  <2>1. IsFiniteSet(join)
    BY <1>1, FiniteJoin
  <2>2. \A j \in join : debit[j] = OwedOrNone(j[3]) /\ j[3] \in C
    BY DEF OwedOrNone
  <2> QED
    BY <1>3, <1>7, <2>1, <2>2
<1>9. CreditsConsumed(u, T, S, X) = SumFunctionOnSet(debit, join)
  BY DEF CreditsConsumed, JoinOf
<1>10. SumFunctionOnSet(debit, R) = SumFunctionOnSet(g, C)
  <2>1. \A c \in C : debit[row[c]] \in Int /\ g[c] = debit[row[c]]
    <3> HIDE DEF debit, row, C
    <3> QED
      BY <1>3, <1>7
  <2>2. row \in Bijection(C, R)
    BY DEF Bijection, Injection, IsInjective, Surjection
  <2> HIDE DEF debit, row, g, R, C
  <2> QED
    BY <1>1, <2>1, <2>2, SumImage
<1>11. /\ SumFunctionOnSet(debit, R) <= SumFunctionOnSet(debit, join)
       /\ SumFunctionOnSet(debit, join) \in Nat
  <2> HIDE DEF debit, R, join
  <2> QED
    BY <1>8, SumPart
<1>12. ASSUME Cardinality(By(u, S)) <= 1, Cardinality(By(u, X)) <= 1
       PROVE  R = join
  <2>1. A = {a0} /\ B = {b0}
    <3>1. (\E a : A = {a}) /\ (\E b : B = {b})
      BY <1>12, Sides
    <3> QED
      BY <1>6, <3>1
  <2>2. ASSUME NEW j \in join
        PROVE  j \in R
    BY <2>1
  <2> QED
    BY <1>8, <2>2
<1> QED
  BY <1>4, <1>5, <1>9, <1>10, <1>11, <1>12
\* The history shows each debit of a search in the own organisation in a row, and rows of 0.
LEMMA HistoryShowsDebits ==
  ASSUME NEW u, NEW T \in SUBSET Txs, NEW S \in SUBSET Searches
  PROVE  HistoryTotal(u, T, S) = Spending({t \in T : Ref[t] \in InHome(u, S)})
<1> DEFINE H == InHome(u, S)
           V == {t \in Debits(T) : Ref[t] \in H}
           Z == {s \in H : \A t \in Debits(T) : Ref[t] # s}
           rows == History(u, T, S)
           shown == [h \in rows |-> IF h[2] = Null THEN 0 ELSE Size[h[2]]]
           row == [t \in V |-> <<Ref[t], t>>]
           R == {row[t] : t \in V}
           none == [s \in Z |-> <<s, Null>>]
           N == {none[s] : s \in Z}
           g == [t \in V |-> Size[t]]
           z == [s \in Z |-> 0]
<1>1. /\ V \in SUBSET Txs /\ H \in SUBSET Searches /\ Null \notin Txs
      /\ IsFiniteSet(V) /\ IsFiniteSet(Z)
  <2>1. V \in SUBSET Txs /\ H \in SUBSET Searches /\ Z \in SUBSET Searches
    BY DEF Debits, InHome, By
  <2> QED
    BY <2>1, ReportsAssumption, FS_Subset
<1>2. rows = R \cup N /\ R \cap N = {}
  <2> DEFINE Mine(s) == {t \in Debits(T) : Ref[t] = s}
  <2>1. \A h : h \in rows <=> \E s \in H : h \in {s} \X Pad(Mine(s))
    BY DEF History
  <2>2. ASSUME NEW t \in V
        PROVE  row[t] \in rows
    <3>1. Ref[t] \in H /\ t \in Pad(Mine(Ref[t]))
      BY DEF Pad
    <3>2. row[t] \in {Ref[t]} \X Pad(Mine(Ref[t]))
      BY <3>1
    <3> QED
      BY <2>1, <3>1, <3>2
  <2>3. ASSUME NEW s \in Z
        PROVE  none[s] \in rows
    <3>1. s \in H /\ Null \in Pad(Mine(s))
      BY DEF Pad
    <3>2. none[s] \in {s} \X Pad(Mine(s))
      BY <3>1
    <3> QED
      BY <2>1, <3>1, <3>2
  <2>4. ASSUME NEW h \in rows
        PROVE  h \in R \cup N
    <3>1. PICK s \in H : h \in {s} \X Pad(Mine(s))
      BY <2>1
    <3>2. h = <<s, h[2]>> /\ h[2] \in Pad(Mine(s))
      BY <3>1
    <3>3. CASE Mine(s) = {}
      <4>1. s \in Z /\ h[2] = Null
        BY <3>2, <3>3 DEF Pad
      <4>2. h = none[s]
        BY <3>2, <4>1
      <4> QED
        BY <4>1, <4>2
    <3>4. CASE Mine(s) # {}
      <4>1. h[2] \in V /\ Ref[h[2]] = s
        BY <3>2, <3>4 DEF Pad
      <4>2. h = row[h[2]]
        BY <3>2, <4>1
      <4> QED
        BY <4>1, <4>2
    <3> QED
      BY <3>3, <3>4
  <2>5. R \cap N = {}
    <3>1. (\A t \in V : row[t][2] = t) /\ (\A s \in Z : none[s][2] = Null)
      OBVIOUS
    <3>2. Null \notin V
      BY <1>1
    <3> HIDE DEF row, none, V, Z
    <3> QED
      BY <3>1, <3>2
  <2> HIDE DEF rows, row, none, V, Z
  <2> QED
    BY <2>2, <2>3, <2>4, <2>5
<1>3. row \in Bijection(V, R) /\ none \in Bijection(Z, N)
  BY DEF Bijection, Injection, IsInjective, Surjection
<1>4. \A t \in V : shown[row[t]] = g[t] /\ shown[row[t]] \in Int
  <2>1. \A t \in V : row[t][2] = t /\ t # Null /\ t \in Txs
    BY <1>1
  <2>2. \A t \in V : row[t] \in rows
    BY <1>2
  <2>3. \A h \in rows : shown[h] = IF h[2] = Null THEN 0 ELSE Size[h[2]]
    OBVIOUS
  <2>4. \A t \in V : g[t] = Size[t]
    OBVIOUS
  <2> HIDE DEF shown, rows, row, V, g
  <2> QED
    BY <2>1, <2>2, <2>3, <2>4, Amounts
<1>5. \A s \in Z : shown[none[s]] = z[s] /\ shown[none[s]] \in Int
  <2>1. \A s \in Z : none[s] \in rows /\ none[s][2] = Null
    BY <1>2
  <2> QED
    BY <2>1
<1>6. IsFiniteSet(R) /\ SumFunctionOnSet(shown, R) = SumFunctionOnSet(g, V)
  <2> HIDE DEF V, R, row, g, shown
  <2> QED
    BY <1>1, <1>3, <1>4, SumImage
<1>7. IsFiniteSet(N) /\ SumFunctionOnSet(shown, N) = SumFunctionOnSet(z, Z)
  <2> HIDE DEF Z, N, none, z, shown
  <2> QED
    BY <1>1, <1>3, <1>5, SumImage
<1>8. SumFunctionOnSet(z, Z) = 0
  BY <1>1, SumZero
<1>9. SumFunctionOnSet(g, V) = SumFunctionOnSet(Size, V) /\ SumFunctionOnSet(Size, V) \in Int
  <2>1. \A t \in V : g[t] \in Int /\ g[t] = Size[t]
    BY <1>1, Amounts
  <2> HIDE DEF g, V
  <2> QED
    BY <1>1, <2>1, SumEqual, SumRemove
<1>10. SumFunctionOnSet(shown, R \cup N) = SumFunctionOnSet(shown, R) + SumFunctionOnSet(shown, N)
  <2>1. \A h \in R \cup N : shown[h] \in Int
    <3> HIDE DEF shown, row, none, V, Z
    <3> QED
      BY <1>4, <1>5
  <2> HIDE DEF shown, R, N
  <2> QED
    BY <1>2, <1>6, <1>7, <2>1, SumUnion
<1>11. HistoryTotal(u, T, S) = SumFunctionOnSet(shown, rows)
  BY DEF HistoryTotal
<1>12. Spending({t \in T : Ref[t] \in InHome(u, S)}) = SumFunctionOnSet(Size, V)
  <2>1. Debits({t \in T : Ref[t] \in InHome(u, S)}) = V
    BY DEF Debits
  <2> QED
    BY <2>1 DEF Spending
<1> HIDE DEF shown, rows, R, N, V, z
<1> QED
  BY <1>2, <1>6, <1>7, <1>8, <1>9, <1>10, <1>11, <1>12

\* The total of an organisation is spent by its users, or by others.
LEMMA SellersAndOthers ==
  ASSUME NEW o, NEW deleted, NEW T \in SUBSET Txs, NEW consumed,
         \A u \in Users : consumed[u] \in Nat /\ ConsumedMonth(u, T) <= consumed[u]
  PROVE  TotalConsumed(o, T)
           <= SumFunctionOnSet(consumed, Sellers(o, deleted))
                + Spending({t \in T : OrgOf[t] = o /\ Author[t] \notin Sellers(o, deleted)})
<1> DEFINE D == Sellers(o, deleted)
           W == {t \in T : OrgOf[t] = o}
           mine == {t \in W : Author[t] \in D}
           others == {t \in T : OrgOf[t] = o /\ Author[t] \notin D}
           all == Keyed(T, Author, D)
           g == [u \in D |-> ConsumedMonth(u, T)]
<1>1. /\ IsFiniteSet(T) /\ IsFiniteSet(W) /\ IsFiniteSet(D) /\ IsFiniteSet(all)
      /\ D \subseteq Users /\ mine \in SUBSET W /\ W \ mine = others /\ mine \in SUBSET all
      /\ W \in SUBSET Txs /\ all \in SUBSET Txs /\ others \in SUBSET Txs
  <2>1. /\ D \subseteq Users /\ mine \in SUBSET W /\ W \ mine = others /\ mine \in SUBSET all
        /\ W \in SUBSET Txs /\ all \in SUBSET Txs /\ others \in SUBSET Txs
    BY DEF Sellers, Keyed
  <2>2. IsFiniteSet(D)
    BY <2>1, ReportsAssumption, FS_Subset
  <2> QED
    BY <2>1, <2>2, Amounts
<1>2. Spending(W) = SumFunctionOnSet(Owed, W) /\ Spending(others) = SumFunctionOnSet(Owed, others)
  BY <1>1, SpendingIsOwed
<1>3. \A t \in Txs : Owed[t] \in Nat
  BY Amounts
<1>4. SumFunctionOnSet(Owed, W) = SumFunctionOnSet(Owed, mine) + SumFunctionOnSet(Owed, others)
  <2>1. SumFunctionOnSet(Owed, W) = SumFunctionOnSet(Owed, mine) + SumFunctionOnSet(Owed, W \ mine)
    <3> HIDE DEF W, mine, others
    <3> QED
      BY <1>1, <1>3, SumSplit
  <2> QED
    BY <1>1, <2>1
<1>5. SumFunctionOnSet(Owed, mine) <= SumFunctionOnSet(Owed, all)
  <2> HIDE DEF mine, all
  <2> QED
    BY <1>1, <1>3, SumPart
<1>6. Grouped(Owed, T, Author, D, g)
  <2>1. ASSUME NEW u \in D
        PROVE  g[u] = SumFunctionOnSet(Owed, Keyed(T, Author, {u}))
    <3>1. By(u, T) = Keyed(T, Author, {u}) /\ By(u, T) \in SUBSET Txs
      BY DEF By, Keyed
    <3>2. ConsumedMonth(u, T) = SumFunctionOnSet(Owed, By(u, T))
      BY <3>1, SpendingIsOwed DEF ConsumedMonth
    <3> QED
      BY <3>1, <3>2
  <2> QED
    BY <2>1 DEF Grouped
<1>7. SumFunctionOnSet(g, D) = SumFunctionOnSet(Owed, all)
  <2>1. \A t \in T : Owed[t] \in Int
    BY <1>3
  <2> HIDE DEF D, g
  <2> QED
    BY <1>1, <1>6, <2>1, SumByKey
<1>8. \A u \in D : g[u] \in Int /\ consumed[u] \in Int /\ g[u] <= consumed[u]
  <2>1. ASSUME NEW u \in D
        PROVE  ConsumedMonth(u, T) \in Int
    <3>1. By(u, T) \in SUBSET Txs
      BY DEF By
    <3> QED
      BY <3>1, SpendingIsOwed DEF ConsumedMonth
  <2> QED
    BY <1>1, <2>1
<1>9. SumFunctionOnSet(g, D) <= SumFunctionOnSet(consumed, D)
  <2> HIDE DEF D, g
  <2> QED
    BY <1>1, <1>8, SumMonotone
<1>10. /\ SumFunctionOnSet(Owed, mine) \in Int /\ SumFunctionOnSet(Owed, all) \in Int
       /\ SumFunctionOnSet(Owed, others) \in Int /\ SumFunctionOnSet(consumed, D) \in Int
  <2>1. /\ IsFiniteSet(mine) /\ IsFiniteSet(others)
        /\ \A t \in mine \cup all \cup others : Owed[t] \in Int
    BY <1>1, <1>3, Amounts
  <2> HIDE DEF D, mine, all, others
  <2> QED
    BY <1>1, <1>8, <2>1, SumRemove
<1>11. TotalConsumed(o, T) = Spending(W)
  BY DEF TotalConsumed
<1> DEFINE m == SumFunctionOnSet(Owed, mine)
           a == SumFunctionOnSet(Owed, all)
           x == SumFunctionOnSet(Owed, others)
           c == SumFunctionOnSet(consumed, D)
<1>12. /\ TotalConsumed(o, T) = m + x /\ m <= a /\ a <= c /\ Spending(others) = x
       /\ m \in Int /\ a \in Int /\ x \in Int /\ c \in Int
  BY <1>2, <1>4, <1>5, <1>7, <1>9, <1>10, <1>11
<1>13. TotalConsumed(o, T) <= c + Spending(others)
  <2> HIDE DEF m, a, x, c, others
  <2> QED
    BY <1>12
<1> QED
  BY <1>13

\* Whatever is posted and searched, the reports show it.
LEMMA InvCoversSpending == Inv => ReportsCoverSpending
<1> SUFFICES ASSUME Inv
             PROVE  ReportsCoverSpending
  OBVIOUS
<1> DEFINE made == {s \in Searches : status[s] # "none"}
           consumed == [u \in Users |-> CreditsConsumed(u, posted, made, Exports)]
<1>1. posted \in SUBSET Txs /\ made \in SUBSET Searches /\ Exports \in SUBSET Exports
  BY DEF Inv, TypeOK
<1> HIDE DEF made
<1>2. ASSUME NEW u \in Users
      PROVE  LET searches == SearchCount(u, posted, made, Exports)
                 exports == ExportCount(u, posted, made, Exports)
             IN  /\ searches = Cardinality(By(u, made))
                 /\ consumed[u] >= ConsumedMonth(u, posted)
                 /\ searches <= 1 /\ exports <= 1 => consumed[u] = ConsumedMonth(u, posted)
                 /\ HistoryTotal(u, posted, made) =
                      Spending({t \in posted : Ref[t] \in InHome(u, made)})
  <2>1. /\ SearchCount(u, posted, made, Exports) = Cardinality(By(u, made))
        /\ ExportCount(u, posted, made, Exports) = Cardinality(By(u, Exports))
    BY <1>1, DistinctCounts
  <2>2. /\ consumed[u] \in Nat /\ ConsumedMonth(u, posted) \in Nat
        /\ ConsumedMonth(u, posted) <= consumed[u]
        /\ Cardinality(By(u, made)) <= 1 /\ Cardinality(By(u, Exports)) <= 1 =>
             consumed[u] = ConsumedMonth(u, posted)
    BY <1>1, JoinCoversSpending
  <2>3. HistoryTotal(u, posted, made) = Spending({t \in posted : Ref[t] \in InHome(u, made)})
    BY <1>1, HistoryShowsDebits
  <2> QED
    BY <2>1, <2>2, <2>3
<1>3. \A u \in Users : consumed[u] \in Nat /\ ConsumedMonth(u, posted) <= consumed[u]
  BY <1>1, JoinCoversSpending
<1>4. ASSUME NEW o \in Orgs, NEW deleted \in SUBSET Users
      PROVE  LET sellers == Sellers(o, deleted)
                 others == {t \in posted : OrgOf[t] = o /\ Author[t] \notin sellers}
             IN  TotalConsumed(o, posted) <= SumFunctionOnSet(consumed, sellers) + Spending(others)
  <2> HIDE DEF consumed
  <2> QED
    BY <1>1, <1>3, SellersAndOthers
<1> QED
  BY <1>2, <1>4 DEF ReportsCoverSpending, made

\* However users, searches and exports are joined, the reports of who spent what never show
\* less than was spent, and show just that for a user with no more than one search and export.
THEOREM ReportsAreComplete == Spec => []ReportsCoverSpending
  BY InvCoversSpending, Invariant, PTL
=============================================================================
