------------------------- MODULE SearchWorker_proofs -------------------------
(***************************************************************************)
(* Proofs about SearchWorker for any number of organisations, searches,    *)
(* workers and failures, and any sets of matching companies.               *)
(*                                                                         *)
(* That no row is charged twice rests on the primary key of                *)
(* tb_search_results: only the worker whose CopyFrom inserted a row may    *)
(* charge it.  The invariant says so of every worker at the charge: its    *)
(* rows are saved, nobody has charged them, and no other worker's rows of  *)
(* the same search are among them.                                         *)
(***************************************************************************)
EXTENDS SearchWorker, FiniteSums

\* A worker past its pop is about some search.
HasSearch ==
  \A w \in Workers :
    pc[w] \in {"read", "mark", "find", "save", "charge", "finish", "fail"} =>
      cur[w] \in Searches

\* Rows, saved or about to be, are companies that match the search.
RowsMatch ==
  /\ \A s \in Searches : results[s] \subseteq Matches[s]
  /\ \A w \in Workers :
       pc[w] \in {"save", "charge", "finish"} => found[w] \subseteq Matches[cur[w]]

\* Between the save and the charge a worker owns the rows it saved.
ClaimsOwned ==
  \A w \in Workers : pc[w] = "charge" =>
    /\ found[w] \subseteq results[cur[w]]
    /\ found[w] \cap billed[cur[w]] = {}
    /\ \A v \in Workers :
         v # w /\ pc[v] = "charge" /\ cur[v] = cur[w] => found[v] \cap found[w] = {}

\* What was charged are rows, at most one credit for each.
BilledRows ==
  \A s \in Searches :
    /\ billed[s] \subseteq results[s]
    /\ charged[s] <= Cardinality(billed[s])

Shape == TypeOK /\ HasSearch /\ RowsMatch
Accounts == ClaimsOwned /\ BilledRows

\* The inductive invariant.  ChargedWithinDelivery says nothing of workers; that a
\* charge keeps it needs to know whose rows are charged.
IInv == Shape /\ Accounts

-----------------------------------------------------------------------------
(* Lemmas about the operators *)

\* The rows a query selects match the search.
LEMMA SelectionsMatch ==
  ASSUME NEW s \in Searches, NEW S \in Selections(s)
  PROVE  S \subseteq Matches[s]
  BY DEF Selections, Lowest

\* What matches some search is a company of the model.
LEMMA MatchesAreCompanies ==
  ASSUME NEW s \in Searches
  PROVE  Matches[s] \subseteq Companies
  BY DEF Companies

\* Sets of matches of one search are finite.
LEMMA MatchesFinite ==
  ASSUME NEW s \in Searches, NEW S, S \subseteq Matches[s]
  PROVE  IsFiniteSet(S) /\ Cardinality(S) \in Nat
<1>1. IsFiniteSet(Matches[s])
  BY SearchAssumption
<1>2. IsFiniteSet(S)
  BY <1>1, FS_Subset
<1> QED
  BY <1>2, FS_CardinalityType

\* Disjoint sets add up.
LEMMA DisjointUnion ==
  ASSUME NEW S, IsFiniteSet(S), NEW T, IsFiniteSet(T), S \cap T = {}
  PROVE  Cardinality(S \cup T) = Cardinality(S) + Cardinality(T)
<1>1. Cardinality(S \cup T) = Cardinality(S) + Cardinality(T) - Cardinality(S \cap T)
  BY FS_Union
<1>2. Cardinality(S \cap T) = 0
  BY FS_EmptySet
<1>3. Cardinality(S) \in Nat /\ Cardinality(T) \in Nat
  BY FS_CardinalityType
<1> QED
  BY <1>1, <1>2, <1>3

\* The price of n rows is at most n.
LEMMA PriceBound ==
  ASSUME NEW s \in Searches, NEW n \in Nat
  PROVE  Price(s, n) \in Nat /\ Price(s, n) <= n
  BY SearchAssumption DEF Price

\* The ids a query for searches returns are a sequence of searches.
LEMMA IdsOfSearches ==
  ASSUME NEW S \in SUBSET Searches, NEW ids \in SetToSeqs(S)
  PROVE  ids \in Seq(Searches)
<1>1. IsFiniteSet(S)
  BY SearchAssumption, FS_Subset
<1>2. Cardinality(S) \in Nat
  BY <1>1, FS_CardinalityType
<1>3. ids \in [1..Cardinality(S) -> S]
  BY DEF SetToSeqs
<1> QED
  BY <1>2, <1>3

-----------------------------------------------------------------------------
(* Initial states *)

\* Nothing is saved or charged and every worker is down.
LEMMA InitInv == Init => IInv
<1> SUFFICES ASSUME Init PROVE IInv
  OBVIOUS
<1>1. Shape
  BY SearchAssumption DEF Init, Shape, TypeOK, HasSearch, RowsMatch, Statuses, PCs
<1>2. ClaimsOwned
  BY DEF Init, ClaimsOwned
<1>3. BilledRows
  BY FS_EmptySet DEF Init, BilledRows
<1> QED
  BY <1>1, <1>2, <1>3 DEF IInv, Accounts

-----------------------------------------------------------------------------
(* Every step keeps the shape of the state *)

\* Requests, time and the start of a process.
LEMMA CreateShape ==
  ASSUME Shape, NEW s \in Searches, Create(s)
  PROVE  Shape'
  BY DEF Create, creditVars, workerVars, Shape, TypeOK, HasSearch, RowsMatch, Statuses

\* The push adds an id to the queue, or fails and counts as a failure.
LEMMA PushShape ==
  ASSUME Shape, NEW s \in Searches, Push(s)
  PROVE  Shape'
<1>1. queue' \in Seq(Searches)
  <2>1. queue \in Seq(Searches)
    BY DEF Shape, TypeOK
  <2>2. CASE queue' = Append(queue, s)
    BY <2>1, <2>2
  <2>3. CASE queue' = queue
    BY <2>1, <2>3
  <2> QED
    BY <2>2, <2>3 DEF Push
<1>2. faults' \in 0..MaxFaults
  BY SearchAssumption DEF Push, Shape, TypeOK
<1>3. /\ unpushed' \in SUBSET Searches
      /\ UNCHANGED <<searchVars, creditVars, workerVars>>
  BY DEF Push, Shape, TypeOK
<1> QED
  BY <1>1, <1>2, <1>3
  DEF searchVars, creditVars, workerVars, Shape, TypeOK, HasSearch, RowsMatch

LEMMA GrowOldShape ==
  ASSUME Shape, NEW s \in Searches, GrowOld(s)
  PROVE  Shape'
  BY DEF GrowOld, creditVars, workerVars, Shape, TypeOK, HasSearch, RowsMatch

LEMMA StartShape ==
  ASSUME Shape, NEW w \in Workers, Start(w)
  PROVE  Shape'
  BY DEF Start, Goes, searchVars, creditVars, Shape, TypeOK, HasSearch, RowsMatch, PCs

\* A crash forgets what the process knew and nothing that is stored.
LEMMA CrashShape ==
  ASSUME Shape, Crash
  PROVE  Shape'
  BY SearchAssumption
  DEF Crash, searchVars, creditVars, Shape, TypeOK, HasSearch, RowsMatch, PCs

\* recoverStale.
LEMMA RecoveryShape ==
  ASSUME Shape, NEW w \in Workers, Recovery(w)
  PROVE  Shape'
<1>1. CASE TakeTick(w)
  BY <1>1 DEF TakeTick, Goes, searchVars, creditVars, Shape, TypeOK, HasSearch, RowsMatch, PCs
<1>2. CASE RecoverStale(w)
  BY <1>2
  DEF RecoverStale, Goes, creditVars, Shape, TypeOK, HasSearch, RowsMatch, PCs, Statuses
<1>3. CASE ListQueued(w)
  <2>1. PICK ids \in SetToSeqs({s \in Searches : status[s] = "queued"}) :
          listed' = [listed EXCEPT ![w] = ids]
    BY <1>3 DEF ListQueued
  <2>2. ids \in Seq(Searches)
    BY <2>1, IdsOfSearches
  <2> QED
    BY <1>3, <2>1, <2>2
    DEF ListQueued, Goes, searchVars, creditVars, Shape, TypeOK, HasSearch, RowsMatch, PCs
<1>4. CASE Requeue(w)
  <2>1. queue \o listed[w] \in Seq(Searches) /\ <<>> \in Seq(Searches)
    BY DEF Shape, TypeOK
  <2> QED
    BY <1>4, <2>1
    DEF Requeue, Goes, searchVars, creditVars, Shape, TypeOK, HasSearch, RowsMatch, PCs
<1> QED
  BY <1>1, <1>2, <1>3, <1>4 DEF Recovery

LEMMA PopShape ==
  ASSUME Shape, NEW w \in Workers, Pop(w)
  PROVE  Shape'
<1>1. Head(queue) \in Searches /\ Tail(queue) \in Seq(Searches)
  BY DEF Pop, Shape, TypeOK
<1> QED
  BY <1>1 DEF Pop, AtPop, searchVars, creditVars, Shape, TypeOK, HasSearch, RowsMatch, PCs

LEMMA PopTimeoutShape ==
  ASSUME Shape, NEW w \in Workers, PopTimeout(w)
  PROVE  Shape'
  BY DEF PopTimeout, Goes, searchVars, creditVars, Shape, TypeOK, HasSearch, RowsMatch, PCs

LEMMA ReadSearchShape ==
  ASSUME Shape, NEW w \in Workers, ReadSearch(w)
  PROVE  Shape'
<1>1. CASE Return(w)
  BY <1>1
  DEF ReadSearch, Return, searchVars, creditVars, Shape, TypeOK, HasSearch, RowsMatch, PCs
<1>2. CASE Goes(w, "read", "mark") /\ UNCHANGED <<cur, found>>
  BY <1>2
  DEF ReadSearch, Goes, searchVars, creditVars, Shape, TypeOK, HasSearch, RowsMatch, PCs
<1> QED
  BY <1>1, <1>2 DEF ReadSearch

LEMMA MarkProcessingShape ==
  ASSUME Shape, NEW w \in Workers, MarkProcessing(w)
  PROVE  Shape'
  BY DEF MarkProcessing, UpdateStatus, Goes, creditVars,
         Shape, TypeOK, HasSearch, RowsMatch, PCs, Statuses

\* What is found is a selection of the companies that match.
LEMMA FindCompaniesShape ==
  ASSUME Shape, NEW w \in Workers, FindCompanies(w)
  PROVE  Shape'
<1>1. PICK S \in Selections(cur[w]) : found' = [found EXCEPT ![w] = S]
  BY DEF FindCompanies
<1>2. cur[w] \in Searches
  BY DEF FindCompanies, Goes, Shape, HasSearch
<1>3. S \subseteq Matches[cur[w]] /\ S \subseteq Companies
  BY <1>1, <1>2, SelectionsMatch, MatchesAreCompanies
<1> QED
  BY <1>1, <1>3
  DEF FindCompanies, Goes, searchVars, creditVars, Shape, TypeOK, HasSearch, RowsMatch, PCs

\* The rows that are saved were found.
LEMMA SaveResultsShape ==
  ASSUME Shape, NEW w \in Workers, SaveResults(w)
  PROVE  Shape'
<1>1. pc[w] = "save" /\ cur[w] \in Searches
  BY DEF SaveResults, Shape, HasSearch
<1>2. found[w] \subseteq Matches[cur[w]] /\ found[w] \subseteq Companies
  BY <1>1 DEF Shape, TypeOK, RowsMatch
<1>3. CASE Goes(w, "save", "fail") /\ UNCHANGED results
  BY <1>3 DEF SaveResults, Goes, creditVars, Shape, TypeOK, HasSearch, RowsMatch, PCs
<1>4. CASE /\ Goes(w, "save", IF found[w] = {} THEN "finish" ELSE "charge")
           /\ results' = [results EXCEPT ![cur[w]] = @ \cup found[w]]
  <2>1. /\ results' \in [Searches -> SUBSET Companies]
        /\ \A s \in Searches : results'[s] \subseteq Matches[s]
    BY <1>1, <1>2, <1>4 DEF Shape, TypeOK, RowsMatch
  <2>2. \E to \in {"charge", "finish"} : pc' = [pc EXCEPT ![w] = to]
    BY <1>4 DEF Goes
  <2> QED
    BY <1>1, <2>1, <2>2 DEF SaveResults, creditVars, Shape, TypeOK, HasSearch, RowsMatch, PCs
<1> QED
  BY <1>3, <1>4 DEF SaveResults

\* What a charge does to the accounts, wherever the worker goes on.
LEMMA PayForShape ==
  ASSUME Shape, NEW w \in Workers, pc[w] = "charge", PayFor(w)
  PROVE  /\ balance' \in [Orgs -> Nat]
         /\ spent' \in [Orgs -> Nat]
         /\ charged' \in [Searches -> Nat]
         /\ billed' \in [Searches -> SUBSET Companies]
<1> DEFINE s == cur[w]
           price == Price(s, Cardinality(found[w]))
<1>1. s \in Searches /\ OrgOf[s] \in Orgs
  BY SearchAssumption DEF Shape, HasSearch
<1>2. found[w] \subseteq Matches[s]
  BY DEF Shape, RowsMatch
<1>3. price \in Nat
  BY <1>1, <1>2, MatchesFinite, PriceBound
<1>4. /\ balance \in [Orgs -> Nat] /\ spent \in [Orgs -> Nat]
      /\ charged \in [Searches -> Nat] /\ billed \in [Searches -> SUBSET Companies]
      /\ found[w] \in SUBSET Companies
  BY DEF Shape, TypeOK
<1>5. /\ price <= balance[OrgOf[s]]
      /\ balance' = [balance EXCEPT ![OrgOf[s]] = @ - price]
      /\ spent' = [spent EXCEPT ![OrgOf[s]] = @ + price]
      /\ charged' = [charged EXCEPT ![s] = @ + price]
      /\ billed' = [billed EXCEPT ![s] = @ \cup found[w]]
  BY DEF PayFor, Ledger!Debit
<1> HIDE DEF s, price
<1> QED
  BY <1>1, <1>3, <1>4, <1>5

LEMMA ChargeShape ==
  ASSUME Shape, NEW w \in Workers, Charge(w)
  PROVE  Shape'
<1>1. pc[w] = "charge" /\ PayFor(w)
  BY DEF Charge, Goes
<1>2. /\ balance' \in [Orgs -> Nat]
      /\ spent' \in [Orgs -> Nat]
      /\ charged' \in [Searches -> Nat]
      /\ billed' \in [Searches -> SUBSET Companies]
  BY <1>1, PayForShape
<1> QED
  BY <1>2 DEF Charge, Goes, searchVars, Shape, TypeOK, HasSearch, RowsMatch, PCs

LEMMA ChargeRefusedShape ==
  ASSUME Shape, NEW w \in Workers, ChargeRefused(w)
  PROVE  Shape'
  BY DEF ChargeRefused, Goes, searchVars, creditVars, Shape, TypeOK, HasSearch, RowsMatch, PCs

\* The count a finished search shows is a number.
LEMMA FinishShape ==
  ASSUME Shape, NEW w \in Workers, Finish(w)
  PROVE  Shape'
<1>1. pc[w] = "finish" /\ cur[w] \in Searches /\ found[w] \subseteq Matches[cur[w]]
  BY DEF Finish, Shape, HasSearch, RowsMatch
<1>2. Cardinality(found[w]) \in Nat
  BY <1>1, MatchesFinite
<1> QED
  BY <1>2
  DEF Finish, UpdateStatus, Return, creditVars, Shape, TypeOK, HasSearch, RowsMatch, PCs, Statuses

LEMMA MarkFailedShape ==
  ASSUME Shape, NEW w \in Workers, MarkFailed(w)
  PROVE  Shape'
  BY DEF MarkFailed, UpdateStatus, Return, creditVars,
         Shape, TypeOK, HasSearch, RowsMatch, PCs, Statuses

\* A failed call leaves the worker at its loop, at the pop or at the failed search.
LEMMA CallFailsShape ==
  ASSUME Shape, NEW w \in Workers, CallFails(w)
  PROVE  Shape'
<1>1. faults' \in 0..MaxFaults
  BY SearchAssumption DEF CallFails, Shape, TypeOK
<1>2. PICK to \in OnError[pc[w]] :
        IF to = "loop"
        THEN Return(w)
        ELSE pc' = [pc EXCEPT ![w] = to] /\ UNCHANGED <<cur, found>>
  BY DEF CallFails
<1>3. /\ to \in {"pop", "loop", "fail"}
      /\ to = "fail" => pc[w] \in {"find", "save", "charge"}
  BY <1>2 DEF CallFails, OnError
<1>4. listed' \in [Workers -> Seq(Searches)]
  BY DEF CallFails, Shape, TypeOK
<1>5. CASE to = "loop"
  BY <1>1, <1>2, <1>4, <1>5
  DEF CallFails, Return, searchVars, creditVars, Shape, TypeOK, HasSearch, RowsMatch, PCs
<1>6. CASE to # "loop"
  BY <1>1, <1>2, <1>3, <1>4, <1>6
  DEF CallFails, searchVars, creditVars, Shape, TypeOK, HasSearch, RowsMatch, PCs
<1> QED
  BY <1>5, <1>6

LEMMA CommitUnansweredShape ==
  ASSUME Shape, NEW w \in Workers, CommitUnanswered(w)
  PROVE  Shape'
<1>1. /\ balance' \in [Orgs -> Nat]
      /\ spent' \in [Orgs -> Nat]
      /\ charged' \in [Searches -> Nat]
      /\ billed' \in [Searches -> SUBSET Companies]
  BY PayForShape DEF CommitUnanswered
<1>2. faults' \in 0..MaxFaults
  BY SearchAssumption DEF CommitUnanswered, Shape, TypeOK
<1> QED
  BY <1>1, <1>2
  DEF CommitUnanswered, Return, searchVars, Shape, TypeOK, HasSearch, RowsMatch, PCs

LEMMA PopUnansweredShape ==
  ASSUME Shape, NEW w \in Workers, PopUnanswered(w)
  PROVE  Shape'
<1>1. Tail(queue) \in Seq(Searches)
  BY DEF PopUnanswered, Shape, TypeOK
<1>2. faults' \in 0..MaxFaults
  BY SearchAssumption DEF PopUnanswered, Shape, TypeOK
<1> QED
  BY <1>1, <1>2
  DEF PopUnanswered, AtPop, searchVars, creditVars, Shape, TypeOK, HasSearch, RowsMatch, PCs

\* The shape is an invariant of its own.
LEMMA NextShape == Shape /\ [Next]_vars => Shape'
<1> SUFFICES ASSUME Shape, [Next]_vars PROVE Shape'
  OBVIOUS
<1>1. ASSUME NEW s \in Searches, Create(s) \/ Push(s) \/ GrowOld(s) PROVE Shape'
  BY <1>1, CreateShape, PushShape, GrowOldShape
<1>2. ASSUME NEW w \in Workers, Process(w) PROVE Shape'
  BY <1>2, PopShape, PopTimeoutShape, ReadSearchShape, MarkProcessingShape,
     FindCompaniesShape, SaveResultsShape, ChargeShape, ChargeRefusedShape,
     FinishShape, MarkFailedShape DEF Process
<1>3. ASSUME NEW w \in Workers, Fault(w) PROVE Shape'
  BY <1>3, CallFailsShape, CommitUnansweredShape, PopUnansweredShape DEF Fault
<1>4. CASE UNCHANGED vars
  BY <1>4
  DEF vars, searchVars, creditVars, workerVars, Shape, TypeOK, HasSearch, RowsMatch
<1> QED
  BY <1>1, <1>2, <1>3, <1>4, StartShape, RecoveryShape, CrashShape DEF Next

-----------------------------------------------------------------------------
(* Every step keeps the accounts *)

\* A step that saves and charges nothing, and takes no worker to the charge.
Quiet ==
  /\ UNCHANGED <<results, charged, billed>>
  /\ \A w \in Workers :
       pc'[w] = "charge" => /\ pc[w] = "charge"
                            /\ cur'[w] = cur[w]
                            /\ found'[w] = found[w]

LEMMA QuietAccounts ==
  ASSUME Accounts, Quiet
  PROVE  Accounts'
  BY DEF Accounts, ClaimsOwned, BilledRows, Quiet

LEMMA RequestsAreQuiet ==
  ASSUME NEW s \in Searches, Create(s) \/ Push(s) \/ GrowOld(s)
  PROVE  Quiet
  BY DEF Create, Push, GrowOld, searchVars, creditVars, workerVars, Quiet

LEMMA RecoveryIsQuiet ==
  ASSUME Shape, NEW w \in Workers, Start(w) \/ Recovery(w)
  PROVE  Quiet
  BY DEF Start, Recovery, TakeTick, RecoverStale, ListQueued, Requeue, Goes,
         searchVars, creditVars, Shape, TypeOK, Quiet

\* Every step of a run except its save and its charge.
LEMMA ProcessIsQuiet ==
  ASSUME Shape, NEW w \in Workers,
         \/ Pop(w) \/ PopTimeout(w) \/ ReadSearch(w) \/ MarkProcessing(w)
         \/ FindCompanies(w) \/ ChargeRefused(w) \/ Finish(w) \/ MarkFailed(w)
  PROVE  Quiet
<1>1. /\ UNCHANGED <<results, charged, billed>>
      /\ \E p \in PCs \ {"charge"} : pc' = [pc EXCEPT ![w] = p]
      /\ \A v \in Workers \ {w} : cur'[v] = cur[v] /\ found'[v] = found[v]
  BY DEF Pop, PopTimeout, ReadSearch, MarkProcessing, FindCompanies, ChargeRefused, Finish,
         MarkFailed, Goes, Return, UpdateStatus, searchVars, creditVars, Shape, TypeOK, PCs
<1> QED
  BY <1>1 DEF Shape, TypeOK, Quiet

LEMMA CallFailsIsQuiet ==
  ASSUME Shape, NEW w \in Workers, CallFails(w)
  PROVE  Quiet
<1>1. PICK to \in OnError[pc[w]] :
        IF to = "loop"
        THEN Return(w)
        ELSE pc' = [pc EXCEPT ![w] = to] /\ UNCHANGED <<cur, found>>
  BY DEF CallFails
<1>2. to \in {"pop", "loop", "fail"}
  BY <1>1 DEF CallFails, OnError
<1>3. UNCHANGED <<results, charged, billed>>
  BY DEF CallFails, searchVars, creditVars
<1>4. pc \in [Workers -> PCs] /\ cur \in [Workers -> Searches \cup {None}]
      /\ found \in [Workers -> SUBSET Companies]
  BY DEF Shape, TypeOK
<1>5. CASE to = "loop"
  BY <1>1, <1>3, <1>4, <1>5 DEF Return, Quiet
<1>6. CASE to # "loop"
  <2>1. pc' = [pc EXCEPT ![w] = to] /\ UNCHANGED <<cur, found>>
    BY <1>1, <1>6
  <2>2. to # "charge"
    BY <1>2
  <2> QED
    BY <1>3, <1>4, <2>1, <2>2 DEF Quiet
<1> QED
  BY <1>5, <1>6

LEMMA PopUnansweredIsQuiet ==
  ASSUME Shape, NEW w \in Workers, PopUnanswered(w)
  PROVE  Quiet
  BY DEF PopUnanswered, searchVars, creditVars, Shape, TypeOK, Quiet

LEMMA CrashIsQuiet ==
  ASSUME Crash
  PROVE  Quiet
  BY DEF Crash, searchVars, creditVars, Quiet

\* The primary key: the rows a save adds were nobody's, so the worker owns them.
LEMMA SaveAccounts ==
  ASSUME IInv, NEW w \in Workers, SaveResults(w)
  PROVE  Accounts'
<1> DEFINE s == cur[w]
<1>1. s \in Searches /\ pc \in [Workers -> PCs] /\ results \in [Searches -> SUBSET Companies]
  BY DEF SaveResults, IInv, Shape, HasSearch, TypeOK
<1>2. UNCHANGED <<charged, billed, cur, found>>
  BY DEF SaveResults, creditVars
<1>3. CASE pc' = [pc EXCEPT ![w] = "fail"] /\ UNCHANGED results
  <2>1. Quiet
    BY <1>1, <1>2, <1>3 DEF Quiet
  <2> QED
    BY <2>1, QuietAccounts DEF IInv
<1>4. CASE /\ found[w] \cap results[s] = {}
           /\ \E to \in {"charge", "finish"} : pc' = [pc EXCEPT ![w] = to]
           /\ results' = [results EXCEPT ![s] = @ \cup found[w]]
  <2>1. \A t \in Searches : results[t] \subseteq results'[t]
    BY <1>1, <1>4
  <2>2. BilledRows'
    BY <1>2, <2>1 DEF IInv, Accounts, BilledRows
  <2>3. /\ found[w] \subseteq results'[s]
        /\ found[w] \cap billed[s] = {}
        /\ \A v \in Workers :
             pc[v] = "charge" /\ cur[v] = s => found[v] \cap found[w] = {}
    BY <1>1, <1>4 DEF IInv, Accounts, BilledRows, ClaimsOwned
  <2>4. \A v \in Workers \ {w} : pc'[v] = pc[v]
    BY <1>1, <1>4
  <2>5. \A v \in Workers \ {w} : pc[v] = "charge" => cur[v] \in Searches
    BY DEF IInv, Shape, HasSearch
  <2>6. ClaimsOwned'
    BY <1>2, <2>1, <2>3, <2>4, <2>5 DEF IInv, Accounts, ClaimsOwned
  <2> QED
    BY <2>2, <2>6 DEF Accounts
<1> QED
  BY <1>3, <1>4 DEF SaveResults, Goes

\* A charge counts rows that nobody charged, at most one credit for each.
LEMMA ChargeAccounts ==
  ASSUME IInv, NEW w \in Workers, pc[w] = "charge", PayFor(w),
         UNCHANGED results,
         pc'[w] # "charge",
         \A v \in Workers \ {w} :
           pc'[v] = pc[v] /\ cur'[v] = cur[v] /\ found'[v] = found[v]
  PROVE  Accounts'
<1> DEFINE s == cur[w]
           price == Price(s, Cardinality(found[w]))
<1>1. /\ s \in Searches
      /\ results[s] \subseteq Matches[s]
      /\ found[w] \subseteq results[s]
      /\ found[w] \cap billed[s] = {}
      /\ billed[s] \subseteq results[s]
      /\ charged[s] \in Nat
      /\ charged[s] <= Cardinality(billed[s])
  BY DEF IInv, Shape, TypeOK, HasSearch, RowsMatch, Accounts, ClaimsOwned, BilledRows
<1>2. /\ charged' = [charged EXCEPT ![s] = @ + price]
      /\ billed' = [billed EXCEPT ![s] = @ \cup found[w]]
      /\ charged \in [Searches -> Nat]
      /\ billed \in [Searches -> SUBSET Companies]
  BY DEF PayFor, IInv, Shape, TypeOK
<1>3. /\ IsFiniteSet(found[w]) /\ Cardinality(found[w]) \in Nat
      /\ IsFiniteSet(billed[s]) /\ Cardinality(billed[s]) \in Nat
  BY <1>1, MatchesFinite
<1>4. price \in Nat /\ price <= Cardinality(found[w])
  BY <1>1, <1>3, PriceBound
<1>5. Cardinality(billed[s] \cup found[w]) = Cardinality(billed[s]) + Cardinality(found[w])
  BY <1>1, <1>3, DisjointUnion
<1> HIDE DEF s, price
<1>6. BilledRows'
  <2>1. /\ billed'[s] \subseteq results[s]
        /\ charged'[s] <= Cardinality(billed'[s])
    BY <1>1, <1>2, <1>3, <1>4, <1>5
  <2>2. \A t \in Searches \ {s} : billed'[t] = billed[t] /\ charged'[t] = charged[t]
    BY <1>1, <1>2
  <2> QED
    BY <2>1, <2>2 DEF IInv, Accounts, BilledRows
<1>7. ClaimsOwned'
  <2>1. ASSUME NEW v \in Workers, pc'[v] = "charge"
        PROVE  /\ v # w /\ pc[v] = "charge" /\ cur'[v] = cur[v] /\ found'[v] = found[v]
               /\ found[v] \subseteq results[cur[v]]
               /\ found[v] \cap billed'[cur[v]] = {}
    <3>1. v # w /\ pc[v] = "charge" /\ cur'[v] = cur[v] /\ found'[v] = found[v]
      BY <2>1
    <3>2. /\ cur[v] \in Searches
          /\ found[v] \subseteq results[cur[v]]
          /\ found[v] \cap billed[cur[v]] = {}
          /\ cur[v] = s => found[v] \cap found[w] = {}
      BY <3>1 DEF IInv, Shape, HasSearch, Accounts, ClaimsOwned, s
    <3> QED
      BY <1>2, <3>1, <3>2
  <2> QED
    BY <2>1 DEF IInv, Accounts, ClaimsOwned
<1> QED
  BY <1>6, <1>7 DEF Accounts

LEMMA NextAccounts ==
  ASSUME IInv, [Next]_vars
  PROVE  Accounts'
<1>1. CASE Quiet
  BY <1>1, QuietAccounts DEF IInv
<1>2. ASSUME NEW w \in Workers, Charge(w) PROVE Accounts'
  <2>1. /\ pc[w] = "charge" /\ PayFor(w)
        /\ pc' = [pc EXCEPT ![w] = "finish"]
        /\ UNCHANGED <<results, cur, found>>
    BY <1>2 DEF Charge, Goes, searchVars
  <2> QED
    BY <2>1, ChargeAccounts DEF IInv, Shape, TypeOK
<1>3. ASSUME NEW w \in Workers, CommitUnanswered(w) PROVE Accounts'
  <2>1. /\ pc[w] = "charge" /\ PayFor(w) /\ Return(w)
        /\ UNCHANGED results
    BY <1>3 DEF CommitUnanswered, searchVars
  <2> QED
    BY <2>1, ChargeAccounts DEF Return, IInv, Shape, TypeOK
<1>4. CASE UNCHANGED vars
  <2>1. Quiet
    BY <1>4 DEF vars, searchVars, creditVars, workerVars, Quiet
  <2> QED
    BY <1>1, <2>1
<1>5. Shape
  BY DEF IInv
<1>6. ASSUME NEW w \in Workers, Start(w) \/ Recovery(w) \/ Process(w) \/ Fault(w)
      PROVE  Accounts'
  BY <1>1, <1>2, <1>3, <1>5, <1>6, RecoveryIsQuiet, ProcessIsQuiet,
     CallFailsIsQuiet, PopUnansweredIsQuiet, SaveAccounts
  DEF Process, Fault
<1> QED
  BY <1>1, <1>4, <1>6, RequestsAreQuiet, CrashIsQuiet DEF Next

-----------------------------------------------------------------------------
(* The theorems *)

LEMMA Invariance == Spec => []IInv
<1>1. IInv /\ [Next]_vars => IInv'
  BY NextShape, NextAccounts DEF IInv
<1> QED
  BY <1>1, InitInv, PTL DEF Spec

\* Every variable keeps its type: no balance becomes negative, and every worker past
\* its pop works on a search (Worker.Run, Worker.process, for any number of workers).
THEOREM TypeCorrect == Spec => []TypeOK
<1>1. IInv => TypeOK
  BY DEF IInv, Shape
<1> QED
  BY <1>1, Invariance, PTL

\* Duplicates in the queue, recovery of a run that goes on, crashes and lost answers
\* never make two charges count one row: the primary key of tb_search_results decides
\* which worker charges it (CopyFrom in RunStructuredSearch, the debit in process).
THEOREM RowsBilledOnce == Spec => []NoRowBilledTwice
<1>1. IInv => NoRowBilledTwice
  BY DEF IInv, Accounts, ClaimsOwned, NoRowBilledTwice
<1> QED
  BY <1>1, Invariance, PTL

\* The debits of a search never exceed the rows it saved, however often and by however
\* many workers it is run.
THEOREM NeverOvercharged == Spec => []ChargedWithinDelivery
<1>1. IInv => ChargedWithinDelivery
  <2> SUFFICES ASSUME IInv, NEW s \in Searches
               PROVE  charged[s] <= Cardinality(results[s])
    BY DEF ChargedWithinDelivery
  <2>1. /\ results[s] \subseteq Matches[s]
        /\ billed[s] \subseteq results[s]
        /\ charged[s] \in Nat
        /\ charged[s] <= Cardinality(billed[s])
    BY DEF IInv, Shape, TypeOK, RowsMatch, Accounts, BilledRows
  <2>2. IsFiniteSet(results[s]) /\ Cardinality(results[s]) \in Nat
    BY <2>1, MatchesFinite
  <2>3. Cardinality(billed[s]) <= Cardinality(results[s]) /\ Cardinality(billed[s]) \in Nat
    BY <2>1, <2>2, FS_Subset, FS_CardinalityType
  <2> QED
    BY <2>1, <2>2, <2>3
<1> QED
  BY <1>1, Invariance, PTL
-----------------------------------------------------------------------------
(* One worker: SEARCH_WORKERS=1 *)

OneWorker == \A v, w \in Workers : v = w

\* Nobody ends a search that the worker has found unfinished.
RunsGoOn ==
  \A w \in Workers :
    pc[w] \in {"mark", "find", "save", "charge", "finish", "fail"} =>
      status[cur[w]] \notin Terminal

\* Nobody delivers what the worker has found and is about to save.
RowsAreFresh ==
  \A w \in Workers : pc[w] = "save" => found[w] \cap Delivered(OrgOf[cur[w]]) = {}

\* While nothing has failed, no search is "processing" but the one that the worker runs, and
\* a search that has not been run has no rows and no charge.
OneRunEach ==
  \A s \in Searches :
    /\ status[s] \in {"none", "queued"} => results[s] = {} /\ charged[s] = 0
    /\ status[s] = "processing" =>
         \E w \in Workers :
           cur[w] = s /\ pc[w] \in {"find", "save", "charge", "finish", "fail"}

\* While nothing has failed, the rows and the charge are those of the run so far.
RunSoFar ==
  \A w \in Workers :
    LET s == cur[w] IN
      /\ pc[w] = "mark" => status[s] \in {"none", "queued"}
      /\ pc[w] \in {"find", "save", "charge", "finish", "fail"} => status[s] = "processing"
      /\ pc[w] \in {"find", "save"} => results[s] = {} /\ charged[s] = 0
      /\ pc[w] = "charge" => results[s] = found[w] /\ charged[s] = 0
      /\ pc[w] = "finish" =>
           results[s] = found[w] /\ charged[s] = Price(s, Cardinality(found[w]))
      /\ pc[w] = "fail" => charged[s] = 0

NothingFailed == faults = 0 => OneRunEach /\ RunSoFar /\ FaultFreeAccounts

\* The inductive invariant of one worker.
Alone == RunsGoOn /\ RowsAreFresh /\ LeadDeliveredOnce /\ NothingFailed
AloneInv == Shape /\ Alone

\* Outside of a run the worker changes nothing that the invariant is about.
LEMMA WaitingAlone ==
  ASSUME OneWorker, AloneInv, NEW w \in Workers,
         pc[w] \notin {"mark", "find", "save", "charge", "finish", "fail"},
         pc'[w] \notin {"mark", "find", "save", "charge", "finish", "fail"},
         UNCHANGED <<status, count, results, charged>>, faults' \in Nat, faults <= faults'
  PROVE  Alone'
<1>1. \A v \in Workers : v = w
  BY DEF OneWorker
<1>2. RunsGoOn' /\ RowsAreFresh' /\ RunSoFar'
  BY <1>1 DEF RunsGoOn, RowsAreFresh, RunSoFar
<1>3. LeadDeliveredOnce'
  BY DEF AloneInv, Alone, LeadDeliveredOnce
<1>4. ASSUME faults' = 0
      PROVE  OneRunEach' /\ FaultFreeAccounts'
  <2>1. faults = 0
    BY <1>4 DEF AloneInv, Shape, TypeOK
  <2>2. OneRunEach /\ FaultFreeAccounts
    BY <2>1 DEF AloneInv, Alone, NothingFailed
  <2>3. \A s \in Searches : status[s] # "processing"
    BY <1>1, <2>2 DEF OneRunEach
  <2> QED
    BY <2>1, <2>2, <2>3 DEF OneRunEach, FaultFreeAccounts
<1> QED
  BY <1>2, <1>3, <1>4 DEF Alone, NothingFailed

\* A search that is new has no rows and no charge.
LEMMA CreateAlone ==
  ASSUME OneWorker, AloneInv, NEW s \in Searches, Create(s)
  PROVE  Alone'
  BY DEF Create, searchVars, creditVars, workerVars, Delivered,
         OneWorker, AloneInv, Shape, TypeOK, HasSearch, Alone, RunsGoOn, RowsAreFresh, LeadDeliveredOnce,
         NothingFailed, OneRunEach, RunSoFar, FaultFreeAccounts, Terminal

\* The queue says nothing of how far a search is.
LEMMA PushAlone ==
  ASSUME OneWorker, AloneInv, NEW s \in Searches, Push(s)
  PROVE  Alone'
  BY DEF Push, searchVars, creditVars, workerVars, Delivered,
         OneWorker, AloneInv, Shape, TypeOK, HasSearch, Alone, RunsGoOn, RowsAreFresh, LeadDeliveredOnce,
         NothingFailed, OneRunEach, RunSoFar, FaultFreeAccounts, Terminal

\* Nor does its age.
LEMMA GrowOldAlone ==
  ASSUME OneWorker, AloneInv, NEW s \in Searches, GrowOld(s)
  PROVE  Alone'
  BY DEF GrowOld, searchVars, creditVars, workerVars, Delivered,
         OneWorker, AloneInv, Shape, TypeOK, HasSearch, Alone, RunsGoOn, RowsAreFresh, LeadDeliveredOnce,
         NothingFailed, OneRunEach, RunSoFar, FaultFreeAccounts, Terminal

\* Starting, looking for searches to recover, and popping.
LEMMA LoopAlone ==
  ASSUME OneWorker, AloneInv, NEW w \in Workers,
         Start(w) \/ TakeTick(w) \/ ListQueued(w) \/ Requeue(w) \/ Pop(w) \/ PopTimeout(w)
           \/ PopUnanswered(w)
  PROVE  Alone'
<1>1. /\ pc[w] \in {"down", "loop", "list", "push", "pop"}
      /\ \E to \in {"recover", "push", "pop", "read", "loop"} : pc' = [pc EXCEPT ![w] = to]
      /\ UNCHANGED <<status, count, results, charged>>
      /\ faults' \in {faults, faults + 1}
  BY DEF Start, TakeTick, ListQueued, Requeue, Pop, PopTimeout, PopUnanswered, Goes, AtPop,
         searchVars, creditVars
<1>2. pc'[w] \in {"recover", "push", "pop", "read", "loop"}
  BY <1>1 DEF AloneInv, Shape, TypeOK
<1>3. faults' \in Nat /\ faults <= faults'
  BY <1>1, SearchAssumption DEF AloneInv, Shape, TypeOK
<1> QED
  BY <1>1, <1>2, <1>3, WaitingAlone

\* While nothing failed, there is nothing to recover: its worker is here.
LEMMA RecoverStaleAlone ==
  ASSUME OneWorker, AloneInv, NEW w \in Workers, RecoverStale(w)
  PROVE  Alone'
  BY DEF RecoverStale, Goes, Stale, searchVars, creditVars, workerVars, Delivered,
         OneWorker, AloneInv, Shape, TypeOK, HasSearch, Alone, RunsGoOn, RowsAreFresh, LeadDeliveredOnce,
         NothingFailed, OneRunEach, RunSoFar, FaultFreeAccounts, Terminal

\* A search that did not end is new or queued, while nothing has failed.
LEMMA ReadSearchAlone ==
  ASSUME OneWorker, AloneInv, NEW w \in Workers, ReadSearch(w)
  PROVE  Alone'
<1>1. /\ pc[w] = "read" /\ UNCHANGED <<status, count, results, charged, faults>>
      /\ faults \in Nat /\ pc \in [Workers -> PCs] /\ cur[w] \in Searches
      /\ status[cur[w]] \in Statuses
  BY SearchAssumption DEF ReadSearch, searchVars, creditVars, AloneInv, Shape, TypeOK, HasSearch
<1>2. CASE Return(w)
  <2>1. pc'[w] = "loop"
    BY <1>1, <1>2 DEF Return
  <2> QED
    BY <1>1, <2>1, WaitingAlone
<1>3. CASE /\ status[cur[w]] \notin Terminal
           /\ pc' = [pc EXCEPT ![w] = "mark"] /\ UNCHANGED <<cur, found>>
  <2>1. /\ \A v \in Workers : v = w
        /\ pc'[w] = "mark"
    BY <1>1, <1>3 DEF OneWorker
  <2>2. RunsGoOn' /\ RowsAreFresh' /\ LeadDeliveredOnce'
    BY <1>1, <1>3, <2>1 DEF AloneInv, Alone, RunsGoOn, RowsAreFresh, LeadDeliveredOnce
  <2>3. ASSUME faults = 0
        PROVE  OneRunEach' /\ RunSoFar' /\ FaultFreeAccounts'
    <3>1. OneRunEach /\ FaultFreeAccounts
      BY <2>3 DEF AloneInv, Alone, NothingFailed
    <3>2. \A s \in Searches : status[s] # "processing"
      BY <1>1, <2>1, <3>1 DEF OneRunEach
    <3>3. status[cur[w]] \in {"none", "queued"}
      BY <1>1, <1>3, <3>2 DEF Statuses, Terminal
    <3> QED
      BY <1>1, <1>3, <2>1, <3>1, <3>2, <3>3 DEF OneRunEach, RunSoFar, FaultFreeAccounts
  <2> QED
    BY <1>1, <2>2, <2>3 DEF Alone, NothingFailed
<1> QED
  BY <1>2, <1>3 DEF ReadSearch, Goes, Settled

\* The search is the only one being processed.
LEMMA MarkProcessingAlone ==
  ASSUME OneWorker, AloneInv, NEW w \in Workers, MarkProcessing(w)
  PROVE  Alone'
  BY DEF MarkProcessing, Goes, UpdateStatus, searchVars, creditVars, workerVars, Delivered,
         OneWorker, AloneInv, Shape, TypeOK, HasSearch, Alone, RunsGoOn, RowsAreFresh, LeadDeliveredOnce,
         NothingFailed, OneRunEach, RunSoFar, FaultFreeAccounts, Terminal

\* What is found was not delivered.
LEMMA FindCompaniesAlone ==
  ASSUME OneWorker, AloneInv, NEW w \in Workers, FindCompanies(w)
  PROVE  Alone'
<1>1. PICK S \in Selections(cur[w]) : found' = [found EXCEPT ![w] = S]
  BY DEF FindCompanies
<1>2. S \cap Delivered(OrgOf[cur[w]]) = {}
  BY DEF Selections, Lowest
<1>3. /\ pc[w] = "find" /\ pc' = [pc EXCEPT ![w] = "save"]
      /\ UNCHANGED <<status, count, results, charged, cur, faults>>
      /\ \A v \in Workers : v = w
      /\ found'[w] = S /\ pc'[w] = "save"
  BY <1>1 DEF FindCompanies, Goes, searchVars, creditVars, OneWorker, AloneInv, Shape, TypeOK
<1>4. RunsGoOn' /\ RowsAreFresh' /\ LeadDeliveredOnce'
  BY <1>2, <1>3 DEF AloneInv, Alone, RunsGoOn, RowsAreFresh, LeadDeliveredOnce, Delivered
<1>5. NothingFailed'
  BY <1>3 DEF AloneInv, Alone, NothingFailed, OneRunEach, RunSoFar, FaultFreeAccounts
<1> QED
  BY <1>4, <1>5 DEF Alone

\* What is saved was not delivered, also not by the same search while nothing has failed.
LEMMA SaveResultsAlone ==
  ASSUME OneWorker, AloneInv, NEW w \in Workers, SaveResults(w)
  PROVE  Alone'
<1> DEFINE s == cur[w]
<1>1. /\ pc[w] = "save" /\ s \in Searches /\ \A v \in Workers : v = w
      /\ UNCHANGED <<status, count, charged, cur, found, faults>>
      /\ found[w] \cap Delivered(OrgOf[s]) = {}
      /\ results \in [Searches -> SUBSET Companies] /\ pc \in [Workers -> PCs]
      /\ status[s] \notin Terminal
  BY DEF SaveResults, creditVars, OneWorker, AloneInv, Shape, TypeOK, HasSearch, Alone,
         RowsAreFresh, RunsGoOn
<1>2. CASE pc' = [pc EXCEPT ![w] = "fail"] /\ UNCHANGED results
  <2>1. RunsGoOn' /\ RowsAreFresh' /\ LeadDeliveredOnce'
    BY <1>1, <1>2 DEF AloneInv, Alone, RunsGoOn, RowsAreFresh, LeadDeliveredOnce
  <2>2. NothingFailed'
    BY <1>1, <1>2 DEF AloneInv, Alone, NothingFailed, OneRunEach, RunSoFar, FaultFreeAccounts
  <2> QED
    BY <2>1, <2>2 DEF Alone
<1>3. CASE /\ pc' = [pc EXCEPT ![w] = IF found[w] = {} THEN "finish" ELSE "charge"]
           /\ results' = [results EXCEPT ![s] = @ \cup found[w]]
  <2>1. /\ results'[s] = results[s] \cup found[w]
        /\ \A t \in Searches \ {s} : results'[t] = results[t]
        /\ pc'[w] = IF found[w] = {} THEN "finish" ELSE "charge"
    BY <1>1, <1>3
  <2>2. \A t \in Searches : OrgOf[t] = OrgOf[s] => results[t] \cap found[w] = {}
    BY <1>1 DEF Delivered
  <2>3. RunsGoOn' /\ RowsAreFresh'
    BY <1>1, <2>1 DEF RunsGoOn, RowsAreFresh
  <2>4. LeadDeliveredOnce'
    BY <1>1, <2>1, <2>2 DEF AloneInv, Alone, LeadDeliveredOnce
  <2>5. ASSUME faults = 0
        PROVE  OneRunEach' /\ RunSoFar' /\ FaultFreeAccounts'
    <3>1. /\ OneRunEach /\ RunSoFar /\ FaultFreeAccounts
          /\ status[s] = "processing" /\ results[s] = {} /\ charged[s] = 0
      BY <1>1, <2>5 DEF AloneInv, Alone, NothingFailed, RunSoFar
    <3>2. Price(s, Cardinality({})) = 0
      BY FS_EmptySet, SearchAssumption DEF Price
    <3>3. RunSoFar'
      BY <1>1, <2>1, <3>1, <3>2 DEF RunSoFar
    <3>4. OneRunEach' /\ FaultFreeAccounts'
      BY <1>1, <2>1, <3>1 DEF OneRunEach, FaultFreeAccounts, Terminal
    <3> QED
      BY <3>3, <3>4
  <2> QED
    BY <1>1, <2>3, <2>4, <2>5 DEF Alone, NothingFailed
<1> QED
  BY <1>2, <1>3 DEF SaveResults, Goes

\* One run, one charge.
LEMMA ChargeAlone ==
  ASSUME OneWorker, AloneInv, NEW w \in Workers, Charge(w)
  PROVE  Alone'
<1> DEFINE s == cur[w]
           price == Price(s, Cardinality(found[w]))
<1>1. /\ pc[w] = "charge" /\ pc' = [pc EXCEPT ![w] = "finish"] /\ s \in Searches
      /\ \A v \in Workers : v = w
      /\ UNCHANGED <<status, count, results, cur, found, faults>>
      /\ charged' = [charged EXCEPT ![s] = @ + price]
      /\ charged \in [Searches -> Nat] /\ pc \in [Workers -> PCs]
  BY DEF Charge, Goes, PayFor, searchVars, OneWorker, AloneInv, Shape, TypeOK, HasSearch
<1>2. /\ pc'[w] = "finish" /\ charged'[s] = charged[s] + price
      /\ \A t \in Searches \ {s} : charged'[t] = charged[t]
  BY <1>1
<1>3. RunsGoOn' /\ RowsAreFresh' /\ LeadDeliveredOnce'
  BY <1>1, <1>2 DEF AloneInv, Alone, RunsGoOn, RowsAreFresh, LeadDeliveredOnce
<1>4. ASSUME faults = 0
      PROVE  OneRunEach' /\ RunSoFar' /\ FaultFreeAccounts'
  <2>1. /\ OneRunEach /\ RunSoFar /\ FaultFreeAccounts
        /\ status[s] = "processing" /\ results[s] = found[w] /\ charged[s] = 0
    BY <1>1, <1>4 DEF AloneInv, Alone, NothingFailed, RunSoFar
  <2>2. price \in Nat
    <3>1. found[w] \subseteq Matches[s]
      BY <1>1 DEF AloneInv, Shape, RowsMatch
    <3> QED
      BY <1>1, <3>1, MatchesFinite, PriceBound
  <2>3. charged'[s] = price
    <3> HIDE DEF price
    <3> QED
      BY <1>2, <2>1, <2>2
  <2>4. RunSoFar'
    BY <1>1, <1>2, <2>1, <2>3 DEF RunSoFar
  <2>5. OneRunEach' /\ FaultFreeAccounts'
    BY <1>1, <1>2, <2>1 DEF OneRunEach, FaultFreeAccounts
  <2> QED
    BY <2>4, <2>5
<1> QED
  BY <1>1, <1>3, <1>4 DEF Alone, NothingFailed

\* A run that cannot pay has charged nothing.
LEMMA ChargeRefusedAlone ==
  ASSUME OneWorker, AloneInv, NEW w \in Workers, ChargeRefused(w)
  PROVE  Alone'
  BY DEF ChargeRefused, Goes, searchVars, creditVars, workerVars, Delivered,
         OneWorker, AloneInv, Shape, TypeOK, HasSearch, Alone, RunsGoOn, RowsAreFresh, LeadDeliveredOnce,
         NothingFailed, OneRunEach, RunSoFar, FaultFreeAccounts, Terminal

\* The run ends with what it saved and charged.
LEMMA FinishAlone ==
  ASSUME OneWorker, AloneInv, NEW w \in Workers, Finish(w)
  PROVE  Alone'
  BY DEF Finish, UpdateStatus, Return, searchVars, creditVars, workerVars, Delivered,
         OneWorker, AloneInv, Shape, TypeOK, HasSearch, Alone, RunsGoOn, RowsAreFresh, LeadDeliveredOnce,
         NothingFailed, OneRunEach, RunSoFar, FaultFreeAccounts, Terminal

\* It failed, and has charged nothing while no call has failed.
LEMMA MarkFailedAlone ==
  ASSUME OneWorker, AloneInv, NEW w \in Workers, MarkFailed(w)
  PROVE  Alone'
  BY DEF MarkFailed, UpdateStatus, Return, searchVars, creditVars, workerVars, Delivered,
         OneWorker, AloneInv, Shape, TypeOK, HasSearch, Alone, RunsGoOn, RowsAreFresh, LeadDeliveredOnce,
         NothingFailed, OneRunEach, RunSoFar, FaultFreeAccounts, Terminal

\* After a failure the accounts may differ; the rows of others do not change.
LEMMA CallFailsAlone ==
  ASSUME OneWorker, AloneInv, NEW w \in Workers, CallFails(w)
  PROVE  Alone'
  BY DEF CallFails, OnError, Return, searchVars, creditVars, workerVars, Delivered,
         OneWorker, AloneInv, Shape, TypeOK, HasSearch, Alone, RunsGoOn, RowsAreFresh, LeadDeliveredOnce,
         NothingFailed, OneRunEach, RunSoFar, FaultFreeAccounts, Terminal

\* Nor do they after a commit without an answer.
LEMMA CommitUnansweredAlone ==
  ASSUME OneWorker, AloneInv, NEW w \in Workers, CommitUnanswered(w)
  PROVE  Alone'
  BY DEF CommitUnanswered, Return, searchVars, creditVars, workerVars, Delivered,
         OneWorker, AloneInv, Shape, TypeOK, HasSearch, Alone, RunsGoOn, RowsAreFresh, LeadDeliveredOnce,
         NothingFailed, OneRunEach, RunSoFar, FaultFreeAccounts, Terminal

\* Nobody is left to end or save anything.
LEMMA CrashAlone ==
  ASSUME OneWorker, AloneInv, Crash
  PROVE  Alone'
  BY DEF Crash, searchVars, creditVars, workerVars, Delivered,
         OneWorker, AloneInv, Shape, TypeOK, HasSearch, Alone, RunsGoOn, RowsAreFresh, LeadDeliveredOnce,
         NothingFailed, OneRunEach, RunSoFar, FaultFreeAccounts, Terminal

\* Every step.
LEMMA NextAlone == OneWorker /\ AloneInv /\ [Next]_vars => AloneInv'
<1> SUFFICES ASSUME OneWorker, AloneInv, [Next]_vars
             PROVE  AloneInv'
  OBVIOUS
<1>1. Shape'
  BY NextShape DEF AloneInv
<1>2. ASSUME NEW s \in Searches, Create(s) \/ Push(s) \/ GrowOld(s)
      PROVE  Alone'
  BY <1>2, CreateAlone, PushAlone, GrowOldAlone
<1>3. ASSUME NEW w \in Workers, Start(w) \/ Recovery(w)
      PROVE  Alone'
  BY <1>3, LoopAlone, RecoverStaleAlone DEF Recovery
<1>4. ASSUME NEW w \in Workers, Process(w)
      PROVE  Alone'
  BY <1>4, LoopAlone, ReadSearchAlone, MarkProcessingAlone, FindCompaniesAlone, SaveResultsAlone,
     ChargeAlone, ChargeRefusedAlone, FinishAlone, MarkFailedAlone DEF Process
<1>5. ASSUME NEW w \in Workers, Fault(w)
      PROVE  Alone'
  BY <1>5, CallFailsAlone, CommitUnansweredAlone, LoopAlone DEF Fault
<1>6. ASSUME UNCHANGED vars
      PROVE  Alone'
  BY <1>6 DEF vars, searchVars, creditVars, workerVars, Delivered, AloneInv, Alone, RunsGoOn,
              RowsAreFresh, LeadDeliveredOnce, NothingFailed, OneRunEach, RunSoFar, FaultFreeAccounts
<1> QED
  BY <1>1, <1>2, <1>3, <1>4, <1>5, <1>6, CrashAlone DEF Next, AloneInv

\* Nothing has run at the start.
LEMMA InitAlone == Init => AloneInv
<1> SUFFICES ASSUME Init
             PROVE  AloneInv
  OBVIOUS
<1>1. Shape
  BY InitInv DEF IInv
<1>2. Alone
  BY DEF Init, Alone, RunsGoOn, RowsAreFresh, LeadDeliveredOnce, NothingFailed, OneRunEach, RunSoFar,
         FaultFreeAccounts
<1> QED
  BY <1>1, <1>2 DEF AloneInv

\* A run, once it has read that the search did not end, is the only one to end it.
LEMMA StepKeepsSettled ==
  ASSUME AloneInv, [Next]_vars
  PROVE  \A s \in Searches : status[s] \in Terminal => status'[s] = status[s]
<1> SUFFICES ASSUME NEW s \in Searches, status[s] \in Terminal, status' # status
             PROVE  status'[s] = status[s]
  OBVIOUS
<1>1. status \in [Searches -> Statuses]
  BY DEF AloneInv, Shape, TypeOK
<1>2. ASSUME NEW w \in Workers, pc[w] \in {"mark", "finish", "fail"},
             NEW st, status' = [status EXCEPT ![cur[w]] = st]
      PROVE  status'[s] = status[s]
  BY <1>1, <1>2 DEF AloneInv, Alone, RunsGoOn
<1>3. ASSUME NEW t \in Searches, Create(t)
      PROVE  status'[s] = status[s]
  BY <1>1, <1>3 DEF Create, Terminal
<1>4. ASSUME NEW w \in Workers, RecoverStale(w)
      PROVE  status'[s] = status[s]
  BY <1>1, <1>4 DEF RecoverStale, Stale, Terminal
<1>5. ASSUME NEW w \in Workers, Process(w)
      PROVE  status'[s] = status[s]
  <2>1. MarkProcessing(w) \/ Finish(w) \/ MarkFailed(w)
    BY <1>5 DEF Process, Pop, PopTimeout, ReadSearch, FindCompanies, SaveResults, Charge,
                ChargeRefused, searchVars
  <2> QED
    BY <1>2, <2>1 DEF MarkProcessing, Finish, MarkFailed, UpdateStatus, Goes
<1>6. (\E t \in Searches : Create(t)) \/ (\E w \in Workers : RecoverStale(w) \/ Process(w))
  BY DEF Next, Push, GrowOld, Start, Recovery, TakeTick, ListQueued, Requeue, Fault, CallFails,
         CommitUnanswered, PopUnanswered, Crash, vars, searchVars
<1> QED
  BY <1>3, <1>4, <1>5, <1>6

\* One worker never delivers to an organisation what it was delivered before, whatever calls
\* fail and wherever the process ends (findCompanies excludes what was delivered).
THEOREM OneWorkerDeliversOnce ==
  ASSUME OneWorker
  PROVE  Spec => []LeadDeliveredOnce
<1>1. AloneInv /\ [Next]_vars => AloneInv'
  BY NextAlone
<1>2. AloneInv => LeadDeliveredOnce
  BY DEF AloneInv, Alone
<1> QED
  BY <1>1, <1>2, InitAlone, PTL DEF Spec

\* While nothing fails, one worker charges a search that is done for just the leads it counts
\* and shows, and one that failed for nothing (process, UpdateStatus), duplicates in the queue
\* and recoveries of old searches or not.
THEOREM OneWorkerAccounts ==
  ASSUME OneWorker
  PROVE  Spec => []FaultFreeAccounts
<1>1. AloneInv /\ [Next]_vars => AloneInv'
  BY NextAlone
<1>2. AloneInv => FaultFreeAccounts
  BY DEF AloneInv, Alone, NothingFailed, FaultFreeAccounts
<1> QED
  BY <1>1, <1>2, InitAlone, PTL DEF Spec

\* One worker never runs a search again that has ended: the idempotency test of process is
\* enough for duplicates, recoveries and crashes.
THEOREM OneWorkerSettles ==
  ASSUME OneWorker
  PROVE  Spec => SettledIsFinal
<1>1. AloneInv /\ [Next]_vars => AloneInv'
  BY NextAlone
<1>2. AloneInv /\ [Next]_vars
        => [\A s \in Searches : status[s] \in Terminal => status'[s] = status[s]]_vars
  BY StepKeepsSettled
<1> QED
  BY <1>1, <1>2, InitAlone, PTL DEF Spec, SettledIsFinal
-----------------------------------------------------------------------------
(* What a structured run costs *)

\* The rows of a structured run are no more than its LIMIT.
LimitKept ==
  \A w \in Workers :
    pc[w] \in {"save", "charge"} /\ Mode[cur[w]] = "structured" =>
      Cardinality(found[w]) <= Limit(cur[w])

\* ORDER BY ... LIMIT n returns n rows at most.
LEMMA LowestBound ==
  ASSUME NEW S \in SUBSET Nat, IsFiniteSet(S), NEW n \in Nat
  PROVE  Cardinality(Lowest(S, n)) <= n
<1> DEFINE L == Lowest(S, n)
<1>1. L \subseteq S /\ IsFiniteSet(L) /\ \A x \in L : x \in Nat
  BY FS_Subset DEF Lowest
<1>2. CASE L = {}
  BY <1>2, FS_EmptySet
<1>3. CASE L # {}
  <2>1. PICK m \in L : \A x \in L : x <= m
    <3> HIDE DEF L
    <3>1. L \in SUBSET Int
      BY <1>1
    <3> QED
      BY <1>1, <1>3, <3>1, HasGreatest
  <2> DEFINE B == {d \in S : d < m}
  <2>2. IsFiniteSet(B) /\ Cardinality(B) < n
    BY <2>1, FS_Subset DEF Lowest
  <2>3. L \ {m} \subseteq B
    <3> HIDE DEF L
    <3> QED
      BY <1>1, <2>1
  <2>4. Cardinality(L \ {m}) <= Cardinality(B)
    <3> HIDE DEF L, B
    <3> QED
      BY <2>2, <2>3, FS_Subset
  <2>5. Cardinality(L \ {m}) = Cardinality(L) - 1
    <3> HIDE DEF L
    <3> QED
      BY <1>1, <2>1, FS_RemoveElement
  <2>6. Cardinality(L) \in Nat /\ Cardinality(B) \in Nat
    <3> HIDE DEF L, B
    <3> QED
      BY <1>1, <2>2, FS_CardinalityType
  <2> DEFINE c == Cardinality(L)
             b == Cardinality(B)
  <2>7. c - 1 <= b /\ b < n /\ c \in Nat /\ b \in Nat
    BY <2>2, <2>4, <2>5, <2>6
  <2> HIDE DEF c, b
  <2>8. c <= n
    BY <2>7
  <2> QED
    BY <2>8 DEF c
<1> QED
  BY <1>2, <1>3

\* The LIMIT of a query is max_results, when that is given and below the hard one.
LEMMA LimitBound ==
  ASSUME NEW s \in Searches
  PROVE  Limit(s) \in Nat /\ (MaxResults[s] > 0 => Limit(s) <= MaxResults[s])
  BY SearchAssumption DEF Limit

\* The estimate is one of its bounds.
LEMMA EstimateIsABound ==
  ASSUME NEW s \in Searches
  PROVE  \/ Estimate(s) = Cardinality(Matches[s])
         \/ Estimate(s) = MaxStructuredCredits
         \/ MaxResults[s] > 0 /\ Estimate(s) = MaxResults[s]
<1> DEFINE bounds == {Cardinality(Matches[s]), MaxStructuredCredits}
                       \cup {n \in {MaxResults[s]} : n > 0}
<1>1. Cardinality(Matches[s]) \in Nat /\ MaxStructuredCredits \in Nat /\ MaxResults[s] \in Nat
  BY SearchAssumption, FS_CardinalityType
<1>2. \E m \in bounds : \A n \in bounds : m <= n
  BY <1>1
<1> HIDE DEF bounds
<1>3. Min(bounds) \in bounds
  BY <1>2 DEF Min
<1> QED
  BY <1>3 DEF Estimate, bounds

\* No step takes a worker to the save or the charge with other rows than the query returned.
LEMMA StepKeepsLimit ==
  ASSUME Shape, LimitKept, [Next]_vars
  PROVE  LimitKept'
<1>1. ASSUME NEW w \in Workers, FindCompanies(w), Mode[cur[w]] = "structured"
      PROVE  Cardinality(found'[w]) <= Limit(cur[w])
  <2> DEFINE s == cur[w]
             fresh == Matches[s] \ Delivered(OrgOf[s])
  <2>1. s \in Searches
    BY <1>1 DEF FindCompanies, Goes, Shape, HasSearch
  <2>2. found'[w] = Lowest(fresh, Limit(s))
    BY <1>1 DEF FindCompanies, Selections, Shape, TypeOK
  <2>3. fresh \in SUBSET Nat /\ IsFiniteSet(fresh)
    BY <2>1, SearchAssumption, FS_Subset
  <2>4. Limit(s) \in Nat
    BY <2>1, LimitBound
  <2> HIDE DEF fresh
  <2> QED
    BY <2>2, <2>3, <2>4, LowestBound
<1>2. ASSUME NEW v \in Workers, pc'[v] \in {"save", "charge"}
      PROVE  \/ /\ pc[v] \in {"save", "charge"} /\ cur'[v] = cur[v] /\ found'[v] = found[v]
             \/ FindCompanies(v) /\ cur'[v] = cur[v]
  <2>1. ASSUME NEW w \in Workers, Process(w)
        PROVE  \/ /\ pc[v] \in {"save", "charge"} /\ cur'[v] = cur[v] /\ found'[v] = found[v]
               \/ FindCompanies(v) /\ cur'[v] = cur[v]
    <3>1. CASE v = w
      BY <1>2, <2>1, <3>1 DEF Process, Pop, PopTimeout, ReadSearch, MarkProcessing, FindCompanies,
         SaveResults, Charge, ChargeRefused, Finish, MarkFailed, Goes, Return, UpdateStatus,
         Shape, TypeOK
    <3>2. CASE v # w
      BY <1>2, <2>1, <3>2 DEF Process, Pop, PopTimeout, ReadSearch, MarkProcessing, FindCompanies,
         SaveResults, Charge, ChargeRefused, Finish, MarkFailed, Goes, Return, UpdateStatus,
         Shape, TypeOK
    <3> QED
      BY <3>1, <3>2
  <2>2. ASSUME NEW w \in Workers, Start(w) \/ Recovery(w)
        PROVE  pc[v] \in {"save", "charge"} /\ cur'[v] = cur[v] /\ found'[v] = found[v]
    BY <1>2, <2>2 DEF Start, Recovery, TakeTick, RecoverStale, ListQueued, Requeue, Goes, Shape,
                      TypeOK
  <2>3. ASSUME NEW w \in Workers, Fault(w)
        PROVE  pc[v] \in {"save", "charge"} /\ cur'[v] = cur[v] /\ found'[v] = found[v]
    BY <1>2, <2>3 DEF Fault, CallFails, CommitUnanswered, PopUnanswered, OnError, Return, Shape,
                      TypeOK
  <2>4. ASSUME \/ \E s \in Searches : Create(s) \/ Push(s) \/ GrowOld(s)
               \/ UNCHANGED vars
        PROVE  pc[v] \in {"save", "charge"} /\ cur'[v] = cur[v] /\ found'[v] = found[v]
    BY <1>2, <2>4 DEF Create, Push, GrowOld, workerVars, vars
  <2>5. ~Crash
    BY <1>2 DEF Crash
  <2> QED
    BY <2>1, <2>2, <2>3, <2>4, <2>5 DEF Next
<1> QED
  BY <1>1, <1>2 DEF LimitKept

\* Whatever was delivered before, and whatever the LIMIT cut off, a structured run charges
\* no more than Handler.Estimate answered for its filters.
THEOREM EstimateHolds == Spec => []RunWithinEstimate
<1>1. Shape /\ LimitKept => RunWithinEstimate
  <2> SUFFICES ASSUME Shape, LimitKept, NEW w \in Workers, pc[w] = "charge",
                      Mode[cur[w]] = "structured"
               PROVE  Price(cur[w], Cardinality(found[w])) <= Estimate(cur[w])
    BY DEF RunWithinEstimate
  <2> DEFINE s == cur[w]
             n == Cardinality(found[w])
  <2>1. s \in Searches /\ found[w] \subseteq Matches[s]
    BY DEF Shape, HasSearch, RowsMatch
  <2>2. n \in Nat /\ n <= Cardinality(Matches[s]) /\ Cardinality(Matches[s]) \in Nat
    BY <2>1, SearchAssumption, FS_Subset, FS_CardinalityType
  <2>3. n <= Limit(s)
    BY DEF LimitKept
  <2>4. /\ Price(s, n) \in Nat /\ Price(s, n) <= n /\ Price(s, n) <= MaxStructuredCredits
        /\ MaxStructuredCredits \in Nat /\ MaxResults[s] \in Nat
    BY <2>1, <2>2, SearchAssumption DEF Price
  <2>5. Limit(s) \in Nat /\ (MaxResults[s] > 0 => Limit(s) <= MaxResults[s])
    BY <2>1, LimitBound
  <2>6. \/ Estimate(s) = Cardinality(Matches[s])
        \/ Estimate(s) = MaxStructuredCredits
        \/ MaxResults[s] > 0 /\ Estimate(s) = MaxResults[s]
    BY <2>1, EstimateIsABound
  <2> HIDE DEF n, s
  <2>7. Price(s, n) <= Estimate(s)
    BY <2>2, <2>3, <2>4, <2>5, <2>6
  <2> QED
    BY <2>7 DEF n, s
<1>2. Init => LimitKept
  BY DEF Init, LimitKept
<1>3. Spec => []Shape
  <2>1. IInv => Shape
    BY DEF IInv
  <2> QED
    BY <2>1, Invariance, PTL
<1> QED
  BY <1>1, <1>2, <1>3, StepKeepsLimit, PTL DEF Spec
=============================================================================
