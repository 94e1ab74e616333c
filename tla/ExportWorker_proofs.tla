------------------------ MODULE ExportWorker_proofs ------------------------
(***************************************************************************)
(* Proofs about ExportWorker for any exports, leads, balances, number of   *)
(* attempts and number of failures.                                        *)
(*                                                                         *)
(* A lead is sent before it is charged, and a run forgets the leads of the *)
(* runs before it.  The invariant therefore says two things of the run in  *)
(* progress: the lead at the charge is delivered, and, as long as no lead  *)
(* of this run failed, every lead the loop has passed is charged.          *)
(***************************************************************************)
EXTENDS ExportWorker, FiniteSums

\* The two tables indexed by exports whose entries depend on the export.
Tables ==
  /\ charges = [e \in Exports |-> charges[e]]
  /\ delivered = [e \in Exports |-> delivered[e]]

\* A run is about an export and the lead at the charge is one of its leads.
RunShape ==
  /\ pc \notin {"down", "pop"} => cur \in Exports
  /\ pc \in {"lead", "charge"} => pos > 0
  /\ pc = "charge" => pos <= Len(CNPJs[cur])
  /\ promo \in {"push", "remove"} => ids # <<>>

Shape == TypeOK /\ Tables /\ RunShape

\* What the run in progress knows of its leads.
RunAccounts ==
  /\ pc = "charge" => pos \in delivered[cur]
  /\ pc \in {"lead", "charge", "schedule", "record"} /\ bad = 0 =>
       \A i \in DOMAIN CNPJs[cur] : i < pos => charges[cur][i] > 0
  /\ pc \in {"schedule", "record"} => pos > Len(CNPJs[cur])

\* The inductive invariant.
Accounts == RunAccounts /\ ChargedOnlyWhenDelivered /\ DoneIsComplete
IInv == Shape /\ Accounts

\* The ids that are due, in any order, are a sequence of them, and not an empty one.
LEMMA IdsOfDue ==
  ASSUME NEW S \in SUBSET Exports, S # {}, NEW s \in SetToSeqs(S)
  PROVE  s \in Seq(Exports) /\ s # <<>>
<1>1. IsFiniteSet(S)
  BY ExportAssumption, FS_Subset
<1>2. Cardinality(S) \in Nat /\ Cardinality(S) # 0
  BY <1>1, FS_CardinalityType, FS_EmptySet
<1>3. s \in [1..Cardinality(S) -> S]
  BY DEF SetToSeqs
<1> QED
  BY <1>2, <1>3

-----------------------------------------------------------------------------
(* Initial states *)

\* Nothing is delivered, charged or running.
LEMMA InitInv == Init => IInv
<1> SUFFICES ASSUME Init PROVE IInv
  OBVIOUS
<1>1. TypeOK
  BY ExportAssumption DEF Init, TypeOK, Ended, PCs
<1>2. Tables /\ RunShape /\ RunAccounts /\ DoneIsComplete
  BY DEF Init, Tables, RunShape, RunAccounts, DoneIsComplete
<1>3. ChargedOnlyWhenDelivered
  BY DEF Init, ChargedOnlyWhenDelivered
<1> QED
  BY <1>1, <1>2, <1>3 DEF IInv, Shape, Accounts

-----------------------------------------------------------------------------
(* Every step keeps the shape of the state *)

\* A failure stays within the bound, and a step that is none changes nothing.
LEMMA FaultsBound ==
  ASSUME Shape, Fails \/ UNCHANGED faults
  PROVE  faults' \in 0..MaxFaults
<1>1. faults \in 0..MaxFaults /\ MaxFaults \in Nat
  BY ExportAssumption DEF Shape, TypeOK
<1>2. CASE Fails
  BY <1>1, <1>2 DEF Fails
<1>3. CASE UNCHANGED faults
  BY <1>1, <1>3
<1> QED
  BY <1>2, <1>3

\* Requests, the ETL, time and the start of the process.
LEMMA CreateExportShape ==
  ASSUME Shape, NEW e \in Exports, CreateExport(e)
  PROVE  Shape'
  BY DEF CreateExport, funnelVars, redisVars, ledgerVars, runVars, promoVars,
         Shape, TypeOK, Tables, RunShape

LEMMA PushShape ==
  ASSUME Shape, NEW e \in Exports, Push(e)
  PROVE  Shape'
<1>1. queue' \in Seq(Exports)
  <2>1. queue \in Seq(Exports)
    BY DEF Shape, TypeOK
  <2>2. queue' = Append(queue, e) \/ queue' = queue
    BY DEF Push
  <2> QED
    BY <2>1, <2>2
<1>2. faults' \in 0..MaxFaults
  BY FaultsBound DEF Push
<1>3. /\ unpushed' \in SUBSET Exports
      /\ UNCHANGED <<rowVars, funnelVars, delayed, due, ledgerVars, delivered, pc, runVars,
                     promoVars>>
  BY DEF Push, Shape, TypeOK
<1> QED
  BY <1>1, <1>2, <1>3
  DEF rowVars, funnelVars, ledgerVars, runVars, promoVars, Shape, TypeOK, Tables, RunShape

LEMMA EnterFunnelShape ==
  ASSUME Shape, NEW e \in Exports, EnterFunnel(e)
  PROVE  Shape'
  BY DEF EnterFunnel, rowVars, redisVars, ledgerVars, runVars, promoVars,
         Shape, TypeOK, Tables, RunShape

LEMMA FallDueShape ==
  ASSUME Shape, NEW e \in Exports, FallDue(e)
  PROVE  Shape'
  BY DEF FallDue, rowVars, funnelVars, ledgerVars, runVars, promoVars,
         Shape, TypeOK, Tables, RunShape

LEMMA StartShape ==
  ASSUME Shape, Start
  PROVE  Shape'
  BY DEF Start, rowVars, funnelVars, redisVars, ledgerVars, runVars,
         Shape, TypeOK, Tables, RunShape, PCs

\* A crash leaves nothing running.
LEMMA CrashShape ==
  ASSUME Shape, Crash
  PROVE  Shape'
<1>1. faults' \in 0..MaxFaults
  BY FaultsBound DEF Crash
<1>2. /\ pc' = "down" /\ cur' = None
      /\ try' = 0 /\ pos' = 0 /\ good' = 0 /\ bad' = 0
      /\ promo' = "down" /\ ids' = <<>> /\ unpushed' = {}
      /\ UNCHANGED <<rowVars, funnelVars, redisVars, ledgerVars, delivered>>
  BY DEF Crash
<1>3. <<>> \in Seq(Exports)
  OBVIOUS
<1> QED
  BY <1>1, <1>2, <1>3
  DEF rowVars, funnelVars, redisVars, ledgerVars, Shape, TypeOK, Tables, RunShape, PCs

\* The promoter has an id to move while it is not waiting.
LEMMA PromoterShape ==
  ASSUME Shape, Promoter
  PROVE  Shape'
<1>1. /\ ids \in Seq(Exports) /\ queue \in Seq(Exports)
      /\ due \in SUBSET delayed /\ delayed \in SUBSET Exports
  BY DEF Shape, TypeOK
<1>2. CASE ListDue
  <2>1. ids' \in SetToSeqs(due) /\ due # {} /\ due \in SUBSET Exports
    BY <1>1, <1>2 DEF ListDue
  <2>2. ids' \in Seq(Exports) /\ ids' # <<>>
    BY <2>1, IdsOfDue
  <2> QED
    BY <1>2, <2>2
    DEF ListDue, rowVars, funnelVars, redisVars, ledgerVars, runVars,
        Shape, TypeOK, Tables, RunShape
<1>3. ASSUME ids # <<>>
      PROVE  /\ Head(ids) \in Exports
             /\ NextId => /\ ids' \in Seq(Exports)
                          /\ promo' \in {"wait", "push"}
                          /\ promo' = "push" => ids' # <<>>
  <2>1. Head(ids) \in Exports /\ Tail(ids) \in Seq(Exports) /\ Len(Tail(ids)) = Len(ids) - 1
    BY <1>1, <1>3
  <2>2. ASSUME Len(ids) # 1 PROVE Tail(ids) # <<>>
    <3>1. Len(<<>>) = 0 /\ Len(ids) - 1 # 0
      BY <1>1, <2>2
    <3> QED
      BY <2>1, <3>1
  <2>3. ASSUME NextId
        PROVE  /\ ids' \in Seq(Exports)
               /\ promo' \in {"wait", "push"}
               /\ promo' = "push" => ids' # <<>>
    <3>1. ids' = Tail(ids) /\ promo' = IF Len(ids) = 1 THEN "wait" ELSE "push"
      BY <2>3 DEF NextId
    <3> QED
      BY <2>1, <2>2, <3>1
  <2> QED
    BY <2>1, <2>3
<1>4. CASE Promote
  <2>1. ids # <<>>
    BY <1>4 DEF Promote, Shape, RunShape
  <2>2. /\ queue' \in Seq(Exports)
        /\ ids' \in Seq(Exports)
        /\ promo' \in {"wait", "push", "remove"}
        /\ promo' \in {"push", "remove"} => ids' # <<>>
    <3>1. CASE queue' = Append(queue, Head(ids)) /\ promo' = "remove" /\ UNCHANGED ids
      BY <1>1, <1>3, <2>1, <3>1
    <3>2. CASE NextId /\ UNCHANGED queue
      BY <1>1, <1>3, <2>1, <3>2
    <3> QED
      BY <1>4, <3>1, <3>2 DEF Promote
  <2>3. faults' \in 0..MaxFaults
    BY <1>4, FaultsBound DEF Promote
  <2>4. UNCHANGED <<rowVars, funnelVars, delayed, due, unpushed, ledgerVars, delivered, pc,
                    runVars>>
    BY <1>4 DEF Promote
  <2> QED
    BY <2>2, <2>3, <2>4
    DEF rowVars, funnelVars, ledgerVars, runVars, Shape, TypeOK, Tables, RunShape
<1>5. CASE RemovePromoted
  <2>1. ids # <<>>
    BY <1>5 DEF RemovePromoted, Shape, RunShape
  <2>2. /\ ids' \in Seq(Exports)
        /\ promo' \in {"wait", "push"}
        /\ promo' = "push" => ids' # <<>>
    BY <1>3, <1>5, <2>1 DEF RemovePromoted
  <2>3. due' \in SUBSET delayed' /\ delayed' \in SUBSET Exports
    BY <1>1, <1>5 DEF RemovePromoted
  <2>4. faults' \in 0..MaxFaults
    BY <1>5, FaultsBound DEF RemovePromoted
  <2>5. UNCHANGED <<rowVars, funnelVars, queue, unpushed, ledgerVars, delivered, pc, runVars>>
    BY <1>5 DEF RemovePromoted
  <2> QED
    BY <2>2, <2>3, <2>4, <2>5
    DEF rowVars, funnelVars, ledgerVars, runVars, Shape, TypeOK, Tables, RunShape
<1> QED
  BY <1>2, <1>4, <1>5 DEF Promoter

\* The worker's calls before the loop over the leads.
LEMMA PopShape ==
  ASSUME Shape, Pop
  PROVE  Shape'
<1>1. queue' \in Seq(Exports) /\ Head(queue) \in Exports
  BY DEF Pop, Shape, TypeOK
<1>2. faults' \in 0..MaxFaults
  BY FaultsBound DEF Pop
<1>3. /\ UNCHANGED <<rowVars, funnelVars, delayed, due, unpushed, ledgerVars, delivered,
                     try, pos, good, bad, promoVars>>
      /\ pc = "pop"
  BY DEF Pop
<1>4. CASE pc' = "mark" /\ cur' = Head(queue)
  BY <1>1, <1>2, <1>3, <1>4
  DEF rowVars, funnelVars, ledgerVars, promoVars, Shape, TypeOK, Tables, RunShape, PCs
<1>5. CASE UNCHANGED <<pc, cur>>
  BY <1>1, <1>2, <1>3, <1>5
  DEF rowVars, funnelVars, ledgerVars, promoVars, Shape, TypeOK, Tables, RunShape, PCs
<1> QED
  BY <1>4, <1>5 DEF Pop

LEMMA MarkProcessingShape ==
  ASSUME Shape, MarkProcessing
  PROVE  Shape'
<1>1. cur \in Exports /\ pc = "mark"
  BY DEF MarkProcessing, Shape, RunShape
<1>2. faults' \in 0..MaxFaults
  BY FaultsBound DEF MarkProcessing
<1>3. UNCHANGED <<success, fail, retryAt, funnelVars, redisVars, unpushed, ledgerVars,
                  delivered, promoVars>>
  BY DEF MarkProcessing
<1>4. CASE /\ status' = [status EXCEPT ![cur] = "processing"]
           /\ attempt' = [attempt EXCEPT ![cur] = @ + 1]
           /\ pc' = "integration"
           /\ try' = attempt[cur] + 1
           /\ UNCHANGED <<cur, pos, good, bad>>
  <2>1. /\ status' \in [Exports -> {"none", "pending", "processing"} \cup Ended]
        /\ attempt' \in [Exports -> Nat]
        /\ try' \in Nat
    BY <1>1, <1>4 DEF Shape, TypeOK
  <2> QED
    BY <1>1, <1>2, <1>3, <1>4, <2>1
    DEF funnelVars, redisVars, ledgerVars, promoVars, Shape, TypeOK, Tables, RunShape, PCs
<1>5. CASE Return /\ UNCHANGED <<status, attempt>>
  BY <1>1, <1>2, <1>3, <1>5
  DEF Return, funnelVars, redisVars, ledgerVars, promoVars,
      Shape, TypeOK, Tables, RunShape, PCs
<1> QED
  BY <1>4, <1>5 DEF MarkProcessing

LEMMA GetIntegrationShape ==
  ASSUME Shape, GetIntegration
  PROVE  Shape'
<1>1. cur \in Exports
  BY DEF GetIntegration, Shape, RunShape
<1>2. faults' \in 0..MaxFaults
  BY FaultsBound DEF GetIntegration
<1>3. UNCHANGED <<rowVars, funnelVars, redisVars, unpushed, ledgerVars, delivered, promoVars>>
  BY DEF GetIntegration
<1>4. CASE pc' = "lead" /\ pos' = 1 /\ UNCHANGED <<cur, try, good, bad>>
  <2>1. pos' \in Nat /\ pos' > 0
    BY <1>4
  <2> QED
    BY <1>1, <1>2, <1>3, <1>4, <2>1
    DEF rowVars, funnelVars, redisVars, ledgerVars, promoVars,
        Shape, TypeOK, Tables, RunShape, PCs
<1>5. CASE Return
  BY <1>1, <1>2, <1>3, <1>5
  DEF Return, rowVars, funnelVars, redisVars, ledgerVars, promoVars,
      Shape, TypeOK, Tables, RunShape, PCs
<1> QED
  BY <1>4, <1>5 DEF GetIntegration

\* The lead of a run is one of the leads of its export.
LEMMA LeadInRange ==
  ASSUME Shape, AtLead \/ pc = "charge"
  PROVE  cur \in Exports /\ pos \in DOMAIN CNPJs[cur]
<1>1. cur \in Exports /\ pos \in Nat /\ pos > 0 /\ pos <= Len(CNPJs[cur])
  BY DEF Shape, RunShape, TypeOK, AtLead
<1>2. CNPJs[cur] \in Seq(Nat)
  BY <1>1, ExportAssumption
<1> QED
  BY <1>1, <1>2

\* Steps of the loop over the leads that send nothing and charge nothing.
LEMMA LookupFailsShape ==
  ASSUME Shape, LookupFails
  PROVE  Shape'
<1>1. cur \in Exports
  BY LeadInRange DEF LookupFails
<1>2. faults' \in 0..MaxFaults
  BY FaultsBound DEF LookupFails
<1>3. /\ LeadFails
      /\ UNCHANGED <<rowVars, funnelVars, redisVars, unpushed, ledgerVars, delivered, promoVars>>
  BY DEF LookupFails
<1>4. /\ pc' = "lead" /\ UNCHANGED <<cur, try, good>>
      /\ pos' \in Nat /\ pos' > 0 /\ bad' \in Nat
  BY <1>3 DEF LeadFails, NextLead, Shape, TypeOK
<1> QED
  BY <1>1, <1>2, <1>3, <1>4
  DEF rowVars, funnelVars, redisVars, ledgerVars, promoVars,
      Shape, TypeOK, Tables, RunShape, PCs

\* What is delivered is a lead of the export.
LEMMA DeliveryShape ==
  ASSUME Shape, AtLead, NEW got \in SUBSET {pos},
         delivered' = [delivered EXCEPT ![cur] = @ \cup got]
  PROVE  /\ \A e \in Exports : delivered'[e] \in SUBSET DOMAIN CNPJs[e]
         /\ delivered' = [e \in Exports |-> delivered'[e]]
<1>1. cur \in Exports /\ pos \in DOMAIN CNPJs[cur]
  BY LeadInRange
<1>2. /\ delivered = [e \in Exports |-> delivered[e]]
      /\ \A e \in Exports : delivered[e] \in SUBSET DOMAIN CNPJs[e]
  BY DEF Shape, TypeOK, Tables
<1> QED
  BY <1>1, <1>2

\* A lead that is sent, with or without success.
LEMMA SendFailsShape ==
  ASSUME Shape, SendFails
  PROVE  Shape'
<1>1. cur \in Exports
  BY LeadInRange DEF SendFails
<1>2. /\ \A e \in Exports : delivered'[e] \in SUBSET DOMAIN CNPJs[e]
      /\ delivered' = [e \in Exports |-> delivered'[e]]
  BY DeliveryShape DEF SendFails
<1>3. /\ LeadFails
      /\ UNCHANGED <<rowVars, funnelVars, redisVars, unpushed, ledgerVars, promoVars, faults>>
  BY DEF SendFails
<1>4. /\ pc' = "lead" /\ UNCHANGED <<cur, try, good>>
      /\ pos' \in Nat /\ pos' > 0 /\ bad' \in Nat
  BY <1>3 DEF LeadFails, NextLead, Shape, TypeOK
<1> QED
  BY <1>1, <1>2, <1>3, <1>4
  DEF rowVars, funnelVars, redisVars, ledgerVars, promoVars,
      Shape, TypeOK, Tables, RunShape, PCs

LEMMA SendShape ==
  ASSUME Shape, Send
  PROVE  Shape'
<1>1. cur \in Exports /\ pos <= Len(CNPJs[cur]) /\ pc = "lead"
  BY LeadInRange DEF Send, AtLead
<1>2. /\ \A e \in Exports : delivered'[e] \in SUBSET DOMAIN CNPJs[e]
      /\ delivered' = [e \in Exports |-> delivered'[e]]
  BY DeliveryShape DEF Send
<1> QED
  BY <1>1, <1>2
  DEF Send, rowVars, funnelVars, redisVars, ledgerVars, runVars, promoVars,
      Shape, TypeOK, Tables, RunShape, PCs

\* One more debit of one credit.
LEMMA PayForLeadShape ==
  ASSUME Shape, pc = "charge", PayForLead \/ UNCHANGED ledgerVars
  PROVE  /\ balance' \in [Orgs -> Nat]
         /\ spent' \in [Orgs -> Nat]
         /\ \A e \in Exports : charges'[e] \in [DOMAIN CNPJs[e] -> Nat]
         /\ charges' = [e \in Exports |-> charges'[e]]
<1>1. /\ cur \in Exports /\ pos \in DOMAIN CNPJs[cur]
      /\ OrgOf[cur] \in Orgs
  BY LeadInRange, ExportAssumption
<1>2. /\ balance \in [Orgs -> Nat] /\ spent \in [Orgs -> Nat]
      /\ charges = [e \in Exports |-> charges[e]]
      /\ \A e \in Exports : charges[e] \in [DOMAIN CNPJs[e] -> Nat]
  BY DEF Shape, TypeOK, Tables
<1>3. CASE PayForLead
  <2>1. /\ 1 <= balance[OrgOf[cur]]
        /\ balance' = [balance EXCEPT ![OrgOf[cur]] = @ - 1]
        /\ spent' = [spent EXCEPT ![OrgOf[cur]] = @ + 1]
        /\ charges' = [charges EXCEPT ![cur][pos] = @ + 1]
    BY <1>3 DEF PayForLead, Ledger!Debit
  <2>2. balance' \in [Orgs -> Nat] /\ spent' \in [Orgs -> Nat]
    BY <1>1, <1>2, <2>1
  <2>3. /\ charges' = [e \in Exports |-> charges'[e]]
        /\ \A e \in Exports \ {cur} : charges'[e] = charges[e]
        /\ charges'[cur] = [charges[cur] EXCEPT ![pos] = @ + 1]
    BY <1>1, <1>2, <2>1
  <2>4. charges'[cur] \in [DOMAIN CNPJs[cur] -> Nat]
    BY <1>1, <1>2, <2>3
  <2> QED
    BY <1>2, <2>2, <2>3, <2>4
<1>4. CASE UNCHANGED ledgerVars
  BY <1>2, <1>4 DEF ledgerVars
<1> QED
  BY <1>3, <1>4

\* The loop goes on after a charge, made or not.
LEMMA AfterChargeShape ==
  ASSUME Shape, pc = "charge", PayForLead \/ UNCHANGED ledgerVars, NextLead,
         good' = good + 1 \/ good' = good,
         bad' = bad + 1 \/ bad' = bad,
         Fails \/ UNCHANGED faults,
         UNCHANGED <<rowVars, funnelVars, redisVars, unpushed, delivered, promoVars>>
  PROVE  Shape'
<1>1. cur \in Exports
  BY LeadInRange
<1>2. /\ balance' \in [Orgs -> Nat]
      /\ spent' \in [Orgs -> Nat]
      /\ \A e \in Exports : charges'[e] \in [DOMAIN CNPJs[e] -> Nat]
      /\ charges' = [e \in Exports |-> charges'[e]]
  BY PayForLeadShape
<1>3. good' \in Nat /\ bad' \in Nat
  BY DEF Shape, TypeOK
<1>4. /\ pc' = "lead" /\ UNCHANGED <<cur, try>>
      /\ pos' \in Nat /\ pos' > 0
  BY DEF NextLead, Shape, TypeOK
<1>5. faults' \in 0..MaxFaults
  BY FaultsBound
<1> QED
  BY <1>1, <1>2, <1>3, <1>4, <1>5
  DEF rowVars, funnelVars, redisVars, promoVars, Shape, TypeOK, Tables, RunShape, PCs

\* The three ways a charge can go.
LEMMA ChargeShape ==
  ASSUME Shape, ChargeLead \/ ChargeRefused \/ ChargeError
  PROVE  Shape'
<1>1. CASE ChargeLead
  BY <1>1, AfterChargeShape DEF ChargeLead
<1>2. CASE ChargeRefused
  BY <1>2, AfterChargeShape DEF ChargeRefused, LeadFails
<1>3. CASE ChargeError
  BY <1>3, AfterChargeShape DEF ChargeError, LeadFails
<1> QED
  BY <1>1, <1>2, <1>3

\* The end of the loop.
LEMMA LeadsDoneShape ==
  ASSUME Shape, LeadsDone
  PROVE  Shape'
<1>1. \E to \in {"schedule", "record"} : pc' = to
  BY DEF LeadsDone
<1> QED
  BY <1>1
  DEF LeadsDone, rowVars, funnelVars, redisVars, ledgerVars, runVars, promoVars,
      Shape, TypeOK, Tables, RunShape, PCs

\* The worker's calls after the loop.
LEMMA ScheduleRetryShape ==
  ASSUME Shape, ScheduleRetry
  PROVE  Shape'
<1>1. cur \in Exports
  BY DEF ScheduleRetry, Shape, RunShape
<1>2. due' \in SUBSET delayed' /\ delayed' \in SUBSET Exports
  BY <1>1 DEF ScheduleRetry, Shape, TypeOK
<1>3. faults' \in 0..MaxFaults
  BY FaultsBound DEF ScheduleRetry
<1>4. /\ pc' = "record"
      /\ UNCHANGED <<rowVars, funnelVars, queue, unpushed, ledgerVars, delivered, runVars,
                     promoVars>>
  BY DEF ScheduleRetry
<1> QED
  BY <1>1, <1>2, <1>3, <1>4
  DEF rowVars, funnelVars, ledgerVars, runVars, promoVars, Shape, TypeOK, Tables, RunShape, PCs

LEMMA RecordResultShape ==
  ASSUME Shape, RecordResult
  PROVE  Shape'
<1>1. cur \in Exports
  BY DEF RecordResult, Shape, RunShape
<1>2. FinalStatus \in Ended /\ Retries \in BOOLEAN
  BY DEF FinalStatus, Retries, Ended
<1>3. /\ status' \in [Exports -> {"none", "pending", "processing"} \cup Ended]
      /\ success' \in [Exports -> Nat]
      /\ fail' \in [Exports -> Nat]
      /\ retryAt' \in [Exports -> BOOLEAN]
  <2>1. CASE /\ status' = [status EXCEPT ![cur] = FinalStatus]
             /\ success' = [success EXCEPT ![cur] = good]
             /\ fail' = [fail EXCEPT ![cur] = bad]
             /\ retryAt' = [retryAt EXCEPT ![cur] = Retries]
    BY <1>1, <1>2, <2>1 DEF Shape, TypeOK
  <2>2. CASE UNCHANGED <<status, success, fail, retryAt>>
    BY <2>2 DEF Shape, TypeOK
  <2> QED
    BY <2>1, <2>2 DEF RecordResult
<1>4. faults' \in 0..MaxFaults
  BY FaultsBound DEF RecordResult
<1>5. /\ pc' = "funnel"
      /\ UNCHANGED <<attempt, funnelVars, redisVars, unpushed, ledgerVars, delivered, runVars,
                     promoVars>>
  BY DEF RecordResult
<1> QED
  BY <1>1, <1>3, <1>4, <1>5
  DEF funnelVars, redisVars, ledgerVars, runVars, promoVars, Shape, TypeOK, Tables, RunShape, PCs

LEMMA CountInFunnelShape ==
  ASSUME Shape, CountInFunnel
  PROVE  Shape'
<1>1. cur \in Exports
  BY DEF CountInFunnel, Shape, RunShape
<1>2. exported' \in [Exports -> Nat]
  <2>1. CASE exported' = [exported EXCEPT ![cur] = IF cur \in inFunnel THEN @ + good ELSE @]
    BY <1>1, <2>1 DEF Shape, TypeOK
  <2>2. CASE UNCHANGED exported
    BY <2>2 DEF Shape, TypeOK
  <2> QED
    BY <2>1, <2>2 DEF CountInFunnel
<1>3. faults' \in 0..MaxFaults
  BY FaultsBound DEF CountInFunnel
<1>4. /\ Return
      /\ UNCHANGED <<rowVars, inFunnel, redisVars, unpushed, ledgerVars, delivered, promoVars>>
  BY DEF CountInFunnel
<1> QED
  BY <1>2, <1>3, <1>4
  DEF Return, rowVars, redisVars, ledgerVars, promoVars, Shape, TypeOK, Tables, RunShape, PCs

\* The shape is an invariant of its own.
LEMMA NextShape == Shape /\ [Next]_vars => Shape'
<1> SUFFICES ASSUME Shape, [Next]_vars PROVE Shape'
  OBVIOUS
<1>1. ASSUME NEW e \in Exports,
             CreateExport(e) \/ Push(e) \/ EnterFunnel(e) \/ FallDue(e)
      PROVE  Shape'
  BY <1>1, CreateExportShape, PushShape, EnterFunnelShape, FallDueShape
<1>2. CASE Process
  BY <1>2, PopShape, MarkProcessingShape, GetIntegrationShape, LookupFailsShape,
     SendFailsShape, SendShape, ChargeShape, LeadsDoneShape, ScheduleRetryShape,
     RecordResultShape, CountInFunnelShape DEF Process
<1>3. CASE UNCHANGED vars
  BY <1>3
  DEF vars, rowVars, funnelVars, redisVars, ledgerVars, runVars, promoVars,
      Shape, TypeOK, Tables, RunShape
<1> QED
  BY <1>1, <1>2, <1>3, StartShape, PromoterShape, CrashShape DEF Next

-----------------------------------------------------------------------------
(* Every step keeps the accounts *)

\* A step that charges nothing, takes no delivery back, makes no export done, and
\* leaves the run where it is, out of its loop, at its first lead or past a failed one.
Quiet ==
  /\ UNCHANGED charges
  /\ \A e \in Exports : delivered[e] \subseteq delivered'[e]
  /\ \A e \in Exports : status'[e] = "done" => status[e] = "done"
  /\ \/ UNCHANGED <<pc, cur, pos, bad>>
     \/ pc' \in {"down", "pop", "mark", "integration", "funnel"}
     \/ pc' = "lead" /\ (pos' = 1 \/ bad' # 0)

\* A quiet step keeps what the run knows, the charges and the exports that are done.
LEMMA QuietAccounts ==
  ASSUME Shape, Shape', Accounts, Quiet
  PROVE  Accounts'
<1>1. ChargedOnlyWhenDelivered'
  BY DEF Accounts, ChargedOnlyWhenDelivered, Quiet
<1>2. DoneIsComplete'
  BY DEF Accounts, DoneIsComplete, Quiet
<1>3. RunAccounts'
  <2>1. CASE UNCHANGED <<pc, cur, pos, bad>>
    <3>1. pc = "charge" => pos \in delivered'[cur]
      BY DEF Accounts, RunAccounts, Quiet, Shape, RunShape
    <3> QED
      BY <2>1, <3>1 DEF Accounts, RunAccounts, Quiet
  <2>2. CASE pc' \in {"down", "pop", "mark", "integration", "funnel"}
    BY <2>2 DEF RunAccounts
  <2>3. CASE pc' = "lead" /\ bad' # 0
    BY <2>3 DEF RunAccounts
  <2>4. CASE pc' = "lead" /\ pos' = 1
    <3>1. cur' \in Exports
      BY <2>4 DEF Shape, RunShape
    <3>2. \A i \in DOMAIN CNPJs[cur'] : ~(i < 1)
      BY <3>1, ExportAssumption
    <3> QED
      BY <2>4, <3>2 DEF RunAccounts
  <2> QED
    BY <2>1, <2>2, <2>3, <2>4 DEF Quiet
<1> QED
  BY <1>1, <1>2, <1>3 DEF Accounts

\* Requests, the ETL and time.
LEMMA RequestsAreQuiet ==
  ASSUME Shape, NEW e \in Exports,
         CreateExport(e) \/ Push(e) \/ EnterFunnel(e) \/ FallDue(e)
  PROVE  Quiet
<1>1. UNCHANGED <<charges, delivered, pc, cur, pos, bad>>
  BY DEF CreateExport, Push, EnterFunnel, FallDue, ledgerVars, runVars
<1>2. status' = status \/ status' = [status EXCEPT ![e] = "pending"]
  BY DEF CreateExport, Push, EnterFunnel, FallDue, rowVars
<1> QED
  BY <1>1, <1>2 DEF Quiet, Shape, TypeOK

\* The promoter, the start of the process and its end.
LEMMA PromoterIsQuiet ==
  ASSUME Promoter \/ Start \/ Crash
  PROVE  Quiet
<1>1. UNCHANGED <<charges, delivered, status>>
  BY DEF Promoter, ListDue, Promote, RemovePromoted, Start, Crash, ledgerVars, rowVars
<1>2. UNCHANGED <<pc, cur, pos, bad>> \/ pc' \in {"down", "pop"}
  BY DEF Promoter, ListDue, Promote, RemovePromoted, Start, Crash, runVars
<1> QED
  BY <1>1, <1>2 DEF Quiet

\* The start and the end of a run.
LEMMA EndsAreQuiet ==
  ASSUME Shape, Pop \/ MarkProcessing \/ GetIntegration \/ CountInFunnel
  PROVE  Quiet
<1>1. UNCHANGED <<charges, delivered>>
  BY DEF Pop, MarkProcessing, GetIntegration, CountInFunnel, ledgerVars
<1>2. status' = status \/ status' = [status EXCEPT ![cur] = "processing"]
  BY DEF Pop, MarkProcessing, GetIntegration, CountInFunnel, rowVars
<1>3. \/ pc' \in {"pop", "mark", "integration"}
      \/ pc' = "lead" /\ pos' = 1
      \/ UNCHANGED <<pc, cur, pos, bad>>
  BY DEF Pop, MarkProcessing, GetIntegration, CountInFunnel, Return
<1> QED
  BY <1>1, <1>2, <1>3 DEF Quiet, Shape, TypeOK

\* A lead that fails spoils the run.
LEMMA FailuresAreQuiet ==
  ASSUME Shape, LookupFails \/ SendFails \/ ChargeRefused
  PROVE  Quiet
<1>1. UNCHANGED <<charges, status>>
  BY DEF LookupFails, SendFails, ChargeRefused, ledgerVars, rowVars
<1>2. LeadFails
  BY DEF LookupFails, SendFails, ChargeRefused
<1>3. pc' = "lead" /\ bad' # 0
  BY <1>2 DEF LeadFails, NextLead, Shape, TypeOK
<1>4. \A e \in Exports : delivered[e] \subseteq delivered'[e]
  <2>1. CASE UNCHANGED delivered
    BY <2>1
  <2>2. ASSUME NEW got, delivered' = [delivered EXCEPT ![cur] = @ \cup got]
        PROVE  \A e \in Exports : delivered[e] \subseteq delivered'[e]
    BY <2>2 DEF Shape, Tables
  <2> QED
    BY <2>1, <2>2 DEF LookupFails, SendFails, ChargeRefused
<1> QED
  BY <1>1, <1>3, <1>4 DEF Quiet

\* The lead that is sent is the one at the charge.
LEMMA SendAccounts ==
  ASSUME Shape, Accounts, Send
  PROVE  Accounts'
<1>1. /\ cur \in Exports
      /\ delivered' = [delivered EXCEPT ![cur] = @ \cup {pos}]
      /\ pc = "lead" /\ pc' = "charge"
      /\ UNCHANGED <<charges, status, cur, pos, bad>>
  BY LeadInRange DEF Send, AtLead, ledgerVars, rowVars, runVars
<1>2. /\ \A e \in Exports : delivered[e] \subseteq delivered'[e]
      /\ pos \in delivered'[cur]
  BY <1>1 DEF Shape, Tables
<1>3. RunAccounts'
  BY <1>1, <1>2 DEF Accounts, RunAccounts
<1> QED
  BY <1>1, <1>2, <1>3 DEF Accounts, ChargedOnlyWhenDelivered, DoneIsComplete

\* What a charge adds is for a lead that is delivered.
LEMMA PayForLeadAccounts ==
  ASSUME Shape, Accounts, pc = "charge", PayForLead,
         UNCHANGED <<status, delivered>>
  PROVE  /\ ChargedOnlyWhenDelivered' /\ DoneIsComplete'
         /\ \A e \in Exports : \A i \in DOMAIN CNPJs[e] :
              charges[e][i] > 0 => charges'[e][i] > 0
         /\ charges'[cur][pos] > 0
<1>1. /\ cur \in Exports /\ pos \in DOMAIN CNPJs[cur] /\ pos \in delivered[cur]
      /\ charges' = [charges EXCEPT ![cur][pos] = @ + 1]
  BY LeadInRange DEF PayForLead, Accounts, RunAccounts
<1>2. /\ charges = [e \in Exports |-> charges[e]]
      /\ \A e \in Exports : charges[e] \in [DOMAIN CNPJs[e] -> Nat]
  BY DEF Shape, TypeOK, Tables
<1>3. /\ \A e \in Exports \ {cur} : charges'[e] = charges[e]
      /\ charges'[cur] = [charges[cur] EXCEPT ![pos] = @ + 1]
  BY <1>1, <1>2
<1>4. /\ \A i \in DOMAIN CNPJs[cur] \ {pos} : charges'[cur][i] = charges[cur][i]
      /\ charges'[cur][pos] = charges[cur][pos] + 1
      /\ charges[cur][pos] \in Nat
  BY <1>1, <1>2, <1>3
<1>5. charges'[cur][pos] > 0
  BY <1>4
<1>6. \A e \in Exports : \A i \in DOMAIN CNPJs[e] : charges[e][i] > 0 => charges'[e][i] > 0
  BY <1>3, <1>4, <1>5
<1>7. \A e \in Exports : \A i \in DOMAIN CNPJs[e] :
        charges'[e][i] > 0 => charges[e][i] > 0 \/ (e = cur /\ i = pos)
  BY <1>3, <1>4
<1>8. ChargedOnlyWhenDelivered'
  BY <1>1, <1>7 DEF Accounts, ChargedOnlyWhenDelivered
<1>9. DoneIsComplete'
  BY <1>6 DEF Accounts, DoneIsComplete
<1> QED
  BY <1>5, <1>6, <1>8, <1>9

\* The loop passes a lead that was charged.
LEMMA ChargeLeadAccounts ==
  ASSUME Shape, Accounts, ChargeLead
  PROVE  Accounts'
<1>1. /\ pc = "charge" /\ PayForLead
      /\ pc' = "lead" /\ pos' = pos + 1 /\ UNCHANGED <<cur, bad, status, delivered>>
  BY DEF ChargeLead, NextLead, rowVars
<1>2. /\ ChargedOnlyWhenDelivered' /\ DoneIsComplete'
      /\ \A e \in Exports : \A i \in DOMAIN CNPJs[e] :
           charges[e][i] > 0 => charges'[e][i] > 0
      /\ charges'[cur][pos] > 0
  BY <1>1, PayForLeadAccounts
<1>3. cur \in Exports /\ pos \in Nat /\ DOMAIN CNPJs[cur] \subseteq Nat
  <2>1. cur \in Exports /\ pos \in DOMAIN CNPJs[cur] /\ CNPJs[cur] \in Seq(Nat)
    BY <1>1, LeadInRange, ExportAssumption
  <2> QED
    BY <2>1 DEF Shape, TypeOK
<1>4. \A i \in DOMAIN CNPJs[cur] : i < pos + 1 => i < pos \/ i = pos
  BY <1>3
<1>5. bad = 0 => \A i \in DOMAIN CNPJs[cur] : i < pos + 1 => charges'[cur][i] > 0
  BY <1>1, <1>2, <1>3, <1>4 DEF Accounts, RunAccounts
<1>6. RunAccounts'
  BY <1>1, <1>5 DEF RunAccounts
<1> QED
  BY <1>2, <1>6 DEF Accounts

\* A debit with an error may have been made; the run counts the lead as failed.
LEMMA ChargeErrorAccounts ==
  ASSUME Shape, Shape', Accounts, ChargeError
  PROVE  Accounts'
<1>1. /\ pc = "charge" /\ pc' = "lead" /\ bad' # 0
      /\ UNCHANGED <<status, delivered>>
  BY DEF ChargeError, LeadFails, NextLead, rowVars, Shape, TypeOK
<1>2. CASE PayForLead
  <2>1. ChargedOnlyWhenDelivered' /\ DoneIsComplete'
    BY <1>1, <1>2, PayForLeadAccounts
  <2>2. RunAccounts'
    BY <1>1 DEF RunAccounts
  <2> QED
    BY <2>1, <2>2 DEF Accounts
<1>3. CASE UNCHANGED ledgerVars
  <2>1. Quiet
    BY <1>1, <1>3 DEF Quiet, ledgerVars
  <2> QED
    BY <2>1, QuietAccounts
<1> QED
  BY <1>2, <1>3 DEF ChargeError

\* The end of the loop.
LEMMA LeadsDoneAccounts ==
  ASSUME Shape, Accounts, LeadsDone
  PROVE  Accounts'
<1>1. /\ pc = "lead" /\ pos > Len(CNPJs[cur]) /\ pc' \in {"schedule", "record"}
      /\ UNCHANGED <<charges, delivered, status, cur, pos, bad>>
  BY DEF LeadsDone, ledgerVars, rowVars, runVars
<1>2. RunAccounts'
  BY <1>1 DEF Accounts, RunAccounts
<1> QED
  BY <1>1, <1>2 DEF Accounts, ChargedOnlyWhenDelivered, DoneIsComplete

\* The retry is scheduled before the result is recorded.
LEMMA ScheduleRetryAccounts ==
  ASSUME Shape, Accounts, ScheduleRetry
  PROVE  Accounts'
<1>1. /\ pc = "schedule" /\ pc' = "record"
      /\ UNCHANGED <<charges, delivered, status, cur, pos, bad>>
  BY DEF ScheduleRetry, ledgerVars, rowVars, runVars
<1>2. RunAccounts'
  BY <1>1 DEF Accounts, RunAccounts
<1> QED
  BY <1>1, <1>2 DEF Accounts, ChargedOnlyWhenDelivered, DoneIsComplete

\* An export becomes done when its run passed every lead and none of them failed.
LEMMA RecordResultAccounts ==
  ASSUME Shape, Accounts, RecordResult
  PROVE  Accounts'
<1>1. /\ pc = "record" /\ pc' = "funnel" /\ cur \in Exports
      /\ UNCHANGED <<charges, delivered, cur>>
      /\ status' = [status EXCEPT ![cur] = FinalStatus] \/ UNCHANGED status
  BY DEF RecordResult, ledgerVars, runVars, Shape, RunShape
<1>2. ASSUME FinalStatus = "done"
      PROVE  \A i \in DOMAIN CNPJs[cur] : i \in delivered[cur] /\ charges[cur][i] > 0
  <2>1. bad = 0
    BY <1>2 DEF FinalStatus
  <2>2. pos > Len(CNPJs[cur]) /\ \A i \in DOMAIN CNPJs[cur] : i < pos => charges[cur][i] > 0
    BY <1>1, <2>1 DEF Accounts, RunAccounts
  <2>3. \A i \in DOMAIN CNPJs[cur] : i < pos
    <3>1. CNPJs[cur] \in Seq(Nat) /\ pos \in Nat
      BY <1>1, ExportAssumption DEF Shape, TypeOK
    <3> QED
      BY <2>2, <3>1
  <2> QED
    BY <1>1, <2>2, <2>3 DEF Accounts, ChargedOnlyWhenDelivered
<1>3. DoneIsComplete'
  <2>1. ASSUME NEW e \in Exports, status'[e] = "done"
        PROVE  \A i \in DOMAIN CNPJs[e] : i \in delivered[e] /\ charges[e][i] > 0
    <3>1. CASE e = cur /\ status' = [status EXCEPT ![cur] = FinalStatus]
      BY <1>1, <1>2, <2>1, <3>1 DEF Shape, TypeOK
    <3>2. CASE e # cur \/ UNCHANGED status
      <4>1. status[e] = "done"
        BY <1>1, <2>1, <3>2 DEF Shape, TypeOK
      <4> QED
        BY <4>1 DEF Accounts, DoneIsComplete
    <3> QED
      BY <1>1, <3>1, <3>2
  <2> QED
    BY <1>1, <2>1 DEF DoneIsComplete
<1>4. RunAccounts'
  BY <1>1 DEF RunAccounts
<1>5. ChargedOnlyWhenDelivered'
  BY <1>1 DEF Accounts, ChargedOnlyWhenDelivered
<1> QED
  BY <1>3, <1>4, <1>5 DEF Accounts

\* Every step is quiet or one of the five above.
LEMMA NextAccounts ==
  ASSUME Shape, Shape', Accounts, [Next]_vars
  PROVE  Accounts'
<1>1. CASE Quiet
  BY <1>1, QuietAccounts
<1>2. ASSUME NEW e \in Exports,
             CreateExport(e) \/ Push(e) \/ EnterFunnel(e) \/ FallDue(e)
      PROVE  Accounts'
  BY <1>1, <1>2, RequestsAreQuiet
<1>3. CASE Start \/ Promoter \/ Crash
  BY <1>1, <1>3, PromoterIsQuiet
<1>4. CASE Process
  BY <1>1, <1>4, EndsAreQuiet, FailuresAreQuiet, SendAccounts, ChargeLeadAccounts,
     ChargeErrorAccounts, LeadsDoneAccounts, ScheduleRetryAccounts, RecordResultAccounts
  DEF Process
<1>5. CASE UNCHANGED vars
  <2>1. Quiet
    BY <1>5 DEF vars, rowVars, ledgerVars, runVars, Quiet
  <2> QED
    BY <1>1, <2>1
<1> QED
  BY <1>2, <1>3, <1>4, <1>5 DEF Next

-----------------------------------------------------------------------------
(* How often an export is run *)

\* The places an id can be in, each of which makes for one more run of its export: how
\* often it is in the list, and whether a request has it to push, the worker has just
\* popped it, or it is in the sorted set.  While the promoter is between RPush and ZRem
\* the id it moves is in both, and counts once.
Occurrences(s, e) == Cardinality({i \in DOMAIN s : s[i] = e})
ToPush(e) == IF e \in unpushed THEN 1 ELSE 0
Popped(e) == IF pc = "mark" /\ cur = e THEN 1 ELSE 0
Kept(e) == IF e \in delayed /\ ~(promo = "remove" /\ Head(ids) = e) THEN 1 ELSE 0
Copies(e) == ToPush(e) + Occurrences(queue, e) + Popped(e) + Kept(e)

\* The run in progress, while it may schedule another one.
Running(e) == IF pc \in {"integration", "lead", "charge", "schedule"} /\ cur = e THEN 1 ELSE 0

\* The promoter has each id once, and only ids that are in the sorted set; it runs only
\* while the worker does.
PromoterIds ==
  /\ pc = "down" => promo = "down"
  /\ \A i \in DOMAIN ids : ids[i] \in delayed
  /\ \A i \in DOMAIN ids : \A j \in DOMAIN ids : i # j => ids[i] # ids[j]

\* Only a failure makes a second copy; a run is for a copy, and makes another one only
\* before the last attempt.
Bounded(e) ==
  /\ Running(e) = 1 => try = attempt[e]
  /\ status[e] = "none" => attempt[e] = 0 /\ Copies(e) = 0 /\ Running(e) = 0 /\ e \notin delayed
  /\ Copies(e) + Running(e) <= 1 + faults
  /\ attempt[e] + Copies(e) <= MaxAttempts + faults

Runs ==
  /\ PromoterIds
  /\ pc = "schedule" => try < MaxAttempts
  /\ \A e \in Exports : Bounded(e)

\* One more copy at the end of a sequence.
LEMMA OccurrencesOfAppend ==
  ASSUME NEW s \in Seq(Exports), NEW x \in Exports
  PROVE  \A e \in Exports :
           Occurrences(Append(s, x), e) = Occurrences(s, e) + (IF e = x THEN 1 ELSE 0)
<1> SUFFICES ASSUME NEW e \in Exports
             PROVE  Occurrences(Append(s, x), e)
                      = Occurrences(s, e) + (IF e = x THEN 1 ELSE 0)
  OBVIOUS
<1> DEFINE At(t) == {i \in DOMAIN t : t[i] = e}
<1>1. /\ DOMAIN s = 1..Len(s) /\ Len(s) \in Nat
      /\ DOMAIN Append(s, x) = 1..(Len(s) + 1)
      /\ \A i \in 1..Len(s) : Append(s, x)[i] = s[i]
      /\ Append(s, x)[Len(s) + 1] = x
  OBVIOUS
<1>2. IsFiniteSet(At(s))
  <2>1. IsFiniteSet(1..Len(s)) /\ At(s) \subseteq 1..Len(s)
    BY <1>1, FS_Interval
  <2> QED
    BY <2>1, FS_Subset
<1>3. At(Append(s, x)) = IF e = x THEN At(s) \cup {Len(s) + 1} ELSE At(s)
  BY <1>1
<1>4. Len(s) + 1 \notin At(s)
  BY <1>1
<1>5. Cardinality(At(s)) \in Nat
  BY <1>2, FS_CardinalityType
<1>6. Cardinality(At(s) \cup {Len(s) + 1}) = Cardinality(At(s)) + 1
  BY <1>2, <1>4, FS_AddElement
<1>7. Occurrences(Append(s, x), e) = Cardinality(At(Append(s, x)))
      /\ Occurrences(s, e) = Cardinality(At(s))
  BY DEF Occurrences
<1> HIDE DEF At
<1> QED
  BY <1>3, <1>5, <1>6, <1>7

\* One copy less without the first element.
LEMMA OccurrencesOfTail ==
  ASSUME NEW s \in Seq(Exports), s # <<>>
  PROVE  \A e \in Exports :
           Occurrences(s, e) = Occurrences(Tail(s), e) + (IF e = Head(s) THEN 1 ELSE 0)
<1> SUFFICES ASSUME NEW e \in Exports
             PROVE  Occurrences(s, e)
                      = Occurrences(Tail(s), e) + (IF e = Head(s) THEN 1 ELSE 0)
  OBVIOUS
<1> DEFINE At(t) == {i \in DOMAIN t : t[i] = e}
           next == [i \in At(Tail(s)) |-> i + 1]
           Rest == At(s) \ {1}
<1>1. /\ DOMAIN s = 1..Len(s) /\ Len(s) \in Nat \ {0}
      /\ DOMAIN Tail(s) = 1..(Len(s) - 1)
      /\ \A i \in 1..(Len(s) - 1) : Tail(s)[i] = s[i + 1]
      /\ Head(s) = s[1]
  OBVIOUS
<1>2. IsFiniteSet(At(Tail(s)))
  <2>1. IsFiniteSet(1..(Len(s) - 1)) /\ At(Tail(s)) \subseteq 1..(Len(s) - 1)
    BY <1>1, FS_Interval
  <2> QED
    BY <2>1, FS_Subset
<1>3. next \in Bijection(At(Tail(s)), Rest)
  <2>1. \A i \in At(Tail(s)) : i + 1 \in Rest
    BY <1>1
  <2>2. \A j \in Rest : j - 1 \in At(Tail(s)) /\ next[j - 1] = j
    BY <1>1
  <2>3. \A i \in At(Tail(s)) : \A j \in At(Tail(s)) : next[i] = next[j] => i = j
    BY <1>1
  <2> QED
    BY <2>1, <2>2, <2>3 DEF Bijection, Injection, Surjection, IsInjective
<1>4. IsFiniteSet(Rest) /\ Cardinality(Rest) = Cardinality(At(Tail(s)))
  BY <1>2, <1>3, FS_Bijection DEF ExistsBijection
<1>5. At(s) = IF e = Head(s) THEN Rest \cup {1} ELSE Rest
  BY <1>1
<1>6. Cardinality(Rest \cup {1}) = Cardinality(Rest) + 1
  BY <1>4, FS_AddElement
<1>7. Cardinality(Rest) \in Nat
  BY <1>4, FS_CardinalityType
<1>8. /\ Occurrences(Tail(s), e) = Cardinality(At(Tail(s)))
      /\ Occurrences(s, e) = Cardinality(At(s))
  BY DEF Occurrences
<1> HIDE DEF At, next, Rest
<1> QED
  BY <1>4, <1>5, <1>6, <1>7, <1>8

\* A sequence has an id some number of times.
LEMMA OccurrencesType ==
  ASSUME NEW s \in Seq(Exports)
  PROVE  \A e \in Exports : Occurrences(s, e) \in Nat
<1> SUFFICES ASSUME NEW e \in Exports
             PROVE  Occurrences(s, e) \in Nat
  OBVIOUS
<1>1. IsFiniteSet(1..Len(s)) /\ {i \in DOMAIN s : s[i] = e} \subseteq 1..Len(s)
  BY FS_Interval
<1>2. IsFiniteSet({i \in DOMAIN s : s[i] = e})
  BY <1>1, FS_Subset
<1> QED
  BY <1>2, FS_CardinalityType DEF Occurrences

\* The types of the counts.
CountsOf(e) ==
  /\ ToPush(e) \in 0..1 /\ Popped(e) \in 0..1 /\ Kept(e) \in 0..1
  /\ Running(e) \in 0..1
  /\ Occurrences(queue, e) \in Nat
  /\ Copies(e) \in Nat

\* Each place holds a number of copies.
LEMMA CopiesType ==
  ASSUME Shape
  PROVE  \A e \in Exports : CountsOf(e)
<1> SUFFICES ASSUME NEW e \in Exports
             PROVE  CountsOf(e)
  OBVIOUS
<1>1. /\ ToPush(e) \in 0..1 /\ Popped(e) \in 0..1 /\ Kept(e) \in 0..1
      /\ Running(e) \in 0..1
  BY DEF ToPush, Popped, Kept, Running
<1>2. Occurrences(queue, e) \in Nat
  BY OccurrencesType DEF Shape, TypeOK
<1> QED
  BY <1>1, <1>2 DEF Copies, CountsOf

\* The same after a step.
LEMMA CopiesTypeNext ==
  ASSUME Shape'
  PROVE  \A e \in Exports : CountsOf(e)'
<1> SUFFICES ASSUME NEW e \in Exports
             PROVE  CountsOf(e)'
  OBVIOUS
<1>1. /\ ToPush(e)' \in 0..1 /\ Popped(e)' \in 0..1 /\ Kept(e)' \in 0..1
      /\ Running(e)' \in 0..1
  BY DEF ToPush, Popped, Kept, Running
<1>2. Occurrences(queue', e) \in Nat
  BY OccurrencesType DEF Shape, TypeOK
<1>3. Occurrences(queue, e)' \in Nat
  BY <1>2 DEF Occurrences
<1> QED
  BY <1>1, <1>3 DEF Copies, CountsOf

\* A step that makes no copy of the id without a failure, and none of an id that is
\* nowhere; the run in progress, if it is one of this export, is the one it was.
Keeps(e) ==
  /\ attempt'[e] = attempt[e]
  /\ status'[e] = "none" => status[e] = "none"
  /\ faults <= faults'
  /\ Copies(e)' <= Copies(e) + (faults' - faults)
  /\ Copies(e)' + Running(e)' <= Copies(e) + Running(e) + (faults' - faults)
  /\ Copies(e) = 0 /\ e \notin delayed => Copies(e)' = 0 /\ e \notin delayed'
  /\ Running(e)' = 1 => Running(e) = 1 /\ try' = try

\* The bounds follow, for the export in question.
LEMMA KeepsBounded ==
  ASSUME Shape, Shape', NEW e \in Exports, Bounded(e), Keeps(e)
  PROVE  Bounded(e)'
<1>1. /\ Running(e) \in 0..1 /\ Running(e)' \in 0..1
      /\ Copies(e) \in Nat /\ Copies(e)' \in Nat
  BY CopiesType, CopiesTypeNext DEF CountsOf
<1>2. /\ attempt[e] \in Nat /\ faults \in Nat /\ faults' \in Nat
      /\ MaxAttempts \in Nat /\ MaxFaults \in Nat
  BY ExportAssumption DEF Shape, TypeOK
<1>3. Running(e)' = 1 => try' = attempt'[e]
  BY DEF Bounded, Keeps
<1>4. status'[e] = "none" =>
        attempt'[e] = 0 /\ Copies(e)' = 0 /\ Running(e)' = 0 /\ e \notin delayed'
  BY <1>1 DEF Bounded, Keeps
<1>5. Copies(e)' + Running(e)' <= 1 + faults'
  BY <1>1, <1>2 DEF Bounded, Keeps
<1>6. attempt'[e] + Copies(e)' <= MaxAttempts + faults'
  BY <1>1, <1>2 DEF Bounded, Keeps
<1> QED
  BY <1>3, <1>4, <1>5, <1>6 DEF Bounded

\* A failure counts.
LEMMA FaultsGrow ==
  ASSUME Shape, Fails \/ UNCHANGED faults
  PROVE  /\ faults \in Nat /\ faults <= faults' /\ faults' - faults \in 0..1
         /\ Fails => faults' - faults = 1
<1>1. faults \in Nat
  BY ExportAssumption DEF Shape, TypeOK
<1> QED
  BY <1>1 DEF Fails

\* A step that leaves every id where it is.
StaysPut(e) ==
  /\ UNCHANGED <<queue, delayed>>
  /\ ToPush(e)' <= ToPush(e)
  /\ Popped(e)' <= Popped(e)
  /\ promo = "remove" => UNCHANGED ids
  /\ promo = "remove" <=> promo' = "remove"

\* Staying put keeps the bounds.
LEMMA StaysPutKeeps ==
  ASSUME Shape, Shape', NEW e \in Exports, StaysPut(e), UNCHANGED attempt,
         Fails \/ UNCHANGED faults,
         status'[e] = "none" => status[e] = "none",
         Running(e)' <= Running(e),
         Running(e)' = 1 => try' = try
  PROVE  Keeps(e)
<1>1. Occurrences(queue, e)' = Occurrences(queue, e)
  BY DEF StaysPut, Occurrences
<1>2. Kept(e)' = Kept(e)
  BY DEF StaysPut, Kept
<1>3. /\ ToPush(e) \in 0..1 /\ Popped(e) \in 0..1 /\ Kept(e) \in 0..1
      /\ Running(e) \in 0..1 /\ Occurrences(queue, e) \in Nat
      /\ ToPush(e)' \in 0..1 /\ Popped(e)' \in 0..1 /\ Running(e)' \in 0..1
  BY CopiesType, CopiesTypeNext DEF CountsOf
<1>4. faults <= faults' /\ faults' - faults \in 0..1
  BY FaultsGrow
<1>5. /\ Copies(e) = ToPush(e) + Occurrences(queue, e) + Popped(e) + Kept(e)
      /\ Copies(e)' = ToPush(e)' + Occurrences(queue, e)' + Popped(e)' + Kept(e)'
  BY DEF Copies
<1>6. Copies(e)' <= Copies(e) /\ Copies(e) \in Nat /\ Copies(e)' \in Nat
  BY <1>1, <1>2, <1>3, <1>5, CopiesType, CopiesTypeNext DEF StaysPut, CountsOf
<1>7. /\ Copies(e)' <= Copies(e) + (faults' - faults)
      /\ Copies(e)' + Running(e)' <= Copies(e) + Running(e) + (faults' - faults)
      /\ Copies(e) = 0 => Copies(e)' = 0
  BY <1>3, <1>4, <1>6
<1>8. Running(e)' = 1 => Running(e) = 1 /\ try' = try
  BY <1>3
<1> QED
  BY <1>4, <1>7, <1>8 DEF Keeps, StaysPut

\* What makes for no run without a failure keeps the bounds.
LEMMA CopiesMove ==
  ASSUME Shape, Shape', NEW e \in Exports, UNCHANGED attempt,
         Fails \/ UNCHANGED faults,
         status'[e] = "none" => status[e] = "none",
         Copies(e)' <= Copies(e) + (faults' - faults),
         Copies(e) = 0 /\ e \notin delayed => Copies(e)' = 0 /\ e \notin delayed',
         Running(e)' <= Running(e),
         Running(e)' = 1 => try' = try
  PROVE  Keeps(e)
<1>1. /\ Running(e) \in 0..1 /\ Running(e)' \in 0..1
      /\ Copies(e) \in Nat /\ Copies(e)' \in Nat
  BY CopiesType, CopiesTypeNext DEF CountsOf
<1>2. faults \in Nat /\ faults <= faults' /\ faults' - faults \in 0..1
  BY FaultsGrow
<1> QED
  BY <1>1, <1>2 DEF Keeps

\* The row is made with one copy of its id, in the request.
LEMMA CreateExportRuns ==
  ASSUME Shape, Shape', Runs, NEW x \in Exports, CreateExport(x)
  PROVE  Runs'
<1>1. /\ status[x] = "none" /\ unpushed' = unpushed \cup {x}
      /\ status' = [status EXCEPT ![x] = "pending"]
      /\ UNCHANGED <<attempt, queue, delayed, pc, cur, try, promo, ids, faults>>
  BY DEF CreateExport, redisVars, runVars, promoVars
<1>2. PromoterIds' /\ (pc' = "schedule" => try' < MaxAttempts)
  BY <1>1 DEF Runs, PromoterIds
<1>3. ASSUME NEW e \in Exports
      PROVE  /\ Popped(e)' = Popped(e) /\ Kept(e)' = Kept(e) /\ Running(e)' = Running(e)
             /\ Occurrences(queue, e)' = Occurrences(queue, e)
  BY <1>1 DEF Popped, Kept, Running, Occurrences
<1>4. Bounded(x)'
  <2>1. /\ attempt[x] = 0 /\ Copies(x) = 0 /\ Running(x) = 0
        /\ MaxAttempts \in Nat \ {0} /\ faults \in Nat
    BY <1>1, ExportAssumption DEF Runs, Bounded, Shape, TypeOK
  <2>2. ToPush(x)' = 1 /\ Popped(x) = 0 /\ Kept(x) = 0 /\ Occurrences(queue, x) = 0
    <3>1. /\ ToPush(x) \in 0..1 /\ Popped(x) \in 0..1 /\ Kept(x) \in 0..1
          /\ Occurrences(queue, x) \in Nat
          /\ ToPush(x) + Occurrences(queue, x) + Popped(x) + Kept(x) = 0
      BY <2>1, CopiesType, CopiesTypeNext DEF Copies, CountsOf
    <3>2. ToPush(x)' = 1
      BY <1>1 DEF ToPush
    <3> QED
      BY <3>1, <3>2
  <2>3. Copies(x)' = 1 /\ Running(x)' = 0
    BY <1>3, <2>1, <2>2 DEF Copies
  <2>4. status'[x] # "none"
    BY <1>1 DEF Shape, TypeOK
  <2> QED
    BY <1>1, <2>1, <2>3, <2>4 DEF Bounded
<1>5. ASSUME NEW e \in Exports, e # x
      PROVE  Bounded(e)'
  <2>1. ToPush(e)' = ToPush(e)
    BY <1>1, <1>5 DEF ToPush
  <2>2. StaysPut(e)
    <3>1. /\ ToPush(e) \in 0..1 /\ Popped(e) \in 0..1
      BY CopiesType, CopiesTypeNext DEF CountsOf
    <3> QED
      BY <1>1, <1>3, <2>1, <3>1 DEF StaysPut
  <2>3. status'[e] = status[e]
    BY <1>1, <1>5 DEF Shape, TypeOK
  <2>4. Running(e)' <= Running(e)
    BY <1>3, CopiesType, CopiesTypeNext DEF CountsOf
  <2>5. Keeps(e)
    BY <1>1, <2>2, <2>3, <2>4, StaysPutKeeps
  <2> QED
    BY <2>5, KeepsBounded DEF Runs
<1> QED
  BY <1>2, <1>4, <1>5 DEF Runs

\* The request hands its copy over, or drops it.
LEMMA PushRuns ==
  ASSUME Shape, Shape', Runs, NEW x \in Exports, Push(x)
  PROVE  Runs'
<1>1. /\ x \in unpushed /\ unpushed' = unpushed \ {x}
      /\ queue' = Append(queue, x) \/ UNCHANGED queue
      /\ Fails \/ UNCHANGED faults
      /\ UNCHANGED <<status, attempt, delayed, pc, cur, try, promo, ids>>
  BY DEF Push, rowVars, runVars, promoVars
<1>2. PromoterIds' /\ (pc' = "schedule" => try' < MaxAttempts)
  BY <1>1 DEF Runs, PromoterIds
<1>3. ASSUME NEW e \in Exports
      PROVE  Bounded(e)'
  <2>1. Popped(e)' = Popped(e) /\ Kept(e)' = Kept(e) /\ Running(e)' = Running(e)
    BY <1>1 DEF Popped, Kept, Running
  <2>2. ToPush(e)' = ToPush(e) - (IF e = x THEN 1 ELSE 0)
    BY <1>1 DEF ToPush
  <2>3. /\ queue \in Seq(Exports)
        /\ Occurrences(Append(queue, x), e) = Occurrences(queue, e) + (IF e = x THEN 1 ELSE 0)
    BY OccurrencesOfAppend DEF Shape, TypeOK
  <2>4. \/ Occurrences(queue, e)' = Occurrences(queue, e) + (IF e = x THEN 1 ELSE 0)
        \/ Occurrences(queue, e)' = Occurrences(queue, e)
    BY <1>1, <2>3 DEF Occurrences
  <2>5. /\ ToPush(e) \in 0..1 /\ Popped(e) \in 0..1 /\ Kept(e) \in 0..1
        /\ Occurrences(queue, e) \in Nat /\ Running(e) \in 0..1
    BY CopiesType, CopiesTypeNext DEF CountsOf
  <2>6. /\ Copies(e)' <= Copies(e) /\ Copies(e) \in Nat /\ Copies(e)' \in Nat
    BY <2>1, <2>2, <2>4, <2>5, CopiesType, CopiesTypeNext DEF Copies, CountsOf
  <2>7. faults \in Nat /\ faults' - faults \in 0..1
    BY <1>1, FaultsGrow
  <2>8. Keeps(e)
    <3>1. /\ Copies(e)' <= Copies(e) + (faults' - faults)
          /\ Copies(e) = 0 => Copies(e)' = 0
      BY <2>6, <2>7
    <3>2. Running(e)' <= Running(e)
      BY <2>1, <2>5
    <3> QED
      BY <1>1, <3>1, <3>2, CopiesMove
  <2> QED
    BY <2>8, KeepsBounded DEF Runs
<1> QED
  BY <1>2, <1>3 DEF Runs

\* Steps of the environment that touch no id, and the start of the process.
LEMMA StillRuns ==
  ASSUME Shape, Shape', Runs,
         UNCHANGED <<status, attempt, queue, delayed, unpushed, cur, try, faults, ids>>,
         UNCHANGED <<pc, promo>> \/ (pc' = "pop" /\ promo # "remove" /\ promo' # "remove")
  PROVE  Runs'
<1>1. PromoterIds' /\ (pc' = "schedule" => try' < MaxAttempts)
  BY DEF Runs, PromoterIds
<1>2. ASSUME NEW e \in Exports
      PROVE  Bounded(e)'
  <2>1. /\ ToPush(e) \in 0..1 /\ Popped(e) \in 0..1 /\ Running(e) \in 0..1
    BY CopiesType, CopiesTypeNext DEF CountsOf
  <2>2. ToPush(e)' <= ToPush(e)
    BY <2>1 DEF ToPush
  <2>3. Popped(e)' <= Popped(e) /\ Running(e)' <= Running(e)
    BY <2>1 DEF Popped, Running
  <2>4. StaysPut(e)
    BY <2>2, <2>3 DEF StaysPut
  <2>5. Keeps(e)
    BY <2>3, <2>4, StaysPutKeeps
  <2> QED
    BY <2>5, KeepsBounded DEF Runs
<1> QED
  BY <1>1, <1>2 DEF Runs

\* A crash forgets what the requests and the worker had, and may leave a second copy of
\* the id the promoter was moving.
LEMMA CrashRuns ==
  ASSUME Shape, Shape', Runs, Crash
  PROVE  Runs'
<1>1. /\ unpushed' = {} /\ pc' = "down" /\ promo' = "down" /\ ids' = <<>> /\ Fails
      /\ UNCHANGED <<status, attempt, queue, delayed>>
  BY DEF Crash, rowVars, redisVars
<1>2. PromoterIds' /\ (pc' = "schedule" => try' < MaxAttempts)
  BY <1>1 DEF PromoterIds
<1>3. ASSUME NEW e \in Exports
      PROVE  Bounded(e)'
  <2>1. /\ ToPush(e) \in 0..1 /\ Popped(e) \in 0..1 /\ Kept(e) \in 0..1
        /\ Occurrences(queue, e) \in Nat /\ Running(e) \in 0..1
        /\ Kept(e)' \in 0..1
    BY CopiesType, CopiesTypeNext DEF CountsOf
  <2>2. ToPush(e)' = 0 /\ Popped(e)' = 0 /\ Running(e)' = 0
    BY <1>1 DEF ToPush, Popped, Running
  <2>3. Occurrences(queue, e)' = Occurrences(queue, e)
    BY <1>1 DEF Occurrences
  <2>4. faults' - faults = 1
    BY <1>1, FaultsGrow
  <2>5. Copies(e)' <= Copies(e) + (faults' - faults)
    BY <2>1, <2>2, <2>3, <2>4 DEF Copies
  <2>6. Copies(e) = 0 /\ e \notin delayed => Copies(e)' = 0 /\ e \notin delayed'
    <3>1. e \notin delayed => Kept(e)' = 0
      BY <1>1 DEF Kept
    <3> QED
      BY <1>1, <2>1, <2>2, <2>3, <3>1 DEF Copies
  <2>7. Running(e)' <= Running(e)
    BY <2>1, <2>2
  <2>8. Running(e)' # 1
    BY <2>2
  <2>9. Keeps(e)
    BY <1>1, <2>5, <2>6, <2>7, <2>8, CopiesMove
  <2> QED
    BY <2>9, KeepsBounded DEF Runs
<1> QED
  BY <1>2, <1>3 DEF Runs

\* The head of the ids is in the sorted set and nowhere else among them.
LEMMA NextIdRuns ==
  ASSUME Shape, PromoterIds, ids # <<>>
  PROVE  /\ Head(ids) \in delayed
         /\ \A D : ids' = Tail(ids) /\ delayed \ {Head(ids)} \subseteq D =>
              /\ \A i \in DOMAIN ids' : ids'[i] \in D
              /\ \A i \in DOMAIN ids' : \A j \in DOMAIN ids' : i # j => ids'[i] # ids'[j]
<1>1. ids \in Seq(Exports)
  BY DEF Shape, TypeOK
<1>2. /\ Head(ids) = ids[1] /\ 1 \in DOMAIN ids
      /\ DOMAIN Tail(ids) = 1..(Len(ids) - 1) /\ DOMAIN ids = 1..Len(ids) /\ Len(ids) \in Nat
      /\ \A i \in 1..(Len(ids) - 1) : Tail(ids)[i] = ids[i + 1]
  BY <1>1
<1>3. \A i \in DOMAIN Tail(ids) :
        /\ i + 1 \in DOMAIN ids /\ i + 1 # 1
        /\ Tail(ids)[i] = ids[i + 1]
        /\ Tail(ids)[i] \in delayed /\ Tail(ids)[i] # Head(ids)
  BY <1>2 DEF PromoterIds
<1>4. \A i \in DOMAIN Tail(ids) : \A j \in DOMAIN Tail(ids) :
        i # j => Tail(ids)[i] # Tail(ids)[j]
  <2>1. \A i \in DOMAIN Tail(ids) : \A j \in DOMAIN Tail(ids) : i # j => i + 1 # j + 1
    BY <1>2
  <2> QED
    BY <1>3, <2>1 DEF PromoterIds
<1> QED
  BY <1>2, <1>3, <1>4 DEF PromoterIds

\* What is due is in the sorted set, and listed once.
LEMMA ListDueRuns ==
  ASSUME Shape, Shape', Runs, ListDue
  PROVE  Runs'
<1>1. /\ promo = "wait" /\ promo' = "push" /\ ids' \in SetToSeqs(due) /\ due \subseteq delayed
      /\ UNCHANGED <<status, attempt, queue, delayed, unpushed, pc, cur, try, faults>>
  BY DEF ListDue, rowVars, redisVars, runVars, Shape, TypeOK
<1>2. /\ \A i \in DOMAIN ids' : ids'[i] \in delayed
      /\ \A i \in DOMAIN ids' : \A j \in DOMAIN ids' : i # j => ids'[i] # ids'[j]
  BY <1>1 DEF SetToSeqs
<1>3. PromoterIds' /\ (pc' = "schedule" => try' < MaxAttempts)
  BY <1>1, <1>2 DEF Runs, PromoterIds
<1>4. ASSUME NEW e \in Exports
      PROVE  Bounded(e)'
  <2>1. /\ ToPush(e)' = ToPush(e) /\ Popped(e)' = Popped(e) /\ Running(e)' = Running(e)
    BY <1>1 DEF ToPush, Popped, Running
  <2>2. ToPush(e)' <= ToPush(e) /\ Popped(e)' <= Popped(e) /\ Running(e)' <= Running(e)
    BY <2>1, CopiesType, CopiesTypeNext DEF CountsOf
  <2>3. StaysPut(e)
    BY <1>1, <2>2 DEF StaysPut
  <2>4. Keeps(e)
    BY <1>1, <2>2, <2>3, StaysPutKeeps
  <2> QED
    BY <2>4, KeepsBounded DEF Runs
<1> QED
  BY <1>3, <1>4 DEF Runs

\* The second copy in the list does not count until it is the only one; an id that
\* cannot be pushed stays where it is.
LEMMA PromoteRuns ==
  ASSUME Shape, Shape', Runs, Promote
  PROVE  Runs'
<1>1. /\ promo = "push"
      /\ Fails \/ UNCHANGED faults
      /\ UNCHANGED <<status, attempt, delayed, unpushed, pc, cur, try>>
  BY DEF Promote, rowVars, runVars
<1>2. /\ ids # <<>> /\ ids \in Seq(Exports) /\ Head(ids) \in delayed
      /\ Head(ids) \in Exports /\ queue \in Seq(Exports)
  BY <1>1, NextIdRuns DEF Runs, Shape, RunShape, TypeOK
<1>3. ASSUME NEW e \in Exports
      PROVE  /\ ToPush(e)' = ToPush(e) /\ Popped(e)' = Popped(e) /\ Running(e)' = Running(e)
             /\ Running(e)' <= Running(e)
             /\ ToPush(e)' <= ToPush(e) /\ Popped(e)' <= Popped(e)
  <2>1. ToPush(e)' = ToPush(e) /\ Popped(e)' = Popped(e) /\ Running(e)' = Running(e)
    BY <1>1 DEF ToPush, Popped, Running
  <2> QED
    BY <2>1, CopiesType, CopiesTypeNext DEF CountsOf
<1>4. CASE /\ queue' = Append(queue, Head(ids)) /\ promo' = "remove" /\ UNCHANGED <<ids, faults>>
  <2>1. PromoterIds' /\ (pc' = "schedule" => try' < MaxAttempts)
    BY <1>1, <1>4 DEF Runs, PromoterIds
  <2>2. ASSUME NEW e \in Exports
        PROVE  Bounded(e)'
    <3>1. Occurrences(queue, e)' = Occurrences(queue, e) + (IF e = Head(ids) THEN 1 ELSE 0)
      <4>1. Occurrences(queue, e)' = Occurrences(Append(queue, Head(ids)), e)
        BY <1>4 DEF Occurrences
      <4> QED
        BY <1>2, <4>1, OccurrencesOfAppend
    <3>2. Kept(e)' = Kept(e) - (IF e = Head(ids) THEN 1 ELSE 0)
      BY <1>1, <1>2, <1>4 DEF Kept
    <3>3. /\ ToPush(e) \in 0..1 /\ Popped(e) \in 0..1 /\ Kept(e) \in 0..1
          /\ Occurrences(queue, e) \in Nat /\ Running(e) \in 0..1
      BY CopiesType, CopiesTypeNext DEF CountsOf
    <3>4. Copies(e)' = Copies(e) /\ Copies(e) \in Nat
      BY <1>3, <3>1, <3>2, <3>3 DEF Copies
    <3>5. Copies(e)' <= Copies(e) + (faults' - faults)
      <4>1. faults \in Nat /\ faults' - faults = 0
        BY <1>4, ExportAssumption DEF Shape, TypeOK
      <4> QED
        BY <3>4, <4>1
    <3>6. Keeps(e)
      BY <1>1, <1>3, <3>4, <3>5, CopiesMove
    <3> QED
      BY <3>6, KeepsBounded DEF Runs
  <2> QED
    BY <2>1, <2>2 DEF Runs
<1>5. CASE Fails /\ NextId /\ UNCHANGED queue
  <2>1. ids' = Tail(ids) /\ promo' \in {"wait", "push"}
    BY <1>5 DEF NextId
  <2>2. /\ \A i \in DOMAIN ids' : ids'[i] \in delayed
        /\ \A i \in DOMAIN ids' : \A j \in DOMAIN ids' : i # j => ids'[i] # ids'[j]
    BY <1>2, <2>1, NextIdRuns DEF Runs
  <2>3. PromoterIds' /\ (pc' = "schedule" => try' < MaxAttempts)
    BY <1>1, <2>1, <2>2 DEF Runs, PromoterIds
  <2>4. ASSUME NEW e \in Exports
        PROVE  Bounded(e)'
    <3>1. StaysPut(e)
      BY <1>1, <1>3, <1>5, <2>1 DEF StaysPut
    <3>2. Keeps(e)
      BY <1>1, <1>3, <3>1, StaysPutKeeps
    <3> QED
      BY <3>2, KeepsBounded DEF Runs
  <2> QED
    BY <2>3, <2>4 DEF Runs
<1> QED
  BY <1>4, <1>5 DEF Promote

\* ZRem takes the copy that did not count; when it fails, that copy counts.
LEMMA RemovePromotedRuns ==
  ASSUME Shape, Shape', Runs, RemovePromoted
  PROVE  Runs'
<1>1. /\ promo = "remove" /\ NextId
      /\ Fails \/ UNCHANGED faults
      /\ UNCHANGED <<status, attempt, queue, unpushed, pc, cur, try>>
  BY DEF RemovePromoted, rowVars, runVars
<1>2. /\ ids # <<>> /\ Head(ids) \in delayed
      /\ ids' = Tail(ids) /\ promo' \in {"wait", "push"}
      /\ \/ delayed' = delayed \ {Head(ids)}
         \/ Fails /\ UNCHANGED delayed
  BY <1>1, NextIdRuns DEF RemovePromoted, NextId, Runs, Shape, RunShape
<1>3. /\ \A i \in DOMAIN ids' : ids'[i] \in delayed'
      /\ \A i \in DOMAIN ids' : \A j \in DOMAIN ids' : i # j => ids'[i] # ids'[j]
  BY <1>2, NextIdRuns DEF Runs
<1>4. PromoterIds' /\ (pc' = "schedule" => try' < MaxAttempts)
  BY <1>1, <1>2, <1>3 DEF Runs, PromoterIds
<1>5. ASSUME NEW e \in Exports
      PROVE  Bounded(e)'
  <2>1. /\ ToPush(e)' = ToPush(e) /\ Popped(e)' = Popped(e) /\ Running(e)' = Running(e)
        /\ Occurrences(queue, e)' = Occurrences(queue, e)
    BY <1>1 DEF ToPush, Popped, Running, Occurrences
  <2>2. /\ ToPush(e) \in 0..1 /\ Popped(e) \in 0..1 /\ Kept(e) \in 0..1 /\ Kept(e)' \in 0..1
        /\ Occurrences(queue, e) \in Nat /\ Running(e) \in 0..1
    BY CopiesType, CopiesTypeNext DEF CountsOf
  <2>3. faults \in Nat /\ faults' - faults \in 0..1 /\ (Fails => faults' - faults = 1)
    BY <1>1, FaultsGrow
  <2>4. Kept(e)' <= Kept(e) + (faults' - faults)
    <3>1. CASE delayed' = delayed \ {Head(ids)}
      <4>1. Kept(e)' = Kept(e)
        BY <1>1, <1>2, <3>1 DEF Kept
      <4> QED
        BY <2>2, <2>3, <4>1
    <3>2. CASE Fails
      BY <2>2, <2>3, <3>2
    <3> QED
      BY <1>2, <3>1, <3>2
  <2>5. Copies(e)' <= Copies(e) + (faults' - faults)
    BY <2>1, <2>2, <2>3, <2>4 DEF Copies
  <2>6. Copies(e) = 0 /\ e \notin delayed => Copies(e)' = 0 /\ e \notin delayed'
    <3>1. e \notin delayed => e \notin delayed' /\ Kept(e)' = 0
      BY <1>2 DEF Kept
    <3> QED
      BY <2>1, <2>2, <3>1 DEF Copies
  <2>7. Running(e)' <= Running(e)
    BY <2>1, <2>2
  <2>8. Keeps(e)
    BY <1>1, <2>5, <2>6, <2>7, CopiesMove
  <2> QED
    BY <2>8, KeepsBounded DEF Runs
<1> QED
  BY <1>4, <1>5 DEF Runs

\* What a step of the worker leaves alone, unless it is one that moves an id.
IdsStay ==
  /\ UNCHANGED <<queue, delayed, unpushed, promo, ids>>
  /\ pc # "down" /\ pc' # "down"
  /\ Fails \/ UNCHANGED faults

\* A step that goes on with the run, or ends it, or drops the id it has popped.
GoesOn ==
  /\ IdsStay
  /\ UNCHANGED attempt
  /\ \A e \in Exports : status'[e] = "none" => status[e] = "none"
  /\ pc' # "mark"
  /\ \/ pc' \in {"pop", "record", "funnel"}
     \/ /\ pc \in {"integration", "lead", "charge"}
        /\ pc' \in {"lead", "charge", "schedule"}
        /\ UNCHANGED <<cur, try>>
  /\ pc' = "schedule" => try < MaxAttempts

\* Such a step keeps the bounds.
LEMMA GoesOnRuns ==
  ASSUME Shape, Shape', Runs, GoesOn
  PROVE  Runs'
<1>1. PromoterIds' /\ (pc' = "schedule" => try' < MaxAttempts)
  BY DEF GoesOn, IdsStay, Runs, PromoterIds
<1>2. ASSUME NEW e \in Exports
      PROVE  Bounded(e)'
  <2>1. /\ ToPush(e) \in 0..1 /\ Popped(e) \in 0..1 /\ Running(e) \in 0..1
    BY CopiesType, CopiesTypeNext DEF CountsOf
  <2>2. ToPush(e)' = ToPush(e) /\ Popped(e)' = 0
    BY DEF GoesOn, IdsStay, ToPush, Popped
  <2>3. Running(e)' = 1 => Running(e) = 1 /\ try' = try
    BY DEF GoesOn, Running
  <2>4. Running(e)' <= Running(e)
    <3>1. Running(e)' \in 0..1
      BY CopiesType, CopiesTypeNext DEF CountsOf
    <3> QED
      BY <2>1, <2>3, <3>1
  <2>5. ToPush(e)' <= ToPush(e) /\ Popped(e)' <= Popped(e)
    BY <2>1, <2>2
  <2>6. StaysPut(e)
    BY <2>5 DEF StaysPut, GoesOn, IdsStay
  <2>7. UNCHANGED attempt /\ (Fails \/ UNCHANGED faults)
        /\ (status'[e] = "none" => status[e] = "none")
    BY DEF GoesOn, IdsStay
  <2>8. Keeps(e)
    BY <2>3, <2>4, <2>6, <2>7, StaysPutKeeps
  <2> QED
    BY <2>8, KeepsBounded DEF Runs
<1> QED
  BY <1>1, <1>2 DEF Runs

\* The steps of the loop, and the end of a run.
LEMMA LoopGoesOn ==
  ASSUME Shape, LookupFails \/ SendFails \/ Send \/ ChargeLead \/ ChargeRefused \/ ChargeError
  PROVE  GoesOn
<1>1. /\ UNCHANGED <<queue, delayed, unpushed, promo, ids, attempt, status>>
      /\ Fails \/ UNCHANGED faults
      /\ pc \in {"lead", "charge"} /\ pc' \in {"lead", "charge"}
      /\ UNCHANGED <<cur, try>>
  BY DEF LookupFails, SendFails, Send, ChargeLead, ChargeRefused, ChargeError, AtLead,
         LeadFails, NextLead, rowVars, redisVars, runVars, promoVars
<1> QED
  BY <1>1 DEF GoesOn, IdsStay

\* What comes before the loop, after it, and the end of a run.
LEMMA EndGoesOn ==
  ASSUME Shape, GetIntegration \/ LeadsDone \/ RecordResult \/ CountInFunnel
  PROVE  GoesOn
<1>1. /\ UNCHANGED <<queue, delayed, unpushed, promo, ids, attempt>>
      /\ Fails \/ UNCHANGED faults
  BY DEF GetIntegration, LeadsDone, RecordResult, CountInFunnel, rowVars, redisVars, promoVars
<1>2. \A e \in Exports : status'[e] = "none" => status[e] = "none"
  <2>1. CASE UNCHANGED status
    BY <2>1
  <2>2. CASE status' = [status EXCEPT ![cur] = FinalStatus]
    <3>1. FinalStatus # "none"
      BY DEF FinalStatus
    <3> QED
      BY <2>2, <3>1 DEF Shape, TypeOK
  <2> QED
    BY <2>1, <2>2 DEF GetIntegration, LeadsDone, RecordResult, CountInFunnel, rowVars
<1>3. /\ pc \in {"integration", "lead", "record", "funnel"}
      /\ \/ pc' \in {"pop", "record", "funnel"}
         \/ /\ pc \in {"integration", "lead"} /\ pc' \in {"lead", "schedule"}
            /\ UNCHANGED <<cur, try>>
      /\ pc' = "schedule" => try < MaxAttempts
  BY DEF GetIntegration, LeadsDone, Retries, RecordResult, CountInFunnel, Return, runVars
<1> QED
  BY <1>1, <1>2, <1>3 DEF GoesOn, IdsStay

\* An id that is popped is no longer in the list; it is lost when its row cannot be read.
LEMMA PopRuns ==
  ASSUME Shape, Shape', Runs, Pop
  PROVE  Runs'
<1>1. /\ pc = "pop" /\ queue # <<>> /\ queue' = Tail(queue) /\ queue \in Seq(Exports)
      /\ \/ pc' = "mark" /\ cur' = Head(queue)
         \/ UNCHANGED <<pc, cur>>
      /\ Fails \/ UNCHANGED faults
      /\ UNCHANGED <<status, attempt, delayed, unpushed, try, promo, ids>>
  BY DEF Pop, rowVars, promoVars, Shape, TypeOK
<1>2. PromoterIds' /\ (pc' = "schedule" => try' < MaxAttempts)
  BY <1>1 DEF Runs, PromoterIds
<1>3. ASSUME NEW e \in Exports
      PROVE  Bounded(e)'
  <2>1. ToPush(e)' = ToPush(e) /\ Kept(e)' = Kept(e) /\ Running(e)' = 0 /\ Popped(e) = 0
    BY <1>1 DEF ToPush, Kept, Running, Popped
  <2>2. Occurrences(queue, e) = Occurrences(queue, e)' + (IF e = Head(queue) THEN 1 ELSE 0)
    BY <1>1, OccurrencesOfTail DEF Occurrences
  <2>3. Popped(e)' <= (IF e = Head(queue) THEN 1 ELSE 0)
    BY <1>1 DEF Popped
  <2>4. /\ ToPush(e) \in 0..1 /\ Popped(e)' \in 0..1 /\ Kept(e) \in 0..1
        /\ Occurrences(queue, e) \in Nat /\ Occurrences(queue, e)' \in Nat
        /\ Running(e) \in 0..1 /\ Copies(e) \in Nat /\ Copies(e)' \in Nat
    BY CopiesType, CopiesTypeNext DEF CountsOf
  <2>5. faults \in Nat /\ faults' - faults \in 0..1
    BY <1>1, FaultsGrow
  <2>6. Copies(e)' <= Copies(e)
    BY <2>1, <2>2, <2>3, <2>4 DEF Copies
  <2>7. /\ Copies(e)' <= Copies(e) + (faults' - faults)
        /\ Copies(e) = 0 /\ e \notin delayed => Copies(e)' = 0 /\ e \notin delayed'
    BY <1>1, <2>4, <2>5, <2>6
  <2>8. Running(e)' <= Running(e) /\ Running(e)' # 1
    BY <2>1, <2>4
  <2>9. Keeps(e)
    BY <1>1, <2>7, <2>8, CopiesMove
  <2> QED
    BY <2>9, KeepsBounded DEF Runs
<1> QED
  BY <1>2, <1>3 DEF Runs

\* A run begins: its copy is used up.
LEMMA MarkProcessingRuns ==
  ASSUME Shape, Shape', Runs, MarkProcessing
  PROVE  Runs'
<1>1. /\ pc = "mark" /\ cur \in Exports
      /\ UNCHANGED <<queue, delayed, unpushed, promo, ids>>
  BY DEF MarkProcessing, redisVars, promoVars, Shape, RunShape
<1>2. CASE Fails /\ Return /\ UNCHANGED <<status, attempt>>
  <2>1. GoesOn
    BY <1>1, <1>2 DEF GoesOn, IdsStay, Return
  <2> QED
    BY <2>1, GoesOnRuns
<1>3. CASE /\ status' = [status EXCEPT ![cur] = "processing"]
           /\ attempt' = [attempt EXCEPT ![cur] = @ + 1]
           /\ pc' = "integration"
           /\ try' = attempt[cur] + 1
           /\ UNCHANGED <<cur, faults>>
  <2>1. PromoterIds' /\ (pc' = "schedule" => try' < MaxAttempts)
    BY <1>1, <1>3 DEF Runs, PromoterIds
  <2>2. ASSUME NEW e \in Exports
        PROVE  /\ ToPush(e)' = ToPush(e) /\ Kept(e)' = Kept(e)
               /\ Occurrences(queue, e)' = Occurrences(queue, e)
    BY <1>1 DEF ToPush, Kept, Occurrences
  <2>3. ASSUME NEW e \in Exports, e = cur
        PROVE  Bounded(e)'
    <3>1. Popped(e) = 1 /\ Popped(e)' = 0 /\ Running(e) = 0 /\ Running(e)' = 1
      BY <1>1, <1>3, <2>3 DEF Popped, Running
    <3>2. /\ ToPush(e) \in 0..1 /\ Kept(e) \in 0..1 /\ Occurrences(queue, e) \in Nat
          /\ Copies(e) \in Nat
      BY CopiesType DEF CountsOf
    <3>3. Copies(e)' = Copies(e) - 1
      BY <2>2, <3>1, <3>2 DEF Copies
    <3>4. faults \in Nat /\ MaxAttempts \in Nat
      BY ExportAssumption DEF Shape, TypeOK
    <3>5. /\ attempt[e] \in Nat /\ attempt'[e] = attempt[e] + 1
          /\ status'[e] # "none"
      BY <1>3, <2>3 DEF Shape, TypeOK
    <3>6. /\ Copies(e) + Running(e) <= 1 + faults
          /\ attempt[e] + Copies(e) <= MaxAttempts + faults
      BY DEF Runs, Bounded
    <3>7. /\ Copies(e)' + Running(e)' <= 1 + faults'
          /\ attempt'[e] + Copies(e)' <= MaxAttempts + faults'
      BY <1>3, <3>1, <3>2, <3>3, <3>4, <3>5, <3>6
    <3>8. try' = attempt'[e]
      BY <1>3, <2>3, <3>5
    <3> QED
      BY <3>5, <3>7, <3>8 DEF Bounded
  <2>4. ASSUME NEW e \in Exports, e # cur
        PROVE  Bounded(e)'
    <3>1. Popped(e)' = Popped(e) /\ Running(e)' = Running(e) /\ Popped(e) = 0 /\ Running(e) = 0
      BY <1>1, <1>3, <2>4 DEF Popped, Running
    <3>2. Copies(e)' = Copies(e)
      BY <2>2, <3>1 DEF Copies
    <3>3. attempt'[e] = attempt[e] /\ status'[e] = status[e] /\ faults' = faults
      BY <1>3, <2>4 DEF Shape, TypeOK
    <3> QED
      BY <1>1, <3>1, <3>2, <3>3 DEF Runs, Bounded
  <2> QED
    BY <2>1, <2>3, <2>4 DEF Runs
<1> QED
  BY <1>2, <1>3 DEF MarkProcessing

\* A run that is not the last attempt makes one more copy, of its own id.
LEMMA ScheduleRetryRuns ==
  ASSUME Shape, Shape', Runs, ScheduleRetry
  PROVE  Runs'
<1>1. /\ pc = "schedule" /\ pc' = "record" /\ cur \in Exports /\ try < MaxAttempts
      /\ UNCHANGED <<status, attempt, queue, unpushed, cur, try, promo, ids>>
      /\ Fails \/ UNCHANGED faults
      /\ delayed' = delayed \cup {cur} \/ UNCHANGED delayed
  BY DEF ScheduleRetry, rowVars, runVars, promoVars, Shape, RunShape, Runs
<1>2. PromoterIds' /\ (pc' = "schedule" => try' < MaxAttempts)
  BY <1>1 DEF Runs, PromoterIds
<1>3. ASSUME NEW e \in Exports
      PROVE  /\ ToPush(e)' = ToPush(e) /\ Popped(e)' = Popped(e)
             /\ Occurrences(queue, e)' = Occurrences(queue, e)
             /\ Running(e)' = 0
  BY <1>1 DEF ToPush, Popped, Occurrences, Running
<1>4. ASSUME NEW e \in Exports
      PROVE  Bounded(e)'
  <2>1. /\ ToPush(e) \in 0..1 /\ Popped(e) \in 0..1 /\ Kept(e) \in 0..1 /\ Kept(e)' \in 0..1
        /\ Occurrences(queue, e) \in Nat /\ Running(e) \in 0..1 /\ Copies(e) \in Nat
    BY CopiesType, CopiesTypeNext DEF CountsOf
  <2>2. faults \in Nat /\ faults' \in Nat /\ faults <= faults'
    <3>1. faults \in Nat /\ faults <= faults'
      BY <1>1, FaultsGrow
    <3>2. faults' \in 0..MaxFaults /\ MaxFaults \in Nat
      BY ExportAssumption DEF Shape, TypeOK
    <3> QED
      BY <3>1, <3>2
  <2>3. CASE e # cur
    <3>1. Kept(e)' = Kept(e)
      BY <1>1, <2>3 DEF Kept
    <3>2. Copies(e)' = Copies(e)
      BY <1>3, <3>1 DEF Copies
    <3>3. Running(e) = 0
      BY <2>3 DEF Running
    <3>4. e \notin delayed => e \notin delayed'
      BY <1>1, <2>3
    <3>5. Copies(e)' <= Copies(e) + (faults' - faults) /\ Running(e)' <= Running(e)
      <4>1. Running(e)' = 0
        BY <1>3
      <4> QED
        BY <2>1, <2>2, <3>2, <3>3, <4>1
    <3>6. Keeps(e)
      BY <1>1, <1>3, <3>2, <3>4, <3>5, CopiesMove
    <3> QED
      BY <3>6, KeepsBounded DEF Runs
  <2>4. CASE e = cur
    <3>1. Running(e) = 1
      BY <1>1, <2>4 DEF Running
    <3>2. /\ attempt[e] < MaxAttempts /\ status[e] # "none"
          /\ Copies(e) + Running(e) <= 1 + faults
      BY <1>1, <3>1 DEF Runs, Bounded
    <3>3. Copies(e)' <= Copies(e) + 1 /\ Copies(e)' \in Nat
      BY <1>3, <2>1, CopiesType, CopiesTypeNext DEF Copies, CountsOf
    <3>4. attempt[e] \in Nat /\ MaxAttempts \in Nat
      BY ExportAssumption DEF Shape, TypeOK
    <3>5. /\ Copies(e)' + Running(e)' <= 1 + faults'
          /\ attempt[e] + Copies(e)' <= MaxAttempts + faults'
      <4>1. Running(e)' = 0
        BY <1>3
      <4> QED
        BY <2>1, <2>2, <3>1, <3>2, <3>3, <3>4, <4>1
    <3>6. attempt'[e] = attempt[e] /\ status'[e] # "none" /\ Running(e)' = 0
      BY <1>1, <1>3, <3>2
    <3> QED
      BY <3>5, <3>6 DEF Bounded
  <2> QED
    BY <2>3, <2>4
<1> QED
  BY <1>2, <1>4 DEF Runs

\* Nothing is anywhere at the start, and every step keeps the bounds.
LEMMA InitRuns == Init => Runs
<1> SUFFICES ASSUME Init PROVE Runs
  OBVIOUS
<1>1. PromoterIds /\ pc # "schedule"
  BY DEF Init, PromoterIds
<1>2. ASSUME NEW e \in Exports
      PROVE  Bounded(e)
  <2>1. ToPush(e) = 0 /\ Popped(e) = 0 /\ Kept(e) = 0 /\ Running(e) = 0
    BY DEF Init, ToPush, Popped, Kept, Running
  <2>2. Occurrences(queue, e) = 0
    <3>1. {i \in DOMAIN queue : queue[i] = e} = {}
      BY DEF Init
    <3> QED
      BY <3>1, FS_EmptySet DEF Occurrences
  <2>3. attempt[e] = 0 /\ faults = 0 /\ MaxAttempts \in Nat /\ e \notin delayed
    BY ExportAssumption DEF Init
  <2>4. Copies(e) = 0
    BY <2>1, <2>2 DEF Copies
  <2> QED
    BY <2>1, <2>3, <2>4 DEF Bounded
<1> QED
  BY <1>1, <1>2 DEF Runs

\* The steps one by one.
LEMMA NextRuns ==
  ASSUME Shape, Shape', Runs, [Next]_vars
  PROVE  Runs'
<1>1. ASSUME NEW e \in Exports, EnterFunnel(e) \/ FallDue(e)
      PROVE  Runs'
  <2>1. UNCHANGED <<status, attempt, queue, delayed, unpushed, cur, try, faults, ids, pc, promo>>
    BY <1>1 DEF EnterFunnel, FallDue, rowVars, redisVars, runVars, promoVars
  <2> QED
    BY <2>1, StillRuns
<1>2. CASE Start
  <2>1. /\ UNCHANGED <<status, attempt, queue, delayed, unpushed, cur, try, faults, ids>>
        /\ pc' = "pop" /\ promo # "remove" /\ promo' # "remove"
    BY <1>2 DEF Start, rowVars, redisVars, runVars, Runs, PromoterIds
  <2> QED
    BY <2>1, StillRuns
<1>3. CASE UNCHANGED vars
  <2>1. UNCHANGED <<status, attempt, queue, delayed, unpushed, cur, try, faults, ids, pc, promo>>
    BY <1>3 DEF vars, rowVars, redisVars, runVars, promoVars
  <2> QED
    BY <2>1, StillRuns
<1>4. CASE Promoter
  BY <1>4, ListDueRuns, PromoteRuns, RemovePromotedRuns DEF Promoter
<1>5. CASE Process
  BY <1>5, PopRuns, MarkProcessingRuns, ScheduleRetryRuns, LoopGoesOn, EndGoesOn, GoesOnRuns
  DEF Process
<1>6. ASSUME NEW e \in Exports, CreateExport(e) \/ Push(e)
      PROVE  Runs'
  BY <1>6, CreateExportRuns, PushRuns
<1> QED
  BY <1>1, <1>2, <1>3, <1>4, <1>5, <1>6, CrashRuns DEF Next

-----------------------------------------------------------------------------
(* What the funnel reports *)

\* The leads the run in progress has charged, and not yet reported.
Unreported(e) == IF cur = e THEN good ELSE 0

\* A run starts its count at none, and what it counted and what was reported before it
\* were charged.
Funnel ==
  /\ pc \in {"down", "pop", "mark", "integration"} => good = 0
  /\ \A e \in Exports : exported[e] + Unreported(e) <= Total(e)

\* The charges of an export are whole numbers, for finitely many leads.
LEMMA ChargesAreFinite ==
  ASSUME Shape, NEW e \in Exports
  PROVE  /\ IsFiniteSet(DOMAIN CNPJs[e]) /\ DOMAIN charges[e] = DOMAIN CNPJs[e]
         /\ \A i \in DOMAIN CNPJs[e] : charges[e][i] \in Int
         /\ Total(e) = SumFunctionOnSet(charges[e], DOMAIN CNPJs[e])
         /\ Total(e) \in Int
<1>1. /\ CNPJs[e] \in Seq(Nat) /\ charges[e] \in [DOMAIN CNPJs[e] -> Nat]
  BY ExportAssumption DEF Shape, TypeOK
<1>2. DOMAIN CNPJs[e] = 1..Len(CNPJs[e]) /\ Len(CNPJs[e]) \in Nat
  BY <1>1
<1>3. IsFiniteSet(DOMAIN CNPJs[e])
  BY <1>2, FS_Interval
<1>4. DOMAIN charges[e] = DOMAIN CNPJs[e] /\ \A i \in DOMAIN CNPJs[e] : charges[e][i] \in Int
  BY <1>1
<1>5. Total(e) = SumFunctionOnSet(charges[e], DOMAIN CNPJs[e])
  BY <1>4 DEF Total, SumFunction
<1>6. SumFunctionOnSet(charges[e], DOMAIN CNPJs[e]) \in Int
  BY <1>3, <1>4, SumRemove
<1> QED
  BY <1>3, <1>4, <1>5, <1>6

\* A charge adds one to the total of its export and to no other.
LEMMA PayForLeadTotal ==
  ASSUME Shape, Shape', pc = "charge", PayForLead, NEW e \in Exports
  PROVE  Total(e)' = IF e = cur THEN Total(e) + 1 ELSE Total(e)
<1>1. /\ cur \in Exports /\ pos \in DOMAIN CNPJs[cur]
      /\ charges' = [charges EXCEPT ![cur][pos] = @ + 1]
  BY LeadInRange DEF PayForLead
<1>2. /\ charges = [x \in Exports |-> charges[x]]
      /\ charges[cur] \in [DOMAIN CNPJs[cur] -> Nat]
  BY <1>1 DEF Shape, TypeOK, Tables
<1>3. /\ e # cur => charges'[e] = charges[e]
      /\ e = cur => charges'[e] = [charges[e] EXCEPT ![pos] = @ + 1]
  BY <1>1, <1>2
<1>4. CASE e # cur
  BY <1>3, <1>4 DEF Total
<1>5. CASE e = cur
  <2> DEFINE S == DOMAIN CNPJs[e]
             f == charges[e]
             g == charges'[e]
             a == SumFunctionOnSet(f, S)
             b == SumFunctionOnSet(g, S)
             r == SumFunctionOnSet(f, S \ {pos})
             q == SumFunctionOnSet(g, S \ {pos})
  <2>1. /\ IsFiniteSet(S) /\ pos \in S
        /\ \A i \in S : f[i] \in Int
        /\ a = Total(e)
    BY <1>1, <1>5, ChargesAreFinite
  <2>2. /\ g[pos] = f[pos] + 1
        /\ \A i \in S \ {pos} : g[i] = f[i]
        /\ DOMAIN g = S
    BY <1>1, <1>2, <1>3, <1>5
  <2>3. b = Total(e)'
    BY <2>2 DEF Total, SumFunction
  <2>4. \A i \in S : g[i] \in Int
    BY <2>1, <2>2
  <2> HIDE DEF S, f, g
  <2>5. a = f[pos] + r
    BY <2>1, SumRemove
  <2>6. b = g[pos] + q
    BY <2>1, <2>4, SumRemove
  <2>7. IsFiniteSet(S \ {pos})
    BY <2>1, FS_Subset
  <2>8. r = q
    BY <2>1, <2>2, <2>7, SumEqual
  <2>9. r \in Int
    BY <2>1, <2>7, SumRemove
  <2>10. f[pos] \in Int
    BY <2>1
  <2> HIDE DEF a, b, r, q
  <2>11. b = a + 1
    BY <2>2, <2>5, <2>6, <2>8, <2>9, <2>10
  <2> QED
    BY <1>5, <2>1, <2>3, <2>11
<1> QED
  BY <1>4, <1>5

\* A step that charges and reports nothing, and counts nothing in the run.
FunnelStays ==
  /\ UNCHANGED <<charges, exported>>
  /\ good' = 0 \/ UNCHANGED <<cur, good>>
  /\ pc' \in {"down", "pop", "mark", "integration"} => good' = 0

\* Such a step keeps the bound on what was reported.
LEMMA FunnelStaysFunnel ==
  ASSUME Shape, Shape', Funnel, FunnelStays
  PROVE  Funnel'
<1>1. ASSUME NEW e \in Exports
      PROVE  exported'[e] + Unreported(e)' <= Total(e)'
  <2>1. exported[e] + Unreported(e) <= Total(e)
    BY DEF Funnel
  <2>2. Total(e)' = Total(e) /\ exported'[e] = exported[e]
    BY DEF FunnelStays, Total
  <2>3. Unreported(e)' = 0 \/ Unreported(e)' = Unreported(e)
    BY DEF FunnelStays, Unreported
  <2>4. exported[e] \in Nat /\ Unreported(e) \in Nat /\ Total(e) \in Int
    <3>1. Total(e) \in Int
      BY ChargesAreFinite
    <3> QED
      BY <3>1 DEF Shape, TypeOK, Unreported
  <2> QED
    BY <2>1, <2>2, <2>3, <2>4
<1> QED
  BY <1>1 DEF Funnel, FunnelStays

\* Steps outside the worker, and steps of the worker that charge and report nothing.
LEMMA OthersStay ==
  ASSUME Shape, Funnel,
         \/ \E e \in Exports : CreateExport(e) \/ Push(e) \/ EnterFunnel(e) \/ FallDue(e)
         \/ Start \/ Promoter \/ Crash \/ UNCHANGED vars
  PROVE  FunnelStays
<1>1. UNCHANGED <<charges, exported>>
  BY DEF CreateExport, Push, EnterFunnel, FallDue, Start, Promoter, ListDue, Promote,
         RemovePromoted, Crash, vars, funnelVars, ledgerVars
<1>2. \/ good' = 0
      \/ UNCHANGED <<cur, good>> /\ (UNCHANGED pc \/ pc = "down")
  BY DEF CreateExport, Push, EnterFunnel, FallDue, Start, Promoter, ListDue, Promote,
         RemovePromoted, Crash, vars, runVars
<1> QED
  BY <1>1, <1>2 DEF FunnelStays, Funnel

\* The worker's steps other than the charges and the report.
LEMMA WorkerStays ==
  ASSUME Shape, Funnel,
         \/ Pop \/ MarkProcessing \/ GetIntegration \/ LookupFails \/ SendFails \/ Send
         \/ ChargeRefused \/ LeadsDone \/ ScheduleRetry \/ RecordResult
  PROVE  FunnelStays
<1>1. UNCHANGED <<charges, exported>>
  BY DEF Pop, MarkProcessing, GetIntegration, LookupFails, SendFails, Send, ChargeRefused,
         LeadsDone, ScheduleRetry, RecordResult, funnelVars, ledgerVars
<1>2. \/ good' = 0
      \/ UNCHANGED good /\ pc \in {"pop", "mark", "integration"}
      \/ UNCHANGED <<cur, good>> /\ pc' \in {"lead", "charge", "schedule", "record", "funnel"}
  BY DEF Pop, MarkProcessing, GetIntegration, LookupFails, SendFails, Send, ChargeRefused,
         LeadsDone, ScheduleRetry, RecordResult, LeadFails, NextLead, Return, runVars, AtLead
<1> QED
  BY <1>1, <1>2 DEF FunnelStays, Funnel

\* A charge is counted by the run at most once.
LEMMA ChargeFunnel ==
  ASSUME Shape, Shape', Funnel, ChargeLead \/ ChargeError
  PROVE  Funnel'
<1>1. /\ pc = "charge" /\ pc' = "lead" /\ cur \in Exports
      /\ UNCHANGED <<cur, exported>>
      /\ \/ PayForLead /\ (good' = good + 1 \/ good' = good)
         \/ UNCHANGED <<charges, good>>
  BY LeadInRange
  DEF ChargeLead, ChargeError, NextLead, LeadFails, funnelVars, ledgerVars
<1>2. CASE PayForLead /\ (good' = good + 1 \/ good' = good)
  <2>1. ASSUME NEW e \in Exports
        PROVE  exported'[e] + Unreported(e)' <= Total(e)'
    <3>1. exported[e] + Unreported(e) <= Total(e)
      BY DEF Funnel
    <3>2. exported[e] \in Nat /\ good \in Nat /\ Total(e) \in Int
      <4>1. Total(e) \in Int
        BY ChargesAreFinite
      <4> QED
        BY <4>1 DEF Shape, TypeOK
    <3>3. Total(e)' = IF e = cur THEN Total(e) + 1 ELSE Total(e)
      BY <1>1, <1>2, PayForLeadTotal
    <3>4. CASE e = cur
      <4>1. Unreported(e) = good /\ Unreported(e)' = good'
        BY <1>1, <3>4 DEF Unreported
      <4>2. Total(e)' = Total(e) + 1 /\ exported'[e] = exported[e]
        BY <1>1, <3>3, <3>4
      <4> QED
        BY <1>2, <3>1, <3>2, <4>1, <4>2
    <3>5. CASE e # cur
      <4>1. Unreported(e) = 0 /\ Unreported(e)' = 0
        BY <1>1, <3>5 DEF Unreported
      <4>2. Total(e)' = Total(e) /\ exported'[e] = exported[e]
        BY <1>1, <3>3, <3>5
      <4> QED
        BY <3>1, <3>2, <4>1, <4>2
    <3> QED
      BY <3>4, <3>5
  <2> QED
    BY <1>1, <2>1 DEF Funnel
<1>3. CASE UNCHANGED <<charges, good>>
  <2>1. FunnelStays
    BY <1>1, <1>3 DEF FunnelStays
  <2> QED
    BY <2>1, FunnelStaysFunnel
<1> QED
  BY <1>1, <1>2, <1>3

\* What is reported is what the run has charged, and the run is over.
LEMMA CountInFunnelFunnel ==
  ASSUME Shape, Shape', Funnel, CountInFunnel
  PROVE  Funnel'
<1>1. /\ cur \in Exports /\ good' = 0 /\ UNCHANGED charges
      /\ \/ exported' = [exported EXCEPT ![cur] = IF cur \in inFunnel THEN @ + good ELSE @]
         \/ UNCHANGED exported
  BY DEF CountInFunnel, Return, ledgerVars, Shape, RunShape
<1>2. ASSUME NEW e \in Exports
      PROVE  exported'[e] + Unreported(e)' <= Total(e)'
  <2>1. exported[e] + Unreported(e) <= Total(e)
    BY DEF Funnel
  <2>2. Total(e)' = Total(e) /\ Unreported(e)' = 0
    BY <1>1 DEF Total, Unreported
  <2>3. /\ exported[e] \in Nat /\ exported \in [Exports -> Nat] /\ good \in Nat
        /\ Unreported(e) \in Nat /\ Total(e) \in Int
    <3>1. Total(e) \in Int
      BY ChargesAreFinite
    <3> QED
      BY <3>1 DEF Shape, TypeOK, Unreported
  <2>4. exported'[e] = exported[e] \/ (e = cur /\ exported'[e] = exported[e] + good)
    BY <1>1, <2>3
  <2>5. e = cur => Unreported(e) = good
    BY DEF Unreported
  <2> QED
    BY <2>1, <2>2, <2>3, <2>4, <2>5
<1> QED
  BY <1>1, <1>2 DEF Funnel

\* Nothing is charged or reported at the start, and every step keeps the bound.
LEMMA InitFunnel == Init => Funnel
<1> SUFFICES ASSUME Init PROVE Funnel
  OBVIOUS
<1>1. ASSUME NEW e \in Exports
      PROVE  exported[e] + Unreported(e) <= Total(e)
  <2>1. exported[e] = 0 /\ Unreported(e) = 0
    BY <1>1 DEF Init, Unreported
  <2>2. Shape
    BY InitInv DEF IInv
  <2>3. \A i \in DOMAIN CNPJs[e] : charges[e][i] = 0
    BY <1>1 DEF Init
  <2>4. Total(e) = 0
    BY <2>2, <2>3, ChargesAreFinite, SumZero
  <2> QED
    BY <2>1, <2>4
<1> QED
  BY <1>1 DEF Init, Funnel

\* The other steps are charges and the report.
LEMMA NextFunnel ==
  ASSUME Shape, Shape', Funnel, [Next]_vars
  PROVE  Funnel'
<1>1. CASE FunnelStays
  BY <1>1, FunnelStaysFunnel
<1>2. CASE ChargeLead \/ ChargeError
  BY <1>2, ChargeFunnel
<1>3. CASE CountInFunnel
  BY <1>3, CountInFunnelFunnel
<1> QED
  BY <1>1, <1>2, <1>3, OthersStay, WorkerStays DEF Next, Process

-----------------------------------------------------------------------------
(* The theorems *)

\* The three parts hold together, each of them given the shape of the state.
LEMMA Invariance == Spec => [](IInv /\ Runs /\ Funnel)
<1>1. Init => IInv /\ Runs /\ Funnel
  BY InitInv, InitRuns, InitFunnel
<1>2. IInv /\ Runs /\ Funnel /\ [Next]_vars => (IInv /\ Runs /\ Funnel)'
  <2> SUFFICES ASSUME IInv, Runs, Funnel, [Next]_vars
               PROVE  IInv' /\ Runs' /\ Funnel'
    OBVIOUS
  <2>1. Shape /\ Shape'
    BY NextShape DEF IInv
  <2>2. Accounts'
    BY <2>1, NextAccounts DEF IInv
  <2> QED
    BY <2>1, <2>2, NextRuns, NextFunnel DEF IInv
<1> QED
  BY <1>1, <1>2, PTL DEF Spec

\* Every variable keeps its type: no balance becomes negative, and what is delivered
\* are leads of the export (Worker.process, for any number of leads and attempts).
THEOREM TypeCorrect == Spec => []TypeOK
<1>1. IInv => TypeOK
  BY DEF IInv, Shape
<1> QED
  BY <1>1, Invariance, PTL

\* Whatever calls fail, and however often an export is run again, a lead is charged
\* only when the CRM has it (ExportCompany before Deduct in Worker.process).
THEOREM ChargesFollowDeliveries == Spec => []ChargedOnlyWhenDelivered
<1>1. IInv => ChargedOnlyWhenDelivered
  BY DEF IInv, Accounts
<1> QED
  BY <1>1, Invariance, PTL

\* An export that is "done" has every lead delivered and charged, although its last
\* run alone decides the status (the switch over failCount in Worker.process).
THEOREM DoneMeansComplete == Spec => []DoneIsComplete
<1>1. IInv => DoneIsComplete
  BY DEF IInv, Accounts
<1> QED
  BY <1>1, Invariance, PTL

\* An export is run at most maxAttempts times, and once more for each call that failed or
\* crash that was, whatever the promoter and the worker do in between (the ZAdd of
\* Worker.process, RPush and ZRem of promoteDelayed).
THEOREM RunsWithinAttempts == Spec => []RunsAreBounded
<1>1. IInv /\ Runs => RunsAreBounded
  <2> SUFFICES ASSUME Shape, Runs, NEW e \in Exports
               PROVE  attempt[e] <= MaxAttempts + faults
    BY DEF IInv, RunsAreBounded
  <2>1. Copies(e) \in Nat
    BY CopiesType, CopiesTypeNext DEF CountsOf
  <2>2. attempt[e] \in Nat /\ MaxAttempts \in Nat /\ faults \in Nat
    BY ExportAssumption DEF Shape, TypeOK
  <2> QED
    BY <2>1, <2>2 DEF Runs, Bounded
<1> QED
  BY <1>1, Invariance, PTL

\* The funnel never reports more leads of an export than were charged for it, however many
\* runs it took (successCount, Deduct and IncrFunnelExported in Worker.process).
THEOREM FunnelIsPaid == Spec => []FunnelWithinCharges
<1>1. IInv /\ Funnel => FunnelWithinCharges
  <2> SUFFICES ASSUME Shape, Funnel, NEW e \in Exports
               PROVE  exported[e] <= Total(e)
    BY DEF IInv, FunnelWithinCharges
  <2>1. Total(e) \in Int
    BY ChargesAreFinite
  <2>2. exported[e] \in Nat /\ Unreported(e) \in Nat
    BY DEF Shape, TypeOK, Unreported
  <2> QED
    BY <2>1, <2>2 DEF Funnel
<1> QED
  BY <1>1, Invariance, PTL
=============================================================================
