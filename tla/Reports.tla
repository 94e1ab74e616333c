------------------------------- MODULE Reports -------------------------------
(***************************************************************************)
(* The queries behind the cost reports and the dashboards, as operators    *)
(* over the sets of rows they read:                                        *)
(*   - ListUsers, GetUser, GetOrgDetail, GetUserHistory, GetOrgCosts,      *)
(*     GetSellerProfile, ListSellerSearches (orgadmin and admin);          *)
(*   - GetKPIs and GetDailyConsumption (analytics).                        *)
(*                                                                         *)
(* A row of a table is named by its id; its columns are the constant       *)
(* functions below.  The periods of the cost reports are left out: all     *)
(* rows are recent.                                                        *)
(***************************************************************************)
EXTENDS Integers, FiniteSets, Functions

CONSTANTS Orgs,      \* organisations
          Users,     \* users
          Txs,       \* rows of tb_credit_transactions
          Searches,  \* rows of tb_searches
          Exports,   \* rows of tb_export_queue
          Home,      \* Home[u]: the organisation of user u
          Author,    \* Author[x]: the user of a transaction, search or export
          OrgOf,     \* OrgOf[x]: the organisation of a transaction or a search
          Amount,    \* Amount[t]: negative for a debit
          Ref,       \* Ref[t]: reference_id
          Day,       \* Day[t]: the day of created_at
          Null       \* SQL's NULL

ASSUME ReportsAssumption ==
  /\ IsFiniteSet(Txs) /\ IsFiniteSet(Searches) /\ IsFiniteSet(Exports)
  /\ IsFiniteSet(Users)
  /\ Home \in [Users -> Orgs]
  /\ Amount \in [Txs -> Int]
  /\ Day \in [Txs -> Nat]
  /\ Txs \cap Searches = {}
  /\ Null \notin Txs \cup Searches \cup Exports \cup Users

Size == [t \in Txs |-> IF Amount[t] < 0 THEN -Amount[t] ELSE Amount[t]]
Debits(T) == {t \in T : Amount[t] < 0}
Spending(T) == SumFunctionOnSet(Size, Debits(T))

By(u, rows) == {x \in rows : Author[x] = u}

-----------------------------------------------------------------------------
(* Cost reports *)

\* Mutant of Pad: JOIN instead of LEFT JOIN.
PadNothing(S) == S

\* One side of a LEFT JOIN: a row of NULLs when nothing matches.
Pad(S) == IF S = {} THEN {Null} ELSE S

\* The rows that ListUsers, GetUser, GetOrgDetail, the statistics of GetUserHistory and
\* GetOrgCosts group for one user.
JoinOf(u, T, S, X) == Pad(By(u, S)) \X Pad(By(u, X)) \X Pad(By(u, T))

\* COUNT(DISTINCT s.id), COUNT(DISTINCT e.id)
SearchCount(u, T, S, X) == Cardinality({j[1] : j \in JoinOf(u, T, S, X)} \ {Null})
ExportCount(u, T, S, X) == Cardinality({j[2] : j \in JoinOf(u, T, S, X)} \ {Null})

\* SUM(ABS(ct.amount)) FILTER (WHERE ct.amount < 0), over the rows of the join
CreditsConsumed(u, T, S, X) ==
  LET join == JoinOf(u, T, S, X)
      debit == [j \in join |-> IF j[3] = Null THEN 0 ELSE Spending({j[3]})]
  IN  SumFunctionOnSet(debit, join)

\* GetSellerProfile: a subselect of its own.
ConsumedMonth(u, T) == Spending(By(u, T))

\* GetOrgCosts: the total, and the users listed beside it.
TotalConsumed(o, T) == Spending({t \in T : OrgOf[t] = o})
Sellers(o, deleted) == {u \in Users \ deleted : Home[u] = o}

\* GetUserHistory, ListSellerSearches: the searches of a user in the own organisation, with
\* a row for each debit of a search, or one with 0.
InHome(u, S) == {s \in By(u, S) : OrgOf[s] = Home[u]}
History(u, T, S) ==
  UNION {{s} \X Pad({t \in Debits(T) : Ref[t] = s}) : s \in InHome(u, S)}

\* What its rows show, COALESCE(ABS(ct.amount), 0), together.
HistoryTotal(u, T, S) ==
  LET rows == History(u, T, S)
      shown == [h \in rows |-> IF h[2] = Null THEN 0 ELSE Size[h[2]]]
  IN  SumFunctionOnSet(shown, rows)

-----------------------------------------------------------------------------
(* Dashboards *)

\* eh_entrada of the row that processCredits inserts for a transaction; its creditos is Size.
Entry(t) == Amount[t] > 0

\* facts[t] rows of fato_consumo_creditos are of t.
Credits(facts) == [t \in Txs |-> facts[t] * Size[t]]

\* GetKPIs from one day to another.
Kpi(o, facts, entry, from, to) ==
  SumFunctionOnSet(Credits(facts),
    {t \in Txs : OrgOf[t] = o /\ (Entry(t) <=> entry) /\ Day[t] \in from..to})

\* GetDailyConsumption, one day of it.
DailyCredits(o, facts, day) ==
  SumFunctionOnSet(Credits(facts), {t \in Txs : OrgOf[t] = o /\ ~Entry(t) /\ Day[t] = day})
=============================================================================
