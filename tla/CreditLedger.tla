---------------------------- MODULE CreditLedger ----------------------------
(***************************************************************************)
(* What the credit subsystem promises to everybody who spends credits:     *)
(* each organisation has a balance; a debit takes effect in one step, only *)
(* when the balance covers all of it, and a purchase adds to the balance.  *)
(*                                                                         *)
(* Credits.tla, which has the rows, locks and transactions of the          *)
(* implementation, is shown to implement this module.  The modules of the  *)
(* components that spend credits use its actions as their view of a        *)
(* committed debit.                                                        *)
(***************************************************************************)
EXTENDS Integers

CONSTANTS Orgs,      \* organisations
          MaxInt     \* largest value of a column of SQL type INT

VARIABLES balance,   \* balance[o]: credits organisation o can spend
          spent      \* spent[o]: sum of the committed debits of o

ledgerVars == <<balance, spent>>

LedgerInit ==
  /\ balance = [o \in Orgs |-> 0]
  /\ spent = [o \in Orgs |-> 0]

\* Deduct followed by the caller's Commit: all of the amount or nothing.
Debit(o, amount) ==
  /\ amount <= balance[o]
  /\ balance' = [balance EXCEPT ![o] = @ - amount]
  /\ spent' = [spent EXCEPT ![o] = @ + amount]

\* AddCredits: a purchase that does not fit the column is refused.
Purchase(o, amount) ==
  /\ balance[o] + amount <= MaxInt
  /\ balance' = [balance EXCEPT ![o] = @ + amount]
  /\ UNCHANGED spent

LedgerNext ==
  \E o \in Orgs, amount \in 1..MaxInt : Debit(o, amount) \/ Purchase(o, amount)

LedgerSpec == LedgerInit /\ [][LedgerNext]_ledgerVars
=============================================================================
