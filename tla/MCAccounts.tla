----------------------------- MODULE MCAccounts -----------------------------
(* Model values and bounds for checking Accounts with TLC: one organisation with two *)
(* administrators, one that is to be made, and one address nobody has.               *)
EXTENDS Accounts, TLC

CONSTANTS vantaggio, acme, beta, root, ana, bob, eve, i1, p1, p2

MCEmployer == [u \in {ana, bob} |-> acme]
Symmetry == Permutations({p1, p2})
=============================================================================
