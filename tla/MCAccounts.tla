----------------------------- MODULE MCAccounts -----------------------------
(***************************************************************************)
(* Instances of Accounts for TLC.                                          *)
(***************************************************************************)
EXTENDS Accounts, TLC

\* No property names a user, an organization or a slot.
AccountSymmetry ==
    Permutations(Users) \cup Permutations(Organizations) \cup Permutations(Requests)

=============================================================================
