---- MODULE MCAccounts ----
(***************************************************************************)
(* Accounts with three registrations, of which two are for one address.    *)
(***************************************************************************)
EXTENDS Accounts, TLC

CONSTANTS r1, r2, r3, shared, other

MCEmail == r1 :> shared @@ r2 :> shared @@ r3 :> other
====
