---------------------------- MODULE AccountBook ----------------------------
(***************************************************************************)
(* What the accounts API promises of its two tables, whatever sessions,    *)
(* locks and failures lie behind them: an account appears together with    *)
(* its first key and is the only one of its address, a key belongs to one  *)
(* account for ever, and a revocation is never undone.  Accounts           *)
(* implements it.                                                          *)
(***************************************************************************)
CONSTANTS Registrations,   \* the accounts that may be opened, and their first keys
          Creations,       \* the keys that may be issued later
          Email            \* Email[r]: the address registration r is for

VARIABLES users,           \* the accounts
          owner,           \* owner[k]: the account of key k, for the keys issued so far
          revoked          \* the keys that open nothing any more

bookVars == <<users, owner, revoked>>

Issued == DOMAIN owner

BookInit == users = {} /\ owner = [k \in {} |-> k] /\ revoked = {}

AddKey(k, u) ==
    /\ k \notin Issued
    /\ owner' = [i \in Issued \cup {k} |-> IF i = k THEN u ELSE owner[i]]

OpenAccount(r) ==
    /\ \A s \in users : Email[s] # Email[r]
    /\ users' = users \cup {r}
    /\ AddKey(r, r)
    /\ UNCHANGED revoked

IssueKey(k) ==
    /\ \E u \in users : AddKey(k, u)
    /\ UNCHANGED <<users, revoked>>

RevokeKey(k) ==
    /\ k \in Issued \ revoked
    /\ revoked' = revoked \cup {k}
    /\ UNCHANGED <<users, owner>>

BookNext ==
    \/ \E r \in Registrations : OpenAccount(r)
    \/ \E k \in Creations : IssueKey(k)
    \/ \E k \in Registrations \cup Creations : RevokeKey(k)

BookSpec == BookInit /\ [][BookNext]_bookVars
=============================================================================
