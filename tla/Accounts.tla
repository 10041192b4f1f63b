------------------------------ MODULE Accounts ------------------------------
(***************************************************************************)
(* Registration, login and API keys, behind the rate limiter.              *)
(*                                                                         *)
(* Each request has a database session of its own, whose writes the others *)
(* see when it commits: get_db_session commits once the answer has been    *)
(* sent, and rolls back when a statement raises.  A row is named by the    *)
(* request that inserted it, a password by the registration it was chosen  *)
(* in, and an API key or a token by the request that answered with it.     *)
(***************************************************************************)
EXTENDS RateLimiter

CONSTANTS Logins,          \* the calls of the limiter that log in; the others register
          Keyed,           \* the requests that carry a key or a token
          Email,           \* Email[r]: the address registration r is for
          Scenarios,       \* the sets of requests that are made in one behaviour
          DatabaseFails    \* may a statement or a commit raise

Nobody == "nobody"

ASSUME AccountsAssumption ==
    /\ Logins \subseteq Calls
    /\ Keyed \cap Calls = {}
    /\ Nobody \notin Calls \cup Keyed
    /\ Scenarios \subseteq SUBSET (Calls \cup Keyed)
    /\ DatabaseFails \in BOOLEAN

VARIABLES users,      \* the registrations whose row is committed
          keys,       \* the requests whose API key is committed
          revoked,    \* the keys whose revoked_at is set and committed
          written,    \* written[q]: what q has written and not committed
          at,         \* at[q]: where the handler of q is
          answer,     \* answer[q]: what q was answered
          clients,    \* the requests that are made
          account,    \* account[q]: the registration whose password login q sends,
                      \*             or that the credential of q turns out to name
          ask,        \* ask[a]: what keyed request a carries and wants
          known,      \* observed: the logins sent when their account was committed
          promised,   \* observed: the logins sent when it was answered for
          dead        \* observed: the keyed requests sent with, or for, a revoked key

tables == <<users, keys, revoked>>
sends == <<clients, ask, known, promised, dead>>
accountVars == <<tables, written, at, answer, account, sends>>
vars == <<limiterVars, accountVars>>

Registers == Calls \ Logins
Requests == Calls \cup Keyed

Writes == {"user", "key", "revoke"}
Places == {"new", "insert", "key", "credential", "identity", "work", "revoke",
           "respond", "commit", "done"}
Answers == {"none", "ok", "conflict", "limited", "unauthorized", "missing", "error"}

\* The requests whose answer handed out an API key.
KeyHolders == {q \in Requests \ Logins : answer[q] = "ok"
                                         /\ (q \in Keyed => ask[q].op = "create")}
Tokens == {l \in Logins : answer[l] = "ok"}

TypeOK ==
    /\ LimiterTypeOK
    /\ users \subseteq Registers
    /\ keys \subseteq Registers \cup Keyed
    /\ revoked \subseteq keys
    /\ written \in [Requests -> SUBSET Writes]
    /\ at \in [Requests -> Places]
    /\ answer \in [Requests -> Answers]
    /\ clients \in Scenarios
    /\ account \in [Requests -> Registers \cup {Nobody}]
    /\ ask \in [Keyed -> [cred : Requests \cup {Nobody}, op : {"create", "revoke", "list"},
                          key : Requests \cup {Nobody}]]
    /\ known \subseteq Logins /\ promised \subseteq Logins /\ dead \subseteq Keyed

Init ==
    /\ LimiterInit
    /\ users = {} /\ keys = {} /\ revoked = {}
    /\ written = [q \in Requests |-> {}]
    /\ at = [q \in Requests |-> "new"]
    /\ answer = [q \in Requests |-> "none"]
    /\ clients \in Scenarios
    /\ account = [q \in Requests |-> Nobody]
    /\ ask = [a \in Keyed |-> [cred |-> Nobody, op |-> "list", key |-> Nobody]]
    /\ known = {} /\ promised = {} /\ dead = {}

-----------------------------------------------------------------------------
(***************************************************************************)
(* The request's session.                                                  *)
(***************************************************************************)

Goes(q, from, to) == at[q] = from /\ at' = [at EXCEPT ![q] = to]

\* A request that has written nothing ends with its answer.
EndsWith(q, from, what) ==
    /\ Goes(q, from, "done")
    /\ answer' = [answer EXCEPT ![q] = what]
    /\ UNCHANGED <<tables, written>>

Proceeds(q, from, to) ==
    /\ Goes(q, from, to)
    /\ UNCHANGED <<tables, written, answer>>

Write(q, from, what, to) ==
    /\ Goes(q, from, to)
    /\ written' = [written EXCEPT ![q] = @ \cup {what}]
    /\ UNCHANGED <<tables, answer>>

\* The answer leaves before the session commits.
Respond(q) ==
    /\ Goes(q, "respond", "commit")
    /\ answer' = [answer EXCEPT ![q] = "ok"]
    /\ UNCHANGED <<limiterVars, tables, written, account, sends>>

\* Mutant: the revocation is committed whether its key is or not.
CommitRevokesUnseen(q) ==
    /\ Goes(q, "commit", "done")
    /\ users' = users \cup {r \in {q} : "user" \in written[q]}
    /\ keys' = keys
    /\ revoked' = revoked \cup {k \in {q} : "key" \in written[q]}
    /\ written' = [written EXCEPT ![q] = {}]
    /\ UNCHANGED <<limiterVars, answer, account, sends>>

\* Mutant: a revocation deletes the row.
CommitDeletesKey(q) ==
    /\ Goes(q, "commit", "done")
    /\ users' = users \cup {r \in {q} : "user" \in written[q]}
    /\ keys' = (keys \cup {k \in {q} : "key" \in written[q]})
                   \ {k \in keys : "revoke" \in written[q] /\ k = ask[q].key}
    /\ revoked' = revoked
    /\ written' = [written EXCEPT ![q] = {}]
    /\ UNCHANGED <<limiterVars, answer, account, sends>>

Commit(q) ==
    /\ Goes(q, "commit", "done")
    /\ users' = users \cup {r \in {q} : "user" \in written[q]}
    /\ keys' = keys \cup {k \in {q} : "key" \in written[q]}
    /\ revoked' = revoked \cup {k \in keys : "revoke" \in written[q] /\ k = ask[q].key}
    /\ written' = [written EXCEPT ![q] = {}]
    /\ UNCHANGED <<limiterVars, answer, account, sends>>

\* The session is rolled back; what was answered stays answered.
Abort(q) ==
    /\ at' = [at EXCEPT ![q] = "done"]
    /\ answer' = [answer EXCEPT ![q] = IF @ = "none" THEN "error" ELSE @]
    /\ written' = [written EXCEPT ![q] = {}]
    /\ UNCHANGED tables

Handling(q) ==
    /\ at[q] # "done"
    /\ IF q \in Calls THEN step[q] = "admitted" ELSE at[q] # "new"

\* Mutant: the connection returns to the pool with the transaction open.
FailsKeepingLocks(q) ==
    /\ DatabaseFails
    /\ Handling(q)
    /\ at' = [at EXCEPT ![q] = "done"]
    /\ answer' = [answer EXCEPT ![q] = IF @ = "none" THEN "error" ELSE @]
    /\ UNCHANGED <<limiterVars, tables, written, account, sends>>

\* A statement or the commit raises.
Fails(q) ==
    /\ DatabaseFails
    /\ Handling(q)
    /\ Abort(q)
    /\ UNCHANGED <<limiterVars, account, sends>>

-----------------------------------------------------------------------------
(***************************************************************************)
(* enforce_auth_rate_limit, register and login.                            *)
(***************************************************************************)

\* The client sends the request, and its call of check begins.
SendRegister(r) ==
    /\ r \in Registers
    /\ ReadClock(r)
    /\ UNCHANGED accountVars

SendLogin(l) ==
    /\ l \in Logins
    /\ ReadClock(l)
    /\ \E r \in Registers \cap clients :
         /\ account' = [account EXCEPT ![l] = r]
         /\ known' = known \cup {m \in {l} : r \in users}
         /\ promised' = promised \cup {m \in {l} : answer[r] = "ok"}
    /\ UNCHANGED <<tables, written, at, answer, clients, ask, dead>>

RateLimit(c) ==
    /\ ReadWindow(c) \/ Count(c)
    /\ UNCHANGED accountVars

TooManyAttempts(c) ==
    /\ step[c] = "refused"
    /\ EndsWith(c, "new", "limited")
    /\ UNCHANGED <<limiterVars, account, sends>>

SameEmail(r) == {s \in Registers : Email[s] = Email[r]}

\* get_by_email finds the account, or the registration goes on.
RegisterRead(r) ==
    /\ step[r] = "admitted"
    /\ \/ SameEmail(r) \cap users # {} /\ EndsWith(r, "new", "conflict")
       \/ SameEmail(r) \cap users = {} /\ Proceeds(r, "new", "insert")
    /\ UNCHANGED <<limiterVars, account, sends>>

\* Mutant: ix_users_email is not unique.
InsertUserUnindexed(r) ==
    /\ Write(r, "insert", "user", "key")
    /\ UNCHANGED <<limiterVars, account, sends>>

\* Mutant: the user is committed with a session of its own.
InsertUserCommitted(r) ==
    /\ SameEmail(r) \cap users = {}
    /\ Goes(r, "insert", "key")
    /\ users' = users \cup {r}
    /\ UNCHANGED <<limiterVars, keys, revoked, written, answer, account, sends>>

\* The insert waits for an open insert of the same address, then finds it committed
\* or goes on.
InsertUser(r) ==
    /\ \A s \in SameEmail(r) \ {r} : "user" \notin written[s]
    /\ \/ SameEmail(r) \cap users # {} /\ at[r] = "insert" /\ Abort(r)
       \/ SameEmail(r) \cap users = {} /\ Write(r, "insert", "user", "key")
    /\ UNCHANGED <<limiterVars, account, sends>>

InsertKey(q) ==
    /\ Write(q, "key", "key", "respond")
    /\ UNCHANGED <<limiterVars, account, sends>>

\* Mutant: an account whose first key is revoked cannot log in.
LoginReadNeedsKey(l) ==
    /\ step[l] = "admitted"
    /\ \/ account[l] \in users \ revoked /\ EndsWith(l, "new", "ok")
       \/ account[l] \notin users \ revoked /\ EndsWith(l, "new", "unauthorized")
    /\ UNCHANGED <<limiterVars, account, sends>>

\* The row of the address holds the password that was sent, or does not.
LoginRead(l) ==
    /\ step[l] = "admitted"
    /\ \/ account[l] \in users /\ EndsWith(l, "new", "ok")
       \/ account[l] \notin users /\ EndsWith(l, "new", "unauthorized")
    /\ UNCHANGED <<limiterVars, account, sends>>

Register(r) == RegisterRead(r) \/ InsertUser(r)
HandleCall(c) ==
    \/ TooManyAttempts(c)
    \/ c \in Registers /\ Register(c)
    \/ c \in Logins /\ LoginRead(c)

-----------------------------------------------------------------------------
(***************************************************************************)
(* get_current_user, create_api_key, revoke_api_key and list_api_keys.     *)
(***************************************************************************)

Owner(k) == IF k \in Registers THEN k ELSE account[k]

\* What a client can send with the keys and tokens it was given.
Wishes ==
    [cred : KeyHolders \cup Tokens, op : {"create", "list"}, key : {Nobody}]
    \cup [cred : KeyHolders \cup Tokens, op : {"revoke"}, key : KeyHolders]

SendKeyed(a) ==
    /\ Goes(a, "new", "credential")
    /\ \E w \in Wishes :
         /\ ask' = [ask EXCEPT ![a] = w]
         /\ dead' = dead \cup {b \in {a} : {w.cred, w.key} \cap revoked # {}}
    /\ UNCHANGED <<limiterVars, tables, written, answer, account, clients, known, promised>>

\* The key exists and is not revoked, or the token has not expired.
Names(cred, r) ==
    \/ cred \in keys \ revoked /\ r = Owner(cred)
    \/ cred \in Logins /\ r = account[cred]

Rejected(cred) == cred \in Logins \/ cred \notin keys \ revoked

\* Mutant: is_revoked is not asked.
ReadCredentialRevokedToo(a) ==
    /\ \/ \E r \in Registers :
            /\ Names(ask[a].cred, r) \/ (ask[a].cred \in revoked /\ r = Owner(ask[a].cred))
            /\ Proceeds(a, "credential", "identity")
            /\ account' = [account EXCEPT ![a] = r]
       \/ Rejected(ask[a].cred) /\ EndsWith(a, "credential", "unauthorized")
          /\ UNCHANGED account
    /\ UNCHANGED <<limiterVars, sends>>

ReadCredential(a) ==
    /\ \/ \E r \in Registers :
            /\ Names(ask[a].cred, r)
            /\ Proceeds(a, "credential", "identity")
            /\ account' = [account EXCEPT ![a] = r]
       \/ Rejected(ask[a].cred) /\ EndsWith(a, "credential", "unauthorized")
          /\ UNCHANGED account
    /\ UNCHANGED <<limiterVars, sends>>

ReadUser(a) ==
    /\ IF account[a] \in users
       THEN Proceeds(a, "identity", IF ask[a].op = "create" THEN "key" ELSE "work")
       ELSE EndsWith(a, "identity", "unauthorized")
    /\ UNCHANGED <<limiterVars, account, sends>>

ListKeys(a) ==
    /\ ask[a].op = "list"
    /\ EndsWith(a, "work", "ok")
    /\ UNCHANGED <<limiterVars, account, sends>>

\* Mutant: the query of revoke does not ask for the user.
RevocableByAnyone(k, r) == k \in keys \ revoked

Revocable(k, r) == k \in keys \ revoked /\ Owner(k) = r

RevokeRead(a) ==
    /\ ask[a].op = "revoke"
    /\ \/ Revocable(ask[a].key, account[a]) /\ Proceeds(a, "work", "revoke")
       \/ ~Revocable(ask[a].key, account[a]) /\ EndsWith(a, "work", "missing")
    /\ UNCHANGED <<limiterVars, account, sends>>

\* The UPDATE waits for an open one of the same row, and does not look at revoked_at.
RevokeWrite(a) ==
    /\ \A b \in Keyed \ {a} : ask[b].key = ask[a].key => "revoke" \notin written[b]
    /\ Write(a, "revoke", "revoke", "respond")
    /\ UNCHANGED <<limiterVars, account, sends>>

HandleKeyed(a) ==
    ReadCredential(a) \/ ReadUser(a) \/ ListKeys(a) \/ RevokeRead(a) \/ RevokeWrite(a)

-----------------------------------------------------------------------------
Session(q) == Respond(q) \/ Commit(q) \/ InsertKey(q)

\* What the server does for a request that was sent.
Serve(q) ==
    \/ Session(q)
    \/ q \in Calls /\ (RateLimit(q) \/ HandleCall(q))
    \/ q \in Keyed /\ HandleKeyed(q)

Send(q) ==
    /\ q \in clients
    /\ SendRegister(q) \/ SendLogin(q) \/ (q \in Keyed /\ SendKeyed(q))

Next ==
    \/ Tick /\ UNCHANGED accountVars
    \/ \E q \in Requests : Send(q) \/ Serve(q) \/ Fails(q)

Spec == Init /\ [][Next]_vars
FairSpec == Spec /\ WF_vars(\E q \in Requests : Serve(q))

-----------------------------------------------------------------------------
\* The two tables implement the abstract book of accounts: what the sessions write piece
\* by piece appears in one step, for one account of its address, and stays.
Book == INSTANCE AccountBook WITH
            Registrations <- Registers, Creations <- Keyed, Email <- Email,
            users <- users, owner <- [k \in keys |-> Owner(k)], revoked <- revoked
RefinesBook == Book!BookSpec

\* Two registrations of one address are never both kept: when both were answered 201,
\* the commit of one failed after its answer.
OneAccount ==
    \A r, s \in Registers :
        r # s /\ Email[r] = Email[s] /\ answer[r] = "ok" /\ answer[s] = "ok"
            => \E t \in {r, s} : at[t] = "done" /\ t \notin users

\* A user row is committed together with its first key, and a key never without the user
\* that get_current_user looks up for it.
WholeAccounts ==
    /\ users = keys \cap Registers
    /\ \A k \in keys : Owner(k) \in users

\* A request sent after the revocation of its key was committed is refused, and so is
\* a second revocation, whatever other sessions were open at the time.
RevokedIsDead == \A a \in dead : answer[a] # "ok"

\* A key is revoked by its own account only: behind every revocation is a request that
\* was answered for it and carried a credential of the account the key belongs to.
OwnersRevoke ==
    \A k \in revoked : \E a \in Keyed :
        /\ ask[a].op = "revoke" /\ ask[a].key = k /\ answer[a] = "ok"
        /\ Owner(ask[a].cred) = Owner(k)

\* Nobody waits for somebody who waits: the session whose open insert or UPDATE another
\* one needs to end is on its way to its commit, and a failure closes it.
WaitsFor(q, s) ==
    \/ at[q] = "insert" /\ s \in SameEmail(q) \ {q} /\ "user" \in written[s]
    \/ /\ at[q] = "revoke" /\ s \in Keyed \ {q} /\ "revoke" \in written[s]
       /\ ask[s].key = ask[q].key
NoStandstill ==
    \A q, s \in Requests : WaitsFor(q, s) => at[s] \in {"key", "respond", "commit"}

\* Once its account is committed, a login with its password is never told 401.
CommittedCanLogIn == \A l \in known : answer[l] # "unauthorized"

\* register logs in as soon as it is answered "so account creation is one step"
\* (phase-7.md): the login of an account that was answered for is not told 401.
RegisteredCanLogIn == \A l \in promised : answer[l] # "unauthorized"

Sent(q) == IF q \in Calls THEN step[q] # "idle" ELSE at[q] # "new"

\* No request waits for ever for another one's insert or row lock: again and again, all
\* that were sent have ended.
RequestsEnd == []<>(\A q \in Requests : Sent(q) => at[q] = "done")
=============================================================================
