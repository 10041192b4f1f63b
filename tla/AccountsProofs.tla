--------------------------- MODULE AccountsProofs ---------------------------
(***************************************************************************)
(* Theorems about Accounts for every set of requests, every assignment of  *)
(* addresses and every failure of the database.                            *)
(***************************************************************************)
EXTENDS Accounts, RateLimiterProofs

\* Where a handler can be, by the kind of its request.
PlaceInv ==
    \A q \in Requests :
        /\ q \in Logins => at[q] \in {"new", "done"}
        /\ q \in Registers
             => at[q] \in {"new", "insert", "key", "respond", "commit", "done"}
        /\ q \in Keyed => at[q] # "insert"
        /\ q \in Calls /\ step[q] \notin {"admitted", "refused"} => at[q] = "new"
        /\ at[q] \notin {"commit", "done"} => answer[q] = "none"

\* What a session holds there.
WrittenInv ==
    \A q \in Requests :
        /\ "user" \in written[q]
             <=> q \in Registers /\ at[q] \in {"key", "respond", "commit"}
        /\ "key" \in written[q] => at[q] \in {"respond", "commit"} /\ q \notin Logins
        /\ q \in Registers /\ at[q] \in {"respond", "commit"} => "key" \in written[q]

\* A committed row was inserted by a request that has ended.
EndedInv == \A q \in users \cup keys : at[q] = "done"

\* One address, one row, committed or not.
AddressInv ==
    \A r, s \in Registers :
        r # s /\ Email[r] = Email[s]
            => /\ ~("user" \in written[r] /\ "user" \in written[s])
               /\ ~(r \in users /\ s \in users)
               /\ ~("user" \in written[r] /\ s \in users)

\* A keyed request that got past its credential names a committed account.
OwnerInv ==
    /\ users = keys \cap Registers
    /\ \A k \in keys \cap Keyed : account[k] \in users
    /\ \A a \in Keyed :
         at[a] \in {"key", "work", "revoke", "respond", "commit"} => account[a] \in users

\* How far a request comes that was sent with a revoked key, or to revoke one.
DeadInv ==
    \A a \in dead :
        /\ answer[a] # "ok"
        /\ \/ /\ ask[a].cred \in revoked
              /\ at[a] \in {"credential", "done"}
           \/ /\ ask[a].op = "revoke" /\ ask[a].key \in revoked
              /\ at[a] \in {"credential", "identity", "work", "done"}

\* A login that was sent after the commit of its account finds it.
KnownInv ==
    \A l \in known :
        account[l] \in users /\ step[l] # "idle" /\ answer[l] # "unauthorized"

Inv ==
    /\ TypeOK /\ PlaceInv /\ WrittenInv /\ EndedInv /\ AddressInv /\ OwnerInv
    /\ DeadInv /\ KnownInv

-----------------------------------------------------------------------------
\* The kinds of requests.
LEMMA Kinds ==
  /\ Requests = Calls \cup Keyed /\ Calls = Registers \cup Logins
  /\ Registers \cap Logins = {} /\ Registers \cap Keyed = {} /\ Logins \cap Keyed = {}
  /\ Nobody \notin Requests
  BY AccountsAssumption DEF Requests, Registers

LEMMA InvInit == Init => Inv
  <1> SUFFICES ASSUME Init PROVE Inv
    OBVIOUS
  <1>1. LimiterTypeOK
    BY FullInit DEF Init, FullInv
  <1>2. TypeOK
    BY <1>1, Kinds DEF Init, TypeOK, Places, Answers
  <1>3. PlaceInv /\ WrittenInv /\ EndedInv /\ AddressInv
    BY Kinds DEF Init, PlaceInv, WrittenInv, EndedInv, AddressInv
  <1>4. OwnerInv /\ DeadInv /\ KnownInv
    BY Kinds DEF Init, OwnerInv, DeadInv, KnownInv
  <1> QED
    BY <1>2, <1>3, <1>4 DEF Inv

-----------------------------------------------------------------------------
(***************************************************************************)
(* The limiter does not notice the rest.                                   *)
(***************************************************************************)

\* A step of the limiter, or one that leaves it alone.
LEMMA LimiterStep ==
  ASSUME Inv, Next
  PROVE  LimiterNext \/ UNCHANGED limiterVars
  <1>1. CASE Tick /\ UNCHANGED accountVars
    BY <1>1 DEF LimiterNext
  <1>2. CASE \E q \in Requests : Send(q)
    <2> PICK q \in Requests : Send(q)
      BY <1>2
    <2>1. CASE SendRegister(q) \/ SendLogin(q)
      BY <2>1, Kinds DEF SendRegister, SendLogin, LimiterNext, Check
    <2>2. CASE q \in Keyed /\ SendKeyed(q)
      BY <2>2 DEF SendKeyed
    <2> QED
      BY <2>1, <2>2 DEF Send
  <1>3. CASE \E q \in Requests : Serve(q)
    <2> PICK q \in Requests : Serve(q)
      BY <1>3
    <2>1. CASE Session(q)
      BY <2>1 DEF Session, Respond, Commit, InsertKey
    <2>2. CASE q \in Calls /\ RateLimit(q)
      BY <2>2 DEF RateLimit, LimiterNext, Check
    <2>3. CASE HandleCall(q)
      BY <2>3 DEF HandleCall, TooManyAttempts, Register, RegisterRead, InsertUser, LoginRead
    <2>4. CASE HandleKeyed(q)
      BY <2>4 DEF HandleKeyed, ReadCredential, ReadUser, ListKeys, RevokeRead, RevokeWrite
    <2> QED
      BY <2>1, <2>2, <2>3, <2>4 DEF Serve
  <1>4. CASE \E q \in Requests : Fails(q)
    BY <1>4 DEF Fails
  <1> QED
    BY <1>1, <1>2, <1>3, <1>4 DEF Next

\* The limiter's types hold after it, and its other variables are of no concern here.
LEMMA LimiterTypes ==
  ASSUME LimiterTypeOK, LimiterNext \/ UNCHANGED limiterVars
  PROVE  LimiterTypeOK'
  <1>1. CASE Tick
    BY <1>1 DEF Tick, LimiterTypeOK, limiter, locals, observed
  <1>2. CASE \E c \in Calls : Check(c)
    BY <1>2, LimiterTypeStep
  <1>3. CASE UNCHANGED limiterVars
    BY <1>3 DEF LimiterTypeOK, limiterVars, limiter, locals, observed
  <1> QED
    BY <1>1, <1>2, <1>3 DEF LimiterNext

\* A step of check leaves idle threads idle, but for the one it starts.
LEMMA StepsForward ==
  ASSUME LimiterTypeOK, NEW c \in Calls, Check(c)
  PROVE  /\ \A d \in Calls : step'[d] # "idle" \/ step[d] = "idle"
         /\ \A d \in Calls : step[d] \in {"admitted", "refused"} => step'[d] = step[d]
         /\ \A d \in Calls \ {c} : step'[d] = step[d]
  BY DEF LimiterTypeOK, Check, ReadClock, ReadWindow, Count, Admit, Refuse, MoveTo

-----------------------------------------------------------------------------
(***************************************************************************)
(* Every action keeps the invariant.                                       *)
(***************************************************************************)

\* The limiter alone: a thread moves and nothing else does.
LEMMA QuietStep ==
  ASSUME Inv, LimiterNext, UNCHANGED accountVars
  PROVE  Inv'
  <1> USE DEF accountVars, tables, sends
  <1>1. TypeOK'
    BY LimiterTypes DEF Inv, TypeOK, KeyHolders
  <1>2. /\ \A d \in Calls : step'[d] # "idle" \/ step[d] = "idle"
        /\ \A d \in Calls : step[d] \in {"admitted", "refused"} => step'[d] = step[d]
    BY StepsForward DEF LimiterNext, Tick, Inv, TypeOK
  <1>3. PlaceInv'
    <2>1. at' = at /\ answer' = answer
      OBVIOUS
    <2>2. \A q \in Calls : step'[q] \notin {"admitted", "refused"}
                            => step[q] \notin {"admitted", "refused"}
      BY <1>2
    <2> QED
      BY <2>1, <2>2 DEF Inv, PlaceInv
  <1>4. KnownInv'
    BY <1>2, Kinds DEF Inv, TypeOK, KnownInv
  <1>5. WrittenInv' /\ EndedInv' /\ AddressInv' /\ OwnerInv' /\ DeadInv'
    BY DEF Inv, WrittenInv, EndedInv, AddressInv, OwnerInv, DeadInv
  <1> QED
    BY <1>1, <1>3, <1>4, <1>5 DEF Inv

\* A login names its account when it is sent.
LEMMA SendLoginStep ==
  ASSUME Inv, NEW l \in Requests, SendLogin(l)
  PROVE  Inv'
  <1> USE Kinds DEF SendLogin, tables
  <1> PICK r \in Registers : /\ account' = [account EXCEPT ![l] = r]
                             /\ known' = known \cup {m \in {l} : r \in users}
    OBVIOUS
  <1>0. l \in Logins /\ l \in Calls /\ ReadClock(l)
    OBVIOUS
  <1>1. TypeOK'
    BY <1>0, LimiterTypes DEF Inv, TypeOK, LimiterNext, Check
  <1>2. /\ \A d \in Calls : step'[d] # "idle" \/ step[d] = "idle"
        /\ \A d \in Calls : step[d] \in {"admitted", "refused"} => step'[d] = step[d]
    BY <1>0, StepsForward DEF Inv, TypeOK, Check
  <1>3. step[l] = "idle" /\ step'[l] = "window" /\ at[l] = "new" /\ answer[l] = "none"
    BY <1>0 DEF ReadClock, MoveTo, Inv, TypeOK, LimiterTypeOK, PlaceInv
  <1>4. PlaceInv'
    <2>1. \A q \in Calls : step'[q] \notin {"admitted", "refused"}
                            => step[q] \notin {"admitted", "refused"}
      BY <1>2
    <2> QED
      BY <2>1 DEF Inv, PlaceInv
  <1>5. KnownInv'
    BY <1>2, <1>3 DEF Inv, TypeOK, KnownInv
  <1>6. WrittenInv' /\ EndedInv' /\ AddressInv' /\ DeadInv'
    BY DEF Inv, WrittenInv, EndedInv, AddressInv, DeadInv
  <1>7. OwnerInv'
    BY <1>0 DEF Inv, TypeOK, OwnerInv
  <1> QED
    BY <1>1, <1>4, <1>5, <1>6, <1>7 DEF Inv

\* A request that has written nothing ends, answered with no more than it may be.
LEMMA EndStep ==
  ASSUME Inv, NEW q \in Requests,
         NEW from \in {"new", "credential", "identity", "work"}, NEW what \in Answers,
         EndsWith(q, from, what), UNCHANGED <<limiterVars, account, sends>>,
         q \in Calls => step[q] \in {"admitted", "refused"},
         what = "ok" => q \notin dead, what = "unauthorized" => q \notin known
  PROVE  Inv'
  <1> USE Kinds DEF EndsWith, Goes, tables, sends
  <1>0. LimiterTypeOK' /\ step' = step
    BY LimiterTypes DEF Inv, TypeOK, limiterVars
  <1>1. TypeOK'
    BY <1>0 DEF Inv, TypeOK, Places
  <1>2. PlaceInv'
    BY <1>0 DEF Inv, TypeOK, PlaceInv
  <1>3. WrittenInv' /\ EndedInv'
    BY DEF Inv, TypeOK, WrittenInv, EndedInv
  <1>4. AddressInv' /\ OwnerInv'
    BY DEF Inv, TypeOK, AddressInv, OwnerInv
  <1>5. DeadInv'
    BY DEF Inv, TypeOK, DeadInv
  <1>6. KnownInv'
    BY <1>0 DEF Inv, TypeOK, KnownInv
  <1> QED
    BY <1>1, <1>2, <1>3, <1>4, <1>5, <1>6 DEF Inv

\* A request that has written nothing goes on with its own work.
LEMMA MoveStep ==
  ASSUME Inv, NEW q \in Requests \ Logins,
         NEW from \in {"new", "credential", "identity", "work"},
         NEW to \in {"insert", "identity", "key", "work", "revoke"},
         Proceeds(q, from, to), UNCHANGED <<limiterVars, account, sends>>,
         to = "insert" => q \in Registers /\ step[q] = "admitted",
         to # "insert" => q \in Keyed,
         to \in {"key", "work", "revoke"} => account[q] \in users,
         q \in dead => \/ from = "identity" /\ to = "work"
                       \/ ask[q].cred \notin revoked /\ to = "identity"
  PROVE  Inv'
  <1> USE Kinds DEF Proceeds, Goes, tables, sends
  <1>0. LimiterTypeOK' /\ step' = step
    BY LimiterTypes DEF Inv, TypeOK, limiterVars
  <1>1. TypeOK'
    BY <1>0 DEF Inv, TypeOK, Places
  <1>2. PlaceInv'
    BY <1>0 DEF Inv, TypeOK, PlaceInv
  <1>3. WrittenInv' /\ EndedInv'
    BY DEF Inv, TypeOK, PlaceInv, WrittenInv, EndedInv
  <1>4. AddressInv' /\ OwnerInv'
    BY DEF Inv, TypeOK, AddressInv, OwnerInv
  <1>5. DeadInv'
    BY DEF Inv, TypeOK, DeadInv
  <1>6. KnownInv'
    BY <1>0 DEF Inv, TypeOK, KnownInv
  <1> QED
    BY <1>1, <1>2, <1>3, <1>4, <1>5, <1>6 DEF Inv

\* A session is rolled back.
LEMMA AbortStep ==
  ASSUME Inv, NEW q \in Requests, Abort(q), UNCHANGED <<limiterVars, account, sends>>,
         at[q] # "new" \/ (q \in Calls /\ step[q] = "admitted")
  PROVE  Inv'
  <1> USE Kinds DEF Abort, tables, sends
  <1>0. LimiterTypeOK' /\ step' = step
    BY LimiterTypes DEF Inv, TypeOK, limiterVars
  <1>1. TypeOK'
    BY <1>0 DEF Inv, TypeOK, Places, Answers
  <1>2. PlaceInv'
    BY <1>0 DEF Inv, TypeOK, PlaceInv
  <1>3. WrittenInv' /\ EndedInv'
    BY DEF Inv, TypeOK, WrittenInv, EndedInv
  <1>4. AddressInv' /\ OwnerInv'
    BY DEF Inv, TypeOK, AddressInv, OwnerInv
  <1>5. DeadInv'
    BY DEF Inv, TypeOK, DeadInv
  <1>6. KnownInv'
    BY <1>0 DEF Inv, TypeOK, KnownInv
  <1> QED
    BY <1>1, <1>2, <1>3, <1>4, <1>5, <1>6 DEF Inv

\* The insert of a user whose address is free.
LEMMA InsertUserStep ==
  ASSUME Inv, NEW r \in Registers, InsertUser(r)
  PROVE  Inv'
  <1> USE Kinds DEF tables, sends
  <1>0. r \in Requests /\ at[r] = "insert" /\ UNCHANGED <<limiterVars, account, sends>>
    BY DEF InsertUser, Write, Goes
  <1>a. CASE Abort(r)
    BY <1>0, <1>a, AbortStep
  <1>b. CASE SameEmail(r) \cap users = {} /\ Write(r, "insert", "user", "key")
    <2> USE <1>b DEF Write, Goes
    <2>0. LimiterTypeOK' /\ step' = step
      BY <1>0, LimiterTypes DEF Inv, TypeOK, limiterVars
    <2>1. TypeOK'
      BY <1>0, <2>0 DEF Inv, TypeOK, Places, Writes
    <2>2. PlaceInv'
      BY <1>0, <2>0 DEF Inv, TypeOK, PlaceInv
    <2>3. WrittenInv' /\ EndedInv'
      BY <1>0 DEF Inv, TypeOK, WrittenInv, EndedInv
    <2>4. /\ \A s \in Registers \ {r} : Email[s] = Email[r] => "user" \notin written[s]
          /\ \A s \in Registers : Email[s] = Email[r] => s \notin users
      BY DEF InsertUser, SameEmail
    <2>5. AddressInv'
      BY <2>4 DEF Inv, TypeOK, AddressInv
    <2>6. OwnerInv'
      BY <1>0 DEF Inv, TypeOK, OwnerInv
    <2>7. DeadInv' /\ KnownInv'
      BY <1>0, <2>0 DEF Inv, TypeOK, DeadInv, KnownInv
    <2> QED
      BY <2>1, <2>2, <2>3, <2>5, <2>6, <2>7 DEF Inv
  <1> QED
    BY <1>a, <1>b DEF InsertUser

\* The insert of a key, and the update that revokes one.
LEMMA WriteStep ==
  ASSUME Inv, NEW q \in Requests, NEW from \in {"key", "revoke"},
         NEW what \in {"key", "revoke"}, Write(q, from, what, "respond"), from = what,
         UNCHANGED <<limiterVars, account, sends>>
  PROVE  Inv'
  <1> USE Kinds DEF Write, Goes, tables, sends
  <1>0. LimiterTypeOK' /\ step' = step
    BY LimiterTypes DEF Inv, TypeOK, limiterVars
  <1>1. TypeOK'
    BY <1>0 DEF Inv, TypeOK, Places, Writes
  <1>2. PlaceInv'
    BY <1>0 DEF Inv, TypeOK, PlaceInv
  <1>3. WrittenInv' /\ EndedInv'
    BY DEF Inv, TypeOK, PlaceInv, WrittenInv, EndedInv
  <1>4. AddressInv' /\ OwnerInv'
    BY DEF Inv, TypeOK, AddressInv, OwnerInv
  <1>5. DeadInv' /\ KnownInv'
    BY <1>0 DEF Inv, TypeOK, DeadInv, KnownInv
  <1> QED
    BY <1>1, <1>2, <1>3, <1>4, <1>5 DEF Inv

LEMMA RespondStep ==
  ASSUME Inv, NEW q \in Requests, Respond(q)
  PROVE  Inv'
  <1> USE Kinds DEF Respond, Goes, tables, sends
  <1>0. LimiterTypeOK' /\ step' = step
    BY LimiterTypes DEF Inv, TypeOK, limiterVars
  <1>1. TypeOK'
    BY <1>0 DEF Inv, TypeOK, Places, Answers
  <1>2. PlaceInv'
    BY <1>0 DEF Inv, TypeOK, PlaceInv
  <1>3. WrittenInv' /\ EndedInv'
    BY DEF Inv, TypeOK, WrittenInv, EndedInv
  <1>4. AddressInv' /\ OwnerInv'
    BY DEF Inv, TypeOK, AddressInv, OwnerInv
  <1>5. DeadInv' /\ KnownInv'
    BY <1>0 DEF Inv, TypeOK, DeadInv, KnownInv
  <1> QED
    BY <1>1, <1>2, <1>3, <1>4, <1>5 DEF Inv

\* A commit makes a user and its key visible together, or a key of a committed user.
LEMMA CommitStep ==
  ASSUME Inv, NEW q \in Requests, Commit(q)
  PROVE  Inv'
  <1> USE Kinds DEF Commit, Goes, sends
  <1>0. LimiterTypeOK' /\ step' = step
    BY LimiterTypes DEF Inv, TypeOK, limiterVars
  <1>1. /\ users \subseteq users' /\ keys \subseteq keys' /\ revoked \subseteq revoked'
        /\ users' \subseteq users \cup {q} /\ keys' \subseteq keys \cup {q}
        /\ q \in users' \ users => q \in Registers
        /\ q \in keys' \ keys => q \in Registers \cup Keyed
        /\ revoked' \subseteq keys'
    BY DEF Inv, TypeOK, WrittenInv
  <1>2. TypeOK'
    BY <1>0, <1>1 DEF Inv, TypeOK, Places
  <1>3. PlaceInv'
    BY <1>0 DEF Inv, TypeOK, PlaceInv
  <1>4. WrittenInv'
    BY DEF Inv, TypeOK, WrittenInv
  <1>5. EndedInv'
    BY <1>1 DEF Inv, TypeOK, EndedInv
  <1>6. AddressInv'
    <2>1. /\ \A r \in Registers : "user" \in written'[r] => "user" \in written[r] /\ r # q
          /\ q \in users' \ users => "user" \in written[q] /\ q \in Registers
      BY DEF Inv, TypeOK, WrittenInv
    <2>2. \A r \in Registers : r \in users' => r \in users \/ "user" \in written[r]
      BY <1>1, <2>1
    <2> QED
      BY <2>1, <2>2 DEF Inv, AddressInv
  <1>7. OwnerInv'
    <2>1. q \in Registers => (q \in users' <=> q \in keys')
      BY DEF Inv, WrittenInv, OwnerInv
    <2>2. users' = keys' \cap Registers
      BY <1>1, <2>1 DEF Inv, OwnerInv
    <2>3. q \in Keyed => account[q] \in users
      BY DEF Inv, OwnerInv
    <2>4. \A k \in keys' \cap Keyed : account'[k] \in users'
      BY <1>1, <2>3 DEF Inv, OwnerInv
    <2>5. \A a \in Keyed : at'[a] \in {"key", "work", "revoke", "respond", "commit"}
                            => account'[a] \in users'
      BY <1>1 DEF Inv, TypeOK, OwnerInv
    <2> QED
      BY <2>2, <2>4, <2>5 DEF OwnerInv
  <1>8. DeadInv'
    BY <1>1 DEF Inv, TypeOK, DeadInv
  <1>9. KnownInv'
    BY <1>0, <1>1 DEF Inv, TypeOK, KnownInv
  <1> QED
    BY <1>2, <1>3, <1>4, <1>5, <1>6, <1>7, <1>8, <1>9 DEF Inv

\* A request that is sent with a revoked key, or to revoke one, starts at its credential.
LEMMA SendKeyedStep ==
  ASSUME Inv, NEW a \in Keyed, SendKeyed(a)
  PROVE  Inv'
  <1> USE Kinds DEF SendKeyed, Goes, tables
  <1> PICK w \in Wishes : /\ ask' = [ask EXCEPT ![a] = w]
                          /\ dead' = dead \cup {b \in {a} : {w.cred, w.key} \cap revoked # {}}
    OBVIOUS
  <1>0. LimiterTypeOK' /\ step' = step
    BY LimiterTypes DEF Inv, TypeOK, limiterVars
  <1>1. /\ w \in [cred : Requests \cup {Nobody}, op : {"create", "revoke", "list"},
                  key : Requests \cup {Nobody}]
        /\ w.op # "revoke" => w.key = Nobody
    BY DEF Wishes, KeyHolders, Tokens
  <1>2. TypeOK'
    BY <1>0, <1>1 DEF Inv, TypeOK, Places
  <1>3. PlaceInv'
    BY <1>0 DEF Inv, TypeOK, PlaceInv
  <1>4. WrittenInv' /\ EndedInv'
    BY DEF Inv, TypeOK, WrittenInv, EndedInv
  <1>5. AddressInv' /\ OwnerInv'
    BY DEF Inv, TypeOK, AddressInv, OwnerInv
  <1>6. DeadInv'
    <2>1. a \in Requests /\ answer[a] = "none" /\ a \notin dead
      BY DEF Inv, PlaceInv, DeadInv
    <2>2. a \in dead' => \/ w.cred \in revoked
                         \/ w.key \in revoked /\ w.op = "revoke"
      <3>1. Nobody \notin revoked
        BY DEF Inv, TypeOK
      <3>2. a \in dead' => w.cred \in revoked \/ w.key \in revoked
        BY <2>1
      <3> QED
        BY <1>1, <3>1, <3>2
    <2>3. /\ ask'[a] = w /\ at'[a] = "credential" /\ answer' = answer
          /\ \A b \in Keyed \ {a} : ask'[b] = ask[b] /\ at'[b] = at[b]
      BY <2>1 DEF Inv, TypeOK
    <2>4. dead \subseteq Keyed /\ dead' \subseteq dead \cup {a} /\ revoked' = revoked
      BY DEF Inv, TypeOK
    <2>5. \A b \in dead : b # a /\ b \in Keyed
      BY <2>1, <2>4
    <2>6. DeadInv
      BY DEF Inv
    <2> QED
      BY <2>1, <2>2, <2>3, <2>4, <2>5, <2>6 DEF DeadInv
  <1>7. KnownInv'
    BY <1>0 DEF Inv, TypeOK, KnownInv
  <1> QED
    BY <1>2, <1>3, <1>4, <1>5, <1>6, <1>7 DEF Inv

-----------------------------------------------------------------------------
(***************************************************************************)
(* Every handler is made of these steps.                                   *)
(***************************************************************************)

LEMMA HandleCallStep ==
  ASSUME Inv, NEW c \in Calls, HandleCall(c)
  PROVE  Inv'
  <1> USE Kinds DEF Answers
  <1>1. CASE TooManyAttempts(c)
    BY <1>1, EndStep DEF TooManyAttempts
  <1>2. CASE c \in Registers /\ RegisterRead(c)
    <2>1. c \notin dead /\ c \notin known /\ c \in Requests \ Logins
      BY <1>2 DEF Inv, TypeOK
    <2>2. CASE EndsWith(c, "new", "conflict")
      BY <1>2, <2>1, <2>2, EndStep DEF RegisterRead
    <2>3. CASE Proceeds(c, "new", "insert")
      BY <1>2, <2>1, <2>3, MoveStep DEF RegisterRead
    <2> QED
      BY <1>2, <2>2, <2>3 DEF RegisterRead
  <1>3. CASE c \in Registers /\ InsertUser(c)
    BY <1>3, InsertUserStep
  <1>4. CASE c \in Logins /\ LoginRead(c)
    <2>1. c \notin dead /\ (c \in known => account[c] \in users)
      BY <1>4 DEF Inv, TypeOK, KnownInv
    <2>2. \E what \in {"ok", "unauthorized"} :
            EndsWith(c, "new", what) /\ (what = "unauthorized" => c \notin known)
      BY <1>4, <2>1 DEF LoginRead
    <2> QED
      BY <1>4, <2>1, <2>2, EndStep DEF LoginRead
  <1> QED
    BY <1>1, <1>2, <1>3, <1>4 DEF HandleCall, Register

\* get_current_user finds whom the credential names; a revoked one names nobody.
LEMMA ReadCredentialStep ==
  ASSUME Inv, NEW a \in Keyed, ReadCredential(a)
  PROVE  Inv'
  <1> USE Kinds DEF Answers
  <1>0. a \in Requests \ Logins /\ a \notin Calls /\ a \notin known /\ at[a] = "credential"
    BY DEF Inv, TypeOK, ReadCredential, Proceeds, EndsWith, Goes
  <1>1. CASE EndsWith(a, "credential", "unauthorized") /\ UNCHANGED account
    BY <1>0, <1>1, EndStep DEF ReadCredential
  <1>2. CASE \E r \in Registers : /\ Names(ask[a].cred, r)
                                  /\ Proceeds(a, "credential", "identity")
                                  /\ account' = [account EXCEPT ![a] = r]
    <2> PICK r \in Registers : /\ Names(ask[a].cred, r)
                               /\ Proceeds(a, "credential", "identity")
                               /\ account' = [account EXCEPT ![a] = r]
      BY <1>2
    <2> USE DEF ReadCredential, Proceeds, Goes, tables, sends
    <2>0. LimiterTypeOK' /\ step' = step
      BY LimiterTypes DEF Inv, TypeOK, limiterVars
    <2>1. TypeOK'
      BY <1>0, <2>0 DEF Inv, TypeOK, Places
    <2>2. PlaceInv'
      BY <1>0, <2>0 DEF Inv, TypeOK, PlaceInv
    <2>3. WrittenInv' /\ EndedInv' /\ AddressInv'
      BY <1>0 DEF Inv, TypeOK, WrittenInv, EndedInv, AddressInv
    <2>4. OwnerInv'
      <3>1. a \notin keys
        BY <1>0 DEF Inv, EndedInv
      <3> QED
        BY <1>0, <3>1 DEF Inv, TypeOK, OwnerInv
    <2>5. DeadInv'
      <3>1. ask[a].cred \notin revoked
        BY DEF Names, Inv, TypeOK
      <3> QED
        BY <1>0, <3>1 DEF Inv, TypeOK, DeadInv
    <2>6. KnownInv'
      BY <1>0, <2>0 DEF Inv, TypeOK, KnownInv
    <2> QED
      BY <2>1, <2>2, <2>3, <2>4, <2>5, <2>6 DEF Inv
  <1> QED
    BY <1>1, <1>2 DEF ReadCredential

LEMMA HandleKeyedStep ==
  ASSUME Inv, NEW a \in Keyed, HandleKeyed(a)
  PROVE  Inv'
  <1> USE Kinds DEF Answers
  <1>0. a \in Requests \ Logins /\ a \notin Calls /\ a \notin known
    BY DEF Inv, TypeOK
  <1>1. CASE ReadCredential(a)
    BY <1>1, ReadCredentialStep
  <1>2. CASE ReadUser(a)
    <2>0. UNCHANGED <<limiterVars, account, sends>>
      BY <1>2 DEF ReadUser
    <2>1. CASE EndsWith(a, "identity", "unauthorized")
      BY <1>0, <1>2, <2>1, EndStep DEF ReadUser
    <2>2. CASE account[a] \in users /\ Proceeds(a, "identity", "work")
      BY <1>0, <2>0, <2>2, MoveStep
    <2>3. CASE account[a] \in users /\ ask[a].op = "create" /\ Proceeds(a, "identity", "key")
      <3>1. a \notin dead
        BY <2>3 DEF Proceeds, Goes, Inv, DeadInv
      <3> QED
        BY <1>0, <2>0, <2>3, <3>1, MoveStep
    <2> QED
      BY <1>2, <2>1, <2>2, <2>3 DEF ReadUser
  <1>3. CASE ListKeys(a)
    <2>1. at[a] = "work" /\ a \notin dead
      BY <1>3 DEF ListKeys, EndsWith, Goes, Inv, DeadInv
    <2> QED
      BY <1>0, <1>3, <2>1, EndStep DEF ListKeys
  <1>4. CASE RevokeRead(a)
    <2>1. CASE EndsWith(a, "work", "missing")
      BY <1>0, <1>4, <2>1, EndStep DEF RevokeRead
    <2>2. CASE Revocable(ask[a].key, account[a]) /\ Proceeds(a, "work", "revoke")
      <3>1. at[a] = "work" /\ account[a] \in users
        BY <2>2 DEF Proceeds, Goes, Inv, OwnerInv
      <3>2. a \notin dead
        BY <2>2, <3>1 DEF Revocable, Inv, DeadInv
      <3> QED
        BY <1>0, <1>4, <2>2, <3>1, <3>2, MoveStep DEF RevokeRead
    <2> QED
      BY <1>4, <2>1, <2>2 DEF RevokeRead
  <1>5. CASE RevokeWrite(a)
    BY <1>0, <1>5, WriteStep DEF RevokeWrite
  <1> QED
    BY <1>1, <1>2, <1>3, <1>4, <1>5 DEF HandleKeyed

-----------------------------------------------------------------------------
LEMMA InvStep == Inv /\ [Next]_vars => Inv'
  <1> SUFFICES ASSUME Inv, [Next]_vars PROVE Inv'
    OBVIOUS
  <1> USE Kinds
  <1>1. CASE Tick /\ UNCHANGED accountVars
    BY <1>1, QuietStep DEF LimiterNext
  <1>2. ASSUME NEW q \in Requests, Send(q) PROVE Inv'
    <2>1. CASE SendRegister(q)
      BY <2>1, QuietStep DEF SendRegister, LimiterNext, Check
    <2>2. CASE SendLogin(q)
      BY <2>2, SendLoginStep
    <2>3. CASE q \in Keyed /\ SendKeyed(q)
      BY <2>3, SendKeyedStep
    <2> QED
      BY <1>2, <2>1, <2>2, <2>3 DEF Send
  <1>3. ASSUME NEW q \in Requests, Serve(q) PROVE Inv'
    <2>1. CASE Respond(q)
      BY <2>1, RespondStep
    <2>2. CASE Commit(q)
      BY <2>2, CommitStep
    <2>3. CASE InsertKey(q)
      BY <2>3, WriteStep DEF InsertKey
    <2>4. CASE q \in Calls /\ RateLimit(q)
      BY <2>4, QuietStep DEF RateLimit, LimiterNext, Check
    <2>5. CASE q \in Calls /\ HandleCall(q)
      BY <2>5, HandleCallStep
    <2>6. CASE q \in Keyed /\ HandleKeyed(q)
      BY <2>6, HandleKeyedStep
    <2> QED
      BY <1>3, <2>1, <2>2, <2>3, <2>4, <2>5, <2>6 DEF Serve, Session
  <1>4. ASSUME NEW q \in Requests, Fails(q) PROVE Inv'
    BY <1>4, AbortStep DEF Fails, Handling
  <1>5. CASE UNCHANGED vars
    <2> USE DEF vars, accountVars, tables, sends
    <2>1. LimiterTypeOK' /\ step' = step
      BY <1>5, LimiterTypes DEF Inv, TypeOK, limiterVars
    <2>2. TypeOK' /\ PlaceInv' /\ WrittenInv' /\ EndedInv'
      BY <1>5, <2>1 DEF Inv, TypeOK, PlaceInv, WrittenInv, EndedInv
    <2>3. AddressInv' /\ OwnerInv' /\ DeadInv' /\ KnownInv'
      BY <1>5, <2>1 DEF Inv, AddressInv, OwnerInv, DeadInv, KnownInv
    <2> QED
      BY <2>2, <2>3 DEF Inv
  <1> QED
    BY <1>1, <1>2, <1>3, <1>4, <1>5 DEF Next

-----------------------------------------------------------------------------
LEMMA InvHolds == Spec => []Inv
  BY InvInit, InvStep, PTL DEF Spec

\* The types of the accounts, whatever requests are made and whatever fails.
THEOREM AccountsTypeCorrect == Spec => []TypeOK
  <1>1. Inv => TypeOK
    BY DEF Inv
  <1> QED
    BY <1>1, InvHolds, PTL

\* An address has one account: of two registrations of it that were both answered 201,
\* one has lost its row (register and ix_users_email).
THEOREM AddressesAreUnique == Spec => []OneAccount
  <1>1. Inv => OneAccount
    <2> SUFFICES ASSUME Inv, NEW r \in Registers, NEW s \in Registers, r # s,
                        Email[r] = Email[s], answer[r] = "ok", answer[s] = "ok"
                 PROVE  \E t \in {r, s} : at[t] = "done" /\ t \notin users
      BY DEF OneAccount
    <2>1. /\ at[r] \in {"commit", "done"} /\ at[s] \in {"commit", "done"}
          /\ at[r] = "commit" => "user" \in written[r]
          /\ at[s] = "commit" => "user" \in written[s]
      BY Kinds DEF Inv, PlaceInv, WrittenInv
    <2> QED
      BY <2>1 DEF Inv, AddressInv
  <1> QED
    BY <1>1, InvHolds, PTL

\* A user is committed with its first key, and a key with its user (register's session).
THEOREM AccountsAreWhole == Spec => []WholeAccounts
  <1>1. Inv => WholeAccounts
    BY Kinds DEF Inv, TypeOK, OwnerInv, WholeAccounts, Owner
  <1> QED
    BY <1>1, InvHolds, PTL

\* A revoked key opens nothing, whatever sessions are open (get_current_user, revoke).
THEOREM RevokedStaysDead == Spec => []RevokedIsDead
  <1>1. Inv => RevokedIsDead
    BY DEF Inv, DeadInv, RevokedIsDead
  <1> QED
    BY <1>1, InvHolds, PTL

\* A committed account can be logged in to (login).
THEOREM CommittedLogsIn == Spec => []CommittedCanLogIn
  <1>1. Inv => CommittedCanLogIn
    BY DEF Inv, KnownInv, CommittedCanLogIn
  <1> QED
    BY <1>1, InvHolds, PTL

\* The requests use the limiter as RateLimiter lets them: what is proved of it holds
\* behind the endpoints (enforce_auth_rate_limit).
THEOREM ImplementsLimiter == Spec => LimiterSpec
  <1>1. Init => LimiterInit
    BY DEF Init
  <1>2. Inv /\ [Next]_vars => [LimiterNext]_limiterVars
    BY LimiterStep DEF vars
  <1> QED
    BY <1>1, <1>2, InvHolds, PTL DEF Spec, LimiterSpec

\* So register and login refuse nobody without cause and admit no more than the limit between
\* two resets, however many of them run at once; and while none overlap they admit no more than
\* twice the limit in any window (auth.py, FixedWindowRateLimiter.check).
THEOREM EndpointsAreLimited ==
  Spec => RefusedOnlyWhenFull /\ []LimitPerReset /\ []AtMostTwice
  BY ImplementsLimiter, RefusalsHaveCause, ResetsBoundAdmissions, SequentialBound

-----------------------------------------------------------------------------
(***************************************************************************)
(* What a session carries from its credential to its commit.               *)
(***************************************************************************)

\* A keyed request names the owner of its credential from then on, and its session writes
\* what it was asked for, to a key of that owner.
KeyedOK(a) ==
    /\ at[a] # "new" /\ ask[a].cred \in Logins => at[ask[a].cred] = "done"
    /\ account[a] # Nobody
         => /\ at[a] \notin {"new", "credential"}
            /\ ask[a].cred \in Requests /\ at[ask[a].cred] = "done"
            /\ account[a] = Owner(ask[a].cred)
    /\ at[a] = "key" \/ "key" \in written[a] => ask[a].op = "create"
    /\ "revoke" \in written[a] => at[a] \in {"respond", "commit"}
    /\ at[a] = "revoke" \/ "revoke" \in written[a]
         => ask[a].op = "revoke" /\ ask[a].key \in keys /\ Owner(ask[a].key) = account[a]
    /\ at[a] = "commit" => answer[a] = "ok"

\* a has revoked k, in the name of its owner.
RevokedBy(k, a) ==
    /\ ask[a].op = "revoke" /\ ask[a].key = k
    /\ at[a] = "done" /\ answer[a] = "ok" /\ account[a] = Owner(k)

SessionInv ==
    /\ \A c \in Calls : "revoke" \notin written[c]
    /\ \A a \in Keyed : KeyedOK(a)
    /\ \A k \in revoked : \E a \in Keyed : RevokedBy(k, a)

\* A request that a step leaves alone.
Kept(p) ==
    /\ at'[p] = at[p] /\ answer'[p] = answer[p] /\ written'[p] = written[p]
    /\ account'[p] = account[p]
    /\ p \in Keyed => ask'[p] = ask[p]

\* Every step is of one request.
Moved(q) ==
    \/ Kept(q) /\ UNCHANGED tables
    \/ SendLogin(q) \/ (q \in Keyed /\ SendKeyed(q))
    \/ Respond(q) \/ Commit(q) \/ InsertKey(q)
    \/ q \in Calls /\ HandleCall(q)
    \/ q \in Keyed /\ HandleKeyed(q)
    \/ Fails(q)

LEMMA OthersKept ==
  ASSUME Inv, NEW q \in Requests, NEW p \in Requests \ {q},
         \/ SendLogin(q) \/ (q \in Keyed /\ SendKeyed(q))
         \/ Respond(q) \/ Commit(q) \/ InsertKey(q)
         \/ q \in Calls /\ HandleCall(q)
         \/ q \in Keyed /\ HandleKeyed(q)
         \/ Fails(q)
  PROVE  Kept(p)
  <1> USE Kinds DEF Kept, Inv, TypeOK, Goes, Proceeds, EndsWith, Write, Abort, sends, tables
  <1>1. CASE SendLogin(q) \/ (q \in Keyed /\ SendKeyed(q))
    BY <1>1 DEF SendLogin, SendKeyed
  <1>2. CASE Respond(q) \/ Commit(q) \/ InsertKey(q) \/ Fails(q)
    BY <1>2 DEF Respond, Commit, InsertKey, Fails
  <1>3. CASE HandleCall(q)
    BY <1>3 DEF HandleCall, TooManyAttempts, Register, RegisterRead, InsertUser, LoginRead
  <1>4. CASE q \in Keyed /\ HandleKeyed(q)
    BY <1>4 DEF HandleKeyed, ReadCredential, ReadUser, ListKeys, RevokeRead, RevokeWrite
  <1> QED
    BY <1>1, <1>2, <1>3, <1>4

LEMMA OneMoves ==
  ASSUME Inv, [Next]_vars
  PROVE  \/ UNCHANGED accountVars
         \/ \E q \in Requests : Moved(q) /\ \A p \in Requests \ {q} : Kept(p)
  <1>1. CASE UNCHANGED vars \/ (Tick /\ UNCHANGED accountVars)
    BY <1>1 DEF vars
  <1>2. ASSUME NEW q \in Requests, SendRegister(q) \/ (q \in Calls /\ RateLimit(q))
        PROVE  UNCHANGED accountVars
    BY <1>2 DEF SendRegister, RateLimit
  <1>3. ASSUME NEW q \in Requests,
               \/ SendLogin(q) \/ (q \in Keyed /\ SendKeyed(q))
               \/ Respond(q) \/ Commit(q) \/ InsertKey(q)
               \/ q \in Calls /\ HandleCall(q)
               \/ q \in Keyed /\ HandleKeyed(q)
               \/ Fails(q)
        PROVE  Moved(q) /\ \A p \in Requests \ {q} : Kept(p)
    BY <1>3, OthersKept DEF Moved
  <1> QED
    BY <1>1, <1>2, <1>3 DEF Next, Send, Serve, Session

\* Who has ended stays as it is, and so does what it stands for.
LEMMA DoneStays ==
  ASSUME Inv, [Next]_vars, NEW p \in Requests, at[p] = "done"
  PROVE  Kept(p) /\ Owner(p)' = Owner(p)
  <1>1. Kept(p)
    <2>1. CASE UNCHANGED accountVars
      BY <2>1 DEF accountVars, sends, Kept
    <2>2. CASE Moved(p)
      <3> USE Kinds DEF Inv, TypeOK, PlaceInv, Goes, Proceeds, EndsWith, Write
      <3>1. ~SendLogin(p)
        BY DEF SendLogin, ReadClock, MoveTo
      <3>2. ~(p \in Keyed /\ SendKeyed(p)) /\ ~Respond(p) /\ ~Commit(p) /\ ~InsertKey(p)
            /\ ~Fails(p)
        BY DEF SendKeyed, Respond, Commit, InsertKey, Fails, Handling
      <3>3. ~HandleCall(p)
        BY DEF HandleCall, TooManyAttempts, Register, RegisterRead, InsertUser, LoginRead
      <3>4. ~HandleKeyed(p)
        BY DEF HandleKeyed, ReadCredential, ReadUser, ListKeys, RevokeRead, RevokeWrite
      <3> QED
        BY <2>2, <3>1, <3>2, <3>3, <3>4 DEF Moved
    <2> QED
      BY <2>1, <2>2, OneMoves
  <1> QED
    BY <1>1 DEF Kept, Owner

\* The tables only grow.
LEMMA TablesGrow ==
  ASSUME Inv, [Next]_vars
  PROVE  \/ UNCHANGED tables
         \/ \E q \in Requests : Commit(q) /\ keys \subseteq keys'
  <1>1. CASE UNCHANGED accountVars
    BY <1>1 DEF accountVars, tables
  <1>2. ASSUME NEW q \in Requests, Moved(q), ~Commit(q)
        PROVE  UNCHANGED tables
    <2> USE DEF tables, Proceeds, EndsWith, Write, Abort
    <2>1. CASE SendLogin(q) \/ SendKeyed(q) \/ Respond(q) \/ InsertKey(q) \/ Fails(q)
      BY <2>1 DEF SendLogin, SendKeyed, Respond, InsertKey, Fails
    <2>2. CASE HandleCall(q)
      BY <2>2 DEF HandleCall, TooManyAttempts, Register, RegisterRead, InsertUser, LoginRead
    <2>3. CASE HandleKeyed(q)
      BY <2>3 DEF HandleKeyed, ReadCredential, ReadUser, ListKeys, RevokeRead, RevokeWrite
    <2> QED
      BY <1>2, <2>1, <2>2, <2>3 DEF Moved
  <1> QED
    BY <1>1, <1>2, OneMoves DEF Commit

LEMMA KeyedStep ==
  ASSUME Inv, [Next]_vars, NEW a \in Keyed, KeyedOK(a)
  PROVE  KeyedOK(a)'
  <1>0. /\ keys \subseteq keys'
        /\ \A k \in keys : k \in Requests /\ Owner(k)' = Owner(k)
        /\ \A p \in Requests : at[p] = "done" => at'[p] = "done" /\ Owner(p)' = Owner(p)
        /\ a \in Requests /\ a \notin Calls /\ Logins \subseteq Requests
        /\ Nobody \notin Requests
    BY TablesGrow, DoneStays, Kinds DEF Inv, TypeOK, EndedInv, tables, Kept
  <1>1. CASE Kept(a)
    BY <1>0, <1>1 DEF Kept, KeyedOK
  <1>2. CASE Moved(a) /\ ~Kept(a)
    <2> USE <1>0 DEF Inv, TypeOK
    <2>0. at \in [Requests -> Places] /\ answer \in [Requests -> Answers]
          /\ written \in [Requests -> SUBSET Writes]
          /\ account \in [Requests -> Registers \cup {Nobody}]
      OBVIOUS
    <2>1. CASE SendKeyed(a)
      <3> PICK w \in Wishes : ask' = [ask EXCEPT ![a] = w]
        BY <2>1 DEF SendKeyed
      <3>1. at[a] = "new" /\ at'[a] = "credential" /\ ask'[a] = w
            /\ written' = written /\ account' = account /\ answer' = answer
        BY <2>0, <2>1 DEF SendKeyed, Goes, tables
      <3>2. w.cred \in Logins => at[w.cred] = "done"
        BY Kinds DEF Wishes, KeyHolders, Tokens, PlaceInv
      <3>3. account[a] = Nobody /\ "key" \notin written[a] /\ "revoke" \notin written[a]
        BY <3>1 DEF KeyedOK, WrittenInv
      <3> QED
        BY <3>1, <3>2, <3>3 DEF KeyedOK
    <2>2. CASE Respond(a) \/ Commit(a) \/ InsertKey(a) \/ Fails(a)
      <3> USE <2>0 DEF KeyedOK, Goes, Write, Abort, sends, Writes
      <3>1. CASE Respond(a)
        BY <3>1 DEF Respond
      <3>2. CASE Commit(a)
        BY <3>2 DEF Commit
      <3>3. CASE InsertKey(a)
        BY <3>3 DEF InsertKey
      <3>4. CASE Fails(a)
        BY <3>4 DEF Fails, Handling
      <3> QED
        BY <2>2, <3>1, <3>2, <3>3, <3>4
    <2>3. CASE ReadCredential(a)
      <3>1. at[a] = "credential" /\ "key" \notin written[a] /\ "revoke" \notin written[a]
            /\ account[a] = Nobody
        BY <2>3 DEF ReadCredential, Proceeds, EndsWith, Goes, KeyedOK, WrittenInv
      <3>2. CASE EndsWith(a, "credential", "unauthorized") /\ UNCHANGED account
        BY <2>0, <2>3, <3>1, <3>2 DEF ReadCredential, EndsWith, Goes, KeyedOK, sends
      <3>3. ASSUME NEW r \in Registers, Names(ask[a].cred, r),
                   Proceeds(a, "credential", "identity"), account' = [account EXCEPT ![a] = r]
            PROVE  KeyedOK(a)'
        <4>1. ask' = ask /\ at'[a] = "identity" /\ account'[a] = r /\ written' = written
          BY <2>0, <2>3, <3>3 DEF ReadCredential, Proceeds, Goes, sends
        <4>2. ask[a].cred \in Requests /\ at[ask[a].cred] = "done" /\ r = Owner(ask[a].cred)
          BY <3>1, <3>3, Kinds DEF Names, EndedInv, KeyedOK, Owner
        <4> QED
          BY <3>1, <4>1, <4>2 DEF KeyedOK
      <3> QED
        BY <2>3, <3>2, <3>3 DEF ReadCredential
    <2>4. CASE ReadUser(a) \/ ListKeys(a) \/ RevokeRead(a) \/ RevokeWrite(a)
      <3> USE <2>0 DEF KeyedOK, Goes, Proceeds, EndsWith, Write, sends, tables, WrittenInv, Writes
      <3>1. CASE ReadUser(a)
        BY <3>1 DEF ReadUser
      <3>2. CASE ListKeys(a)
        BY <3>2 DEF ListKeys
      <3>3. CASE RevokeRead(a)
        BY <3>3 DEF RevokeRead, Revocable
      <3>4. CASE RevokeWrite(a)
        BY <3>4 DEF RevokeWrite
      <3> QED
        BY <2>4, <3>1, <3>2, <3>3, <3>4
    <2>5. ~SendLogin(a)
      BY Kinds DEF SendLogin
    <2> QED
      BY <1>2, <2>1, <2>2, <2>3, <2>4, <2>5 DEF Moved, HandleKeyed
  <1> QED
    BY <1>0, <1>1, <1>2, OneMoves DEF accountVars, sends, Kept

LEMMA SessionInit == Init => SessionInv
  BY Kinds DEF Init, SessionInv, KeyedOK

LEMMA SessionStep ==
  ASSUME Inv, SessionInv, [Next]_vars
  PROVE  SessionInv'
  <1>0. Calls \subseteq Requests /\ Keyed \subseteq Requests /\ Calls \cap Keyed = {}
        /\ revoked \subseteq keys /\ keys \subseteq Requests /\ \A k \in keys : at[k] = "done"
    BY Kinds DEF Inv, TypeOK, EndedInv
  <1>1. ASSUME NEW c \in Calls
        PROVE  "revoke" \notin written'[c]
    <2>1. CASE Kept(c) \/ UNCHANGED accountVars
      BY <2>1 DEF Kept, accountVars, SessionInv
    <2>2. CASE Moved(c)
      <3> USE <1>0 DEF Inv, TypeOK, SessionInv, Write, Proceeds, EndsWith, Abort, tables
      <3>1. CASE SendLogin(c) \/ Respond(c) \/ Commit(c) \/ InsertKey(c) \/ Fails(c)
        BY <3>1 DEF SendLogin, Respond, Commit, InsertKey, Fails
      <3>2. CASE HandleCall(c)
        BY <3>2 DEF HandleCall, TooManyAttempts, Register, RegisterRead, InsertUser, LoginRead
      <3> QED
        BY <2>1, <2>2, <3>1, <3>2 DEF Moved
    <2> QED
      BY <1>0, <2>1, <2>2, OneMoves
  <1>2. ASSUME NEW a \in Keyed
        PROVE  KeyedOK(a)'
    BY KeyedStep DEF SessionInv
  <1>3. ASSUME NEW k \in revoked', k \notin revoked
        PROVE  \E a \in Keyed : RevokedBy(k, a)'
    <2>1. PICK q \in Requests : /\ Commit(q) /\ "revoke" \in written[q]
                                /\ k \in keys /\ k = ask[q].key
      BY <1>3, TablesGrow DEF tables, Commit
    <2>2. q \in Keyed /\ KeyedOK(q) /\ at[q] = "commit"
      BY <2>1, Kinds DEF SessionInv, Commit, Goes
    <2>3. /\ at'[q] = "done" /\ answer' = answer /\ account' = account /\ ask' = ask
      BY <2>1 DEF Commit, Goes, sends, Inv, TypeOK
    <2>4. Owner(k)' = Owner(k)
      BY <2>3 DEF Owner
    <2> QED
      BY <2>1, <2>2, <2>3, <2>4 DEF KeyedOK, RevokedBy
  <1>4. ASSUME NEW k \in revoked
        PROVE  \E a \in Keyed : RevokedBy(k, a)'
    <2> PICK a \in Keyed : RevokedBy(k, a)
      BY DEF SessionInv
    <2>1. Kept(a) /\ Owner(k)' = Owner(k)
      BY <1>0, DoneStays DEF RevokedBy
    <2> QED
      BY <2>1 DEF RevokedBy, Kept
  <1> QED
    BY <1>1, <1>2, <1>3, <1>4 DEF SessionInv

\* A key is revoked in the name of its owner only: the query of revoke asks for the user
\* that get_current_user found, and that user stays the owner of the credential.
THEOREM OwnersOnlyRevoke == Spec => []OwnersRevoke
  <1>1. Inv /\ SessionInv => OwnersRevoke
    <2> SUFFICES ASSUME Inv, SessionInv, NEW k \in revoked
                 PROVE  \E a \in Keyed : /\ ask[a].op = "revoke" /\ ask[a].key = k
                                         /\ answer[a] = "ok" /\ Owner(ask[a].cred) = Owner(k)
      BY DEF OwnersRevoke
    <2> PICK a \in Keyed : RevokedBy(k, a)
      BY DEF SessionInv
    <2>1. Owner(k) # Nobody
      BY Kinds DEF Inv, TypeOK, OwnerInv, Owner
    <2> QED
      BY <2>1 DEF SessionInv, KeyedOK, RevokedBy
  <1> QED
    BY <1>1, InvHolds, SessionInit, SessionStep, PTL DEF Spec

\* Of two sessions that compete for an address or for a key's row, the one that the other
\* waits for waits for nobody (register's insert, revoke's UPDATE, get_db_session).
THEOREM SessionsNeverBlockEachOther == Spec => []NoStandstill
  <1>1. Inv /\ SessionInv => NoStandstill
    BY Kinds DEF Inv, WrittenInv, SessionInv, KeyedOK, WaitsFor, SameEmail, NoStandstill
  <1> QED
    BY <1>1, InvHolds, SessionInit, SessionStep, PTL DEF Spec

-----------------------------------------------------------------------------
(***************************************************************************)
(* The tables implement the book of accounts.                              *)
(***************************************************************************)

LEMMA BookStep ==
  ASSUME Inv, SessionInv, [Next]_vars
  PROVE  [Book!BookNext]_(Book!bookVars)
  <1> DEFINE owner == [k \in keys |-> Owner(k)]
  <1>0. \A k \in keys : k \in Requests /\ Owner(k)' = Owner(k)
    BY DoneStays, Kinds DEF Inv, TypeOK, EndedInv
  <1>1. CASE UNCHANGED tables
    <2>1. owner' = owner
      BY <1>0, <1>1 DEF tables
    <2> QED
      BY <1>1, <2>1 DEF tables, Book!bookVars
  <1>2. ASSUME NEW q \in Requests, Commit(q)
        PROVE  [Book!BookNext]_(Book!bookVars)
    <2>0. at[q] = "commit" /\ q \notin keys /\ q \notin users
      BY <1>2 DEF Commit, Goes, Inv, EndedInv
    <2>1. CASE q \in Registers
      <3>1. "user" \in written[q] /\ "key" \in written[q] /\ "revoke" \notin written[q]
        BY <2>0, <2>1, Kinds DEF Inv, WrittenInv, SessionInv
      <3>2. users' = users \cup {q} /\ keys' = keys \cup {q} /\ revoked' = revoked
        BY <1>2, <3>1 DEF Commit
      <3>3. \A s \in users : Email[s] # Email[q]
        BY <2>0, <2>1, <3>1 DEF Inv, TypeOK, AddressInv
      <3>4. Owner(q)' = q
        BY <2>1 DEF Owner
      <3>5. owner' = [k \in keys \cup {q} |-> IF k = q THEN q ELSE owner[k]]
        BY <1>0, <2>0, <3>2, <3>4
      <3>6. Book!OpenAccount(q)
        BY <2>0, <3>2, <3>3, <3>5 DEF Book!OpenAccount, Book!AddKey, Book!Issued
      <3> QED
        BY <2>1, <3>6 DEF Book!BookNext
    <2>2. CASE q \in Keyed /\ "key" \in written[q]
      <3>1. "user" \notin written[q] /\ "revoke" \notin written[q]
        BY <2>2, Kinds DEF Inv, WrittenInv, SessionInv, KeyedOK
      <3>2. users' = users /\ keys' = keys \cup {q} /\ revoked' = revoked
        BY <1>2, <2>2, <3>1 DEF Commit
      <3>3. Owner(q)' = account[q] /\ account[q] \in users
        BY <1>2, <2>0, <2>2, Kinds DEF Owner, Commit, Inv, OwnerInv
      <3>5. owner' = [k \in keys \cup {q} |-> IF k = q THEN account[q] ELSE owner[k]]
        BY <1>0, <2>0, <3>2, <3>3
      <3>6. Book!IssueKey(q)
        BY <2>0, <3>2, <3>3, <3>5 DEF Book!IssueKey, Book!AddKey, Book!Issued
      <3> QED
        BY <2>2, <3>6 DEF Book!BookNext
    <2>3. CASE q \notin Registers /\ "key" \notin written[q]
      <3>1. "user" \notin written[q]
        BY <2>3 DEF Inv, WrittenInv
      <3>2. users' = users /\ keys' = keys
        BY <1>2, <2>3, <3>1 DEF Commit
      <3>3. owner' = owner
        BY <1>0, <3>2
      <3>4. CASE revoked' = revoked
        BY <3>2, <3>3, <3>4 DEF Book!bookVars
      <3>5. CASE revoked' # revoked
        <4>1. PICK k \in keys : k \notin revoked /\ revoked' = revoked \cup {k}
          BY <1>2, <3>5 DEF Commit
        <4>2. Book!RevokeKey(k)
          BY <3>2, <3>3, <4>1 DEF Book!RevokeKey, Book!Issued
        <4> QED
          BY <4>1, <4>2 DEF Book!BookNext, Inv, TypeOK
      <3> QED
        BY <3>4, <3>5
    <2>4. q \in Logins => FALSE
      BY <2>0, Kinds DEF Inv, PlaceInv
    <2> QED
      BY <2>1, <2>2, <2>3, <2>4, Kinds
  <1> QED
    BY <1>1, <1>2, TablesGrow

\* Piece by piece as the sessions write, fail and overlap, the two tables behave as one
\* book: an account opens with its key in one step, for a free address, keys are issued to
\* accounts only, and a revocation stays.
THEOREM ImplementsBook == Spec => RefinesBook
  <1>1. Init => Book!BookInit
    BY DEF Init, Book!BookInit
  <1>2. Inv /\ SessionInv /\ [Next]_vars => [Book!BookNext]_(Book!bookVars)
    BY BookStep
  <1> QED
    BY <1>1, <1>2, InvHolds, SessionInit, SessionStep, PTL
       DEF Spec, RefinesBook, Book!BookSpec

=============================================================================
