----------------------------- MODULE SessionStore -----------------------------
(***************************************************************************)
(* LoginService::Login and RedisSessionRepository, run by login_server and *)
(* possibly other processes (tools/demo_flow) against one Redis.  Create   *)
(* is four Redis calls without a transaction, and none of their failures   *)
(* is looked at; a login is split at these calls.                          *)
(*                                                                         *)
(* Logins refused before Create (unknown account, wrong password) change   *)
(* nothing and are stuttering steps, and so is FindById, which reads.      *)
(***************************************************************************)
EXTENDS Integers, FiniteSets

CONSTANTS
  Servers,    \* processes that run a LoginService
  Accounts,
  None,
  MaxSeq,     \* bound: a process is asked for no login after this many ids
  Faults      \* "crash": a process dies and restarts; "redis": a call fails

ASSUME FaultsAssumption == Faults \subseteq {"crash", "redis"}
ASSUME AccountsAssumption == None \notin Accounts
ASSUME MaxSeqAssumption == MaxSeq \in Nat

VARIABLES
  sess,       \* session:<id> hashes: "none", "partial" (some fields) or "full"
  ttl,        \* and their expiry, compared with account:session:<account>
  current,    \* account:session:<account>, the id of the account's session
  h,          \* the login each process is in
  sequence,   \* RedisSessionRepository::sequence_
  granted,    \* ids some client has received in a LoginResponse
  superseded, \* ids granted before a later login of the same account was answered
  stray       \* sessions that a failed call or a crash has left behind

redisVars == <<sess, ttl, current>>
clientVars == <<granted, superseded>>
vars == <<redisVars, h, sequence, clientVars, stray>>

\* "sess-<account>-<player>-<sequence>", for the account's default player.
SessionId == Accounts \X (1..MaxSeq)
NoSession == <<None, 0>>
Owner(id) == id[1]

\* The remote calls of Create still to come, and the answer.
Steps == {"get", "del", "hset", "fields", "set", "reply"}
Handler == [pc : Steps \union {"idle"}, account : Accounts \union {None},
            id : SessionId \union {NoSession}, old : SessionId \union {NoSession}]
Idle == [pc |-> "idle", account |-> None, id |-> NoSession, old |-> NoSession]

\* ttl: "none" there is no expiry, "armed" EXPIRE was called, "ordered" the
\* account key was SET after that EXPIRE and so outlives the session.
TypeOK ==
  /\ sess \in [SessionId -> {"none", "partial", "full"}]
  /\ ttl \in [SessionId -> {"none", "armed", "ordered"}]
  /\ current \in [Accounts -> SessionId \union {NoSession}]
  /\ h \in [Servers -> Handler]
  /\ sequence \in [Servers -> Nat \ {0}]
  /\ granted \subseteq SessionId
  /\ superseded \subseteq granted
  /\ stray \subseteq SessionId

Init ==
  /\ sess = [id \in SessionId |-> "none"]
  /\ ttl = [id \in SessionId |-> "none"]
  /\ current = [a \in Accounts |-> NoSession]
  /\ h = [s \in Servers |-> Idle]
  /\ sequence = [s \in Servers |-> 1]
  /\ granted = {}
  /\ superseded = {}
  /\ stray = {}

\* FindById returns a session for this id.
Valid(id) == sess[id] = "full"
-----------------------------------------------------------------------------
(* Login, from the verified password on                                    *)

At(s, pc) == h[s].pc = pc
Goto(s, pc) == h' = [h EXCEPT ![s].pc = pc]

\* Mutated form: the sequence is read but not advanced.
LoginSameId(s, a) ==
  /\ At(s, "idle")
  /\ sequence[s] <= MaxSeq
  /\ h' = [h EXCEPT ![s] = [pc |-> "get", account |-> a,
                            id |-> <<a, sequence[s]>>, old |-> NoSession]]
  /\ UNCHANGED <<redisVars, sequence, clientVars, stray>>
Login(s, a) ==
  /\ At(s, "idle")
  /\ sequence[s] <= MaxSeq
  /\ h' = [h EXCEPT ![s] = [pc |-> "get", account |-> a,
                            id |-> <<a, sequence[s]>>, old |-> NoSession]]
  /\ sequence' = [sequence EXCEPT ![s] = @ + 1]
  /\ UNCHANGED <<redisVars, clientVars, stray>>

\* GET account:session; a failed call is read as "no old session".
GetOld(s) ==
  LET old == current[h[s].account] IN
  /\ At(s, "get")
  /\ \/ /\ old # NoSession
        /\ h' = [h EXCEPT ![s] = [@ EXCEPT !.pc = "del", !.old = old]]
        /\ stray' = stray
     \/ old = NoSession /\ Goto(s, "hset") /\ stray' = stray
     \/ "redis" \in Faults /\ Goto(s, "hset") /\ stray' = stray \union ({old} \ {NoSession})
  /\ UNCHANGED <<redisVars, sequence, clientVars>>

DelOld(s) ==
  /\ At(s, "del")
  /\ \/ /\ sess' = [sess EXCEPT ![h[s].old] = "none"]
        /\ ttl' = [ttl EXCEPT ![h[s].old] = "none"]
        /\ stray' = stray
     \/ "redis" \in Faults /\ UNCHANGED <<sess, ttl>> /\ stray' = stray \union {h[s].old}
  /\ Goto(s, "hset")
  /\ UNCHANGED <<current, sequence, clientVars>>

\* HSET field by field.  A hash that is complete already stays complete.
WriteFields(s) ==
  LET id == h[s].id IN
  /\ At(s, "hset")
  /\ \/ /\ sess' = [sess EXCEPT ![id] = IF @ = "full" THEN "full" ELSE "partial"]
        /\ stray' = stray \ {id}
        /\ Goto(s, "fields")
     \/ "redis" \in Faults /\ UNCHANGED <<sess, stray>> /\ Goto(s, "set")
  /\ UNCHANGED <<ttl, current, sequence, clientVars>>

\* The remaining fields.  If the key went away meanwhile, they recreate it
\* without the first ones.
Rest(id) == sess' = [sess EXCEPT ![id] = IF @ = "none" THEN "partial" ELSE "full"]

\* The remaining fields and EXPIRE.
WriteRest(s) ==
  LET id == h[s].id IN
  /\ At(s, "fields")
  /\ \/ Rest(id) /\ ttl' = [ttl EXCEPT ![id] = "armed"] /\ stray' = stray
     \/ /\ "redis" \in Faults
        /\ Rest(id) \/ sess' = sess
        /\ ttl' = ttl
        /\ stray' = stray \union {id}
  /\ Goto(s, "set")
  /\ UNCHANGED <<current, sequence, clientVars>>

\* Mutated form: SET of the account key is forgotten.
SetAccountNever(s) ==
  /\ At(s, "set")
  /\ Goto(s, "reply")
  /\ UNCHANGED <<redisVars, sequence, clientVars, stray>>
SetAccount(s) ==
  LET id == h[s].id IN
  /\ At(s, "set")
  /\ \/ /\ current' = [current EXCEPT ![h[s].account] = id]
        /\ ttl' = [ttl EXCEPT ![id] = IF @ = "armed" THEN "ordered" ELSE @]
        /\ stray' = stray
     \/ "redis" \in Faults /\ UNCHANGED <<current, ttl>> /\ stray' = stray \union {id}
  /\ Goto(s, "reply")
  /\ UNCHANGED <<sess, sequence, clientVars>>

\* The LoginResponse, successful whatever the calls above returned.
Answer(s) ==
  LET id == h[s].id IN
  /\ At(s, "reply")
  /\ granted' = granted \union {id}
  /\ superseded' = superseded \union {g \in granted : Owner(g) = Owner(id)}
  /\ h' = [h EXCEPT ![s] = Idle]
  /\ UNCHANGED <<redisVars, sequence, stray>>
-----------------------------------------------------------------------------
(* The environment                                                         *)

\* It may die after the last HSET and before EXPIRE.
Crash(s) ==
  /\ "crash" \in Faults
  /\ \/ sess' = sess
     \/ At(s, "fields") /\ Rest(h[s].id)
  /\ stray' = IF At(s, "fields") \/ At(s, "set") THEN stray \union {h[s].id} ELSE stray
  /\ h' = [h EXCEPT ![s] = Idle]
  /\ sequence' = [sequence EXCEPT ![s] = 1]
  /\ UNCHANGED <<ttl, current, clientVars>>

\* The TTL is an hour and a login a few calls: no session expires between the
\* EXPIRE of the login that writes it and its answer.
SessionExpire(id) ==
  /\ sess[id] # "none"
  /\ ttl[id] # "none"
  /\ \A s \in Servers : h[s].id = id => h[s].pc \notin {"set", "reply"}
  /\ sess' = [sess EXCEPT ![id] = "none"]
  /\ ttl' = [ttl EXCEPT ![id] = "none"]
  /\ UNCHANGED <<current, h, sequence, clientVars, stray>>

\* Mutated form: the account key is SET with a shorter TTL than the session.
AccountExpireEarly(a) ==
  /\ current[a] # NoSession
  /\ current' = [current EXCEPT ![a] = NoSession]
  /\ UNCHANGED <<sess, ttl, h, sequence, clientVars, stray>>
\* Both keys get the same TTL, so a key that was SET later expires later.
AccountExpire(a) ==
  /\ current[a] # NoSession
  /\ sess[current[a]] # "none" => ttl[current[a]] # "ordered"
  /\ current' = [current EXCEPT ![a] = NoSession]
  /\ UNCHANGED <<sess, ttl, h, sequence, clientVars, stray>>

LoginStep(s) == GetOld(s) \/ DelOld(s) \/ WriteFields(s) \/ WriteRest(s)
                \/ SetAccount(s) \/ Answer(s)

Next ==
  \/ \E s \in Servers : Crash(s) \/ LoginStep(s) \/ \E a \in Accounts : Login(s, a)
  \/ \E id \in SessionId : SessionExpire(id)
  \/ \E a \in Accounts : AccountExpire(a)

Spec == Init /\ [][Next]_vars
-----------------------------------------------------------------------------
(* Properties                                                              *)

\* spec.md: an account has one valid session at a time.
OneSessionPerAccount ==
  \A i, j \in SessionId : Valid(i) /\ Valid(j) /\ Owner(i) = Owner(j) => i = j

\* spec.md, README: the latest login wins; a session that a later login of its
\* account has superseded is invalid, and stays so.
SupersededInvalid == \A id \in superseded : ~Valid(id)

\* The next login finds the session it has to end: a valid session is the one
\* the account key names, except while its login has yet to SET the key.
ValidIsCurrent ==
  \A id \in SessionId : Valid(id) =>
    \/ current[Owner(id)] = id
    \/ \E s \in Servers : h[s].id = id /\ h[s].pc \in {"fields", "set"}

\* spec.md: the latest login of an account wins, all others are over, and the
\* next one will find it.
LatestLoginWins == OneSessionPerAccount /\ SupersededInvalid /\ ValidIsCurrent

\* A session that a client holds and that has ended never becomes valid again,
\* whatever Redis call fails.
NoResurrection ==
  [][\A id \in granted : ~Valid(id) => ~Valid(id)']_vars

\* To FindById's callers the store is the one SessionPromise describes.
Taken == {h[s].id : s \in {t \in Servers : h[t].pc \in {"get", "del", "hset", "fields"}}}
Promise == INSTANCE SessionPromise WITH
  valid <- {id \in SessionId : Valid(id)},
  fresh <- {id \in SessionId : \A s \in Servers : sequence[s] <= id[2]} \union Taken
ImplementsPromise == Promise!Spec

\* What failed calls and crashes leave behind is all that goes wrong: any other
\* valid session is the only one of its account, and the next login of the
\* account will find it, although ids are used again after a restart.
FailuresLeaveStrays ==
  \A id \in SessionId \ stray : Valid(id) =>
    /\ \/ current[Owner(id)] = id
       \/ \E s \in Servers : h[s].id = id /\ h[s].pc \in {"fields", "set"}
    /\ \A j \in SessionId \ stray : Valid(j) /\ Owner(j) = Owner(id) => j = id
=============================================================================
