-------------------------- MODULE SessionStoreProofs --------------------------
(***************************************************************************)
(* What RedisSessionRepository guarantees when one process runs logins, for*)
(* every number of accounts and logins; each theorem names the faults.     *)
(***************************************************************************)
EXTENDS SessionStore, TLAPS

\* There is one login process.
OneProcess == \A s, t \in Servers : s = t

\* The login a process is in works for one account and on one id of it.
LoginInv ==
  \A s \in Servers :
    /\ h[s].pc \in Steps => /\ h[s].account \in Accounts
                            /\ h[s].id \in SessionId
                            /\ Owner(h[s].id) = h[s].account
    /\ At(s, "del") => h[s].old \in SessionId

TInv == TypeOK /\ LoginInv

USE DEF Steps

LEMMA NoSessionFact == NoSession \notin SessionId
  BY AccountsAssumption DEF NoSession, SessionId

LEMMA IdleHandler == Idle \in Handler /\ Idle.pc = "idle"
  BY DEF Idle, Handler

\* What a step of the control leaves alone.
LEMMA GotoFact ==
  ASSUME h \in [Servers -> Handler], NEW s \in Servers, NEW pc \in Steps, Goto(s, pc)
  PROVE  /\ h' \in [Servers -> Handler]
         /\ h'[s].pc = pc
         /\ h'[s].account = h[s].account /\ h'[s].id = h[s].id /\ h'[s].old = h[s].old
         /\ \A t \in Servers \ {s} : h'[t] = h[t]
  BY DEF Goto, Handler

LEMMA IdleFact ==
  ASSUME h \in [Servers -> Handler], NEW s \in Servers, h' = [h EXCEPT ![s] = Idle]
  PROVE  /\ h' \in [Servers -> Handler]
         /\ h'[s].pc = "idle"
         /\ \A t \in Servers \ {s} : h'[t] = h[t]
  BY IdleHandler

LEMMA LoginFact ==
  ASSUME TypeOK, NEW s \in Servers, NEW a \in Accounts, Login(s, a)
  PROVE  /\ <<a, sequence[s]>> \in SessionId
         /\ h' \in [Servers -> Handler]
         /\ h'[s].pc = "get" /\ h'[s].account = a /\ h'[s].id = <<a, sequence[s]>>
         /\ Owner(h'[s].id) = a
         /\ \A t \in Servers \ {s} : h'[t] = h[t]
         /\ sequence' \in [Servers -> Nat \ {0}]
         /\ sequence'[s] = sequence[s] + 1
  <1>1. sequence[s] \in Nat \ {0} /\ sequence[s] <= MaxSeq
    BY DEF TypeOK, Login
  <1>2. <<a, sequence[s]>> \in SessionId
    BY <1>1, MaxSeqAssumption DEF SessionId
  <1>3. [pc |-> "get", account |-> a, id |-> <<a, sequence[s]>>, old |-> NoSession] \in Handler
    BY <1>2 DEF Handler
  <1>4. sequence' = [sequence EXCEPT ![s] = sequence[s] + 1]
    BY DEF Login
  <1>5. sequence' \in [Servers -> Nat \ {0}] /\ sequence'[s] = sequence[s] + 1
    BY <1>1, <1>4 DEF TypeOK
  <1>6. Owner(<<a, sequence[s]>>) = a
    BY DEF Owner
  <1>7. /\ h'[s].pc = "get" /\ h'[s].account = a /\ h'[s].id = <<a, sequence[s]>>
        /\ h' \in [Servers -> Handler] /\ \A t \in Servers \ {s} : h'[t] = h[t]
    BY <1>3 DEF TypeOK, Login
  <1> QED
    BY <1>2, <1>5, <1>6, <1>7

\* GET account:session found an old id, or the login goes on to HSET.
LEMMA GetOldFact ==
  ASSUME TypeOK, NEW s \in Servers, h[s].account \in Accounts, GetOld(s)
  PROVE  /\ h' \in [Servers -> Handler]
         /\ h'[s].account = h[s].account /\ h'[s].id = h[s].id
         /\ \A t \in Servers \ {s} : h'[t] = h[t]
         /\ \/ /\ h'[s].pc = "del" /\ h'[s].old \in SessionId
               /\ h'[s].old = current[h[s].account]
            \/ /\ h'[s].pc = "hset"
               /\ current[h[s].account] = NoSession \/ "redis" \in Faults
               /\ stray' = stray \union ({current[h[s].account]} \ {NoSession})
  <1> DEFINE old == current[h[s].account]
  <1>1. old \in SessionId \union {NoSession} /\ h[s] \in Handler
    BY DEF TypeOK
  <1>2. CASE old # NoSession /\ h' = [h EXCEPT ![s] = [@ EXCEPT !.pc = "del", !.old = old]]
    <2>1. [h[s] EXCEPT !.pc = "del", !.old = old] \in Handler
      BY <1>1 DEF Handler
    <2> QED
      BY <1>1, <1>2, <2>1 DEF TypeOK, Handler
  <1>3. CASE old = NoSession /\ Goto(s, "hset") /\ stray' = stray
    BY <1>3, GotoFact DEF TypeOK
  <1>4. CASE "redis" \in Faults /\ Goto(s, "hset") /\ stray' = stray \union ({old} \ {NoSession})
    BY <1>4, GotoFact DEF TypeOK
  <1> QED
    BY <1>2, <1>3, <1>4 DEF GetOld
-----------------------------------------------------------------------------
LEMMA InitTInv == Init => TInv
  BY IdleHandler DEF Init, TInv, TypeOK, LoginInv, At

LEMMA NextTInv == TInv /\ [Next]_vars => TInv'
  <1> SUFFICES ASSUME TInv, [Next]_vars PROVE TInv'
    OBVIOUS
  <1> USE DEF TInv, TypeOK, LoginInv, redisVars, clientVars, At
  <1>1. ASSUME NEW s \in Servers, NEW a \in Accounts, Login(s, a) PROVE TInv'
    <2>1. UNCHANGED <<sess, ttl, current, granted, superseded, stray>>
      BY <1>1 DEF Login
    <2>2. h' \in [Servers -> Handler] /\ sequence' \in [Servers -> Nat \ {0}]
      BY <1>1, LoginFact
    <2>3. /\ h'[s].pc = "get" /\ h'[s].account = a
          /\ h'[s].id \in SessionId /\ Owner(h'[s].id) = a
          /\ \A t \in Servers \ {s} : h'[t] = h[t]
      BY <1>1, LoginFact, ZenonT(40)
    <2>4. TypeOK'
      BY <2>1, <2>2
    <2>5. LoginInv'
      BY <2>3
    <2> QED
      BY <2>4, <2>5
  <1>2. ASSUME NEW s \in Servers, GetOld(s) PROVE TInv'
    <2>1. /\ UNCHANGED <<sess, ttl, current, sequence, granted, superseded>>
          /\ h[s].account \in Accounts /\ stray' \subseteq SessionId
      BY <1>2 DEF GetOld
    <2>2. /\ h' \in [Servers -> Handler]
          /\ h'[s].id = h[s].id /\ h'[s].account = h[s].account
          /\ h'[s].pc = "del" => h'[s].old \in SessionId
          /\ \A t \in Servers \ {s} : h'[t] = h[t]
      BY <1>2, <2>1, GetOldFact
    <2>3. TypeOK'
      BY <2>1, <2>2
    <2>4. LoginInv'
      BY <1>2, <2>2 DEF GetOld
    <2> QED
      BY <2>3, <2>4
  <1>3. ASSUME NEW s \in Servers, DelOld(s) PROVE TInv'
    BY <1>3, GotoFact DEF DelOld
  <1>4. ASSUME NEW s \in Servers, WriteFields(s) PROVE TInv'
    BY <1>4, GotoFact DEF WriteFields
  <1>5. ASSUME NEW s \in Servers, WriteRest(s) PROVE TInv'
    BY <1>5, GotoFact DEF WriteRest, Rest
  <1>6. ASSUME NEW s \in Servers, SetAccount(s) PROVE TInv'
    BY <1>6, GotoFact DEF SetAccount
  <1>7. ASSUME NEW s \in Servers, Answer(s) PROVE TInv'
    <2>1. /\ UNCHANGED <<sess, ttl, current, sequence, stray>> /\ At(s, "reply")
          /\ h' = [h EXCEPT ![s] = Idle] /\ granted' = granted \union {h[s].id}
          /\ superseded' = superseded \union {g \in granted : Owner(g) = Owner(h[s].id)}
      BY <1>7 DEF Answer
    <2>2. granted' \subseteq SessionId /\ superseded' \subseteq granted'
      BY <2>1
    <2> QED
      BY <2>1, <2>2, IdleFact
  <1>8. ASSUME NEW s \in Servers, Crash(s) PROVE TInv'
    <2>1. /\ UNCHANGED <<ttl, current, granted, superseded>> /\ h' = [h EXCEPT ![s] = Idle]
          /\ sess' \in [SessionId -> {"none", "partial", "full"}]
          /\ stray' \subseteq SessionId
      BY <1>8 DEF Crash, Rest
    <2>2. sequence' \in [Servers -> Nat \ {0}]
      BY <1>8, SMT DEF Crash
    <2> QED
      BY <2>1, <2>2, IdleFact
  <1>9. ASSUME NEW id \in SessionId, SessionExpire(id) PROVE TInv'
    BY <1>9 DEF SessionExpire
  <1>10. ASSUME NEW a \in Accounts, AccountExpire(a) PROVE TInv'
    BY <1>10 DEF AccountExpire
  <1>11. CASE UNCHANGED vars
    BY <1>11 DEF vars
  <1> QED
    BY <1>1, <1>2, <1>3, <1>4, <1>5, <1>6, <1>7, <1>8, <1>9, <1>10, <1>11
       DEF Next, LoginStep

\* Every variable keeps its type, whatever fails.
THEOREM TypeCorrect == Spec => []TypeOK
<1>1. TInv => TypeOK
  BY DEF TInv
<1> QED
  BY <1>1, InitTInv, NextTInv, PTL DEF Spec
-----------------------------------------------------------------------------
(* Strays.  With one login process, a session that no failed call and no   *)
(* crash has left behind is found and ended by the next login.             *)

\* The account key names the session and outlives it, and no login past its
\* DEL is about to replace it.
Named(id) ==
  /\ current[Owner(id)] = id
  /\ ttl[id] = "ordered"
  /\ \A s \in Servers : h[s].account = Owner(id) =>
       /\ h[s].pc \notin {"hset", "fields", "set"}
       /\ At(s, "del") => h[s].old = id

\* A login is writing the session and has yet to SET the account key.
Unnamed(id) ==
  \E s \in Servers : /\ h[s].id = id
                     /\ h[s].pc \in {"fields", "set"}
                     /\ At(s, "set") => ttl[id] # "none"

StrayInv == \A id \in SessionId \ stray : Valid(id) => Named(id) \/ Unnamed(id)

LEMMA InitStrayInv == Init => StrayInv
  BY DEF Init, StrayInv, Valid

LEMMA NextStrayInv ==
  ASSUME OneProcess, TInv, StrayInv, [Next]_vars
  PROVE  StrayInv'
  <1> USE DEF redisVars, clientVars, At
  <1>0. TypeOK /\ LoginInv
    BY DEF TInv
  <1> SUFFICES ASSUME NEW id \in SessionId, id \notin stray', Valid(id)'
               PROVE  Named(id)' \/ Unnamed(id)'
    BY DEF StrayInv
  <1> DEFINE Goal == Named(id)' \/ Unnamed(id)'
             Before == id \notin stray /\ Valid(id)
  <1>a. Before => Named(id) \/ Unnamed(id)
    BY DEF StrayInv
  <1>b. /\ Owner(id) \in Accounts
        /\ current \in [Accounts -> SessionId \union {NoSession}]
        /\ ttl \in [SessionId -> {"none", "armed", "ordered"}]
        /\ sess \in [SessionId -> {"none", "partial", "full"}]
    BY <1>0 DEF TypeOK, SessionId, Owner
  <1>1. ASSUME NEW s \in Servers, NEW a \in Accounts, Login(s, a) PROVE Goal
    <2>1. UNCHANGED <<sess, ttl, current, stray>> /\ h[s].pc = "idle" /\ h'[s].pc = "get"
      BY <1>0, <1>1, LoginFact DEF Login
    <2>2. ~Unnamed(id)
      BY <2>1 DEF Unnamed, OneProcess
    <2>3. Named(id)
      BY <1>a, <2>1, <2>2 DEF Valid
    <2> QED
      BY <2>1, <2>3 DEF Named, OneProcess
  <1>2. ASSUME NEW s \in Servers, GetOld(s) PROVE Goal
    <2>1. /\ UNCHANGED <<sess, ttl, current>> /\ h[s].pc = "get" /\ h[s].account \in Accounts
          /\ stray \subseteq stray'
      BY <1>0, <1>2 DEF GetOld, LoginInv
    <2>2. ~Unnamed(id)
      BY <2>1 DEF Unnamed, OneProcess
    <2>3. Named(id)
      BY <1>a, <2>1, <2>2 DEF Valid
    <2>4. h'[s].account = h[s].account
      BY <1>0, <1>2, <2>1, GetOldFact
    <2>5. CASE h[s].account # Owner(id)
      BY <2>1, <2>3, <2>4, <2>5 DEF Named, OneProcess
    <2>6. CASE h[s].account = Owner(id)
      <3>1. current[h[s].account] = id /\ id # NoSession
        BY <2>3, <2>6, NoSessionFact DEF Named
      <3>2. h'[s].pc = "del" /\ h'[s].old = id
        BY <1>0, <1>2, <2>1, <3>1, GetOldFact
      <3> QED
        BY <2>1, <2>3, <2>4, <3>2 DEF Named, OneProcess
    <2> QED
      BY <2>5, <2>6
  <1>3. ASSUME NEW s \in Servers, DelOld(s) PROVE Goal
    <2>1. /\ UNCHANGED current /\ h[s].pc = "del" /\ h'[s].pc = "hset"
          /\ h'[s].account = h[s].account /\ h[s].old \in SessionId /\ stray \subseteq stray'
      BY <1>0, <1>3, GotoFact DEF DelOld, TypeOK, LoginInv
    <2>2. id # h[s].old
      BY <1>3, <1>b, <2>1 DEF DelOld, Valid
    <2>3. sess'[id] = sess[id] /\ ttl'[id] = ttl[id]
      BY <1>3, <1>b, <2>1, <2>2 DEF DelOld
    <2>4. ~Unnamed(id)
      BY <2>1 DEF Unnamed, OneProcess
    <2>5. Named(id)
      BY <1>a, <2>1, <2>3, <2>4 DEF Valid
    <2>6. h[s].account # Owner(id)
      BY <2>1, <2>2, <2>5 DEF Named
    <2> QED
      BY <2>1, <2>3, <2>5, <2>6 DEF Named, OneProcess
  <1>4. ASSUME NEW s \in Servers, WriteFields(s) PROVE Goal
    <2>1. /\ UNCHANGED <<current, ttl>> /\ h[s].pc = "hset" /\ h[s].id \in SessionId
          /\ Owner(h[s].id) = h[s].account
          /\ h'[s].account = h[s].account /\ h'[s].id = h[s].id
          /\ h'[s].pc \in {"fields", "set"}
      BY <1>0, <1>4, GotoFact DEF WriteFields, TypeOK, LoginInv
    <2>2. CASE id = h[s].id /\ h'[s].pc = "fields"
      BY <2>1, <2>2 DEF Unnamed
    <2>3. CASE ~(id = h[s].id /\ h'[s].pc = "fields")
      <3>1. sess'[id] = sess[id] /\ id \notin stray
        <4>1. CASE h' = [h EXCEPT ![s].pc = "fields"]
          <5>1. h'[s].pc = "fields"
            BY <1>0, <4>1 DEF TypeOK, Handler
          <5> QED
            BY <1>4, <1>b, <2>1, <2>3, <5>1 DEF WriteFields
        <4>2. CASE UNCHANGED <<sess, stray>>
          BY <4>2
        <4> QED
          BY <1>4, <4>1, <4>2 DEF WriteFields, Goto
      <3>2. ~Unnamed(id)
        BY <2>1 DEF Unnamed, OneProcess
      <3>3. Named(id)
        BY <1>a, <3>1, <3>2 DEF Valid
      <3>4. h[s].account # Owner(id)
        BY <2>1, <3>3 DEF Named
      <3> QED
        BY <2>1, <3>3, <3>4 DEF Named, OneProcess
    <2> QED
      BY <2>2, <2>3
  <1>5. ASSUME NEW s \in Servers, WriteRest(s) PROVE Goal
    <2>1. /\ UNCHANGED current /\ h[s].pc = "fields" /\ h'[s].pc = "set" /\ h[s].id \in SessionId
          /\ Owner(h[s].id) = h[s].account /\ stray \subseteq stray'
          /\ h'[s].account = h[s].account /\ h'[s].id = h[s].id
      BY <1>0, <1>5, GotoFact DEF WriteRest, Rest, TypeOK, LoginInv
    <2>2. CASE id = h[s].id
      <3>1. ttl'[id] = "armed"
        BY <1>5, <1>b, <2>2 DEF WriteRest, Rest
      <3> QED
        BY <2>1, <2>2, <3>1 DEF Unnamed
    <2>3. CASE id # h[s].id
      <3>1. sess'[id] = sess[id] /\ ttl'[id] = ttl[id]
        BY <1>5, <1>b, <2>1, <2>3 DEF WriteRest, Rest
      <3>2. ~Unnamed(id)
        BY <2>3 DEF Unnamed, OneProcess
      <3>3. Named(id)
        BY <1>a, <2>1, <3>1, <3>2 DEF Valid
      <3>4. h[s].account # Owner(id)
        BY <2>1, <3>3 DEF Named
      <3> QED
        BY <2>1, <3>1, <3>3, <3>4 DEF Named, OneProcess
    <2> QED
      BY <2>2, <2>3
  <1>6. ASSUME NEW s \in Servers, SetAccount(s) PROVE Goal
    <2>1. /\ UNCHANGED sess /\ h[s].pc = "set" /\ h'[s].pc = "reply" /\ h[s].id \in SessionId
          /\ Owner(h[s].id) = h[s].account /\ h[s].account \in Accounts /\ stray \subseteq stray'
          /\ h'[s].account = h[s].account /\ h'[s].id = h[s].id
      BY <1>0, <1>6, GotoFact DEF SetAccount, TypeOK, LoginInv
    <2>2. Named(id) \/ Unnamed(id)
      BY <1>a, <2>1 DEF Valid
    <2>3. CASE id = h[s].id
      <3>1. Unnamed(id)
        BY <2>1, <2>2, <2>3 DEF Named
      <3>2. ttl[id] # "none"
        BY <2>1, <3>1 DEF Unnamed, OneProcess
      <3>3. current'[Owner(id)] = id /\ ttl'[id] = "ordered"
        BY <1>6, <1>b, <2>1, <2>3, <3>2 DEF SetAccount
      <3> QED
        BY <2>1, <3>3 DEF Named, OneProcess
    <2>4. CASE id # h[s].id
      <3>1. Named(id)
        BY <2>2, <2>4 DEF Unnamed, OneProcess
      <3>2. h[s].account # Owner(id)
        BY <2>1, <3>1 DEF Named
      <3>3. current'[Owner(id)] = current[Owner(id)] /\ ttl'[id] = ttl[id]
        BY <1>6, <1>b, <2>1, <2>4, <3>2 DEF SetAccount
      <3> QED
        BY <2>1, <3>1, <3>2, <3>3 DEF Named, OneProcess
    <2> QED
      BY <2>3, <2>4
  <1>7. ASSUME NEW s \in Servers, Answer(s) PROVE Goal
    <2>1. /\ UNCHANGED <<sess, ttl, current, stray>> /\ h[s].pc = "reply" /\ h'[s].pc = "idle"
      BY <1>0, <1>7, IdleFact DEF Answer, TypeOK
    <2>2. Named(id)
      BY <1>a, <2>1 DEF Valid, Unnamed, OneProcess
    <2> QED
      BY <2>1, <2>2 DEF Named, OneProcess
  <1>8. ASSUME NEW s \in Servers, Crash(s) PROVE Goal
    <2>1. /\ UNCHANGED <<ttl, current>> /\ h'[s].pc = "idle" /\ stray \subseteq stray'
      BY <1>0, <1>8, IdleFact DEF Crash, TypeOK
    <2>2. h[s].pc \in {"fields", "set"} => id # h[s].id
      BY <1>8 DEF Crash
    <2>3. sess'[id] = sess[id]
      BY <1>8, <1>b, <2>2 DEF Crash, Rest
    <2>4. Named(id)
      BY <1>a, <2>1, <2>2, <2>3 DEF Valid, Unnamed, OneProcess
    <2> QED
      BY <2>1, <2>4 DEF Named, OneProcess
  <1>9. ASSUME NEW i \in SessionId, SessionExpire(i) PROVE Goal
    <2>1. UNCHANGED <<current, h, stray>> /\ i # id
      BY <1>9, <1>b DEF SessionExpire, Valid
    <2>2. sess'[id] = sess[id] /\ ttl'[id] = ttl[id]
      BY <1>9, <1>b, <2>1 DEF SessionExpire
    <2> QED
      BY <1>a, <2>1, <2>2 DEF Valid, Named, Unnamed
  <1>10. ASSUME NEW a \in Accounts, AccountExpire(a) PROVE Goal
    <2>1. UNCHANGED <<sess, ttl, h, stray>>
      BY <1>10 DEF AccountExpire
    <2>2. Named(id) => current'[Owner(id)] = id
      BY <1>10, <1>b, <2>1 DEF AccountExpire, Named, Valid
    <2> QED
      BY <1>a, <2>1, <2>2 DEF Valid, Named, Unnamed
  <1>11. CASE UNCHANGED vars
    BY <1>11, <1>a DEF vars, Valid, Named, Unnamed
  <1> QED
    BY <1>1, <1>2, <1>3, <1>4, <1>5, <1>6, <1>7, <1>8, <1>9, <1>10, <1>11 DEF Next, LoginStep

\* With one login process, whatever fails and however often it restarts, a
\* valid session that is not the account's only one or that its next login will
\* not find is one a failed call or a crash has left behind.
THEOREM OnlyFailuresLeaveStrays ==
  ASSUME OneProcess
  PROVE  Spec => []FailuresLeaveStrays
<1>1. TInv /\ StrayInv => FailuresLeaveStrays
  <2> SUFFICES ASSUME TInv, StrayInv, NEW id \in SessionId \ stray, Valid(id)
               PROVE  /\ \/ current[Owner(id)] = id
                         \/ \E s \in Servers : h[s].id = id /\ h[s].pc \in {"fields", "set"}
                      /\ \A j \in SessionId \ stray : Valid(j) /\ Owner(j) = Owner(id) => j = id
    BY DEF FailuresLeaveStrays
  <2>1. Named(id) \/ Unnamed(id)
    BY DEF StrayInv
  <2>2. ASSUME NEW k \in SessionId, NEW l \in SessionId, Owner(k) = Owner(l), Named(k), Unnamed(l)
        PROVE  FALSE
    BY <2>2 DEF Named, Unnamed, TInv, LoginInv
  <2>3. ASSUME NEW j \in SessionId \ stray, Valid(j), Owner(j) = Owner(id) PROVE j = id
    <3>1. Named(j) \/ Unnamed(j)
      BY <2>3 DEF StrayInv
    <3>2. CASE Named(j) /\ Named(id)
      BY <2>3, <3>2 DEF Named
    <3>3. CASE Unnamed(j) /\ Unnamed(id)
      BY <3>3 DEF Unnamed, OneProcess
    <3> QED
      BY <2>1, <2>2, <2>3, <3>1, <3>2, <3>3
  <2> QED
    BY <2>1, <2>3 DEF Named, Unnamed
<1>2. TInv /\ StrayInv /\ [Next]_vars => StrayInv'
  BY NextStrayInv
<1> QED
  BY <1>1, <1>2, InitTInv, NextTInv, InitStrayInv, PTL DEF Spec
-----------------------------------------------------------------------------
(* Ids.  Without crashes a login works on an id nobody has ever seen.      *)

\* The ids a process has not generated yet.
Fresh(s) == {id \in SessionId : id[2] >= sequence[s]}

IdInv ==
  \A s \in Servers :
    /\ h[s].pc \in Steps => h[s].id \notin granted /\ h[s].id \notin Fresh(s)
    /\ \A id \in Fresh(s) : id \notin granted /\ sess[id] = "none" /\ ttl[id] = "none"

LEMMA FreshStep ==
  ASSUME TypeOK, NEW s \in Servers, NEW a \in Accounts, Login(s, a)
  PROVE  /\ Fresh(s)' \subseteq Fresh(s)
         /\ <<a, sequence[s]>> \in Fresh(s)
         /\ <<a, sequence[s]>> \notin Fresh(s)'
  <1>1. sequence[s] \in Nat /\ sequence'[s] = sequence[s] + 1
    BY LoginFact DEF TypeOK
  <1>2. \A id \in SessionId : id[2] \in Nat
    BY MaxSeqAssumption DEF SessionId
  <1>3. <<a, sequence[s]>> \in SessionId
    BY LoginFact
  <1> QED
    BY <1>1, <1>2, <1>3 DEF Fresh

LEMMA FreshKept ==
  ASSUME NEW s \in Servers, UNCHANGED sequence
  PROVE  Fresh(s)' = Fresh(s)
  BY DEF Fresh

LEMMA InitIdInv == Init => IdInv
  BY IdleHandler DEF Init, IdInv, Fresh

LEMMA NextIdInv ==
  ASSUME OneProcess, "crash" \notin Faults, TInv, IdInv, [Next]_vars
  PROVE  IdInv'
  <1> USE DEF TInv, IdInv, redisVars, clientVars, At
  <1> HIDE DEF TInv
  <1>0. TypeOK /\ LoginInv
    BY DEF TInv
  <1>1. ASSUME NEW s \in Servers, NEW a \in Accounts, Login(s, a) PROVE IdInv'
    <2>1. UNCHANGED <<sess, ttl, granted>>
      BY <1>1 DEF Login
    <2>2. h'[s].id = <<a, sequence[s]>>
      BY <1>0, <1>1, LoginFact
    <2>3. h'[s].id \notin granted /\ h'[s].id \notin Fresh(s)'
      BY <1>0, <1>1, <2>2, FreshStep
    <2>4. \A id \in Fresh(s)' : id \notin granted /\ sess[id] = "none" /\ ttl[id] = "none"
      BY <1>0, <1>1, FreshStep
    <2> QED
      BY <2>1, <2>3, <2>4 DEF OneProcess
  <1>2. ASSUME NEW s \in Servers, GetOld(s) PROVE IdInv'
    <2>1. UNCHANGED <<sess, ttl, granted, sequence>> /\ h[s].pc = "get"
      BY <1>2 DEF GetOld
    <2>2. h'[s].id = h[s].id
      BY <1>0, <1>2, <2>1, GetOldFact DEF LoginInv
    <2> QED
      BY <2>1, <2>2, FreshKept DEF OneProcess
  <1>3. ASSUME NEW s \in Servers, DelOld(s) PROVE IdInv'
    <2>1. UNCHANGED <<granted, sequence>> /\ h[s].pc = "del" /\ h'[s].id = h[s].id
      BY <1>0, <1>3, GotoFact DEF DelOld, TypeOK
    <2>2. \A id \in SessionId : /\ sess[id] = "none" => sess'[id] = "none"
                                /\ ttl[id] = "none" => ttl'[id] = "none"
      BY <1>0, <1>3 DEF DelOld, TypeOK
    <2> QED
      BY <2>1, <2>2, FreshKept DEF OneProcess, Fresh
  <1>4. ASSUME NEW s \in Servers, WriteFields(s) \/ WriteRest(s) \/ SetAccount(s) PROVE IdInv'
    <2>1. UNCHANGED <<granted, sequence>> /\ h[s].pc \in Steps /\ h'[s].id = h[s].id
      BY <1>0, <1>4, GotoFact DEF WriteFields, WriteRest, Rest, SetAccount, TypeOK
    <2>2. \A id \in SessionId \ {h[s].id} : sess'[id] = sess[id] /\ ttl'[id] = ttl[id]
      BY <1>0, <1>4 DEF WriteFields, WriteRest, Rest, SetAccount, TypeOK
    <2> QED
      BY <2>1, <2>2, FreshKept DEF OneProcess, Fresh
  <1>5. ASSUME NEW s \in Servers, Answer(s) PROVE IdInv'
    <2>1. /\ UNCHANGED <<sess, ttl, sequence>> /\ h[s].pc \in Steps /\ h'[s].pc = "idle"
          /\ granted' = granted \union {h[s].id}
      BY <1>0, <1>5, IdleFact DEF Answer, TypeOK
    <2> QED
      BY <2>1, FreshKept DEF OneProcess
  <1>6. ASSUME NEW s \in Servers, Crash(s) PROVE FALSE
    BY <1>6 DEF Crash
  <1>7. ASSUME NEW id \in SessionId, SessionExpire(id) PROVE IdInv'
    <2>1. UNCHANGED <<h, granted, sequence>>
      BY <1>7 DEF SessionExpire
    <2>2. \A i \in SessionId : /\ sess[i] = "none" => sess'[i] = "none"
                               /\ ttl[i] = "none" => ttl'[i] = "none"
      BY <1>0, <1>7 DEF SessionExpire, TypeOK
    <2> QED
      BY <2>1, <2>2, FreshKept DEF Fresh
  <1>8. ASSUME NEW a \in Accounts, AccountExpire(a) PROVE IdInv'
    BY <1>8, FreshKept DEF AccountExpire
  <1>9. CASE UNCHANGED vars
    BY <1>9, FreshKept DEF vars
  <1> QED
    BY <1>1, <1>2, <1>3, <1>4, <1>5, <1>6, <1>7, <1>8, <1>9 DEF Next, LoginStep

\* A session in a client's hands that has ended stays ended: a login writes
\* only an id no client has, whatever Redis call fails.
LEMMA StepNoResurrection ==
  ASSUME "crash" \notin Faults, TInv, IdInv, [Next]_vars, NEW id \in granted, ~Valid(id)
  PROVE  ~Valid(id)'
  <1>1. id \in SessionId /\ TypeOK
    BY DEF TInv, TypeOK
  <1>2. ASSUME NEW s \in Servers, WriteFields(s) \/ WriteRest(s) PROVE ~Valid(id)'
    <2>1. h[s].pc \in Steps
      BY <1>2 DEF WriteFields, WriteRest, Rest, At
    <2>2. id # h[s].id
      BY <2>1 DEF IdInv
    <2> QED
      BY <1>1, <1>2, <2>2 DEF WriteFields, WriteRest, Rest, Valid, TypeOK
  <1>3. ASSUME NEW s \in Servers, DelOld(s) PROVE ~Valid(id)'
    BY <1>1, <1>3 DEF DelOld, Valid, TypeOK
  <1>4. ASSUME NEW i \in SessionId, SessionExpire(i) PROVE ~Valid(id)'
    BY <1>1, <1>4 DEF SessionExpire, Valid, TypeOK
  <1>5. ASSUME UNCHANGED sess PROVE ~Valid(id)'
    BY <1>5 DEF Valid
  <1> QED
    BY <1>2, <1>3, <1>4, <1>5
    DEF Next, LoginStep, Login, GetOld, SetAccount, Answer, Crash, AccountExpire, vars, redisVars

\* README: the old session is invalid for good while login_server lives.
THEOREM EndedSessionsStayEnded ==
  ASSUME OneProcess, "crash" \notin Faults
  PROVE  Spec => NoResurrection
<1>1. TInv /\ IdInv /\ [Next]_vars => (\A id \in granted : ~Valid(id) => ~Valid(id)')
  BY StepNoResurrection
<1>2. TInv /\ IdInv /\ [Next]_vars => IdInv'
  BY NextIdInv
<1> QED
  BY <1>1, <1>2, InitTInv, NextTInv, InitIdInv, PTL DEF Spec, NoResurrection
-----------------------------------------------------------------------------
(* Keys.  Without failing calls the account key names an answered session. *)

KeyInv ==
  \A s \in Servers :
    /\ At(s, "set") => sess[h[s].id] # "none" /\ ttl[h[s].id] = "armed"
    /\ At(s, "reply") => /\ sess[h[s].id] # "none" /\ ttl[h[s].id] = "ordered"
                         /\ current[h[s].account] = h[s].id

LEMMA InitKeyInv == Init => KeyInv
  BY IdleHandler DEF Init, KeyInv, At

LEMMA NextKeyInv ==
  ASSUME OneProcess, "redis" \notin Faults, TInv, KeyInv, [Next]_vars
  PROVE  KeyInv'
  <1> USE DEF KeyInv, redisVars, clientVars, At
  <1>0. TypeOK /\ LoginInv
    BY DEF TInv
  <1>1. ASSUME NEW s \in Servers, h'[s].pc \notin {"set", "reply"} PROVE KeyInv'
    BY <1>1 DEF OneProcess
  <1>2. ASSUME NEW s \in Servers, NEW a \in Accounts, Login(s, a) PROVE KeyInv'
    BY <1>0, <1>1, <1>2, LoginFact
  <1>3. ASSUME NEW s \in Servers, GetOld(s) PROVE KeyInv'
    <2>1. h[s].account \in Accounts
      BY <1>0, <1>3 DEF GetOld, LoginInv
    <2> QED
      BY <1>0, <1>1, <1>3, <2>1, GetOldFact
  <1>4. ASSUME NEW s \in Servers, DelOld(s) \/ WriteFields(s) PROVE KeyInv'
    BY <1>0, <1>1, <1>4, GotoFact DEF DelOld, WriteFields, TypeOK
  <1>5. ASSUME NEW s \in Servers, WriteRest(s) PROVE KeyInv'
    <2>1. h'[s].pc = "set" /\ h'[s].id = h[s].id /\ h[s].id \in SessionId
      BY <1>0, <1>5, GotoFact DEF WriteRest, Rest, TypeOK, LoginInv
    <2>2. sess'[h[s].id] # "none" /\ ttl'[h[s].id] = "armed"
      BY <1>0, <1>5, <2>1 DEF WriteRest, Rest, TypeOK
    <2> QED
      BY <2>1, <2>2 DEF OneProcess
  <1>6. ASSUME NEW s \in Servers, SetAccount(s) PROVE KeyInv'
    <2>1. /\ h'[s].pc = "reply" /\ h'[s].id = h[s].id /\ h'[s].account = h[s].account
          /\ h[s].id \in SessionId /\ h[s].account \in Accounts
      BY <1>0, <1>6, GotoFact DEF SetAccount, TypeOK, LoginInv
    <2>2. sess' = sess /\ sess[h[s].id] # "none" /\ ttl[h[s].id] = "armed"
      BY <1>6 DEF SetAccount
    <2>3. ttl'[h[s].id] = "ordered" /\ current'[h[s].account] = h[s].id
      BY <1>0, <1>6, <2>1, <2>2 DEF SetAccount, TypeOK
    <2> QED
      BY <2>1, <2>2, <2>3 DEF OneProcess
  <1>7. ASSUME NEW s \in Servers, Answer(s) \/ Crash(s) PROVE KeyInv'
    BY <1>0, <1>1, <1>7, IdleFact DEF Answer, Crash, TypeOK
  <1>8. ASSUME NEW id \in SessionId, SessionExpire(id) PROVE KeyInv'
    BY <1>0, <1>8 DEF SessionExpire, TypeOK
  <1>9. ASSUME NEW a \in Accounts, AccountExpire(a) PROVE KeyInv'
    BY <1>0, <1>9 DEF AccountExpire, TypeOK
  <1>10. CASE UNCHANGED vars
    BY <1>10 DEF vars
  <1> QED
    BY <1>2, <1>3, <1>4, <1>5, <1>6, <1>7, <1>8, <1>9, <1>10 DEF Next, LoginStep

-----------------------------------------------------------------------------
(* Sessions.  When nothing fails, an account has one session at a time.    *)

\* A session the account key names, and which no login past its DEL is about
\* to replace.
Settled(id) ==
  /\ current[Owner(id)] = id
  /\ ttl[id] = "ordered"
  /\ \A s \in Servers : h[s].pc \in Steps /\ h[s].account = Owner(id) =>
       \/ At(s, "get")
       \/ At(s, "del") /\ h[s].old = id
       \/ At(s, "reply") /\ h[s].id = id

\* A session whose login has not SET the account key yet.
Writing(id) == \E s \in Servers : h[s].pc \in {"fields", "set"} /\ h[s].id = id

\* What a login has written at each step.
WrittenInv ==
  \A s \in Servers :
    /\ h[s].pc \in {"get", "del", "hset"} => sess[h[s].id] = "none"
    /\ At(s, "fields") => sess[h[s].id] = "partial"
    /\ h[s].pc \in {"get", "del", "hset", "fields"} => ttl[h[s].id] = "none"
    /\ h[s].pc \in {"set", "reply"} => sess[h[s].id] = "full"

SettledInv == \A id \in SessionId : sess[id] # "none" => Settled(id) \/ Writing(id)

EndedInv == \A id \in superseded : sess[id] = "none"

SessInv == WrittenInv /\ SettledInv /\ EndedInv

\* While a login is past its DEL and before its answer, the account's other
\* sessions are gone.
LEMMA OthersGone ==
  ASSUME OneProcess, TInv, SettledInv, NEW s \in Servers,
         h[s].pc \in {"hset", "fields", "set", "reply"},
         NEW id \in SessionId, Owner(id) = h[s].account, id # h[s].id
  PROVE  sess[id] = "none"
  <1> SUFFICES ASSUME sess[id] # "none" PROVE FALSE
    OBVIOUS
  <1>1. ~Writing(id)
    BY DEF Writing, OneProcess
  <1>2. ~Settled(id)
    BY DEF Settled, At
  <1> QED
    BY <1>1, <1>2 DEF SettledInv

LEMMA InitSessInv == Init => SessInv
  BY IdleHandler DEF Init, SessInv, WrittenInv, SettledInv, EndedInv, At

LEMMA NextWrittenInv ==
  ASSUME OneProcess, Faults = {}, TInv, IdInv, KeyInv, WrittenInv, [Next]_vars
  PROVE  WrittenInv'
  <1> USE DEF WrittenInv, redisVars, clientVars, At
  <1>0. TypeOK /\ LoginInv
    BY DEF TInv
  <1>1. ASSUME NEW s \in Servers, NEW a \in Accounts, Login(s, a) PROVE WrittenInv'
    <2>1. UNCHANGED <<sess, ttl>> /\ h'[s].pc = "get" /\ h'[s].id = <<a, sequence[s]>>
      BY <1>0, <1>1, LoginFact DEF Login
    <2>2. sess[<<a, sequence[s]>>] = "none" /\ ttl[<<a, sequence[s]>>] = "none"
      BY <1>0, <1>1, FreshStep DEF IdInv
    <2> QED
      BY <2>1, <2>2 DEF OneProcess
  <1>2. ASSUME NEW s \in Servers, GetOld(s) PROVE WrittenInv'
    <2>1. UNCHANGED <<sess, ttl>> /\ h[s].pc = "get" /\ h[s].account \in Accounts
      BY <1>0, <1>2 DEF GetOld, LoginInv
    <2>2. h'[s].pc \in {"del", "hset"} /\ h'[s].id = h[s].id
      BY <1>0, <1>2, <2>1, GetOldFact
    <2> QED
      BY <2>1, <2>2 DEF OneProcess
  <1>3. ASSUME NEW s \in Servers, DelOld(s) PROVE WrittenInv'
    <2>1. h[s].pc = "del" /\ h'[s].pc = "hset" /\ h'[s].id = h[s].id /\ h[s].id \in SessionId
      BY <1>0, <1>3, GotoFact DEF DelOld, TypeOK, LoginInv
    <2>2. sess'[h[s].id] = "none" /\ ttl'[h[s].id] = "none"
      BY <1>0, <1>3, <2>1 DEF DelOld, TypeOK
    <2> QED
      BY <2>1, <2>2 DEF OneProcess
  <1>4. ASSUME NEW s \in Servers, WriteFields(s) PROVE WrittenInv'
    <2>1. h[s].pc = "hset" /\ h'[s].pc = "fields" /\ h'[s].id = h[s].id /\ h[s].id \in SessionId
      BY <1>0, <1>4, GotoFact DEF WriteFields, TypeOK, LoginInv
    <2>2. sess'[h[s].id] = "partial" /\ ttl' = ttl
      BY <1>0, <1>4, <2>1 DEF WriteFields, TypeOK
    <2> QED
      BY <2>1, <2>2 DEF OneProcess
  <1>5. ASSUME NEW s \in Servers, WriteRest(s) PROVE WrittenInv'
    <2>1. h[s].pc = "fields" /\ h'[s].pc = "set" /\ h'[s].id = h[s].id /\ h[s].id \in SessionId
      BY <1>0, <1>5, GotoFact DEF WriteRest, Rest, TypeOK, LoginInv
    <2>2. sess'[h[s].id] = "full"
      BY <1>0, <1>5, <2>1 DEF WriteRest, Rest, TypeOK
    <2> QED
      BY <2>1, <2>2 DEF OneProcess
  <1>6. ASSUME NEW s \in Servers, SetAccount(s) PROVE WrittenInv'
    <2>1. h[s].pc = "set" /\ h'[s].pc = "reply" /\ h'[s].id = h[s].id /\ sess' = sess
      BY <1>0, <1>6, GotoFact DEF SetAccount, TypeOK
    <2> QED
      BY <2>1 DEF OneProcess
  <1>7. ASSUME NEW s \in Servers, Answer(s) PROVE WrittenInv'
    <2>1. h'[s].pc = "idle"
      BY <1>0, <1>7, IdleFact DEF Answer, TypeOK
    <2> QED
      BY <2>1 DEF OneProcess
  <1>8. ASSUME NEW s \in Servers, Crash(s) PROVE FALSE
    BY <1>8 DEF Crash
  <1>9. ASSUME NEW id \in SessionId, SessionExpire(id) PROVE WrittenInv'
    <2>1. /\ h' = h /\ ttl[id] # "none"
          /\ \A s \in Servers : h[s].id = id => h[s].pc \notin {"set", "reply"}
          /\ \A i \in SessionId \ {id} : sess'[i] = sess[i] /\ ttl'[i] = ttl[i]
      BY <1>0, <1>9 DEF SessionExpire, TypeOK
    <2>2. \A s \in Servers : h[s].pc \in Steps => h[s].id \in SessionId \ {id}
      BY <1>0, <2>1 DEF LoginInv
    <2> QED
      BY <2>1, <2>2
  <1>10. ASSUME NEW a \in Accounts, AccountExpire(a) PROVE WrittenInv'
    BY <1>10 DEF AccountExpire
  <1>11. CASE UNCHANGED vars
    BY <1>11 DEF vars
  <1> QED
    BY <1>1, <1>2, <1>3, <1>4, <1>5, <1>6, <1>7, <1>8, <1>9, <1>10, <1>11 DEF Next, LoginStep

LEMMA NextSettledInv ==
  ASSUME OneProcess, Faults = {}, TInv, IdInv, KeyInv, WrittenInv, SettledInv, [Next]_vars
  PROVE  SettledInv'
  <1> USE DEF redisVars, clientVars, At
  <1>0. TypeOK /\ LoginInv
    BY DEF TInv
  <1> SUFFICES ASSUME NEW id \in SessionId, sess'[id] # "none"
               PROVE  Settled(id)' \/ Writing(id)'
    BY DEF SettledInv
  <1>1. ASSUME NEW s \in Servers, NEW a \in Accounts, Login(s, a)
        PROVE  Settled(id)' \/ Writing(id)'
    <2>1. UNCHANGED redisVars /\ h[s].pc = "idle" /\ h'[s].pc = "get"
      BY <1>0, <1>1, LoginFact DEF Login
    <2>2. ~Writing(id)
      BY <2>1 DEF Writing, OneProcess
    <2>3. Settled(id)
      BY <2>1, <2>2 DEF SettledInv
    <2> QED
      BY <2>1, <2>3 DEF Settled, OneProcess
  <1>2. ASSUME NEW s \in Servers, GetOld(s) PROVE Settled(id)' \/ Writing(id)'
    <2>1. UNCHANGED redisVars /\ h[s].pc = "get" /\ h[s].account \in Accounts
      BY <1>0, <1>2 DEF GetOld, LoginInv
    <2>2. ~Writing(id)
      BY <2>1 DEF Writing, OneProcess
    <2>3. Settled(id)
      BY <2>1, <2>2 DEF SettledInv
    <2>4. /\ h'[s].account = h[s].account
          /\ \/ h'[s].pc = "del" /\ h'[s].old = current[h[s].account]
             \/ h'[s].pc = "hset" /\ current[h[s].account] = NoSession
      BY <1>0, <1>2, <2>1, GetOldFact
    <2>5. current[Owner(id)] = id /\ id # NoSession
      BY <2>3, NoSessionFact DEF Settled
    <2>6. h'[s].account = Owner(id) => h'[s].pc = "del" /\ h'[s].old = id
      BY <2>4, <2>5
    <2>7. current' = current /\ ttl' = ttl
      BY <2>1
    <2> QED
      BY <2>3, <2>6, <2>7 DEF Settled, OneProcess
  <1>3. ASSUME NEW s \in Servers, DelOld(s) PROVE Settled(id)' \/ Writing(id)'
    <2>1. /\ h[s].pc = "del" /\ h[s].old \in SessionId
          /\ h'[s].account = h[s].account
      BY <1>0, <1>3, GotoFact DEF DelOld, TypeOK, LoginInv
    <2>2. /\ sess' = [sess EXCEPT ![h[s].old] = "none"]
          /\ ttl' = [ttl EXCEPT ![h[s].old] = "none"] /\ current' = current
      BY <1>3 DEF DelOld
    <2>3. id # h[s].old /\ sess[id] # "none" /\ ttl'[id] = ttl[id]
      BY <1>0, <2>1, <2>2 DEF TypeOK
    <2>4. ~Writing(id)
      BY <2>1 DEF Writing, OneProcess
    <2>5. Settled(id)
      BY <2>3, <2>4 DEF SettledInv
    <2>6. Owner(id) # h[s].account
      BY <2>1, <2>3, <2>5 DEF Settled
    <2> QED
      BY <2>1, <2>2, <2>3, <2>5, <2>6 DEF Settled, OneProcess
  <1>4. ASSUME NEW s \in Servers, WriteFields(s) \/ WriteRest(s)
        PROVE  Settled(id)' \/ Writing(id)'
    <2>1. /\ h[s].pc \in {"hset", "fields"} /\ h'[s].pc \in {"fields", "set"}
          /\ h'[s].id = h[s].id /\ h'[s].account = h[s].account
          /\ h[s].id \in SessionId /\ Owner(h[s].id) = h[s].account
      BY <1>0, <1>4, GotoFact DEF WriteFields, WriteRest, Rest, TypeOK, LoginInv
    <2>2. /\ \A i \in SessionId \ {h[s].id} : sess'[i] = sess[i] /\ ttl'[i] = ttl[i]
          /\ current' = current
      BY <1>0, <1>4, <2>1 DEF WriteFields, WriteRest, Rest, TypeOK
    <2>3. CASE id = h[s].id
      BY <2>1, <2>3 DEF Writing
    <2>4. CASE id # h[s].id
      <3>1. sess[id] # "none" /\ ttl'[id] = ttl[id]
        BY <2>2, <2>4
      <3>2. Owner(id) # h[s].account
        BY <2>1, <2>4, <3>1, OthersGone
      <3>3. Settled(id)
        BY <2>4, <3>1 DEF SettledInv, Writing, OneProcess
      <3> QED
        BY <2>1, <2>2, <3>1, <3>2, <3>3 DEF Settled, OneProcess
    <2> QED
      BY <2>3, <2>4
  <1>5. ASSUME NEW s \in Servers, SetAccount(s) PROVE Settled(id)' \/ Writing(id)'
    <2>1. /\ h[s].pc = "set" /\ h'[s].pc = "reply"
          /\ h'[s].id = h[s].id /\ h'[s].account = h[s].account
          /\ h[s].account \in Accounts
          /\ h[s].id \in SessionId /\ Owner(h[s].id) = h[s].account
      BY <1>0, <1>5, GotoFact DEF SetAccount, TypeOK, LoginInv
    <2>2. /\ sess' = sess /\ current' = [current EXCEPT ![h[s].account] = h[s].id]
          /\ ttl' = [ttl EXCEPT ![h[s].id] = IF @ = "armed" THEN "ordered" ELSE @]
      BY <1>5 DEF SetAccount
    <2>3. ttl[h[s].id] = "armed"
      BY <2>1 DEF KeyInv
    <2>4. CASE id = h[s].id
      <3>1. current'[Owner(id)] = id /\ ttl'[id] = "ordered"
        BY <1>0, <2>1, <2>2, <2>3, <2>4 DEF TypeOK
      <3> QED
        BY <2>1, <2>4, <3>1 DEF Settled, OneProcess
    <2>5. CASE id # h[s].id
      <3>1. sess[id] # "none"
        BY <2>2
      <3>2. Owner(id) # h[s].account
        BY <2>1, <2>5, <3>1, OthersGone
      <3>3. Settled(id)
        BY <2>5, <3>1 DEF SettledInv, Writing, OneProcess
      <3>4. Owner(id) \in Accounts
        BY DEF Owner, SessionId
      <3>5. current'[Owner(id)] = current[Owner(id)] /\ ttl'[id] = ttl[id]
        BY <1>0, <2>2, <2>5, <3>2, <3>4 DEF TypeOK
      <3> QED
        BY <2>1, <3>2, <3>3, <3>5 DEF Settled, OneProcess
    <2> QED
      BY <2>4, <2>5
  <1>6. ASSUME NEW s \in Servers, Answer(s) PROVE Settled(id)' \/ Writing(id)'
    <2>1. UNCHANGED redisVars /\ h[s].pc = "reply" /\ h'[s].pc = "idle"
      BY <1>0, <1>6, IdleFact DEF Answer, TypeOK
    <2>2. Settled(id)
      BY <2>1 DEF SettledInv, Writing, OneProcess
    <2> QED
      BY <2>1, <2>2 DEF Settled, OneProcess
  <1>7. ASSUME NEW s \in Servers, Crash(s) PROVE FALSE
    BY <1>7 DEF Crash
  <1>8. ASSUME NEW i \in SessionId, SessionExpire(i) PROVE Settled(id)' \/ Writing(id)'
    <2>1. UNCHANGED <<current, h>> /\ sess[id] # "none" /\ ttl'[id] = ttl[id]
      BY <1>0, <1>8 DEF SessionExpire, TypeOK
    <2>2. Settled(id) \/ Writing(id)
      BY <2>1 DEF SettledInv
    <2> QED
      BY <2>1, <2>2 DEF Settled, Writing
  <1>9. ASSUME NEW a \in Accounts, AccountExpire(a) PROVE Settled(id)' \/ Writing(id)'
    <2>1. /\ UNCHANGED <<sess, ttl, h>> /\ current' = [current EXCEPT ![a] = NoSession]
          /\ sess[current[a]] # "none" => ttl[current[a]] # "ordered"
      BY <1>9 DEF AccountExpire
    <2>2. CASE Writing(id)
      BY <2>1, <2>2 DEF Writing
    <2>3. CASE Settled(id)
      <3>1. Owner(id) \in Accounts /\ Owner(id) # a
        BY <2>1, <2>3 DEF Settled, Owner, SessionId
      <3>2. current'[Owner(id)] = current[Owner(id)]
        BY <1>0, <2>1, <3>1 DEF TypeOK
      <3> QED
        BY <2>1, <2>3, <3>2 DEF Settled
    <2> QED
      BY <2>1, <2>2, <2>3 DEF SettledInv
  <1>10. CASE UNCHANGED vars
    <2>1. Settled(id) \/ Writing(id)
      BY <1>10 DEF vars, SettledInv
    <2> QED
      BY <1>10, <2>1 DEF vars, Settled, Writing
  <1> QED
    BY <1>1, <1>2, <1>3, <1>4, <1>5, <1>6, <1>7, <1>8, <1>9, <1>10 DEF Next, LoginStep

\* A login writes only its own id, which no client has, and its answer
\* supersedes only sessions its DEL has ended.
LEMMA NextEndedInv ==
  ASSUME OneProcess, Faults = {}, TInv, IdInv, SettledInv, EndedInv, [Next]_vars
  PROVE  EndedInv'
  <1> USE DEF redisVars, clientVars, At
  <1>0. TypeOK /\ LoginInv
    BY DEF TInv
  <1>1. ASSUME NEW s \in Servers, WriteFields(s) \/ WriteRest(s) PROVE EndedInv'
    <2>1. h[s].pc \in Steps /\ superseded' = superseded
      BY <1>1 DEF WriteFields, WriteRest, Rest
    <2>2. h[s].id \in SessionId /\ h[s].id \notin superseded
      BY <1>0, <2>1 DEF IdInv, LoginInv, TypeOK
    <2>3. \A i \in SessionId \ {h[s].id} : sess'[i] = sess[i]
      BY <1>0, <1>1 DEF WriteFields, WriteRest, Rest, TypeOK
    <2> QED
      BY <1>0, <2>1, <2>2, <2>3 DEF EndedInv, TypeOK
  <1>2. ASSUME NEW s \in Servers, Answer(s) PROVE EndedInv'
    <2>1. /\ sess' = sess /\ h[s].pc = "reply"
          /\ superseded' = superseded \union {g \in granted : Owner(g) = Owner(h[s].id)}
          /\ Owner(h[s].id) = h[s].account /\ h[s].id \notin granted
      BY <1>0, <1>2 DEF Answer, LoginInv, IdInv
    <2>2. \A g \in granted : Owner(g) = h[s].account => sess[g] = "none"
      BY <1>0, <2>1, OthersGone DEF TypeOK
    <2> QED
      BY <2>1, <2>2 DEF EndedInv
  <1>3. ASSUME UNCHANGED superseded, \A i \in SessionId : sess[i] = "none" => sess'[i] = "none"
        PROVE  EndedInv'
    BY <1>0, <1>3 DEF EndedInv, TypeOK
  <1>4. ASSUME NEW s \in Servers, DelOld(s) PROVE EndedInv'
    BY <1>0, <1>3, <1>4 DEF DelOld, TypeOK
  <1>5. ASSUME NEW id \in SessionId, SessionExpire(id) PROVE EndedInv'
    BY <1>0, <1>3, <1>5 DEF SessionExpire, TypeOK
  <1>6. ASSUME UNCHANGED <<sess, superseded>> PROVE EndedInv'
    BY <1>3, <1>6
  <1> QED
    BY <1>1, <1>2, <1>4, <1>5, <1>6
    DEF Next, LoginStep, Login, GetOld, SetAccount, Crash, AccountExpire, vars

LEMMA NextSessInv ==
  ASSUME OneProcess, Faults = {}, TInv, IdInv, KeyInv, SessInv, [Next]_vars
  PROVE  SessInv'
  BY NextWrittenInv, NextSettledInv, NextEndedInv DEF SessInv

\* With one login process and no failure, a valid session is the one the
\* account key names or the one a login is writing.
LEMMA SessInvConsequences ==
  ASSUME OneProcess, TInv, SessInv
  PROVE  OneSessionPerAccount /\ SupersededInvalid /\ ValidIsCurrent
  <1>1. ASSUME NEW id \in SessionId, Valid(id) PROVE Settled(id) \/ Writing(id)
    BY <1>1 DEF SessInv, SettledInv, Valid
  <1>2. OneSessionPerAccount
    <2> SUFFICES ASSUME NEW i \in SessionId, NEW j \in SessionId,
                        Valid(i), Valid(j), Owner(i) = Owner(j)
                 PROVE  i = j
      BY DEF OneSessionPerAccount
    <2>1. ASSUME NEW k \in SessionId, NEW l \in SessionId, Owner(k) = Owner(l),
                 Settled(k), Writing(l)
          PROVE  FALSE
      BY <2>1 DEF Settled, Writing, TInv, LoginInv, At
    <2>2. CASE Settled(i) /\ Settled(j)
      BY <2>2 DEF Settled
    <2>3. CASE Writing(i) /\ Writing(j)
      BY <2>3 DEF Writing, OneProcess
    <2> QED
      BY <1>1, <2>1, <2>2, <2>3
  <1>3. SupersededInvalid
    BY DEF SupersededInvalid, SessInv, EndedInv, Valid
  <1>4. ValidIsCurrent
    BY <1>1 DEF ValidIsCurrent, Settled, Writing
  <1> QED
    BY <1>2, <1>3, <1>4

\* The four invariants behind everything a failure-free login process promises.
StoreInv == TInv /\ IdInv /\ KeyInv /\ SessInv

LEMMA StoreInvariance ==
  ASSUME OneProcess, Faults = {}
  PROVE  Spec => []StoreInv
<1>1. Init => StoreInv
  BY InitTInv, InitIdInv, InitKeyInv, InitSessInv DEF StoreInv
<1>2. StoreInv /\ [Next]_vars => StoreInv'
  BY NextTInv, NextIdInv, NextKeyInv, NextSessInv DEF StoreInv
<1> QED
  BY <1>1, <1>2, PTL DEF Spec

\* spec.md: an account has one valid session, the one of its latest login, and
\* the session an earlier login got is invalid.
THEOREM SessionsAreExclusive ==
  ASSUME OneProcess, Faults = {}
  PROVE  Spec => []LatestLoginWins
<1>1. StoreInv => LatestLoginWins
  BY SessInvConsequences DEF StoreInv, LatestLoginWins
<1> QED
  BY <1>1, StoreInvariance, PTL
-----------------------------------------------------------------------------
(* The store is the promised one to those who look sessions up.            *)

\* What the promise's variables are here.
ValidIds == {id \in SessionId : Valid(id)}
Untaken == {id \in SessionId : \A s \in Servers : sequence[s] <= id[2]}
FreshIds == Untaken \union Taken

\* A login works on the number its process took last.
NumberInv == \A s \in Servers : h[s].pc \in Steps => sequence[s] = h[s].id[2] + 1

LEMMA IdNumber == \A id \in SessionId : id[2] \in Nat /\ id[1] = Owner(id)
  BY MaxSeqAssumption DEF SessionId, Owner

LEMMA InitNumberInv == Init => NumberInv
  BY IdleHandler DEF Init, NumberInv

LEMMA NextNumberInv ==
  ASSUME OneProcess, Faults = {}, TInv, NumberInv, [Next]_vars
  PROVE  NumberInv'
  <1> USE DEF NumberInv, redisVars, clientVars, At
  <1>0. TypeOK /\ LoginInv
    BY DEF TInv
  <1>1. ASSUME NEW s \in Servers, NEW a \in Accounts, Login(s, a) PROVE NumberInv'
    <2>1. h'[s].id = <<a, sequence[s]>> /\ sequence'[s] = sequence[s] + 1
      BY <1>0, <1>1, LoginFact
    <2> QED
      BY <2>1 DEF OneProcess
  <1>2. ASSUME NEW s \in Servers, GetOld(s) PROVE NumberInv'
    <2>1. sequence' = sequence /\ h[s].pc = "get" /\ h'[s].id = h[s].id
      BY <1>0, <1>2, GetOldFact DEF GetOld, LoginInv
    <2> QED
      BY <2>1 DEF OneProcess
  <1>3. ASSUME NEW s \in Servers, DelOld(s) \/ WriteFields(s) \/ WriteRest(s) \/ SetAccount(s)
        PROVE  NumberInv'
    <2>1. sequence' = sequence /\ h[s].pc \in Steps /\ h'[s].id = h[s].id
      BY <1>0, <1>3, GotoFact DEF DelOld, WriteFields, WriteRest, Rest, SetAccount, TypeOK
    <2> QED
      BY <2>1 DEF OneProcess
  <1>4. ASSUME NEW s \in Servers, Answer(s) PROVE NumberInv'
    <2>1. h'[s].pc = "idle"
      BY <1>0, <1>4, IdleFact DEF Answer, TypeOK
    <2> QED
      BY <2>1 DEF OneProcess
  <1>5. ASSUME NEW s \in Servers, Crash(s) PROVE FALSE
    BY <1>5 DEF Crash
  <1>6. ASSUME UNCHANGED <<h, sequence>> PROVE NumberInv'
    BY <1>6
  <1> QED
    BY <1>1, <1>2, <1>3, <1>4, <1>5, <1>6
    DEF Next, LoginStep, SessionExpire, AccountExpire, vars

\* What a step of the single process changes of the ids it works on.
LEMMA TakenOf ==
  ASSUME OneProcess, NEW s \in Servers
  PROVE  /\ Taken = IF h[s].pc \in {"get", "del", "hset", "fields"} THEN {h[s].id} ELSE {}
         /\ Untaken = {id \in SessionId : sequence[s] <= id[2]}
  BY DEF OneProcess, Taken, Untaken

LEMMA StepsArePromised ==
  ASSUME OneProcess, Faults = {}, StoreInv, NumberInv, [Next]_vars
  PROVE  \/ FreshIds' \subseteq FreshIds /\ ValidIds' = ValidIds
         \/ \E id \in ValidIds : ValidIds' = ValidIds \ {id} /\ FreshIds' = FreshIds
         \/ \E id \in FreshIds :
              /\ \A v \in ValidIds : v[1] # id[1]
              /\ ValidIds' = ValidIds \union {id}
              /\ FreshIds' = {f \in FreshIds : f[2] > id[2]}
  <1> DEFINE Stays == FreshIds' \subseteq FreshIds /\ ValidIds' = ValidIds
             Ends == \E id \in ValidIds : ValidIds' = ValidIds \ {id} /\ FreshIds' = FreshIds
             Begins == \E id \in FreshIds :
                         /\ \A v \in ValidIds : v[1] # id[1]
                         /\ ValidIds' = ValidIds \union {id}
                         /\ FreshIds' = {f \in FreshIds : f[2] > id[2]}
  <1> SUFFICES Stays \/ Ends \/ Begins
    OBVIOUS
  <1> USE DEF redisVars, clientVars, At
  <1>0. TInv /\ TypeOK /\ LoginInv /\ WrittenInv /\ SettledInv
    BY DEF StoreInv, TInv, SessInv
  <1>a. ASSUME UNCHANGED <<h, sequence>> PROVE FreshIds' = FreshIds
    BY <1>a DEF FreshIds, Untaken, Taken
  <1>b. ASSUME NEW s \in Servers, sequence' = sequence, h'[s].id = h[s].id,
               h[s].pc \in {"get", "del", "hset", "fields"}
                 <=> h'[s].pc \in {"get", "del", "hset", "fields"}
        PROVE  FreshIds' = FreshIds
    <2>1. Taken' = IF h'[s].pc \in {"get", "del", "hset", "fields"} THEN {h'[s].id} ELSE {}
      BY DEF OneProcess, Taken
    <2>2. Taken' = Taken
      BY <1>b, <2>1, TakenOf
    <2> QED
      BY <1>b, <2>2 DEF FreshIds, Untaken
  <1>1. ASSUME NEW s \in Servers, NEW a \in Accounts, Login(s, a) PROVE Stays
    <2>1. /\ sess' = sess /\ h'[s].pc = "get" /\ h'[s].id = <<a, sequence[s]>>
          /\ <<a, sequence[s]>> \in SessionId
          /\ sequence'[s] = sequence[s] + 1 /\ sequence[s] \in Nat
      BY <1>0, <1>1, LoginFact DEF Login, TypeOK
    <2>2. Taken' = {<<a, sequence[s]>>}
      BY <2>1 DEF OneProcess, Taken
    <2>3. Untaken' = {id \in SessionId : sequence[s] + 1 <= id[2]}
      BY <2>1 DEF OneProcess, Untaken
    <2>4. Taken' \subseteq Untaken
      BY <2>1, <2>2, TakenOf
    <2>5. Untaken' \subseteq Untaken
      BY <2>1, <2>3, IdNumber, TakenOf
    <2> QED
      BY <2>1, <2>4, <2>5 DEF FreshIds, ValidIds, Valid
  <1>2. ASSUME NEW s \in Servers, GetOld(s) PROVE Stays
    <2>1. /\ sess' = sess /\ sequence' = sequence /\ h[s].pc = "get"
          /\ h[s].account \in Accounts
      BY <1>0, <1>2 DEF GetOld, LoginInv
    <2>2. h'[s].pc \in {"del", "hset"} /\ h'[s].id = h[s].id
      BY <1>0, <1>2, <2>1, GetOldFact
    <2> QED
      BY <1>b, <2>1, <2>2 DEF ValidIds, Valid
  <1>3. ASSUME NEW s \in Servers, DelOld(s) PROVE Stays \/ Ends
    <2>1. /\ h[s].pc = "del" /\ h'[s].pc = "hset" /\ h'[s].id = h[s].id
          /\ sequence' = sequence /\ h[s].old \in SessionId
          /\ sess' = [sess EXCEPT ![h[s].old] = "none"]
      BY <1>0, <1>3, GotoFact DEF DelOld, TypeOK, LoginInv
    <2>2. FreshIds' = FreshIds
      BY <1>b, <2>1
    <2>3. ValidIds' = ValidIds \ {h[s].old}
      BY <1>0, <2>1 DEF ValidIds, Valid, TypeOK
    <2>4. CASE h[s].old \in ValidIds
      BY <2>2, <2>3, <2>4
    <2>5. CASE h[s].old \notin ValidIds
      BY <2>2, <2>3, <2>5
    <2> QED
      BY <2>4, <2>5
  <1>4. ASSUME NEW s \in Servers, WriteFields(s) PROVE Stays
    <2>1. /\ h[s].pc = "hset" /\ h'[s].pc = "fields" /\ h'[s].id = h[s].id
          /\ sequence' = sequence /\ h[s].id \in SessionId /\ sess[h[s].id] = "none"
      BY <1>0, <1>4, GotoFact DEF WriteFields, TypeOK, LoginInv, WrittenInv
    <2>2. sess' = [sess EXCEPT ![h[s].id] = "partial"]
      BY <1>0, <1>4, <2>1 DEF WriteFields, TypeOK
    <2>3. ValidIds' = ValidIds
      BY <1>0, <2>1, <2>2 DEF ValidIds, Valid, TypeOK
    <2> QED
      BY <1>b, <2>1, <2>3
  <1>5. ASSUME NEW s \in Servers, WriteRest(s) PROVE Begins
    <2> DEFINE id == h[s].id
    <2>1. /\ h[s].pc = "fields" /\ h'[s].pc = "set" /\ sequence' = sequence
          /\ id \in SessionId /\ Owner(id) = h[s].account /\ sess[id] = "partial"
      BY <1>0, <1>5, GotoFact DEF WriteRest, Rest, TypeOK, LoginInv, WrittenInv
    <2>2. sess' = [sess EXCEPT ![id] = "full"]
      BY <1>0, <1>5, <2>1 DEF WriteRest, Rest, TypeOK
    <2>3. ValidIds' = ValidIds \union {id}
      BY <1>0, <2>1, <2>2 DEF ValidIds, Valid, TypeOK
    <2>4. \A v \in ValidIds : v[1] # id[1]
      <3> SUFFICES ASSUME NEW v \in SessionId, sess[v] = "full", Owner(v) = Owner(id)
                   PROVE  FALSE
        BY <2>1, IdNumber DEF ValidIds, Valid
      <3>1. v # id
        BY <2>1
      <3> QED
        BY <1>0, <2>1, <3>1, OthersGone
    <2>5. FreshIds = Untaken \union {id} /\ id \in FreshIds
      BY <2>1, TakenOf DEF FreshIds
    <2>6. Taken' = {} /\ Untaken' = Untaken
      BY <2>1 DEF OneProcess, Taken, Untaken
    <2>7. sequence[s] = id[2] + 1 /\ id[2] \in Nat
      BY <2>1, IdNumber DEF NumberInv
    <2>8. Untaken = {f \in FreshIds : f[2] > id[2]}
      <3>1. Untaken = {f \in SessionId : id[2] + 1 <= f[2]}
        BY <2>7, TakenOf
      <3>2. \A f \in SessionId : id[2] + 1 <= f[2] <=> f[2] > id[2]
        BY <2>7, IdNumber
      <3>3. ~(id[2] > id[2])
        BY <2>7
      <3> QED
        BY <2>1, <2>5, <3>1, <3>2, <3>3
    <2>9. FreshIds' = Untaken
      BY <2>6 DEF FreshIds
    <2> QED
      BY <2>3, <2>4, <2>5, <2>8, <2>9
  <1>6. ASSUME NEW s \in Servers, SetAccount(s) PROVE Stays
    <2>1. /\ h[s].pc = "set" /\ h'[s].pc = "reply" /\ h'[s].id = h[s].id
          /\ sequence' = sequence /\ sess' = sess
      BY <1>0, <1>6, GotoFact DEF SetAccount, TypeOK
    <2> QED
      BY <1>b, <2>1 DEF ValidIds, Valid
  <1>7. ASSUME NEW s \in Servers, Answer(s) PROVE Stays
    <2>1. h[s].pc = "reply" /\ h'[s].pc = "idle" /\ sequence' = sequence /\ sess' = sess
      BY <1>0, <1>7, IdleFact DEF Answer, TypeOK
    <2>2. Taken = {} /\ Taken' = {}
      BY <2>1 DEF OneProcess, Taken
    <2> QED
      BY <2>1, <2>2 DEF FreshIds, Untaken, ValidIds, Valid
  <1>8. ASSUME NEW s \in Servers, Crash(s) PROVE FALSE
    BY <1>8 DEF Crash
  <1>9. ASSUME NEW id \in SessionId, SessionExpire(id) PROVE Stays \/ Ends
    <2>1. UNCHANGED <<h, sequence>> /\ sess' = [sess EXCEPT ![id] = "none"]
      BY <1>9 DEF SessionExpire
    <2>2. FreshIds' = FreshIds
      BY <1>a, <2>1
    <2>3. ValidIds' = ValidIds \ {id}
      BY <1>0, <2>1 DEF ValidIds, Valid, TypeOK
    <2>4. CASE id \in ValidIds
      BY <2>2, <2>3, <2>4
    <2>5. CASE id \notin ValidIds
      BY <2>2, <2>3, <2>5
    <2> QED
      BY <2>4, <2>5
  <1>10. ASSUME UNCHANGED <<h, sequence, sess>> PROVE Stays
    BY <1>a, <1>10 DEF ValidIds, Valid
  <1> QED
    BY <1>1, <1>2, <1>3, <1>4, <1>5, <1>6, <1>7, <1>8, <1>9, <1>10
    DEF Next, LoginStep, AccountExpire, vars

\* With one login process and no failure the store is the promised one: what
\* the gateway and the services look up behaves as SessionPromise.
THEOREM StoreKeepsItsPromise ==
  ASSUME OneProcess, Faults = {}
  PROVE  Spec => ImplementsPromise
<1>1. Init => Promise!Init
  <2> SUFFICES ASSUME Init PROVE Promise!Init
    OBVIOUS
  <2>1. ValidIds = {}
    BY DEF Init, ValidIds, Valid
  <2>2. Taken = {}
    BY IdleHandler DEF Init, Taken
  <2>3. \A id \in SessionId : 1 <= id[2]
    BY MaxSeqAssumption DEF SessionId
  <2>4. Untaken = SessionId
    BY <2>3 DEF Init, Untaken
  <2> QED
    BY <2>1, <2>2, <2>4 DEF Promise!Init, Promise!SessionId, SessionId, ValidIds, Untaken
<1>2. StoreInv /\ NumberInv /\ [Next]_vars => [Promise!Next]_(Promise!promiseVars)
  <2> SUFFICES ASSUME StoreInv, NumberInv, [Next]_vars
               PROVE  Promise!Next
    OBVIOUS
  <2>1. CASE FreshIds' \subseteq FreshIds /\ ValidIds' = ValidIds
    BY <2>1 DEF Promise!Next, Promise!Retire, FreshIds, ValidIds, Untaken
  <2>2. ASSUME NEW id \in ValidIds, ValidIds' = ValidIds \ {id}, FreshIds' = FreshIds
        PROVE  Promise!Next
    <3>1. Promise!End(id)
      BY <2>2 DEF Promise!End, FreshIds, ValidIds, Untaken
    <3>2. id \in Promise!SessionId
      BY DEF ValidIds, Promise!SessionId, SessionId
    <3> QED
      BY <3>1, <3>2 DEF Promise!Next
  <2>3. ASSUME NEW id \in FreshIds, \A v \in ValidIds : v[1] # id[1],
               ValidIds' = ValidIds \union {id},
               FreshIds' = {f \in FreshIds : f[2] > id[2]}
        PROVE  Promise!Next
    <3>1. Promise!Begin(id)
      BY <2>3 DEF Promise!Begin, FreshIds, ValidIds, Untaken
    <3>2. id \in SessionId
      BY DEF FreshIds, Untaken, Taken, StoreInv, TInv, LoginInv
    <3>3. id \in Promise!SessionId
      BY <3>2 DEF Promise!SessionId, SessionId
    <3> QED
      BY <3>1, <3>3 DEF Promise!Next
  <2> QED
    BY <2>1, <2>2, <2>3, StepsArePromised
<1>3. StoreInv /\ NumberInv /\ [Next]_vars => NumberInv'
  BY NextNumberInv DEF StoreInv
<1> QED
  BY <1>1, <1>2, <1>3, StoreInvariance, InitNumberInv, PTL DEF Spec, ImplementsPromise, Promise!Spec
=============================================================================
