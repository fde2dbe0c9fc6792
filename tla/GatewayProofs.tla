---------------------------- MODULE GatewayProofs ----------------------------
(***************************************************************************)
(* What the gateway promises, for any number of accounts, sessions,        *)
(* connections and requests, with and without crashes and logins through   *)
(* other gateways.                                                         *)
(***************************************************************************)
EXTENDS Gateway, TLAPS

\* Sessions that a login has begun for somebody who may learn of it.
Known == granted \union {result[k] : k \in {j \in Requests : request[j].login /\ result[j] # None}}

\* Logins take growing numbers, so of the sessions known of an account only the last
\* can be valid.
SessionInv ==
  /\ valid \intersect fresh = {}
  /\ \A g \in Known : \A f \in fresh : g[2] < f[2]
  /\ \A g \in Known : \A v \in valid : Owner(g) = Owner(v) => g[2] <= v[2]
  /\ \A k \in Requests : request[k].login /\ reply[k] = "OK" => result[k] \in granted

\* One call at a time, for the request that is handled.
CallInv ==
  /\ \A k \in Requests :
       /\ k > current => /\ request[k] = NoRequest
                         /\ call[k] = "none" /\ reply[k] = None
       /\ k <= current => request[k] \in Request
       /\ call[k] = "open" => k = current /\ pc = "wait"
       /\ call[k] = "none" => ran[k] = 0
       /\ call[k] = "ok" => ran[k] = 1
       /\ ran[k] = 0 => result[k] = None
       /\ request[k].login /\ result[k] # None => result[k] \in SessionId
  /\ pc # "idle" => reply[current] = None
  /\ pc \in {"authorize", "forward"} => call[current] = "none"
  /\ pc = "wait" => call[current] = "open"
  /\ pc = "authorize" => ~request[current].login

ReplyInv ==
  /\ RepliesTruthful
  /\ \A k \in Requests :
       /\ reply[k] = "OK" => call[k] = "ok"
       /\ reply[k] = "SESSION_INVALID" => call[k] \in {"none", "ok"}

PlayInv ==
  /\ ServedOnlyCurrent
  /\ \A k \in Requests : request[k].late => Superseded(request[k].session)

IInv == TypeOK /\ SessionInv /\ CallInv /\ ReplyInv /\ PlayInv /\ BindingEarned /\ LoginBinds
-----------------------------------------------------------------------------
\* What the fields of a request can be.
LEMMA RequestFields ==
  ASSUME NEW r \in Request
  PROVE  /\ r.from \in Connections /\ r.session \in SessionId \union {NoSession}
         /\ ~r.login => r.player \in Accounts /\ Player(r) \in Accounts
  BY DEF Request, Player

LEMMA NoRequestFields == ~NoRequest.login /\ ~NoRequest.late /\ NoRequest.from = None
  BY DEF NoRequest

\* Ids are pairs of an account and a number, and NoSession is none of them.
LEMMA SessionIds ==
  /\ None \notin SessionId /\ None \notin Accounts /\ NoSession \notin SessionId
  /\ \A id \in SessionId : Owner(id) \in Accounts /\ id[2] \in Nat
  BY GatewayAssumption DEF SessionId, Sessions!SessionId, NoSession, Owner

LEMMA InitIInv == Init => IInv
<1>. SUFFICES ASSUME Init PROVE IInv
  OBVIOUS
<1>1. TypeOK
  BY GatewayAssumption DEF Init, TypeOK, Sessions!Init, Upstream!Init, SessionId
<1>2. SessionInv /\ CallInv
  BY NoRequestFields, GatewayAssumption
  DEF Init, SessionInv, CallInv, Known, Sessions!Init, Upstream!Init, Requests
<1>3. ReplyInv /\ PlayInv
  BY NoRequestFields, GatewayAssumption
  DEF Init, ReplyInv, RepliesTruthful, PlayInv, ServedOnlyCurrent, Codes
<1>4. BindingEarned /\ LoginBinds
  BY NoRequestFields DEF Init, BindingEarned, LoginBinds, LoggedIn, Bound
<1>. QED
  BY <1>1, <1>2, <1>3, <1>4 DEF IInv
-----------------------------------------------------------------------------
\* While a request is handled its connection is open.
LEMMA Handling ==
  ASSUME IInv, pc # "idle"
  PROVE  /\ current \in Requests /\ request[current] \in Request
         /\ request[current].from \in Connections \ closed
  BY RequestFields, GatewayAssumption DEF IInv, TypeOK, CallInv, Requests

\* The answer to a login names a session.
LEMMA LoggedInSession ==
  ASSUME IInv, NEW k \in Requests, LoggedIn(k)
  PROVE  result[k] \in SessionId /\ call[k] = "ok" /\ k <= current
  BY NoRequestFields DEF IInv, TypeOK, LoggedIn, ReplyInv, RepliesTruthful, CallInv, Requests

\* What keeps LoginBinds: nobody but a login touches a binding that is there.
LEMMA BindsKept ==
  ASSUME IInv,
         \A k \in Requests : LoggedIn(k)' <=> LoggedIn(k),
         \A k \in Requests : LoggedIn(k) => request'[k].from = request[k].from /\ result'[k] = result[k],
         closed \subseteq closed',
         \A c \in Connections : c \notin closed' /\ Bound(c) => bindings'[c] = bindings[c]
  PROVE  LoginBinds'
<1>. SUFFICES ASSUME NEW k \in Requests, LoggedIn(k)', request'[k].from \notin closed',
                     \A j \in Requests : LoggedIn(j)' /\ request'[j].from = request'[k].from => j <= k
             PROVE  bindings'[request'[k].from].session = result'[k]
  BY DEF LoginBinds, Requests
<1>1. LoggedIn(k) /\ request[k].from \notin closed /\ request'[k].from = request[k].from
  OBVIOUS
<1>2. \A j \in Requests : LoggedIn(j) /\ request[j].from = request[k].from => j <= k
  <2>. SUFFICES ASSUME NEW j \in Requests, LoggedIn(j), request[j].from = request[k].from
               PROVE  j <= k
    OBVIOUS
  <2>. QED
    BY <1>1
<1>3. bindings[request[k].from].session = result[k]
  BY <1>1, <1>2 DEF IInv, LoginBinds
<1>4. Bound(request[k].from) /\ request[k].from \in Connections
  BY <1>1, <1>3, LoggedInSession, SessionIds, RequestFields
  DEF Bound, Unbound, IInv, CallInv
<1>. QED
  BY <1>1, <1>3, <1>4

\* What keeps SessionInv: sessions end, or one begins.
LEMMA SessionsKept ==
  ASSUME IInv, valid' \subseteq valid, fresh' = fresh, Known' \subseteq Known,
         \A k \in Requests : request'[k].login /\ reply'[k] = "OK" => result'[k] \in granted'
  PROVE  SessionInv'
  BY DEF IInv, SessionInv, Requests

LEMMA KnownIds == IInv => Known \subseteq SessionId
  BY DEF IInv, TypeOK, CallInv, Known

LEMMA SessionBegun ==
  ASSUME IInv, NEW id \in SessionId, Sessions!Begin(id), Known' \subseteq Known \union {id},
         \A k \in Requests : request'[k].login /\ reply'[k] = "OK" => result'[k] \in granted'
  PROVE  SessionInv'
<1>1. valid' \intersect fresh' = {}
  BY SessionIds DEF IInv, SessionInv, Sessions!Begin
<1>2. \A g \in Known' : \A f \in fresh' : g[2] < f[2]
  BY SessionIds DEF IInv, SessionInv, Sessions!Begin
<1>3. \A g \in Known' : \A v \in valid' : Owner(g) = Owner(v) => g[2] <= v[2]
  <2>. SUFFICES ASSUME NEW g \in Known', NEW v \in valid', Owner(g) = Owner(v)
               PROVE  g[2] <= v[2]
    OBVIOUS
  <2>1. CASE g = id
    BY <2>1, SessionIds DEF Sessions!Begin, Owner
  <2>2. CASE g \in Known /\ v = id
    BY <2>2, SessionIds, KnownIds DEF IInv, SessionInv, Sessions!Begin
  <2>3. CASE g \in Known /\ v \in valid
    BY <2>3 DEF IInv, SessionInv
  <2>. QED
    BY <2>1, <2>2, <2>3 DEF Sessions!Begin
<1>. QED
  BY <1>1, <1>2, <1>3 DEF SessionInv, Requests
-----------------------------------------------------------------------------
(* One lemma per action, and under it one step per conjunct of IInv.        *)

LEMMA DisconnectKeeps ==
  ASSUME IInv, NEW c \in Connections, Disconnect(c)
  PROVE  IInv'
<1>. USE RequestFields, NoRequestFields, SessionIds, GatewayAssumption DEF IInv
<1>1. TypeOK'
  BY DEF TypeOK, Codes, Requests,
         Disconnect, sessionVars, callVars
<1>2. SessionInv'
  <2>1. Known' \subseteq Known
    BY DEF Known, CallInv, TypeOK, Disconnect, sessionVars, callVars
  <2>2. \A k \in Requests : request'[k].login /\ reply'[k] = "OK" => result'[k] \in granted'
    BY DEF TypeOK, SessionInv, Disconnect, sessionVars, callVars
  <2>. QED
    BY <2>1, <2>2, SessionsKept DEF Disconnect, sessionVars, callVars
<1>3. CallInv'
  BY DEF TypeOK, CallInv, Requests,
         Disconnect, sessionVars, callVars
<1>4. ReplyInv'
  BY DEF TypeOK, CallInv, ReplyInv, RepliesTruthful, Requests,
         Disconnect, sessionVars, callVars
<1>5. PlayInv'
  BY DEF TypeOK, SessionInv, CallInv, PlayInv, ServedOnlyCurrent, Superseded, Known,
         Disconnect, sessionVars, callVars
<1>6. BindingEarned'
  BY DEF TypeOK, SessionInv, CallInv, BindingEarned, Bound, Unbound, Past, Known,
         Disconnect, sessionVars, callVars
<1>7. LoginBinds'
  <2>1. /\ \A k \in Requests : LoggedIn(k)' <=> LoggedIn(k)
        /\ \A k \in Requests : LoggedIn(k) => request'[k].from = request[k].from /\ result'[k] = result[k]
    BY LoggedInSession DEF TypeOK, LoggedIn, CallInv, Requests, Disconnect, sessionVars, callVars
  <2>. QED
    BY <2>1, BindsKept DEF TypeOK, Bound, Disconnect, sessionVars, callVars
<1>. QED
  BY <1>1, <1>2, <1>3, <1>4, <1>5, <1>6, <1>7

LEMMA ReceiveKeeps ==
  ASSUME IInv, NEW r \in Request, Receive(r)
  PROVE  IInv'
<1>. USE RequestFields, NoRequestFields, SessionIds, GatewayAssumption DEF IInv
<1>. /\ current + 1 \in Requests /\ request' = [request EXCEPT ![current + 1] = r]
     /\ request[current + 1] = NoRequest /\ reply[current + 1] = None /\ result[current + 1] = None
  BY DEF Receive, TypeOK, CallInv, Requests
<1>1. TypeOK'
  BY DEF TypeOK, Codes, Requests,
         Receive, sessionVars, callVars
<1>2. SessionInv'
  <2>1. Known' \subseteq Known
    BY DEF Known, CallInv, TypeOK, Receive, sessionVars, callVars
  <2>2. \A k \in Requests : reply[k] = "OK" => request'[k] = request[k]
    BY DEF TypeOK, Codes
  <2>. QED
    BY <2>1, <2>2, SessionsKept DEF SessionInv, Receive, sessionVars, callVars
<1>3. CallInv'
  BY DEF TypeOK, CallInv, Requests,
         Receive, sessionVars, callVars
<1>4. ReplyInv'
  BY DEF TypeOK, CallInv, ReplyInv, RepliesTruthful, Requests,
         Receive, sessionVars, callVars
<1>5. PlayInv'
  <2>1. r.late => Superseded(r.session)
    BY DEF Receive
  <2>2. \A k \in Requests : request'[k] = IF k = current + 1 THEN r ELSE request[k]
    BY DEF TypeOK
  <2>3. ServedOnlyCurrent'
    BY <2>2 DEF PlayInv, ServedOnlyCurrent, Receive
  <2>4. \A k \in Requests : request'[k].late => Superseded(request'[k].session)
    BY <2>1, <2>2 DEF PlayInv
  <2>. QED
    BY <2>3, <2>4 DEF PlayInv, Superseded, Receive
<1>6. BindingEarned'
  BY DEF TypeOK, SessionInv, CallInv, BindingEarned, Bound, Unbound, Past, Known,
         Receive, sessionVars, callVars
<1>7. LoginBinds'
  <2>1. \A k \in Requests : request'[k] = IF k = current + 1 THEN r ELSE request[k]
    BY DEF TypeOK
  <2>2. \A k \in Requests : reply[k] = "OK" => k # current + 1
    BY DEF Codes
  <2>3. /\ \A k \in Requests : LoggedIn(k)' <=> LoggedIn(k)
        /\ \A k \in Requests : LoggedIn(k) => request'[k].from = request[k].from /\ result'[k] = result[k]
    BY <2>1, <2>2 DEF LoggedIn, Receive
  <2>. QED
    BY <2>3, BindsKept DEF Bound, Receive, sessionVars, callVars
<1>. QED
  BY <1>1, <1>2, <1>3, <1>4, <1>5, <1>6, <1>7

LEMMA AuthorizeKeeps ==
  ASSUME IInv, Authorize
  PROVE  IInv'
<1>. USE RequestFields, NoRequestFields, SessionIds, GatewayAssumption DEF IInv
<1>. /\ current \in Requests /\ request[current] \in Request
     /\ request[current].from \in Connections \ closed
  BY Handling DEF Authorize
<1>1. TypeOK'
  <2>1. CASE pc' = "forward"
    <3>1. [session |-> This.session, player |-> This.player] \in Binding
      BY <2>1 DEF CallInv, TypeOK, Binding, Bound, Unbound, Authorize, sessionVars, callVars, This, Answer, Matches, Restorable
    <3>. QED
      BY <2>1, <3>1 DEF TypeOK, Authorize, sessionVars, callVars, This, Answer, Matches, Restorable
  <2>2. CASE pc' = "idle"
    BY <2>2 DEF TypeOK, Codes, Authorize, sessionVars, callVars, This, Answer, Matches, Restorable
  <2>. QED
    BY <2>1, <2>2 DEF Authorize, sessionVars, callVars, This, Answer, Matches, Restorable
<1>2. SessionInv'
  <2>1. Known' \subseteq Known
    BY DEF Known, CallInv, TypeOK, Authorize, sessionVars, callVars, This, Answer, Matches, Restorable
  <2>2. \A k \in Requests : request'[k].login /\ reply'[k] = "OK" => result'[k] \in granted'
    BY DEF TypeOK, SessionInv, Authorize, sessionVars, callVars, This, Answer, Matches, Restorable
  <2>. QED
    BY <2>1, <2>2, SessionsKept DEF Authorize, sessionVars, callVars, This, Answer, Matches, Restorable
<1>3. CallInv'
  <2>1. CASE pc' = "forward"
    BY <2>1 DEF CallInv, Authorize, sessionVars, callVars, This, Answer, Matches, Restorable
  <2>2. CASE pc' = "idle"
    <3>1. /\ reply' = [reply EXCEPT ![current] = "SESSION_INVALID"]
          /\ UNCHANGED <<call, ran, request, result, current>> /\ pc = "authorize"
      BY <2>2 DEF Authorize, sessionVars, callVars, This, Answer, Matches, Restorable
    <3>2. \A k \in Requests : k > current => reply'[k] = None
      BY <3>1 DEF TypeOK, CallInv, Requests
    <3>. QED
      BY <2>2, <3>1, <3>2 DEF CallInv
  <2>. QED
    BY <2>1, <2>2 DEF Authorize, sessionVars, callVars, This, Answer, Matches, Restorable
<1>4. ReplyInv'
  <2>1. /\ \/ reply' = reply
           \/ reply' = [reply EXCEPT ![current] = "SESSION_INVALID"]
        /\ UNCHANGED <<call, ran, result>> /\ pc = "authorize"
    BY DEF Authorize, sessionVars, callVars, Answer
  <2>2. call[current] = "none" /\ result[current] = None
    BY <2>1 DEF CallInv
  <2>. QED
    BY <2>1, <2>2 DEF TypeOK, ReplyInv, RepliesTruthful
<1>5. PlayInv'
  BY DEF TypeOK, SessionInv, CallInv, PlayInv, ServedOnlyCurrent, Superseded, Known,
         Authorize, sessionVars, callVars, This, Answer, Matches, Restorable
<1>6. BindingEarned'
  BY DEF TypeOK, SessionInv, CallInv, BindingEarned, Bound, Unbound, Past, Known,
         Authorize, sessionVars, callVars, This, Answer, Matches, Restorable
<1>7. LoginBinds'
  <2>0. /\ reply' = reply \/ reply' = [reply EXCEPT ![current] = "SESSION_INVALID"]
        /\ UNCHANGED <<request, result>> /\ reply[current] = None
    BY DEF CallInv, Authorize, Answer
  <2>1. /\ \A k \in Requests : LoggedIn(k)' <=> LoggedIn(k)
        /\ \A k \in Requests : LoggedIn(k) => request'[k].from = request[k].from /\ result'[k] = result[k]
    BY <2>0 DEF TypeOK, LoggedIn, Codes
  <2>2. closed' = closed
    BY DEF Authorize, Answer
  <2>3. \A c \in Connections : Bound(c) => bindings'[c] = bindings[c]
    BY DEF TypeOK, Bound, Authorize, This, Answer, Matches
  <2>. QED
    BY <2>1, <2>2, <2>3, BindsKept
<1>. QED
  BY <1>1, <1>2, <1>3, <1>4, <1>5, <1>6, <1>7

LEMMA ForwardKeeps ==
  ASSUME IInv, Forward
  PROVE  IInv'
<1>. USE RequestFields, NoRequestFields, SessionIds, GatewayAssumption DEF IInv
<1>. /\ current \in Requests /\ request[current] \in Request
     /\ request[current].from \in Connections \ closed
  BY Handling DEF Forward
<1>1. TypeOK'
  BY DEF TypeOK, Codes, Requests,
         Forward, sessionVars, This, Upstream!Begin
<1>2. SessionInv'
  <2>1. Known' \subseteq Known
    BY DEF Known, CallInv, TypeOK, Forward, sessionVars, This, Upstream!Begin
  <2>2. \A k \in Requests : request'[k].login /\ reply'[k] = "OK" => result'[k] \in granted'
    BY DEF TypeOK, SessionInv, Forward, sessionVars, This, Upstream!Begin
  <2>. QED
    BY <2>1, <2>2, SessionsKept DEF Forward, sessionVars, This, Upstream!Begin
<1>3. CallInv'
  BY DEF TypeOK, CallInv, Requests,
         Forward, sessionVars, This, Upstream!Begin
<1>4. ReplyInv'
  <2>1. reply[current] = None /\ None \notin Codes
    BY DEF CallInv, Forward
  <2>. QED
    BY <2>1 DEF TypeOK, ReplyInv, RepliesTruthful, Codes, Forward, sessionVars, This, Upstream!Begin
<1>5. PlayInv'
  BY DEF TypeOK, SessionInv, CallInv, PlayInv, ServedOnlyCurrent, Superseded, Known,
         Forward, sessionVars, This, Upstream!Begin
<1>6. BindingEarned'
  BY DEF TypeOK, SessionInv, CallInv, BindingEarned, Bound, Unbound, Past, Known,
         Forward, sessionVars, This, Upstream!Begin
<1>7. LoginBinds'
  <2>1. /\ \A k \in Requests : LoggedIn(k)' <=> LoggedIn(k)
        /\ \A k \in Requests : LoggedIn(k) => request'[k].from = request[k].from /\ result'[k] = result[k]
    BY LoggedInSession DEF TypeOK, LoggedIn, CallInv, Requests, Forward, sessionVars, This, Upstream!Begin
  <2>. QED
    BY <2>1, BindsKept DEF TypeOK, Bound, Forward, sessionVars, This, Upstream!Begin
<1>. QED
  BY <1>1, <1>2, <1>3, <1>4, <1>5, <1>6, <1>7

LEMMA UpstreamFailsKeeps ==
  ASSUME IInv, UpstreamFails
  PROVE  IInv'
<1>. USE RequestFields, NoRequestFields, SessionIds, GatewayAssumption DEF IInv
<1>. /\ current \in Requests /\ request[current] \in Request
     /\ request[current].from \in Connections \ closed
  BY Handling DEF UpstreamFails
<1>1. TypeOK'
  BY DEF TypeOK, Codes, Requests,
         UpstreamFails, sessionVars, This, Answer, Upstream!Fail
<1>2. SessionInv'
  <2>1. Known' \subseteq Known
    BY DEF Known, CallInv, TypeOK, UpstreamFails, sessionVars, This, Answer, Upstream!Fail
  <2>2. \A k \in Requests : request'[k].login /\ reply'[k] = "OK" => result'[k] \in granted'
    BY DEF TypeOK, SessionInv, UpstreamFails, sessionVars, This, Answer, Upstream!Fail
  <2>. QED
    BY <2>1, <2>2, SessionsKept DEF UpstreamFails, sessionVars, This, Answer, Upstream!Fail
<1>3. CallInv'
  BY DEF TypeOK, CallInv, Requests,
         UpstreamFails, sessionVars, This, Answer, Upstream!Fail
<1>4. ReplyInv'
  BY DEF TypeOK, CallInv, ReplyInv, RepliesTruthful, Requests,
         UpstreamFails, sessionVars, This, Answer, Upstream!Fail
<1>5. PlayInv'
  BY DEF TypeOK, SessionInv, CallInv, PlayInv, ServedOnlyCurrent, Superseded, Known,
         UpstreamFails, sessionVars, This, Answer, Upstream!Fail
<1>6. BindingEarned'
  BY DEF TypeOK, SessionInv, CallInv, BindingEarned, Bound, Unbound, Past, Known,
         UpstreamFails, sessionVars, This, Answer, Upstream!Fail
<1>7. LoginBinds'
  <2>1. /\ \A k \in Requests : LoggedIn(k)' <=> LoggedIn(k)
        /\ \A k \in Requests : LoggedIn(k) => request'[k].from = request[k].from /\ result'[k] = result[k]
    BY LoggedInSession DEF TypeOK, LoggedIn, CallInv, Requests, UpstreamFails, sessionVars, This, Answer, Upstream!Fail
  <2>. QED
    BY <2>1, BindsKept DEF TypeOK, Bound, UpstreamFails, sessionVars, This, Answer, Upstream!Fail
<1>. QED
  BY <1>1, <1>2, <1>3, <1>4, <1>5, <1>6, <1>7

LEMMA MismatchKeeps ==
  ASSUME IInv, Mismatch
  PROVE  IInv'
<1>. USE RequestFields, NoRequestFields, SessionIds, GatewayAssumption DEF IInv
<1>. /\ current \in Requests /\ request[current] \in Request
     /\ request[current].from \in Connections \ closed
  BY Handling DEF Mismatch
<1>1. TypeOK'
  BY DEF TypeOK, Codes, Requests,
         Mismatch, sessionVars, This, Answer, Upstream!Succeed
<1>2. SessionInv'
  <2>1. Known' \subseteq Known
    BY DEF Known, CallInv, TypeOK, Mismatch, sessionVars, This, Answer, Upstream!Succeed
  <2>2. \A k \in Requests : request'[k].login /\ reply'[k] = "OK" => result'[k] \in granted'
    BY DEF TypeOK, SessionInv, Mismatch, sessionVars, This, Answer, Upstream!Succeed
  <2>. QED
    BY <2>1, <2>2, SessionsKept DEF Mismatch, sessionVars, This, Answer, Upstream!Succeed
<1>3. CallInv'
  BY DEF TypeOK, CallInv, Requests,
         Mismatch, sessionVars, This, Answer, Upstream!Succeed
<1>4. ReplyInv'
  BY DEF TypeOK, CallInv, ReplyInv, RepliesTruthful, Requests,
         Mismatch, sessionVars, This, Answer, Upstream!Succeed
<1>5. PlayInv'
  BY DEF TypeOK, SessionInv, CallInv, PlayInv, ServedOnlyCurrent, Superseded, Known,
         Mismatch, sessionVars, This, Answer, Upstream!Succeed
<1>6. BindingEarned'
  BY DEF TypeOK, SessionInv, CallInv, BindingEarned, Bound, Unbound, Past, Known,
         Mismatch, sessionVars, This, Answer, Upstream!Succeed
<1>7. LoginBinds'
  <2>1. /\ \A k \in Requests : LoggedIn(k)' <=> LoggedIn(k)
        /\ \A k \in Requests : LoggedIn(k) => request'[k].from = request[k].from /\ result'[k] = result[k]
    BY LoggedInSession DEF TypeOK, LoggedIn, CallInv, Requests, Mismatch, sessionVars, This, Answer, Upstream!Succeed
  <2>. QED
    BY <2>1, BindsKept DEF TypeOK, Bound, Mismatch, sessionVars, This, Answer, Upstream!Succeed
<1>. QED
  BY <1>1, <1>2, <1>3, <1>4, <1>5, <1>6, <1>7

LEMMA RespondKeeps ==
  ASSUME IInv, Respond
  PROVE  IInv'
<1>. USE RequestFields, NoRequestFields, SessionIds, GatewayAssumption DEF IInv
<1>. /\ current \in Requests /\ request[current] \in Request
     /\ request[current].from \in Connections \ closed
  BY Handling DEF Respond
<1>. /\ call' = [call EXCEPT ![current] = "ok"] /\ ran' = ran /\ ran[current] = 1
     /\ UNCHANGED <<sessionVars, request, result, current, closed>> /\ pc' = "idle" /\ pc = "wait"
     /\ reply[current] = None
  BY DEF Respond, Upstream!Succeed, Answer, CallInv
<1>. DEFINE grants == request[current].login /\ result[current] # None
<1>. /\ grants => /\ bindings' = [bindings EXCEPT ![request[current].from] =
                            [session |-> result[current], player |-> Owner(result[current])]]
                  /\ granted' = granted \union {result[current]}
                  /\ reply' = [reply EXCEPT ![current] = "OK"]
     /\ ~grants => /\ UNCHANGED <<bindings, granted>>
                   /\ result[current] # None => reply' = [reply EXCEPT ![current] = "OK"]
                   /\ result[current] = None => reply' = [reply EXCEPT ![current] = "SESSION_INVALID"]
  BY DEF Respond, This, Bind, Answer
<1>. HIDE DEF grants
<1>1. TypeOK'
  <2>1. CASE grants
    <3>1. result[current] \in SessionId
      BY <2>1 DEF CallInv, grants
    <3>2. [session |-> result[current], player |-> Owner(result[current])] \in Binding
      BY <3>1 DEF Binding
    <3>. QED
      BY <2>1, <3>1, <3>2 DEF TypeOK, Codes, sessionVars
  <2>2. CASE ~grants
    BY <2>2 DEF TypeOK, Codes, sessionVars
  <2>. QED
    BY <2>1, <2>2
<1>2. SessionInv'
  <2>1. Known' \subseteq Known
    BY DEF Known, CallInv, TypeOK, Respond, sessionVars, This, Answer, Bind, Upstream!Succeed
  <2>2. \A k \in Requests : request'[k].login /\ reply'[k] = "OK" => result'[k] \in granted'
    <3>1. granted \subseteq granted' /\ (grants => result[current] \in granted')
      OBVIOUS
    <3>2. \A k \in Requests : k # current => reply'[k] = reply[k]
      BY DEF TypeOK
    <3>3. reply'[current] = "OK" => grants \/ ~request[current].login
      BY DEF TypeOK, grants
    <3>. QED
      BY <3>1, <3>2, <3>3 DEF SessionInv
  <2>. QED
    BY <2>1, <2>2, SessionsKept DEF Respond, sessionVars, This, Answer, Bind, Upstream!Succeed
<1>3. CallInv'
  <2>1. \A k \in Requests : k # current => reply'[k] = reply[k] /\ call'[k] = call[k]
    BY DEF TypeOK
  <2>2. call'[current] = "ok"
    BY DEF TypeOK
  <2>. QED
    BY <2>1, <2>2 DEF CallInv, Requests
<1>4. ReplyInv'
  <2>1. \A k \in Requests : k # current => reply'[k] = reply[k] /\ call'[k] = call[k]
    BY DEF TypeOK
  <2>2. /\ reply'[current] = "OK" => result[current] # None
        /\ reply'[current] = "SESSION_INVALID" => result[current] = None
        /\ call'[current] = "ok"
    BY DEF TypeOK, grants
  <2>. QED
    BY <2>1, <2>2 DEF ReplyInv, RepliesTruthful
<1>5. PlayInv'
  BY DEF TypeOK, SessionInv, CallInv, PlayInv, ServedOnlyCurrent, Superseded, Known,
         Respond, sessionVars, This, Answer, Bind, Upstream!Succeed
<1>6. BindingEarned'
  BY DEF TypeOK, SessionInv, CallInv, BindingEarned, Bound, Unbound, Past, Known,
         Respond, sessionVars, This, Answer, Bind, Upstream!Succeed
<1>7. LoginBinds'
  <2>. SUFFICES ASSUME NEW k \in Requests, LoggedIn(k)', request[k].from \notin closed,
                       \A j \in Requests : LoggedIn(j)' /\ request[j].from = request[k].from => j <= k
                PROVE  bindings'[request[k].from].session = result[k]
    BY DEF LoginBinds, Requests
  <2>1. \A j \in Requests : j # current => (LoggedIn(j)' <=> LoggedIn(j))
    BY DEF LoggedIn, TypeOK
  <2>2. LoggedIn(current)' <=> grants
    BY DEF LoggedIn, TypeOK, grants
  <2>3. ~LoggedIn(current)
    BY DEF LoggedIn, Codes
  <2>4. CASE k = current
    BY <2>2, <2>4 DEF TypeOK
  <2>5. CASE k # current
    <3>1. LoggedIn(k) /\ k <= current
      BY <2>1, <2>5, LoggedInSession
    <3>2. ~(grants /\ request[current].from = request[k].from)
      BY <2>2, <2>5, <3>1 DEF Requests
    <3>3. \A j \in Requests : LoggedIn(j) /\ request[j].from = request[k].from => j <= k
      BY <2>1, <2>3
    <3>4. bindings[request[k].from].session = result[k]
      BY <3>1, <3>3 DEF LoginBinds
    <3>5. request[k].from \in Connections
      BY <3>1 DEF CallInv
    <3>. QED
      BY <3>2, <3>4, <3>5 DEF TypeOK
  <2>. QED
    BY <2>4, <2>5
<1>. QED
  BY <1>1, <1>2, <1>3, <1>4, <1>5, <1>6, <1>7

LEMMA RunLoginKeeps ==
  ASSUME IInv, NEW k \in Requests, RunLogin(k)
  PROVE  IInv'
<1>. USE RequestFields, NoRequestFields, SessionIds, GatewayAssumption DEF IInv
<1>. /\ request[k].login /\ call[k] \in {"open", "failed"} /\ ran[k] = 0 /\ result[k] = None
     /\ ran' = [ran EXCEPT ![k] = 1]
     /\ UNCHANGED <<call, loopVars, bindings, reply, granted>>
  BY DEF RunLogin, Upstream!Run, CallInv
<1>0. PICK id \in fresh \union {None} :
       IF id = None THEN UNCHANGED <<result, sessionVars>>
       ELSE Sessions!Begin(id) /\ result' = [result EXCEPT ![k] = id]
  BY DEF RunLogin, TypeOK
<1>1. TypeOK'
  <2>1. result' \in [Requests -> {None} \union SessionId \union Accounts]
    BY <1>0 DEF TypeOK
  <2>2. valid' \subseteq SessionId /\ fresh' \subseteq SessionId
    BY <1>0 DEF TypeOK, Sessions!Begin, sessionVars
  <2>. QED
    BY <2>1, <2>2 DEF TypeOK, loopVars
<1>2. SessionInv'
  <2>1. \A j \in Requests : j # k => result'[j] = result[j]
    BY <1>0 DEF TypeOK
  <2>2. reply[k] # "OK"
    BY DEF ReplyInv
  <2>3. \A j \in Requests : request'[j].login /\ reply'[j] = "OK" => result'[j] \in granted'
    BY <2>1, <2>2 DEF SessionInv, loopVars
  <2>4. CASE id = None
    BY <1>0, <2>3, <2>4, SessionsKept DEF Known, sessionVars, loopVars
  <2>5. CASE id # None
    <3>1. id \in SessionId /\ Sessions!Begin(id) /\ result'[k] = id
      BY <1>0, <2>5 DEF TypeOK
    <3>2. Known' \subseteq Known \union {id}
      BY <2>1, <3>1 DEF Known, loopVars
    <3>. QED
      BY <2>3, <3>1, <3>2, SessionBegun
  <2>. QED
    BY <2>4, <2>5
<1>3. CallInv'
  <2>1. \A j \in Requests : j # k => result'[j] = result[j] /\ ran'[j] = ran[j]
    BY <1>0 DEF TypeOK
  <2>2. ran'[k] = 1 /\ result'[k] \in SessionId \union {None}
    BY <1>0 DEF TypeOK
  <2>. QED
    BY <2>1, <2>2 DEF CallInv, Requests, loopVars
<1>4. ReplyInv'
  <2>1. \A j \in Requests : j # k => result'[j] = result[j]
    BY <1>0 DEF TypeOK
  <2>2. reply[k] \notin {"OK", "SESSION_INVALID"}
    BY DEF ReplyInv
  <2>. QED
    BY <2>1, <2>2 DEF ReplyInv, RepliesTruthful
<1>5. PlayInv'
  <2>1. \A j \in Requests : j # k => result'[j] = result[j]
    BY <1>0 DEF TypeOK
  <2>. QED
    BY <2>1 DEF PlayInv, ServedOnlyCurrent, Superseded, loopVars
<1>6. BindingEarned'
  <2>1. Past \subseteq Past'
    BY <1>0 DEF Past, Sessions!Begin, sessionVars
  <2>. QED
    BY <2>1 DEF BindingEarned, Bound, loopVars
<1>7. LoginBinds'
  <2>1. \A j \in Requests : j # k => result'[j] = result[j]
    BY <1>0 DEF TypeOK
  <2>2. ~LoggedIn(k)
    BY DEF LoggedIn, ReplyInv
  <2>3. /\ \A j \in Requests : LoggedIn(j)' <=> LoggedIn(j)
        /\ \A j \in Requests : LoggedIn(j) => request'[j].from = request[j].from /\ result'[j] = result[j]
    BY <2>1, <2>2 DEF LoggedIn, loopVars
  <2>. QED
    BY <2>3, BindsKept DEF Bound, loopVars
<1>. QED
  BY <1>1, <1>2, <1>3, <1>4, <1>5, <1>6, <1>7

LEMMA RunPlayKeeps ==
  ASSUME IInv, NEW k \in Requests, RunPlay(k)
  PROVE  IInv'
<1>. USE RequestFields, NoRequestFields, SessionIds, GatewayAssumption DEF IInv
<1>1. TypeOK'
  BY DEF TypeOK, Codes, Requests,
         RunPlay, sessionVars, loopVars, Upstream!Run, Served
<1>2. SessionInv'
  <2>1. Known' \subseteq Known
    BY DEF Known, CallInv, TypeOK, RunPlay, sessionVars, loopVars, Upstream!Run, Served
  <2>2. \A j \in Requests : request'[j].login /\ reply'[j] = "OK" => result'[j] \in granted'
    BY DEF TypeOK, SessionInv, RunPlay, sessionVars, loopVars, Upstream!Run, Served
  <2>. QED
    BY <2>1, <2>2, SessionsKept DEF RunPlay, sessionVars, loopVars, Upstream!Run, Served
<1>3. CallInv'
  BY DEF TypeOK, CallInv, Requests,
         RunPlay, sessionVars, loopVars, Upstream!Run, Served
<1>4. ReplyInv'
  BY DEF TypeOK, CallInv, ReplyInv, RepliesTruthful, Requests,
         RunPlay, sessionVars, loopVars, Upstream!Run, Served
<1>5. PlayInv'
  BY DEF TypeOK, SessionInv, CallInv, PlayInv, ServedOnlyCurrent, Superseded, Known,
         RunPlay, sessionVars, loopVars, Upstream!Run, Served
<1>6. BindingEarned'
  BY DEF TypeOK, SessionInv, CallInv, BindingEarned, Bound, Unbound, Past, Known,
         RunPlay, sessionVars, loopVars, Upstream!Run, Served
<1>7. LoginBinds'
  <2>1. /\ \A j \in Requests : LoggedIn(j)' <=> LoggedIn(j)
        /\ \A j \in Requests : LoggedIn(j) => request'[j].from = request[j].from /\ result'[j] = result[j]
    BY LoggedInSession DEF TypeOK, LoggedIn, CallInv, Requests, RunPlay, sessionVars, loopVars, Upstream!Run, Served
  <2>. QED
    BY <2>1, BindsKept DEF TypeOK, Bound, RunPlay, sessionVars, loopVars, Upstream!Run, Served
<1>. QED
  BY <1>1, <1>2, <1>3, <1>4, <1>5, <1>6, <1>7

LEMMA SessionEndsKeeps ==
  ASSUME IInv, NEW id \in SessionId, SessionEnds(id)
  PROVE  IInv'
<1>. USE RequestFields, NoRequestFields, SessionIds, GatewayAssumption DEF IInv
<1>1. TypeOK'
  BY DEF TypeOK, Codes, Requests,
         SessionEnds, callVars, loopVars, Sessions!End
<1>2. SessionInv'
  <2>1. Known' \subseteq Known
    BY DEF Known, CallInv, TypeOK, SessionEnds, callVars, loopVars, Sessions!End
  <2>2. \A k \in Requests : request'[k].login /\ reply'[k] = "OK" => result'[k] \in granted'
    BY DEF TypeOK, SessionInv, SessionEnds, callVars, loopVars, Sessions!End
  <2>. QED
    BY <2>1, <2>2, SessionsKept DEF SessionEnds, callVars, loopVars, Sessions!End
<1>3. CallInv'
  BY DEF TypeOK, CallInv, Requests,
         SessionEnds, callVars, loopVars, Sessions!End
<1>4. ReplyInv'
  BY DEF TypeOK, CallInv, ReplyInv, RepliesTruthful, Requests,
         SessionEnds, callVars, loopVars, Sessions!End
<1>5. PlayInv'
  BY DEF TypeOK, SessionInv, CallInv, PlayInv, ServedOnlyCurrent, Superseded, Known,
         SessionEnds, callVars, loopVars, Sessions!End
<1>6. BindingEarned'
  BY DEF TypeOK, SessionInv, CallInv, BindingEarned, Bound, Unbound, Past, Known,
         SessionEnds, callVars, loopVars, Sessions!End
<1>7. LoginBinds'
  <2>1. /\ \A k \in Requests : LoggedIn(k)' <=> LoggedIn(k)
        /\ \A k \in Requests : LoggedIn(k) => request'[k].from = request[k].from /\ result'[k] = result[k]
    BY LoggedInSession DEF TypeOK, LoggedIn, CallInv, Requests, SessionEnds, callVars, loopVars, Sessions!End
  <2>. QED
    BY <2>1, BindsKept DEF TypeOK, Bound, SessionEnds, callVars, loopVars, Sessions!End
<1>. QED
  BY <1>1, <1>2, <1>3, <1>4, <1>5, <1>6, <1>7

LEMMA LoginElsewhereKeeps ==
  ASSUME IInv, NEW id \in SessionId, LoginElsewhere(id)
  PROVE  IInv'
<1>. USE RequestFields, NoRequestFields, SessionIds, GatewayAssumption DEF IInv
<1>1. TypeOK'
  BY DEF TypeOK, Codes, Requests,
         LoginElsewhere, callVars, loopVars, Sessions!Begin
<1>2. SessionInv'
  <2>1. Known' \subseteq Known \union {id}
    BY DEF Known, LoginElsewhere, callVars, loopVars, Sessions!Begin
  <2>. QED
    BY <2>1, SessionBegun DEF SessionInv, LoginElsewhere, callVars, loopVars, Sessions!Begin
<1>3. CallInv'
  BY DEF TypeOK, CallInv, Requests,
         LoginElsewhere, callVars, loopVars, Sessions!Begin
<1>4. ReplyInv'
  BY DEF TypeOK, CallInv, ReplyInv, RepliesTruthful, Requests,
         LoginElsewhere, callVars, loopVars, Sessions!Begin
<1>5. PlayInv'
  BY DEF TypeOK, SessionInv, CallInv, PlayInv, ServedOnlyCurrent, Superseded, Known,
         LoginElsewhere, callVars, loopVars, Sessions!Begin
<1>6. BindingEarned'
  BY DEF TypeOK, SessionInv, CallInv, BindingEarned, Bound, Unbound, Past, Known,
         LoginElsewhere, callVars, loopVars, Sessions!Begin
<1>7. LoginBinds'
  <2>1. /\ \A k \in Requests : LoggedIn(k)' <=> LoggedIn(k)
        /\ \A k \in Requests : LoggedIn(k) => request'[k].from = request[k].from /\ result'[k] = result[k]
    BY LoggedInSession DEF TypeOK, LoggedIn, CallInv, Requests, LoginElsewhere, callVars, loopVars, Sessions!Begin
  <2>. QED
    BY <2>1, BindsKept DEF TypeOK, Bound, LoginElsewhere, callVars, loopVars, Sessions!Begin
<1>. QED
  BY <1>1, <1>2, <1>3, <1>4, <1>5, <1>6, <1>7

LEMMA CrashKeeps ==
  ASSUME IInv, Crash
  PROVE  IInv'
<1>. USE RequestFields, NoRequestFields, SessionIds, GatewayAssumption DEF IInv
<1>1. TypeOK'
  BY DEF TypeOK, Codes, Requests,
         Crash, sessionVars
<1>2. SessionInv'
  <2>1. Known' \subseteq Known
    BY DEF Known, CallInv, TypeOK, Crash, sessionVars
  <2>2. \A k \in Requests : request'[k].login /\ reply'[k] = "OK" => result'[k] \in granted'
    BY DEF TypeOK, SessionInv, Crash, sessionVars
  <2>. QED
    BY <2>1, <2>2, SessionsKept DEF Crash, sessionVars
<1>3. CallInv'
  BY DEF TypeOK, CallInv, Requests,
         Crash, sessionVars
<1>4. ReplyInv'
  BY DEF TypeOK, CallInv, ReplyInv, RepliesTruthful, Requests,
         Crash, sessionVars
<1>5. PlayInv'
  BY DEF TypeOK, SessionInv, CallInv, PlayInv, ServedOnlyCurrent, Superseded, Known,
         Crash, sessionVars
<1>6. BindingEarned'
  BY DEF TypeOK, SessionInv, CallInv, BindingEarned, Bound, Unbound, Past, Known,
         Crash, sessionVars
<1>7. LoginBinds'
  <2>. SUFFICES ASSUME NEW k \in Requests, LoggedIn(k), request[k].from \notin closed'
                PROVE  FALSE
    BY DEF LoginBinds, LoggedIn, Crash
  <2>1. request[k].from \in Connections
    BY LoggedInSession DEF CallInv
  <2>. QED
    BY <2>1 DEF Crash
<1>. QED
  BY <1>1, <1>2, <1>3, <1>4, <1>5, <1>6, <1>7

LEMMA StutterKeeps == IInv /\ UNCHANGED vars => IInv'
  BY DEF IInv, TypeOK, SessionInv, CallInv, ReplyInv, PlayInv, BindingEarned, LoginBinds, LoggedIn,
         RepliesTruthful, ServedOnlyCurrent, Known, Superseded, Bound, Past, vars, sessionVars,
         callVars, loopVars

LEMMA NextKeeps == IInv /\ [Next]_vars => IInv'
<1>. SUFFICES ASSUME IInv, Next PROVE IInv'
  BY StutterKeeps
<1>1. CASE Handle \/ Crash
  BY <1>1, AuthorizeKeeps, ForwardKeeps, UpstreamFailsKeeps, MismatchKeeps, RespondKeeps, CrashKeeps
  DEF Handle
<1>2. CASE \E c \in Connections : Disconnect(c)
  BY <1>2, DisconnectKeeps
<1>3. CASE \E r \in Request : Receive(r)
  BY <1>3, ReceiveKeeps
<1>4. CASE \E k \in Requests : RunLogin(k) \/ RunPlay(k)
  BY <1>4, RunLoginKeeps, RunPlayKeeps
<1>5. CASE \E id \in SessionId : SessionEnds(id) \/ LoginElsewhere(id)
  BY <1>5, SessionEndsKeeps, LoginElsewhereKeeps
<1>. QED
  BY <1>1, <1>2, <1>3, <1>4, <1>5 DEF Next
-----------------------------------------------------------------------------
(* Theorems                                                                *)

\* The inductive invariant, which all of the following rest on.
THEOREM GatewayInvariance == Spec => []IInv
  BY InitIInv, NextKeeps, PTL DEF Spec

\* Every variable keeps its type, and the connection of a request that is handled is
\* open (the event loop closes none under HandlePacket).
THEOREM GatewayTypeCorrect == Spec => []TypeOK
  BY GatewayInvariance, PTL DEF IInv

\* A request with a superseded session is never executed, and every other only for
\* the owner of its session, whatever client_bindings_ says: LoadPlayer and the
\* dungeon service look the session up again.
THEOREM OnlyCurrentSessionsAreServed == Spec => []ServedOnlyCurrent
<1>1. IInv => ServedOnlyCurrent
  BY DEF IInv, PlayInv
<1>. QED
  BY <1>1, GatewayInvariance, PTL

\* Bindings belong to open connections and name sessions no later login can get
\* (SessionBindingAuthorizer).
THEOREM BindingsAreEarned == Spec => []BindingEarned
  BY GatewayInvariance, PTL DEF IInv

\* A connection is bound to the session of the last login it was answered
\* (HandlePacket, Bind and Unbind).
THEOREM LoginsBind == Spec => []LoginBinds
  BY GatewayInvariance, PTL DEF IInv

\* OK means executed, SESSION_INVALID that it is not and will not be (HandlePacket).
THEOREM RepliesAreTruthful == Spec => []RepliesTruthful
<1>1. IInv => RepliesTruthful
  BY DEF IInv, ReplyInv
<1>. QED
  BY <1>1, GatewayInvariance, PTL

\* A bound connection gets another session only by its own login (ValidateOrRestore
\* never replaces a binding, Bind does).
THEOREM SwitchesOnlyByLogin == Spec => SwitchesByLogin
<1>. DEFINE Switch(c) == Bound(c) /\ bindings'[c] \notin {Unbound, bindings[c]} =>
                           This.from = c /\ This.login /\ reply'[current] = "OK"
<1>1. IInv /\ [Next]_vars => [\A c \in Connections : Switch(c)]_vars
  <2>. SUFFICES ASSUME IInv, Next, NEW c \in Connections, Bound(c),
                       bindings'[c] \notin {Unbound, bindings[c]}
                PROVE  This.from = c /\ This.login /\ reply'[current] = "OK"
    OBVIOUS
  <2>1. ~Authorize
    BY DEF IInv, TypeOK, Authorize, Matches, This, Bound
  <2>2. CASE Respond
    <3>1. /\ This.login /\ Bind(This.from, result[current]) /\ Answer("OK")
      BY <2>2 DEF Respond
    <3>2. current \in Requests /\ This.from \in Connections
      BY <2>2, Handling DEF Respond, This
    <3>. QED
      BY <3>1, <3>2 DEF Bind, Answer, IInv, TypeOK
  <2>3. \A d \in Connections : ~Disconnect(d)
    BY DEF Disconnect, IInv, TypeOK
  <2>4. ~Crash
    BY DEF Crash
  <2>. QED
    BY <2>1, <2>2, <2>3, <2>4
    DEF Next, Handle, Forward, UpstreamFails, Mismatch, Receive, RunLogin, RunPlay, SessionEnds,
        LoginElsewhere, loopVars
<1>. QED
  BY <1>1, GatewayInvariance, PTL DEF Spec, SwitchesByLogin
=============================================================================
