------------------------------- MODULE Gateway -------------------------------
(***************************************************************************)
(* GatewayServer and its SessionBindingAuthorizer: connections bound to    *)
(* sessions, and requests that are authorized, forwarded and answered one  *)
(* after the other, with the services' own check at the other end.  The    *)
(* upstreams are used as CallPromise says, sessions as SessionPromise says *)
(* and connections as TcpServer reports them.  An account stands for its   *)
(* player too.                                                             *)
(*                                                                         *)
(* Pings and packets that do not parse are answered by HandlePacket itself *)
(* and change nothing: they are stuttering steps.                          *)
(***************************************************************************)
EXTENDS Naturals

CONSTANTS
  Accounts,
  MaxSeq,       \* bound: sessions that begin
  Connections,  \* connection ids; one is not used again
  MaxRequests,  \* bound: requests the gateway receives
  None,
  Faults        \* "crash": the gateway dies and is started again; "elsewhere":
                \* accounts log in through other gateways

Codes == {"OK", "SESSION_INVALID", "BAD_GATEWAY", "UPSTREAM_ERROR"}

ASSUME GatewayAssumption ==
  /\ None \notin Accounts \union Connections \union Codes
  /\ None \notin Accounts \X (1..MaxSeq)
  /\ MaxSeq \in Nat /\ MaxRequests \in Nat
ASSUME GatewayFaultsAssumption == Faults \subseteq {"crash", "elsewhere"}

Requests == 1..MaxRequests
VARIABLES
  valid, fresh,   \* the sessions, of SessionPromise
  call, ran,      \* the upstream calls, of CallPromise
  closed,         \* connections that have ended; another is there when it is needed
  bindings,       \* client_bindings_
  pc,             \* where HandlePacket is
  current,        \* the number of the request it handles, or last handled
  request,        \* all requests received
  result,         \* what the services did: None, a session begun, or a player
                  \* the request was executed for
  reply,          \* what the gateway answered, or None
  granted         \* sessions of logins that were answered

sessionVars == <<valid, fresh>>
callVars == <<call, ran>>
loopVars == <<closed, pc, current, request>>
vars == <<sessionVars, callVars, loopVars, bindings, result, reply, granted>>

Sessions == INSTANCE SessionPromise
Upstream == INSTANCE CallPromise WITH Calls <- Requests

SessionId == Sessions!SessionId
Owner(id) == id[1]
NoSession == <<None, 0>>
\* The ids no login can take any more: the valid ones and those that are over.
Past == SessionId \ fresh

\* A later login of the account has been answered.
Superseded(id) == \E g \in granted : Owner(g) = Owner(id) /\ g[2] > id[2]

\* session and player are those of the message context, body the player_id of
\* the message itself; plain: the context has the request_id of the header or
\* none.  late: the session was superseded when the gateway read the request.
Request == [from : Connections, login : {FALSE}, session : SessionId \union {NoSession},
            player : Accounts, body : Accounts \union {None}, plain : BOOLEAN, late : BOOLEAN]
           \union
           [from : Connections, login : {TRUE}, session : {NoSession},
            player : {None}, body : {None}, plain : BOOLEAN, late : {FALSE}]
NoRequest == [from |-> None, login |-> FALSE, session |-> NoSession, player |-> None,
              body |-> None, plain |-> TRUE, late |-> FALSE]
Binding == [session : SessionId, player : Accounts]
Unbound == [session |-> NoSession, player |-> None]
Bound(c) == bindings[c] # Unbound

TypeOK ==
  /\ valid \subseteq SessionId /\ fresh \subseteq SessionId
  /\ call \in [Requests -> {"none", "open", "ok", "failed"}]
  /\ ran \in [Requests -> {0, 1}]
  /\ closed \subseteq Connections
  /\ bindings \in [Connections -> Binding \union {Unbound}]
  /\ pc \in {"idle", "authorize", "forward", "wait"}
  /\ current \in 0..MaxRequests
  /\ request \in [Requests -> Request \union {NoRequest}]
  /\ result \in [Requests -> {None} \union SessionId \union Accounts]
  /\ reply \in [Requests -> Codes \union {None}]
  /\ granted \subseteq SessionId
  /\ pc # "idle" => current # 0 /\ request[current].from \notin closed

Init ==
  /\ Sessions!Init
  /\ Upstream!Init
  /\ closed = {}
  /\ bindings = [c \in Connections |-> Unbound]
  /\ pc = "idle" /\ current = 0
  /\ request = [k \in Requests |-> NoRequest]
  /\ result = [k \in Requests |-> None]
  /\ reply = [k \in Requests |-> None]
  /\ granted = {}
-----------------------------------------------------------------------------
(* The event loop                                                          *)

\* Mutated form: connections are closed while a request waits for its upstream.
DisconnectAnytime(c) ==
  /\ c \notin closed
  /\ closed' = closed \union {c}
  /\ bindings' = [bindings EXCEPT ![c] = Unbound]
  /\ UNCHANGED <<sessionVars, callVars, pc, current, request, result, reply, granted>>
\* CloseConnection calls the disconnect handler, which calls Unbind.
Disconnect(c) ==
  /\ pc = "idle" /\ c \notin closed
  /\ closed' = closed \union {c}
  /\ bindings' = [bindings EXCEPT ![c] = Unbound]
  /\ UNCHANGED <<sessionVars, callVars, pc, current, request, result, reply, granted>>

\* Clients name ids of the past, valid or not, their own or not.
Receive(r) ==
  /\ pc = "idle" /\ current < MaxRequests
  /\ r.from \notin closed
  /\ r.session \in Past \union {NoSession}
  /\ r.body # r.player \/ r.login  \* naming the player twice is as naming it once
  /\ r.late = (r.session # NoSession /\ Superseded(r.session))
  /\ current' = current + 1
  /\ request' = [request EXCEPT ![current + 1] = r]
  /\ pc' = IF r.login THEN "forward" ELSE "authorize"
  /\ UNCHANGED <<sessionVars, callVars, closed, bindings, result, reply, granted>>
-----------------------------------------------------------------------------
(* HandlePacket                                                            *)

This == request[current]

Answer(code) ==
  /\ reply' = [reply EXCEPT ![current] = code]
  /\ pc' = "idle"
  /\ UNCHANGED <<closed, current, request>>

\* Mutated form: the player of the context is not compared.
RestorableForAnybody(r) == r.session \in valid
\* RestoreBindingFromSession finds a session of the player.
Restorable(r) == r.session \in valid /\ Owner(r.session) = r.player

\* Mutated form: a connection bound to another session is bound anew.
MatchesOrNot(c, r) == bindings[c] = [session |-> r.session, player |-> r.player] \/ Restorable(r)
Matches(c, r) == bindings[c] = [session |-> r.session, player |-> r.player]

\* ValidateOrRestore: bound, restored or invalid.
Authorize ==
  LET c == This.from
      b == [session |-> This.session, player |-> This.player]
      good == IF Bound(c) THEN Matches(c, This) ELSE Restorable(This) IN
  /\ pc = "authorize"
  /\ \/ /\ good
        /\ bindings' = [bindings EXCEPT ![c] = b]
        /\ pc' = "forward"
        /\ UNCHANGED <<closed, current, request, reply>>
     \/ /\ ~good
        /\ Answer("SESSION_INVALID")
        /\ bindings' = bindings
  /\ UNCHANGED <<sessionVars, callVars, result, granted>>

Forward ==
  /\ pc = "forward"
  /\ Upstream!Begin(current)
  /\ pc' = "wait"
  /\ UNCHANGED <<sessionVars, closed, current, request, bindings, result, reply, granted>>

\* Mutated form: a call that failed is answered like one that was refused.
UpstreamFailsRefused ==
  /\ pc = "wait"
  /\ Upstream!Fail(current)
  /\ Answer("SESSION_INVALID")
  /\ UNCHANGED <<sessionVars, bindings, result, granted>>
UpstreamFails ==
  /\ pc = "wait"
  /\ Upstream!Fail(current)
  /\ Answer("UPSTREAM_ERROR")
  /\ UNCHANGED <<sessionVars, bindings, result, granted>>

\* The services answer with the request_id of the context they normalised.
Mismatch ==
  /\ pc = "wait" /\ ~This.plain
  /\ Upstream!Succeed(current)
  /\ Answer("BAD_GATEWAY")
  /\ UNCHANGED <<sessionVars, bindings, result, granted>>

\* Mutated form: the binding of a connection that has one is kept.
BindUnbound(c, id) ==
  bindings' = IF Bound(c) THEN bindings
              ELSE [bindings EXCEPT ![c] = [session |-> id, player |-> Owner(id)]]
Bind(c, id) ==
  bindings' = [bindings EXCEPT ![c] = [session |-> id, player |-> Owner(id)]]

\* The upstream's answer is passed on; a login that succeeded binds first.
Respond ==
  /\ pc = "wait" /\ This.plain
  /\ Upstream!Succeed(current)
  /\ \/ /\ This.login /\ result[current] # None
        /\ Bind(This.from, result[current])
        /\ granted' = granted \union {result[current]}
        /\ Answer("OK")
     \/ /\ ~This.login \/ result[current] = None
        /\ Answer(IF result[current] # None THEN "OK" ELSE "SESSION_INVALID")
        /\ UNCHANGED <<bindings, granted>>
  /\ UNCHANGED <<sessionVars, result>>
-----------------------------------------------------------------------------
(* The services, now or after the gateway gave up waiting                  *)

\* A login the password refuses runs without a result.
RunLogin(k) ==
  /\ request[k].login
  /\ Upstream!Run(k)
  /\ \/ UNCHANGED <<result, sessionVars>>
     \/ \E id \in fresh :
          /\ Sessions!Begin(id)
          /\ result' = [result EXCEPT ![k] = id]
  /\ UNCHANGED <<loopVars, bindings, reply, granted>>

\* The servers take the player of the message body if it has one.
Player(r) == IF r.body # None THEN r.body ELSE r.player
\* Mutated form: the service relies on the gateway's binding.
ServedUnchecked(r) == TRUE
\* LoadPlayer, EnterDungeon and SettleDungeon look the session up again.
Served(r) == r.session \in valid /\ Owner(r.session) = Player(r)
RunPlay(k) ==
  /\ ~request[k].login
  /\ Upstream!Run(k)
  /\ result' = [result EXCEPT ![k] = IF Served(request[k]) THEN Player(request[k]) ELSE None]
  /\ UNCHANGED <<sessionVars, loopVars, bindings, reply, granted>>
-----------------------------------------------------------------------------
(* The environment                                                         *)

SessionEnds(id) ==
  /\ Sessions!End(id)
  /\ UNCHANGED <<callVars, loopVars, bindings, result, reply, granted>>

LoginElsewhere(id) ==
  /\ "elsewhere" \in Faults
  /\ Sessions!Begin(id)
  /\ granted' = granted \union {id}
  /\ UNCHANGED <<callVars, loopVars, bindings, result, reply>>

\* The connections in use close; the upstreams finish what they have of calls.
Crash ==
  /\ "crash" \in Faults
  /\ closed' = closed \union {c \in Connections : \E k \in Requests : request[k].from = c}
  /\ bindings' = [c \in Connections |-> Unbound]
  /\ call' = [k \in Requests |-> IF call[k] = "open" THEN "failed" ELSE call[k]]
  /\ pc' = "idle"
  /\ UNCHANGED <<sessionVars, ran, current, request, result, reply, granted>>

Handle == Authorize \/ Forward \/ UpstreamFails \/ Mismatch \/ Respond
Next ==
  \/ Handle \/ Crash
  \/ \E c \in Connections : Disconnect(c)
  \/ \E r \in Request : Receive(r)
  \/ \E k \in Requests : RunLogin(k) \/ RunPlay(k)
  \/ \E id \in SessionId : SessionEnds(id) \/ LoginElsewhere(id)

Spec == Init /\ [][Next]_vars
-----------------------------------------------------------------------------
(* Properties                                                              *)

\* spec.md: a later login takes the account over.  Whatever binding the gateway
\* keeps, a request that arrives with a session after a newer login was answered
\* is never executed, and any other only for the owner of its session.
ServedOnlyCurrent ==
  \A k \in Requests : ~request[k].login /\ result[k] # None =>
    ~request[k].late /\ result[k] = Owner(request[k].session)

\* A binding belongs to an open connection and names a session no later login
\* can be given, with that session's own player.
BindingEarned ==
  \A c \in Connections : Bound(c) =>
    /\ c \notin closed
    /\ bindings[c].session \in Past
    /\ Owner(bindings[c].session) = bindings[c].player

\* A bound connection changes its session only by a login of its own that the
\* client is told of.
SwitchesByLogin ==
  [][\A c \in Connections :
       Bound(c) /\ bindings'[c] \notin {Unbound, bindings[c]} =>
         This.from = c /\ This.login /\ reply'[current] = "OK"]_vars

\* After the answer to a login the connection is bound to the session of that
\* answer, whatever it was bound to before, until it closes or logs in again.
LoggedIn(k) == request[k].login /\ reply[k] = "OK"
LoginBinds ==
  \A k \in Requests :
    /\ LoggedIn(k) /\ request[k].from \notin closed
    /\ \A j \in Requests : LoggedIn(j) /\ request[j].from = request[k].from => j <= k
    => bindings[request[k].from].session = result[k]

\* What the client is told is so: a request answered OK was executed, one the
\* gateway refused is not executed later either.
RepliesTruthful ==
  \A k \in Requests :
    /\ reply[k] = "OK" => result[k] # None
    /\ reply[k] = "SESSION_INVALID" => result[k] = None
=============================================================================
