---------------------------- MODULE SessionPromise ----------------------------
(***************************************************************************)
(* What the session store promises those who only look sessions up: an     *)
(* account has at most one valid session, logins of all accounts take      *)
(* growing numbers, and a session that has ended is over.                  *)
(***************************************************************************)
EXTENDS Naturals

CONSTANTS Accounts, MaxSeq
VARIABLES
  valid,  \* ids that FindById finds
  fresh   \* ids that a login may still take

promiseVars == <<valid, fresh>>

SessionId == Accounts \X (1..MaxSeq)

Init == valid = {} /\ fresh = SessionId

Begin(id) ==
  /\ id \in fresh
  /\ \A v \in valid : v[1] # id[1]
  /\ valid' = valid \union {id}
  /\ fresh' = {f \in fresh : f[2] > id[2]}

\* By a later login, or by its expiry.
End(id) ==
  /\ id \in valid
  /\ valid' = valid \ {id}
  /\ fresh' = fresh

\* A login takes a number, that no account can use then, and may fail.
Retire == fresh' \in SUBSET fresh /\ valid' = valid

Next == Retire \/ \E id \in SessionId : Begin(id) \/ End(id)
Spec == Init /\ [][Next]_promiseVars
=============================================================================
