----------------------------- MODULE CallPromise -----------------------------
(***************************************************************************)
(* What a caller of an upstream service may rely on: calls are made one    *)
(* after the other, the upstream executes each at most once, a call that   *)
(* succeeds was executed, and one that fails may be executed still, now or *)
(* later, or never.                                                        *)
(***************************************************************************)
EXTENDS Naturals

CONSTANT Calls
VARIABLES
  call,  \* "none", "open", "ok" or "failed"
  ran    \* how often the upstream executed it

Init ==
  /\ call = [k \in Calls |-> "none"]
  /\ ran = [k \in Calls |-> 0]

Begin(k) ==
  /\ call[k] = "none" /\ \A j \in Calls : call[j] # "open"
  /\ call' = [call EXCEPT ![k] = "open"]
  /\ ran' = ran

Run(k) ==
  /\ call[k] \in {"open", "failed"} /\ ran[k] = 0
  /\ ran' = [ran EXCEPT ![k] = 1]
  /\ call' = call

Succeed(k) ==
  /\ call[k] = "open" /\ ran[k] = 1
  /\ call' = [call EXCEPT ![k] = "ok"]
  /\ ran' = ran

Fail(k) ==
  /\ call[k] = "open"
  /\ call' = [call EXCEPT ![k] = "failed"]
  /\ ran' = ran

Next == \E k \in Calls : Begin(k) \/ Run(k) \/ Succeed(k) \/ Fail(k)
Spec == Init /\ [][Next]_<<call, ran>>
=============================================================================
