---------------------------- MODULE WorkerCalls ----------------------------
(***************************************************************************)
(* What WorkerPool::call promises its caller, without the pool: a call is  *)
(* answered once, with the result of its own request or with a failure;    *)
(* its request is begun at most twice (the one transparent retry); and     *)
(* once it was told "timeout" nothing of it is begun any more.             *)
(***************************************************************************)
EXTENDS Naturals

CONSTANTS
  Calls,     \* invocations of call()
  MaxBegins  \* times a request may be begun by a worker

VARIABLES
  outcome,   \* what each call returned, "none" before
  answerOf,  \* the call whose request produced the delivered result
  begun      \* times each call's request was begun by a worker

Failures == {"timeout", "spawn", "dead", "malformed"}

Init ==
  /\ outcome = [k \in Calls |-> "none"]
  /\ answerOf = [k \in Calls |-> {}]
  /\ begun = [k \in Calls |-> 0]

\* A malformed frame is reported while the worker may still have the request.
Begin(k) ==
  /\ outcome[k] \in {"none", "malformed"}
  /\ begun[k] < MaxBegins
  /\ begun' = [begun EXCEPT ![k] = @ + 1]
  /\ UNCHANGED <<outcome, answerOf>>

Answer(k) ==
  /\ outcome[k] = "none"
  /\ begun[k] > 0
  /\ outcome' = [outcome EXCEPT ![k] = "answered"]
  /\ answerOf' = [answerOf EXCEPT ![k] = {k}]
  /\ UNCHANGED begun

Fail(k) ==
  /\ outcome[k] = "none"
  /\ \E f \in Failures : outcome' = [outcome EXCEPT ![k] = f]
  /\ UNCHANGED <<answerOf, begun>>

Next == \E k \in Calls : Begin(k) \/ Answer(k) \/ Fail(k)

Spec == Init /\ [][Next]_<<outcome, answerOf, begun>>
===========================================================================
