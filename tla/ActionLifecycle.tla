--------------------------- MODULE ActionLifecycle ---------------------------
(***************************************************************************)
(* What the orchestrator promises about one row of orchestrator_action,    *)
(* without its table, clock, retries or network: an action that has been   *)
(* enqueued is settled exactly once, the runtime carries it out at most     *)
(* once, and "succeeded" is recorded only of an operation that succeeded.   *)
(* Once a client has posted a result for an action, its record may be       *)
(* anything; what the runtime does for it stays as it was promised.          *)
(* Dispatch.tla implements this specification.                              *)
(***************************************************************************)
CONSTANT Actions

VARIABLES
  phase,    \* what the control plane says of the action
  effect,   \* what the runtime did for it
  overridden   \* the actions for which a client posted a result

vars == <<phase, effect, overridden>>

Phases  == {"absent", "open", "succeeded", "failed"}
Effects == {"none", "started", "done"}

LifecycleTypeOK ==
  /\ phase  \in [Actions -> Phases]
  /\ effect \in [Actions -> Effects]
  /\ overridden \in SUBSET Actions

Init ==
  /\ phase  = [a \in Actions |-> "absent"]
  /\ effect = [a \in Actions |-> "none"]
  /\ overridden = {}

Submit(a) ==
  /\ phase[a] = "absent"
  /\ phase' = [phase EXCEPT ![a] = "open"]
  /\ UNCHANGED <<effect, overridden>>

\* The runtime may start a request that the control plane gave up on.
Start(a) ==
  /\ phase[a] # "absent"
  /\ effect[a] = "none"
  /\ \E e \in {"started", "done"} : effect' = [effect EXCEPT ![a] = e]
  /\ UNCHANGED <<phase, overridden>>

Finish(a) ==
  /\ effect[a] = "started"
  /\ effect' = [effect EXCEPT ![a] = "done"]
  /\ UNCHANGED <<phase, overridden>>

Succeed(a) ==
  /\ phase[a] = "open"
  /\ effect[a] = "done"
  /\ phase' = [phase EXCEPT ![a] = "succeeded"]
  /\ UNCHANGED <<effect, overridden>>

Fail(a) ==
  /\ phase[a] = "open"
  /\ phase' = [phase EXCEPT ![a] = "failed"]
  /\ UNCHANGED <<effect, overridden>>

Settle(a) == Succeed(a) \/ Fail(a)

\* A posted result, and whatever becomes of the record after it.
Override(a) ==
  /\ phase[a] # "absent"
  /\ \E p \in Phases \ {"absent"} : phase' = [phase EXCEPT ![a] = p]
  /\ overridden' = overridden \cup {a}
  /\ UNCHANGED effect

Next == \E a \in Actions : Submit(a) \/ Start(a) \/ Finish(a) \/ Settle(a) \/ Override(a)

SafeSpec == Init /\ [][Next]_vars
Fairness == \A a \in Actions : WF_vars(Settle(a))
Spec     == SafeSpec /\ Fairness
=============================================================================
