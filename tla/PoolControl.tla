----------------------------- MODULE PoolControl -----------------------------
(***************************************************************************)
(* What the orchestrator promises about one pool, without its table, clock, *)
(* retries or network: it decides on sizes one after the other, never on the *)
(* one it decided on last, and whatever the pool has is a decision that was  *)
(* carried out, each of them once at most.  Only where a cooldown is shorter *)
(* than the decision window may it forget to decide, on a size of before.     *)
(* Convergence.tla implements this specification.                           *)
(***************************************************************************)
EXTENDS Naturals

CONSTANTS
  Decisions,     \* their numbers, in the order in which they are made
  Sizes, None

VARIABLES
  intent,        \* the size that the control plane says the pool has
  decided,       \* the size of each decision, None before it is made
  applied,       \* the decisions that were carried out
  pool,          \* the size of the pool
  hasty          \* the cooldown is shorter than the decision window

vars == <<intent, decided, applied, pool, hasty>>

Made == {d \in Decisions : decided[d] # None}

Init ==
  /\ intent = None /\ pool = None
  /\ decided = [d \in Decisions |-> None]
  /\ applied = {}
  /\ hasty \in BOOLEAN

Decide(d, s) ==
  /\ s # intent /\ \A e \in Made : e < d
  /\ intent' = s
  /\ decided' = [decided EXCEPT ![d] = s]
  /\ UNCHANGED <<applied, pool, hasty>>

\* The intent says so, and nobody is told: there is a decision that says the same,
\* but it is not the last one.
Forget(s) ==
  /\ hasty /\ s # intent
  /\ \E d \in Made : decided[d] = s
  /\ intent' = s
  /\ UNCHANGED <<decided, applied, pool, hasty>>

\* Carried out late, and after later ones, a decision counts all the same.
Apply(d) ==
  /\ d \in Made \ applied
  /\ applied' = applied \cup {d}
  /\ pool' = decided[d]
  /\ UNCHANGED <<intent, decided, hasty>>

Next ==
  \/ \E d \in Decisions : Apply(d) \/ \E s \in Sizes : Decide(d, s)
  \/ \E s \in Sizes : Forget(s)

SafeSpec == Init /\ [][Next]_vars
=============================================================================
