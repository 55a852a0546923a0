--------------------------- MODULE MCConvergence ---------------------------
(* Small instances of Convergence for TLC. *)
EXTENDS Convergence

MCTtl == [a \in Actions |-> 1]

MCRefusals == {[code |-> "RESOURCE_PRESSURE", retryable |-> TRUE]}
=============================================================================
