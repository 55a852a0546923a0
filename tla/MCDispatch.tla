----------------------------- MODULE MCDispatch -----------------------------
(* Small instances of Dispatch for TLC. *)
EXTENDS Dispatch

CONSTANTS pool, burst, place    \* one action of each kind of behaviour

MCTtl == [a \in Actions |-> IF a = pool THEN 2 ELSE 1]

Pressure == [code |-> "RESOURCE_PRESSURE", retryable |-> TRUE]
Invalid  == [code |-> "INVALID_ARGUMENT", retryable |-> FALSE]

MCPressureOnly == {Pressure}
MCRefusals == {Pressure, Invalid}
=============================================================================
