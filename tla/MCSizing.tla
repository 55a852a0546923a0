------------------------------ MODULE MCSizing ------------------------------
(* One workload of Planner with many policies and observations: small numbers *)
(* of 7 bits, so that sums wrap.                                             *)
EXTENDS Planner

CONSTANTS w1, g1

MCRank == [g \in Groups |-> 1]

MCPolicies == [maxConcurrency : {0, 3, 90}, hardQuota : {0, 1, 20, 100},
               softBurst : {0, 7, 60}, absoluteLimit : {0, 1, 11, 127},
               burstMem : {100}, burstCpu : {100},
               cooldown : {0}, hysteresis : {10}, containers : {{}}]

MCLoads == [active : {0, 1, 10, 50, 127}, queue : {0, 10, 127},
            group : {g1}, violated : BOOLEAN]
=============================================================================
