----------------------------- MODULE MCPlanner -----------------------------
(* Small instances of Planner for TLC. *)
EXTENDS Planner

CONSTANTS w1, g1, g2, c1

MCRank == [g \in Groups |-> IF g = g1 THEN 1 ELSE 2]

PolicyWith(cooldown, hysteresis) ==
  [maxConcurrency |-> 2, hardQuota |-> 20, softBurst |-> 10, absoluteLimit |-> 40,
   burstMem |-> 100, burstCpu |-> 50, cooldown |-> cooldown, hysteresis |-> hysteresis,
   containers |-> {c1}]

MCPolicies == {PolicyWith(2, 10), PolicyWith(3, 50)}

Load(active, queue, g, violated) ==
  [active |-> active, queue |-> queue, group |-> g, violated |-> violated]

MCLoads == {Load(0, 0, g1, FALSE), Load(10, 50, g1, TRUE), Load(20, 10, g2, FALSE)}

Group(pressure, used, capacity) ==
  [pressure |-> pressure, used |-> used, capacity |-> capacity, warm |-> 1]

MCGroups == {Group(90, 9, 10), Group(20, 1, 10), Group(90, 0, 0)}
=============================================================================
