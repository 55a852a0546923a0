---------------------------- MODULE IntentSizing ----------------------------
(***************************************************************************)
(* The arithmetic of the fast loop (run_fast_loop_tx in control/src/       *)
(* services/orchestrator.rs): from what was observed of a workload and from *)
(* its policy to the intent that is stored and sent.                        *)
(*                                                                         *)
(* The code computes in f64.  Percentages are integers here, and the ceiling *)
(* of a product that is not exact in binary may come out one too large when  *)
(* the exact product is an integer (100 * 1.1 is a little more than 110);    *)
(* the parameter up says that it does.  10%, 20% and 30% of a u32 round well.*)
(***************************************************************************)
EXTENDS Integers

CONSTANT U32Size     \* 2^32 in the code

\* The literals 1 and 64 of the code are u32.
ASSUME SizeAssumption == U32Size \in Nat /\ U32Size > 64

U32 == 0 .. (U32Size - 1)

Least(m, n)    == IF m < n THEN m ELSE n
Greatest(m, n) == IF m > n THEN m ELSE n

CeilDiv(n, d) == (n + d - 1) \div d

CeilF64(n, d, up) == IF up /\ n > 0 /\ n % d = 0 THEN n \div d + 1 ELSE CeilDiv(n, d)

\* clamp_u32: min wins over max when they cross.
ClampU32(v, min, max) == IF v < min THEN min ELSE IF v > max THEN max ELSE v

\* Release builds wrap; a debug build panics and the loop's transaction is lost.
AddU32(m, n) == (m + n) % U32Size

\* active * queue_boost, the boost running from 1 to 2 with the queue.
Demand(active, queue, up) == CeilF64(active * (100 + Least(queue, 100)), 100, up)

\* Slip: the quota is applied to the demand and not to the floor.
DesiredFloorLast(demand, p) ==
  Greatest(Least(Least(demand, AddU32(p.hardQuota, p.softBurst)), p.absoluteLimit),
           p.maxConcurrency)

\* Slip: no floor.
DesiredByDemand(demand, p) ==
  Least(Least(demand, AddU32(p.hardQuota, p.softBurst)), p.absoluteLimit)

Desired(demand, p) ==
  Least(Least(Greatest(demand, p.maxConcurrency), AddU32(p.hardQuota, p.softBurst)),
        p.absoluteLimit)

\* An SLO violation adds the soft burst once more.
DesiredGuarded(demand, p, violated) ==
  IF violated THEN Least(Desired(demand, p) + p.softBurst, p.absoluteLimit)
              ELSE Desired(demand, p)

\* Slip: an idle workload is scaled to nothing.
TargetOrZero(d, p) == ClampU32(d, 0, p.absoluteLimit)

Target(d, p) == ClampU32(d, 1, p.absoluteLimit)

\* Slip: integer division, which rounds down.
PoolSizeFloor(d, percent) == IF percent = 20 THEN d \div 5 ELSE CeilDiv(d * percent, 100)

PoolSize(d, percent) == CeilDiv(d * percent, 100)

\* (burst_mem * 1.15) as i64 truncates, to one less when the product comes out
\* just under an integer.
BurstMemory(p, violated, down) ==
  LET grown == p.burstMem * 115
      mem   == IF ~violated THEN p.burstMem
               ELSE IF down /\ grown > 0 /\ grown % 100 = 0 THEN grown \div 100 - 1
               ELSE grown \div 100
  IN  ClampU32(mem, 64, Least(2 * p.burstMem, U32Size - 1))

\* cpu_limit_percent, of a cap in percent that an SLO violation raises by a fifth.
\* The rounded product is never halfway between integers.
BurstCpu(p, violated) ==
  Least(IF violated THEN (p.burstCpu * 12 + 5) \div 10 ELSE p.burstCpu, U32Size - 1)

\* The hysteresis of the loop: a change of one unit is never worth it.
Worthwhile(current, target, percent, up) ==
  LET threshold == CeilF64(current * percent, 100, up)
      delta     == IF target > current THEN target - current ELSE current - target
  IN  delta > Greatest(threshold, 1)

-----------------------------------------------------------------------------
(* Placement: rows of node groups in table order, rank says which comes first *)

\* hottest_group_for: the first group of the highest pressure, if that is the
\* workload's own and the pressure is at least 85%.
IsHottest(g, pressure, rank) ==
  /\ g \in DOMAIN pressure
  /\ pressure[g] >= 85
  /\ \A h \in DOMAIN pressure :
       \/ pressure[h] < pressure[g]
       \/ pressure[h] = pressure[g] /\ rank[g] <= rank[h]

\* Slip: max_by instead of min_by.
CoolestByMax(pressure, rank) ==
  CHOOSE g \in DOMAIN pressure :
    \A h \in DOMAIN pressure :
       \/ pressure[g] > pressure[h]
       \/ pressure[g] = pressure[h] /\ rank[g] <= rank[h]

\* coolest_group: the first group of the lowest pressure.
Coolest(pressure, rank) ==
  CHOOSE g \in DOMAIN pressure :
    \A h \in DOMAIN pressure :
       \/ pressure[g] < pressure[h]
       \/ pressure[g] = pressure[h] /\ rank[g] <= rank[h]

Preferred(g, pressure, rank) ==
  IF IsHottest(g, pressure, rank) THEN Coolest(pressure, rank) ELSE g
=============================================================================
