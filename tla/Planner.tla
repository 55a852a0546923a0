------------------------------ MODULE Planner ------------------------------
(***************************************************************************)
(* The fast and slow loops of the control plane (control/src/services/     *)
(* orchestrator.rs): from policies and observations, stored by clients at   *)
(* any time, to intents and to rows of orchestrator_action.  Each loop is    *)
(* one SQLite transaction, run by a timer and by the trigger routes alike;   *)
(* the loser of two transactions that meet is rolled back, which is no step. *)
(*                                                                         *)
(* Times are relative: phase is the second within the slow window, a        *)
(* multiple of the fast one, and since[w] is now - updated_at of an intent,  *)
(* which stops at the longest cooldown.  A row's idempotency_key ends in its *)
(* decision window, so the keys of the current windows are all that an       *)
(* insert can collide with.                                                 *)
(***************************************************************************)
EXTENDS IntentSizing, FiniteSets

CONSTANTS
  Workloads, Groups,
  Rank,            \* the order of the node groups' rows
  PolicyChoices,   \* what clients store: policies,
  LoadChoices,     \*   observations of workloads,
  GroupChoices,    \*   and of node groups
  FastWindow,      \* FAST_LOOP_SECONDS, 5 in the code
  SlowWindow,      \* SLOW_LOOP_SECONDS, 120 in the code
  MaxCooldown,     \* where since stops
  MaxInputs,       \* bound on what clients store
  None

ASSUME WindowAssumption ==
  /\ FastWindow \in Nat \ {0} /\ SlowWindow \in Nat \ {0}
  /\ SlowWindow % FastWindow = 0 /\ MaxCooldown \in Nat

Intents == [target : U32, memory : Int, cpu : Int, pool : Nat \X Nat,
            group : Groups, apart : BOOLEAN]
Payloads == [pool : Nat \X Nat, place : Groups \X BOOLEAN]

\* The columns that clients store are u32, or percentages.
ASSUME ChoiceAssumption ==
  /\ IsFiniteSet(Groups) /\ Rank \in [Groups -> Nat]
  /\ \A p \in PolicyChoices :
       /\ p.cooldown \in 0 .. MaxCooldown
       /\ p.maxConcurrency \in U32 /\ p.hardQuota \in U32 /\ p.softBurst \in U32
       /\ p.absoluteLimit \in U32 /\ p.burstMem \in U32
       /\ p.burstCpu \in Nat
  /\ \A o \in LoadChoices : /\ o.active \in U32 /\ o.queue \in U32
                            /\ o.group \in Groups /\ o.violated \in BOOLEAN
  /\ \A o \in GroupChoices : o.pressure \in Nat
ASSUME NoneAssumption ==
  /\ None \notin PolicyChoices /\ None \notin LoadChoices /\ None \notin GroupChoices
  /\ None \notin Intents /\ None \notin Payloads

VARIABLES
  policy, load, group,   \* the rows that clients store, or None
  intent,                \* orchestrator_intent
  since,                 \* age of an intent, see above
  fastKeys, slowKeys,    \* the keys of the rows of the current windows
  newest,                \* the payloads last inserted for a workload
  scaled,                \* the scale rows inserted in this slow window
  phase, inputs

stored == <<policy, load, group, inputs>>
made   == <<intent, since, fastKeys, newest>>
slow   == <<slowKeys, scaled>>
vars   == <<stored, made, slow, phase>>

Directions == {"ScaleNodeGroupUp", "ScaleNodeGroupDown"}

Init ==
  /\ policy = [w \in Workloads |-> None]
  /\ load   = [w \in Workloads |-> None]
  /\ group  = [g \in Groups |-> None]
  /\ intent = [w \in Workloads |-> None]
  /\ since  = [w \in Workloads |-> 0]
  /\ fastKeys = {} /\ slowKeys = {}
  /\ newest = [w \in Workloads |-> None]
  /\ scaled = [g \in Groups |-> [d \in Directions |-> 0]]
  /\ phase = 0 /\ inputs = 0

-----------------------------------------------------------------------------
(* What clients store *)

UpsertPolicy(w, p) ==
  /\ inputs < MaxInputs
  /\ policy' = [policy EXCEPT ![w] = p]
  /\ inputs' = inputs + 1
  /\ UNCHANGED <<load, group, made, slow, phase>>

IngestWorkload(w, o) ==
  /\ inputs < MaxInputs
  /\ load'   = [load EXCEPT ![w] = o]
  /\ inputs' = inputs + 1
  /\ UNCHANGED <<policy, group, made, slow, phase>>

IngestGroup(g, o) ==
  /\ inputs < MaxInputs
  /\ group'  = [group EXCEPT ![g] = o]
  /\ inputs' = inputs + 1
  /\ UNCHANGED <<policy, load, made, slow, phase>>

-----------------------------------------------------------------------------
(* The fast loop *)

Pressure == [g \in {g \in Groups : group[g] # None} |-> group[g].pressure]

\* The workloads that have a policy and an observation.
Observed == {w \in Workloads : policy[w] # None /\ load[w] # None}

\* The concurrency that a workload should have; up says how f64 products round.
Wanted(w, up) ==
  DesiredGuarded(Demand(load[w].active, load[w].queue, up), policy[w], load[w].violated)

\* The intent for a workload.
Intended(w, up) ==
  LET p == policy[w]
      o == load[w]
      d == Wanted(w, up)
      g == Preferred(o.group, Pressure, Rank)
  IN  [target |-> Target(d, p),
       memory |-> BurstMemory(p, o.violated, FALSE),
       cpu    |-> BurstCpu(p, o.violated),
       pool   |-> <<PoolSize(d, 10), PoolSize(d, 30)>>,
       group  |-> g,
       apart  |-> IsHottest(o.group, Pressure, Rank)]   \* anti_affinity

\* The target moves by more than the hysteresis; up rounds the demand and far the
\* threshold.
Moved(w, up, far) ==
  Worthwhile(intent[w].target, Intended(w, up).target, policy[w].hysteresis, far)

\* Slip: no cooldown.
ChangesEagerly(w, up, far) == intent[w] = None \/ Moved(w, up, far)

\* Slip: the cooldown has to be exceeded, and ages stop before they do.
ChangesNever(w, up, far) ==
  intent[w] = None \/ (since[w] > MaxCooldown /\ Moved(w, up, far))

\* A first intent is always stored; later ones after the cooldown and only if
\* the target has moved.
Changes(w, up, far) ==
  intent[w] = None \/ (since[w] >= policy[w].cooldown /\ Moved(w, up, far))

\* deterministic_idempotency_key, within the current decision window.
FastKey(w, type, payload) == <<w, type, payload>>

PoolKey(w, i)  == FastKey(w, "SetPoolTarget", i.pool)
PlaceKey(w, i) == FastKey(w, "SetPlacementPreference", <<i.group, i.apart>>)
BurstKeys(w, i) == {FastKey(w, "SetBurstPolicy", <<c, i.memory, i.cpu>>) :
                      c \in policy[w].containers}

KeysFor(w, i) == {PoolKey(w, i), PlaceKey(w, i)} \cup BurstKeys(w, i)

\* The rows of types that are there once for a workload, after an insert that
\* does nothing where the key is taken.
Inserted(w, i) ==
  [pool  |-> IF PoolKey(w, i) \in fastKeys THEN newest[w].pool ELSE i.pool,
   place |-> IF PlaceKey(w, i) \in fastKeys THEN newest[w].place
             ELSE <<i.group, i.apart>>]

FastLoop ==
  \E up, far \in [Observed -> BOOLEAN] :
    LET C == {w \in Observed : Changes(w, up[w], far[w])} IN
    /\ intent' = [w \in Workloads |-> IF w \in C THEN Intended(w, up[w]) ELSE intent[w]]
    /\ since'  = [w \in Workloads |-> IF w \in C THEN 0 ELSE since[w]]
    /\ newest' = [w \in Workloads |->
                    IF w \in C THEN Inserted(w, Intended(w, up[w])) ELSE newest[w]]
    /\ fastKeys' = fastKeys \cup UNION {KeysFor(w, Intended(w, up[w])) : w \in C}
    /\ UNCHANGED <<stored, slow, phase>>

-----------------------------------------------------------------------------
(* The slow loop *)

\* What the utilization of a group asks for; a group without capacity counts as
\* unused.
Scaling(o) ==
  IF o.capacity > 0 /\ 100 * o.used > 80 * o.capacity THEN {"ScaleNodeGroupUp"}
  ELSE IF (o.capacity = 0 \/ 100 * o.used < 35 * o.capacity) /\ o.warm > 0
    THEN {"ScaleNodeGroupDown"} ELSE {}

\* Slip: the key is made with the time and not with its window.
SlowKeyNow(g, d) == <<g, d, phase>>

SlowKey(g, d) == <<g, d>>

SlowLoop ==
  LET asked == {x \in Groups \X Directions :
                  group[x[1]] # None /\ x[2] \in Scaling(group[x[1]])}
      new   == {x \in asked : SlowKey(x[1], x[2]) \notin slowKeys}
  IN  /\ slowKeys' = slowKeys \cup {SlowKey(x[1], x[2]) : x \in new}
      /\ scaled'   = [g \in Groups |-> [d \in Directions |->
                        scaled[g][d] + IF <<g, d>> \in new THEN 1 ELSE 0]]
      /\ UNCHANGED <<stored, made, phase>>

\* The clock: a window that ends takes its keys out of reach.
Tick ==
  LET next == (phase + 1) % SlowWindow IN
  /\ phase' = next
  /\ since' = [w \in Workloads |-> IF intent[w] = None THEN 0
                                   ELSE Least(since[w] + 1, MaxCooldown)]
  /\ fastKeys' = IF next % FastWindow = 0 THEN {} ELSE fastKeys
  /\ slowKeys' = IF next = 0 THEN {} ELSE slowKeys
  /\ scaled'   = IF next = 0 THEN [g \in Groups |-> [d \in Directions |-> 0]] ELSE scaled
  /\ UNCHANGED <<stored, intent, newest>>

Next ==
  \/ \E w \in Workloads, p \in PolicyChoices : UpsertPolicy(w, p)
  \/ \E w \in Workloads, o \in LoadChoices : IngestWorkload(w, o)
  \/ \E g \in Groups, o \in GroupChoices : IngestGroup(g, o)
  \/ FastLoop \/ SlowLoop \/ Tick

\* The timers of start_loops tick for ever.
Spec == Init /\ [][Next]_vars /\ WF_vars(FastLoop) /\ WF_vars(Tick)

-----------------------------------------------------------------------------
\* Every table holds rows of its kind.
TypeOK ==
  /\ policy \in [Workloads -> PolicyChoices \cup {None}]
  /\ load \in [Workloads -> LoadChoices \cup {None}]
  /\ group \in [Groups -> GroupChoices \cup {None}]
  /\ intent \in [Workloads -> Intents \cup {None}]
  /\ newest \in [Workloads -> Payloads \cup {None}]
  /\ \A w \in Workloads : intent[w] = None <=> newest[w] = None
  /\ since \in [Workloads -> 0 .. MaxCooldown]
  /\ phase \in 0 .. (SlowWindow - 1)

\* If no cooldown is shorter than the fast window, the newest pool and placement
\* rows of a workload say what its intent says: no insert is swallowed because
\* the targets went back and forth within one window.
NewestMatchesIntent ==
  (\A p \in PolicyChoices : p.cooldown >= FastWindow) =>
    \A w \in Workloads :
      intent[w] # None =>
        /\ newest[w].pool = intent[w].pool
        /\ newest[w].place = <<intent[w].group, intent[w].apart>>

\* However often the slow loop runs, by timer or trigger, a node group is scaled
\* at most once in each direction within a window.
ScaledOncePerWindow ==
  \A g \in Groups, d \in Directions : scaled[g][d] <= 1

\* A workload is sent away from the hottest group only to a group that is no
\* hotter, and is told to stay there only if every group is as hot.
AwayFromHeat ==
  \A w \in Observed :
    LET own == load[w].group
        to  == Preferred(own, Pressure, Rank)
    IN  IsHottest(own, Pressure, Rank) =>
          /\ Pressure[to] <= Pressure[own]
          /\ to = own => \A g \in DOMAIN Pressure : Pressure[g] = Pressure[own]

\* Whatever clients have stored, the target that the fast loop would store is a
\* u32 that never leaves the absolute limit, except that it is one where the limit
\* is zero.
TargetWithinLimit ==
  \A w \in Observed, up \in BOOLEAN :
    Intended(w, up).target \in U32 \cap (1 .. Greatest(1, policy[w].absoluteLimit))

\* The three pool sizes are ordered and the pool never exceeds the target: the
\* min_instances sent to the runtime are at most the max_instances.
PoolsOrdered ==
  \A w \in Observed, up \in BOOLEAN :
    LET size(percent) == PoolSize(Wanted(w, up), percent) IN
    /\ 0 <= size(10) /\ size(10) <= size(20) /\ size(20) <= size(30)
    /\ size(30) <= Intended(w, up).target

\* Where the sum of hard quota and soft burst fits in a u32 it bounds the target;
\* under an SLO violation the soft burst counts twice.
Quota(p) == p.hardQuota + p.softBurst
Fits(p)  == Quota(p) < U32Size

QuotaRespected ==
  \A w \in Observed, up \in BOOLEAN :
    Fits(policy[w]) =>
      Intended(w, up).target <=
        Greatest(1, Quota(policy[w]) + IF load[w].violated THEN policy[w].softBurst ELSE 0)

\* Where the sum fits, a max_concurrency within quota and limit is a floor, even
\* for an idle workload.
FloorKept ==
  \A w \in Observed, up \in BOOLEAN :
    LET p == policy[w] IN
    Fits(p) /\ p.maxConcurrency <= Least(Quota(p), p.absoluteLimit)
      => Intended(w, up).target >= p.maxConcurrency

\* Memory for a burst is never below 64 MB nor above 64 MB and twice the policy.
BurstMemoryBounded ==
  \A w \in Observed, down \in BOOLEAN :
    BurstMemory(policy[w], load[w].violated, down) \in
      64 .. Greatest(64, 2 * policy[w].burstMem)

\* Once clients stop storing, every intent comes within the hysteresis of what
\* is asked for, and stays there.
IntentFollowsDemand ==
  <>[](\A w \in Observed :
         /\ intent[w] # None
         /\ \E up, far \in BOOLEAN : ~Moved(w, up, far))
=============================================================================
