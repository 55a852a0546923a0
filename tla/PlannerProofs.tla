--------------------------- MODULE PlannerProofs ---------------------------
(***************************************************************************)
(* The two loops, for any workloads, node groups, policies, observations and *)
(* windows.                                                                 *)
(***************************************************************************)
EXTENDS Planner, FiniteSetTheorems, WellFoundedInduction, TLAPS

\* The condition under which no key is met twice.
LongCooldowns == \A p \in PolicyChoices : p.cooldown >= FastWindow

\* A workload with a key in this window has an intent that is no older than it.
KeyInv ==
  \A k \in fastKeys :
    k[1] \in Workloads => intent[k[1]] # None /\ since[k[1]] <= phase % FastWindow

\* A scale row is there once exactly if its key is.
ScaledInv ==
  \A g \in Groups, d \in Directions :
    scaled[g][d] = IF <<g, d>> \in slowKeys THEN 1 ELSE 0

ScaledType == scaled \in [Groups -> [Directions -> Int]]

IInv == TypeOK /\ KeyInv /\ ScaledType /\ ScaledInv /\ NewestMatchesIntent

USE WindowAssumption

-----------------------------------------------------------------------------
(* Placement *)

\* Among finitely many groups one has the lowest pressure, and is the first row
\* of those that have.
LEMMA CoolestGroup ==
  ASSUME NEW D, IsFiniteSet(D), D # {}, NEW p \in [D -> Nat],
         NEW rank, \A g \in D : rank[g] \in Nat
  PROVE  /\ Coolest(p, rank) \in D
         /\ \A h \in D : p[Coolest(p, rank)] <= p[h]
<1>. DEFINE Less(h, g) == p[h] < p[g] \/ (p[h] = p[g] /\ rank[h] < rank[g])
            Below(g) == {h \in D : Less(h, g)}
            T == {Below(g) : g \in D}
            R == StrictSubsetOrdering(D)
<1>1. IsWellFoundedOn(R, FiniteSubsetsOf(D))
  BY FS_StrictSubsetOrderingWellFounded
<1>2. T \subseteq FiniteSubsetsOf(D) /\ T # {}
  <2>1. \A g \in D : Below(g) \in SUBSET D
    OBVIOUS
  <2>2. FiniteSubsetsOf(D) = SUBSET D
    BY FS_FiniteSubsetsOfFinite
  <2>3. T \subseteq SUBSET D /\ T # {}
    <3>. HIDE DEF Below
    <3>. QED BY <2>1
  <2>. HIDE DEF T
  <2>. QED BY <2>2, <2>3
<1>. HIDE DEF R, T
<1>3. \E x \in T : \A y \in T : <<y, x>> \notin R
  BY <1>1, <1>2, WFMin
<1>4. PICK g \in D : \A y \in T : <<y, Below(g)>> \notin R
  BY <1>3 DEF T
<1>5. \A h \in D : ~Less(h, g)
  <2>. SUFFICES ASSUME NEW h \in D, Less(h, g) PROVE FALSE
    OBVIOUS
  <2>1. \A k \in D : /\ p[k] \in Nat /\ rank[k] \in Nat
    OBVIOUS
  <2>2. Below(h) \subseteq Below(g)
    BY <2>1
  <2>3. h \in Below(g) /\ h \notin Below(h)
    BY <2>1
  <2>4. <<Below(h), Below(g)>> \in R
    <3>1. Below(h) \in SUBSET D /\ Below(g) \in SUBSET D /\ Below(h) # Below(g)
      BY <2>3
    <3>. HIDE DEF Below
    <3>. QED BY <2>2, <3>1 DEF R, StrictSubsetOrdering
  <2>. QED BY <2>4, <1>4 DEF T
<1>6. \A h \in D : p[g] < p[h] \/ (p[g] = p[h] /\ rank[g] <= rank[h])
  <2>1. \A k \in D : /\ p[k] \in Nat /\ rank[k] \in Nat
    OBVIOUS
  <2>. QED BY <1>5, <2>1
<1>7. DOMAIN p = D
  OBVIOUS
<1>. DEFINE Cool(x) == \A h \in D : p[x] < p[h] \/ (p[x] = p[h] /\ rank[x] <= rank[h])
<1>8. Coolest(p, rank) = CHOOSE x \in D : Cool(x)
  BY <1>7 DEF Coolest
<1>9. \E x \in D : Cool(x)
  BY <1>6
<1>. HIDE DEF Cool
<1>10. Coolest(p, rank) \in D /\ Cool(Coolest(p, rank))
  BY <1>8, <1>9
<1>11. \A h \in D : p[Coolest(p, rank)] \in Nat /\ p[h] \in Nat
  BY <1>10
<1>. QED BY <1>10, <1>11 DEF Cool

\* The pressures that are known, and the rows they are read from.
LEMMA Pressures ==
  ASSUME TypeOK
  PROVE  /\ IsFiniteSet(DOMAIN Pressure) /\ DOMAIN Pressure \subseteq Groups
         /\ Pressure \in [DOMAIN Pressure -> Nat]
         /\ \A g \in DOMAIN Pressure : Rank[g] \in Nat
<1>. DEFINE D == {g \in Groups : group[g] # None}
<1>1. IsFiniteSet(D)
  BY ChoiceAssumption, FS_Subset
<1>2. \A g \in D : group[g].pressure \in Nat /\ Rank[g] \in Nat
  BY ChoiceAssumption DEF TypeOK
<1>3. Pressure = [g \in D |-> group[g].pressure]
  BY DEF Pressure
<1>. HIDE DEF D
<1>4. DOMAIN Pressure = D
  BY <1>3
<1>5. Pressure \in [D -> Nat]
  BY <1>2, <1>3
<1>. QED BY <1>1, <1>2, <1>4, <1>5 DEF D

LEMMA PreferredGroup ==
  ASSUME TypeOK, NEW g \in Groups
  PROVE  Preferred(g, Pressure, Rank) \in Groups
<1>1. CASE IsHottest(g, Pressure, Rank)
  <2>1. DOMAIN Pressure # {}
    BY <1>1 DEF IsHottest
  <2>2. Coolest(Pressure, Rank) \in DOMAIN Pressure
    BY <2>1, Pressures, CoolestGroup
  <2>. QED BY <1>1, <2>2, Pressures DEF Preferred
<1>2. CASE ~IsHottest(g, Pressure, Rank)
  BY <1>2 DEF Preferred
<1>. QED BY <1>1, <1>2

LEMMA Away == TypeOK => AwayFromHeat
<1>. SUFFICES ASSUME TypeOK, NEW own, IsHottest(own, Pressure, Rank)
     PROVE  /\ Pressure[Preferred(own, Pressure, Rank)] <= Pressure[own]
            /\ Preferred(own, Pressure, Rank) = own =>
                 \A g \in DOMAIN Pressure : Pressure[g] = Pressure[own]
  BY DEF AwayFromHeat
<1>. DEFINE to == Preferred(own, Pressure, Rank)
            D == DOMAIN Pressure
<1>1. own \in D /\ \A h \in D : Pressure[h] < Pressure[own] \/ Pressure[h] = Pressure[own]
  BY DEF IsHottest
<1>2. to = Coolest(Pressure, Rank)
  BY DEF Preferred
<1>3. to \in D /\ \A h \in D : Pressure[to] <= Pressure[h]
  BY <1>1, <1>2, Pressures, CoolestGroup
<1>4. \A h \in D : Pressure[h] \in Nat
  BY Pressures
<1>. HIDE DEF to, D
<1>5. Pressure[to] <= Pressure[own]
  BY <1>1, <1>3
<1>6. to = own => \A g \in D : Pressure[g] = Pressure[own]
  BY <1>1, <1>3, <1>4
<1>. QED BY <1>5, <1>6 DEF to, D

-----------------------------------------------------------------------------
(* Sizes, and the types of an intent *)

LEMMA CeilDivBounds ==
  ASSUME NEW n \in Nat
  PROVE  CeilDiv(n, 100) \in Nat /\ 100 * CeilDiv(n, 100) < n + 100
                                 /\ n <= 100 * CeilDiv(n, 100)
BY DEF CeilDiv

\* The columns that clients store are natural numbers.
LEMMA Columns ==
  ASSUME TypeOK, NEW w \in Observed
  PROVE  LET p == policy[w]
             o == load[w] IN
         /\ w \in Workloads
         /\ p.maxConcurrency \in Nat /\ p.hardQuota \in Nat /\ p.softBurst \in Nat
         /\ p.absoluteLimit \in Nat /\ p.absoluteLimit < U32Size
         /\ p.burstMem \in Nat /\ p.burstMem < U32Size /\ p.burstCpu \in Nat
         /\ o.active \in Nat /\ o.queue \in Nat
         /\ o.group \in Groups /\ o.violated \in BOOLEAN
<1>1. policy[w] \in PolicyChoices /\ load[w] \in LoadChoices /\ w \in Workloads
  BY DEF Observed, TypeOK
<1>. QED BY <1>1, ChoiceAssumption, SizeAssumption DEF U32

LEMMA DemandIsNat ==
  ASSUME NEW active \in Nat, NEW queue \in Nat, NEW up \in BOOLEAN
  PROVE  Demand(active, queue, up) \in Nat
<1>. DEFINE n == active * (100 + Least(queue, 100))
<1>1. Least(queue, 100) \in Nat
  BY DEF Least
<1>2. n \in Nat
  BY <1>1
<1>. HIDE DEF n
<1>3. CeilF64(n, 100, up) \in Nat
  BY <1>2, CeilDivBounds DEF CeilF64
<1>. QED BY <1>3 DEF Demand, n

\* A wrapped sum is a natural number, and the sum itself where that fits.
LEMMA AddU32Bounds ==
  ASSUME NEW m \in Nat, NEW n \in Nat
  PROVE  /\ AddU32(m, n) \in Nat
         /\ m + n < U32Size => AddU32(m, n) = m + n
BY SizeAssumption DEF AddU32

\* The wanted concurrency before it is clamped.
LEMMA WantedBounds ==
  ASSUME TypeOK, NEW w \in Observed, NEW up \in BOOLEAN
  PROVE  LET p == policy[w]
             d == Wanted(w, up) IN
         /\ d \in Nat
         /\ d <= p.absoluteLimit
         /\ Fits(p) => d <= Quota(p) + IF load[w].violated THEN p.softBurst ELSE 0
         /\ Fits(p) /\ p.maxConcurrency <= Least(Quota(p), p.absoluteLimit)
              => d >= p.maxConcurrency
<1>. DEFINE p == policy[w]
            o == load[w]
            d == Demand(o.active, o.queue, up)
            s == AddU32(p.hardQuota, p.softBurst)
            b == Desired(d, p)
            r == Wanted(w, up)
<1>1. /\ p.maxConcurrency \in Nat /\ p.hardQuota \in Nat /\ p.softBurst \in Nat
      /\ p.absoluteLimit \in Nat /\ o.violated \in BOOLEAN
  BY Columns
<1>2. d \in Nat
  BY Columns, DemandIsNat
<1>3. s \in Nat /\ (Fits(p) => s = Quota(p))
  BY <1>1, AddU32Bounds DEF Fits, Quota
<1>4. b = Least(Least(Greatest(d, p.maxConcurrency), s), p.absoluteLimit)
  BY DEF Desired
<1>5. r = IF o.violated THEN Least(b + p.softBurst, p.absoluteLimit) ELSE b
  BY DEF Wanted, DesiredGuarded
<1>6. Quota(p) = p.hardQuota + p.softBurst
  BY DEF Quota
<1>. HIDE DEF p, o, d, s, b, r
<1>7. /\ r \in Nat
      /\ r <= p.absoluteLimit
      /\ Fits(p) => r <= Quota(p) + IF o.violated THEN p.softBurst ELSE 0
      /\ Fits(p) /\ p.maxConcurrency <= Least(Quota(p), p.absoluteLimit)
           => r >= p.maxConcurrency
  <2>1. CASE o.violated
    BY <1>1, <1>2, <1>3, <1>4, <1>5, <1>6, <2>1 DEF Least, Greatest
  <2>2. CASE ~o.violated
    BY <1>1, <1>2, <1>3, <1>4, <1>5, <1>6, <2>2 DEF Least, Greatest
  <2>. QED BY <1>1, <2>1, <2>2
<1>. QED BY <1>7 DEF p, o, r

\* The clamped target is the wanted one, or one.
LEMMA TargetValue ==
  ASSUME TypeOK, NEW w \in Observed, NEW up \in BOOLEAN
  PROVE  Intended(w, up).target = IF Wanted(w, up) < 1 THEN 1 ELSE Wanted(w, up)
<1>1. Intended(w, up).target = Target(Wanted(w, up), policy[w])
  BY DEF Intended
<1>. QED BY <1>1, WantedBounds, Columns DEF Target, ClampU32

\* One size of a pool, and the three of them.
LEMMA PoolSizeBounds ==
  ASSUME NEW d \in Nat
  PROVE  /\ \A k \in {10, 20, 30} : PoolSize(d, k) \in Nat
         /\ PoolSize(d, 10) <= PoolSize(d, 20) /\ PoolSize(d, 20) <= PoolSize(d, 30)
         /\ PoolSize(d, 30) <= IF d < 1 THEN 1 ELSE d
<1>1. ASSUME NEW k \in {10, 20, 30}
      PROVE  /\ PoolSize(d, k) \in Nat
             /\ 100 * PoolSize(d, k) < d * k + 100
             /\ d * k <= 100 * PoolSize(d, k)
  <2>1. d * k \in Nat
    OBVIOUS
  <2>. QED BY <2>1, CeilDivBounds DEF PoolSize
<1>. DEFINE a == PoolSize(d, 10)
            b == PoolSize(d, 20)
            c == PoolSize(d, 30)
<1>2. /\ a \in Nat /\ 100 * a < d * 10 + 100
      /\ b \in Nat /\ 100 * b < d * 20 + 100 /\ d * 20 <= 100 * b
      /\ c \in Nat /\ 100 * c < d * 30 + 100 /\ d * 30 <= 100 * c
  BY <1>1
<1>. HIDE DEF a, b, c
<1>3. a <= b /\ b <= c
  BY <1>2
<1>4. c <= IF d < 1 THEN 1 ELSE d
  BY <1>2
<1>. QED BY <1>1, <1>3, <1>4 DEF a, b, c

LEMMA IntendedType ==
  ASSUME TypeOK, NEW w \in Observed, NEW up \in BOOLEAN
  PROVE  Intended(w, up) \in Intents /\ Intended(w, up) # None
<1>. DEFINE p == policy[w]
            o == load[w]
            d == Wanted(w, up)
            t == Intended(w, up).target
            m == BurstMemory(p, o.violated, FALSE)
            c == BurstCpu(p, o.violated)
            l == <<PoolSize(d, 10), PoolSize(d, 30)>>
            g == Preferred(o.group, Pressure, Rank)
            a == IsHottest(o.group, Pressure, Rank)
<1>1. t \in U32
  BY TargetValue, WantedBounds, Columns, SizeAssumption DEF U32
<1>2. m \in Int
  <2>1. p.burstMem \in Nat /\ p.burstMem < U32Size
    BY Columns
  <2>2. p.burstMem * 115 \in Nat /\ (p.burstMem * 115) \div 100 \in Nat
    BY <2>1
  <2>. QED BY <2>1, <2>2, SizeAssumption DEF BurstMemory, ClampU32, Least
<1>3. l \in Nat \X Nat
  BY WantedBounds, PoolSizeBounds
<1>10. c \in Int
  <2>1. p.burstCpu \in Nat
    BY Columns
  <2>2. (p.burstCpu * 12 + 5) \div 10 \in Int
    BY <2>1
  <2>. QED BY <2>1, <2>2, SizeAssumption DEF BurstCpu, Least
<1>4. g \in Groups
  BY Columns, PreferredGroup
<1>5. a \in BOOLEAN
  BY DEF IsHottest
<1>6. Intended(w, up) =
        [target |-> t, memory |-> m, cpu |-> c, pool |-> l, group |-> g, apart |-> a]
  BY DEF Intended
<1>7. \A t0 \in U32, m0 \in Int, c0 \in Int, l0 \in Nat \X Nat, g0 \in Groups,
         a0 \in BOOLEAN :
        [target |-> t0, memory |-> m0, cpu |-> c0, pool |-> l0, group |-> g0,
         apart |-> a0] \in Intents
  BY DEF Intents
<1>. HIDE DEF t, m, c, l, g, a
<1>8. [target |-> t, memory |-> m, cpu |-> c, pool |-> l, group |-> g, apart |-> a]
        \in Intents
  BY <1>1, <1>2, <1>10, <1>3, <1>4, <1>5, <1>7
<1>9. Intended(w, up) \in Intents
  BY <1>6, <1>8, Zenon
<1>. QED BY <1>9, NoneAssumption

-----------------------------------------------------------------------------
(* The first state *)

LEMMA InitInv == Init => IInv
<1>. SUFFICES ASSUME Init PROVE IInv
  OBVIOUS
<1>. USE DEF Init
<1>1. TypeOK
  <2>1. 0 \in 0 .. MaxCooldown /\ 0 \in 0 .. (SlowWindow - 1)
    OBVIOUS
  <2>. QED BY <2>1 DEF TypeOK
<1>2. KeyInv /\ NewestMatchesIntent
  BY DEF KeyInv, NewestMatchesIntent
<1>3. ScaledType /\ ScaledInv
  BY DEF ScaledType, ScaledInv
<1>. QED BY <1>1, <1>2, <1>3 DEF IInv

-----------------------------------------------------------------------------
(* Steps *)

LEMMA StoreInv ==
  ASSUME IInv, UNCHANGED <<made, slow, phase>>,
         policy' \in [Workloads -> PolicyChoices \cup {None}],
         load' \in [Workloads -> LoadChoices \cup {None}],
         group' \in [Groups -> GroupChoices \cup {None}]
  PROVE  IInv'
BY DEF IInv, made, slow, TypeOK, KeyInv, ScaledType, ScaledInv, NewestMatchesIntent

\* Keys of a workload begin with it.
LEMMA KeysBelong ==
  ASSUME NEW w, NEW i, NEW k \in KeysFor(w, i)
  PROVE  k[1] = w
BY DEF KeysFor, PoolKey, PlaceKey, BurstKeys, FastKey

LEMMA FastLoopInv == ASSUME IInv, FastLoop PROVE IInv'
<1>. USE DEF IInv
<1>0. PICK up \in [Observed -> BOOLEAN], far \in [Observed -> BOOLEAN] :
        LET C == {w \in Observed : Changes(w, up[w], far[w])} IN
        /\ intent' = [w \in Workloads |-> IF w \in C THEN Intended(w, up[w]) ELSE intent[w]]
        /\ since'  = [w \in Workloads |-> IF w \in C THEN 0 ELSE since[w]]
        /\ newest' = [w \in Workloads |->
                        IF w \in C THEN Inserted(w, Intended(w, up[w])) ELSE newest[w]]
        /\ fastKeys' = fastKeys \cup UNION {KeysFor(w, Intended(w, up[w])) : w \in C}
        /\ UNCHANGED <<stored, slow, phase>>
  BY DEF FastLoop
<1>. DEFINE C == {w \in Observed : Changes(w, up[w], far[w])}
            I(w) == Intended(w, up[w])
<1>1. /\ intent' = [w \in Workloads |-> IF w \in C THEN I(w) ELSE intent[w]]
      /\ since'  = [w \in Workloads |-> IF w \in C THEN 0 ELSE since[w]]
      /\ newest' = [w \in Workloads |-> IF w \in C THEN Inserted(w, I(w)) ELSE newest[w]]
      /\ fastKeys' = fastKeys \cup UNION {KeysFor(w, I(w)) : w \in C}
      /\ UNCHANGED <<stored, slow, phase>>
  BY <1>0
<1>2. \A w \in C : w \in Workloads /\ I(w) \in Intents /\ I(w) # None
                /\ Changes(w, up[w], far[w])
  BY IntendedType DEF Observed
<1>. HIDE DEF C, I
<1>3. \A w \in C : /\ I(w).pool \in Nat \X Nat
                   /\ <<I(w).group, I(w).apart>> \in Groups \X BOOLEAN
  BY <1>2 DEF Intents
\* A key that is taken belongs to a workload that has an intent.
<1>4. \A w \in C : PoolKey(w, I(w)) \in fastKeys \/ PlaceKey(w, I(w)) \in fastKeys
                     => intent[w] # None /\ since[w] <= phase % FastWindow
  BY <1>2 DEF KeyInv, PoolKey, PlaceKey, FastKey
<1>5. \A w \in C : intent[w] # None => newest[w] \in Payloads
  BY <1>2 DEF TypeOK
<1>6. \A w \in C : Inserted(w, I(w)) \in Payloads
  <2>. SUFFICES ASSUME NEW w \in C PROVE Inserted(w, I(w)) \in Payloads
    OBVIOUS
  <2>1. newest[w] \in Payloads =>
          newest[w].pool \in Nat \X Nat /\ newest[w].place \in Groups \X BOOLEAN
    BY DEF Payloads
  <2>2. (IF PoolKey(w, I(w)) \in fastKeys THEN newest[w].pool ELSE I(w).pool) \in Nat \X Nat
    BY <1>3, <1>4, <1>5, <2>1
  <2>3. (IF PlaceKey(w, I(w)) \in fastKeys THEN newest[w].place
         ELSE <<I(w).group, I(w).apart>>) \in Groups \X BOOLEAN
    BY <1>3, <1>4, <1>5, <2>1
  <2>. QED BY <2>2, <2>3 DEF Inserted, Payloads
<1>7. TypeOK'
  <2>1. intent' \in [Workloads -> Intents \cup {None}]
    BY <1>1, <1>2 DEF TypeOK
  <2>2. newest' \in [Workloads -> Payloads \cup {None}]
    BY <1>1, <1>6 DEF TypeOK
  <2>3. \A w \in Workloads : intent'[w] = None <=> newest'[w] = None
    BY <1>1, <1>2, <1>6, NoneAssumption DEF TypeOK
  <2>4. since' \in [Workloads -> 0 .. MaxCooldown]
    BY <1>1 DEF TypeOK
  <2>. QED BY <1>1, <2>1, <2>2, <2>3, <2>4 DEF TypeOK, stored
<1>8. KeyInv'
  <2>. SUFFICES ASSUME NEW k \in fastKeys', k[1] \in Workloads
       PROVE  intent'[k[1]] # None /\ since'[k[1]] <= phase' % FastWindow
    BY DEF KeyInv
  <2>0. phase % FastWindow \in Nat
    BY DEF TypeOK
  <2>1. CASE k[1] \in C
    BY <2>0, <2>1, <1>1, <1>2
  <2>2. CASE k[1] \notin C
    <3>1. k \in fastKeys
      BY <2>2, <1>1, KeysBelong
    <3>. QED BY <2>2, <3>1, <1>1 DEF KeyInv
  <2>. QED BY <2>1, <2>2
<1>9. NewestMatchesIntent'
  <2>. SUFFICES ASSUME LongCooldowns, NEW w \in Workloads, intent'[w] # None
       PROVE  /\ newest'[w].pool = intent'[w].pool
              /\ newest'[w].place = <<intent'[w].group, intent'[w].apart>>
    BY DEF NewestMatchesIntent, LongCooldowns
  <2>1. CASE w \notin C
    BY <2>1, <1>1 DEF NewestMatchesIntent, LongCooldowns
  <2>2. CASE w \in C
    <3>1. intent[w] # None => since[w] >= FastWindow
      <4>1. policy[w] \in PolicyChoices
        BY <2>2 DEF C, Observed, TypeOK
      <4>2. policy[w].cooldown >= FastWindow /\ policy[w].cooldown \in 0 .. MaxCooldown
        BY <4>1, ChoiceAssumption DEF LongCooldowns
      <4>. QED BY <4>2, <1>2, <2>2 DEF Changes, TypeOK
    <3>2. phase % FastWindow < FastWindow /\ since[w] \in Nat
          /\ phase % FastWindow \in Nat
      BY DEF TypeOK
    <3>3. PoolKey(w, I(w)) \notin fastKeys /\ PlaceKey(w, I(w)) \notin fastKeys
      BY <2>2, <1>4, <3>1, <3>2
    <3>4. newest'[w] = Inserted(w, I(w)) /\ intent'[w] = I(w)
      BY <2>2, <1>1
    <3>. QED BY <3>3, <3>4 DEF Inserted
  <2>. QED BY <2>1, <2>2
<1>10. ScaledType' /\ ScaledInv'
  BY <1>1 DEF slow, ScaledType, ScaledInv
<1>. QED BY <1>7, <1>8, <1>9, <1>10

LEMMA SlowLoopInv == ASSUME IInv, SlowLoop PROVE IInv'
<1>. USE DEF IInv
<1>. DEFINE asked == {x \in Groups \X Directions :
                        group[x[1]] # None /\ x[2] \in Scaling(group[x[1]])}
            new   == {x \in asked : SlowKey(x[1], x[2]) \notin slowKeys}
<1>1. /\ UNCHANGED <<stored, made, phase>>
      /\ slowKeys' = slowKeys \cup {SlowKey(x[1], x[2]) : x \in new}
      /\ scaled'   = [g \in Groups |-> [d \in Directions |->
                        scaled[g][d] + IF <<g, d>> \in new THEN 1 ELSE 0]]
  BY DEF SlowLoop
<1>2. \A g \in Groups, d \in Directions :
        /\ <<g, d>> \in new => <<g, d>> \notin slowKeys
        /\ <<g, d>> \in slowKeys' <=> <<g, d>> \in slowKeys \/ <<g, d>> \in new
  <2>1. \A x \in new : x = <<x[1], x[2]>>
    OBVIOUS
  <2>2. {SlowKey(x[1], x[2]) : x \in new} = new
    <3>. HIDE DEF new
    <3>. QED BY <2>1 DEF SlowKey
  <2>. QED BY <1>1, <2>1, <2>2 DEF SlowKey
<1>. HIDE DEF new
<1>3. ScaledType' /\ ScaledInv'
  <2>1. \A g \in Groups, d \in Directions :
          scaled'[g][d] = scaled[g][d] + IF <<g, d>> \in new THEN 1 ELSE 0
    BY <1>1
  <2>2. \A g \in Groups, d \in Directions : scaled[g][d] \in Int
    BY DEF ScaledType
  <2>3. ScaledType'
    BY <1>1, <2>2 DEF ScaledType
  <2>. QED BY <1>2, <2>1, <2>2, <2>3 DEF ScaledInv
<1>4. TypeOK' /\ KeyInv' /\ NewestMatchesIntent'
  BY <1>1 DEF stored, made, TypeOK, KeyInv, NewestMatchesIntent
<1>. QED BY <1>3, <1>4

\* The second within a window is the next one, or the first of another window.
LEMMA NextInWindow ==
  ASSUME NEW n \in Nat, NEW m \in Nat \ {0}, (n + 1) % m # 0
  PROVE  (n + 1) % m = (n % m) + 1
<1>. DEFINE q == n \div m
            r == n % m
<1>1. q \in Int /\ r \in 0 .. (m - 1) /\ n = m * q + r
  OBVIOUS
<1>2. r + 1 < m => (n + 1) % m = r + 1
  <2>. SUFFICES ASSUME r + 1 < m PROVE (n + 1) % m = r + 1
    OBVIOUS
  <2>1. n + 1 = m * q + (r + 1)
    BY <1>1
  <2>. HIDE DEF q, r
  <2>. QED BY <1>1, <2>1, SMTT(30)
<1>3. r + 1 = m => (n + 1) % m = 0
  <2>. SUFFICES ASSUME r + 1 = m PROVE (n + 1) % m = 0
    OBVIOUS
  <2>1. n + 1 = m * (q + 1)
    BY <1>1
  <2>. HIDE DEF q, r
  <2>. QED BY <1>1, <2>1, SMTT(30)
<1>. QED BY <1>1, <1>2, <1>3

LEMMA TickInv == ASSUME IInv, Tick PROVE IInv'
<1>. USE DEF IInv
<1>. DEFINE next == (phase + 1) % SlowWindow
<1>1. /\ phase' = next
      /\ since' = [w \in Workloads |-> IF intent[w] = None THEN 0
                                       ELSE Least(since[w] + 1, MaxCooldown)]
      /\ fastKeys' = IF next % FastWindow = 0 THEN {} ELSE fastKeys
      /\ slowKeys' = IF next = 0 THEN {} ELSE slowKeys
      /\ scaled'   = IF next = 0 THEN [g \in Groups |-> [d \in Directions |-> 0]]
                     ELSE scaled
      /\ UNCHANGED <<stored, intent, newest>>
  BY DEF Tick
<1>2. phase \in Nat /\ phase < SlowWindow /\ next \in 0 .. (SlowWindow - 1)
  BY DEF TypeOK
<1>3. next = phase + 1 \/ next = 0
  <2>1. next # 0 => next = (phase % SlowWindow) + 1
    BY <1>2, NextInWindow
  <2>2. phase % SlowWindow = phase
    BY <1>2
  <2>. QED BY <2>1, <2>2
<1>4. 0 % FastWindow = 0
  OBVIOUS
<1>5. next % FastWindow # 0 => next % FastWindow = (phase % FastWindow) + 1
  <2>1. CASE next = phase + 1
    <3>1. (phase + 1) % FastWindow # 0 =>
            (phase + 1) % FastWindow = (phase % FastWindow) + 1
      BY <1>2, NextInWindow
    <3>. HIDE DEF next
    <3>. QED BY <2>1, <3>1
  <2>2. CASE next = 0
    <3>. HIDE DEF next
    <3>. QED BY <2>2, <1>4
  <2>. QED BY <2>1, <2>2, <1>3
<1>. HIDE DEF next
<1>6. TypeOK'
  <2>1. since' \in [Workloads -> 0 .. MaxCooldown]
    BY <1>1 DEF TypeOK, Least
  <2>. QED BY <1>1, <1>2, <2>1 DEF TypeOK, stored
<1>7. KeyInv'
  <2>1. phase % FastWindow \in Nat
    BY <1>2
  <2>2. \A w \in Workloads : intent[w] # None =>
          since'[w] <= since[w] + 1 /\ since[w] \in Nat /\ since'[w] \in Nat
    BY <1>1 DEF TypeOK, Least
  <2>. QED BY <1>1, <1>5, <2>1, <2>2 DEF KeyInv
<1>8. NewestMatchesIntent'
  BY <1>1 DEF NewestMatchesIntent
<1>9. ScaledType' /\ ScaledInv'
  <2>1. CASE next = 0
    <3>1. \A g \in Groups, d \in Directions : scaled'[g][d] = 0
      BY <1>1, <2>1
    <3>2. scaled' \in [Groups -> [Directions -> Int]]
      BY <1>1, <2>1
    <3>. QED BY <1>1, <2>1, <3>1, <3>2 DEF ScaledType, ScaledInv
  <2>2. CASE next # 0
    BY <1>1, <2>2 DEF ScaledType, ScaledInv
  <2>. QED BY <2>1, <2>2
<1>. QED BY <1>6, <1>7, <1>8, <1>9

-----------------------------------------------------------------------------
(* The theorems *)

LEMMA NextInv == IInv /\ [Next]_vars => IInv'
<1>. SUFFICES ASSUME IInv, [Next]_vars PROVE IInv'
  OBVIOUS
<1>0. TypeOK
  BY DEF IInv
<1>1. ASSUME NEW w \in Workloads, NEW p \in PolicyChoices, UpsertPolicy(w, p) PROVE IInv'
  BY <1>0, <1>1, StoreInv DEF UpsertPolicy, TypeOK
<1>2. ASSUME NEW w \in Workloads, NEW o \in LoadChoices, IngestWorkload(w, o) PROVE IInv'
  BY <1>0, <1>2, StoreInv DEF IngestWorkload, TypeOK
<1>3. ASSUME NEW g \in Groups, NEW o \in GroupChoices, IngestGroup(g, o) PROVE IInv'
  BY <1>0, <1>3, StoreInv DEF IngestGroup, TypeOK
<1>4. CASE UNCHANGED vars
  BY <1>0, <1>4, StoreInv DEF vars, stored, TypeOK
<1>. QED BY <1>1, <1>2, <1>3, <1>4, FastLoopInv, SlowLoopInv, TickInv DEF Next

LEMMA Invariance == Spec => []IInv
<1>1. Init => IInv
  BY InitInv
<1>2. IInv /\ [Next]_vars => IInv'
  BY NextInv
<1>. QED BY <1>1, <1>2, PTL DEF Spec

\* Tables keep rows of their kind; every target is a u32, every placement a group
\* that there is.
THEOREM TypeCorrect == Spec => []TypeOK
<1>1. IInv => TypeOK
  BY DEF IInv
<1>. QED BY <1>1, Invariance, PTL

\* For any windows and cooldowns: where no cooldown is shorter than the fast
\* window, the key of a row is never taken by an older one.
THEOREM NewestIsIntended == Spec => []NewestMatchesIntent
<1>1. IInv => NewestMatchesIntent
  BY DEF IInv
<1>. QED BY <1>1, Invariance, PTL

\* However often the slow loop runs, it asks once per group, direction and window.
THEOREM ScalesOnce == Spec => []ScaledOncePerWindow
<1>1. IInv => ScaledOncePerWindow
  <2>1. \A n \in {0, 1} : n <= 1
    OBVIOUS
  <2>2. ScaledInv => \A g \in Groups, d \in Directions : scaled[g][d] \in {0, 1}
    BY DEF ScaledInv
  <2>. QED BY <2>1, <2>2 DEF IInv, ScaledOncePerWindow
<1>. QED BY <1>1, Invariance, PTL

\* For any groups and pressures, a hot workload is sent where it is no hotter.
THEOREM SentAway == Spec => []AwayFromHeat
<1>1. IInv => AwayFromHeat
  BY Away DEF IInv
<1>. QED BY <1>1, Invariance, PTL

\* The target always fits its column and stays within the absolute limit.
THEOREM TargetSafe == Spec => []TargetWithinLimit
<1>1. TypeOK => TargetWithinLimit
  <2>. SUFFICES ASSUME TypeOK, NEW w \in Observed, NEW up \in BOOLEAN
                PROVE  Intended(w, up).target \in
                         U32 \cap (1 .. Greatest(1, policy[w].absoluteLimit))
    BY DEF TargetWithinLimit
  <2>. QED BY TargetValue, WantedBounds, Columns, SizeAssumption DEF Greatest, U32
<1>. QED BY <1>1, TypeCorrect, PTL

\* The pool sizes are ordered and no larger than the target.
THEOREM PoolsSafe == Spec => []PoolsOrdered
<1>1. TypeOK => PoolsOrdered
  <2>. HIDE DEF PoolSize
  <2>. SUFFICES ASSUME TypeOK, NEW w \in Observed, NEW up \in BOOLEAN
                PROVE  LET size(percent) == PoolSize(Wanted(w, up), percent) IN
                       /\ 0 <= size(10) /\ size(10) <= size(20) /\ size(20) <= size(30)
                       /\ size(30) <= Intended(w, up).target
    BY DEF PoolsOrdered
  <2>1. Wanted(w, up) \in Nat
    BY WantedBounds
  <2>2. PoolSize(Wanted(w, up), 10) \in Nat
    BY <2>1, PoolSizeBounds
  <2>. QED BY <2>1, <2>2, TargetValue, PoolSizeBounds
<1>. QED BY <1>1, TypeCorrect, PTL

\* Without overflow, the quota bounds the target.
THEOREM QuotaSafe == Spec => []QuotaRespected
<1>1. TypeOK => QuotaRespected
  <2>. SUFFICES ASSUME TypeOK, NEW w \in Observed, NEW up \in BOOLEAN, Fits(policy[w])
                PROVE  Intended(w, up).target <=
                         Greatest(1, Quota(policy[w]) +
                                     IF load[w].violated THEN policy[w].softBurst ELSE 0)
    BY DEF QuotaRespected
  <2>1. Quota(policy[w]) \in Nat
    BY Columns DEF Quota
  <2>. QED BY <2>1, TargetValue, WantedBounds, Columns DEF Greatest
<1>. QED BY <1>1, TypeCorrect, PTL

\* Without overflow, max_concurrency is a floor.
THEOREM FloorSafe == Spec => []FloorKept
<1>1. TypeOK => FloorKept
  <2>. SUFFICES ASSUME TypeOK, NEW w \in Observed, NEW up \in BOOLEAN, Fits(policy[w]),
                       policy[w].maxConcurrency <=
                         Least(Quota(policy[w]), policy[w].absoluteLimit)
                PROVE  Intended(w, up).target >= policy[w].maxConcurrency
    BY DEF FloorKept
  <2>. QED BY TargetValue, WantedBounds, Columns
<1>. QED BY <1>1, TypeCorrect, PTL

\* Burst memory stays between 64 MB and twice the policy's.
THEOREM BurstMemorySafe == Spec => []BurstMemoryBounded
<1>1. TypeOK => BurstMemoryBounded
  <2>. SUFFICES ASSUME TypeOK, NEW w \in Observed, NEW down \in BOOLEAN
                PROVE  BurstMemory(policy[w], load[w].violated, down) \in
                         64 .. Greatest(64, 2 * policy[w].burstMem)
    BY DEF BurstMemoryBounded
  <2>. DEFINE m == policy[w].burstMem
              v == IF ~load[w].violated THEN m
                   ELSE IF down /\ m * 115 > 0 /\ (m * 115) % 100 = 0
                     THEN (m * 115) \div 100 - 1
                   ELSE (m * 115) \div 100
  <2>1. m \in Nat /\ m <= U32Size - 1
    BY Columns, SizeAssumption
  <2>. HIDE DEF m
  <2>2. m * 115 \in Nat /\ (m * 115) \div 100 \in Nat
        /\ 100 * ((m * 115) \div 100) <= m * 115
    BY <2>1
  <2>3. v \in Int /\ v <= 2 * m
    BY <2>1, <2>2
  <2>. HIDE DEF v
  <2>4. ClampU32(v, 64, Least(2 * m, U32Size - 1)) \in 64 .. Greatest(64, 2 * m)
    BY <2>1, <2>3, SizeAssumption DEF ClampU32, Least, Greatest
  <2>. QED BY <2>4 DEF BurstMemory, m, v
<1>. QED BY <1>1, TypeCorrect, PTL
=============================================================================
