------------------------- MODULE ConvergenceProofs -------------------------
(***************************************************************************)
(* The fast loop and the dispatcher together, for any number of rows and    *)
(* restarts, any sizes, windows, cooldowns, ttls and batches.               *)
(***************************************************************************)
EXTENDS Convergence, DispatchProofs, FiniteSetTheorems, WellFoundedInduction

-----------------------------------------------------------------------------
(* Every step is a step of Dispatch, and never a posted result *)

DispatchInv == IInv /\ OwnInv /\ InFlight /\ OrderInv /\ posted = {}

\* The dispatcher's steps are those that Dispatch has for it.
LEMMA WorkIsNext ==
  ASSUME Work
  PROVE  Next /\ UNCHANGED posted
<1>1. ASSUME NEW a \in Actions, Step(a) PROVE UNCHANGED posted
  BY <1>1 DEF Step, Expire, Poll, Send, Abort, Record
<1>2. ASSUME NEW a \in Actions, Answers(a) PROVE UNCHANGED posted
  BY <1>2 DEF Answers, Execute, Refuse, AnswerPoll, LoseBody, Fault
<1>3. UNCHANGED posted
  BY <1>1, <1>2 DEF Work, Progress, StartCycle, Crash
<1>4. Next
  BY DEF Work, Next
<1>. QED BY <1>3, <1>4

\* A step of the two together is one of Dispatch: the fast loop enqueues a row that is
\* not there, the clock ticks, or nothing happens to the table.
LEMMA DispatchSteps ==
  ASSUME [ConvergenceNext]_allVars, NextRow \in Unused \/ Unused = {}
  PROVE  [Next]_vars /\ UNCHANGED posted
<1>1. ASSUME NEW s \in Sizes, Ask(s) PROVE UNCHANGED vars
  BY <1>1 DEF Ask
<1>2. CASE FastLoop
  <2>1. CASE want \in keys
    BY <1>2, <2>1 DEF FastLoop, vars
  <2>2. CASE want \notin keys
    BY <1>2, <2>2 DEF FastLoop, Enqueue, Unused, Next
  <2>. QED BY <2>1, <2>2
<1>3. CASE Clock
  BY <1>3 DEF Clock, Tick, Next, vars
<1>4. CASE DispatchStep(Work)
  BY <1>4, WorkIsNext DEF DispatchStep
<1>5. CASE UNCHANGED allVars
  BY <1>5 DEF allVars, vars
<1>. QED BY <1>1, <1>2, <1>3, <1>4, <1>5 DEF ConvergenceNext, vars

\* What holds of Dispatch without posted results is kept.
LEMMA DispatchKept ==
  ASSUME DispatchInv, [Next]_vars, UNCHANGED posted
  PROVE  DispatchInv'
<1>1. BackoffCap # 0
  BY RowsAssumption
<1>. QED BY <1>1, NextInv, OwnNext, InFlightNext, OrderNext DEF DispatchInv

-----------------------------------------------------------------------------
(* The numbers of the rows *)

\* Of some natural numbers one is the least.
LEMMA LeastNumber ==
  ASSUME NEW S \in SUBSET Nat, S # {}
  PROVE  \E m \in S : \A n \in S : m <= n
<1>. PICK k \in S : TRUE
  OBVIOUS
<1>. DEFINE D == {n \in S : n <= k}
            Below(n) == {j \in D : j < n}
            T == {Below(n) : n \in D}
            R == StrictSubsetOrdering(D)
<1>0. IsFiniteSet(D) /\ k \in D /\ D \in SUBSET Nat
  <2>1. \A n \in S : n \in Nat
    OBVIOUS
  <2>2. k \in Nat
    BY <2>1
  <2>3. D \in SUBSET (0 .. k)
    <3>1. ASSUME NEW n \in S, n <= k PROVE n \in 0 .. k
      BY <2>1, <2>2, <3>1
    <3>. QED BY <3>1
  <2>4. IsFiniteSet(0 .. k)
    BY <2>2, FS_Interval
  <2>5. k \in D
    BY <2>2
  <2>. HIDE DEF D
  <2>6. IsFiniteSet(D)
    BY <2>3, <2>4, FS_Subset
  <2>. QED BY <2>2, <2>3, <2>5, <2>6
<1>1. IsWellFoundedOn(R, FiniteSubsetsOf(D))
  BY FS_StrictSubsetOrderingWellFounded
<1>2. T \subseteq FiniteSubsetsOf(D) /\ T # {}
  <2>1. \A n \in D : Below(n) \in SUBSET D
    OBVIOUS
  <2>2. FiniteSubsetsOf(D) = SUBSET D
    BY <1>0, FS_FiniteSubsetsOfFinite
  <2>3. T \subseteq SUBSET D /\ T # {}
    <3>. HIDE DEF Below
    <3>. QED BY <1>0, <2>1
  <2>. HIDE DEF T
  <2>. QED BY <2>2, <2>3
<1>. HIDE DEF R, T
<1>3. \E x \in T : \A y \in T : <<y, x>> \notin R
  BY <1>1, <1>2, WFMin
<1>4. PICK m \in D : \A y \in T : <<y, Below(m)>> \notin R
  BY <1>3 DEF T
<1>5. ASSUME NEW n \in D, n < m PROVE FALSE
  <2>1. Below(n) \subseteq Below(m)
    BY <1>0, <1>5
  <2>2. n \in Below(m) /\ n \notin Below(n)
    BY <1>0, <1>5
  <2>3. <<Below(n), Below(m)>> \in R
    <3>1. Below(n) \in SUBSET D /\ Below(m) \in SUBSET D /\ Below(n) # Below(m)
      BY <2>2
    <3>. HIDE DEF Below
    <3>. QED BY <2>1, <3>1 DEF R, StrictSubsetOrdering
  <2>. QED BY <1>4, <2>3 DEF T
<1>6. ASSUME NEW n \in S PROVE m <= n
  <2>1. m \in Nat /\ n \in Nat /\ k \in Nat /\ m <= k
    BY <1>0
  <2>2. n \in D => ~(n < m)
    BY <1>5
  <2>. QED BY <2>1, <2>2
<1>. QED BY <1>0, <1>6

\* The next row is the first of those that are not used.
LEMMA NextIsLeast ==
  ASSUME Unused # {}
  PROVE  /\ NextRow \in Unused /\ NextRow \in Actions
         /\ \A b \in Unused : NextRow <= b
<1>1. Unused \in SUBSET Nat
  BY RowsAssumption DEF Unused
<1>2. \E m \in Unused : \A n \in Unused : m <= n
  BY <1>1, LeastNumber
<1>. QED BY <1>2 DEF NextRow, Unused

\* So every step of the two together is one of Dispatch.
LEMMA StepsOfDispatch ==
  ASSUME [ConvergenceNext]_allVars
  PROVE  [Next]_vars /\ UNCHANGED posted
BY NextIsLeast, DispatchSteps

\* Dispatch never notices that a fast loop feeds it: all that is proved of it
\* holds of the two together.
THEOREM Composition == ConvergenceSpec => SafeSpec
<1>1. ConvergenceInit => Init
  BY DEF ConvergenceInit
<1>2. [ConvergenceNext]_allVars => [Next]_vars
  BY StepsOfDispatch
<1>. QED BY <1>1, <1>2, PTL DEF ConvergenceSpec, SafeSpec

\* The invariants of Dispatch hold at first.
LEMMA DispatchFirst == ConvergenceInit => DispatchInv
<1>1. ConvergenceInit => Init /\ posted = {}
  BY DEF ConvergenceInit, Init
<1>. QED BY <1>1, InitInv, InitOwn, InitOrder DEF DispatchInv

-----------------------------------------------------------------------------
(* What the steps do to the rows *)

\* The answer to a later request is never taken for one to a first request.
LEMMA AfterCallLate ==
  ASSUME NEW a \in Actions, NEW r \in Rows, NEW s \in Snapshots,
         s.op = r.op, s.attempt = r.attempt,
         NEW ans \in OkAnswers \cup ErrAnswers,
         r.attempt > 0, r.attempt # 1 \/ r.op = "none"
  PROVE  LET new == AfterCall(a, r, s, ans) IN new.attempt # 1 \/ new.op = "none"
<1>1. /\ Bumped(s.attempt) \in 0 .. BackoffCap /\ Bumped(s.attempt) # 1
      /\ Bumped(r.attempt) \in 0 .. BackoffCap /\ Bumped(r.attempt) # 1
  BY RowsAssumption, TimeAssumption DEF Bumped, MinOf, Snapshots, Rows
<1>2. Backoff(Bumped(s.attempt)) \in Nat /\ PressureDelay \in Nat
  BY <1>1, BackoffType, TimeAssumption
<1>3. \A q \in Rows, t \in Terminal :
        MarkTerminal(q, t).attempt = q.attempt /\ MarkTerminal(q, t).op = q.op
  BY DEF MarkTerminal, Rows
<1>4. \A n \in 0 .. BackoffCap, d \in Nat : ScheduleRetry(r, n, d).attempt = n
  BY DEF ScheduleRetry, Rows
<1>5. "failed" \in Terminal
  BY DEF Terminal, Failures
<1>6. CASE Polls(s) /\ ans \in ErrAnswers
  BY <1>1, <1>2, <1>4, <1>6 DEF AfterCall, AfterPoll, ErrAnswers
<1>7. CASE Polls(s) /\ ans \in OkAnswers
  <2>1. AfterCall(a, r, s, ans).attempt = r.attempt /\ AfterCall(a, r, s, ans).op = r.op
    BY <1>3, <1>7 DEF AfterCall, AfterPoll, OkAnswers, Rows
  <2>. QED BY <2>1
<1>8. CASE ~Polls(s) /\ ans \in OkAnswers
  <2>. DEFINE sent == [r EXCEPT !.op = ans.op, !.attempt = Bumped(@), !.wait = 0]
  <2>1. sent \in Rows /\ sent.attempt # 1
    BY <1>1, <1>8 DEF Rows, OkAnswers, OpIds
  <2>2. AfterCall(a, r, s, ans) = IF ans.status \in Terminal
                                    THEN MarkTerminal(sent, ans.status)
                                    ELSE [sent EXCEPT !.status = ans.status]
    BY <1>8 DEF AfterCall, AfterAccept, OkAnswers
  <2>. HIDE DEF sent
  <2>3. [sent EXCEPT !.status = ans.status].attempt = sent.attempt
    BY <2>1 DEF Rows
  <2>. QED BY <1>3, <2>1, <2>2, <2>3
<1>9. CASE ~Polls(s) /\ ans \in ErrAnswers
  <2>1. PICK d \in Nat : AfterCall(a, r, s, ans) \in
          {MarkTerminal(r, "failed"), ScheduleRetry(r, Bumped(s.attempt), d)}
    BY <1>2, <1>9 DEF AfterCall, AfterRefusal, ErrAnswers
  <2>. QED BY <1>1, <1>3, <1>4, <1>5, <2>1
<1>. QED BY <1>6, <1>7, <1>8, <1>9

\* A row that was tried, and not by a first request that was accepted.
Late(a) == Tried(row[a]) /\ ~AtFirst(a)

\* The dispatcher neither makes nor ages rows; it does not forget that it tried one,
\* nor that it had to try it again.
LEMMA WorkRows ==
  ASSUME DispatchInv, Work, NEW a \in Actions
  PROVE  /\ row'[a].age = row[a].age
         /\ row'[a].status = "absent" <=> row[a].status = "absent"
         /\ Tried(row[a]) => Tried(row[a])'
         /\ Late(a) => Late(a)'
<1>0. IInv /\ OwnInv /\ OrderInv /\ BackoffCap # 0
  BY RowsAssumption DEF DispatchInv
<1>1. CASE UNCHANGED row
  BY <1>1 DEF Late, AtFirst
<1>2. ASSUME NEW c \in Actions, Expire(c)
      PROVE  /\ row'[a].age = row[a].age
             /\ row'[a].status = "absent" <=> row[a].status = "absent"
             /\ Tried(row[a]) => Tried(row[a])'
             /\ Late(a) => Late(a)'
  <2>1. Settled(c) /\ Others(c) /\ row'[c].status = "failed"
    BY <1>0, <1>2, ExpireEffect
  <2>2. row'[c].age = row[c].age /\ row'[c].op = row[c].op /\ row'[c].attempt = row[c].attempt
    BY <1>0, <1>2 DEF Expire, MarkTerminal, IInv, TypeOK, Rows
  <2>. QED BY <2>1, <2>2
       DEF Settled, Others, Candidates, NonTerminal, Tried, Terminal, Failures, Late, AtFirst
<1>3. ASSUME NEW c \in Actions, Record(c)
      PROVE  /\ row'[a].age = row[a].age
             /\ row'[a].status = "absent" <=> row[a].status = "absent"
             /\ Tried(row[a]) => Tried(row[a])'
             /\ Late(a) => Late(a)'
  <2>1. Settled(c) /\ Others(c)
    BY <1>0, <1>3, RecordEffect
  <2>2. row[c].status \in Candidates /\ snap[c] = SnapOf(row[c])
    BY <1>0, <1>3, VisitedIsCandidate DEF DispatchInv, Record, IInv, TypeOK
  <2>3. /\ snap[c].op = row[c].op /\ snap[c].attempt = row[c].attempt
        /\ row[c] \in Rows /\ snap[c] \in Snapshots /\ answer \in OkAnswers \cup ErrAnswers
        /\ row[c].op # "none" => row[c].attempt > 0
        /\ row'[c] = AfterCall(c, row[c], snap[c], answer)
    BY <1>0, <1>3, <2>2 DEF SnapOf, Record, IInv, TypeOK, OrderInv, Counted
  <2>4. Tried(row'[c]) /\ row'[c].age = row[c].age
    BY <1>0, <2>3, AfterCallTried
  <2>5. Late(c) => row[c].attempt > 0 /\ (row[c].attempt # 1 \/ row[c].op = "none")
    BY <2>2 DEF Late, Tried, AtFirst, Candidates, NonTerminal, Terminal, Failures, Success
  <2>6. Late(c) => row'[c].attempt # 1 \/ row'[c].op = "none"
    BY <2>3, <2>5, AfterCallLate
  <2>7. CASE a = c
    BY <2>1, <2>4, <2>6, <2>7 DEF Settled, Candidates, NonTerminal, Late, AtFirst
  <2>8. CASE a # c
    BY <2>1, <2>8 DEF Others, Late, AtFirst
  <2>. QED BY <2>7, <2>8
<1>4. ASSUME NEW c \in Actions, Poll(c) \/ Send(c) \/ Abort(c) \/ Answers(c) \/ Progress(c)
      PROVE  UNCHANGED row
  BY <1>4 DEF Poll, Send, Abort, Answers, Execute, Refuse, AnswerPoll, LoseBody, Fault,
              Progress, table
<1>5. CASE StartCycle \/ Crash
  BY <1>1, <1>5 DEF StartCycle, Crash, table
<1>. QED BY <1>1, <1>2, <1>3, <1>4, <1>5 DEF Work, Step

\* A row is sent by Send alone.
LEMMA WorkSent ==
  ASSUME DispatchInv, Work, NEW b \in Actions, Sent(b)'
  PROVE  Sent(b) \/ Send(b)
<1>0. IInv
  BY DEF DispatchInv
<1>1. ASSUME NEW a \in Actions, Answers(a) PROVE Sent(b)
  <2>1. ASSUME NEW k, Execute(a, k) PROVE Sent(b)
    <3>1. k = a
      BY <1>0, <2>1, ExecuteRuntime
    <3>. QED BY <2>1, <3>1 DEF Execute, Sent
  <2>. QED BY <1>1, <2>1 DEF Answers, Refuse, AnswerPoll, LoseBody, Fault, runtime, Sent
<1>2. ASSUME NEW a \in Actions, Send(a) PROVE Sent(b) \/ Send(b)
  BY <1>2 DEF Send, RequestKey, Sent
<1>3. ASSUME NEW a \in Actions, Step(a), ~Send(a) PROVE Sent(b)
  BY <1>3 DEF Step, Expire, Poll, Abort, Record, runtime, Sent
<1>4. ASSUME NEW a \in Actions, Progress(a) PROVE Sent(b)
  BY <1>4 DEF Progress, Sent
<1>5. CASE StartCycle \/ Crash
  BY <1>5 DEF StartCycle, Crash, runtime, Sent
<1>. QED BY <1>1, <1>2, <1>3, <1>4, <1>5 DEF Work

\* The runtime executes one key at a time, of a request on its way.
LEMMA WorkSeen ==
  ASSUME DispatchInv, Work
  PROVE  \/ seen' = seen
         \/ \E a \in Actions \ seen : /\ seen' = seen \cup {a} /\ UNCHANGED row
                                      /\ Sent(a) /\ row[a].op = "none"
<1>0. IInv
  BY DEF DispatchInv
<1>1. ASSUME NEW a \in Actions, NEW k, Execute(a, k), seen' # seen
      PROVE  /\ a \notin seen /\ seen' = seen \cup {a} /\ UNCHANGED row
             /\ Sent(a) /\ row[a].op = "none"
  <2>1. k = a
    BY <1>0, <1>1, ExecuteRuntime
  <2>. QED BY <1>0, <1>1, <2>1 DEF Execute, Sent, table, IInv, KeyInv
<1>2. ASSUME NEW a \in Actions, Answers(a) PROVE seen' = seen \/ \E k : Execute(a, k)
  BY <1>2 DEF Answers, Refuse, AnswerPoll, LoseBody, Fault, runtime
<1>3. ASSUME NEW a \in Actions, Step(a) \/ Progress(a) PROVE seen' = seen
  BY <1>3 DEF Step, Expire, Poll, Send, Abort, Record, Progress, runtime
<1>4. CASE StartCycle \/ Crash
  BY <1>4 DEF StartCycle, Crash, runtime
<1>. QED BY <1>1, <1>2, <1>3, <1>4 DEF Work

-----------------------------------------------------------------------------
(* The fast loop's side: rows are numbered as they are made, and say what the *)
(* intent says                                                               *)

PlanType ==
  /\ want \in Sizes \cup {None}
  /\ cooldown \in Cooldowns
  /\ intent \in Sizes \cup {None}
  /\ since \in 0 .. MaxCooldown
  /\ phase \in 0 .. (FastWindow - 1)
  /\ payload \in [Actions -> Sizes \cup {None}]

Numbered ==
  /\ \A a \in Enqueued, b \in Unused : a < b
  /\ Enqueued # {} => \E a \in Enqueued : \A b \in Enqueued : b <= a

\* A key of this window was made when the intent was stored, or before, in which
\* case the intent is younger still; and each of them is that of a row.
PlanInv ==
  /\ \A a \in Actions : payload[a] = None <=> a \in Unused
  /\ intent = None <=> Enqueued = {}
  /\ keys # {} => intent # None /\ since <= phase
  /\ \A s \in keys : \E a \in Enqueued : payload[a] = s
  /\ cooldown >= FastWindow =>
       \A a \in Enqueued : (\A b \in Enqueued : b <= a) => payload[a] = intent

IntentInv == PlanType /\ Numbered /\ PlanInv

\* The newest row has the greatest number.
LEMMA NewestIsLast ==
  ASSUME Numbered, Enqueued # {}
  PROVE  Newest \in Enqueued /\ \A b \in Enqueued : b <= Newest
BY DEF Numbered, Newest

\* Where the cooldown is not shorter than the window no insert is swallowed.
LEMMA NoneSwallowed ==
  ASSUME IntentInv, cooldown >= FastWindow, FastLoop
  PROVE  want \notin keys
<1>1. CASE keys = {}
  BY <1>1
<1>2. CASE keys # {}
  <2>1. /\ intent # None /\ since <= phase /\ since >= cooldown
        /\ since \in Int /\ phase \in Int /\ phase < FastWindow
        /\ cooldown \in Int /\ FastWindow \in Int
    BY <1>2, PlanAssumption DEF IntentInv, PlanInv, PlanType, FastLoop, Changes
  <2>. QED BY <2>1
<1>. QED BY <1>1, <1>2

\* What FastLoop does where it makes a row ...
LEMMA RowMade ==
  ASSUME DispatchInv, IntentInv, FastLoop, want \notin keys
  PROVE  LET n == NextRow IN
         /\ n \in Unused /\ n \in Actions /\ Unused' = Unused \ {n}
         /\ Enqueued' = Enqueued \cup {n} /\ \A a \in Enqueued : a < n
         /\ payload' = [payload EXCEPT ![n] = want]
         /\ \A a \in Actions \ {n} : row'[a] = row[a]
         /\ row[n].age = 0 /\ row'[n].age = 0
         /\ ~Sent(n) /\ \A a \in Actions : Sent(a)' <=> Sent(a)
         /\ UNCHANGED <<seen, last, cooldown, want, phase>>
<1>. DEFINE n == NextRow
<1>1. /\ Unused # {} /\ Enqueue(n) /\ payload' = [payload EXCEPT ![n] = want]
      /\ UNCHANGED <<last, cooldown, want, phase>>
  BY DEF FastLoop
<1>2. n \in Unused /\ n \in Actions
  BY <1>1, NextIsLeast
<1>. HIDE DEF n
<1>3. row \in [Actions -> Rows] /\ row' = [row EXCEPT ![n].status = "pending"]
  BY <1>1 DEF DispatchInv, IInv, TypeOK, Enqueue
<1>4. /\ \A a \in Actions \ {n} : row'[a] = row[a]
      /\ row'[n].status = "pending" /\ row'[n].age = row[n].age
  BY <1>2, <1>3 DEF Rows
<1>5. Unused' = Unused \ {n} /\ Enqueued' = Enqueued \cup {n}
  BY <1>2, <1>4 DEF Unused, Enqueued
<1>6. \A a \in Enqueued : a < n
  BY <1>2 DEF IntentInv, Numbered
<1>7. row[n].age = 0 /\ ~Sent(n)
  BY <1>2 DEF DispatchInv, OrderInv, Counted, Unused
<1>8. UNCHANGED seen /\ \A a \in Actions : Sent(a)' <=> Sent(a)
  BY <1>1 DEF Enqueue, runtime, Sent
<1>. QED BY <1>1, <1>2, <1>4, <1>5, <1>6, <1>7, <1>8 DEF n

\* ... and what a second does.
LEMMA ClockRows ==
  ASSUME DispatchInv, Clock
  PROVE  /\ UNCHANGED <<want, cooldown, intent, payload, last, seen, Unused, Enqueued>>
         /\ \A a \in Actions :
              /\ Sent(a)' <=> Sent(a)
              /\ Tried(row[a])' <=> Tried(row[a])
              /\ Late(a)' <=> Late(a)
              /\ row'[a].age = IF a \in Unused THEN row[a].age ELSE MinOf(row[a].age + 1, MaxAge)
<1>1. /\ UNCHANGED <<want, cooldown, intent, payload, last, seen>>
      /\ \A a \in Actions : Sent(a)' <=> Sent(a)
  BY DEF Clock, Tick, vars, runtime, Sent
<1>2. /\ row \in [Actions -> Rows] /\ MaxAge \in Nat
      /\ \A a \in Actions : row[a].age \in 0 .. MaxAge
  BY TimeAssumption DEF DispatchInv, IInv, TypeOK, Rows
<1>3. ASSUME NEW a \in Actions
      PROVE  /\ row'[a].status = row[a].status /\ row'[a].attempt = row[a].attempt
             /\ row'[a].op = row[a].op
             /\ row'[a].age = IF a \in Unused THEN row[a].age ELSE MinOf(row[a].age + 1, MaxAge)
  <2>1. CASE Ageing
    <3>1. row'[a] = IF row[a].status = "absent" THEN row[a]
                    ELSE [row[a] EXCEPT !.age  = MinOf(@ + 1, MaxAge),
                                        !.wait = IF @ = 0 THEN 0 ELSE @ - 1]
      BY <2>1 DEF Clock, Tick
    <3>2. row[a] \in Rows
      BY <1>2
    <3>. QED BY <3>1, <3>2 DEF Rows, Unused
  <2>2. CASE ~Ageing
    <3>1. row' = row
      BY <2>2 DEF Clock, vars, table
    <3>2. a \notin Unused => row[a].age = MaxAge
      BY <1>2, <2>2 DEF Ageing, Unused
    <3>. QED BY <1>2, <3>1, <3>2 DEF MinOf
  <2>. QED BY <2>1, <2>2
<1>4. UNCHANGED <<Unused, Enqueued>>
  BY <1>3 DEF Unused, Enqueued
<1>5. \A a \in Actions : (Tried(row[a])' <=> Tried(row[a])) /\ (Late(a)' <=> Late(a))
  BY <1>3 DEF Tried, Late, AtFirst
<1>. QED BY <1>1, <1>3, <1>4, <1>5

\* The dispatcher leaves all this alone.
LEMMA DispatchPlan ==
  ASSUME DispatchInv, DispatchStep(Work)
  PROVE  UNCHANGED <<want, cooldown, intent, since, keys, phase, payload, Unused, Enqueued>>
<1>1. Work /\ UNCHANGED <<want, cooldown, plan, phase>>
  BY DEF DispatchStep
<1>2. Unused' = Unused
  BY <1>1, WorkRows DEF Unused
<1>. QED BY <1>1, <1>2 DEF plan, Enqueued

LEMMA IntentInit == ConvergenceInit => IntentInv
<1>. SUFFICES ASSUME ConvergenceInit PROVE IntentInv
  OBVIOUS
<1>1. Unused = Actions /\ Enqueued = {}
  BY DEF ConvergenceInit, Init, Absent, Unused, Enqueued
<1>2. PlanType
  BY PlanAssumption DEF ConvergenceInit, PlanType
<1>. QED BY <1>1, <1>2 DEF ConvergenceInit, IntentInv, Numbered, PlanInv

LEMMA IntentNext ==
  ASSUME DispatchInv, IntentInv, [ConvergenceNext]_allVars
  PROVE  IntentInv'
<1>1. ASSUME UNCHANGED <<cooldown, plan, phase, Unused, Enqueued>>, want' \in Sizes \cup {None}
      PROVE  IntentInv'
  BY <1>1 DEF IntentInv, PlanType, Numbered, PlanInv, plan
<1>2. CASE UNCHANGED <<vars, cooldown, plan, phase>> /\ want' \in Sizes \cup {None}
  BY <1>1, <1>2 DEF vars, table, Unused, Enqueued
<1>3. CASE FastLoop /\ want \in keys
  <2>1. /\ intent' = want /\ want \in Sizes /\ since' = 0 /\ keys' = keys
        /\ UNCHANGED <<vars, payload, want, cooldown, phase, Unused, Enqueued>>
    BY <1>3 DEF FastLoop, IntentInv, PlanType, vars, table, Unused, Enqueued
  <2>2. ~(cooldown >= FastWindow)
    BY <1>3, NoneSwallowed
  <2>3. intent # None /\ intent' # None
    BY <1>3, <2>1, PlanAssumption DEF IntentInv, PlanInv
  <2>4. 0 <= phase
    BY PlanAssumption DEF IntentInv, PlanType
  <2>5. PlanType'
    BY <2>1, PlanAssumption DEF IntentInv, PlanType
  <2>. QED BY <2>1, <2>2, <2>3, <2>4, <2>5 DEF IntentInv, Numbered, PlanInv
<1>4. CASE FastLoop /\ want \notin keys
  <2>. DEFINE n == NextRow
  <2>1. /\ n \in Unused /\ n \in Actions /\ Unused' = Unused \ {n}
        /\ Enqueued' = Enqueued \cup {n} /\ \A a \in Enqueued : a < n
        /\ payload' = [payload EXCEPT ![n] = want]
        /\ UNCHANGED <<cooldown, want, phase>>
    BY <1>4, RowMade
  <2>2. want \in Sizes /\ intent' = want /\ since' = 0 /\ want # None
    BY <1>4 DEF FastLoop, IntentInv, PlanType
  <2>. HIDE DEF n
  <2>3. Actions \in SUBSET Nat /\ Enqueued \in SUBSET Actions /\ Unused \in SUBSET Actions
    BY RowsAssumption DEF Enqueued, Unused
  <2>4. PlanType'
    BY <2>1, <2>2, PlanAssumption DEF IntentInv, PlanType
  <2>5. n \in Enqueued' /\ \A b \in Enqueued' : b <= n /\ (n <= b => b = n)
    BY <2>1, <2>3
  <2>6. Numbered'
    <3>1. \A a \in Enqueued', b \in Unused' : a < b
      <4>1. n \in Nat /\ \A b \in Unused' : b \in Nat /\ n <= b /\ b # n
        BY <1>4, <2>1, <2>3, NextIsLeast DEF n
      <4>. QED BY <2>1, <4>1 DEF IntentInv, Numbered
    <3>. QED BY <2>5, <3>1 DEF Numbered
  <2>7. \A a \in Actions : payload'[a] = None <=> a \in Unused'
    BY <2>1, <2>2 DEF IntentInv, PlanInv, PlanType
  <2>8. \A a \in Enqueued' : (\A b \in Enqueued' : b <= a) => payload'[a] = intent'
    BY <2>1, <2>2, <2>5 DEF IntentInv, PlanType
  <2>9. 0 <= phase
    BY PlanAssumption DEF IntentInv, PlanType
  <2>10. PlanInv'
    <3>1. keys' = keys \cup {want} /\ n \in Enqueued' /\ payload'[n] = want
      BY <1>4, <2>1 DEF FastLoop, IntentInv, PlanType
    <3>2. ASSUME NEW a \in Enqueued PROVE a \in Enqueued' /\ payload'[a] = payload[a]
      BY <2>1, <2>3, <3>2 DEF IntentInv, PlanType, Enqueued
    <3>3. \A s \in keys' : \E a \in Enqueued' : payload'[a] = s
      BY <3>1, <3>2 DEF IntentInv, PlanInv
    <3>. QED BY <2>1, <2>2, <2>5, <2>7, <2>8, <2>9, <3>3 DEF PlanInv
  <2>. QED BY <2>4, <2>6, <2>10 DEF IntentInv
<1>5. CASE Clock
  <2>. DEFINE next == (phase + 1) % FastWindow
  <2>1. UNCHANGED <<want, cooldown, intent, payload, Unused, Enqueued>>
    BY <1>5, ClockRows
  <2>2. /\ phase' = next /\ keys' = IF next = 0 THEN {} ELSE keys
        /\ since' = IF intent = None THEN 0 ELSE MinOf(since + 1, MaxCooldown)
    BY <1>5 DEF Clock, KeysAt
  <2>3. /\ next \in 0 .. (FastWindow - 1)
        /\ next # 0 => next = phase + 1
    <3>1. FastWindow \in Nat \ {0} /\ phase \in 0 .. (FastWindow - 1)
      BY PlanAssumption DEF IntentInv, PlanType
    <3>2. CASE phase + 1 < FastWindow
      BY <3>1, <3>2
    <3>3. CASE phase + 1 = FastWindow
      <4>1. next = FastWindow % FastWindow
        BY <3>3
      <4>2. FastWindow % FastWindow = 0
        BY <3>1
      <4>. QED BY <3>1, <4>1, <4>2
    <3>. QED BY <3>1, <3>2, <3>3
  <2>. HIDE DEF next
  <2>4. since' \in 0 .. MaxCooldown /\ since' <= since + 1
    BY <2>2, PlanAssumption DEF IntentInv, PlanType, MinOf
  <2>5. PlanType'
    BY <2>1, <2>2, <2>3, <2>4 DEF IntentInv, PlanType
  <2>6. keys' # {} => intent' # None /\ since' <= phase'
    <3>1. keys' # {} => next = phase + 1 /\ intent # None /\ since <= phase
      BY <2>2, <2>3 DEF IntentInv, PlanInv
    <3>2. since \in Int /\ phase \in Int /\ since' \in Int
      BY <2>4 DEF IntentInv, PlanType
    <3>. QED BY <2>1, <2>2, <2>4, <3>1, <3>2
  <2>7. keys' \in SUBSET keys
    BY <2>2
  <2>. QED BY <2>1, <2>5, <2>6, <2>7 DEF IntentInv, Numbered, PlanInv
<1>6. CASE DispatchStep(Work)
  BY <1>1, <1>6, DispatchPlan DEF IntentInv, PlanType, plan
<1>7. ASSUME NEW s \in Sizes, Ask(s)
      PROVE  UNCHANGED <<vars, cooldown, plan, phase>> /\ want' \in Sizes \cup {None}
  BY <1>7 DEF Ask
<1>8. CASE UNCHANGED allVars
  BY <1>2, <1>8 DEF allVars, IntentInv, PlanType
<1>. QED BY <1>2, <1>3, <1>4, <1>5, <1>6, <1>7, <1>8 DEF ConvergenceNext

-----------------------------------------------------------------------------
(* The dispatcher's side: with a cooldown, rows are of different ages, and are *)
(* sent in the order of their numbers until one has to be sent again          *)

\* Rows of the same age are past every ttl.
AgeInv ==
  cooldown > 0 =>
    /\ since > 0 => \A a \in Enqueued : row[a].age > 0
    /\ \A a, b \in Enqueued :
         a < b => row[b].age < row[a].age \/ (row[a].age = MaxAge /\ row[b].age = MaxAge)

\* A row is sent only when all older ones were tried.
SentInv ==
  cooldown > 0 => \A a, b \in Enqueued : a < b /\ Sent(b) => Tried(row[a])

\* The row that came last is the newest of all that came, or was late.
LastInv ==
  /\ last = None <=> seen = {}
  /\ last # None => last \in seen
  /\ last # None /\ cooldown > 0 => (\A b \in seen : b <= last) \/ Late(last)

SequenceInv == AgeInv /\ SentInv /\ LastInv

\* What is sent or was executed has a row.
LEMMA SentIsEnqueued ==
  ASSUME DispatchInv, NEW a \in Actions, Sent(a)
  PROVE  a \in Enqueued
BY DEF DispatchInv, OrderInv, Enqueued, Unused

LEMMA Numbers ==
  ASSUME DispatchInv, IntentInv
  PROVE  /\ Actions \in SUBSET Nat /\ Enqueued \in SUBSET Actions /\ seen \in SUBSET Enqueued
         /\ cooldown \in Nat /\ since \in Nat /\ MaxAge \in Nat
         /\ \A a \in Actions : row[a].age \in 0 .. MaxAge /\ row[a].attempt \in Nat
<1>1. seen \in SUBSET Enqueued
  BY SentIsEnqueued DEF DispatchInv, IInv, KeyInv, Sent
<1>2. cooldown \in Nat /\ since \in Nat
  BY PlanAssumption DEF IntentInv, PlanType
<1>3. \A a \in Actions : row[a].age \in 0 .. MaxAge /\ row[a].attempt \in Nat
  BY TimeAssumption DEF DispatchInv, IInv, TypeOK, Rows
<1>. QED BY <1>1, <1>2, <1>3, RowsAssumption, TimeAssumption DEF Enqueued

\* Ages: a row is made a cooldown after the one before,
LEMMA AgeNext ==
  ASSUME DispatchInv, IntentInv, AgeInv, [ConvergenceNext]_allVars
  PROVE  AgeInv'
<1>. USE DEF AgeInv
<1>1. CASE UNCHANGED <<vars, cooldown, plan>>
  BY <1>1 DEF vars, table, plan, Unused, Enqueued
<1>2. CASE FastLoop /\ want \in keys
  <2>1. since' = 0 /\ UNCHANGED <<vars, cooldown>>
    BY <1>2 DEF FastLoop
  <2>. QED BY <2>1 DEF vars, table, Unused, Enqueued
<1>3. CASE FastLoop /\ want \notin keys
  <2>. DEFINE n == NextRow
  <2>1. /\ n \in Actions /\ Enqueued' = Enqueued \cup {n} /\ \A a \in Enqueued : a < n
        /\ \A a \in Actions \ {n} : row'[a] = row[a]
        /\ row'[n].age = 0 /\ cooldown' = cooldown
    BY <1>3, RowMade
  <2>2. since' = 0 /\ (intent = None \/ since >= cooldown)
    BY <1>3 DEF FastLoop, Changes
  <2>. HIDE DEF n
  <2>3. cooldown > 0 => \A a \in Enqueued : row[a].age > 0
    BY <2>2, Numbers DEF IntentInv, PlanInv
  <2>4. ASSUME cooldown > 0, NEW a \in Enqueued', NEW b \in Enqueued', a < b
        PROVE  row'[b].age < row'[a].age \/ (row'[a].age = MaxAge /\ row'[b].age = MaxAge)
    <3>1. a \in Nat /\ b \in Nat /\ n \in Nat
      BY <2>1, Numbers
    <3>2. a # n /\ a \in Enqueued
      BY <2>1, <2>4, <3>1
    <3>3. CASE b = n
      BY <2>1, <2>3, <2>4, <3>2, <3>3, Numbers
    <3>4. CASE b # n
      BY <2>1, <2>4, <3>2, <3>4, Numbers
    <3>. QED BY <3>3, <3>4
  <2>. QED BY <2>1, <2>2, <2>4
<1>4. CASE Clock
  <2>1. /\ UNCHANGED <<cooldown, Enqueued>>
        /\ \A a \in Enqueued : row'[a].age = MinOf(row[a].age + 1, MaxAge)
    BY <1>4, ClockRows DEF Enqueued, Unused
  <2>2. \A a \in Enqueued : MaxAge > 0 /\ row[a].age \in 0 .. MaxAge
    BY Numbers, TimeAssumption
  <2>3. MaxAge \in Nat
    BY Numbers
  <2>4. \A a \in Enqueued : row'[a].age > 0
    BY <2>1, <2>2, <2>3 DEF MinOf
  <2>5. ASSUME cooldown > 0, NEW a \in Enqueued, NEW b \in Enqueued, a < b
        PROVE  row'[b].age < row'[a].age \/ (row'[a].age = MaxAge /\ row'[b].age = MaxAge)
    BY <2>1, <2>2, <2>3, <2>5 DEF MinOf
  <2>. QED BY <2>1, <2>4, <2>5
<1>5. CASE DispatchStep(Work)
  <2>1. UNCHANGED <<cooldown, since, Enqueued>>
    BY <1>5, DispatchPlan
  <2>2. \A a \in Enqueued : row'[a].age = row[a].age
    BY <1>5, WorkRows DEF DispatchStep, Enqueued
  <2>. QED BY <2>1, <2>2
<1>. QED BY <1>1, <1>2, <1>3, <1>4, <1>5 DEF ConvergenceNext, Ask, allVars

\* and a row that the dispatcher may send is younger than those before it.
LEMMA SentNext ==
  ASSUME DispatchInv, DispatchInv', IntentInv, AgeInv, SentInv, [ConvergenceNext]_allVars
  PROVE  SentInv'
<1>. USE DEF SentInv
<1>1. CASE UNCHANGED <<vars, cooldown>>
  BY <1>1 DEF vars, table, runtime, Unused, Enqueued, Sent
<1>2. CASE FastLoop /\ want \in keys
  BY <1>1, <1>2 DEF FastLoop
<1>3. CASE FastLoop /\ want \notin keys
  <2>. DEFINE n == NextRow
  <2>1. /\ n \in Actions /\ Enqueued' = Enqueued \cup {n} /\ \A a \in Enqueued : a < n
        /\ \A a \in Actions \ {n} : row'[a] = row[a]
        /\ ~Sent(n) /\ \A a \in Actions : Sent(a)' <=> Sent(a)
        /\ cooldown' = cooldown
    BY <1>3, RowMade
  <2>. HIDE DEF n
  <2>2. ASSUME cooldown > 0, NEW a \in Enqueued', NEW b \in Enqueued', a < b, Sent(b)'
        PROVE  Tried(row[a])'
    <3>1. a \in Nat /\ b \in Nat /\ n \in Nat /\ a \in Actions /\ b \in Actions
      BY <2>1, Numbers
    <3>2. b # n /\ b \in Enqueued /\ Sent(b)
      BY <2>1, <2>2, <3>1
    <3>3. a # n /\ a \in Enqueued
      BY <2>1, <2>2, <3>1, <3>2
    <3>4. row'[a] = row[a]
      BY <2>1, <3>1, <3>3
    <3>. QED BY <2>2, <3>2, <3>3, <3>4 DEF Tried
  <2>. QED BY <2>1, <2>2
<1>4. CASE Clock
  <2>1. UNCHANGED <<cooldown, Enqueued>>
    BY <1>4, ClockRows
  <2>2. \A a \in Actions : (Sent(a)' <=> Sent(a)) /\ (Tried(row[a])' <=> Tried(row[a]))
    BY <1>4, ClockRows
  <2>. QED BY <2>1, <2>2, Numbers
<1>5. CASE DispatchStep(Work)
  <2>1. Work /\ UNCHANGED <<cooldown, Enqueued>>
    BY <1>5, DispatchPlan DEF DispatchStep
  <2>2. ASSUME cooldown > 0, NEW a \in Enqueued, NEW b \in Enqueued, a < b, Sent(b)'
        PROVE  Tried(row[a])'
    <3>1. a \in Actions /\ b \in Actions
      BY Numbers
    <3>2. CASE Sent(b)
      BY <2>1, <2>2, <3>1, <3>2, WorkRows
    <3>3. CASE Send(b)
      <4>1. row' = row /\ ~(row[b].age > Ttl[b])
        BY <3>3 DEF Send, Expired, table
      <4>2. row[b].age < MaxAge
        <5>1. Ttl[b] \in 0 .. (MaxAge - 1) /\ row[b].age \in Nat /\ MaxAge \in Nat
          BY <3>1, Numbers, TimeAssumption
        <5>. QED BY <4>1, <5>1
      <4>3. Younger(b, a)'
        BY <2>2, <4>1, <4>2, Numbers DEF AgeInv, Younger, Enqueued, Unused
      <4>. QED BY <2>2, <3>1, <4>3 DEF DispatchInv, OrderInv, Past
    <3>. QED BY <2>1, <2>2, <3>1, <3>2, <3>3, WorkSent
  <2>. QED BY <2>1, <2>2
<1>. QED BY <1>1, <1>2, <1>3, <1>4, <1>5 DEF ConvergenceNext, Ask, allVars

\* An operation that starts after that of a newer row is one of a late row.
LEMMA LastNext ==
  ASSUME DispatchInv, IntentInv, SentInv, LastInv, [ConvergenceNext]_allVars
  PROVE  LastInv'
<1>. USE DEF LastInv
<1>1. CASE UNCHANGED <<vars, cooldown, last>>
  BY <1>1 DEF vars, table, runtime, Late, AtFirst, Tried
<1>2. CASE FastLoop /\ want \in keys
  BY <1>1, <1>2 DEF FastLoop
<1>3. CASE FastLoop /\ want \notin keys
  <2>. DEFINE n == NextRow
  <2>1. /\ n \in Unused /\ \A a \in Actions \ {n} : row'[a] = row[a]
        /\ UNCHANGED <<seen, last, cooldown>>
    BY <1>3, RowMade
  <2>. HIDE DEF n
  <2>2. last # None => last \in Actions \ {n}
    BY <2>1, Numbers DEF Enqueued
  <2>3. last # None => (Late(last)' <=> Late(last))
    BY <2>1, <2>2 DEF Late, AtFirst, Tried
  <2>. QED BY <2>1, <2>3
<1>4. CASE Clock
  <2>1. UNCHANGED <<seen, last, cooldown>>
    BY <1>4, ClockRows
  <2>2. last # None => (Late(last)' <=> Late(last))
    BY <1>4, <2>1, ClockRows, Numbers
  <2>. QED BY <2>1, <2>2
<1>5. CASE DispatchStep(Work)
  <2>1. Work /\ UNCHANGED cooldown /\ last' = Started
    BY <1>5 DEF DispatchStep
  <2>2. CASE seen' = seen
    <3>1. last' = last
      BY <2>1, <2>2 DEF Started
    <3>2. last # None => (Late(last) => Late(last)')
      BY <2>1, <3>1, WorkRows, Numbers
    <3>. QED BY <2>1, <2>2, <3>1, <3>2
  <2>3. ASSUME NEW a \in Actions \ seen, seen' = seen \cup {a}, UNCHANGED row,
               Sent(a), row[a].op = "none"
        PROVE  LastInv'
    <3>1. last' = a /\ a # None
      <4>1. Started = CHOOSE b \in seen' : b \notin seen
        BY <2>3 DEF Started
      <4>2. \A b \in seen' : b \notin seen <=> b = a
        BY <2>3
      <4>3. (CHOOSE b \in seen' : b \notin seen) = a
        BY <2>3, <4>2
      <4>. QED BY <2>1, <4>1, <4>3, ActionsAssumption
    <3>2. a \in Enqueued /\ \A b \in seen : b \in Enqueued /\ Sent(b) /\ b \in Nat /\ a \in Nat
      BY <2>3, SentIsEnqueued, Numbers DEF Sent
    <3>3. ASSUME cooldown > 0, ~Late(a) PROVE \A b \in seen' : b <= a
      <4>1. ~Tried(row[a])
        BY <2>3, <3>3 DEF Late, AtFirst
      <4>2. \A b \in seen : ~(a < b)
        BY <3>2, <3>3, <4>1 DEF SentInv
      <4>3. ASSUME NEW b \in seen' PROVE b <= a
        <5>1. a \in Nat
          BY <2>3, Numbers
        <5>2. b = a \/ (b \in seen /\ b \in Nat /\ ~(a < b))
          BY <2>3, <3>2, <4>2
        <5>. QED BY <5>1, <5>2
      <4>. QED BY <4>3
    <3>4. Late(a)' <=> Late(a)
      BY <2>3 DEF Late, AtFirst, Tried
    <3>. QED BY <2>1, <2>3, <3>1, <3>3, <3>4
  <2>. QED BY <2>1, <2>2, <2>3, WorkSeen
<1>. QED BY <1>1, <1>2, <1>3, <1>4, <1>5 DEF ConvergenceNext, Ask, allVars

\* All of it holds always.
LEMMA Invariants == ConvergenceSpec => [](DispatchInv /\ IntentInv /\ SequenceInv)
<1>1. ConvergenceInit => DispatchInv /\ IntentInv
  BY DispatchFirst, IntentInit
<1>2. ConvergenceInit => SequenceInv
  BY DEF ConvergenceInit, Init, Absent, SequenceInv, AgeInv, SentInv, LastInv, Enqueued, Unused
<1>3. DispatchInv /\ [ConvergenceNext]_allVars => DispatchInv'
  BY StepsOfDispatch, DispatchKept
<1>4. DispatchInv /\ IntentInv /\ SequenceInv /\ [ConvergenceNext]_allVars
        => IntentInv' /\ SequenceInv'
  BY <1>3, IntentNext, AgeNext, SentNext, LastNext DEF SequenceInv
<1>. QED BY <1>1, <1>2, <1>3, <1>4, PTL DEF ConvergenceSpec

-----------------------------------------------------------------------------
(* The pool and the intent *)

\* A row that is done with and was not given up on was executed.
LEMMA DoneIsSeen ==
  ASSUME DispatchInv, NEW a \in Enqueued, row[a].status \notin Candidates \cup Failures
  PROVE  a \in seen
<1>1. a \in Actions /\ row[a].status # "absent"
  BY DEF Enqueued, Unused
<1>2. CASE row[a].status = Success
  <2>1. ops[a] = Success /\ Success # None
    BY <1>1, <1>2, StatusAssumption DEF DispatchInv, OwnInv, SuccessIsReal, Terminal
  <2>. QED BY <1>1, <2>1 DEF DispatchInv, IInv, KeyInv
<1>3. CASE row[a].status # Success
  <2>1. row[a].op # "none"
    BY <1>1, <1>3 DEF DispatchInv, InFlight, InFlightHasOp, Candidates, Terminal
  <2>. QED BY <1>1, <2>1 DEF DispatchInv, IInv, KeyInv
<1>. QED BY <1>2, <1>3

\* For any number of decisions, restarts and lost answers, any windows, cooldowns,
\* ttls and batches: when all is done the pool is what the intent says, or one of
\* the four reasons holds.
THEOREM PoolIsIntended == ConvergenceSpec => []PoolFollowsIntent
<1>1. ASSUME DispatchInv, IntentInv, SequenceInv, intent # None, Quiet, ~Excused
      PROVE  pool = intent
  <2>1. Newest \in Enqueued /\ \A b \in Enqueued : b <= Newest
    BY <1>1, NewestIsLast DEF IntentInv, PlanInv
  <2>2. Enqueued # {} /\ Newest \in Actions
    BY <2>1 DEF Enqueued
  <2>3. Newest \in seen
    BY <1>1, <2>1, <2>2, DoneIsSeen DEF Quiet, Excused, Missed
  <2>4. payload[Newest] = intent
    <3>1. CASE cooldown < FastWindow
      BY <1>1, <2>2, <3>1 DEF Excused, Swallowed
    <3>2. CASE ~(cooldown < FastWindow)
      <4>1. cooldown >= FastWindow
        BY <1>1, <3>2, Numbers, PlanAssumption
      <4>. QED BY <1>1, <2>1, <4>1 DEF IntentInv, PlanInv
    <3>. QED BY <3>1, <3>2
  <2>5. last # None /\ last \in seen
    BY <1>1, <2>3 DEF SequenceInv, LastInv
  <2>6. ASSUME last # Newest PROVE FALSE
    <3>1. cooldown > 0 /\ AtFirst(last)
      BY <1>1, <2>5, <2>6, Numbers DEF Excused, Tied, Overtaken
    <3>2. \A b \in seen : b <= last
      BY <1>1, <2>5, <3>1 DEF SequenceInv, LastInv, Late
    <3>3. last \in Enqueued /\ last \in Nat /\ Newest \in Nat
      BY <1>1, <2>2, <2>5, Numbers
    <3>. QED BY <2>1, <2>3, <2>6, <3>2, <3>3
  <2>. QED BY <2>4, <2>5, <2>6 DEF pool
<1>2. DispatchInv /\ IntentInv /\ SequenceInv => PoolFollowsIntent
  BY <1>1 DEF PoolFollowsIntent
<1>. QED BY <1>2, Invariants, PTL

-----------------------------------------------------------------------------
(* The abstract specification *)

\* The decisions that were made are the rows.
LEMMA RowsAreDecisions ==
  ASSUME IntentInv
  PROVE  Control!Made = Enqueued
BY DEF IntentInv, PlanInv, Control!Made, Enqueued

LEMMA ControlInit ==
  ASSUME ConvergenceInit
  PROVE  Control!Init
BY DEF ConvergenceInit, Init, Control!Init, pool

\* A row that is made is a decision for another size than the last one,
LEMMA ControlDecide ==
  ASSUME DispatchInv, IntentInv, SequenceInv, FastLoop, want \notin keys
  PROVE  Control!Next
<1>. DEFINE n == NextRow
<1>1. UNCHANGED cooldown
  BY DEF FastLoop
<1>2. /\ n \in Unused /\ n \in Actions /\ \A a \in Enqueued : a < n
      /\ payload' = [payload EXCEPT ![n] = want] /\ UNCHANGED <<seen, last>>
  BY <1>1, RowMade
<1>3. want \in Sizes /\ want # intent /\ intent' = want
  BY DEF FastLoop, Changes, IntentInv, PlanType
<1>. HIDE DEF n
<1>4. pool' = pool
  <2>1. last # None => last \in Actions \ {n}
    BY <1>2, Numbers DEF SequenceInv, LastInv, Enqueued
  <2>. QED BY <1>2, <2>1 DEF pool, IntentInv, PlanType
<1>5. Control!Decide(n, want)
  BY <1>1, <1>2, <1>3, <1>4, RowsAreDecisions DEF Control!Decide
<1>. QED BY <1>2, <1>3, <1>5 DEF Control!Next

\* an insert that a key swallows is one that a cooldown shorter than the window lets
\* the intent run ahead of, and the key is that of a decision,
LEMMA ControlForget ==
  ASSUME IntentInv, FastLoop, want \in keys
  PROVE  Control!Next
<1>1. want \in Sizes /\ want # intent /\ intent' = want
  BY PlanAssumption DEF FastLoop, Changes, IntentInv, PlanInv, PlanType
<1>2. cooldown < FastWindow
  <2>1. ~(cooldown >= FastWindow)
    BY NoneSwallowed
  <2>. QED BY <2>1, PlanAssumption DEF IntentInv, PlanType
<1>3. \E d \in Control!Made : payload[d] = want
  BY RowsAreDecisions DEF IntentInv, PlanInv
<1>4. UNCHANGED <<payload, seen, last, cooldown>>
  BY DEF FastLoop, vars, runtime
<1>5. Control!Forget(want)
  BY <1>1, <1>2, <1>3, <1>4 DEF Control!Forget, pool
<1>. QED BY <1>1, <1>5 DEF Control!Next

\* and an operation that starts carries out one that was not carried out before.
LEMMA ControlApply ==
  ASSUME DispatchInv, IntentInv, SequenceInv, DispatchStep(Work)
  PROVE  [Control!Next]_(Control!vars)
<1>1. Work /\ last' = Started /\ UNCHANGED <<intent, payload, cooldown>>
  BY DispatchPlan DEF DispatchStep
<1>2. CASE seen' = seen
  BY <1>1, <1>2 DEF Started, pool, Control!vars
<1>3. ASSUME NEW a \in Actions \ seen, seen' = seen \cup {a}, Sent(a)
      PROVE  Control!Apply(a)
  <2>1. a \in Control!Made
    BY <1>3, SentIsEnqueued, RowsAreDecisions
  <2>2. last' = a /\ a # None
    <3>1. \A b \in seen' : b \notin seen <=> b = a
      BY <1>3
    <3>2. (CHOOSE b \in seen' : b \notin seen) = a
      BY <1>3, <3>1
    <3>. QED BY <1>1, <1>3, <3>2, ActionsAssumption DEF Started
  <2>3. pool' = payload[a]
    BY <1>1, <2>2 DEF pool
  <2>. QED BY <1>1, <1>3, <2>1, <2>3 DEF Control!Apply
<1>. QED BY <1>1, <1>2, <1>3, WorkSeen DEF Control!Next

\* The orchestrator does to the pool what PoolControl says and nothing else: each
\* change of the intent is one decision, save for those that a cooldown shorter than
\* the window lets it forget, and the pool changes only as decisions are carried
\* out, each once.
THEOREM ControlRefined == ConvergenceSpec => ImplementsPoolControl
<1>1. ASSUME DispatchInv, IntentInv, SequenceInv, [ConvergenceNext]_allVars
      PROVE  [Control!Next]_(Control!vars)
  <2>1. CASE UNCHANGED <<vars, plan, last, cooldown>>
    BY <2>1 DEF vars, runtime, plan, pool, Control!vars
  <2>2. CASE FastLoop
    BY <1>1, <2>2, ControlDecide, ControlForget
  <2>3. CASE Clock
    BY <1>1, <2>3, ClockRows DEF pool, Control!vars
  <2>4. CASE DispatchStep(Work)
    BY <1>1, <2>4, ControlApply
  <2>. QED BY <1>1, <2>1, <2>2, <2>3, <2>4 DEF ConvergenceNext, Ask, allVars
<1>2. DispatchInv /\ IntentInv /\ SequenceInv /\ [ConvergenceNext]_allVars
        => [Control!Next]_(Control!vars)
  BY <1>1
<1>. QED BY <1>2, ControlInit, Invariants, PTL
     DEF ConvergenceSpec, ImplementsPoolControl, Control!SafeSpec
=============================================================================
