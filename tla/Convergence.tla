---------------------------- MODULE Convergence ----------------------------
(***************************************************************************)
(* The fast loop and the dispatcher together (control/src/services/        *)
(* orchestrator.rs), for the pool of one workload: clients ask for a size,  *)
(* the fast loop stores it as the intent and enqueues a SetPoolTarget, the  *)
(* dispatcher of Dispatch.tla sends it, and the runtime (external) gives    *)
(* the pool the size of the operation it started last.                      *)
(*                                                                         *)
(* A size stands for all that Planner.tla derives from policy and load; two *)
(* sizes are farther apart than the hysteresis.  Rows are numbered in the   *)
(* order in which they are enqueued, and every one is a SetPoolTarget.      *)
(* phase and since are as in Planner.tla.                                   *)
(***************************************************************************)
EXTENDS Dispatch

CONSTANTS
  Sizes,         \* what may be asked for
  FastWindow,    \* FAST_LOOP_SECONDS, 5 in the code
  Cooldowns,     \* cooldown_seconds of the policies considered
  MaxCooldown,   \* where since stops
  MaxChanges     \* bound on what clients ask

ASSUME RowsAssumption ==
  /\ Actions \subseteq Nat
  /\ PoolActions = Actions /\ BadActions = {}
  /\ BackoffCap > 1      \* so that attempt tells a first request from others
ASSUME PlanAssumption ==
  /\ None \notin Sizes
  /\ FastWindow \in Nat \ {0}
  /\ MaxCooldown \in Nat
  /\ Cooldowns \subseteq 0 .. MaxCooldown

VARIABLES
  want,       \* the size that policy and load ask for
  cooldown,
  intent,     \* the stored intent
  since,      \* its age
  keys,       \* sizes with a row of the current decision window
  phase,      \* the second within that window
  payload,    \* external to Dispatch: the size a row asks for
  last,       \* external: the row whose operation was started last
  changes

plan    == <<intent, since, keys, payload>>
allVars == <<vars, want, cooldown, plan, phase, last, changes>>

ConvergenceInit ==
  /\ Init
  /\ want = None /\ cooldown \in Cooldowns
  /\ intent = None /\ since = 0
  /\ keys = {} /\ phase = 0
  /\ payload = [a \in Actions |-> None]
  /\ last = None /\ changes = 0

\* Clients store a policy or an observation that asks for another size.
Ask(s) ==
  /\ changes < MaxChanges /\ s # want
  /\ want' = s
  /\ changes' = changes + 1
  /\ UNCHANGED <<vars, cooldown, plan, phase, last>>

\* The row that enqueue_action makes next.
Unused == {a \in Actions : row[a].status = "absent"}
NextRow == CHOOSE a \in Unused : \A b \in Unused : a <= b

\* The intent changes, and a row is made unless one of this window says the same
\* (INSERT OR IGNORE): what the runtime was told does not enter.
Changes ==
  \/ intent = None
  \/ since >= cooldown /\ want # intent

FastLoop ==
  /\ want # None /\ Changes
  /\ intent' = want /\ since' = 0
  /\ keys' = keys \cup {want}
  /\ IF want \in keys THEN UNCHANGED <<vars, payload>>
     ELSE /\ Unused # {}
          /\ Enqueue(NextRow)
          /\ payload' = [payload EXCEPT ![NextRow] = want]
  /\ UNCHANGED <<want, cooldown, phase, last, changes>>

\* Slip: a key that does not end in the decision window.
KeysKept(next) == keys

KeysAt(next) == IF next = 0 THEN {} ELSE keys

Clock ==
  LET next == (phase + 1) % FastWindow IN
  /\ IF Ageing THEN Tick ELSE UNCHANGED vars
  /\ phase' = next
  /\ keys'  = KeysAt(next)
  /\ since' = IF intent = None THEN 0 ELSE MinOf(since + 1, MaxCooldown)
  /\ UNCHANGED <<want, cooldown, intent, payload, last, changes>>

\* Steps of the dispatcher, the runtime and the network; an operation that
\* starts sets the pool.
Started == IF seen' = seen THEN last ELSE CHOOSE a \in seen' : a \notin seen

DispatchStep(A) ==
  /\ A
  /\ last' = Started
  /\ UNCHANGED <<want, cooldown, plan, phase, changes>>

Work == StartCycle \/ Crash \/ \E a \in Actions : Step(a) \/ Answers(a) \/ Progress(a)

ConvergenceNext ==
  \/ \E s \in Sizes : Ask(s)
  \/ FastLoop \/ Clock \/ DispatchStep(Work)

\* The fairness of Dispatch!Spec and Planner!Spec: three timers and calls that end.
ConvergenceSpec ==
  /\ ConvergenceInit /\ [][ConvergenceNext]_allVars
  /\ WF_allVars(FastLoop) /\ WF_allVars(Clock)
  /\ WF_allVars(DispatchStep(Dispatcher)) /\ WF_allVars(DispatchStep(CallEnds))

-----------------------------------------------------------------------------
(* Properties *)

Enqueued == Actions \ Unused
Newest   == CHOOSE a \in Enqueued : \A b \in Enqueued : b <= a
pool     == IF last = None THEN None ELSE payload[last]

\* No row, request or call is under way.
Quiet == stage = "idle" /\ wire = {} /\ \A a \in Actions : row[a].status \notin Candidates

\* The newest row was given up on, or was refused: no later run of the fast loop
\* makes it again, as the intent it compares with is already the new one.
Missed == Enqueued # {} /\ row[Newest].status \in Failures

\* The sizes went back and forth within a window, and the newest row is not what
\* the intent says.  Only cooldowns shorter than the window allow it.
Swallowed == cooldown < FastWindow /\ Enqueued # {} /\ payload[Newest] # intent

\* An older row came last, since the answer to its first request was not an
\* acceptance: it was sent again, or its request arrived late.  A restart alone is
\* no reason, as the row is sent again before any younger one.
AtFirst(a) == row[a].attempt = 1 /\ row[a].op # "none"
Overtaken  == last # None /\ last # Newest /\ ~AtFirst(last)

\* Without a cooldown two rows may be made in one second, and created_at, which
\* the dispatcher sorts by, does not tell which came first.
Tied == last # None /\ last # Newest /\ cooldown = 0

\* The reasons for a pool that is not what the intent says.
Excused == Missed \/ Swallowed \/ Overtaken \/ Tied

\* When all is done the pool has the size of the intent, or one of four things
\* has happened: nothing else sets the two apart.
PoolFollowsIntent == intent # None /\ Quiet => pool = intent \/ Excused

\* The orchestrator implements PoolControl: the rows are its decisions.
Control == INSTANCE PoolControl
  WITH Decisions <- Actions, decided <- payload, applied <- seen,
       hasty <- cooldown < FastWindow

\* Every change of the intent is a row of its own, save for those that a cooldown
\* shorter than the window lets a key swallow, and each row makes at most one change
\* of the pool, whenever its requests come and however often the control plane is
\* started again.
ImplementsPoolControl == Control!SafeSpec

\* The bound on the rows: the fast loop would make another one.
OutOfRows == Unused = {} /\ Changes /\ want \notin keys

\* And all is done in the end: once clients stop asking, the pool takes the size
\* asked for and keeps it, save for the same four reasons.
PoolFollowsDemand ==
  <>[](want # None /\ ~OutOfRows =>
         intent = want /\ (pool = want \/ Excused))
=============================================================================
