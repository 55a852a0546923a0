------------------------------ MODULE Dispatch ------------------------------
(***************************************************************************)
(* The dispatch loop of the control plane (control/src/services/           *)
(* orchestrator.rs): rows of the table orchestrator_action are handed, one *)
(* at a time and from a snapshot, to an elasticity runtime over HTTP, and  *)
(* its answers are written back.  The runtime and the network are external *)
(* and are modelled from what the loop assumes of them.                    *)
(*                                                                         *)
(* Times are relative: wait is next_retry_at - now (0 when due) and age is *)
(* now - effective_at, which stops at MaxAge, one past every ttl; the code *)
(* never looks further.  attempt stops at BackoffCap for the same reason.  *)
(* created_at = effective_at in enqueue_action, so age orders the rows.    *)
(***************************************************************************)
EXTENDS Integers, FiniteSets

CONSTANTS
  Actions,           \* rows that may be enqueued; each has a key of its own
  PoolActions,       \* the rows of type SetPoolTarget, which retry less
  BadActions,        \* the rows whose payload fails process_action's checks
  Ttl,               \* ttl_seconds of each row
  MaxAge,            \* where ages stop
  BackoffCap,        \* 6 in the code
  PressureDelay,     \* 15 seconds in the code
  MaxBatch,          \* MAX_DISPATCH_BATCH, 100 in the code
  ReportedStatuses,  \* what the runtime may say of an operation
  Refusals,          \* the errors with which the runtime may refuse a request
  PostedStatuses,    \* what clients post to /actions/:id/result
  MaxPosts,          \* bound on the actions for which they do
  MaxCrashes,        \* bound on the crashes of the control plane
  None

NonTerminal == {"accepted", "queued", "running"}

Success == "succeeded"

Failures == {"failed", "cancelled", "timed_out"}

Terminal   == Failures \cup {Success}
Candidates == {"pending"} \cup NonTerminal

\* The reason codes, without their prefixes.  Any other code is treated as
\* OPERATION_FAILED is.
ErrorCodes == {"INVALID_ARGUMENT", "TARGET_NOT_FOUND", "RESOURCE_PRESSURE",
               "OPERATION_FAILED", "IDEMPOTENCY_REPLAY", "ACTION_UNSUPPORTED",
               "DEPENDENCY_UNAVAILABLE"}

ASSUME ActionsAssumption ==
  /\ None \notin Actions
  /\ PoolActions \subseteq Actions
  /\ BadActions \subseteq Actions
ASSUME TimeAssumption ==
  /\ MaxAge \in Nat
  /\ Ttl \in [Actions -> 0 .. (MaxAge - 1)]
  /\ PressureDelay \in Nat
  /\ BackoffCap \in Nat
  /\ \A n \in 0 .. BackoffCap : 2^n \in Nat \ {0}
\* A runtime may report any string, "pending" too; "absent" is no string of the
\* code's but the word of this module for a row that is not there.
ASSUME StatusAssumption ==
  /\ None \notin ReportedStatuses \cup Terminal
  /\ "absent" \notin ReportedStatuses \cup PostedStatuses
  /\ "accepted" \in ReportedStatuses
ASSUME RefusalAssumption ==
  Refusals \subseteq [code : ErrorCodes, retryable : BOOLEAN]
ASSUME BoundAssumption ==
  MaxBatch \in Nat \ {0} /\ MaxPosts \in Nat /\ MaxCrashes \in Nat

VARIABLES
  row,      \* the table: row[a] for every action, "absent" before it exists
  seen,     \* external: the Idempotency-Keys the runtime has executed
  ops,      \* external: the state of the operation started for an action
  execs,    \* external: how many operations were started for an action
  wire,     \* external: requests sent and not yet handled, <<action, key>>
  stage,    \* the dispatch task: "idle", "loop", "calling" or "answered"
  todo,     \* the rows of this cycle that are not processed yet
  snap,     \* the DispatchAction records that load_dispatch_candidates read
  cur,      \* the row being processed, None outside a call
  answer,   \* the answer of the call
  crashes,
  posted    \* history: the actions for which clients posted a result

table   == <<row>>
runtime == <<seen, ops, execs, wire>>
loop    == <<stage, todo, snap, cur, answer>>
vars    == <<table, runtime, loop, crashes, posted>>

Statuses == {"absent"} \cup Candidates \cup Terminal
              \cup ReportedStatuses \cup PostedStatuses
OpIds    == {"none", "blank", "known"}

Rows == [status   : Statuses,
         terminal : Terminal \cup {None},  \* terminal_status
         op       : OpIds,                 \* runtime_operation_id
         attempt  : 0 .. BackoffCap,
         wait     : Nat,
         age      : 0 .. MaxAge]

Absent  == [status |-> "absent", terminal |-> None, op |-> "none",
            attempt |-> 0, wait |-> 0, age |-> 0]

\* The columns of a snapshot that are used after a row was loaded and that
\* another step could change (ttl, key, type and payload never change).
Snapshots == [status : Statuses, op : OpIds, attempt : 0 .. BackoffCap]
SnapOf(r) == [status |-> r.status, op |-> r.op, attempt |-> r.attempt]
NoSnap    == SnapOf(Absent)

OkAnswer(s, op)   == [ok |-> TRUE, status |-> s, op |-> op]
ErrAnswer(c, y)   == [ok |-> FALSE, code |-> c, retryable |-> y]
OkAnswers  == [ok : {TRUE}, status : ReportedStatuses, op : {"blank", "known"}]
ErrAnswers == [ok : {FALSE}, code : ErrorCodes, retryable : BOOLEAN]

\* parse_runtime_response fills in what an empty body does not say.
Bodiless    == OkAnswer("accepted", "blank")

\* reqwest failed, or no base url: no reason code, no retryable hint.
Broken      == ErrAnswer("DEPENDENCY_UNAVAILABLE", FALSE)
ServerError == ErrAnswer("DEPENDENCY_UNAVAILABLE", TRUE)

-----------------------------------------------------------------------------
(* The table *)

MinOf(m, n) == IF m < n THEN m ELSE n
Bumped(n)   == MinOf(n + 1, BackoffCap)

\* Slip: every row that is there, whatever its status.
DueInAnyStatus(a) == row[a].status # "absent" /\ row[a].wait = 0

\* Slip: only rows that were never sent.
DueWhenPending(a) == row[a].status = "pending" /\ row[a].wait = 0

Due(a) == row[a].status \in Candidates /\ row[a].wait = 0

\* Slip: the ttl ends only what the runtime has not accepted yet.
ExpiredUnsent(a) == row[a].age > Ttl[a] /\ row[a].op = "none"

\* now > effective_at + ttl
Expired(a) == row[a].age > Ttl[a]

\* Slip: ORDER BY created_at DESC.
OldestLast(S) == {a \in S : \A b \in S : row[b].age >= row[a].age}

Oldest(S) == {a \in S : \A b \in S : row[b].age <= row[a].age}

Backoff(n) == 2^n

\* Slip: terminal_status is forgotten.
MarkTerminalPartly(r, s) == [r EXCEPT !.status = s]

MarkTerminal(r, s) == [r EXCEPT !.status = s, !.terminal = s]

ScheduleRetry(r, attempt, delay) ==
  [r EXCEPT !.attempt = attempt, !.wait = delay]

\* Slip: a fresh key for every attempt.
RequestKeyPerAttempt(a) == <<a, snap[a].attempt>>

\* The Idempotency-Key header: the key stored in the row when it was enqueued.
RequestKey(a) == a

Init ==
  /\ row     = [a \in Actions |-> Absent]
  /\ seen    = {}
  /\ ops     = [a \in Actions |-> None]
  /\ execs   = [a \in Actions |-> 0]
  /\ wire    = {}
  /\ stage   = "idle"
  /\ todo    = {}
  /\ snap    = [a \in Actions |-> NoSnap]
  /\ cur     = None
  /\ answer  = None
  /\ crashes = 0
  /\ posted  = {}

\* Slip: ON CONFLICT(idempotency_key) DO UPDATE SET status = 'pending'.
EnqueueUpsert(a) ==
  /\ row' = [row EXCEPT ![a].status = "pending"]
  /\ UNCHANGED <<runtime, loop, crashes, posted>>

\* enqueue_action, called by the fast and slow loops.
Enqueue(a) ==
  /\ row[a].status = "absent"
  /\ row' = [row EXCEPT ![a].status = "pending"]
  /\ UNCHANGED <<runtime, loop, crashes, posted>>

\* There is a row for which the time still matters.
Ageing ==
  \E a \in Actions : row[a].status # "absent"
                    /\ (row[a].age < MaxAge \/ row[a].wait > 0)

Tick ==
  /\ Ageing
  /\ row' = [a \in Actions |->
               IF row[a].status = "absent" THEN row[a]
               ELSE [row[a] EXCEPT !.age  = MinOf(@ + 1, MaxAge),
                                   !.wait = IF @ = 0 THEN 0 ELSE @ - 1]]
  /\ UNCHANGED <<runtime, loop, crashes, posted>>

\* update_action_result: any status, on any row, and nothing but the status.
Post(a, s) ==
  /\ row[a].status # "absent"
  /\ row'    = [row EXCEPT ![a].status = s]
  /\ posted' = posted \cup {a}
  /\ Cardinality(posted') <= MaxPosts
  /\ UNCHANGED <<runtime, loop, crashes>>

-----------------------------------------------------------------------------
(* The dispatch task *)

\* Leave the row the task is at; the cycle ends when it was the last one.
Leave(a) ==
  /\ todo'   = todo \ {a}
  /\ stage'  = IF todo \ {a} = {} THEN "idle" ELSE "loop"
  /\ snap'   = [snap EXCEPT ![a] = NoSnap]
  /\ cur'    = None
  /\ answer' = None

\* Slip: LIMIT without ORDER BY.
BatchesInAnyOrder(due) ==
  {B \in SUBSET due : Cardinality(B) = MinOf(MaxBatch, Cardinality(due))}

\* The rows of the next cycle: ORDER BY created_at LIMIT MaxBatch.
Batches(due) ==
  {B \in SUBSET due : /\ \A a \in B, b \in due \ B : row[b].age <= row[a].age
                      /\ \/ B = due
                         \/ Cardinality(B) = MaxBatch
                      /\ Cardinality(B) <= MaxBatch}

\* run_dispatch_cycle returns at once when there is nothing to do.
StartCycle ==
  /\ stage = "idle"
  /\ \E B \in Batches({a \in Actions : Due(a)}) :
       /\ todo'  = B
       /\ stage' = IF B = {} THEN "idle" ELSE "loop"
       /\ snap'  = [a \in Actions |-> IF a \in B THEN SnapOf(row[a]) ELSE NoSnap]
  /\ UNCHANGED <<table, runtime, cur, answer, crashes, posted>>

\* process_action, first branch.  enqueue_rollback does nothing: no caller of
\* enqueue_action gives a rollback action.
Expire(a) ==
  /\ stage = "loop" /\ a \in Oldest(todo)
  /\ Expired(a)
  /\ row' = [row EXCEPT ![a] = MarkTerminal(@, "failed")]
  /\ Leave(a)
  /\ UNCHANGED <<runtime, crashes, posted>>

\* process_action polls a row that is in flight and dispatches any other.
Polls(s) == s.status # "pending" /\ s.op # "none"

Poll(a) ==
  /\ stage = "loop" /\ a \in Oldest(todo)
  /\ ~Expired(a) /\ Polls(snap[a])
  /\ stage' = "calling" /\ cur' = a
  /\ UNCHANGED <<table, runtime, todo, snap, answer, crashes, posted>>

\* The ownership check passes: rows are enqueued for workloads with a policy
\* or for the platform tenant, and no code deletes a policy.
Send(a) ==
  /\ stage = "loop" /\ a \in Oldest(todo)
  /\ ~Expired(a) /\ ~Polls(snap[a]) /\ a \notin BadActions
  /\ wire'  = wire \cup {<<a, RequestKey(a)>>}
  /\ stage' = "calling" /\ cur' = a
  /\ UNCHANGED <<table, seen, ops, execs, todo, snap, answer, crashes, posted>>

\* Slip: only the bad row is skipped.
AbortSkips(a) ==
  /\ stage = "loop" /\ a \in Oldest(todo)
  /\ ~Expired(a) /\ ~Polls(snap[a]) /\ a \in BadActions
  /\ Leave(a)
  /\ UNCHANGED <<table, runtime, crashes, posted>>

\* A payload field is missing or blank: `?` leaves process_action and
\* run_dispatch_cycle, and the rest of the batch is dropped.
Abort(a) ==
  /\ stage = "loop" /\ a \in Oldest(todo)
  /\ ~Expired(a) /\ ~Polls(snap[a]) /\ a \in BadActions
  /\ stage' = "idle" /\ todo' = {}
  /\ snap'  = [b \in Actions |-> NoSnap]
  /\ UNCHANGED <<table, runtime, cur, answer, crashes, posted>>

\* Slip: whatever is not in progress has succeeded.
AfterPollOptimistic(r, s, ans) ==
  IF ~ans.ok
    THEN LET n == Bumped(s.attempt) IN ScheduleRetry(r, n, Backoff(n))
  ELSE IF ans.status \in NonTerminal THEN [r EXCEPT !.status = ans.status]
  ELSE MarkTerminal(r, Success)

\* What process_action writes for the answer of a poll ...
AfterPoll(r, s, ans) ==
  IF ~ans.ok
    THEN LET n == Bumped(s.attempt) IN ScheduleRetry(r, n, Backoff(n))
  ELSE IF ans.status \in NonTerminal THEN [r EXCEPT !.status = ans.status]
  ELSE IF ans.status \in Terminal    THEN MarkTerminal(r, ans.status)
  ELSE r

\* Slip: a 2xx answer is taken for the end of the operation.
AfterAcceptDone(r, ans) ==
  MarkTerminal([r EXCEPT !.op = ans.op, !.attempt = Bumped(@), !.wait = 0], Success)

\* ... for the answer of a dispatch that the runtime accepted ...
AfterAccept(r, ans) ==
  LET sent == [r EXCEPT !.op = ans.op, !.attempt = Bumped(@), !.wait = 0]
  IN  IF ans.status \in Terminal THEN MarkTerminal(sent, ans.status)
                                 ELSE [sent EXCEPT !.status = ans.status]

\* ... and for a refused or failed one.  SetPoolTarget retries only what the
\* runtime says is retryable; the other types give up on two codes.
GivesUp(a, ans) ==
  IF a \in PoolActions
    THEN ans.code \in {"INVALID_ARGUMENT", "TARGET_NOT_FOUND"} \/ ~ans.retryable
    ELSE ans.code \in {"INVALID_ARGUMENT", "ACTION_UNSUPPORTED"}

\* Slip: a status of its own for rows that wait for a retry.
AfterRefusalRetrying(a, r, s, ans) ==
  IF GivesUp(a, ans) THEN MarkTerminal(r, "failed")
  ELSE [ScheduleRetry(r, Bumped(s.attempt), PressureDelay) EXCEPT !.status = "retrying"]

AfterRefusal(a, r, s, ans) ==
  LET n == Bumped(s.attempt)
  IN  IF GivesUp(a, ans) THEN MarkTerminal(r, "failed")
      ELSE IF ans.code = "RESOURCE_PRESSURE"
        THEN ScheduleRetry(r, n, PressureDelay)
        ELSE ScheduleRetry(r, n, Backoff(n))

\* The row after the call for it: what the task knows of the row's earlier
\* columns is its snapshot s, and it updates the row r by its id.
AfterCall(a, r, s, ans) ==
  IF Polls(s) THEN AfterPoll(r, s, ans)
  ELSE IF ans.ok THEN AfterAccept(r, ans)
  ELSE AfterRefusal(a, r, s, ans)

Record(a) ==
  /\ stage = "answered" /\ a = cur
  /\ row' = [row EXCEPT ![a] = AfterCall(a, @, snap[a], answer)]
  /\ Leave(a)
  /\ UNCHANGED <<runtime, crashes, posted>>

\* The process dies and is started again; the table survives, and so does a
\* request that is on its way.  A statement that SQLite refuses, as it does after
\* five seconds of a lock that another connection holds, ends a cycle alike.
Crash ==
  /\ crashes < MaxCrashes /\ stage # "idle"
  /\ crashes' = crashes + 1
  /\ stage' = "idle" /\ todo' = {} /\ cur' = None /\ answer' = None
  /\ snap' = [a \in Actions |-> NoSnap]
  /\ UNCHANGED <<table, runtime, posted>>

-----------------------------------------------------------------------------
(* The runtime and the network (external) *)

Calling(a) == stage = "calling" /\ cur = a

Answered(ans) ==
  /\ stage' = "answered" /\ answer' = ans
  /\ UNCHANGED <<todo, snap, cur>>

\* A request reaches the runtime, which starts one operation per key and
\* answers the caller, if it still waits, with that operation.
Execute(a, k) ==
  /\ <<a, k>> \in wire
  /\ wire' = wire \ {<<a, k>>}
  /\ IF k \in seen THEN UNCHANGED <<seen, ops, execs>>
     ELSE /\ seen'  = seen \cup {k}
          /\ execs' = [execs EXCEPT ![a] = @ + 1]
          /\ \E s \in ReportedStatuses : ops' = [ops EXCEPT ![a] = s]
  /\ IF Calling(a) /\ ~Polls(snap[a])
       THEN \E op \in {"blank", "known"} : Answered(OkAnswer(ops'[a], op))
       ELSE UNCHANGED loop
  /\ UNCHANGED <<table, crashes, posted>>

Progress(a) ==
  /\ ops[a] # None /\ ops[a] \notin Terminal
  /\ \E s \in ReportedStatuses : ops' = [ops EXCEPT ![a] = s]
  /\ UNCHANGED <<table, seen, execs, wire, loop, crashes, posted>>

Refuse(a, ans) ==
  /\ Calling(a) /\ ~Polls(snap[a]) /\ <<a, RequestKey(a)>> \in wire
  /\ wire' = wire \ {<<a, RequestKey(a)>>}
  /\ Answered(ans)
  /\ UNCHANGED <<table, seen, ops, execs, crashes, posted>>

AnswerPoll(a) ==
  /\ Calling(a) /\ Polls(snap[a])
  /\ snap[a].op = "known"
  /\ Answered(OkAnswer(ops[a], "known"))
  /\ UNCHANGED <<table, runtime, crashes, posted>>

\* The answer is lost or is a 5xx; the request may be on its way still.
Fault(a, ans) ==
  /\ cur = a
  /\ stage = "calling" \/ (stage = "answered" /\ answer.ok)
  /\ Answered(ans)
  /\ UNCHANGED <<table, runtime, crashes, posted>>

\* A 2xx answer comes without its body.
LoseBody(a) ==
  /\ cur = a /\ stage = "answered" /\ answer.ok
  /\ Answered(Bodiless)
  /\ UNCHANGED <<table, runtime, crashes, posted>>

-----------------------------------------------------------------------------
Answers(a) ==
  \/ \E k \in {r[2] : r \in wire} : Execute(a, k)
  \/ \E ans \in {ErrAnswer(e.code, e.retryable) : e \in Refusals} : Refuse(a, ans)
  \/ AnswerPoll(a)
  \/ LoseBody(a)
  \/ \E ans \in {Broken, ServerError} : Fault(a, ans)

Step(a) == Expire(a) \/ Poll(a) \/ Send(a) \/ Abort(a) \/ Record(a)

Next ==
  \/ \E a \in Actions :
       \/ Enqueue(a) \/ Step(a) \/ Answers(a) \/ Progress(a)
       \/ \E s \in PostedStatuses : Post(a, s)
  \/ Tick \/ StartCycle \/ Crash

SafeSpec == Init /\ [][Next]_vars

\* The three tokio tasks run for ever and the clock advances; a call ends, as
\* the answer comes or the connection breaks (the client sets no timeout).
Dispatcher == StartCycle \/ \E a \in Actions : Step(a)
CallEnds   == \E a \in Actions : (cur = a /\ stage = "calling" /\ Answers(a))

Spec == /\ SafeSpec
        /\ WF_vars(Tick) /\ WF_vars(Dispatcher) /\ WF_vars(CallEnds)
-----------------------------------------------------------------------------
(* Properties *)

\* Every column and every loop variable keeps its type.
TypeOK ==
  /\ row     \in [Actions -> Rows]
  /\ ops     \in [Actions -> {None} \cup ReportedStatuses]
  /\ execs   \in [Actions -> Nat]
  /\ stage   \in {"idle", "loop", "calling", "answered"}
  /\ todo    \in SUBSET Actions
  /\ snap    \in [Actions -> Snapshots]
  /\ cur     \in Actions \cup {None}
  /\ answer  \in {None} \cup OkAnswers \cup ErrAnswers
  /\ (stage = "answered") => answer \in OkAnswers \cup ErrAnswers
  /\ (stage \in {"calling", "answered"}) => cur \in todo
  /\ crashes \in 0 .. MaxCrashes
  /\ posted  \in SUBSET Actions

\* The columns that process_action goes by are still in the table when it acts on
\* them, although the row was loaded some calls ago: only this task updates a row
\* once it is enqueued, save for the results that clients post.
SnapshotFresh ==
  \A a \in todo \ posted : /\ snap[a] = SnapOf(row[a])
                           /\ Due(a)

\* terminal_status is set exactly when status is terminal, to that status, in
\* every row for which no client posted a result.
TerminalAgrees ==
  \A a \in Actions \ posted :
    row[a].terminal = IF row[a].status \in Terminal THEN row[a].status ELSE None

\* Retries, lost answers, a crash between the request and its record, and a
\* request that arrives after the restart start at most one operation for an
\* action (dispatch_control_operation always sends the stored key).
ExactlyOnce == \A a \in Actions : execs[a] <= 1

\* The task records an action as succeeded only if its operation did succeed.
SuccessIsReal ==
  \A a \in Actions \ posted : row[a].status = Success => ops[a] = Success

\* A row that left the candidates without being settled, which no cycle and no
\* ttl will ever visit again, was answered with a status the code does not know,
\* or a client posted one.
OnlyUnknownStatusStrands ==
  \A a \in Actions \ posted :
    row[a].status \notin {"absent"} \cup Candidates \cup Terminal =>
      /\ row[a].op # "none" /\ row[a].terminal = None
      /\ ops[a] # None

\* A settled action keeps its status and its terminal_status for ever, unless a
\* client posts a result for it.
TerminalIsFinal ==
  [][\A a \in Actions \ posted' : row[a].status \in Terminal =>
       row'[a].status = row[a].status /\ row'[a].terminal = row[a].terminal]_vars

\* Where clients post results, the task undoes a terminal status only with the
\* answer of a call made for an earlier status, never by visiting the row anew.
ReopenedOnlyByLateAnswer ==
  [][\A a \in Actions :
       /\ row[a].status \in Terminal /\ row'[a].status \notin Terminal
       /\ ~\E s \in PostedStatuses : Post(a, s)
       => a = cur /\ stage = "answered" /\ snap[a].status # row[a].status]_vars

\* An operation is started after that of a younger action only if the older row
\* was tried before, and waits for a retry or for its late request, if its row is
\* settled already, or if a client posted a result for it: otherwise the one task
\* sends rows in the order in which the loops decided on them, over any number of
\* cycles and restarts.
OvertakenOnlyByRetry ==
  [][\A a \in Actions \ posted, b \in Actions :
       /\ row[b].status # "absent" /\ row[b].age < row[a].age
       /\ b \in seen /\ a \in seen' \ seen
       => row[a].attempt > 0 \/ row[a].status \in Terminal]_vars

\* The oldest row with a bad payload holds up every younger row, and does so
\* until its own ttl is over or a client posts a result for it: nothing younger is
\* sent or polled meanwhile.
BadRowStallsYounger ==
  [][\A b \in BadActions, a \in Actions :
       b \notin posted /\ Due(b) /\ ~Expired(b) /\ row[a].age < row[b].age
         => ~Send(a) /\ ~Poll(a)]_vars

\* Every enqueued action is settled: the ttl ends what the runtime, the network
\* or a bad payload at the head of the batch hold up.
EventuallySettled ==
  \A a \in Actions :
    row[a].status # "absent" ~> row[a].status \in Terminal

-----------------------------------------------------------------------------
(* The dispatch loop implements ActionLifecycle *)

PhaseOf(s) == IF s = "absent" THEN "absent"
              ELSE IF s = Success THEN "succeeded"
              ELSE IF s \in Failures THEN "failed"
              ELSE "open"

EffectOf(s) == IF s = None THEN "none" ELSE IF s = Success THEN "done" ELSE "started"

Lifecycle == INSTANCE ActionLifecycle
  WITH phase  <- [a \in Actions |-> PhaseOf(row[a].status)],
       effect <- [a \in Actions |-> EffectOf(ops[a])],
       overridden <- posted

\* Each step of the loop, of the runtime and of clients is a step of the lifecycle.
ImplementsLifecycle == Lifecycle!SafeSpec

\* And the fairness of the lifecycle follows from that of the tasks, even where
\* clients post results: what is open is settled.
ImplementsFairness == Lifecycle!Fairness
=============================================================================
