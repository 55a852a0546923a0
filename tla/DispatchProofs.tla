--------------------------- MODULE DispatchProofs ---------------------------
(* Theorems about Dispatch, for every table, ttl, batch size and bound. *)
EXTENDS Dispatch, TLAPS

-----------------------------------------------------------------------------
(* What the operators on rows return *)

\* A capped attempt counter stays in its range.
LEMMA BumpedType ==
  ASSUME NEW n \in 0 .. BackoffCap
  PROVE  Bumped(n) \in 0 .. BackoffCap
BY TimeAssumption DEF Bumped, MinOf

\* The retry delay of any counter is a number of seconds.
LEMMA BackoffType ==
  ASSUME NEW n \in 0 .. BackoffCap
  PROVE  Backoff(n) \in Nat
BY TimeAssumption DEF Backoff

\* A settled row is a row, with the same operation id.
LEMMA MarkTerminalType ==
  ASSUME NEW r \in Rows, NEW s \in Terminal
  PROVE  /\ MarkTerminal(r, s) \in Rows
         /\ MarkTerminal(r, s).op = r.op
BY DEF MarkTerminal, Rows, Statuses

\* A row that waits for a retry is a row and changes in two columns only.
LEMMA ScheduleRetryType ==
  ASSUME NEW r \in Rows, NEW n \in 0 .. BackoffCap, NEW d \in Nat
  PROVE  /\ ScheduleRetry(r, n, d) \in Rows
         /\ ScheduleRetry(r, n, d).op = r.op
         /\ ScheduleRetry(r, n, d).status = r.status
         /\ ScheduleRetry(r, n, d).terminal = r.terminal
BY DEF ScheduleRetry, Rows

\* The answer of a poll makes a row of a row and keeps its operation id.
LEMMA AfterPollType ==
  ASSUME NEW r \in Rows, NEW s \in Snapshots, NEW ans \in OkAnswers \cup ErrAnswers
  PROVE  /\ AfterPoll(r, s, ans) \in Rows
         /\ AfterPoll(r, s, ans).op = r.op
<1>1. CASE ~ans.ok
  <2>1. Bumped(s.attempt) \in 0 .. BackoffCap
    BY BumpedType DEF Snapshots
  <2>2. Backoff(Bumped(s.attempt)) \in Nat
    BY <2>1, BackoffType
  <2>. QED BY <1>1, <2>1, <2>2, ScheduleRetryType DEF AfterPoll
<1>2. CASE ans.ok /\ ans.status \in NonTerminal
  BY <1>2 DEF AfterPoll, Rows, Statuses, Candidates
<1>3. CASE ans.ok /\ ans.status \notin NonTerminal
  BY <1>3, MarkTerminalType DEF AfterPoll
<1>. QED BY <1>1, <1>2, <1>3

\* So does an acceptance, which brings the operation id.
LEMMA AfterAcceptType ==
  ASSUME NEW r \in Rows, NEW ans \in OkAnswers
  PROVE  AfterAccept(r, ans) \in Rows
<1>. DEFINE sent == [r EXCEPT !.op = ans.op, !.attempt = Bumped(@), !.wait = 0]
<1>1. Bumped(r.attempt) \in 0 .. BackoffCap
  BY BumpedType DEF Rows
<1>2. sent \in Rows
  BY <1>1 DEF Rows, OkAnswers, OpIds
<1>3. ans.status \in Statuses
  BY DEF OkAnswers, Statuses
<1>4. [sent EXCEPT !.status = ans.status] \in Rows
  BY <1>2, <1>3 DEF Rows
<1>. QED BY <1>2, <1>4, MarkTerminalType DEF AfterAccept

\* And a refusal or a failure, which brings none.
LEMMA AfterRefusalType ==
  ASSUME NEW a \in Actions, NEW r \in Rows, NEW s \in Snapshots, NEW ans \in ErrAnswers
  PROVE  /\ AfterRefusal(a, r, s, ans) \in Rows
         /\ AfterRefusal(a, r, s, ans).op = r.op
<1>1. Bumped(s.attempt) \in 0 .. BackoffCap
  BY BumpedType DEF Snapshots
<1>2. Backoff(Bumped(s.attempt)) \in Nat /\ PressureDelay \in Nat
  BY <1>1, BackoffType, TimeAssumption
<1>3. "failed" \in Terminal
  BY DEF Terminal, Failures
<1>. QED BY <1>1, <1>2, <1>3, MarkTerminalType, ScheduleRetryType DEF AfterRefusal

\* Whatever the answer, the row stays a row, and an operation id is written
\* only for an answer that carries one.
LEMMA AfterCallType ==
  ASSUME NEW a \in Actions, NEW r \in Rows, NEW s \in Snapshots,
         NEW ans \in OkAnswers \cup ErrAnswers
  PROVE  /\ AfterCall(a, r, s, ans) \in Rows
         /\ AfterCall(a, r, s, ans).op # "none" => r.op # "none" \/ ans \in OkAnswers
<1>1. CASE Polls(s)
  BY <1>1, AfterPollType DEF AfterCall
<1>2. CASE ~Polls(s) /\ ans \in OkAnswers
  BY <1>2, AfterAcceptType DEF AfterCall, OkAnswers
<1>3. CASE ~Polls(s) /\ ans \in ErrAnswers
  BY <1>3, AfterRefusalType DEF AfterCall, ErrAnswers
<1>. QED BY <1>1, <1>2, <1>3

-----------------------------------------------------------------------------
(* Type correctness, and at most one operation for every action *)

\* What the types of the answers rest on: requests carry the key of their row,
\* an action has an operation exactly when its key was executed, and whoever
\* holds an operation id, or waits with an accepting answer, has been executed.
KeyInv ==
  /\ seen \in SUBSET Actions
  /\ wire \in SUBSET {<<a, a>> : a \in Actions}
  /\ \A a \in Actions : execs[a] = IF a \in seen THEN 1 ELSE 0
  /\ \A a \in Actions : ops[a] # None <=> a \in seen
  /\ \A a \in Actions : row[a].op # "none" => a \in seen
  /\ \A a \in Actions : snap[a].op # "none" => a \in seen
  /\ (stage = "answered" /\ answer \in OkAnswers) => cur \in seen

IInv == TypeOK /\ KeyInv

\* What the task loads of a row is a snapshot.
LEMMA SnapOfType ==
  ASSUME NEW r \in Rows
  PROVE  SnapOf(r) \in Snapshots
BY DEF SnapOf, Rows, Snapshots

\* A row that is not there yet has the values of a row.
LEMMA AbsentType ==
  /\ Absent \in Rows
  /\ NoSnap \in Snapshots
  /\ Absent.op = "none" /\ NoSnap.op = "none"
<1>1. Absent \in Rows
  BY TimeAssumption DEF Absent, Rows, Statuses, OpIds
<1>. QED BY <1>1, SnapOfType DEF NoSnap, SnapOf, Absent

\* The invariant holds when the control plane is started for the first time.
LEMMA InitInv == Init => IInv
<1>. SUFFICES ASSUME Init PROVE IInv
  OBVIOUS
<1>1. TypeOK
  BY AbsentType, BoundAssumption DEF Init, TypeOK
<1>2. KeyInv
  BY AbsentType DEF Init, KeyInv
<1>. QED BY <1>1, <1>2 DEF IInv

\* Steps that change rows and nothing else keep the invariant if every row
\* stays a row and keeps its operation id.
LEMMA RowStep ==
  ASSUME IInv, UNCHANGED <<runtime, loop, crashes>>,
         row' \in [Actions -> Rows], posted' \in SUBSET Actions,
         \A a \in Actions : row'[a].op = row[a].op
  PROVE  IInv'
<1>1. TypeOK'
  BY DEF IInv, TypeOK, runtime, loop
<1>2. KeyInv'
  BY DEF IInv, KeyInv, TypeOK, runtime, loop
<1>. QED BY <1>1, <1>2 DEF IInv

\* One lemma per action: a row is enqueued,
LEMMA EnqueueInv ==
  ASSUME IInv, NEW a \in Actions, Enqueue(a)
  PROVE  IInv'
<1>1. row' \in [Actions -> Rows]
  BY DEF IInv, TypeOK, Enqueue, Rows, Statuses, Candidates
<1>2. \A b \in Actions : row'[b].op = row[b].op
  BY DEF IInv, TypeOK, Enqueue, Rows
<1>. QED BY <1>1, <1>2, RowStep DEF IInv, TypeOK, Enqueue

\* a client posts a result,
LEMMA PostInv ==
  ASSUME IInv, NEW a \in Actions, NEW s \in PostedStatuses, Post(a, s)
  PROVE  IInv'
<1>1. row' \in [Actions -> Rows]
  BY DEF IInv, TypeOK, Post, Rows, Statuses
<1>2. \A b \in Actions : row'[b].op = row[b].op
  BY DEF IInv, TypeOK, Post, Rows
<1>3. posted' \in SUBSET Actions
  BY DEF IInv, TypeOK, Post
<1>. QED BY <1>1, <1>2, <1>3, RowStep DEF Post

\* a second passes,
LEMMA TickInv ==
  ASSUME IInv, Tick
  PROVE  IInv'
<1>. DEFINE Aged(a) == [row[a] EXCEPT !.age  = MinOf(@ + 1, MaxAge),
                                      !.wait = IF @ = 0 THEN 0 ELSE @ - 1]
<1>1. ASSUME NEW a \in Actions
      PROVE  Aged(a) \in Rows /\ Aged(a).op = row[a].op
  <2>1. row[a] \in Rows
    BY DEF IInv, TypeOK
  <2>2. MinOf(row[a].age + 1, MaxAge) \in 0 .. MaxAge
    BY <2>1, TimeAssumption DEF MinOf, Rows
  <2>3. (IF row[a].wait = 0 THEN 0 ELSE row[a].wait - 1) \in Nat
    BY <2>1 DEF Rows
  <2>. QED BY <2>1, <2>2, <2>3 DEF Rows
<1>2. row' = [a \in Actions |-> IF row[a].status = "absent" THEN row[a] ELSE Aged(a)]
  BY DEF Tick
<1>. HIDE DEF Aged
<1>3. row' \in [Actions -> Rows]
  BY <1>1, <1>2 DEF IInv, TypeOK
<1>4. \A a \in Actions : row'[a].op = row[a].op
  BY <1>1, <1>2
<1>. QED BY <1>3, <1>4, RowStep DEF IInv, TypeOK, Tick

-----------------------------------------------------------------------------
(* The dispatch task *)

\* Leaving a row keeps what concerns the loop.
LEMMA LeaveInv ==
  ASSUME IInv, NEW a \in Actions, Leave(a),
         UNCHANGED <<runtime, crashes, posted>>,
         row' \in [Actions -> Rows],
         \A b \in Actions : row'[b].op # "none" => b \in seen
  PROVE  IInv'
<1>1. stage' \in {"idle", "loop"}
  BY DEF Leave
<1>2. snap' \in [Actions -> Snapshots]
  BY AbsentType DEF IInv, TypeOK, Leave
<1>3. \A b \in Actions : snap'[b].op # "none" => b \in seen
  BY AbsentType DEF IInv, TypeOK, KeyInv, Leave
<1>4. TypeOK'
  BY <1>1, <1>2 DEF IInv, TypeOK, Leave, runtime
<1>5. KeyInv'
  BY <1>1, <1>3 DEF IInv, KeyInv, runtime
<1>. QED BY <1>4, <1>5 DEF IInv

\* a batch is loaded: each of its rows gets a snapshot,
LEMMA StartCycleInv ==
  ASSUME IInv, StartCycle
  PROVE  IInv'
<1>. PICK B \in Batches({a \in Actions : Due(a)}) :
       /\ todo'  = B
       /\ stage' = IF B = {} THEN "idle" ELSE "loop"
       /\ snap'  = [a \in Actions |-> IF a \in B THEN SnapOf(row[a]) ELSE NoSnap]
  BY DEF StartCycle
<1>1. B \in SUBSET Actions
  BY DEF Batches
<1>2. snap' \in [Actions -> Snapshots]
  BY SnapOfType, AbsentType DEF IInv, TypeOK
<1>3. \A a \in Actions : snap'[a].op # "none" => a \in seen
  BY AbsentType DEF IInv, KeyInv, SnapOf
<1>4. TypeOK'
  BY <1>1, <1>2 DEF IInv, TypeOK, StartCycle, table, runtime
<1>5. KeyInv'
  BY <1>3 DEF IInv, KeyInv, StartCycle, table, runtime
<1>. QED BY <1>4, <1>5 DEF IInv

\* a row is given up because its ttl is over,
LEMMA ExpireInv ==
  ASSUME IInv, NEW a \in Actions, Expire(a)
  PROVE  IInv'
<1>1. MarkTerminal(row[a], "failed") \in Rows /\ MarkTerminal(row[a], "failed").op = row[a].op
  BY MarkTerminalType DEF IInv, TypeOK, Terminal, Failures
<1>2. row' \in [Actions -> Rows]
  BY <1>1 DEF IInv, TypeOK, Expire
<1>3. \A b \in Actions : row'[b].op # "none" => b \in seen
  BY <1>1 DEF IInv, TypeOK, KeyInv, Expire
<1>. QED BY <1>2, <1>3, LeaveInv DEF Expire

\* a poll is sent,
LEMMA PollInv ==
  ASSUME IInv, NEW a \in Actions, Poll(a)
  PROVE  IInv'
<1>1. TypeOK'
  BY DEF IInv, TypeOK, Poll, Oldest, table, runtime
<1>2. KeyInv'
  BY DEF IInv, KeyInv, Poll, table, runtime
<1>. QED BY <1>1, <1>2 DEF IInv

\* a request is sent, with the stored key,
LEMMA SendInv ==
  ASSUME IInv, NEW a \in Actions, Send(a)
  PROVE  IInv'
<1>1. TypeOK'
  BY DEF IInv, TypeOK, Send, Oldest, table
<1>2. wire' \in SUBSET {<<b, b>> : b \in Actions}
  BY DEF IInv, KeyInv, Send, RequestKey
<1>3. KeyInv'
  BY <1>2 DEF IInv, KeyInv, Send, table
<1>. QED BY <1>1, <1>3 DEF IInv

\* After an abort, or a crash, the task has forgotten its batch.
LEMMA ForgetInv ==
  ASSUME IInv, stage' = "idle", todo' = {}, snap' = [b \in Actions |-> NoSnap],
         cur' \in Actions \cup {None}, answer' \in {None, answer},
         crashes' \in 0 .. MaxCrashes, UNCHANGED <<table, runtime, posted>>
  PROVE  IInv'
<1>1. TypeOK'
  BY AbsentType DEF IInv, TypeOK, table, runtime
<1>2. KeyInv'
  BY AbsentType DEF IInv, KeyInv, table, runtime
<1>. QED BY <1>1, <1>2 DEF IInv

\* a bad payload ends the cycle,
LEMMA AbortInv ==
  ASSUME IInv, NEW a \in Actions, Abort(a)
  PROVE  IInv'
BY ForgetInv DEF IInv, TypeOK, Abort

\* the process is started again,
LEMMA CrashInv ==
  ASSUME IInv, Crash
  PROVE  IInv'
<1>1. crashes' \in 0 .. MaxCrashes
  BY BoundAssumption DEF IInv, TypeOK, Crash
<1>. QED BY <1>1, ForgetInv DEF Crash

\* an answer is written to its row: an operation id came from the runtime,
LEMMA RecordInv ==
  ASSUME IInv, NEW a \in Actions, Record(a)
  PROVE  IInv'
<1>. DEFINE new == AfterCall(a, row[a], snap[a], answer)
<1>1. answer \in OkAnswers \cup ErrAnswers
  BY DEF IInv, TypeOK, Record
<1>2. new \in Rows /\ (new.op # "none" => row[a].op # "none" \/ answer \in OkAnswers)
  BY <1>1, AfterCallType DEF IInv, TypeOK
<1>3. row' = [row EXCEPT ![a] = new]
  BY DEF Record
<1>4. new.op # "none" => a \in seen
  BY <1>2 DEF IInv, KeyInv, Record
<1>. HIDE DEF new
<1>5. row' \in [Actions -> Rows]
  BY <1>2, <1>3 DEF IInv, TypeOK
<1>6. \A b \in Actions : row'[b].op # "none" => b \in seen
  BY <1>3, <1>4 DEF IInv, TypeOK, KeyInv
<1>. QED BY <1>5, <1>6, LeaveInv DEF Record

-----------------------------------------------------------------------------
(* The runtime and the network *)

\* A call is answered, with an acceptance only if the action was executed.
LEMMA AnsweredInv ==
  ASSUME IInv, NEW a \in Actions, Calling(a) \/ (cur = a /\ stage = "answered"),
         NEW ans \in OkAnswers \cup ErrAnswers, Answered(ans),
         ans \in OkAnswers => a \in seen,
         wire' \in SUBSET wire,
         UNCHANGED <<table, seen, ops, execs, crashes, posted>>
  PROVE  IInv'
<1>1. TypeOK'
  BY DEF IInv, TypeOK, Answered, Calling, table
<1>2. KeyInv'
  BY DEF IInv, KeyInv, Answered, Calling, table
<1>. QED BY <1>1, <1>2 DEF IInv

\* the runtime refuses a request,
LEMMA RefuseInv ==
  ASSUME IInv, NEW a \in Actions, NEW e \in Refusals,
         Refuse(a, ErrAnswer(e.code, e.retryable))
  PROVE  IInv'
<1>1. ErrAnswer(e.code, e.retryable) \in ErrAnswers \ OkAnswers
  BY RefusalAssumption DEF ErrAnswer, ErrAnswers, OkAnswers
<1>. HIDE DEF ErrAnswer
<1>. QED BY <1>1, AnsweredInv DEF Refuse

\* an answer is lost,
LEMMA FaultInv ==
  ASSUME IInv, NEW a \in Actions, NEW ans \in {Broken, ServerError}, Fault(a, ans)
  PROVE  IInv'
<1>1. Broken \in ErrAnswers /\ ServerError \in ErrAnswers
  BY DEF Broken, ServerError, ErrAnswer, ErrAnswers, ErrorCodes
<1>2. \A e \in ErrAnswers : e \notin OkAnswers
  BY DEF ErrAnswers, OkAnswers
<1>. HIDE DEF Broken, ServerError
<1>. QED BY <1>1, <1>2, AnsweredInv DEF Fault, Calling, runtime

\* an answer comes without its body,
LEMMA LoseBodyInv ==
  ASSUME IInv, NEW a \in Actions, LoseBody(a)
  PROVE  IInv'
<1>1. Bodiless \in OkAnswers
  BY StatusAssumption DEF Bodiless, OkAnswer, OkAnswers
<1>2. answer \in OkAnswers
  BY DEF IInv, TypeOK, LoseBody, ErrAnswers
<1>3. a \in seen
  BY <1>2 DEF IInv, KeyInv, LoseBody
<1>. HIDE DEF Bodiless
<1>. QED BY <1>1, <1>3, AnsweredInv DEF LoseBody, runtime

\* a poll is answered: there is an operation, as the row has its id,
LEMMA AnswerPollInv ==
  ASSUME IInv, NEW a \in Actions, AnswerPoll(a)
  PROVE  IInv'
<1>1. a \in seen
  BY DEF IInv, KeyInv, AnswerPoll
<1>2. ops[a] \in ReportedStatuses
  BY <1>1 DEF IInv, TypeOK, KeyInv
<1>3. OkAnswer(ops[a], "known") \in OkAnswers
  BY <1>2 DEF OkAnswer, OkAnswers
<1>. QED BY <1>1, <1>3, AnsweredInv DEF AnswerPoll, runtime

\* an operation moves on,
LEMMA ProgressInv ==
  ASSUME IInv, NEW a \in Actions, Progress(a)
  PROVE  IInv'
<1>. PICK s \in ReportedStatuses : ops' = [ops EXCEPT ![a] = s]
  BY DEF Progress
<1>1. TypeOK'
  BY DEF IInv, TypeOK, Progress, table, loop
<1>2. a \in seen /\ s # None
  BY StatusAssumption DEF IInv, KeyInv, Progress
<1>3. KeyInv'
  BY <1>2 DEF IInv, TypeOK, KeyInv, Progress, table, loop
<1>. QED BY <1>1, <1>3 DEF IInv

\* What a request does at the runtime, before its sender hears of it.
LEMMA ExecuteRuntime ==
  ASSUME IInv, NEW a \in Actions, NEW k, Execute(a, k)
  PROVE  /\ k = a /\ a \in seen' /\ seen \subseteq seen' /\ seen' \in SUBSET Actions
         /\ wire' \in SUBSET {<<b, b>> : b \in Actions}
         /\ ops' \in [Actions -> {None} \cup ReportedStatuses]
         /\ execs' \in [Actions -> Nat]
         /\ \A b \in Actions : execs'[b] = IF b \in seen' THEN 1 ELSE 0
         /\ \A b \in Actions : ops'[b] # None <=> b \in seen'
<1>1. k = a /\ wire' \in SUBSET {<<b, b>> : b \in Actions}
  BY DEF IInv, KeyInv, Execute
<1>2. CASE a \in seen
  BY <1>1, <1>2 DEF IInv, TypeOK, KeyInv, Execute
<1>3. CASE a \notin seen
  <2>1. seen' = seen \cup {a} /\ execs' = [execs EXCEPT ![a] = @ + 1]
    BY <1>1, <1>3 DEF Execute
  <2>2. PICK s \in ReportedStatuses : ops' = [ops EXCEPT ![a] = s]
    BY <1>1, <1>3 DEF Execute
  <2>3. s # None
    BY StatusAssumption
  <2>4. execs[a] = 0
    BY <1>3 DEF IInv, KeyInv
  <2>. QED BY <1>1, <1>3, <2>1, <2>2, <2>3, <2>4 DEF IInv, TypeOK, KeyInv
<1>. QED BY <1>2, <1>3

\* a request reaches the runtime: its key is executed once.
LEMMA ExecuteInv ==
  ASSUME IInv, NEW a \in Actions, NEW k, Execute(a, k)
  PROVE  IInv'
<1>1. UNCHANGED <<row, crashes, posted, todo, snap, cur>>
  BY DEF Execute, Answered, loop, table
<1>2. ops'[a] \in ReportedStatuses
  BY ExecuteRuntime
<1>3. CASE Calling(a) /\ ~Polls(snap[a])
  <2>1. PICK op \in {"blank", "known"} : Answered(OkAnswer(ops'[a], op))
    BY <1>3 DEF Execute
  <2>2. OkAnswer(ops'[a], op) \in OkAnswers
    BY <1>2 DEF OkAnswer, OkAnswers
  <2>3. answer' \in OkAnswers /\ stage' = "answered" /\ cur' = a
    BY <1>3, <2>1, <2>2 DEF Answered, Calling
  <2>4. TypeOK'
    BY <1>1, <1>3, <2>3, ExecuteRuntime DEF IInv, TypeOK, Calling
  <2>5. KeyInv'
    BY <1>1, <2>3, ExecuteRuntime DEF IInv, KeyInv
  <2>. QED BY <2>4, <2>5 DEF IInv
<1>4. CASE ~(Calling(a) /\ ~Polls(snap[a]))
  <2>1. UNCHANGED <<stage, answer>>
    BY <1>4 DEF Execute, loop
  <2>2. TypeOK'
    BY <1>1, <2>1, ExecuteRuntime DEF IInv, TypeOK
  <2>3. KeyInv'
    BY <1>1, <2>1, ExecuteRuntime DEF IInv, KeyInv
  <2>. QED BY <2>2, <2>3 DEF IInv
<1>. QED BY <1>3, <1>4

\* The invariant is inductive.
LEMMA NextInv == IInv /\ [Next]_vars => IInv'
<1>. SUFFICES ASSUME IInv, [Next]_vars PROVE IInv'
  OBVIOUS
<1>1. ASSUME NEW a \in Actions, Step(a) PROVE IInv'
  BY <1>1, ExpireInv, PollInv, SendInv, AbortInv, RecordInv DEF Step
<1>2. ASSUME NEW a \in Actions, Answers(a) PROVE IInv'
  BY <1>2, ExecuteInv, RefuseInv, AnswerPollInv, LoseBodyInv, FaultInv DEF Answers
<1>3. CASE UNCHANGED vars
  BY <1>3 DEF IInv, TypeOK, KeyInv, vars, table, runtime, loop
<1>. QED
  BY <1>1, <1>2, <1>3, EnqueueInv, ProgressInv, PostInv, TickInv, StartCycleInv,
     CrashInv DEF Next

\* The invariant holds always.
LEMMA Invariance == SafeSpec => []IInv
BY InitInv, NextInv, PTL DEF SafeSpec

\* Every column and loop variable keeps its type, whatever clients post.
THEOREM TypeCorrect == SafeSpec => []TypeOK
<1>1. IInv => TypeOK
  BY DEF IInv
<1>. QED BY <1>1, Invariance, PTL

\* However often an action is retried, replayed, or resent after a crash, at
\* most one operation is started for it: its key is the same every time.
THEOREM AtMostOneOperation == SafeSpec => []ExactlyOnce
<1>1. IInv => ExactlyOnce
  BY DEF IInv, KeyInv, ExactlyOnce
<1>. QED BY <1>1, Invariance, PTL

-----------------------------------------------------------------------------
(* The dispatch task is the only writer of a row once it is enqueued, save for *)
(* the status that a client posts: what it read is what it overwrites.        *)

\* The strengthening: snapshots are current, an accepting answer that says
\* "succeeded" is still true, only rows that exist are loaded and requested, and
\* posts leave alone what the task counts and polls by.
OwnInv ==
  /\ SnapshotFresh
  /\ TerminalAgrees
  /\ SuccessIsReal
  /\ (stage = "answered" /\ answer \in OkAnswers /\ answer.status = Success)
        => ops[cur] = Success
  /\ \A a \in Actions : <<a, a>> \in wire \/ a \in todo => row[a].status # "absent"
  /\ \A a \in todo : snap[a].op = row[a].op /\ snap[a].attempt = row[a].attempt

\* What the answer of a call makes of a row, and of one that was not settled.
LEMMA AfterCallPresent ==
  ASSUME NEW a \in Actions, NEW r \in Rows, NEW s \in Snapshots,
         NEW ans \in OkAnswers \cup ErrAnswers, r.status # "absent"
  PROVE  AfterCall(a, r, s, ans).status # "absent"
<1>1. \A t \in Terminal, q \in Rows : MarkTerminal(q, t).status = t /\ t # "absent"
  BY DEF MarkTerminal, Rows, Terminal, Failures, Success
<1>2. Bumped(s.attempt) \in 0 .. BackoffCap /\ Bumped(r.attempt) \in 0 .. BackoffCap
  BY BumpedType DEF Snapshots, Rows
<1>3. Backoff(Bumped(s.attempt)) \in Nat /\ PressureDelay \in Nat
  BY <1>2, BackoffType, TimeAssumption
<1>4. \A n \in 0 .. BackoffCap, d \in Nat : ScheduleRetry(r, n, d).status # "absent"
  BY ScheduleRetryType
<1>5. "failed" \in Terminal
  BY DEF Terminal, Failures
<1>6. CASE Polls(s)
  <2>1. CASE ans \in ErrAnswers
    BY <1>2, <1>3, <1>4, <1>6, <2>1 DEF AfterCall, AfterPoll, ErrAnswers
  <2>2. CASE ans \in OkAnswers
    <3>1. CASE ans.status \in NonTerminal
      BY <1>6, <2>2, <3>1 DEF AfterCall, AfterPoll, OkAnswers, Rows, NonTerminal
    <3>2. CASE ans.status \notin NonTerminal
      BY <1>1, <1>6, <2>2, <3>2 DEF AfterCall, AfterPoll, OkAnswers
    <3>. QED BY <3>1, <3>2
  <2>. QED BY <2>1, <2>2
<1>7. CASE ~Polls(s) /\ ans \in OkAnswers
  <2>. DEFINE sent == [r EXCEPT !.op = ans.op, !.attempt = Bumped(@), !.wait = 0]
  <2>1. sent \in Rows
    BY <1>2, <1>7 DEF Rows, OkAnswers, OpIds
  <2>2. AfterCall(a, r, s, ans) = IF ans.status \in Terminal
                                    THEN MarkTerminal(sent, ans.status)
                                    ELSE [sent EXCEPT !.status = ans.status]
    BY <1>7 DEF AfterCall, AfterAccept, OkAnswers
  <2>. HIDE DEF sent
  <2>3. [sent EXCEPT !.status = ans.status].status = ans.status /\ ans.status # "absent"
    BY <1>7, <2>1, StatusAssumption DEF Rows, OkAnswers
  <2>. QED BY <1>1, <2>1, <2>2, <2>3
<1>8. CASE ~Polls(s) /\ ans \in ErrAnswers
  BY <1>1, <1>2, <1>3, <1>4, <1>5, <1>8 DEF AfterCall, AfterRefusal, ErrAnswers
<1>. QED BY <1>6, <1>7, <1>8

LEMMA AfterCallStatus ==
  ASSUME NEW a \in Actions, NEW r \in Rows, NEW s \in Snapshots,
         NEW ans \in OkAnswers \cup ErrAnswers,
         r.status \in Candidates, r.terminal = None
  PROVE  LET new == AfterCall(a, r, s, ans) IN
         /\ new.status # "absent"
         /\ new.status = Success => ans \in OkAnswers /\ ans.status = Success
         /\ new.terminal = IF new.status \in Terminal THEN new.status ELSE None
<1>. USE DEF Terminal, Failures, Success, Candidates, NonTerminal
<1>1. ASSUME NEW t \in Terminal, NEW q \in Rows
      PROVE  MarkTerminal(q, t).status = t /\ MarkTerminal(q, t).terminal = t
  BY DEF MarkTerminal, Rows
<1>2. Bumped(s.attempt) \in 0 .. BackoffCap /\ Bumped(r.attempt) \in 0 .. BackoffCap
  BY BumpedType DEF Snapshots, Rows
<1>3. Backoff(Bumped(s.attempt)) \in Nat /\ PressureDelay \in Nat
  BY <1>2, BackoffType, TimeAssumption
<1>4. CASE Polls(s)
  <2>1. CASE ans \in OkAnswers
    <3>1. CASE ans.status \in NonTerminal
      BY <1>4, <2>1, <3>1 DEF AfterCall, AfterPoll, OkAnswers, Rows
    <3>2. CASE ans.status \in Terminal
      BY <1>1, <1>4, <2>1, <3>2 DEF AfterCall, AfterPoll, OkAnswers
    <3>3. CASE ans.status \notin NonTerminal \cup Terminal
      BY <1>4, <2>1, <3>3 DEF AfterCall, AfterPoll, OkAnswers
    <3>. QED BY <3>1, <3>2, <3>3
  <2>2. CASE ans \in ErrAnswers
    <3>. DEFINE new == ScheduleRetry(r, Bumped(s.attempt), Backoff(Bumped(s.attempt)))
    <3>1. AfterCall(a, r, s, ans) = new
      BY <1>4, <2>2 DEF AfterCall, AfterPoll, ErrAnswers
    <3>2. new.status = r.status /\ new.terminal = None
      BY <1>2, <1>3, ScheduleRetryType
    <3>. HIDE DEF new
    <3>. QED BY <3>1, <3>2
  <2>. QED BY <2>1, <2>2
<1>5. CASE ~Polls(s) /\ ans \in OkAnswers
  <2>. DEFINE sent == [r EXCEPT !.op = ans.op, !.attempt = Bumped(@), !.wait = 0]
  <2>1. sent \in Rows /\ sent.terminal = None
    BY <1>2, <1>5 DEF Rows, OkAnswers, OpIds
  <2>2. ans.status # "absent"
    BY <1>5, StatusAssumption DEF OkAnswers
  <2>3. AfterCall(a, r, s, ans) = IF ans.status \in Terminal
                                    THEN MarkTerminal(sent, ans.status)
                                    ELSE [sent EXCEPT !.status = ans.status]
    BY <1>5 DEF AfterCall, AfterAccept, OkAnswers
  <2>4. [sent EXCEPT !.status = ans.status].status = ans.status
        /\ [sent EXCEPT !.status = ans.status].terminal = None
    BY <2>1 DEF Rows
  <2>. HIDE DEF sent
  <2>5. CASE ans.status \in Terminal
    BY <1>1, <1>5, <2>1, <2>3, <2>5
  <2>6. CASE ans.status \notin Terminal
    BY <1>5, <2>2, <2>3, <2>4, <2>6
  <2>. QED BY <2>5, <2>6
<1>6. CASE ~Polls(s) /\ ans \in ErrAnswers
  <2>1. PICK d \in Nat : AfterCall(a, r, s, ans) \in
          {MarkTerminal(r, "failed"), ScheduleRetry(r, Bumped(s.attempt), d)}
    BY <1>3, <1>6 DEF AfterCall, AfterRefusal, ErrAnswers
  <2>2. ScheduleRetry(r, Bumped(s.attempt), d).status = r.status
        /\ ScheduleRetry(r, Bumped(s.attempt), d).terminal = None
    BY <1>2, ScheduleRetryType
  <2>3. MarkTerminal(r, "failed").status = "failed"
        /\ MarkTerminal(r, "failed").terminal = "failed"
    BY <1>1
  <2>. QED BY <2>1, <2>2, <2>3
<1>. QED BY <1>4, <1>5, <1>6

\* What a step does to the statuses of rows and to the operations: all that the
\* lifecycle sees of it.
RowsKeep == \A a \in Actions : /\ row'[a].status   = row[a].status
                               /\ row'[a].terminal = row[a].terminal

Created(a) == /\ row[a].status = "absent" /\ row'[a].status = "pending"
              /\ row'[a].terminal = row[a].terminal

\* A row is settled, or advanced: with the record that it should have, unless a
\* client has posted a result for it.
Settled(a) == /\ row[a].status # "absent" /\ row'[a].status # "absent"
              /\ a \notin posted =>
                   /\ row[a].status \in Candidates
                   /\ row'[a].status = Success => ops[a] = Success
                   /\ row'[a].terminal = IF row'[a].status \in Terminal
                                           THEN row'[a].status ELSE None

Others(a) == \A b \in Actions \ {a} : row'[b] = row[b]

\* The task visits only rows that are there, and candidates and due unless a
\* client has posted a result.
LEMMA VisitedIsCandidate ==
  ASSUME IInv, OwnInv, NEW a \in todo
  PROVE  /\ a \in Actions /\ row[a].status # "absent"
         /\ snap[a].op = row[a].op /\ snap[a].attempt = row[a].attempt
         /\ a \notin posted =>
              row[a].status \in Candidates /\ row[a].wait = 0 /\ snap[a] = SnapOf(row[a])
BY DEF IInv, TypeOK, OwnInv, SnapshotFresh, Due

\* What the task does to a row when its ttl is over ...
LEMMA ExpireEffect ==
  ASSUME IInv, OwnInv, NEW a \in Actions, Expire(a)
  PROVE  Settled(a) /\ Others(a) /\ row'[a].status = "failed"
<1>1. a \in todo
  BY DEF Expire, Oldest
<1>2. row[a].status # "absent" /\ (a \notin posted => row[a].status \in Candidates)
  BY <1>1, VisitedIsCandidate
<1>3. row'[a] = MarkTerminal(row[a], "failed") /\ Others(a)
  BY DEF Expire, IInv, TypeOK, Others
<1>4. row'[a].status = "failed" /\ row'[a].terminal = "failed"
  BY <1>3 DEF MarkTerminal, IInv, TypeOK, Rows
<1>. QED BY <1>2, <1>3, <1>4 DEF Settled, Success, Terminal, Failures

\* ... and when its answer came: the row was open and may be settled now.
LEMMA RecordEffect ==
  ASSUME IInv, OwnInv, NEW a \in Actions, Record(a)
  PROVE  Settled(a) /\ Others(a)
<1>. DEFINE new == AfterCall(a, row[a], snap[a], answer)
<1>1. a \in todo
  BY DEF Record, IInv, TypeOK
<1>2. row[a].status # "absent" /\ (a \notin posted => row[a].status \in Candidates)
  BY <1>1, VisitedIsCandidate
<1>3. a \notin posted => row[a].terminal = None
  BY <1>2 DEF OwnInv, TerminalAgrees, Candidates, NonTerminal, Terminal, Failures, Success
<1>4. row'[a] = new /\ Others(a)
  BY DEF Record, IInv, TypeOK, Others
<1>5. answer \in OkAnswers \cup ErrAnswers
  BY DEF Record, IInv, TypeOK
<1>6. row[a] \in Rows /\ snap[a] \in Snapshots
  BY DEF IInv, TypeOK
<1>7. new.status # "absent"
  BY <1>2, <1>5, <1>6, AfterCallPresent
<1>8. a \notin posted =>
        /\ new.status = Success => answer \in OkAnswers /\ answer.status = Success
        /\ new.terminal = IF new.status \in Terminal THEN new.status ELSE None
  BY <1>2, <1>3, <1>5, <1>6, AfterCallStatus
<1>. HIDE DEF new
<1>. QED BY <1>2, <1>4, <1>7, <1>8 DEF Settled, Record, OwnInv

\* Time changes nothing that the task goes by, and due rows stay due.
LEMMA TickEffect ==
  ASSUME IInv, Tick
  PROVE  /\ RowsKeep
         /\ \A a \in Actions : SnapOf(row'[a]) = SnapOf(row[a])
                               /\ (row[a].wait = 0 => row'[a].wait = 0)
BY DEF IInv, TypeOK, Rows, Tick, RowsKeep, SnapOf

\* Enqueueing adds one row and touches no other.
LEMMA EnqueueEffect ==
  ASSUME IInv, NEW a \in Actions, Enqueue(a)
  PROVE  Created(a) /\ Others(a)
BY DEF IInv, TypeOK, Rows, Enqueue, Created, Others

\* Nothing is enqueued at first.
LEMMA InitOwn == Init => OwnInv
<1>. SUFFICES ASSUME Init PROVE OwnInv
  OBVIOUS
<1>1. \A a \in Actions : row[a].status = "absent" /\ row[a].terminal = None
  BY DEF Init, Absent
<1>. QED
  BY <1>1 DEF Init, OwnInv, SnapshotFresh, TerminalAgrees, SuccessIsReal, Success,
       Terminal, Failures

\* Leaving a row whose update is an Expire or a Record.
LEMMA LeaveOwn ==
  ASSUME IInv, OwnInv, NEW a \in Actions, Leave(a), Settled(a), Others(a),
         UNCHANGED <<runtime, posted>>
  PROVE  OwnInv'
<1>1. UNCHANGED <<ops, wire, posted>>
  BY DEF runtime
<1>2. \A b \in Actions \ {a} : row'[b] = row[b]
  BY DEF Others
<1>3. \A b \in todo' : b \in todo /\ b \in Actions /\ row'[b] = row[b] /\ snap'[b] = snap[b]
  BY <1>2 DEF IInv, TypeOK, Leave
<1>4. SnapshotFresh'
  BY <1>1, <1>3 DEF OwnInv, SnapshotFresh, Due, SnapOf
<1>5. TerminalAgrees'
  BY <1>1, <1>2 DEF OwnInv, TerminalAgrees, Settled
<1>6. SuccessIsReal'
  BY <1>1, <1>2 DEF OwnInv, SuccessIsReal, Settled
<1>7. \A b \in Actions : <<b, b>> \in wire' \/ b \in todo' => row'[b].status # "absent"
  BY <1>1, <1>2, <1>3 DEF OwnInv, Settled
<1>8. stage' # "answered"
  BY DEF Leave
<1>9. \A b \in todo' : snap'[b].op = row'[b].op /\ snap'[b].attempt = row'[b].attempt
  BY <1>3 DEF OwnInv
<1>. QED BY <1>4, <1>5, <1>6, <1>7, <1>8, <1>9 DEF OwnInv

\* OwnInv, one lemma per action: a new row is in no batch,
LEMMA EnqueueOwn ==
  ASSUME IInv, OwnInv, NEW a \in Actions, Enqueue(a)
  PROVE  OwnInv'
<1>1. Created(a) /\ Others(a)
  BY EnqueueEffect
<1>2. UNCHANGED <<todo, snap, stage, answer, cur, ops, wire, posted>>
  BY DEF Enqueue, loop, runtime
<1>3. \A b \in todo : b # a /\ b \in Actions
  BY <1>1, VisitedIsCandidate DEF Created
<1>4. SnapshotFresh'
  BY <1>1, <1>2, <1>3 DEF OwnInv, SnapshotFresh, Due, SnapOf, Others
<1>5. TerminalAgrees'
  BY <1>1, <1>2 DEF OwnInv, TerminalAgrees, Created, Others, Terminal, Failures, Success
<1>6. SuccessIsReal'
  BY <1>1, <1>2 DEF OwnInv, SuccessIsReal, Created, Others, Success
<1>7. \A b \in Actions : <<b, b>> \in wire' \/ b \in todo' => row'[b].status # "absent"
  BY <1>1, <1>2 DEF OwnInv, Created, Others
<1>8. \A b \in todo' : snap'[b].op = row'[b].op /\ snap'[b].attempt = row'[b].attempt
  BY <1>1, <1>2, <1>3 DEF OwnInv, Others
<1>. QED BY <1>2, <1>4, <1>5, <1>6, <1>7, <1>8 DEF OwnInv

\* the rows of the batch stay due,
LEMMA TickOwn ==
  ASSUME IInv, OwnInv, Tick
  PROVE  OwnInv'
<1>1. UNCHANGED <<todo, snap, stage, answer, cur, ops, wire, posted>> /\ todo \in SUBSET Actions
  BY DEF Tick, loop, runtime, IInv, TypeOK
<1>2. SnapshotFresh'
  BY <1>1, TickEffect DEF OwnInv, SnapshotFresh, Due, RowsKeep
<1>3. TerminalAgrees' /\ SuccessIsReal'
  BY <1>1, TickEffect DEF OwnInv, TerminalAgrees, SuccessIsReal, RowsKeep
<1>4. \A b \in Actions : <<b, b>> \in wire' \/ b \in todo' => row'[b].status # "absent"
  BY <1>1, TickEffect DEF OwnInv, RowsKeep
<1>5. \A b \in todo' : snap'[b].op = row'[b].op /\ snap'[b].attempt = row'[b].attempt
  BY <1>1, TickEffect DEF OwnInv, SnapOf
<1>. QED BY <1>1, <1>2, <1>3, <1>4, <1>5 DEF OwnInv

\* a posted result is of a row that the task answers for no longer,
LEMMA PostOwn ==
  ASSUME IInv, OwnInv, NEW a \in Actions, NEW s \in PostedStatuses, Post(a, s)
  PROVE  OwnInv'
<1>1. UNCHANGED <<todo, snap, stage, answer, cur, ops, wire>> /\ posted' = posted \cup {a}
  BY DEF Post, loop, runtime
<1>2. /\ Others(a) /\ row'[a].status = s /\ s # "absent"
      /\ row'[a].op = row[a].op /\ row'[a].attempt = row[a].attempt
  BY StatusAssumption DEF Post, Others, IInv, TypeOK, Rows
<1>3. todo \in SUBSET Actions
  BY DEF IInv, TypeOK
<1>4. SnapshotFresh'
  BY <1>1, <1>2, <1>3 DEF OwnInv, SnapshotFresh, Due, Others
<1>5. TerminalAgrees' /\ SuccessIsReal'
  BY <1>1, <1>2 DEF OwnInv, TerminalAgrees, SuccessIsReal, Others
<1>6. \A b \in Actions : <<b, b>> \in wire' \/ b \in todo' => row'[b].status # "absent"
  BY <1>1, <1>2 DEF OwnInv, Others
<1>7. \A b \in todo' : snap'[b].op = row'[b].op /\ snap'[b].attempt = row'[b].attempt
  BY <1>1, <1>2, <1>3 DEF OwnInv, Others
<1>. QED BY <1>1, <1>4, <1>5, <1>6, <1>7 DEF OwnInv

\* Steps of the task that leave the table and the operations alone.
LEMMA LoopOwn ==
  ASSUME IInv, OwnInv, UNCHANGED <<row, ops, posted>>, stage' # "answered",
         \A a \in todo' : \/ a \in todo /\ snap'[a] = snap[a]
                          \/ a \in Actions /\ snap'[a] = SnapOf(row[a]) /\ Due(a),
         \A a \in Actions : <<a, a>> \in wire' => row[a].status # "absent"
  PROVE  OwnInv'
<1>1. SnapshotFresh'
  BY DEF OwnInv, SnapshotFresh, Due
<1>2. \A a \in todo' : /\ row[a].status # "absent"
                       /\ snap'[a].op = row[a].op /\ snap'[a].attempt = row[a].attempt
  <2>1. ASSUME NEW a \in todo
        PROVE  /\ row[a].status # "absent"
               /\ snap[a].op = row[a].op /\ snap[a].attempt = row[a].attempt
    BY VisitedIsCandidate
  <2>2. ASSUME NEW a \in Actions, Due(a) PROVE row[a].status # "absent"
    BY <2>2 DEF Due, Candidates, NonTerminal
  <2>3. \A r : SnapOf(r).op = r.op /\ SnapOf(r).attempt = r.attempt
    BY DEF SnapOf
  <2>. HIDE DEF SnapOf, Due
  <2>. QED BY <2>1, <2>2, <2>3
<1>. QED BY <1>1, <1>2 DEF OwnInv, TerminalAgrees, SuccessIsReal

\* the task settles only open rows that it has loaded afresh,
LEMMA TaskOwn ==
  ASSUME IInv, OwnInv,
         StartCycle \/ Crash \/ \E a \in Actions : Step(a)
  PROVE  OwnInv'
<1>1. CASE StartCycle
  <2>1. \A a \in todo' : a \in Actions /\ snap'[a] = SnapOf(row[a]) /\ Due(a)
    BY <1>1 DEF StartCycle, Batches
  <2>. QED BY <1>1, <2>1, LoopOwn DEF StartCycle, table, runtime, OwnInv
<1>2. CASE Crash
  BY <1>2, LoopOwn DEF Crash, table, runtime, OwnInv
<1>3. ASSUME NEW a \in Actions, Expire(a) PROVE OwnInv'
  BY <1>3, ExpireEffect, LeaveOwn DEF Expire
<1>4. ASSUME NEW a \in Actions, Record(a) PROVE OwnInv'
  BY <1>4, RecordEffect, LeaveOwn DEF Record
<1>5. ASSUME NEW a \in Actions, Poll(a) PROVE OwnInv'
  BY <1>5, LoopOwn DEF Poll, table, runtime, OwnInv
<1>6. ASSUME NEW a \in Actions, Send(a) PROVE OwnInv'
  <2>1. row[a].status # "absent"
    BY <1>6, VisitedIsCandidate DEF Send, Oldest
  <2>2. \A b \in Actions : <<b, b>> \in wire' => row[b].status # "absent"
    BY <1>6, <2>1 DEF Send, RequestKey, OwnInv
  <2>. QED BY <1>6, <2>2, LoopOwn DEF Send, table
<1>7. ASSUME NEW a \in Actions, Abort(a) PROVE OwnInv'
  BY <1>7, LoopOwn DEF Abort, table, runtime, OwnInv
<1>. QED BY <1>1, <1>2, <1>3, <1>4, <1>5, <1>6, <1>7 DEF Step

\* Steps of the runtime: operations that succeeded stay so, and an accepting
\* answer reports the operation as it is.
LEMMA RuntimeOwn ==
  ASSUME IInv, OwnInv, UNCHANGED <<row, todo, snap, posted>>, wire' \in SUBSET wire,
         \A a \in Actions : ops[a] = Success => ops'[a] = Success,
         \/ UNCHANGED <<stage, answer, cur>>
         \/ answer' \in ErrAnswers
         \/ answer'.status = ops'[cur']
         \/ answer'.status # Success
  PROVE  OwnInv'
<1>1. SnapshotFresh'
  BY DEF OwnInv, SnapshotFresh, Due
<1>2. TerminalAgrees' /\ SuccessIsReal'
  BY DEF OwnInv, TerminalAgrees, SuccessIsReal
<1>3. /\ \A a \in Actions : <<a, a>> \in wire' \/ a \in todo' => row'[a].status # "absent"
      /\ \A a \in todo' : snap'[a].op = row'[a].op /\ snap'[a].attempt = row'[a].attempt
  BY DEF OwnInv
<1>4. stage = "answered" => cur \in Actions
  BY DEF IInv, TypeOK
<1>5. (stage' = "answered" /\ answer' \in OkAnswers /\ answer'.status = Success)
        => ops'[cur'] = Success
  BY <1>4 DEF OwnInv, ErrAnswers, OkAnswers
<1>. QED BY <1>1, <1>2, <1>3, <1>5 DEF OwnInv

\* an operation that succeeded stays so,
LEMMA ProgressOwn ==
  ASSUME IInv, OwnInv, NEW a \in Actions, Progress(a)
  PROVE  OwnInv'
<1>1. \A b \in Actions : ops[b] = Success => ops'[b] = Success
  BY DEF Progress, Terminal, IInv, TypeOK
<1>. QED BY <1>1, RuntimeOwn DEF Progress, table, loop

\* and an acceptance that says succeeded is one of a success.
LEMMA AnswersOwn ==
  ASSUME IInv, OwnInv, NEW a \in Actions, Answers(a)
  PROVE  OwnInv'
<1>1. ASSUME NEW k, Execute(a, k) PROVE OwnInv'
  <2>1. k = a /\ wire' \in SUBSET wire /\ UNCHANGED row
    BY <1>1, ExecuteRuntime DEF Execute, table
  <2>5. UNCHANGED posted
    BY <1>1 DEF Execute
  <2>2. \A b \in Actions : ops[b] = Success => ops'[b] = Success
    <3>1. Success # None
      BY StatusAssumption DEF Terminal
    <3>. QED BY <1>1, <2>1, <3>1 DEF Execute, IInv, KeyInv, TypeOK
  <2>3. UNCHANGED <<todo, snap>>
    BY <1>1 DEF Execute, Answered, loop
  <2>4. UNCHANGED <<stage, answer, cur>> \/ answer'.status = ops'[cur']
    <3>1. CASE Calling(a) /\ ~Polls(snap[a])
      BY <1>1, <3>1 DEF Execute, Answered, Calling, OkAnswer
    <3>2. CASE ~(Calling(a) /\ ~Polls(snap[a]))
      BY <1>1, <3>2 DEF Execute, loop
    <3>. QED BY <3>1, <3>2
  <2>. QED BY <2>1, <2>2, <2>3, <2>4, <2>5, RuntimeOwn
<1>2. ASSUME NEW e \in Refusals, Refuse(a, ErrAnswer(e.code, e.retryable)) PROVE OwnInv'
  <2>1. ErrAnswer(e.code, e.retryable) \in ErrAnswers
    BY RefusalAssumption DEF ErrAnswer, ErrAnswers
  <2>. HIDE DEF ErrAnswer
  <2>. QED BY <1>2, <2>1, RuntimeOwn DEF Refuse, Answered, table
<1>3. ASSUME AnswerPoll(a) PROVE OwnInv'
  BY <1>3, RuntimeOwn DEF AnswerPoll, Answered, Calling, OkAnswer, table, runtime
<1>4. ASSUME NEW ans \in {Broken, ServerError}, Fault(a, ans) PROVE OwnInv'
  <2>1. Broken \in ErrAnswers /\ ServerError \in ErrAnswers
    BY DEF Broken, ServerError, ErrAnswer, ErrAnswers, ErrorCodes
  <2>. HIDE DEF Broken, ServerError
  <2>. QED BY <1>4, <2>1, RuntimeOwn DEF Fault, Answered, table, runtime
<1>5. ASSUME LoseBody(a) PROVE OwnInv'
  <2>1. Bodiless.status # Success
    BY DEF Bodiless, OkAnswer, Success
  <2>. HIDE DEF Bodiless
  <2>. QED BY <1>5, <2>1, RuntimeOwn DEF LoseBody, Answered, table, runtime
<1>. QED BY <1>1, <1>2, <1>3, <1>4, <1>5 DEF Answers

\* OwnInv is inductive with the types.
LEMMA OwnNext ==
  ASSUME IInv, OwnInv, [Next]_vars
  PROVE  OwnInv'
<1>1. CASE UNCHANGED vars
  BY <1>1, RuntimeOwn DEF vars, table, runtime, loop
<1>. QED
  BY <1>1, EnqueueOwn, PostOwn, TickOwn, TaskOwn, ProgressOwn, AnswersOwn DEF Next

\* So both invariants hold always.
LEMMA Ownership == SafeSpec => [](IInv /\ OwnInv)
<1>1. IInv /\ OwnInv /\ [Next]_vars => OwnInv'
  BY OwnNext
<1>. QED BY <1>1, InitInv, InitOwn, NextInv, PTL DEF SafeSpec

\* What process_action goes by is never stale, save for a posted status.
THEOREM FreshSnapshots == SafeSpec => []SnapshotFresh
<1>1. OwnInv => SnapshotFresh
  BY DEF OwnInv
<1>. QED BY <1>1, Ownership, PTL

\* terminal_status and status agree in every state, save for a posted status.
THEOREM TerminalColumnsAgree == SafeSpec => []TerminalAgrees
<1>1. OwnInv => TerminalAgrees
  BY DEF OwnInv
<1>. QED BY <1>1, Ownership, PTL

\* The task records "succeeded" only of an operation that the runtime carried out.
THEOREM SuccessIsTrue == SafeSpec => []SuccessIsReal
<1>1. OwnInv => SuccessIsReal
  BY DEF OwnInv
<1>. QED BY <1>1, Ownership, PTL

\* A posted result changes one row that is there, and the row is known for it.
Overridden(a) == /\ row[a].status # "absent" /\ row'[a].status # "absent"
                 /\ posted' = posted \cup {a}

\* Every step keeps all rows as the lifecycle sees them, enqueues one, settles or
\* advances one, or posts a result for one.
LEMMA StepEffect ==
  ASSUME IInv, OwnInv, [Next]_vars
  PROVE  \/ RowsKeep /\ UNCHANGED posted
         \/ UNCHANGED <<ops, posted>> /\ \E a \in Actions : Created(a) /\ Others(a)
         \/ UNCHANGED <<ops, posted>> /\ \E a \in Actions : Settled(a) /\ Others(a)
         \/ UNCHANGED ops /\ \E a \in Actions : Overridden(a) /\ Others(a)
<1>1. ASSUME UNCHANGED row PROVE RowsKeep
  BY <1>1 DEF RowsKeep
<1>2. ASSUME NEW a \in Actions, Step(a)
      PROVE  UNCHANGED posted /\ (RowsKeep \/ (UNCHANGED ops /\ Settled(a) /\ Others(a)))
  <2>1. CASE Expire(a)
    BY <2>1, ExpireEffect DEF Expire, runtime
  <2>2. CASE Record(a)
    BY <2>2, RecordEffect DEF Record, runtime
  <2>3. CASE Poll(a) \/ Send(a) \/ Abort(a)
    BY <1>1, <2>3 DEF Poll, Send, Abort, table
  <2>. QED BY <1>2, <2>1, <2>2, <2>3 DEF Step
<1>3. ASSUME NEW a \in Actions, Answers(a) PROVE RowsKeep /\ UNCHANGED posted
  BY <1>1, <1>3 DEF Answers, Execute, Refuse, AnswerPoll, LoseBody, Fault, table
<1>4. ASSUME NEW a \in Actions, Enqueue(a)
      PROVE  UNCHANGED <<ops, posted>> /\ Created(a) /\ Others(a)
  BY <1>4, EnqueueEffect DEF Enqueue, runtime
<1>5. ASSUME NEW a \in Actions, Progress(a) PROVE RowsKeep /\ UNCHANGED posted
  BY <1>1, <1>5 DEF Progress, table
<1>6. ASSUME NEW a \in Actions, NEW s \in PostedStatuses, Post(a, s)
      PROVE  UNCHANGED ops /\ Overridden(a) /\ Others(a)
  BY <1>6, StatusAssumption DEF Post, Overridden, Others, runtime, IInv, TypeOK, Rows
<1>7. CASE Tick
  BY <1>7, TickEffect DEF Tick
<1>8. CASE StartCycle \/ Crash \/ UNCHANGED vars
  BY <1>1, <1>8 DEF StartCycle, Crash, vars, table
<1>. QED BY <1>2, <1>3, <1>4, <1>5, <1>6, <1>7, <1>8 DEF Next

\* A settled action is never reopened or rewritten by the dispatch task.
THEOREM TerminalForEver == SafeSpec => TerminalIsFinal
<1>1. ASSUME IInv, OwnInv, [Next]_vars, NEW a \in Actions \ posted', row[a].status \in Terminal
      PROVE  row'[a].status = row[a].status /\ row'[a].terminal = row[a].terminal
  BY <1>1, StepEffect
  DEF RowsKeep, Created, Settled, Overridden, Others, Candidates, NonTerminal, Terminal,
      Failures, Success
<1>2. IInv /\ OwnInv /\ [Next]_vars
        => [\A a \in Actions \ posted' : row[a].status \in Terminal =>
              row'[a].status = row[a].status /\ row'[a].terminal = row[a].terminal]_vars
  BY <1>1
<1>. QED BY <1>2, Ownership, PTL DEF SafeSpec, TerminalIsFinal

-----------------------------------------------------------------------------
(* The loop implements the lifecycle *)

\* What the runtime does to the operations, as the lifecycle sees it.
LEMMA OpsEffect ==
  ASSUME IInv, OwnInv, [Next]_vars
  PROVE  \/ UNCHANGED ops
         \/ /\ UNCHANGED <<row, posted>>
            /\ \E a \in Actions :
                 /\ \A b \in Actions \ {a} : ops'[b] = ops[b]
                 /\ ops'[a] # None
                 /\ ops[a] = None => row[a].status # "absent"
                 /\ ops[a] # Success
<1>. USE DEF Terminal
<1>1. ASSUME NEW a \in Actions, Progress(a)
      PROVE  /\ UNCHANGED <<row, posted>>
             /\ \A b \in Actions \ {a} : ops'[b] = ops[b]
             /\ ops'[a] # None /\ ops[a] # None /\ ops[a] # Success
  BY <1>1, StatusAssumption DEF Progress, IInv, TypeOK, table
<1>2. ASSUME NEW a \in Actions, NEW k, Execute(a, k)
      PROVE  \/ UNCHANGED ops
             \/ /\ UNCHANGED <<row, posted>>
                /\ \A b \in Actions \ {a} : ops'[b] = ops[b]
                /\ ops'[a] # None /\ ops[a] # Success
                /\ row[a].status # "absent"
  <2>1. k = a /\ ops'[a] # None
    BY <1>2, ExecuteRuntime
  <2>2. row[a].status # "absent"
    BY <1>2, <2>1 DEF Execute, OwnInv
  <2>3. CASE a \in seen
    BY <1>2, <2>1, <2>3 DEF Execute
  <2>4. CASE a \notin seen
    <3>1. ops[a] = None /\ Success # None
      BY <2>4, StatusAssumption DEF IInv, KeyInv
    <3>. QED BY <1>2, <2>1, <2>2, <2>4, <3>1 DEF Execute, IInv, TypeOK, table
  <2>. QED BY <2>3, <2>4
<1>3. ASSUME NEW a \in Actions, Answers(a)
      PROVE  UNCHANGED ops \/ \E k : Execute(a, k)
  BY <1>3 DEF Answers, Refuse, AnswerPoll, LoseBody, Fault, runtime
<1>4. ASSUME NEW a \in Actions, Step(a) PROVE UNCHANGED ops
  BY <1>4 DEF Step, Expire, Poll, Send, Abort, Record, runtime
<1>5. ASSUME NEW a \in Actions, Enqueue(a) PROVE UNCHANGED ops
  BY <1>5 DEF Enqueue, runtime
<1>6. ASSUME NEW a \in Actions, NEW s, Post(a, s) PROVE UNCHANGED ops
  BY <1>6 DEF Post, runtime
<1>7. CASE Tick \/ StartCycle \/ Crash \/ UNCHANGED vars
  BY <1>7 DEF Tick, StartCycle, Crash, vars, runtime
<1>. QED BY <1>1, <1>2, <1>3, <1>4, <1>5, <1>6, <1>7 DEF Next

PhaseBar  == [a \in Actions |-> PhaseOf(row[a].status)]
EffectBar == [a \in Actions |-> EffectOf(ops[a])]

\* The lifecycle starts as the dispatch loop does ...
LEMMA LifecycleInit == Init => Lifecycle!Init
BY DEF Init, Absent, Lifecycle!Init, PhaseOf, EffectOf

\* ... and every step of the loop is one of its steps or none.
LEMMA LifecycleStep ==
  ASSUME IInv, OwnInv, [Next]_vars
  PROVE  [Lifecycle!Next]_(Lifecycle!vars)
<1>. USE DEF Success, Failures, Candidates, NonTerminal
<1>1. ASSUME UNCHANGED ops PROVE EffectBar' = EffectBar
  BY <1>1 DEF EffectBar
<1>2. ASSUME RowsKeep PROVE PhaseBar' = PhaseBar
  BY <1>2 DEF PhaseBar, RowsKeep
<1>3. CASE UNCHANGED <<ops, posted>> /\ \E a \in Actions : Created(a) /\ Others(a)
  <2>. PICK a \in Actions : Created(a) /\ Others(a)
    BY <1>3
  <2>1. PhaseBar[a] = "absent" /\ PhaseBar' = [PhaseBar EXCEPT ![a] = "open"]
    BY DEF PhaseBar, PhaseOf, Created, Others
  <2>2. Lifecycle!Submit(a)
    BY <1>1, <1>3, <2>1 DEF Lifecycle!Submit, PhaseBar, EffectBar
  <2>. QED BY <2>2 DEF Lifecycle!Next
<1>4. CASE UNCHANGED <<ops, posted>> /\ \E a \in Actions \ posted : Settled(a) /\ Others(a)
  <2>. PICK a \in Actions \ posted : Settled(a) /\ Others(a)
    BY <1>4
  <2>1. PhaseBar[a] = "open"
    BY DEF PhaseBar, PhaseOf, Settled
  <2>2. PhaseBar' = [PhaseBar EXCEPT ![a] = PhaseOf(row'[a].status)]
    BY DEF PhaseBar, Others
  <2>3. CASE row'[a].status = Success
    <3>1. EffectBar[a] = "done"
      BY <2>3, StatusAssumption DEF EffectBar, EffectOf, Settled, Terminal
    <3>2. Lifecycle!Succeed(a)
      BY <1>1, <1>4, <2>1, <2>2, <2>3, <3>1
      DEF Lifecycle!Succeed, PhaseBar, EffectBar, PhaseOf
    <3>. QED BY <3>2 DEF Lifecycle!Next, Lifecycle!Settle
  <2>4. CASE row'[a].status \in Failures
    <3>1. Lifecycle!Fail(a)
      BY <1>1, <1>4, <2>1, <2>2, <2>4 DEF Lifecycle!Fail, PhaseBar, EffectBar, PhaseOf
    <3>. QED BY <3>1 DEF Lifecycle!Next, Lifecycle!Settle
  <2>5. CASE row'[a].status \notin Failures \cup {Success}
    <3>1. PhaseOf(row'[a].status) = "open"
      BY <2>5 DEF PhaseOf, Settled
    <3>2. PhaseBar' = PhaseBar
      BY <2>1, <2>2, <3>1 DEF PhaseBar
    <3>. QED BY <1>1, <1>4, <3>2 DEF Lifecycle!vars, PhaseBar, EffectBar
  <2>. QED BY <2>3, <2>4, <2>5
<1>5. CASE RowsKeep /\ UNCHANGED <<ops, posted>>
  BY <1>1, <1>2, <1>5 DEF Lifecycle!vars, PhaseBar, EffectBar
<1>6. CASE RowsKeep /\ UNCHANGED posted /\ ~UNCHANGED ops
  <2>. PICK a \in Actions :
         /\ \A b \in Actions \ {a} : ops'[b] = ops[b]
         /\ ops'[a] # None
         /\ ops[a] = None => row[a].status # "absent"
         /\ ops[a] # Success
    BY <1>6, OpsEffect
  <2>1. EffectBar' = [EffectBar EXCEPT ![a] = EffectOf(ops'[a])]
    BY DEF EffectBar
  <2>2. EffectOf(ops'[a]) \in {"started", "done"}
    BY DEF EffectOf
  <2>3. CASE ops[a] = None
    <3>1. EffectBar[a] = "none" /\ PhaseBar[a] # "absent"
      BY <2>3 DEF EffectBar, EffectOf, PhaseBar, PhaseOf
    <3>2. Lifecycle!Start(a)
      BY <1>2, <1>6, <2>1, <2>2, <3>1 DEF Lifecycle!Start, PhaseBar, EffectBar
    <3>. QED BY <3>2 DEF Lifecycle!Next
  <2>4. CASE ops[a] # None
    <3>1. EffectBar[a] = "started"
      BY <2>4 DEF EffectBar, EffectOf
    <3>2. CASE EffectOf(ops'[a]) = "done"
      <4>1. Lifecycle!Finish(a)
        BY <1>2, <1>6, <2>1, <3>1, <3>2 DEF Lifecycle!Finish, PhaseBar, EffectBar
      <4>. QED BY <4>1 DEF Lifecycle!Next
    <3>3. CASE EffectOf(ops'[a]) = "started"
      <4>1. EffectBar' = EffectBar
        BY <2>1, <3>1, <3>3 DEF EffectBar
      <4>. QED BY <1>2, <1>6, <4>1 DEF Lifecycle!vars, PhaseBar, EffectBar
    <3>. QED BY <2>2, <3>2, <3>3
  <2>. QED BY <2>3, <2>4
<1>7. ASSUME NEW a \in Actions, Others(a), UNCHANGED ops, posted' = posted \cup {a},
             row[a].status # "absent", row'[a].status # "absent"
      PROVE  Lifecycle!Next
  <2>1. PhaseBar[a] # "absent" /\ PhaseBar' = [PhaseBar EXCEPT ![a] = PhaseOf(row'[a].status)]
    BY <1>7 DEF PhaseBar, PhaseOf, Others
  <2>2. PhaseOf(row'[a].status) \in Lifecycle!Phases \ {"absent"}
    BY <1>7 DEF PhaseOf, Lifecycle!Phases
  <2>3. Lifecycle!Override(a)
    BY <1>1, <1>7, <2>1, <2>2 DEF Lifecycle!Override, PhaseBar, EffectBar
  <2>. QED BY <2>3 DEF Lifecycle!Next
<1>8. CASE UNCHANGED <<ops, posted>> /\ \E a \in posted : Settled(a) /\ Others(a)
  BY <1>7, <1>8 DEF Settled, IInv, TypeOK
<1>9. CASE UNCHANGED ops /\ \E a \in Actions : Overridden(a) /\ Others(a)
  BY <1>7, <1>9 DEF Overridden
<1>. QED BY <1>3, <1>4, <1>5, <1>6, <1>8, <1>9, StepEffect

\* The dispatch loop implements the abstract lifecycle of an action (safety).
THEOREM Implementation == SafeSpec => ImplementsLifecycle
<1>1. IInv /\ OwnInv /\ [Next]_vars => [Lifecycle!Next]_(Lifecycle!vars)
  BY LifecycleStep
<1>. QED
  BY <1>1, LifecycleInit, Ownership, PTL
  DEF SafeSpec, ImplementsLifecycle, Lifecycle!SafeSpec

-----------------------------------------------------------------------------
(* A status that the code does not know                                      *)

\* A row that is in flight, or was left with a status of the runtime's own, has
\* the operation id that came with it.
InFlightHasOp(r) ==
  r.status \notin {"absent", "pending"} \cup Terminal => r.op # "none"

\* The operation id of an acceptance, and a retry, change no more than they say.
LEMMA AfterCallInFlight ==
  ASSUME NEW a \in Actions, NEW r \in Rows, NEW s \in Snapshots, s.op = r.op,
         NEW ans \in OkAnswers \cup ErrAnswers, InFlightHasOp(r)
  PROVE  InFlightHasOp(AfterCall(a, r, s, ans))
<1>1. Bumped(s.attempt) \in 0 .. BackoffCap /\ Bumped(r.attempt) \in 0 .. BackoffCap
  BY BumpedType DEF Snapshots, Rows
<1>2. Backoff(Bumped(s.attempt)) \in Nat /\ PressureDelay \in Nat
  BY <1>1, BackoffType, TimeAssumption
<1>3. \A q \in Rows, t \in Terminal : MarkTerminal(q, t).status = t
  BY DEF MarkTerminal, Rows
<1>4. "failed" \in Terminal
  BY DEF Terminal, Failures
<1>5. \A n \in 0 .. BackoffCap, d \in Nat : InFlightHasOp(ScheduleRetry(r, n, d))
  BY ScheduleRetryType DEF InFlightHasOp
<1>6. CASE Polls(s)
  <2>1. CASE ans \in ErrAnswers
    BY <1>1, <1>2, <1>5, <1>6, <2>1 DEF AfterCall, AfterPoll, ErrAnswers
  <2>2. CASE ans \in OkAnswers /\ ans.status \in NonTerminal
    <3>1. AfterCall(a, r, s, ans).op = r.op
      BY <1>6, AfterPollType DEF AfterCall
    <3>. QED BY <1>6, <3>1 DEF Polls, InFlightHasOp
  <2>3. CASE ans \in OkAnswers /\ ans.status \notin NonTerminal
    BY <1>3, <1>6, <2>3 DEF AfterCall, AfterPoll, OkAnswers, InFlightHasOp
  <2>. QED BY <2>1, <2>2, <2>3
<1>7. CASE ~Polls(s) /\ ans \in OkAnswers
  <2>. DEFINE sent == [r EXCEPT !.op = ans.op, !.attempt = Bumped(@), !.wait = 0]
  <2>1. sent \in Rows /\ sent.op # "none"
    BY <1>1, <1>7 DEF Rows, OkAnswers, OpIds
  <2>2. AfterCall(a, r, s, ans) = IF ans.status \in Terminal
                                    THEN MarkTerminal(sent, ans.status)
                                    ELSE [sent EXCEPT !.status = ans.status]
    BY <1>7 DEF AfterCall, AfterAccept, OkAnswers
  <2>. HIDE DEF sent
  <2>3. [sent EXCEPT !.status = ans.status].op = sent.op
    BY <2>1 DEF Rows
  <2>. QED BY <1>3, <2>1, <2>2, <2>3 DEF InFlightHasOp
<1>8. CASE ~Polls(s) /\ ans \in ErrAnswers
  <2>1. PICK d \in Nat : AfterCall(a, r, s, ans) \in
          {MarkTerminal(r, "failed"), ScheduleRetry(r, Bumped(s.attempt), d)}
    BY <1>2, <1>8 DEF AfterCall, AfterRefusal, ErrAnswers
  <2>2. InFlightHasOp(MarkTerminal(r, "failed"))
    BY <1>3, <1>4 DEF InFlightHasOp
  <2>. QED BY <1>1, <1>5, <2>1, <2>2
<1>. QED BY <1>6, <1>7, <1>8

InFlight == \A a \in Actions \ posted : InFlightHasOp(row[a])

\* It is kept for the rows that no client posted a result for.
LEMMA InFlightNext ==
  ASSUME IInv, OwnInv, InFlight, [Next]_vars
  PROVE  InFlight'
<1>. USE DEF InFlight
<1>1. ASSUME UNCHANGED <<row, posted>> PROVE InFlight'
  BY <1>1
<1>2. ASSUME NEW a \in Actions, Expire(a) PROVE InFlight'
  BY <1>2, ExpireEffect DEF Expire, Others, InFlightHasOp, Terminal, Failures
<1>3. ASSUME NEW a \in Actions, Record(a) PROVE InFlight'
  <2>1. snap[a].op = row[a].op
    BY <1>3, VisitedIsCandidate DEF Record, IInv, TypeOK
  <2>2. row'[a] = AfterCall(a, row[a], snap[a], answer) /\ Others(a)
    BY <1>3 DEF Record, IInv, TypeOK, Others
  <2>3. a \notin posted => InFlightHasOp(AfterCall(a, row[a], snap[a], answer))
    BY <1>3, <2>1, AfterCallInFlight DEF Record, IInv, TypeOK
  <2>. QED BY <1>3, <2>2, <2>3 DEF Others, Record
<1>4. ASSUME NEW a \in Actions, Enqueue(a) PROVE InFlight'
  BY <1>4, EnqueueEffect DEF Enqueue, Created, Others, InFlightHasOp
<1>5. CASE Tick
  BY <1>5, TickEffect DEF Tick, RowsKeep, SnapOf, InFlightHasOp
<1>6. ASSUME NEW a \in Actions, Poll(a) \/ Send(a) \/ Abort(a) \/ Progress(a) PROVE InFlight'
  BY <1>1, <1>6 DEF Poll, Send, Abort, Progress, table
<1>7. ASSUME NEW a \in Actions, Answers(a) PROVE InFlight'
  BY <1>1, <1>7 DEF Answers, Execute, Refuse, AnswerPoll, LoseBody, Fault, table
<1>8. CASE StartCycle \/ Crash \/ UNCHANGED vars
  BY <1>1, <1>8 DEF StartCycle, Crash, vars, table
<1>9. ASSUME NEW a \in Actions, NEW s, Post(a, s) PROVE InFlight'
  BY <1>9 DEF Post, IInv, TypeOK
<1>. QED BY <1>2, <1>3, <1>4, <1>5, <1>6, <1>7, <1>8, <1>9 DEF Next, Step

\* What no cycle visits again and nobody settled carries a status that came with
\* an operation.
THEOREM StrandedByTheRuntime == SafeSpec => []OnlyUnknownStatusStrands
<1>1. Init => InFlight
  BY DEF Init, Absent, InFlight, InFlightHasOp
<1>2. IInv /\ OwnInv /\ InFlight => OnlyUnknownStatusStrands
  BY DEF IInv, KeyInv, OwnInv, TerminalAgrees, InFlight, InFlightHasOp,
         OnlyUnknownStatusStrands, Candidates
<1>3. IInv /\ OwnInv /\ InFlight /\ [Next]_vars => InFlight'
  BY InFlightNext
<1>. QED BY <1>1, <1>2, <1>3, Ownership, PTL DEF SafeSpec

-----------------------------------------------------------------------------
(* The order in which rows are sent                                          *)

Tried(r) == r.attempt > 0 \/ r.status \in Terminal

Younger(b, a) == row[b].status # "absent" /\ row[b].age < row[a].age

Sent(b) == b \in seen \/ <<b, b>> \in wire

\* Every attempt is counted, whoever posts results.
Counted(r) ==
  /\ r.status = "absent" => r.age = 0 /\ r.wait = 0
  /\ r.op # "none" => r.attempt > 0

\* A row that was not tried is as it was enqueued, and is due.
Untried(r) ==
  ~Tried(r) /\ r.status # "absent" => r.status = "pending" /\ r.wait = 0

\* b is past a: it was sent, or is in a batch that a is not in.
Past(b, a) == Sent(b) \/ (b \in todo /\ a \notin todo)

\* Whatever a younger row is past was tried.
OrderInv ==
  /\ \A a \in Actions : Counted(row[a])
  /\ \A a \in Actions \ posted : Untried(row[a])
  /\ \A a \in Actions : Sent(a) => row[a].status # "absent"
  /\ \A a \in Actions \ posted, b \in Actions :
       Younger(b, a) /\ Past(b, a) => Tried(row[a])

\* A call makes a tried row of every row, of the same age.
LEMMA AfterCallTried ==
  ASSUME BackoffCap # 0, NEW a \in Actions, NEW r \in Rows, NEW s \in Snapshots,
         s.op = r.op, NEW ans \in OkAnswers \cup ErrAnswers, r.op # "none" => r.attempt > 0
  PROVE  /\ Tried(AfterCall(a, r, s, ans))
         /\ AfterCall(a, r, s, ans).age = r.age
         /\ AfterCall(a, r, s, ans).op # "none" => AfterCall(a, r, s, ans).attempt > 0
<1>1. \A n \in 0 .. BackoffCap : Bumped(n) \in 0 .. BackoffCap /\ Bumped(n) > 0
  BY TimeAssumption DEF Bumped, MinOf
<1>2. /\ Bumped(s.attempt) \in 0 .. BackoffCap /\ Bumped(s.attempt) > 0
      /\ Bumped(r.attempt) \in 0 .. BackoffCap /\ Bumped(r.attempt) > 0
  BY <1>1 DEF Snapshots, Rows
<1>3. Backoff(Bumped(s.attempt)) \in Nat /\ PressureDelay \in Nat
  BY <1>2, BackoffType, TimeAssumption
<1>. DEFINE Good(q) == Tried(q) /\ q.age = r.age /\ (q.op # "none" => q.attempt > 0)
<1>4. \A q \in Rows, t \in Terminal :
        q.age = r.age /\ (q.op # "none" => q.attempt > 0) => Good(MarkTerminal(q, t))
  BY DEF MarkTerminal, Rows, Tried
<1>5. \A n \in 0 .. BackoffCap, d \in Nat : n > 0 => Good(ScheduleRetry(r, n, d))
  BY DEF ScheduleRetry, Rows, Tried
<1>6. "failed" \in Terminal
  BY DEF Terminal, Failures
<1>7. CASE Polls(s)
  <2>1. r.op # "none" /\ Good(r)
    BY <1>7 DEF Polls, Tried
  <2>2. CASE ans \in ErrAnswers
    <3>1. AfterCall(a, r, s, ans) = ScheduleRetry(r, Bumped(s.attempt), Backoff(Bumped(s.attempt)))
      BY <1>7, <2>2 DEF AfterCall, AfterPoll, ErrAnswers
    <3>. QED BY <1>2, <1>3, <1>5, <3>1
  <2>3. CASE ans \in OkAnswers /\ ans.status \in NonTerminal
    <3>1. AfterCall(a, r, s, ans) = [r EXCEPT !.status = ans.status]
      BY <1>7, <2>3 DEF AfterCall, AfterPoll, OkAnswers
    <3>. QED BY <2>1, <3>1 DEF Tried, Rows
  <2>4. CASE ans \in OkAnswers /\ ans.status \notin NonTerminal
    <3>1. AfterCall(a, r, s, ans) = IF ans.status \in Terminal THEN MarkTerminal(r, ans.status) ELSE r
      BY <1>7, <2>4 DEF AfterCall, AfterPoll, OkAnswers
    <3>. QED BY <1>4, <2>1, <3>1
  <2>. QED BY <2>2, <2>3, <2>4
<1>8. CASE ~Polls(s) /\ ans \in OkAnswers
  <2>. DEFINE sent == [r EXCEPT !.op = ans.op, !.attempt = Bumped(@), !.wait = 0]
  <2>1. sent \in Rows /\ Good(sent) /\ sent.attempt > 0
    BY <1>2, <1>8 DEF Rows, OkAnswers, OpIds, Tried
  <2>2. AfterCall(a, r, s, ans) = IF ans.status \in Terminal
                                    THEN MarkTerminal(sent, ans.status)
                                    ELSE [sent EXCEPT !.status = ans.status]
    BY <1>8 DEF AfterCall, AfterAccept, OkAnswers
  <2>. HIDE DEF sent
  <2>3. Good([sent EXCEPT !.status = ans.status])
    BY <2>1 DEF Rows, Tried
  <2>4. ans.status \in Terminal => Good(MarkTerminal(sent, ans.status))
    BY <1>4, <2>1
  <2>. HIDE DEF Good
  <2>5. Good(AfterCall(a, r, s, ans))
    BY <2>2, <2>3, <2>4
  <2>. QED BY <2>5 DEF Good
<1>9. CASE ~Polls(s) /\ ans \in ErrAnswers
  <2>1. PICK d \in Nat : AfterCall(a, r, s, ans) \in
          {MarkTerminal(r, "failed"), ScheduleRetry(r, Bumped(s.attempt), d)}
    BY <1>3, <1>9 DEF AfterCall, AfterRefusal, ErrAnswers
  <2>2. Good(MarkTerminal(r, "failed")) /\ Good(ScheduleRetry(r, Bumped(s.attempt), d))
    BY <1>2, <1>4, <1>5, <1>6
  <2>. HIDE DEF Good
  <2>3. Good(AfterCall(a, r, s, ans))
    BY <2>1, <2>2
  <2>. QED BY <2>3 DEF Good
<1>. QED BY <1>7, <1>8, <1>9

\* Steps that leave the table alone and let no row get past an untried one.
LEMMA TableOrder ==
  ASSUME IInv, OrderInv, UNCHANGED <<row, posted>>,
         \A a \in Actions : Sent(a)' => row[a].status # "absent",
         \A a \in Actions \ posted, b \in Actions :
           Younger(b, a) /\ Past(b, a)' => Past(b, a) \/ Tried(row[a])
  PROVE  OrderInv'
<1>1. \A a, b \in Actions : Younger(b, a)' <=> Younger(b, a)
  BY DEF Younger
<1>. QED BY <1>1 DEF OrderInv

\* A batch holds the oldest rows that are due, and an untried row is due.
LEMMA BatchOrder ==
  ASSUME IInv, OrderInv, StartCycle PROVE OrderInv'
<1>1. UNCHANGED <<row, posted>> /\ \A a \in Actions : Sent(a)' <=> Sent(a)
  BY DEF StartCycle, table, runtime, Sent
<1>2. ASSUME NEW a \in Actions \ posted, NEW b \in Actions, Younger(b, a),
             b \in todo', a \notin todo'
      PROVE  Tried(row[a])
  <2>1. todo' \in Batches({c \in Actions : Due(c)})
    BY DEF StartCycle
  <2>2. row[a].age \in Nat /\ row[b].age \in Nat
    BY DEF IInv, TypeOK, Rows
  <2>3. ~Due(a)
    BY <1>2, <2>1, <2>2 DEF Batches, Younger
  <2>4. row[a].status # "absent"
    BY <1>2, <2>2 DEF OrderInv, Counted, Younger
  <2>. QED BY <2>3, <2>4 DEF OrderInv, Untried, Due, Candidates
<1>. QED BY <1>1, <1>2, TableOrder DEF Past, OrderInv

\* The row that is sent is the oldest of the batch.
LEMMA SendOrder ==
  ASSUME IInv, OwnInv, OrderInv, NEW c \in Actions, Send(c) PROVE OrderInv'
<1>1. c \in todo /\ \A a \in todo : row[a].age <= row[c].age
  BY DEF Send, Oldest
<1>2. UNCHANGED <<row, todo, seen, posted>> /\ wire' = wire \cup {<<c, c>>}
  BY DEF Send, table, RequestKey
<1>3. \A a \in Actions : Sent(a)' => Sent(a) \/ a = c
  BY <1>2 DEF Sent
<1>4. row[c].status # "absent"
  BY <1>1, VisitedIsCandidate
<1>5. ASSUME NEW a \in Actions, Younger(c, a) PROVE Past(c, a)
  <2>1. row[a].age \in Nat /\ row[c].age \in Nat
    BY DEF IInv, TypeOK, Rows
  <2>. QED BY <1>1, <1>5, <2>1 DEF Younger, Past
<1>6. \A a, b \in Actions : Younger(b, a) /\ Past(b, a)' => Past(b, a)
  BY <1>2, <1>3, <1>5 DEF Past
<1>. QED BY <1>2, <1>3, <1>4, <1>6, TableOrder DEF OrderInv

\* A row that the task leaves after it wrote to it was tried.
LEMMA LeaveOrder ==
  ASSUME IInv, OrderInv, NEW c \in Actions, Leave(c), Settled(c), Others(c),
         UNCHANGED <<runtime, posted>>, Tried(row'[c]),
         row'[c].age = row[c].age, row'[c].op # "none" => row'[c].attempt > 0
  PROVE  OrderInv'
<1>1. \A a \in Actions : Sent(a)' <=> Sent(a)
  BY DEF runtime, Sent
<1>2. todo' = todo \ {c} /\ \A a \in Actions \ {c} : row'[a] = row[a]
  BY DEF Leave, Others
<1>3. \A a \in Actions : Counted(row'[a])
  BY <1>2 DEF OrderInv, Counted, Settled
<1>4. \A a \in Actions \ posted : Untried(row'[a])
  BY <1>2 DEF OrderInv, Untried
<1>5. \A a \in Actions : Sent(a)' => row'[a].status # "absent"
  BY <1>1, <1>2 DEF OrderInv, Settled
<1>6. ASSUME NEW a \in Actions \ posted, NEW b \in Actions, Younger(b, a)', Past(b, a)'
      PROVE  Tried(row'[a])
  <2>1. CASE a = c
    BY <2>1
  <2>2. CASE a # c
    <3>1. Younger(b, a) /\ row'[a] = row[a]
      BY <1>2, <1>6, <2>2 DEF Younger, Settled
    <3>2. Past(b, a)
      BY <1>1, <1>2, <1>6, <2>2 DEF Past
    <3>. QED BY <3>1, <3>2 DEF OrderInv
  <2>. QED BY <2>1, <2>2
<1>. QED BY <1>3, <1>4, <1>5, <1>6 DEF OrderInv

\* An answer makes a tried row of its row,
LEMMA RecordOrder ==
  ASSUME BackoffCap # 0, IInv, OwnInv, OrderInv, NEW c \in Actions, Record(c)
  PROVE  OrderInv'
<1>1. c \in todo
  BY DEF Record, IInv, TypeOK
<1>2. snap[c].op = row[c].op
  BY <1>1, VisitedIsCandidate
<1>3. row'[c] = AfterCall(c, row[c], snap[c], answer)
  BY DEF Record, IInv, TypeOK
<1>4. /\ Tried(AfterCall(c, row[c], snap[c], answer))
      /\ AfterCall(c, row[c], snap[c], answer).age = row[c].age
      /\ AfterCall(c, row[c], snap[c], answer).op # "none"
           => AfterCall(c, row[c], snap[c], answer).attempt > 0
  BY <1>2, AfterCallTried DEF Record, IInv, TypeOK, OrderInv, Counted
<1>5. Settled(c) /\ Others(c)
  BY RecordEffect
<1>. HIDE DEF AfterCall
<1>. QED BY <1>3, <1>4, <1>5, LeaveOrder DEF Record

\* and so does the end of the ttl.
LEMMA ExpireOrder ==
  ASSUME IInv, OwnInv, OrderInv, NEW c \in Actions, Expire(c)
  PROVE  OrderInv'
<1>1. Settled(c) /\ Others(c) /\ row'[c].status = "failed"
  BY ExpireEffect
<1>2. row'[c].age = row[c].age /\ row'[c].op = row[c].op /\ row'[c].attempt = row[c].attempt
  BY DEF Expire, MarkTerminal, IInv, TypeOK, Rows
<1>3. Tried(row'[c])
  BY <1>1 DEF Tried, Terminal, Failures
<1>4. row'[c].op # "none" => row'[c].attempt > 0
  BY <1>2 DEF OrderInv, Counted
<1>. QED BY <1>1, <1>2, <1>3, <1>4, LeaveOrder DEF Expire

\* Time keeps the order of the rows.
LEMMA TickOrder ==
  ASSUME IInv, OrderInv, Tick PROVE OrderInv'
<1>1. /\ \A a \in Actions : row[a] \in Rows
      /\ \A a \in Actions : Sent(a)' <=> Sent(a)
      /\ todo' = todo /\ posted' = posted
  BY DEF IInv, TypeOK, Tick, runtime, loop, Sent
<1>2. ASSUME NEW a \in Actions
      PROVE  /\ row'[a].status = row[a].status /\ row'[a].attempt = row[a].attempt
             /\ row'[a].op = row[a].op
             /\ row[a].wait = 0 => row'[a].wait = 0
             /\ row'[a].age = IF row[a].status = "absent" THEN row[a].age
                              ELSE MinOf(row[a].age + 1, MaxAge)
  BY <1>1 DEF Tick, Rows
<1>3. /\ \A a \in Actions : Counted(row'[a]) /\ (Tried(row[a]) <=> Tried(row'[a]))
      /\ \A a \in Actions \ posted : Untried(row'[a])
  BY <1>2 DEF OrderInv, Counted, Untried, Tried
<1>4. ASSUME NEW a \in Actions, NEW b \in Actions, Younger(b, a)' PROVE Younger(b, a)
  <2>1. row[a].age \in 0 .. MaxAge /\ row[b].age \in 0 .. MaxAge /\ MaxAge \in Nat
    BY <1>1, TimeAssumption DEF Rows
  <2>2. row[a].status = "absent" => row[a].age = 0
    BY DEF OrderInv, Counted
  <2>3. row[b].status # "absent" /\ row'[b].age < row'[a].age
    BY <1>2, <1>4 DEF Younger
  <2>. QED BY <1>2, <2>1, <2>2, <2>3 DEF Younger, MinOf
<1>5. \A a, b \in Actions : Past(b, a)' <=> Past(b, a)
  BY <1>1 DEF Past
<1>. QED BY <1>1, <1>2, <1>3, <1>4, <1>5 DEF OrderInv

\* A new row is the youngest, and nobody sent it.
LEMMA EnqueueOrder ==
  ASSUME IInv, OwnInv, OrderInv, NEW c \in Actions, Enqueue(c) PROVE OrderInv'
<1>1. /\ \A a \in Actions : row[a] \in Rows
      /\ \A a \in Actions : Sent(a)' <=> Sent(a)
      /\ todo' = todo /\ posted' = posted /\ row' = [row EXCEPT ![c].status = "pending"]
      /\ row[c].status = "absent"
  BY DEF IInv, TypeOK, Enqueue, runtime, loop, Sent
<1>2. /\ \A a \in Actions \ {c} : row'[a] = row[a]
      /\ row'[c].age = row[c].age /\ row'[c].status = "pending"
      /\ row'[c].op = row[c].op /\ row'[c].attempt = row[c].attempt
      /\ row'[c].wait = row[c].wait
  BY <1>1 DEF Rows, IInv, TypeOK
<1>3. row[c].age = 0 /\ row[c].wait = 0 /\ ~Sent(c)
  BY <1>1 DEF OrderInv, Counted
<1>4. c \notin todo
  BY <1>1, VisitedIsCandidate
<1>5. /\ \A a \in Actions : Counted(row'[a])
      /\ \A a \in Actions \ posted : Untried(row'[a])
  BY <1>2, <1>3 DEF OrderInv, Counted, Untried
<1>6. \A a \in Actions : Sent(a)' => row'[a].status # "absent"
  BY <1>1, <1>2 DEF OrderInv
<1>7. ASSUME NEW a \in Actions \ posted, NEW b \in Actions, Younger(b, a)', Past(b, a)'
      PROVE  Tried(row'[a])
  <2>1. Past(b, a) /\ b # c
    BY <1>1, <1>3, <1>4, <1>7 DEF Past
  <2>2. a # c
    BY <1>1, <1>2, <1>3, <1>7, <2>1 DEF Younger, Rows
  <2>3. Younger(b, a)
    BY <1>2, <1>7, <2>1, <2>2 DEF Younger
  <2>. QED BY <1>2, <2>1, <2>2, <2>3 DEF OrderInv
<1>. QED BY <1>1, <1>5, <1>6, <1>7 DEF OrderInv

\* A posted result changes neither the age of a row nor who is past it.
LEMMA PostOrder ==
  ASSUME IInv, OrderInv, NEW c \in Actions, NEW s \in PostedStatuses, Post(c, s)
  PROVE  OrderInv'
<1>1. /\ \A a \in Actions : Sent(a)' <=> Sent(a)
      /\ todo' = todo /\ posted' = posted \cup {c} /\ row[c].status # "absent"
  BY DEF Post, runtime, loop, Sent
<1>2. /\ \A a \in Actions \ {c} : row'[a] = row[a]
      /\ row'[c].age = row[c].age /\ row'[c].status # "absent"
      /\ row'[c].op = row[c].op /\ row'[c].attempt = row[c].attempt
  BY StatusAssumption DEF Post, Rows, IInv, TypeOK
<1>3. /\ \A a \in Actions : Counted(row'[a])
      /\ \A a \in Actions \ posted' : Untried(row'[a])
  BY <1>1, <1>2 DEF OrderInv, Counted
<1>4. \A a \in Actions : Sent(a)' => row'[a].status # "absent"
  BY <1>1, <1>2 DEF OrderInv
<1>5. \A a, b \in Actions : /\ Younger(b, a)' <=> Younger(b, a)
                            /\ Past(b, a)' <=> Past(b, a)
  BY <1>1, <1>2 DEF Younger, Past
<1>. QED BY <1>1, <1>2, <1>3, <1>4, <1>5 DEF OrderInv

\* Of the other steps, an answer and a restart bring no row past another one.
LEMMA OtherOrder ==
  ASSUME IInv, OwnInv, OrderInv,
         \/ \E a \in Actions : Poll(a) \/ Abort(a) \/ Answers(a) \/ Progress(a)
         \/ Crash \/ UNCHANGED vars
  PROVE  OrderInv'
<1>1. UNCHANGED <<row, posted>>
  BY DEF Poll, Abort, Answers, Execute, Refuse, AnswerPoll, LoseBody, Fault, Progress,
         Crash, vars, table
<1>2. ASSUME NEW a \in Actions, NEW k, Execute(a, k)
      PROVE  \A b \in Actions : Sent(b)' => Sent(b)
  <2>1. k = a
    BY <1>2, ExecuteRuntime
  <2>. QED BY <1>2, <2>1 DEF Execute, Sent
<1>3. \A b \in Actions : Sent(b)' => Sent(b)
  <2>1. ASSUME NEW a \in Actions, Answers(a)
        PROVE  \/ \E k : Execute(a, k)
               \/ seen' = seen /\ wire' \subseteq wire
    BY <2>1 DEF Answers, Refuse, AnswerPoll, LoseBody, Fault, runtime
  <2>2. (\E a \in Actions : \E k : Execute(a, k)) \/ (seen' = seen /\ wire' \subseteq wire)
    BY <2>1 DEF Poll, Abort, Progress, Crash, vars, runtime
  <2>. QED BY <1>2, <2>2 DEF Sent
<1>4. todo' = todo \/ todo' = {}
  BY DEF Poll, Abort, Answers, Execute, Answered, Refuse, AnswerPoll, LoseBody, Fault,
         Progress, Crash, vars, loop
<1>5. \A a, b \in Actions : Past(b, a)' => Past(b, a)
  BY <1>3, <1>4 DEF Past
<1>. QED BY <1>1, <1>3, <1>5, TableOrder DEF OrderInv

\* The order is kept by every step, of rows that no client posted a result for.
LEMMA OrderNext ==
  ASSUME BackoffCap # 0, IInv, OwnInv, OrderInv, [Next]_vars
  PROVE  OrderInv'
BY BatchOrder, SendOrder, RecordOrder, ExpireOrder, TickOrder, EnqueueOrder, PostOrder,
   OtherOrder DEF Next, Step

\* Nothing is past anything at first.
LEMMA InitOrder == Init => OrderInv /\ InFlight
BY DEF Init, Absent, OrderInv, Counted, Untried, Tried, Younger, Sent, Past,
       InFlight, InFlightHasOp

\* Operations start in the order in which the rows were enqueued, save for rows
\* that were tried before, are settled, or had a result posted.
THEOREM StartedInOrder ==
  ASSUME BackoffCap # 0
  PROVE  SafeSpec => OvertakenOnlyByRetry
<1>. DEFINE InOrder(a, b) ==
       /\ row[b].status # "absent" /\ row[b].age < row[a].age
       /\ b \in seen /\ a \in seen' \ seen
       => row[a].attempt > 0 \/ row[a].status \in Terminal
<1>1. IInv /\ OwnInv /\ OrderInv /\ [Next]_vars => OrderInv'
  BY OrderNext
<1>2. ASSUME IInv, OrderInv, Next, NEW a \in Actions \ posted, NEW b \in Actions
      PROVE  InOrder(a, b)
  BY <1>2 DEF OrderInv, Younger, Past, Sent, Tried
<1>3. IInv /\ OrderInv /\ [Next]_vars
        => [\A a \in Actions \ posted, b \in Actions : InOrder(a, b)]_vars
  BY <1>2
<1>. QED BY <1>1, <1>3, InitOrder, Ownership, PTL DEF SafeSpec, OvertakenOnlyByRetry

\* A row with a bad payload is never called for, so it is never tried.
BadInv ==
  \A b \in BadActions : /\ row[b].op = "none" /\ row[b].attempt = 0
                        /\ stage \in {"calling", "answered"} => cur # b

LEMMA BadNext == IInv /\ OwnInv /\ BadInv /\ [Next]_vars => BadInv'
<1>. SUFFICES ASSUME IInv, OwnInv, BadInv, [Next]_vars PROVE BadInv'
  OBVIOUS
<1>0. BadActions \subseteq Actions /\ row \in [Actions -> Rows]
  BY ActionsAssumption DEF IInv, TypeOK
<1>1. ASSUME \A b \in BadActions : row'[b].op = row[b].op /\ row'[b].attempt = row[b].attempt,
             stage' \in {"calling", "answered"} => cur' \notin BadActions
      PROVE  BadInv'
  BY <1>1 DEF BadInv
<1>2. ASSUME NEW a \in Actions, Leave(a) PROVE stage' \notin {"calling", "answered"}
  BY <1>2 DEF Leave
<1>3. ASSUME NEW a \in Actions, Expire(a) PROVE BadInv'
  BY <1>0, <1>1, <1>2, <1>3 DEF Expire, MarkTerminal, Rows
<1>4. ASSUME NEW a \in Actions, Record(a) PROVE BadInv'
  <2>1. a \notin BadActions
    BY <1>4 DEF Record, BadInv
  <2>2. \A b \in BadActions : row'[b] = row[b]
    BY <1>0, <1>4, <2>1 DEF Record
  <2>. QED BY <1>1, <1>2, <1>4, <2>2 DEF Record
<1>5. ASSUME NEW a \in Actions, Poll(a) PROVE BadInv'
  <2>1. a \in todo /\ snap[a].op # "none"
    BY <1>5 DEF Poll, Oldest, Polls
  <2>2. row[a].op # "none"
    BY <2>1, VisitedIsCandidate
  <2>. QED BY <1>1, <1>5, <2>2 DEF Poll, BadInv, table
<1>6. ASSUME NEW a \in Actions, Send(a) \/ Abort(a) PROVE BadInv'
  BY <1>1, <1>6 DEF Send, Abort, table
<1>7. ASSUME NEW a \in Actions, Answers(a) PROVE BadInv'
  <2>1. UNCHANGED <<row, cur>>
    BY <1>7 DEF Answers, Execute, Refuse, AnswerPoll, LoseBody, Fault, Answered, table, loop
  <2>2. UNCHANGED stage \/ stage \in {"calling", "answered"}
    BY <1>7 DEF Answers, Execute, Refuse, AnswerPoll, LoseBody, Fault, Calling, loop
  <2>. QED BY <2>1, <2>2 DEF BadInv
<1>8. ASSUME NEW a \in Actions, Enqueue(a) PROVE BadInv'
  BY <1>0, <1>8 DEF Enqueue, loop, BadInv, Rows
<1>9. ASSUME NEW a \in Actions, Progress(a) PROVE BadInv'
  BY <1>9 DEF Progress, table, loop, BadInv
<1>10. CASE Tick
  BY <1>0, <1>10 DEF Tick, loop, BadInv, Rows
<1>11. CASE StartCycle \/ Crash \/ UNCHANGED vars
  BY <1>11 DEF StartCycle, Crash, vars, table, loop, BadInv
<1>12. ASSUME NEW a \in Actions, NEW s, Post(a, s) PROVE BadInv'
  BY <1>0, <1>12 DEF Post, loop, BadInv, Rows
<1>. QED
  BY <1>3, <1>4, <1>5, <1>6, <1>7, <1>8, <1>9, <1>10, <1>11, <1>12 DEF Next, Step

\* A bad payload holds up every younger row until its ttl is over or a client posts
\* a result for it, in whatever batches they come.
THEOREM BadRowStalls ==
  ASSUME BackoffCap # 0
  PROVE  SafeSpec => BadRowStallsYounger
<1>. DEFINE Stalled(b, a) ==
       b \notin posted /\ Due(b) /\ ~Expired(b) /\ row[a].age < row[b].age
         => ~Send(a) /\ ~Poll(a)
<1>1. Init => BadInv
  BY ActionsAssumption DEF Init, Absent, BadInv
<1>2. ASSUME IInv, OwnInv, OrderInv, BadInv, NEW b \in BadActions, NEW a \in Actions
      PROVE  Stalled(b, a)
  <2>. SUFFICES ASSUME b \notin posted, Due(b), row[a].age < row[b].age, a \in Oldest(todo)
                PROVE  FALSE
    BY DEF Send, Poll
  <2>1. a \in todo /\ b \in Actions
    BY ActionsAssumption DEF Oldest
  <2>2. row[a].status # "absent"
    BY <1>2, <2>1, VisitedIsCandidate
  <2>3. ~Tried(row[b])
    BY <1>2 DEF BadInv, Tried, Due, Candidates, NonTerminal, Terminal, Failures, Success
  <2>4. b \in todo
    BY <1>2, <2>1, <2>2, <2>3 DEF OrderInv, Younger, Past
  <2>5. row[a].age \in Nat /\ row[b].age \in Nat
    BY <1>2, <2>1 DEF IInv, TypeOK, Rows
  <2>. QED BY <2>4, <2>5 DEF Oldest
<1>3. IInv /\ OwnInv /\ OrderInv /\ BadInv /\ [Next]_vars
        => [\A b \in BadActions, a \in Actions : Stalled(b, a)]_vars
  BY <1>2
<1>4. IInv /\ OwnInv /\ OrderInv /\ [Next]_vars => OrderInv'
  BY OrderNext
<1>. QED BY <1>1, <1>3, <1>4, InitOrder, BadNext, Ownership, PTL
     DEF SafeSpec, BadRowStallsYounger

-----------------------------------------------------------------------------
(* What becomes of a posted result                                           *)

\* What the task has loaded was a candidate then.
LoadedInv == \A a \in todo : snap[a].status \in Candidates

LEMMA LoadedNext == IInv /\ LoadedInv /\ [Next]_vars => LoadedInv'
<1>. SUFFICES ASSUME IInv, LoadedInv, [Next]_vars PROVE LoadedInv'
  OBVIOUS
<1>. USE DEF LoadedInv
<1>1. CASE StartCycle
  BY <1>1 DEF StartCycle, Batches, Due, SnapOf
<1>2. ASSUME NEW a \in Actions, Leave(a) PROVE LoadedInv'
  BY <1>2 DEF Leave, IInv, TypeOK
<1>3. ASSUME NEW a \in Actions, Step(a) PROVE LoadedInv'
  BY <1>2, <1>3 DEF Step, Expire, Record, Poll, Send, Abort
<1>4. ASSUME NEW a \in Actions, Answers(a) PROVE LoadedInv'
  BY <1>4 DEF Answers, Execute, Refuse, AnswerPoll, LoseBody, Fault, Answered, loop
<1>5. ASSUME NEW a \in Actions, Enqueue(a) \/ Progress(a) PROVE LoadedInv'
  BY <1>5 DEF Enqueue, Progress, loop
<1>6. ASSUME NEW a \in Actions, NEW s, Post(a, s) PROVE LoadedInv'
  BY <1>6 DEF Post, loop
<1>7. CASE Tick \/ Crash \/ UNCHANGED vars
  BY <1>7 DEF Tick, Crash, vars, loop
<1>. QED BY <1>1, <1>3, <1>4, <1>5, <1>6, <1>7 DEF Next

\* Whatever clients post and however often, the task reopens a settled row only
\* with the answer of a call that it made for what the row was before.
THEOREM ReopenedByLateAnswer == SafeSpec => ReopenedOnlyByLateAnswer
<1>. DEFINE Late(a) ==
       /\ row[a].status \in Terminal /\ row'[a].status \notin Terminal
       /\ ~\E s \in PostedStatuses : Post(a, s)
       => a = cur /\ stage = "answered" /\ snap[a].status # row[a].status
<1>1. Init => LoadedInv
  BY DEF Init, LoadedInv
<1>2. ASSUME IInv, LoadedInv, Next, NEW a \in Actions PROVE Late(a)
  <2>. SUFFICES ASSUME row[a].status \in Terminal, row'[a].status \notin Terminal,
                       ~\E s \in PostedStatuses : Post(a, s)
       PROVE  a = cur /\ stage = "answered" /\ snap[a].status # row[a].status
    OBVIOUS
  <2>0. /\ row \in [Actions -> Rows]
        /\ stage = "answered" => cur \in todo
    BY <1>2 DEF IInv, TypeOK
  <2>1. ASSUME NEW c \in Actions, Record(c)
        PROVE  a = cur /\ stage = "answered" /\ snap[a].status # row[a].status
    <3>1. a = cur /\ stage = "answered" /\ a \in todo
      BY <2>0, <2>1 DEF Record
    <3>. QED BY <1>2, <3>1 DEF LoadedInv, Candidates, NonTerminal, Terminal, Failures, Success
  <2>2. ASSUME NEW c \in Actions, Expire(c) PROVE FALSE
    BY <2>0, <2>2 DEF Expire, MarkTerminal, Rows, Terminal, Failures
  <2>3. ASSUME NEW c \in Actions, Enqueue(c) PROVE FALSE
    BY <2>0, <2>3 DEF Enqueue, Terminal, Failures, Success
  <2>4. ASSUME NEW c \in Actions, NEW s \in PostedStatuses, Post(c, s) PROVE FALSE
    BY <2>0, <2>4 DEF Post
  <2>5. CASE Tick
    BY <1>2, <2>5, TickEffect DEF RowsKeep
  <2>6. ASSUME NEW c \in Actions, Poll(c) \/ Send(c) \/ Abort(c) \/ Progress(c) PROVE FALSE
    BY <2>6 DEF Poll, Send, Abort, Progress, table
  <2>7. ASSUME NEW c \in Actions, Answers(c) PROVE FALSE
    BY <2>7 DEF Answers, Execute, Refuse, AnswerPoll, LoseBody, Fault, table
  <2>8. CASE StartCycle \/ Crash
    BY <2>8 DEF StartCycle, Crash, table
  <2>. QED BY <1>2, <2>1, <2>2, <2>3, <2>4, <2>5, <2>6, <2>7, <2>8 DEF Next, Step
<1>3. IInv /\ LoadedInv /\ [Next]_vars => [\A a \in Actions : Late(a)]_vars
  BY <1>2
<1>. QED BY <1>1, <1>3, LoadedNext, Invariance, PTL DEF SafeSpec, ReopenedOnlyByLateAnswer
=============================================================================
