----------------------------- MODULE CliProofs -----------------------------
(***************************************************************************)
(* Operations and exit codes of one run of a command, for any number of      *)
(* retries and polls.                                                        *)
(***************************************************************************)
EXTENDS CliCommand, TLAPS

Early == {"preflight", "fallback", "validate", "diff"}

\* Which commands get to which phases.
PhaseInv ==
  /\ phase = "diff" => cmd.dry
  /\ phase \in {"preflight", "fallback"} => cmd.kind = "mutate"
  /\ phase \in {"validate", "diff"} => cmd.kind = "apply"
  /\ phase = "end" => answer = None

\* Nothing is started before the change is sent; and for an apply, whose request
\* has no key, not either as long as the request may be sent (again).
StartedInv ==
  /\ started <= 1
  /\ started = 0 <=> op = None
  /\ phase \in Early => started = 0
  /\ cmd.kind = "apply" /\ phase = "change" =>
       \/ answer # None /\ answer.code \notin Refusals
       \/ started = 0
  /\ exit = 2 => started = 0

\* What an answer says of the operation stays true.
AnswerInv ==
  answer # None /\ answer.code = "ok" =>
    /\ answer.status \in Outcomes => op = answer.status
    /\ phase = "change" /\ ~answer.id /\ ~cut => op = "succeeded"

IInv == TypeOK /\ PhaseInv /\ StartedInv /\ AnswerInv /\ ZeroIsSuccess

USE BoundAssumption, NoneAssumption DEF Statuses, Outcomes, Early

-----------------------------------------------------------------------------
(* The first state *)

LEMMA CommandType ==
  ASSUME NEW c \in Mutations \cup Applies
  PROVE  /\ c.kind \in {"mutate", "apply"} /\ c.method \in {"POST", "DELETE"}
         /\ c.kind = "apply" => c.method = "POST" /\ ~c.needs
         /\ c.kind = "mutate" => ~c.validate /\ ~c.dry /\ ~c.strict
BY DEF Mutations, Applies

LEMMA InitInv == Init => IInv
<1>. SUFFICES ASSUME Init PROVE IInv
  OBVIOUS
<1>. USE DEF Init, FirstPhase, AfterValidate
<1>0. /\ cmd.kind \in {"mutate", "apply"}
      /\ cmd.kind = "apply" => ~cmd.needs
      /\ cmd.kind = "mutate" => ~cmd.validate /\ ~cmd.dry
  BY CommandType
<1>1. TypeOK
  <2>1. phase \in {"preflight", "validate", "diff", "change"} /\ exit = None
    OBVIOUS
  <2>2. attempt \in 0 .. (Retries + 1) /\ elapsed \in 0 .. (Timeout + 1)
        /\ started \in 0 .. MaxStarted
    OBVIOUS
  <2>. QED BY <2>1, <2>2 DEF TypeOK
<1>2. PhaseInv
  BY <1>0 DEF PhaseInv
<1>3. StartedInv /\ AnswerInv /\ ZeroIsSuccess
  BY DEF StartedInv, AnswerInv, ZeroIsSuccess
<1>. QED BY <1>1, <1>2, <1>3 DEF IInv

-----------------------------------------------------------------------------
(* The backend *)

LEMMA AnswerTypes ==
  /\ \A id \in BOOLEAN, s \in Statuses \cup {None}, flaw \in BOOLEAN :
       /\ Ok(id, s, flaw) \in Answers /\ Ok(id, s, flaw).code = "ok"
       /\ Ok(id, s, flaw).status = s /\ (Ok(id, s, flaw).id <=> id)
  /\ \A code \in Codes, m \in BOOLEAN :
       Err(code, m) \in Answers /\ Err(code, m).code = code
<1>1. ASSUME NEW id \in BOOLEAN, NEW s \in Statuses \cup {None}, NEW flaw \in BOOLEAN
      PROVE  /\ Ok(id, s, flaw) \in Answers /\ Ok(id, s, flaw).code = "ok"
             /\ Ok(id, s, flaw).status = s /\ (Ok(id, s, flaw).id <=> id)
  <2>. HIDE DEF Statuses
  <2>. QED BY DEF Ok, Answers, Codes
<1>2. ASSUME NEW code \in Codes, NEW m \in BOOLEAN
      PROVE  Err(code, m) \in Answers /\ Err(code, m).code = code
  <2>. HIDE DEF Statuses
  <2>. QED BY DEF Err, Answers
<1>. QED BY <1>1, <1>2

LEMMA ExecuteInv ==
  ASSUME IInv, NEW s \in Statuses, started < MaxStarted, Execute(s), Sent,
         phase = "change"
  PROVE  /\ started' = 1 /\ op' \in Statuses
<1>1. started = 0 \/ (Keyed /\ started = 1)
  <2>1. started \in {0, 1} /\ cmd.kind \in {"mutate", "apply"}
    BY CommandType DEF IInv, TypeOK, StartedInv
  <2>. QED BY <2>1 DEF IInv, StartedInv, Keyed, Sent
<1>. QED BY <1>1 DEF Execute, IInv, TypeOK, StartedInv

\* An answer comes that is true of the operation.
LEMMA RepliedInv ==
  ASSUME IInv, Sent, NEW a \in Answers, Replies(a),
         cut' \in BOOLEAN, cut => cut',
         \/ UNCHANGED <<started, op>>
         \/ /\ phase = "change" /\ started < MaxStarted /\ started' = 1
            /\ op' \in Statuses /\ a.code \notin Refusals,
         a.code = "ok" =>
           /\ a.status \in Outcomes => op' = a.status
           /\ phase = "change" /\ ~a.id /\ ~cut' => op' = "succeeded"
  PROVE  IInv'
<1>. USE DEF IInv, Replies
<1>1. TypeOK'
  BY DEF TypeOK
<1>2. PhaseInv'
  BY DEF PhaseInv, Sent
<1>3. StartedInv'
  <2>1. phase # "end" /\ exit = None
    BY DEF Sent, TypeOK
  <2>2. started \in Nat /\ answer = None /\ answer' = a /\ a # None
    BY DEF TypeOK, Sent
  <2>. QED BY <2>1, <2>2 DEF StartedInv
<1>4. AnswerInv'
  BY DEF AnswerInv
<1>5. ZeroIsSuccess'
  <2>1. exit' = None
    BY DEF Sent, TypeOK
  <2>. QED BY <2>1 DEF ZeroIsSuccess
<1>. QED BY <1>1, <1>2, <1>3, <1>4, <1>5

LEMMA RejectInv == ASSUME IInv, Reject PROVE IInv'
<1>1. PICK code \in Refusals, m \in BOOLEAN : Replies(Err(code, m))
  BY DEF Reject
<1>2. Err(code, m) \in Answers /\ Err(code, m).code = code
  BY AnswerTypes DEF Codes
<1>3. code # "ok" /\ cut' = cut /\ cut \in BOOLEAN
  BY DEF Refusals, Reject, external, IInv, TypeOK
<1>. QED BY <1>1, <1>2, <1>3, RepliedInv DEF Reject, external

LEMMA AcceptInv == ASSUME IInv, Accept PROVE IInv'
<1>1. PICK s \in Statuses, flaw \in BOOLEAN :
        /\ Execute(s)
        /\ \/ op' = "succeeded" /\ Replies(Ok(FALSE, None, flaw))
           \/ Replies(Ok(TRUE, op', flaw))
  BY DEF Accept
<1>2. started' = 1 /\ op' \in Statuses /\ cut' = cut /\ cut \in BOOLEAN
  BY <1>1, ExecuteInv DEF Accept, IInv, TypeOK
<1>3. CASE op' = "succeeded" /\ Replies(Ok(FALSE, None, flaw))
  <2>1. /\ Ok(FALSE, None, flaw) \in Answers /\ Ok(FALSE, None, flaw).code = "ok"
        /\ Ok(FALSE, None, flaw).status = None
    BY AnswerTypes
  <2>2. Sent /\ phase = "change" /\ started < MaxStarted /\ "ok" \notin Refusals
    BY DEF Accept, Refusals
  <2>3. None \notin Outcomes
    OBVIOUS
  <2>. HIDE DEF Statuses, Outcomes
  <2>. QED BY <1>2, <1>3, <2>1, <2>2, <2>3, RepliedInv
<1>4. CASE Replies(Ok(TRUE, op', flaw))
  <2>1. /\ Ok(TRUE, op', flaw) \in Answers /\ Ok(TRUE, op', flaw).code = "ok"
        /\ Ok(TRUE, op', flaw).status = op' /\ Ok(TRUE, op', flaw).id
    BY <1>2, AnswerTypes
  <2>2. Sent /\ phase = "change" /\ started < MaxStarted /\ "ok" \notin Refusals
    BY DEF Accept, Refusals
  <2>. HIDE DEF Statuses, Outcomes
  <2>. QED BY <1>2, <1>4, <2>1, <2>2, RepliedInv
<1>. QED BY <1>1, <1>3, <1>4

LEMMA BreakInv == ASSUME IInv, Break PROVE IInv'
<1>1. PICK code \in Unclear, m \in BOOLEAN : Replies(Err(code, m))
  BY DEF Break
<1>2. Err(code, m) \in Answers /\ Err(code, m).code = code
  BY AnswerTypes DEF Codes
<1>3. /\ code # "ok" /\ code \notin Refusals /\ cut' = cut /\ cut \in BOOLEAN
      /\ \/ UNCHANGED <<started, op>>
         \/ /\ phase = "change" /\ started < MaxStarted /\ started' = 1
            /\ op' \in Statuses
  BY ExecuteInv DEF Refusals, Unclear, Break, IInv, TypeOK
<1>4. Sent
  BY DEF Break
<1>. HIDE DEF Statuses, Outcomes
<1>. QED BY <1>1, <1>2, <1>3, <1>4, RepliedInv

LEMMA CutInv == ASSUME IInv, Cut PROVE IInv'
<1>. DEFINE a == Ok(FALSE, None, phase \in {"preflight", "fallback"})
<1>0. (phase \in {"preflight", "fallback"}) \in BOOLEAN
  OBVIOUS
<1>1. a \in Answers /\ a.code = "ok" /\ a.status = None
  BY <1>0, AnswerTypes, Zenon
<1>2. CASE phase = "change"
  <2>1. started < MaxStarted /\ started' = 1 /\ op' \in Statuses
    BY <1>2, ExecuteInv DEF Cut
  <2>. QED BY <1>1, <1>2, <2>1, RepliedInv DEF Cut, Refusals
<1>3. CASE phase # "change"
  BY <1>1, <1>3, RepliedInv DEF Cut, Refusals
<1>. QED BY <1>2, <1>3

LEMMA InformInv == ASSUME IInv, Inform PROVE IInv'
<1>. DEFINE s == IF phase = "poll" THEN op ELSE None
<1>1. PICK flaw \in BOOLEAN : Replies(Ok(FALSE, s, flaw))
  BY DEF Inform
<1>2. s \in Statuses \cup {None} /\ cut' = cut /\ cut \in BOOLEAN
  BY DEF IInv, TypeOK, Inform, external
<1>3. /\ Ok(FALSE, s, flaw) \in Answers /\ Ok(FALSE, s, flaw).code = "ok"
      /\ Ok(FALSE, s, flaw).status = s
  BY <1>2, AnswerTypes
<1>4. s \in Outcomes => op' = s
  BY DEF Inform, external
<1>5. Sent /\ phase # "change" /\ UNCHANGED <<started, op>>
  BY DEF Inform, external
<1>. HIDE DEF s, Statuses, Outcomes
<1>. QED BY <1>1, <1>2, <1>3, <1>4, <1>5, RepliedInv

LEMMA ProgressInv == ASSUME IInv, Progress PROVE IInv'
<1>. USE DEF IInv, Progress
<1>1. TypeOK'
  BY DEF TypeOK
<1>2. PhaseInv' /\ StartedInv'
  BY DEF PhaseInv, StartedInv
<1>3. AnswerInv'
  BY DEF AnswerInv
<1>4. ZeroIsSuccess'
  BY DEF ZeroIsSuccess
<1>. QED BY <1>1, <1>2, <1>3, <1>4

-----------------------------------------------------------------------------
(* The client *)

LEMMA SendInv == ASSUME IInv, Send PROVE IInv'
<1>. USE DEF IInv, Send, external
<1>1. TypeOK'
  BY DEF TypeOK
<1>2. PhaseInv' /\ StartedInv' /\ AnswerInv' /\ ZeroIsSuccess'
  BY DEF PhaseInv, StartedInv, AnswerInv, ZeroIsSuccess
<1>. QED BY <1>1, <1>2

LEMMA RetryInv == ASSUME IInv, Retry PROVE IInv'
<1>. USE DEF IInv, Retry, external
<1>1. TypeOK'
  BY DEF TypeOK
<1>2. PhaseInv' /\ AnswerInv' /\ ZeroIsSuccess'
  BY DEF PhaseInv, AnswerInv, ZeroIsSuccess
<1>3. StartedInv'
  <2>1. CASE cmd.kind = "apply" /\ phase = "change"
    <3>1. Method = "POST"
      BY <2>1, CommandType DEF Method, TypeOK
    <3>2. answer.code \in Refusals
      BY <3>1 DEF ShouldRetry, Refusals
    <3>. QED BY <2>1, <3>2 DEF StartedInv
  <2>2. CASE ~(cmd.kind = "apply" /\ phase = "change")
    BY <2>2 DEF StartedInv
  <2>. QED BY <2>1, <2>2
<1>. QED BY <1>1, <1>2, <1>3

\* The command goes on to its next request.
LEMMA MovesInv ==
  ASSUME IInv, NEW p \in {"fallback", "validate", "diff", "change", "poll"}, Moves(p),
         UNCHANGED <<cmd, external>>,
         p = "diff" => cmd.dry,
         p = "fallback" => cmd.kind = "mutate",
         p \in {"validate", "diff"} => cmd.kind = "apply",
         p # "poll" => phase \in Early,
         phase # "end"
  PROVE  IInv'
<1>. USE DEF IInv, Moves, external
<1>1. TypeOK'
  BY DEF TypeOK
<1>2. PhaseInv' /\ AnswerInv' /\ ZeroIsSuccess'
  BY DEF PhaseInv, AnswerInv, ZeroIsSuccess
<1>3. StartedInv'
  BY DEF StartedInv
<1>. QED BY <1>1, <1>2, <1>3

\* The command ends.
LEMMA EndsInv ==
  ASSUME IInv, NEW code \in 0 .. 4, Ends(code), UNCHANGED <<cmd, external>>,
         code = 2 => phase \in Early,
         code = 0 /\ cmd.wait /\ ~cmd.dry /\ ~cut => op = "succeeded"
  PROVE  IInv'
<1>. USE DEF IInv, Ends, external
<1>1. TypeOK'
  BY DEF TypeOK
<1>2. PhaseInv' /\ AnswerInv'
  BY DEF PhaseInv, AnswerInv
<1>3. StartedInv'
  BY DEF StartedInv
<1>4. ZeroIsSuccess'
  BY DEF ZeroIsSuccess
<1>. QED BY <1>1, <1>2, <1>3, <1>4

LEMMA ExitTypes ==
  ASSUME IInv
  PROVE  /\ ExitOfApply \in {2, 3} /\ (ExitOfApply = 2 => phase \in Early)
         /\ \A a : ExitOf(a) \in 1 .. 4 /\ (ExitOf(a) = 2 => phase \in Early)
BY DEF ExitOfApply, ExitOf

LEMMA GiveUpInv == ASSUME IInv, GiveUp PROVE IInv'
<1>. DEFINE code == IF cmd.kind = "mutate" THEN 1 ELSE 3
<1>1. code \in 0 .. 4 /\ code # 0 /\ code # 2
  OBVIOUS
<1>. HIDE DEF code
<1>2. Ends(code)
  BY DEF GiveUp, code
<1>. QED BY <1>1, <1>2, EndsInv DEF GiveUp

LEMMA FailInv == ASSUME IInv, Fail PROVE IInv'
<1>. DEFINE falls == phase = "preflight" /\ answer.code # "garbled"
<1>1. CASE falls
  BY <1>1, MovesInv DEF Fail, IInv, PhaseInv
<1>2. CASE ~falls
  <2>1. Ends(ExitOf(answer))
    BY <1>2 DEF Fail
  <2>2. ExitOf(answer) \in 0 .. 4 /\ ExitOf(answer) # 0
    BY ExitTypes
  <2>. QED BY <2>1, <2>2, ExitTypes, EndsInv DEF Fail
<1>. QED BY <1>1, <1>2

LEMMA OkEarlyInv ==
  ASSUME IInv, Succeed, OkPreflight \/ OkValidate
  PROVE  IInv'
<1>. USE DEF Succeed
<1>1. CASE OkPreflight
  BY <1>1, MovesInv, EndsInv DEF OkPreflight
<1>2. CASE OkValidate /\ cmd.strict /\ answer.flaw
  <2>1. Ends(ExitOfApply) /\ ExitOfApply \in 0 .. 4 /\ ExitOfApply # 0
    BY <1>2, ExitTypes DEF OkValidate
  <2>. QED BY <2>1, ExitTypes, EndsInv
<1>3. CASE OkValidate /\ phase = "validate" /\ ~(cmd.strict /\ answer.flaw)
  BY <1>3, MovesInv DEF OkValidate, AfterValidate, IInv, PhaseInv
<1>4. CASE OkValidate /\ phase # "validate" /\ ~(cmd.strict /\ answer.flaw)
  <2>1. Ends(0) /\ cmd.dry
    BY <1>4 DEF OkValidate, IInv, PhaseInv
  <2>. QED BY <2>1, EndsInv
<1>. QED BY <1>1, <1>2, <1>3, <1>4

LEMMA OkChangeInv == ASSUME IInv, Succeed, OkChange PROVE IInv'
<1>. USE DEF Succeed, OkChange
<1>1. CASE cmd.strict /\ answer.flaw
  <2>1. Ends(ExitOfApply) /\ ExitOfApply \in 0 .. 4 /\ ExitOfApply # 0
    BY <1>1, ExitTypes
  <2>. QED BY <2>1, ExitTypes, EndsInv
<1>2. CASE ~(cmd.strict /\ answer.flaw) /\ answer.id /\ cmd.wait
  BY <1>2, MovesInv
<1>3. CASE ~(cmd.strict /\ answer.flaw) /\ ~(answer.id /\ cmd.wait)
  <2>1. Ends(0)
    BY <1>3
  <2>2. cmd.wait /\ ~cut => op = "succeeded"
    BY <1>3 DEF IInv, AnswerInv
  <2>. QED BY <2>1, <2>2, EndsInv
<1>. QED BY <1>1, <1>2, <1>3

LEMMA PollsAgainInv ==
  ASSUME IInv, Succeed, phase = "poll", PollsAgain
  PROVE  IInv'
<1>. USE DEF IInv, external, Succeed, PollsAgain
<1>1. TypeOK'
  BY DEF TypeOK
<1>2. PhaseInv' /\ StartedInv' /\ AnswerInv' /\ ZeroIsSuccess'
  BY DEF PhaseInv, StartedInv, AnswerInv, ZeroIsSuccess
<1>. QED BY <1>1, <1>2

LEMMA OkPollInv == ASSUME IInv, Succeed, OkPoll \/ OkPollForK8s PROVE IInv'
<1>1. CASE PollsAgain
  BY <1>1, PollsAgainInv DEF OkPoll, OkPollForK8s
<1>2. ASSUME NEW code \in {1, 3}, Ends(code) PROVE IInv'
  BY <1>2, EndsInv DEF Succeed
<1>3. CASE Ends(0) /\ answer.status = "succeeded"
  <2>1. op = "succeeded"
    BY <1>3 DEF Succeed, IInv, AnswerInv
  <2>. QED BY <1>3, <2>1, EndsInv DEF Succeed
<1>4. \/ PollsAgain \/ Ends(1) \/ Ends(3)
      \/ Ends(0) /\ answer.status = "succeeded"
  <2>. HIDE DEF Statuses
  <2>. QED BY DEF OkPoll, OkPollForK8s, Settled, Failed, SettledForK8s, FailedForK8s
<1>. QED BY <1>1, <1>2, <1>3, <1>4

-----------------------------------------------------------------------------
(* The theorems *)

LEMMA NextInv == IInv /\ [Next]_vars => IInv'
<1>. SUFFICES ASSUME IInv, [Next]_vars PROVE IInv'
  OBVIOUS
<1>1. CASE Client
  BY <1>1, SendInv, RetryInv, GiveUpInv, FailInv, OkEarlyInv, OkChangeInv, OkPollInv
     DEF Client, Succeed
<1>2. CASE Backend
  BY <1>2, RejectInv, AcceptInv, BreakInv, CutInv, InformInv DEF Backend
<1>3. CASE UNCHANGED vars
  BY <1>3 DEF vars, external, IInv, TypeOK, PhaseInv, StartedInv, AnswerInv,
              ZeroIsSuccess
<1>. QED BY <1>1, <1>2, <1>3, ProgressInv DEF Next

LEMMA Invariance == Spec => []IInv
<1>1. Init => IInv
  BY InitInv
<1>2. IInv /\ [Next]_vars => IInv'
  BY NextInv
<1>. QED BY <1>1, <1>2, PTL DEF Spec

\* Requests, answers and exit codes keep their types.
THEOREM TypeCorrect == Spec => []TypeOK
<1>1. IInv => TypeOK
  BY DEF IInv
<1>. QED BY <1>1, Invariance, PTL

\* However many retries are allowed, a command starts one operation at most.
THEOREM AtMostOneOperation == Spec => []OneOperation
<1>1. IInv => OneOperation
  BY DEF IInv, StartedInv, OneOperation
<1>. QED BY <1>1, Invariance, PTL

\* Exit code 0 of a command that waited tells of success, but for lost bodies.
THEOREM ZeroIsTrue == Spec => []ZeroIsSuccess
<1>1. IInv => ZeroIsSuccess
  BY DEF IInv
<1>. QED BY <1>1, Invariance, PTL

\* Exit code 2 tells that nothing was applied.
THEOREM TwoIsTrue == Spec => []TwoAppliesNothing
<1>1. IInv => TwoAppliesNothing
  BY DEF IInv, StartedInv, TwoAppliesNothing
<1>. QED BY <1>1, Invariance, PTL
=============================================================================
