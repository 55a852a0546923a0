----------------------------- MODULE CliCommand -----------------------------
(***************************************************************************)
(* One run of a quiltc command that changes something and may wait for it:   *)
(* the mutations of containers and snapshots (run_operation_mutation in      *)
(* cli/src/main.rs) and "k8s apply" (run_k8s), over the HTTP client's        *)
(* retries (cli/src/http_client.rs).  A command is a sequence of requests;    *)
(* a request is sent again on some statuses, and any other failure ends the   *)
(* command with an exit code.                                                *)
(*                                                                         *)
(* External: the backend.  It does nothing for a request that it answers with *)
(* 429 or a 4xx; after a 5xx, a broken connection or a 2xx whose body is not   *)
(* JSON it may have done all of it; and it starts one operation for one        *)
(* Idempotency-Key.                                                          *)
(***************************************************************************)
EXTENDS Integers

CONSTANTS
  Retries,         \* --retries, 2 by default
  Timeout,         \* --timeout-secs of the wait, in polls
  MaxStarted,      \* bound on operations
  None

ASSUME BoundAssumption == Retries \in Nat /\ Timeout \in Nat /\ MaxStarted \in Nat

Outcomes == {"succeeded", "failed", "cancelled", "timed_out"}
Statuses == Outcomes \cup {"running"}

\* Which command, with which options.
Mutations == [kind : {"mutate"}, method : {"POST", "DELETE"}, wait : BOOLEAN,
              needs : BOOLEAN,                  \* --require-capability
              validate : {FALSE}, dry : {FALSE}, strict : {FALSE}]
Applies   == [kind : {"apply"}, method : {"POST"}, wait : BOOLEAN, needs : {FALSE},
              validate : BOOLEAN, dry : BOOLEAN, strict : BOOLEAN]

VARIABLES
  cmd,             \* the command
  phase,           \* the request it is at, "end" when it has ended
  attempt,         \* requests sent in this phase
  elapsed,         \* polls made
  answer,          \* the answer that has come, or None
  exit,            \* the exit code, or None
  started, op,     \* external: operations started, and the status of the last one
  cut              \* external: a 2xx answer came without its body

external == <<started, op, cut>>
vars     == <<cmd, phase, attempt, elapsed, answer, exit, external>>

\* The codes of answers to requests for which the backend has done nothing.
Refusals == {"429", "refused", "auth"}

\* Answers that say nothing of what was done; garbled is a 2xx without JSON.
Unclear == {"5xx", "broken", "garbled"}

Codes == {"ok"} \cup Unclear \cup Refusals

\* flaw: warnings in the body, or a capability that is missing;
\* mentions: the error text contains "connection", "timed out" or "dns".
Answers == [code : Codes, id : BOOLEAN, status : Statuses \cup {None},
            flaw : BOOLEAN, mentions : BOOLEAN]

ASSUME NoneAssumption ==
  None \notin Statuses /\ None \notin 0 .. 4 /\ None \notin Answers

Ok(id, status, flaw) ==
  [code |-> "ok", id |-> id, status |-> status, flaw |-> flaw, mentions |-> FALSE]
Err(code, mentions) ==
  [code |-> code, id |-> FALSE, status |-> None, flaw |-> FALSE, mentions |-> mentions]

AfterValidate(c) == IF c.dry THEN "diff" ELSE "change"

FirstPhase(c) == IF c.needs THEN "preflight"
                 ELSE IF c.validate THEN "validate" ELSE AfterValidate(c)

Init ==
  /\ cmd \in Mutations \cup Applies
  /\ phase = FirstPhase(cmd)
  /\ attempt = 0 /\ elapsed = 0 /\ answer = None /\ exit = None
  /\ started = 0 /\ op = None /\ cut = FALSE

Method == CASE phase = "change" -> cmd.method
            [] phase \in {"validate", "diff"} -> "POST"
            [] OTHER -> "GET"

-----------------------------------------------------------------------------
(* The backend (external) *)

Keyed == cmd.kind = "mutate"

\* A change is executed: one with a key that is known already finds its operation.
Execute(status) ==
  IF Keyed /\ started > 0 THEN UNCHANGED <<started, op>>
  ELSE started' = started + 1 /\ op' = status

Sent == phase # "end" /\ answer = None /\ attempt > 0

Replies(a) == answer' = a /\ UNCHANGED <<cmd, phase, attempt, elapsed, exit>>

Reject ==
  /\ Sent
  /\ \E code \in Refusals, mentions \in BOOLEAN : Replies(Err(code, mentions))
  /\ UNCHANGED external

Accept ==
  /\ Sent /\ phase = "change" /\ started < MaxStarted
  /\ \E s \in Statuses, flaw \in BOOLEAN :
       /\ Execute(s)
       /\ \/ op' = "succeeded" /\ Replies(Ok(FALSE, None, flaw))   \* synchronous
          \/ Replies(Ok(TRUE, op', flaw))
  /\ UNCHANGED cut

Break ==
  /\ Sent
  /\ \E code \in Unclear, mentions \in BOOLEAN :
       /\ mentions => code = "5xx"      \* the other two have texts of their own
       /\ Replies(Err(code, mentions))
  /\ \/ UNCHANGED <<started, op>>
     \/ phase = "change" /\ started < MaxStarted /\ \E s \in Statuses : Execute(s)
  /\ UNCHANGED cut

\* The connection breaks after the head of a 2xx answer: send_json_bytes returns
\* an empty body, which says nothing (and fails to parse as capabilities).
Cut ==
  /\ Sent
  /\ Replies(Ok(FALSE, None, phase \in {"preflight", "fallback"}))
  /\ cut' = TRUE
  /\ IF phase = "change" THEN started < MaxStarted /\ \E s \in Statuses : Execute(s)
                         ELSE UNCHANGED <<started, op>>

Inform ==
  /\ Sent /\ phase # "change"
  /\ \E flaw \in BOOLEAN : Replies(Ok(FALSE, IF phase = "poll" THEN op ELSE None, flaw))
  /\ UNCHANGED external

Progress ==
  /\ op = "running"
  /\ op' \in Outcomes
  /\ UNCHANGED <<cmd, phase, attempt, elapsed, answer, exit, started, cut>>

-----------------------------------------------------------------------------
(* The HTTP client *)

\* Slip: 5xx is tried again whatever the method.
ShouldRetryAll(method, code) == code \in {"429", "5xx"}

ShouldRetry(method, code) ==
  code = "429" \/ (code = "5xx" /\ method \in {"GET", "DELETE"})

\* Slip: the wait never times out.
TimedOutNever == FALSE

\* The loops that poll look at the time before each request of their own.
TimedOut == phase = "poll" /\ attempt = 0 /\ elapsed > Timeout

Send ==
  /\ phase # "end" /\ answer = None /\ attempt = 0 /\ ~TimedOut
  /\ attempt' = 1
  /\ UNCHANGED <<cmd, phase, elapsed, answer, exit, external>>

Retry ==
  /\ answer # None
  /\ answer.code # "ok" /\ attempt <= Retries /\ ShouldRetry(Method, answer.code)
  /\ attempt' = attempt + 1 /\ answer' = None
  /\ UNCHANGED <<cmd, phase, elapsed, exit, external>>

-----------------------------------------------------------------------------
(* The commands *)

\* Slip: whatever apply is told by the backend counts as validation.
ExitOfApplyEarly == 2

\* The exit code of k8s for what is not about transport.
ExitOfApply == IF phase \in {"validate", "diff"} THEN 2 ELSE 3

\* map_k8s_transport_or_auth goes by the text of the error.
ExitOf(a) ==
  IF cmd.kind = "mutate" THEN 1
  ELSE IF a.code \in {"auth", "broken"} \/ a.mentions THEN 4
  ELSE ExitOfApply

\* k8s_operation_failed, and where k8s_wait_for_apply_operation stops: it goes on
\* when an operation has timed out.
FailedForK8s(status)  == status \in {"failed", "cancelled"}
SettledForK8s(status) == status \in {"succeeded", "failed", "cancelled"}

\* is_terminal_failure and is_terminal.
Failed(status)  == status \in {"failed", "cancelled", "timed_out"}
Settled(status) == status \in Outcomes

Moves(p) == phase' = p /\ attempt' = 0 /\ answer' = None /\ UNCHANGED <<elapsed, exit>>

Ends(code) ==
  /\ phase' = "end" /\ exit' = code
  /\ attempt' = 0 /\ answer' = None
  /\ UNCHANGED elapsed

GiveUp ==
  /\ TimedOut
  /\ Ends(IF cmd.kind = "mutate" THEN 1 ELSE 3)
  /\ UNCHANGED <<cmd, external>>

\* An error that is not tried again; the second preflight request is a fallback,
\* for a first one that brought no body.
Fail ==
  /\ answer # None /\ answer.code # "ok"
  /\ ~(attempt <= Retries /\ ShouldRetry(Method, answer.code))
  /\ IF phase = "preflight" /\ answer.code # "garbled"
       THEN Moves("fallback") ELSE Ends(ExitOf(answer))
  /\ UNCHANGED <<cmd, external>>

OkPreflight ==
  /\ phase \in {"preflight", "fallback"}
  /\ IF answer.flaw THEN Ends(1) ELSE Moves("change")

OkValidate ==
  /\ phase \in {"validate", "diff"}
  /\ IF cmd.strict /\ answer.flaw THEN Ends(ExitOfApply)
     ELSE IF phase = "validate" THEN Moves(AfterValidate(cmd))
     ELSE Ends(0)

OkChange ==
  /\ phase = "change"
  /\ IF cmd.strict /\ answer.flaw THEN Ends(ExitOfApply)
     ELSE IF answer.id /\ cmd.wait THEN Moves("poll")
     ELSE Ends(0)

\* Sleep, and ask once more.
PollsAgain ==
  /\ elapsed' = IF elapsed > Timeout THEN elapsed ELSE elapsed + 1
  /\ attempt' = 0 /\ answer' = None
  /\ UNCHANGED <<phase, exit>>

\* Mutations take an empty body for one that cannot be parsed ...
OkPoll ==
  /\ phase = "poll" /\ cmd.kind = "mutate"
  /\ IF answer.status = None THEN Ends(1)
     ELSE IF Settled(answer.status)
       THEN Ends(IF Failed(answer.status) THEN 1 ELSE 0)
     ELSE PollsAgain

\* ... and "k8s apply" for an operation that is not done.
OkPollForK8s ==
  /\ phase = "poll" /\ cmd.kind = "apply"
  /\ IF SettledForK8s(answer.status)
       THEN Ends(IF FailedForK8s(answer.status) THEN 3 ELSE 0)
       ELSE PollsAgain

Succeed ==
  /\ answer # None /\ answer.code = "ok"
  /\ OkPreflight \/ OkValidate \/ OkChange \/ OkPoll \/ OkPollForK8s
  /\ UNCHANGED <<cmd, external>>

Client  == Send \/ Retry \/ GiveUp \/ Fail \/ Succeed
Backend == Reject \/ Accept \/ Break \/ Cut \/ Inform

Next == Client \/ Backend \/ Progress

\* The command runs, and every request is answered or breaks: the client is
\* built with a timeout.  Nothing is assumed of the operation itself.
Spec == Init /\ [][Next]_vars /\ WF_vars(Client) /\ WF_vars(Backend)

-----------------------------------------------------------------------------
(* Properties *)

\* A request is sent at most once and Retries times more.
TypeOK ==
  /\ cmd \in Mutations \cup Applies
  /\ phase \in {"preflight", "fallback", "validate", "diff", "change", "poll", "end"}
  /\ attempt \in 0 .. (Retries + 1) /\ elapsed \in 0 .. (Timeout + 1)
  /\ answer \in Answers \cup {None}
  /\ exit \in {None} \cup 0 .. 4 /\ (exit # None <=> phase = "end")
  /\ started \in 0 .. MaxStarted /\ op \in Statuses \cup {None} /\ cut \in BOOLEAN

\* However often a request is sent again, a run of a command starts at most one
\* operation: with a key because the key is the same for every attempt, without
\* one because a POST is sent again only if nothing was done for it.
OneOperation == started <= 1

\* A command that waited ends with 0 only if its operation has succeeded, or the
\* backend named none and had done all of it; unless an answer lost its body.
ZeroIsSuccess == exit = 0 /\ cmd.wait /\ ~cmd.dry /\ ~cut => op = "succeeded"

\* "0: success" against "4: transport or auth failure" (README.md:200-203): an
\* apply that follows its operation ends with 0 only if that has succeeded.
FollowedApplySucceeds ==
  exit = 0 /\ cmd.kind = "apply" /\ cmd.wait /\ ~cmd.dry => op = "succeeded"

\* "2: validation failure" (README.md:201): nothing was applied.
TwoAppliesNothing == exit = 2 => started = 0

\* Every command ends, also one that waits for an operation that never does.
CommandEnds == <>(phase = "end")
=============================================================================
