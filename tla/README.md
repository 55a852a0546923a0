# Verification of quiltc

TLA+ models of the programs in this repository, checked with TLC on small
instances and, where it matters most, proved with TLAPS for all instances.

* `PROJECT.json` lists components, runs, mutants, the map from definitions to
  source lines, hazards, findings and theorems.
* `tlc -workers 2 -config X.cfg M` runs a check, `tlapm M.tla` checks a proof.

Contents: [the system](#the-system) - [modules](#modules) -
[runs](#runs) - [fairness](#fairness) - [proofs](#proofs) -
[findings](#findings) - [not modelled](#not-modelled)

## The system

Four programs, in Rust, that talk over HTTP and gRPC.

| Part | State | Operations | Hard behaviour |
|---|---|---|---|
| Control plane, orchestrator (`control/src/services/orchestrator.rs`, 1676 lines) | six SQLite tables: policy, SLO, observations of workloads and of node groups, intents, actions | three timers: *fast loop* (5 s), *slow loop* (120 s), *dispatcher*; API: upsert policy and SLO, ingest, post a result, trigger a loop | retries and idempotency over HTTP, stale snapshots, restarts, cooldown and decision windows, u32 and f64 arithmetic |
| Agent (`agent/src`) | known peers, the VXLAN manager's map of peers; in the kernel the interface, an FDB entry per peer host, in the runtime a route per peer subnet | start (register, set up the interface, configure the subnet), heartbeat, peer sync (5 s), shutdown | a start that ends half way, two tasks over two locks, calls that fail, restart over a kernel that remembers, shutdown that does not wait for ever |
| Runtime (`runtime/src`) | map of routes, subnet and allocations | InjectRoute, RemoveRoute, ConfigureNodeSubnet, cleanup at exit | handlers that run concurrently without a lock across check, kernel call and record; handlers dropped at an await; containers that outlive agent and runtime |
| CLI (`cli/src`) | config file with node tokens; per run: the request it is at | about 60 commands, each one request or a short sequence | which requests may be sent again, waiting for operations, exit codes for CI, several commands over one config file |

Interactions. Clients store policies and observations in the control plane. The
fast loop turns them into an intent per workload and enqueues actions; the slow
loop enqueues scale actions per node group. The dispatcher sends actions over
HTTP to an *elasticity runtime* (not in this repository), with an idempotency
key, and polls the operations it started. The agent lists the nodes of the
control plane, writes FDB entries with netlink and calls the runtime's gRPC for
routes. The CLI calls a backend (not in this repository either).

What makes each part correct:

* *Dispatcher*: an action is executed at most once; it is settled in the end,
  whatever the runtime does; what is recorded of it is true; nothing settled is
  reopened.
* *Fast and slow loop*: targets and pools within policy; the newest rows agree
  with the intent; intents follow demand; one scale step per window.
* *Fast loop and dispatcher*: once demand is stable the pool has the size asked for.
* *Start of the agent, IPAM*: an agent that runs has an interface that is up and
  bridged and a runtime that gives out addresses of its subnet, each once.
* *Agent*: kernel and runtime mirror the node list, save where a call failed;
  shutdown ends and takes everything back.
* *Route manager*: map and kernel agree, or calls for one destination overlapped.
* *CLI*: one operation per command; 0 means done, 2 means nothing was applied;
  every command ends; a token that was stored stays.

## Modules

`X` is checked by `MCX` where there is one, which only gives constants their values.

### `ActionLifecycle` - the promise

Per action a `phase` (absent, open, succeeded, failed) and an `effect` at the
runtime (none, started, done). An action may be submitted, started at most once,
finished, and settled once; `Succeed` needs an effect that is done. `Override` is a
result that a client posts: from then on the record of that one action may be
anything, its effect is still what the runtime did. Under
`Spec` every open action is settled. No table, clock, retry or network.

### `Dispatch`, `MCDispatch`, `DispatchProofs` - the dispatcher

| Module | Code |
|---|---|
| `row[a]` | the columns of `orchestrator_action` that the dispatcher reads or writes |
| `stage`, `todo`, `snap`, `cur`, `answer` | local state of `run_dispatch_cycle` and `process_action`: the rest of the batch, the loaded `DispatchAction`s, the row at hand and the answer for it |
| `Enqueue` | `enqueue_action`, `INSERT OR IGNORE` |
| `StartCycle`, `Batches` | `load_dispatch_candidates`: due candidates, oldest first, `LIMIT` |
| `Expire` / `Poll` / `Send` / `Abort` | the branches of `process_action` up to the call; `Abort` is a `?` on a payload field, which ends the cycle |
| `Record` with `AfterPoll`, `AfterAccept`, `AfterRefusal` | the statement that writes an answer back |
| `Post` | `update_action_result` (any status, at any time) |
| `posted` | history: the actions for which clients posted a result |
| `Crash` | the process is started again, or SQLite refuses a statement |
| `Execute`, `Refuse`, `Progress`, `AnswerPoll`, `Fault`, `LoseBody` | external: the runtime and the network |

The batch is processed row by row from *snapshots*: between loading a row and
writing it, any number of other steps happen. A request stays on the wire when
its sender gives up or dies, so that it may be executed later. One step is one
database statement or one call; the two statements of a terminal expiry are one
step as the second has nothing to do (no caller passes a rollback action).

Times are relative and saturate: `age` one past every ttl and `attempt` at the
point where the code caps the exponent. Nothing the code compares lies beyond.

A posted result changes a row behind the back of the task, and in any way: every
property of a row's record is one of the actions outside `posted`, even while
clients post results for others.

`Lifecycle == INSTANCE ActionLifecycle WITH phase <- ..., effect <- ...,
overridden <- posted` is the refinement mapping: a row's status, the runtime's
operation, and who was posted to.

### `IntentSizing` - the arithmetic

`IntentSizing` holds the operators of `run_fast_loop_tx`: demand, desired
concurrency, SLO guard, clamps, pool sizes, hysteresis, placement. Integers have
width `U32Size`; `hard_quota + soft_burst` wraps as in a release build. Products
of f64 are exact integers except that a ceiling may be one too high (and a
truncation one too low) where the exact product is an integer: parameters `up`
and `down`; the fast loop chooses `up` anew for each product. The bounds that these numbers keep are properties of `Planner`, over
every workload that a run of the fast loop would decide on.

### `Planner`, `MCPlanner`, `MCSizing`, `PlannerProofs` - fast and slow loop

State: what clients stored, the intents and their age, the idempotency keys of
the current windows and the newest payload per type. `FastLoop` and `SlowLoop`
are each one transaction, as in the code; timers and trigger routes both call
them, so they may run at any time. A key ends in its decision window, so `Tick`
forgets keys when their window ends: no later insert can collide with them.
`MCSizing` is the instance with many policies and loads, `MCPlanner` the one with
longer behaviours.

### `Convergence`, `PoolControl`, `MCConvergence`, `ConvergenceProofs` - fast loop and dispatcher together

EXTENDS `Dispatch` and adds a fast loop that knows only sizes: `Ask` stands for
all that clients store, `FastLoop` stores the intent and calls `Enqueue` for the
next row unless its key is taken in this window, `Clock` ages both sides, and
`DispatchStep` lifts every step of dispatcher, runtime and network; the runtime
gives the pool the size of the operation that it started *last* (`last`).
The promise: when all is quiet, the pool is what the intent says, and once
clients stop asking, both are what they asked for. The code keeps it *save for
four reasons*, which `Excused` names and nothing else:

| | Reason | Why |
|---|---|---|
| `Missed` | the newest row failed or ran out of its ttl | the loop compares demand with the *stored intent*, not with what was carried out, and makes no new row |
| `Swallowed` | sizes went back and forth in one window | the key is taken; only if a cooldown is shorter than the window |
| `Overtaken` | an older row was sent again after a refusal or a lost answer, or its request came late | retries have no order; a restart alone is no reason, as what it sends again is the oldest row |
| `Tied` | two rows of one second | `created_at` has seconds; only with a cooldown of zero |

`PoolControl` is what the two loops promise together: decisions one after the
other, each on another size than the one before, and a pool that has the size of
a decision that was carried out, each at most once. Where a cooldown is shorter than
the window (`hasty`) they may also `Forget` one: the intent moves to a size that was
decided on before, and nothing is decided. `Control` maps a row to a
decision and a started operation to one that was carried out.

### `Overlay`, `MCOverlay`, `OverlayProofs` - the agent's two tasks

Two tasks. The loop goes `sleep -> listing -> sync -> (inject | eject) -> sync`,
holding the VXLAN lock from the first call for a peer to the second; `main` goes
`run -> joining -> dereg -> snap -> unroute -> free -> unfdb -> done`, with one
step per call. `Join` is the five-second timeout: it may fire wherever the loop
is in a call. A call fails either because the kernel refuses it (the entry is
there, or is not) or for no reason, up to `MaxFaults` times, in which case a
route may have been changed all the same. Restarts keep the kernel.

A node stands for its subnet (the control plane gives each its own). `HostOf`
lets two nodes share a host - a node that registers anew does - and one have an
address that does not parse.

### `Node`, `NodeProofs` - start of the agent, addresses of containers

The start goes `register -> check -> create -> setUp -> findBridge -> attach ->
connect -> configure -> running`, one step per call; an interface that is there
lets `check` go to `connect` at once. `Fail` ends the process at any step, before
or after the step was done. `ConfigureSubnet` is the RPC's effect: it sets the
subnet and clears the allocations, the very same subnet's too. `Allocate` and
`Release` are `allocate_ip` and `release_ip`; containers, which nobody in this
repository starts, are external, as are the bridge and restarts of the runtime.
History: `fresh` (allocated since the last clearing), `returned` (given back by a
container from before) and `cut` (a start that left the interface half set up, or
found no bridge), so that each property says exactly what the code does not keep.

### `Routes`, `RoutesProofs` - the route manager

A handler is a program counter: check the map, ask the kernel, write the map.
Handlers interleave, are dropped at any await, and are drained before
`cleanup_all_routes`. `torn` collects the destinations for which something
overlapped, was dropped or was lost since the last call that was alone, so that
`MapMirrorsKernel` can say exactly where map and kernel may differ. A destination is
a subnet in canonical form: the code keys its map by the string of the request and
gives the kernel the network in it, which are the same for the subnets of the
control plane that the agent, the only caller, passes on.

### `CliCommand`, `CliProofs` - commands that change something

One run of a command: `preflight`, `fallback`, `validate`, `diff`, `change`,
`poll`, `end`, each phase a request that `send_json_bytes` may send again.
`Mutations` are containers and snapshots (with an idempotency key), `Applies` is
`k8s apply` (without). The backend is external: it does nothing for a request
that it answers with 429 or a 4xx, and may have done all of it after a 5xx, a
broken connection, a 2xx without a body or one whose body is not JSON; the text of
a 5xx or a refusal may contain the words that make exit code 4 of it.

### `TokenStore`, `MCTokenStore`, `TokenProofs` - the config file

Each command is a process that loads the file first thing, with `--save-auth`
writes it, and with `agent register` asks the backend and writes it again.
`fs::write` is two steps, truncate and write, and two writers may mix their texts
(`torn`). `shared[p]` are the commands that ran at the same time as `p`, `before[p]`
those that had ended when `p` loaded the file. One registration per node, so a
node stands for its token.

Definitions whose comment begins with *Slip* are not part of any specification:
they are plausible bugs, put in the place of the definition that follows to see
that a property notices.

## Runs

| Run | Bounds | Shows |
|---|---|---|
| `dispatch_safety` (2,662 k states) | 2 actions of both retry rules, ttl 2 and 1, 1 crash, posted results for 1 action, statuses known and unknown | at most one execution; for actions without a posted result: started in order save after retries, true and final records, snapshots never stale, only unknown statuses strand a row |
| `dispatch_live` (199 k) | 2 actions, one with a bad payload, 1 crash, posted results for 1 action, a runtime that may say "pending" | every action is settled; a bad row stalls younger ones, for its ttl and no longer; posted results are undone by late answers only; `ActionLifecycle` is implemented, and so is its fairness |
| `sizing` (14 k) | 1 workload, width 128, policies and loads at 0, around the floors and near the width | four bounds on target and pools |
| `planner` (32 k) | 1 workload, 2 groups, windows 2 and 4, cooldowns 2 and 3, 4 inputs | agreement of rows and intent, one scale step per window, placement, intents follow demand |
| `convergence` (546 k) | 2 rows, 2 sizes, 3 changes, batch of 1, window 1, cooldowns 0 and 1, ttl 1, no crash | the pool follows intent and demand, save for the four reasons; refinement of `PoolControl` |
| `overlay` (220 k) | 4 peers (2 on one host, 1 unparsable), 3 changes, 1 fault, 1 restart | mirroring, leaks only where logged, shutdown ends, no deadlock of the two locks |
| `overlay_shutdown` | 2 peers, 2 changes, no fault | violation, see [findings](#findings) |
| `node` (136 k) | 2 subnets and one that is rejected, 2 addresses, 3 containers, 3 starts, 1 restart of the runtime | unique addresses, own subnet, interface ready, up to what the code gives away |
| `routes` (155 k) | 2 destinations, 2 links, 2 concurrent callers, 3 calls, 2 faults | map and kernel agree where not torn; a stop ends |
| `cli` (14 k) | 2 retries, 2 polls, 3 operations | one operation, exit codes, every command ends |
| `cli_cut` | as `cli` | violation, see [findings](#findings) |
| `tokens` (198 k) | 2 registrations, a command that uses a token, one that also saves credentials, 1 kill | tokens are kept, the file stays readable, users find their tokens, unless writers overlap |

Type invariants are proved, not run.

Why the bounds are enough. *Dispatch*: actions interact only through the batch
(order, head-of-line, the one task), for which two suffice; one crash gives a
duplicate request, and its key does not remember how many there were. The ttls
differ so that either row may expire first. *Convergence*: one row to be overtaken
and one to overtake it; a batch smaller than the table lets the head keep the
other row out; three changes go there and back; one second per window with a
cooldown of 0 or 1 is shorter than, and equal to, the window. Restarts are left to
the theorems, which cover any number of them; the run has none, for its time, and
`PoolFollowsDemand` alone rests on it. `OutOfRows` says
where the bound on rows, not the code, stops the loop. *Planner*: workloads share
nothing but node groups; four inputs allow policy, observation, group and one
change. *Overlay*: two peers on one host are the only peers that interact; one
fault shows every way in which a call can be lost, the properties speak of peers
without any. *Node*: three containers over two addresses exhaust the subnet and
let an old one give back what a new one holds; three starts are one cut short, one
that succeeds over it and one after a failure. *Routes*: destinations do not
interact, two callers suffice to overlap, three calls to tear and mend.
*CliCommand*: the behaviour depends on whether retries and polls are used up, not
on their number. *TokenStore*: two writers and a reader; a third writer adds no
new kind of overlap, and the proofs hold for any number.

Deadlock is checked except where the system really stops: the agent and the
runtime after shutdown, a command at its end, a node whose starts are used up.

## Fairness

* `Dispatch!Spec`: the clock, the dispatcher task and the end of a call. The
  tasks of `start_loops` loop for ever. That a call ends is an assumption on the
  network: `Client::new()` sets no timeout (hazard at line 1522).
* `Planner!Spec`: fast loop and clock, by the timers.
* `ConvergenceSpec`: the same two, and dispatcher and end of a call as in `Dispatch`.
  Nothing is assumed of clients, of the operations or of requests that lost their
  caller.
* `Overlay!Spec`: both tasks; the agent's HTTP client has a timeout of ten
  seconds, netlink and the local runtime are taken to answer, tokio's locks are
  fair. Nothing is assumed of signals, faults or the node list.
* `Routes!Spec`: handlers and the main task, as netlink answers.
* `CliCommand!Spec`: the command and the answer to a request, by the client's
  timeout. Nothing is assumed of the operation, which may run for ever.

## Proofs

Eight modules, checked by TLAPS with nothing left out, from the ASSUMEs on the
constants only (types, `None` outside the sets, finite node groups, powers of two
positive; of the statuses that a runtime may report only that "accepted" is among
them, as the parser makes it up, and that none is "absent", the models' word for a
row that is not there: any other string, "pending" too, may be reported). Every type
invariant, every state invariant and every action property of the passing runs is
proved, and both refinements. Each module
proves `Init => IInv`, `IInv /\ [Next]_vars => IInv'`
with one lemma per action, and `IInv => Inv`.

**Dispatch, whatever clients post.** `TypeOK` and `ExactlyOnce` follow from

    IInv == TypeOK /\ KeyInv

`ExactlyOnce` alone is not inductive: that a request on the wire starts nothing
new needs that the runtime has executed exactly the keys it has operations for,
that every request on the wire bears the key of its row, and that a row, a
snapshot or an accepting answer with an operation id comes from a key that was
executed. That is `KeyInv`. `ReopenedOnlyByLateAnswer` needs `LoadedInv` as well:
what a cycle loads is a candidate.

**Dispatch, for every action that nobody posted a result for**, while any number of
results are posted for others. `SnapshotFresh`, `TerminalAgrees` and `SuccessIsReal`
are inductive together with three facts that posting does not disturb (`OwnInv`): an
accepting answer of success is one of a success, what is on the wire or in the batch
has a row, and the attempts and the operation id of a snapshot are those of its row.
The dispatcher is then the only writer of these rows, hence writes only rows that are
open, hence settles each once.
`TerminalIsFinal` and the refinement `ImplementsLifecycle` follow: every step is
described by what it does to the row (`Settled`, `Created`, `Overridden`, `RowsKeep`)
and to the operation, and each description maps to a step of `ActionLifecycle`.
`OnlyUnknownStatusStrands` needs `InFlight`: a row that was accepted has an
operation id. `OvertakenOnlyByRetry` needs `OrderInv`: whatever a younger row is
past - because it was sent, or is in a batch that the older one is not in - was
tried; it holds for batches of any size, since a batch
is a prefix of the due rows by age. `BadRowStallsYounger` needs that a bad row was
never sent (`BadInv`). The last two assume that attempts are counted at all
(`BackoffCap # 0`; 6 in the code).

**Convergence**, for any number of rows, sizes, restarts, any ttl, window, cooldown
and batch size. First, `Composition`: every step of the two loops is a step of
`Dispatch` or leaves its variables alone, so what is proved of the dispatcher holds
for the composition and is used here, with nothing posted. Then `PoolIsIntended`, by

| Part | Says | Because |
|---|---|---|
| `Numbered`, `PlanInv` | the rows that were made are those with a payload, none above them; the newest says what the intent says, or a cooldown is shorter than the window; every key of this window is that of a row | `Enqueue` makes the lowest unused row; a key of this window is that of the present intent |
| `AgeInv` | a younger row has less age unless there is no cooldown or both ages have stopped | between two rows lies a cooldown |
| `SentInv` | if a younger row was sent, an older one was sent or settled before | batches are prefixes by age, and a restart sends the oldest first |
| `LastInv` | if the last operation started is not that of the newest sent row, its row is past its first attempt, or two rows share a second | by the two before, and as an answer to a first request is an acceptance unless it was lost |

At rest the newest row is settled: as a failure (`Missed`), or as a success, and
then its operation was started, so that `LastInv` speaks of it. `ControlRefined`
proves the refinement of `PoolControl` for all cooldowns: a change of the intent
either makes a row (`Decide`), or meets a key of this window; then the cooldown is
shorter than the window (`NoneSwallowed`) and the key is that of a row, so that the
step is a `Forget`.

**Planner**, for any workloads, groups, windows. The bounds of the sizes, for
every policy, load and width - and one on burst memory that no run repeats - follow from the types of what is stored, by bounds on
the ceilings (`CeilDivBounds`), then on what is wanted (`WantedBounds`), the target
and the pools. `NewestMatchesIntent` needs
`KeyInv`: a workload with a key in this window has an intent no older than the
window, so that with cooldowns no shorter than it no change meets that key.
`ScaledOncePerWindow` needs that a scale step was made exactly if its key is there
(`ScaledInv`). `AwayFromHeat` needs that a finite set of groups has a coolest one,
by well-founded induction over the groups below.

**Overlay**, for any nodes, hosts, faults and restarts. `MirrorsKnown` speaks of
the moments between two peers; `Mirror` adds the half-done peer, and `Apart` that
two peers on one host are never both in use without a logged error. `CleanExit`
needs `LoopIsOver` (a shutdown that was not late has the loop behind it) and
`TakingBack` (what is still to be taken back covers what is left).

**Routes**, for any number of handlers. `AloneInv` (a handler that nothing
overlapped is the only one for its destination) and `HalfwayInv` (the kernel is
ahead of the map between its two halves) carry `MapMirrorsKernel`; `CleanInv` says
what the cleanup has still to do.

**CliCommand**, for any number of retries and polls. `StartedInv`: nothing is
started before the change is sent, nor, without a key, as long as it may be sent
again. `AnswerInv`: what an answer says of an operation stays true.

**Node**, for any subnets, containers and restarts. `LinkInv` says how far the
interface is at each step; `HeldInv` that a fresh address is of the present subnet
and allocated unless it was given back by somebody else.

**TokenStore**, for any number of commands. `SharedInv` makes "ran at the same
time" symmetric; `TokenInv` says that a stored token is in the file *and in every
Config from which it could be written back*; `FileInv` that who writes finds the
file as it left it, or ran beside a writer.

Only model-checked: what concerns liveness and fairness (`EventuallySettled`,
`ImplementsFairness`, `IntentFollowsDemand`, `PoolFollowsDemand`, `Converges`,
`ShutdownEnds`, `StopEnds`, `CommandEnds`), which TLAPS does not reach.

## Findings

1. `ShutdownCleans` (`overlay_shutdown`): shutdown reads the peers once, whether
   or not the sync loop has stopped. A list call that takes longer than five
   seconds adds its peers after that, and their routes and entries stay, against
   `agent/src/main.rs:227`. `CleanExit` is what holds: a loop that had stopped.
2. `FollowedApplySucceeds` (`cli_cut`): a 2xx answer whose body cannot be read
   counts as empty, so `k8s apply --follow` exits with 0 and follows nothing.

What the passing properties say that a reader may not expect.

* A dispatched action whose answer has an unknown status is never visited again
  (`OnlyUnknownStatusStrands`). An action may be `failed` while the runtime carries
  it out (nothing forbids it in `ActionLifecycle`).
* One row with a blank workload or node group (observations are stored unchecked;
  a blank `function_id` is refused with its policy) stops the dispatch of younger
  rows for its whole ttl (`BadRowStallsYounger`).
* A pool may keep an old size for good, although everything works again: a
  `SetPoolTarget` that failed is not made again until demand moves beyond the
  hysteresis once more, and an older one that is retried undoes a newer one
  (`PoolFollowsDemand` with its four reasons).
* Under an SLO violation the soft burst counts twice (`QuotaRespected`). A workload
  may be told to stay apart from the group it is sent to, if all are equally hot
  (`AwayFromHeat`).
* A restart of the agent makes the runtime give out addresses that running
  containers hold: `configure_subnet` clears the allocations for the same subnet
  too, while the comment at `runtime/src/ipam.rs:61` says "Reset allocations when
  subnet changes". A container from before may then give back an address that a
  newer one holds (`AddressesDiffer`, which excludes just these two). A runtime that
  restarts alone has no subnet until the agent restarts (`OwnSubnetOnly`).
* An interface that one start left down or without its bridge stays so: later
  starts find it and take it as it is (`RunningIsBridged`).
* A peer whose only `InjectRoute` failed gets no route as long as it stays up, as
  the code calls it once per peer, while `docs/QUILT_RPCS_NEEDED.md:61` has "Every
  5s during peer sync (idempotent)" (`MirrorsKnown` and `Converges` exclude it by
  `logged`).
* Two commands that write the config file at the same time may lose a token or the
  whole file, as may a kill within a write (`TokenKept`, `ReadableUnlessTorn`).

Hazards that the code does not guard against appear as named exceptions of a
property (`torn`, `cut`, `fresh`, `returned`, `shared`, `Fits`, ...): such a property
says that nothing else goes wrong, not that the hazard is averted. Three have none:
an action that is recorded as failed while the runtime carries it out, what a
restarted agent leaves behind (`left`), and a call of the elasticity runtime that
never ends.

## Not modelled

* Heartbeats: a call every ten seconds whose failure is logged; it changes nothing
  in the agent. What it means to the control plane is not in this repository.
* Other CLI commands: one request each, with the client's retries as in
  `CliCommand`, then printing. Streaming and the walk over manifest files keep no
  state. The other `k8s` commands are prefixes of `apply`.
* Control plane start-up, routes of the HTTP API, list endpoints, TLS, schema
  migration, the certificates tool, logging: I/O and wiring. SQLite appears as
  atomic statements and transactions; one that is refused is rolled back whole and
  tried again by the next tick, which is no step of `Planner` and a `Crash` of
  `Dispatch`.
* `reason_code`, `reason_message`, latency columns: nothing reads them. The dispatcher's ownership check cannot fail, as no code deletes policies.
  A rollback action is never given to `enqueue_action`, so the second statement of
  a terminal failure has nothing to do.
* The elasticity runtime, the CLI's backend, the kernel, the node list and the
  containers are external and modelled from what the code relies on.
* Not composed: `Overlay` with `Routes` (the agent is the only caller of the route
  RPCs and makes one call at a time, so handlers overlap only after a
  connection broke).
