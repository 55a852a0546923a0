----------------------------- MODULE TokenStore -----------------------------
(***************************************************************************)
(* The config file of the CLI (cli/src/config.rs) and the commands that     *)
(* run over it (main, run_agent and load_node_token in cli/src/main.rs).    *)
(* Each command is a process: it loads the whole file when it starts, may   *)
(* save credentials, talks to the backend, and `agent register` adds the    *)
(* token it was given and writes the whole file back.  There is no lock and *)
(* no temporary file: fs::write truncates the file and then writes it.      *)
(*                                                                         *)
(* Every command runs once.  A node registers once, so that a node stands   *)
(* for its token and its key.  The backend and the process are external.    *)
(***************************************************************************)
EXTENDS Integers, FiniteSets

CONSTANTS
  Cmds,        \* the processes
  Nodes,
  NodeOf,      \* the node a command registers or speaks for
  Registers,   \* the commands that are `agent register`; the other ones use
               \* the token of their node
  SavesAuth,   \* the commands with --save-auth
  MaxKills     \* bound on the processes that are killed

ASSUME CmdsAssumption ==
  /\ NodeOf \in [Cmds -> Nodes]
  /\ Registers \subseteq Cmds /\ SavesAuth \subseteq Cmds
  /\ \A p, q \in Registers : NodeOf[p] = NodeOf[q] => p = q
ASSUME KillsAssumption == MaxKills \in Nat

VARIABLES
  file,     \* "absent", "empty", "json", or "torn", which does not parse
  tokens,   \* the node_tokens of a file that is json
  pc,       \* where a process is
  cfg,      \* the node_tokens of the Config it loaded
  known,    \* external: the nodes that the backend has registered
  shared,   \* the processes that ran at the same time as a process did
  before,   \* the processes that had ended when a process loaded the file
  kills

disk    == <<file, tokens>>
history == <<shared, before>>
vars    == <<disk, pc, cfg, known, history, kills>>

\* "auth" and "save" are before the two calls of fs::write, "authing" and
\* "saving" between its truncation and its write.
Running == {"auth", "authing", "ready", "called", "save", "saving"}
Ended   == {"done", "denied", "failed", "killed"}

Saving(p) == p \in Registers \cup SavesAuth

Init ==
  /\ file = "absent" /\ tokens = {}
  /\ pc     = [p \in Cmds |-> "start"]
  /\ cfg    = [p \in Cmds |-> {}]
  /\ known  = {}
  /\ shared = [p \in Cmds |-> {}]
  /\ before = [p \in Cmds |-> {}]
  /\ kills  = 0

Goto(p, l) == pc' = [pc EXCEPT ![p] = l]

-----------------------------------------------------------------------------
(* Reading and writing the file *)

\* Slip: a file that cannot be parsed counts as no file.
ReadableAnyway == TRUE

\* serde_json takes neither an empty text nor two texts in one.
Readable == file \in {"absent", "json"}

Content == IF file = "json" THEN tokens ELSE {}

\* Config::load, first thing in main.
Load(p) ==
  LET others == {q \in Cmds : pc[q] \in Running}
      ended  == {q \in Cmds : pc[q] \in Ended}
  IN  /\ pc[p] = "start"
      /\ IF Readable
           THEN /\ cfg' = [cfg EXCEPT ![p] = Content]
                /\ Goto(p, IF p \in SavesAuth THEN "auth" ELSE "ready")
           ELSE Goto(p, "failed") /\ UNCHANGED cfg
      /\ before' = [before EXCEPT ![p] = ended]
      /\ shared' = [q \in Cmds |-> IF q = p THEN others
                                   ELSE IF q \in others THEN shared[q] \cup {p}
                                   ELSE shared[q]]
      /\ UNCHANGED <<disk, known, kills>>

\* fs::write opens the file with O_TRUNC ...
Truncate(p) ==
  /\ pc[p] \in {"auth", "save"}
  /\ file' = "empty" /\ tokens' = {}
  /\ Goto(p, IF pc[p] = "auth" THEN "authing" ELSE "saving")
  /\ UNCHANGED <<cfg, known, history, kills>>

\* Slip: only what this command has to say.
TextOwn(p) == IF p \in Registers /\ pc[p] = "saving" THEN {NodeOf[p]} ELSE cfg[p]

\* The text that save writes: the Config as it was loaded, and the new token.
Text(p) == cfg[p]

\* ... and writes from the start.  What another process wrote since then is
\* overwritten as far as the new text reaches, and longer texts keep their tail.
Write(p) ==
  /\ pc[p] \in {"authing", "saving"}
  /\ \/ file' = "json" /\ tokens' = Text(p)
     \/ file \in {"json", "torn"} /\ file' = "torn" /\ tokens' = {}
  /\ Goto(p, IF pc[p] = "authing" THEN "ready" ELSE "done")
  /\ UNCHANGED <<cfg, known, history, kills>>

\* A directory or a file that cannot be written ends the command.
WriteFails(p) ==
  /\ pc[p] \in {"auth", "save"}
  /\ Goto(p, "failed")
  /\ UNCHANGED <<disk, cfg, known, history, kills>>

-----------------------------------------------------------------------------
(* The commands *)

\* Slip: the file is opened for writing before the node is registered.
AskOpening(p) ==
  /\ pc[p] = "ready" /\ p \in Registers
  /\ file' = "empty" /\ tokens' = {}
  /\ Goto(p, "called")
  /\ UNCHANGED <<cfg, known, history, kills>>

\* `agent register` sends its join token; there is a join token.
Ask(p) ==
  /\ pc[p] = "ready" /\ p \in Registers
  /\ Goto(p, "called")
  /\ UNCHANGED <<disk, cfg, known, history, kills>>

\* The backend registers the node and its answer comes: the token goes into the
\* Config that was loaded at the start.
Granted(p) ==
  /\ pc[p] = "called"
  /\ known' = known \cup {NodeOf[p]}
  /\ cfg'   = [cfg EXCEPT ![p] = @ \cup {NodeOf[p]}]
  /\ Goto(p, "save")
  /\ UNCHANGED <<disk, history, kills>>

\* The backend refuses, or its answer is lost, is no JSON, or has no token.
Refused(p) ==
  /\ pc[p] = "called"
  /\ known' \in {known, known \cup {NodeOf[p]}}
  /\ Goto(p, "failed")
  /\ UNCHANGED <<disk, cfg, history, kills>>

\* heartbeat, allocation, placements, report and deregister: load_node_token,
\* then one request that changes nothing of the Config.
Use(p) ==
  /\ pc[p] = "ready" /\ p \notin Registers
  /\ Goto(p, IF NodeOf[p] \in cfg[p] THEN "done" ELSE "denied")
  /\ UNCHANGED <<disk, cfg, known, history, kills>>

\* The process is killed; between "truncate" and "write" this stands for a write
\* that fails, too.
Kill(p) ==
  /\ kills < MaxKills /\ pc[p] \in Running
  /\ kills' = kills + 1
  /\ Goto(p, "killed")
  /\ UNCHANGED <<disk, cfg, known, history>>

Step(p) == Load(p) \/ Truncate(p) \/ Write(p) \/ WriteFails(p) \/ Ask(p)
             \/ Granted(p) \/ Refused(p) \/ Use(p)

Next == \E p \in Cmds : Step(p) \/ Kill(p)

Spec == Init /\ [][Next]_vars

-----------------------------------------------------------------------------
(* Properties *)

\* Variables keep their types, a process is only where its command leads, and a
\* registration saves a Config that holds its token.
TypeOK ==
  /\ file \in {"absent", "empty", "json", "torn"}
  /\ tokens \in SUBSET Nodes
  /\ pc \in [Cmds -> {"start"} \cup Running \cup Ended]
  /\ cfg \in [Cmds -> SUBSET Nodes]
  /\ known \in SUBSET Nodes
  /\ shared \in [Cmds -> SUBSET Cmds]
  /\ before \in [Cmds -> SUBSET Cmds]
  /\ kills \in 0 .. MaxKills
  /\ \A p \in Cmds :
       /\ pc[p] \in {"auth", "authing"} => p \in SavesAuth
       /\ pc[p] \in {"called", "save", "saving"} => p \in Registers
       /\ pc[p] \in {"save", "saving"} => NodeOf[p] \in cfg[p]

\* p ran at the same time as another command that writes the file.
Contended(p) == \E q \in shared[p] \ {p} : Saving(q)

\* Some two commands that write the file ran at the same time.
Clashed == \E p \in Cmds : Saving(p) /\ Contended(p)

\* The token that `agent register` stored stays in the file, whatever commands
\* run later: it is lost only to a command that writes the file and ran at the
\* same time, or with the whole file.
TokenKept ==
  \A p \in Registers :
    pc[p] = "done" /\ file = "json" => NodeOf[p] \in tokens \/ Contended(p)

\* The file is without a text only while it is written, and stays so only if a
\* process was killed then; it is torn only by two writers.
ReadableUnlessTorn ==
  /\ file = "empty" => (\E p \in Cmds : pc[p] \in {"authing", "saving"}) \/ kills > 0
  /\ file = "torn" => Clashed

\* A command of a node whose registration had ended well before is not told to
\* register first, unless another writer ran along with that registration.
UserFindsToken ==
  \A u \in Cmds, p \in Registers :
    pc[u] = "denied" /\ p \in before[u] /\ pc[p] = "done" /\ NodeOf[p] = NodeOf[u]
      => Contended(p)

=============================================================================
