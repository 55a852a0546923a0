------------------------------ MODULE Overlay ------------------------------
(***************************************************************************)
(* The mesh agent (agent/src/main.rs, agent/src/overlay/vxlan.rs): its peer *)
(* sync loop mirrors the nodes that the control plane lists as up into the   *)
(* kernel, as one FDB entry for a peer's host and one route for its subnet,  *)
(* and its main task takes both back at shutdown.  The two tasks share the   *)
(* VXLAN manager and the client of the runtime, each behind a lock that is   *)
(* held from the first call for a peer to the last.                          *)
(*                                                                         *)
(* External: the node list of the control plane, where every node has a     *)
(* subnet of its own, so that a node stands for its subnet; the kernel, which *)
(* refuses an FDB entry that is there and the removal of one that is not; and *)
(* the runtime, whose answer may be lost after the route was changed.         *)
(***************************************************************************)
EXTENDS Integers

CONSTANTS
  Nodes, Self,     \* nodes of the cluster, and the one the agent runs on
  HostOf,          \* the host_ip of a node; two nodes may share one
  BadHost,         \* a host_ip that does not parse
  MaxChanges,      \* bound on nodes that come and go
  MaxFaults,       \* bound on calls that fail for no reason of the model
  MaxStarts,       \* bound on the restarts of the agent
  None

Peers == Nodes \ {Self}
Hosts == {HostOf[n] : n \in Peers} \ {BadHost}

ASSUME NodeAssumption == Self \in Nodes /\ None \notin Nodes
ASSUME HostAssumption == DOMAIN HostOf = Nodes
ASSUME BoundAssumption == MaxChanges \in Nat /\ MaxFaults \in Nat /\ MaxStarts \in Nat

VARIABLES
  up,              \* external: the nodes listed as up
  fdb, routes,     \* external: hosts in the FDB, nodes with a route
  peers,           \* VxlanManager.peers
  known,           \* known_peers of the loop
  list,            \* current_peers of this iteration
  loop,            \* "sleep", "listing", "sync", "inject", "eject", "stopped"
  at,              \* the peer the loop holds the VXLAN lock for, or None
  main,            \* "run", then "joining" .. "unfdb", then "done" or "killed"
  doomed, todo,    \* peer_subnets of graceful_shutdown, and what is left of it
  logged,          \* peers for which this process logged an error
  late,            \* shutdown went on before the loop had stopped
  left,            \* peers with an entry or a route when the process started
  changes, faults, starts

kernel  == <<fdb, routes>>
syncing == <<known, list, loop, at>>
ending  == <<main, doomed, todo, late>>
bounds  == <<changes, faults, starts>>
vars    == <<up, kernel, peers, syncing, ending, logged, left, bounds>>

Init ==
  /\ up = {Self}
  /\ fdb = {} /\ routes = {}
  /\ peers = {} /\ known = {} /\ list = {} /\ loop = "sleep" /\ at = None
  /\ main = "run" /\ doomed = {} /\ todo = {} /\ late = FALSE
  /\ logged = {} /\ left = {}
  /\ changes = 0 /\ faults = 0 /\ starts = 0

-----------------------------------------------------------------------------
(* Calls: each succeeds, or logs an error for its peer *)

Alive == main \notin {"done", "killed"}

Succeeds == UNCHANGED <<logged, faults>>

Fails(n) == logged' = logged \cup {n} /\ UNCHANGED faults

Faulty(n) == /\ faults < MaxFaults
             /\ faults' = faults + 1
             /\ logged' = logged \cup {n}

\* Slip: the map is updated before the kernel, as remove_peer does it.
AddEntryMapFirst(n) ==
  /\ peers' = peers \cup {n}
  /\ \/ HostOf[n] \notin fdb /\ fdb' = fdb \cup {HostOf[n]} /\ Succeeds
     \/ HostOf[n] \in fdb /\ UNCHANGED fdb /\ Fails(n)
     \/ UNCHANGED fdb /\ Faulty(n)

\* VxlanManager::add_peer: the kernel first, then the map.
AddEntry(n) ==
  \/ /\ HostOf[n] \notin fdb
     /\ fdb' = fdb \cup {HostOf[n]} /\ peers' = peers \cup {n} /\ Succeeds
  \/ HostOf[n] \in fdb /\ UNCHANGED <<fdb, peers>> /\ Fails(n)
  \/ UNCHANGED <<fdb, peers>> /\ Faulty(n)

\* VxlanManager::remove_peer: the map first, then the kernel.
RemoveEntry(n) ==
  IF n \notin peers THEN UNCHANGED <<fdb, peers>> /\ Succeeds
  ELSE /\ peers' = peers \ {n}
       /\ \/ HostOf[n] \in fdb /\ fdb' = fdb \ {HostOf[n]} /\ Succeeds
          \/ HostOf[n] \notin fdb /\ UNCHANGED fdb /\ Fails(n)
          \/ UNCHANGED fdb /\ Faulty(n)

\* An RPC that makes the routes R: done, done with the answer lost, or not done.
SetRoutes(n, R) ==
  \/ routes' = R /\ Succeeds
  \/ routes' = R /\ Faulty(n)
  \/ UNCHANGED routes /\ Faulty(n)

\* Slip: the guard of the quilt client lives on until the end of the function.
QuiltFreeAtExit == main \notin {"unroute", "free"}

VxlanFree == loop \notin {"inject", "eject"} /\ main # "unfdb"
QuiltFree == main # "unroute"

-----------------------------------------------------------------------------
(* peer_sync_loop *)

StartList ==
  /\ Alive /\ loop = "sleep" /\ main = "run"
  /\ loop' = "listing"
  /\ UNCHANGED <<up, kernel, peers, known, list, at, ending, logged, left, bounds>>

\* Slip: nodes that are down stay in the list.
ListAll ==
  /\ Alive /\ loop = "listing"
  /\ list' = (up \cup known) \ {Self}
  /\ loop' = "sync"
  /\ UNCHANGED <<up, kernel, peers, known, at, ending, logged, left, bounds>>

List ==
  /\ Alive /\ loop = "listing"
  /\ list' = up \ {Self}
  /\ loop' = "sync"
  /\ UNCHANGED <<up, kernel, peers, known, at, ending, logged, left, bounds>>

ListFails ==
  /\ Alive /\ loop = "listing" /\ faults < MaxFaults
  /\ faults' = faults + 1
  /\ loop' = "sleep"
  /\ UNCHANGED <<up, kernel, peers, known, list, at, ending, logged, left, changes, starts>>

New  == list \ known
Gone == known \ list

AddPeer(n) ==
  /\ Alive /\ loop = "sync" /\ n \in New /\ HostOf[n] # BadHost /\ VxlanFree
  /\ AddEntry(n)
  /\ loop' = "inject" /\ at' = n
  /\ UNCHANGED <<up, routes, known, list, ending, left, changes, starts>>

\* A peer whose address does not parse is known from then on.
SkipPeer(n) ==
  /\ Alive /\ loop = "sync" /\ n \in New /\ HostOf[n] = BadHost
  /\ known' = known \cup {n}
  /\ UNCHANGED <<up, kernel, peers, list, loop, at, ending, logged, left, bounds>>

\* Whatever the two calls returned, the peer is known from then on.
Inject ==
  /\ Alive /\ loop = "inject" /\ QuiltFree
  /\ SetRoutes(at, routes \cup {at})
  /\ known' = known \cup {at}
  /\ loop' = "sync" /\ at' = None
  /\ UNCHANGED <<up, fdb, peers, list, ending, left, changes, starts>>

RemovePeer(n) ==
  /\ Alive /\ loop = "sync" /\ New = {} /\ n \in Gone /\ VxlanFree
  /\ RemoveEntry(n)
  /\ loop' = "eject" /\ at' = n
  /\ UNCHANGED <<up, routes, known, list, ending, left, changes, starts>>

\* Slip: a peer that went stays among the known ones.
EjectRemembers ==
  /\ Alive /\ loop = "eject" /\ QuiltFree
  /\ SetRoutes(at, routes \ {at})
  /\ loop' = "sync" /\ at' = None
  /\ UNCHANGED <<up, fdb, peers, known, list, ending, left, changes, starts>>

\* Whatever the two calls returned, the peer is forgotten.
Eject ==
  /\ Alive /\ loop = "eject" /\ QuiltFree
  /\ SetRoutes(at, routes \ {at})
  /\ known' = known \ {at}
  /\ loop' = "sync" /\ at' = None
  /\ UNCHANGED <<up, fdb, peers, list, ending, left, changes, starts>>

EndSync ==
  /\ Alive /\ loop = "sync" /\ New = {} /\ Gone = {}
  /\ loop' = "sleep" /\ list' = {}
  /\ UNCHANGED <<up, kernel, peers, known, at, ending, logged, left, bounds>>

\* Slip: the token cancels the iteration, in the middle of a peer too.
StopLoopAnywhere ==
  /\ Alive /\ loop # "stopped" /\ main # "run"
  /\ loop' = "stopped" /\ at' = None
  /\ UNCHANGED <<up, kernel, peers, known, list, ending, logged, left, bounds>>

\* The loop looks at the token only where it sleeps.
StopLoop ==
  /\ Alive /\ loop = "sleep" /\ main # "run"
  /\ loop' = "stopped"
  /\ UNCHANGED <<up, kernel, peers, known, list, at, ending, logged, left, bounds>>

-----------------------------------------------------------------------------
(* main after the signal, and graceful_shutdown *)

Signal ==
  /\ main = "run"
  /\ main' = "joining"
  /\ UNCHANGED <<up, kernel, peers, syncing, doomed, todo, late, logged, left, bounds>>

\* tokio::time::timeout of 5 seconds: the loop has stopped, or is in a call.
Join ==
  /\ main = "joining" /\ loop # "sleep"
  /\ late' = (loop # "stopped")
  /\ main' = "dereg"
  /\ UNCHANGED <<up, kernel, peers, syncing, doomed, todo, logged, left, bounds>>

Deregister ==
  /\ main = "dereg"
  /\ \/ up' = up \ {Self} /\ UNCHANGED faults
     \/ faults < MaxFaults /\ faults' = faults + 1 /\ UNCHANGED up
  /\ main' = "snap"
  /\ UNCHANGED <<kernel, peers, syncing, doomed, todo, late, logged, left, changes, starts>>

\* The peers, read under the VXLAN lock; then the lock of the quilt client.
Snapshot ==
  /\ main = "snap" /\ VxlanFree
  /\ doomed' = peers /\ todo' = peers
  /\ main' = "unroute"
  /\ UNCHANGED <<up, kernel, peers, syncing, late, logged, left, bounds>>

Unroute(n) ==
  /\ main = "unroute" /\ n \in todo
  /\ SetRoutes(n, routes \ {n})
  /\ todo' = todo \ {n}
  /\ UNCHANGED <<up, fdb, peers, syncing, main, doomed, late, left, changes, starts>>

ReleaseQuilt ==
  /\ main = "unroute" /\ todo = {}
  /\ main' = "free" /\ todo' = doomed
  /\ UNCHANGED <<up, kernel, peers, syncing, doomed, late, logged, left, bounds>>

TakeVxlan ==
  /\ main = "free" /\ VxlanFree
  /\ main' = "unfdb"
  /\ UNCHANGED <<up, kernel, peers, syncing, doomed, todo, late, logged, left, bounds>>

Unfdb(n) ==
  /\ main = "unfdb" /\ n \in todo
  /\ RemoveEntry(n)
  /\ todo' = todo \ {n}
  /\ UNCHANGED <<up, routes, syncing, main, doomed, late, left, changes, starts>>

\* The process ends, and the loop with it wherever it is.
Ends(how) ==
  /\ main' = how
  /\ peers' = {} /\ known' = {} /\ list' = {} /\ loop' = "stopped" /\ at' = None
  /\ doomed' = {} /\ todo' = {}
  /\ UNCHANGED <<up, kernel, late, logged, left, bounds>>

Exit == main = "unfdb" /\ todo = {} /\ Ends("done")

Kill == Alive /\ starts < MaxStarts /\ Ends("killed")

\* A new process knows nothing of what is in the kernel: setup_vxlan keeps an
\* interface that exists, with its entries.
Start ==
  /\ ~Alive /\ starts < MaxStarts
  /\ starts' = starts + 1
  /\ up' = up \cup {Self}
  /\ main' = "run" /\ loop' = "sleep" /\ late' = FALSE /\ logged' = {}
  /\ left' = {n \in Peers : n \in routes \/ HostOf[n] \in fdb}
  /\ UNCHANGED <<kernel, peers, known, list, at, doomed, todo, changes, faults>>

\* A node registers, or is marked down.
ListChanges ==
  /\ changes < MaxChanges
  /\ \E n \in Peers : up' = IF n \in up THEN up \ {n} ELSE up \cup {n}
  /\ changes' = changes + 1
  /\ UNCHANGED <<kernel, peers, syncing, ending, logged, left, faults, starts>>

-----------------------------------------------------------------------------
LoopStep ==
  \/ StartList \/ List \/ ListFails \/ Inject \/ Eject \/ EndSync \/ StopLoop
  \/ \E n \in Peers : AddPeer(n) \/ SkipPeer(n) \/ RemovePeer(n)

MainStep ==
  \/ Join \/ Deregister \/ Snapshot \/ ReleaseQuilt \/ TakeVxlan \/ Exit
  \/ \E n \in Peers : Unroute(n) \/ Unfdb(n)

Next == LoopStep \/ MainStep \/ Signal \/ Kill \/ Start \/ ListChanges

\* The two tasks run, the calls of both return (the control plane's within 10
\* seconds, netlink's and the local runtime's at some time), and tokio's locks
\* are fair.
Spec == Init /\ [][Next]_vars /\ WF_vars(LoopStep) /\ WF_vars(MainStep)

-----------------------------------------------------------------------------
(* Properties *)

\* The two tasks are where their locks allow them to be, on peers only.
TypeOK ==
  /\ up \in SUBSET Nodes /\ fdb \in SUBSET Hosts /\ routes \in SUBSET Peers
  /\ peers \in SUBSET Peers /\ known \in SUBSET Peers /\ list \in SUBSET Peers
  /\ loop \in {"sleep", "listing", "sync", "inject", "eject", "stopped"}
  /\ at \in Peers \cup {None}
  /\ (loop \in {"inject", "eject"}) <=> (at # None)
  /\ main \in {"run", "joining", "dereg", "snap", "unroute", "free", "unfdb",
               "done", "killed"}
  /\ doomed \in SUBSET Peers /\ todo \in SUBSET doomed
  /\ logged \in SUBSET Peers /\ left \in SUBSET Peers /\ late \in BOOLEAN

\* Peers that share a host share its FDB entry.
Sharing(n) == {m \in Peers : HostOf[m] = HostOf[n]}

\* No error was logged for a peer or its host, and nothing of it was there when
\* the process started.
Clean(n) == HostOf[n] # BadHost /\ (logged \cup left) \cap Sharing(n) = {}

\* Before shutdown takes them back, the entries and routes in the kernel are
\* those of the known peers, save where an error was logged: a failed call is
\* the only way for the loop to lose a peer or to leave one behind, and peers
\* on one host never meet without an error.
MirrorsKnown ==
  main \in {"run", "joining", "dereg", "snap"} =>
    \A n \in Peers :
      Clean(n) /\ n # at =>
        /\ n \in routes <=> n \in known
        /\ n \in peers  <=> n \in known
        /\ n \in known => HostOf[n] \in fdb
        /\ Sharing(n) \cap (known \cup {at}) = {} => HostOf[n] \notin fdb

\* What the VXLAN manager believes to be in the kernel is there, unless peers
\* that share a host were removed in another order than they came: an entry can
\* be leaked by a failing call but never be missing.
MapIsInKernel ==
  \A n \in peers : Sharing(n) = {n} => HostOf[n] \in fdb

\* A shutdown that waited for the loop to stop and logged no error takes every
\* entry and every route of the process back.
CleanExit ==
  main = "done" /\ ~late /\ logged = {} /\ left = {} => fdb = {} /\ routes = {}

\* "Graceful shutdown: deregister, remove routes, clean FDB entries"
\* (agent/src/main.rs:227) of a process whose calls all succeeded.
ShutdownCleans ==
  main = "done" /\ logged = {} /\ left = {} => fdb = {} /\ routes = {}

\* Once the node list is stable, an agent that keeps running mirrors it, save
\* where an error was logged.
Converges ==
  <>[](main = "run" =>
         \A n \in Peers : Clean(n) =>
           /\ n \in routes <=> n \in up
           /\ n \in up => HostOf[n] \in fdb)

\* Shutdown ends: the tasks never wait for each other's locks for ever.
ShutdownEnds == main = "joining" ~> ~Alive
=============================================================================
