------------------------------- MODULE Routes -------------------------------
(***************************************************************************)
(* The route manager of the runtime (runtime/src/route_manager.rs, served by *)
(* runtime/src/service.rs): RPC handlers that add and remove kernel routes    *)
(* and keep a map of them, by which the routes are taken back when the       *)
(* server stops.  A handler looks at the map, asks the kernel and updates the *)
(* map in three steps, holding no lock in between, and handlers run           *)
(* concurrently; a handler whose client goes away is dropped where it waits.  *)
(*                                                                         *)
(* External: the clients (the agent makes one call at a time, a restarted one *)
(* may meet the last call of its predecessor), and the kernel, which holds at *)
(* most one route for a destination and drops those of a link that goes.      *)
(***************************************************************************)
EXTENDS Integers, FiniteSets

CONSTANTS
  Dests, Links,    \* destination subnets, in canonical form, and interfaces
  Callers,         \* RPCs that may be in progress at a time
  MaxCalls,        \* bound on the RPCs
  MaxFaults,       \* bound on lost links, dropped handlers, netlink errors and kills
  None

ASSUME NoneAssumption == None \notin Dests \cup Links
ASSUME BoundAssumption == MaxCalls \in Nat /\ MaxFaults \in Nat

VARIABLES
  kernel,          \* external: the interface of the route for a destination
  links,           \* external: the interfaces that are up
  tracked,         \* RouteState.routes
  call,            \* the handlers
  server,          \* "up", "draining", "cleaning", "down" or "killed"
  todo,            \* the keys that cleanup_all_routes has still to remove
  torn,            \* destinations whose route and map entry may disagree: calls
                   \*   overlapped, a handler or the process was killed, or the
                   \*   link was lost; a call that was alone mends the first two
  calls, faults

vars == <<kernel, links, tracked, call, server, todo, torn, calls, faults>>

Idle == [op |-> "none", dest |-> None, via |-> None, pc |-> "idle",
         alone |-> FALSE]

Init ==
  /\ kernel  = [d \in Dests |-> None]
  /\ links   = Links
  /\ tracked = [d \in Dests |-> None]
  /\ call    = [c \in Callers |-> Idle]
  /\ server = "up" /\ todo = {} /\ torn = {}
  /\ calls = 0 /\ faults = 0

On(d) == {c \in Callers : call[c].dest = d}

\* A handler for d starts; it and the others for d are not alone if there are any.
Starts(c, op, d, i, pc) ==
  /\ server = "up" /\ call[c] = Idle /\ calls < MaxCalls
  /\ calls' = calls + 1
  /\ call'  = [x \in Callers |->
                 IF x = c THEN [op |-> op, dest |-> d, via |-> i, pc |-> pc,
                                alone |-> On(d) = {}]
                 ELSE IF x \in On(d) THEN [call[x] EXCEPT !.alone = FALSE] ELSE call[x]]
  /\ torn'  = IF On(d) = {} THEN torn ELSE torn \cup {d}
  /\ UNCHANGED <<kernel, links, tracked, server, todo, faults>>

Goes(c, pc) == call' = [call EXCEPT ![c].pc = pc]

\* An error reply, and the end of the call.
NetlinkError(c) ==
  /\ faults < MaxFaults /\ faults' = faults + 1
  /\ call' = [call EXCEPT ![c] = Idle]

-----------------------------------------------------------------------------
(* add_route and remove_route *)

InjectRoute(c, d, i) == Starts(c, "add", d, i, "check")

RemoveRoute(c, d) == Starts(c, "remove", d, None, "del")

\* A route that is in the map through this interface is taken to be there.
Check(c) ==
  /\ call[c].pc = "check"
  /\ call' = IF tracked[call[c].dest] = call[c].via THEN [call EXCEPT ![c] = Idle]
                                                   ELSE [call EXCEPT ![c].pc = "add"]
  /\ UNCHANGED <<kernel, links, tracked, server, todo, torn, calls, faults>>

\* The interface has to be there; a route that exists, through whatever
\* interface, is taken for success.
AddKernel(c) ==
  LET d == call[c].dest IN
  /\ call[c].pc = "add"
  /\ \/ /\ call[c].via \notin links
        /\ call' = [call EXCEPT ![c] = Idle] /\ UNCHANGED <<kernel, faults>>
     \/ /\ call[c].via \in links
        /\ kernel' = [kernel EXCEPT ![d] = IF @ = None THEN call[c].via ELSE @]
        /\ Goes(c, "track") /\ UNCHANGED faults
     \/ NetlinkError(c) /\ UNCHANGED kernel
  /\ UNCHANGED <<links, tracked, server, todo, torn, calls>>

Heals(c) == torn' = IF call[c].alone THEN torn \ {call[c].dest} ELSE torn

\* Slip: the read guard of the check lives on, and the write waits for it.
TrackUnread(c) ==
  /\ call[c].pc = "track"
  /\ \A x \in Callers : call[x].pc \notin {"add", "track"}
  /\ tracked' = [tracked EXCEPT ![call[c].dest] = call[c].via]
  /\ call' = [call EXCEPT ![c] = Idle]
  /\ Heals(c)
  /\ UNCHANGED <<kernel, links, server, todo, calls, faults>>

Track(c) ==
  /\ call[c].pc = "track"
  /\ tracked' = [tracked EXCEPT ![call[c].dest] = call[c].via]
  /\ call' = [call EXCEPT ![c] = Idle]
  /\ Heals(c)
  /\ UNCHANGED <<kernel, links, server, todo, calls, faults>>

\* Slip: routes that are not in the map are left alone.
DelKernelTracked(c) ==
  LET d == call[c].dest IN
  /\ call[c].pc = "del"
  /\ \/ /\ kernel' = [kernel EXCEPT ![d] = IF tracked[d] = None THEN @ ELSE None]
        /\ Goes(c, "untrack") /\ UNCHANGED faults
     \/ NetlinkError(c) /\ UNCHANGED kernel
  /\ UNCHANGED <<links, tracked, server, todo, torn, calls>>

\* The map is looked at only for the log; a route that is not there is success.
DelKernel(c) ==
  LET d == call[c].dest IN
  /\ call[c].pc = "del"
  /\ \/ /\ kernel' = [kernel EXCEPT ![d] = None]
        /\ Goes(c, "untrack") /\ UNCHANGED faults
     \/ NetlinkError(c) /\ UNCHANGED kernel
  /\ UNCHANGED <<links, tracked, server, todo, torn, calls>>

Untrack(c) ==
  /\ call[c].pc = "untrack"
  /\ tracked' = [tracked EXCEPT ![call[c].dest] = None]
  /\ call' = [call EXCEPT ![c] = Idle]
  /\ Heals(c)
  /\ UNCHANGED <<kernel, links, server, todo, calls, faults>>

\* The client goes away, and its handler is dropped at an await; a netlink
\* request it has sent is executed all the same, before any later one.
Drop(c) ==
  LET d == call[c].dest
      asked == CASE call[c].pc = "del" -> None
                 [] call[c].pc = "add" /\ kernel[d] = None /\ call[c].via \in links
                      -> call[c].via
                 [] OTHER -> kernel[d]
  IN
  /\ call[c].pc # "idle" /\ faults < MaxFaults
  /\ faults' = faults + 1
  /\ \E i \in {kernel[d], asked} : kernel' = [kernel EXCEPT ![d] = i]
  /\ call' = [call EXCEPT ![c] = Idle]
  /\ torn' = torn \cup {d}
  /\ UNCHANGED <<links, tracked, server, todo, calls>>

-----------------------------------------------------------------------------
(* Shutdown: serve_with_shutdown, then cleanup_all_routes *)

Shutdown ==
  /\ server = "up"
  /\ server' = "draining"
  /\ UNCHANGED <<kernel, links, tracked, call, todo, torn, calls, faults>>

Drained ==
  /\ server = "draining" /\ \A c \in Callers : call[c] = Idle
  /\ server' = "cleaning"
  /\ todo' = {d \in Dests : tracked[d] # None}
  /\ UNCHANGED <<kernel, links, tracked, call, torn, calls, faults>>

\* A removal that fails is logged and the next is tried.
CleanUp(d) ==
  /\ server = "cleaning" /\ d \in todo
  /\ todo' = todo \ {d}
  /\ \/ /\ kernel'  = [kernel EXCEPT ![d] = None]
        /\ tracked' = [tracked EXCEPT ![d] = None]
        /\ UNCHANGED <<torn, faults>>
     \/ /\ faults < MaxFaults /\ faults' = faults + 1
        /\ torn' = torn \cup {d}
        /\ UNCHANGED <<kernel, tracked>>
  /\ UNCHANGED <<links, call, server, calls>>

Stop ==
  /\ server = "cleaning" /\ todo = {}
  /\ server' = "down"
  /\ tracked' = [d \in Dests |-> None]
  /\ UNCHANGED <<kernel, links, call, todo, torn, calls, faults>>

Kill ==
  /\ server \notin {"down", "killed"} /\ faults < MaxFaults
  /\ faults' = faults + 1
  /\ server' = "killed" /\ todo' = {}
  /\ tracked' = [d \in Dests |-> None]
  /\ call' = [c \in Callers |-> Idle]
  /\ torn' = {d \in Dests : kernel[d] # None}
  /\ UNCHANGED <<kernel, links, calls>>

\* A new process starts with an empty map; the kernel keeps its routes.
Start ==
  /\ server \in {"down", "killed"} /\ calls < MaxCalls
  /\ server' = "up"
  /\ UNCHANGED <<kernel, links, tracked, call, todo, torn, calls, faults>>

LinkLost(i) ==
  /\ i \in links /\ faults < MaxFaults
  /\ faults' = faults + 1
  /\ links'  = links \ {i}
  /\ kernel' = [d \in Dests |-> IF kernel[d] = i THEN None ELSE kernel[d]]
  /\ torn'   = torn \cup {d \in Dests : kernel[d] = i \/ On(d) # {}}
  /\ call'   = [c \in Callers |-> [call[c] EXCEPT !.alone = FALSE]]
  /\ UNCHANGED <<tracked, server, todo, calls>>

LinkBack(i) ==
  /\ i \notin links
  /\ links' = links \cup {i}
  /\ UNCHANGED <<kernel, tracked, call, server, todo, torn, calls, faults>>
-----------------------------------------------------------------------------
Handler(c) == Check(c) \/ AddKernel(c) \/ Track(c) \/ DelKernel(c) \/ Untrack(c)

Request(c) == \E d \in Dests : RemoveRoute(c, d) \/ \E i \in Links : InjectRoute(c, d, i)

Stopping == Drained \/ Stop \/ \E d \in Dests : CleanUp(d)

Next ==
  \/ \E c \in Callers : Request(c) \/ Handler(c) \/ Drop(c)
  \/ Stopping \/ Shutdown \/ Kill \/ Start
  \/ \E i \in Links : LinkLost(i) \/ LinkBack(i)

\* The handlers and the main task are run, and netlink answers.
Spec == /\ Init /\ [][Next]_vars
        /\ WF_vars(Stopping) /\ \A c \in Callers : WF_vars(Handler(c))

-----------------------------------------------------------------------------
(* Properties *)

Calls == [op : {"none", "add", "remove"}, dest : Dests \cup {None},
          via : Links \cup {None},
          pc : {"idle", "check", "add", "track", "del", "untrack"}, alone : BOOLEAN]

\* Maps hold interfaces, handlers are at one of their steps, and the server stops
\* with none of them left.
TypeOK ==
  /\ kernel \in [Dests -> Links \cup {None}]
  /\ tracked \in [Dests -> Links \cup {None}]
  /\ links \in SUBSET Links
  /\ server \in {"up", "draining", "cleaning", "down", "killed"}
  /\ todo \in SUBSET Dests /\ torn \in SUBSET Dests
  /\ calls \in 0 .. MaxCalls /\ faults \in 0 .. MaxFaults
  /\ call \in [Callers -> Calls]
  /\ \A c \in Callers :
       \/ call[c] = Idle
       \/ /\ call[c].pc # "idle" /\ call[c].dest \in Dests
          /\ call[c].pc \in {"check", "add", "track"} => call[c].via \in Links
          /\ server \in {"up", "draining"}

\* When no call for a destination is in progress, it has a route exactly if the
\* map has it, through a link or another: what is answered from the map is true,
\* and a shutdown takes every route back.  The exceptions are the destinations
\* that are torn.
MapMirrorsKernel ==
  \A d \in Dests \ torn :
    On(d) = {} => (tracked[d] # None <=> kernel[d] # None)

\* A server that is told to stop does: it waits for handlers that wait for the
\* kernel only, never for one another or for themselves.
StopEnds == server = "draining" ~> server \in {"down", "killed"}
=============================================================================
