---------------------------- MODULE RoutesProofs ----------------------------
(***************************************************************************)
(* The map of the route manager and the routes of the kernel, for any        *)
(* destinations, interfaces, handlers, calls and faults.                     *)
(***************************************************************************)
EXTENDS Routes, TLAPS

\* A handler that is alone is the only one for its destination, and where the
\* destination is not torn each handler is alone.
AloneInv ==
  \A c \in Callers :
    /\ call[c].alone => \A x \in Callers : call[x].dest = call[c].dest => x = c
    /\ call[c].dest \in Dests \ torn => call[c].alone

\* What the kernel holds between the two halves of a handler.
HalfwayInv ==
  \A c \in Callers :
    call[c].alone =>
      /\ call[c].pc = "track" => kernel[call[c].dest] # None
      /\ call[c].pc = "untrack" => kernel[call[c].dest] = None

Halfway(d) == \E c \in Callers : call[c].dest = d /\ call[c].pc \in {"track", "untrack"}

Mirrors(d) == tracked[d] # None <=> kernel[d] # None

MirrorInv ==
  \A d \in Dests \ torn : ~Halfway(d) => Mirrors(d)

\* What is in the map and not to be removed any more could not be removed.
CleanInv ==
  server = "cleaning" => \A d \in Dests : tracked[d] # None => d \in todo \cup torn

IInv == TypeOK /\ AloneInv /\ HalfwayInv /\ MirrorInv /\ CleanInv

USE NoneAssumption, BoundAssumption

-----------------------------------------------------------------------------
(* The first state *)

LEMMA InitInv == Init => IInv
<1>. SUFFICES ASSUME Init PROVE IInv
  OBVIOUS
<1>. USE DEF Init
<1>1. TypeOK
  <2>1. Idle \in Calls
    BY DEF Idle, Calls
  <2>. QED BY <2>1 DEF TypeOK
<1>2. AloneInv /\ HalfwayInv
  BY DEF AloneInv, HalfwayInv, Idle
<1>3. MirrorInv /\ CleanInv
  BY DEF MirrorInv, Mirrors, CleanInv
<1>. QED BY <1>1, <1>2, <1>3 DEF IInv

-----------------------------------------------------------------------------
(* Handlers *)

LEMMA AloneDest ==
  ASSUME TypeOK, NEW c \in Callers, call[c].alone
  PROVE  call[c].dest \in Dests
BY DEF TypeOK, Idle

\* The record of a handler after a step that is its last.
LEMMA Ended ==
  ASSUME TypeOK, NEW c \in Callers, call' = [call EXCEPT ![c] = Idle]
  PROVE  /\ call' \in [Callers -> Calls]
         /\ call'[c] = Idle
         /\ call'[c].dest \notin Dests /\ ~call'[c].alone /\ call'[c].pc = "idle"
         /\ \A x \in Callers : x # c => call'[x] = call[x]
BY DEF TypeOK, Idle, Calls

\* The record of a handler after any other of its steps.
LEMMA Gone ==
  ASSUME TypeOK, NEW c \in Callers,
         NEW l \in {"check", "add", "track", "del", "untrack"}, Goes(c, l)
  PROVE  /\ call' \in [Callers -> Calls]
         /\ call'[c] = [call[c] EXCEPT !.pc = l]
         /\ call'[c].pc = l /\ call'[c].dest = call[c].dest /\ call'[c].via = call[c].via
         /\ call'[c].alone <=> call[c].alone
         /\ \A x \in Callers : x # c => call'[x] = call[x]
BY DEF TypeOK, Calls, Goes

\* A handler that ends without a change in the kernel or the map leaves all as it
\* was, if it was not halfway.
LEMMA EndInv ==
  ASSUME IInv, NEW c \in Callers, call' = [call EXCEPT ![c] = Idle],
         call[c].pc \in {"check", "add", "del"},
         UNCHANGED <<kernel, links, tracked, server, todo, torn, calls>>,
         faults' \in 0 .. MaxFaults
  PROVE  IInv'
<1>. USE DEF IInv
<1>a. \A x \in Callers : call[x].alone => call[x].dest \in Dests
  BY AloneDest
<1>e. /\ call'[c] = Idle
      /\ call'[c].dest \notin Dests /\ ~call'[c].alone /\ call'[c].pc = "idle"
      /\ \A x \in Callers : x # c => call'[x] = call[x]
      /\ call' \in [Callers -> Calls]
  BY Ended
<1>0. TypeOK'
  BY <1>e DEF TypeOK
<1>1. AloneInv' /\ HalfwayInv'
  BY <1>a, <1>e DEF AloneInv, HalfwayInv
<1>2. \A d \in Dests : Halfway(d) => Halfway(d)'
  BY <1>e DEF Halfway
<1>3. MirrorInv' /\ CleanInv'
  BY <1>2 DEF MirrorInv, Mirrors, CleanInv
<1>. QED BY <1>0, <1>1, <1>3

LEMMA StartsInv ==
  ASSUME IInv, NEW c \in Callers, NEW op \in {"add", "remove"}, NEW d \in Dests,
         NEW i \in Links \cup {None}, NEW l \in {"check", "del"},
         l = "check" => i \in Links,
         Starts(c, op, d, i, l)
  PROVE  IInv'
<1>. USE DEF IInv
<1>. DEFINE r == [op |-> op, dest |-> d, via |-> i, pc |-> l, alone |-> On(d) = {}]
<1>0. TypeOK
  OBVIOUS
<1>1. r \in Calls
  BY DEF Calls
<1>2. /\ r.dest = d /\ r.pc = l /\ r.via = i /\ (r.alone <=> On(d) = {})
      /\ r # Idle
  BY DEF Idle
<1>. HIDE DEF r
<1>3. /\ call'[c] = r
      /\ c \notin On(d)
      /\ \A x \in Callers : x # c =>
           call'[x] = IF x \in On(d) THEN [call[x] EXCEPT !.alone = FALSE] ELSE call[x]
  BY DEF Starts, r, On, Idle
<1>4. \A x \in Callers : x # c =>
        /\ call'[x] \in Calls
        /\ call'[x].dest = call[x].dest /\ call'[x].pc = call[x].pc
        /\ call'[x].via = call[x].via
        /\ call'[x].alone <=> (call[x].alone /\ x \notin On(d))
        /\ call[x] = Idle => call'[x] = Idle
  <2>. SUFFICES ASSUME NEW x \in Callers, x # c
       PROVE  /\ call'[x] \in Calls
              /\ call'[x].dest = call[x].dest /\ call'[x].pc = call[x].pc
              /\ call'[x].via = call[x].via
              /\ call'[x].alone <=> (call[x].alone /\ x \notin On(d))
              /\ call[x] = Idle => call'[x] = Idle
    OBVIOUS
  <2>1. call[x] \in Calls
    BY <1>0 DEF TypeOK
  <2>2. CASE x \in On(d)
    <3>1. call[x] # Idle
      BY <2>2 DEF On, Idle
    <3>. QED BY <2>1, <2>2, <3>1, <1>3 DEF Calls
  <2>3. CASE x \notin On(d)
    BY <2>1, <2>3, <1>3 DEF Calls
  <2>. QED BY <2>2, <2>3
<1>5. /\ torn' = IF On(d) = {} THEN torn ELSE torn \cup {d}
      /\ UNCHANGED <<kernel, links, tracked, server, todo, faults>>
      /\ server = "up" /\ call[c] = Idle /\ calls < MaxCalls /\ calls' = calls + 1
  BY DEF Starts
<1>6. TypeOK'
  <2>1. call' \in [Callers -> Calls]
    BY <1>1, <1>3, <1>4 DEF Starts
  <2>2. calls' \in 0 .. MaxCalls
    BY <1>0, <1>5 DEF TypeOK
  <2>3. \A x \in Callers :
          \/ call'[x] = Idle
          \/ /\ call'[x].pc # "idle" /\ call'[x].dest \in Dests
             /\ call'[x].pc \in {"check", "add", "track"} => call'[x].via \in Links
             /\ server' \in {"up", "draining"}
    BY <1>0, <1>2, <1>3, <1>4, <1>5 DEF TypeOK
  <2>. QED BY <1>0, <1>5, <2>1, <2>2, <2>3 DEF TypeOK
<1>7. AloneInv'
  <2>. SUFFICES ASSUME NEW x \in Callers
       PROVE  /\ call'[x].alone => \A y \in Callers : call'[y].dest = call'[x].dest => y = x
              /\ call'[x].dest \in Dests \ torn' => call'[x].alone
    BY DEF AloneInv
  <2>1. CASE x = c
    BY <2>1, <1>2, <1>3, <1>4, <1>5 DEF On
  <2>2. CASE x # c
    BY <2>2, <1>2, <1>3, <1>4, <1>5 DEF On, AloneInv
  <2>. QED BY <2>1, <2>2
<1>8. HalfwayInv'
  BY <1>2, <1>3, <1>4, <1>5 DEF HalfwayInv
<1>9. \A e \in Dests : Halfway(e) => Halfway(e)'
  BY <1>4, <1>5 DEF Halfway, Idle
<1>10. MirrorInv' /\ CleanInv'
  BY <1>5, <1>9 DEF MirrorInv, Mirrors, CleanInv
<1>. QED BY <1>6, <1>7, <1>8, <1>10

LEMMA RequestInv == ASSUME IInv, NEW c \in Callers, Request(c) PROVE IInv'
BY StartsInv DEF Request, InjectRoute, RemoveRoute

LEMMA CheckInv == ASSUME IInv, NEW c \in Callers, Check(c) PROVE IInv'
<1>0. TypeOK /\ faults \in 0 .. MaxFaults
  BY DEF IInv, TypeOK
<1>1. CASE call' = [call EXCEPT ![c] = Idle]
  BY <1>0, <1>1, EndInv DEF Check
<1>2. CASE Goes(c, "add")
  <2>. USE DEF IInv
  <2>0. /\ call'[c].pc = "add" /\ call'[c].dest = call[c].dest
        /\ call'[c].via = call[c].via /\ (call'[c].alone <=> call[c].alone)
        /\ \A x \in Callers : x # c => call'[x] = call[x]
        /\ call' \in [Callers -> Calls]
    BY <1>2, Gone
  <2>. USE <2>0
  <2>1. TypeOK'
    <3>1. call[c] # Idle
      BY DEF Check, Idle
    <3>. QED BY <3>1 DEF Check, TypeOK
  <2>2. AloneInv' /\ HalfwayInv'
    BY DEF Check, AloneInv, HalfwayInv
  <2>3. \A d \in Dests : Halfway(d) => Halfway(d)'
    BY DEF Check, Halfway
  <2>4. MirrorInv' /\ CleanInv'
    BY <2>3 DEF Check, MirrorInv, Mirrors, CleanInv
  <2>. QED BY <2>1, <2>2, <2>4
<1>. QED BY <1>1, <1>2 DEF Check, Goes

\* A handler that has asked the kernel goes on to its second half.
LEMMA AskedInv ==
  ASSUME IInv, NEW c \in Callers, NEW l \in {"track", "untrack"}, Goes(c, l),
         NEW i \in Links \cup {None},
         call[c].pc = IF l = "track" THEN "add" ELSE "del",
         i = None <=> l = "untrack",
         kernel' = [kernel EXCEPT ![call[c].dest] = i],
         UNCHANGED <<links, tracked, server, todo, torn, calls, faults>>
  PROVE  IInv'
<1>. USE DEF IInv
<1>. DEFINE d == call[c].dest
<1>0. TypeOK /\ d \in Dests /\ server \in {"up", "draining"}
  BY DEF TypeOK, Idle
<1>g. /\ call'[c].pc = l /\ call'[c].dest = call[c].dest
      /\ call'[c].via = call[c].via /\ (call'[c].alone <=> call[c].alone)
      /\ \A x \in Callers : x # c => call'[x] = call[x]
      /\ call' \in [Callers -> Calls]
  BY Gone
<1>. USE <1>g
<1>1. kernel'[d] = i /\ \A e \in Dests : e # d => kernel'[e] = kernel[e]
  BY <1>0 DEF TypeOK
<1>2. TypeOK'
  BY <1>0 DEF TypeOK, Idle
<1>3. AloneInv'
  BY DEF AloneInv
<1>4. HalfwayInv'
  BY <1>0, <1>1 DEF HalfwayInv, AloneInv, TypeOK, Idle
<1>5. MirrorInv'
  <2>1. Halfway(d)'
    BY DEF Halfway
  <2>2. \A e \in Dests : Halfway(e) => Halfway(e)'
    BY DEF Halfway
  <2>. QED BY <1>1, <2>1, <2>2 DEF MirrorInv, Mirrors
<1>6. CleanInv'
  BY <1>0 DEF CleanInv
<1>. QED BY <1>2, <1>3, <1>4, <1>5, <1>6

LEMMA AddKernelInv == ASSUME IInv, NEW c \in Callers, AddKernel(c) PROVE IInv'
<1>. DEFINE d == call[c].dest
<1>0. /\ TypeOK /\ faults \in 0 .. MaxFaults /\ call[c].pc = "add"
      /\ d \in Dests /\ call[c].via \in Links
      /\ kernel[d] \in Links \cup {None}
  BY DEF AddKernel, IInv, TypeOK, Idle
<1>1. CASE call' = [call EXCEPT ![c] = Idle] /\ UNCHANGED <<kernel, faults>>
  BY <1>0, <1>1, EndInv DEF AddKernel, vars
<1>2. CASE /\ kernel' = [kernel EXCEPT ![d] = IF @ = None THEN call[c].via ELSE @]
           /\ Goes(c, "track") /\ UNCHANGED faults
  <2>. DEFINE i == IF kernel[d] = None THEN call[c].via ELSE kernel[d]
  <2>1. i \in Links /\ i # None
    BY <1>0
  <2>2. kernel' = [kernel EXCEPT ![d] = i]
    BY <1>2
  <2>. QED BY <1>0, <1>2, <2>1, <2>2, AskedInv DEF AddKernel
<1>3. CASE NetlinkError(c) /\ UNCHANGED kernel
  <2>1. faults' \in 0 .. MaxFaults
    BY <1>0, <1>3 DEF NetlinkError
  <2>. QED BY <1>0, <1>3, <2>1, EndInv DEF AddKernel, NetlinkError
<1>. QED BY <1>1, <1>2, <1>3 DEF AddKernel

LEMMA DelKernelInv == ASSUME IInv, NEW c \in Callers, DelKernel(c) PROVE IInv'
<1>. DEFINE d == call[c].dest
<1>0. TypeOK /\ faults \in 0 .. MaxFaults /\ call[c].pc = "del"
  BY DEF DelKernel, IInv, TypeOK
<1>1. CASE kernel' = [kernel EXCEPT ![d] = None] /\ Goes(c, "untrack") /\ UNCHANGED faults
  BY <1>0, <1>1, AskedInv DEF DelKernel
<1>2. CASE NetlinkError(c) /\ UNCHANGED kernel
  <2>1. faults' \in 0 .. MaxFaults
    BY <1>0, <1>2 DEF NetlinkError
  <2>. QED BY <1>0, <1>2, <2>1, EndInv DEF DelKernel, NetlinkError
<1>. QED BY <1>1, <1>2 DEF DelKernel

\* The second half: if the handler was alone, map and kernel agree again.
LEMMA WrittenInv ==
  ASSUME IInv, NEW c \in Callers, NEW i \in Links \cup {None},
         call[c].pc = IF i = None THEN "untrack" ELSE "track",
         tracked' = [tracked EXCEPT ![call[c].dest] = i],
         call' = [call EXCEPT ![c] = Idle],
         Heals(c),
         UNCHANGED <<kernel, links, server, todo, calls, faults>>
  PROVE  IInv'
<1>. USE DEF IInv
<1>. DEFINE d == call[c].dest
<1>0. TypeOK /\ d \in Dests /\ server \in {"up", "draining"}
  BY DEF TypeOK, Idle
<1>a. \A x \in Callers : call[x].alone => call[x].dest \in Dests
  BY AloneDest
<1>e. /\ call'[c] = Idle
      /\ call'[c].dest \notin Dests /\ ~call'[c].alone /\ call'[c].pc = "idle"
      /\ \A x \in Callers : x # c => call'[x] = call[x]
      /\ call' \in [Callers -> Calls]
  BY Ended
<1>. USE <1>e
<1>1. tracked'[d] = i /\ \A e \in Dests : e # d => tracked'[e] = tracked[e]
  BY <1>0 DEF TypeOK
<1>2. torn' = IF call[c].alone THEN torn \ {d} ELSE torn
  BY DEF Heals
<1>3. TypeOK'
  BY <1>0, <1>2 DEF TypeOK
<1>4. AloneInv'
  BY <1>0, <1>2, <1>a DEF AloneInv
<1>5. HalfwayInv'
  BY DEF HalfwayInv
<1>6. \A e \in Dests : e # d /\ Halfway(e) => Halfway(e)'
  BY DEF Halfway
<1>7. MirrorInv'
  <2>1. CASE call[c].alone
    <3>1. kernel[d] # None <=> i # None
      BY <2>1 DEF HalfwayInv
    <3>2. tracked'[d] # None <=> kernel'[d] # None
      BY <3>1, <1>1
    <3>. QED BY <3>2, <1>1, <1>2, <1>6 DEF MirrorInv, Mirrors
  <2>2. CASE ~call[c].alone
    <3>1. d \in torn /\ torn' = torn
      BY <1>0, <1>2, <2>2 DEF AloneInv
    <3>. QED BY <3>1, <1>1, <1>6 DEF MirrorInv, Mirrors
  <2>. QED BY <2>1, <2>2
<1>8. CleanInv'
  BY <1>0 DEF CleanInv
<1>. QED BY <1>3, <1>4, <1>5, <1>7, <1>8

LEMMA TrackInv == ASSUME IInv, NEW c \in Callers, Track(c) PROVE IInv'
<1>1. call[c].via \in Links /\ call[c].via # None
  BY DEF Track, IInv, TypeOK, Idle
<1>. QED BY <1>1, WrittenInv DEF Track

LEMMA UntrackInv == ASSUME IInv, NEW c \in Callers, Untrack(c) PROVE IInv'
BY WrittenInv DEF Untrack

LEMMA DropInv == ASSUME IInv, NEW c \in Callers, Drop(c) PROVE IInv'
<1>. USE DEF IInv
<1>. DEFINE d == call[c].dest
<1>0. TypeOK /\ d \in Dests /\ server \in {"up", "draining"} /\ faults < MaxFaults
  BY DEF Drop, TypeOK, Idle
<1>1. PICK i \in Links \cup {None} : kernel' = [kernel EXCEPT ![d] = i]
  BY <1>0 DEF Drop, TypeOK
<1>2. /\ call' = [call EXCEPT ![c] = Idle] /\ torn' = torn \cup {d}
      /\ faults' = faults + 1
      /\ UNCHANGED <<links, tracked, server, todo, calls>>
  BY DEF Drop
<1>a. \A x \in Callers : call[x].alone => call[x].dest \in Dests
  BY AloneDest
<1>e. /\ call'[c] = Idle
      /\ call'[c].dest \notin Dests /\ ~call'[c].alone /\ call'[c].pc = "idle"
      /\ \A x \in Callers : x # c => call'[x] = call[x]
      /\ call' \in [Callers -> Calls]
  BY <1>0, <1>2, Ended
<1>. USE <1>0, <1>2, <1>e
<1>3. \A e \in Dests : e # d => kernel'[e] = kernel[e]
  BY <1>1 DEF TypeOK
<1>4. TypeOK'
  BY <1>1 DEF TypeOK
<1>5. AloneInv'
  BY <1>a DEF AloneInv
<1>6. HalfwayInv'
  BY <1>3 DEF HalfwayInv, AloneInv, TypeOK, Idle
<1>7. \A e \in Dests : e # d /\ Halfway(e) => Halfway(e)'
  BY DEF Halfway
<1>8. MirrorInv' /\ CleanInv'
  BY <1>3, <1>7 DEF MirrorInv, Mirrors, CleanInv
<1>. QED BY <1>4, <1>5, <1>6, <1>8

-----------------------------------------------------------------------------
(* Shutdown, restarts and links *)

LEMMA ShutdownInv == ASSUME IInv, Shutdown PROVE IInv'
<1>. USE DEF IInv, Shutdown
<1>1. TypeOK'
  BY DEF TypeOK
<1>2. AloneInv' /\ HalfwayInv' /\ CleanInv'
  BY DEF AloneInv, HalfwayInv, CleanInv
<1>3. MirrorInv'
  BY DEF MirrorInv, Mirrors, Halfway
<1>. QED BY <1>1, <1>2, <1>3

LEMMA DrainedInv == ASSUME IInv, Drained PROVE IInv'
<1>. USE DEF IInv, Drained
<1>1. TypeOK'
  BY DEF TypeOK
<1>2. AloneInv' /\ HalfwayInv' /\ CleanInv'
  BY DEF AloneInv, HalfwayInv, CleanInv
<1>3. MirrorInv'
  BY DEF MirrorInv, Mirrors, Halfway
<1>. QED BY <1>1, <1>2, <1>3

\* While the server cleans up or is down no handler is there.
LEMMA NoHandler ==
  ASSUME TypeOK, server \notin {"up", "draining"}
  PROVE  /\ \A c \in Callers : call[c] = Idle
         /\ \A d \in Dests : ~Halfway(d)
BY DEF TypeOK, Halfway, Idle

LEMMA CleanUpInv == ASSUME IInv, NEW d \in Dests, CleanUp(d) PROVE IInv'
<1>. USE DEF IInv, CleanUp
<1>0. TypeOK /\ \A c \in Callers : call[c] = Idle /\ call'[c] = Idle
  BY NoHandler
<1>1. TypeOK'
  <2>1. kernel' \in [Dests -> Links \cup {None}] /\ tracked' \in [Dests -> Links \cup {None}]
    BY DEF TypeOK
  <2>2. faults' \in 0 .. MaxFaults /\ torn' \in SUBSET Dests /\ todo' \in SUBSET Dests
    BY DEF TypeOK
  <2>. QED BY <2>1, <2>2 DEF TypeOK
<1>2. AloneInv' /\ HalfwayInv'
  BY <1>0 DEF AloneInv, HalfwayInv, Idle
<1>3. /\ \A e \in Dests : e # d => kernel'[e] = kernel[e] /\ tracked'[e] = tracked[e]
      /\ d \in torn' \/ (kernel'[d] = None /\ tracked'[d] = None)
      /\ torn \subseteq torn'
  BY DEF TypeOK
<1>4. MirrorInv'
  BY <1>0, <1>3, NoHandler DEF MirrorInv, Mirrors
<1>5. CleanInv'
  BY <1>3 DEF CleanInv
<1>. QED BY <1>1, <1>2, <1>4, <1>5

LEMMA StopInv == ASSUME IInv, Stop PROVE IInv'
<1>. USE DEF IInv, Stop
<1>0. \A c \in Callers : call[c] = Idle
  BY NoHandler
<1>1. TypeOK'
  BY <1>0 DEF TypeOK
<1>2. AloneInv' /\ HalfwayInv' /\ CleanInv'
  BY DEF AloneInv, HalfwayInv, CleanInv
<1>3. \A d \in Dests \ torn : kernel[d] = None
  BY NoHandler DEF CleanInv, MirrorInv, Mirrors
<1>4. MirrorInv'
  BY <1>3 DEF MirrorInv, Mirrors
<1>. QED BY <1>1, <1>2, <1>4

LEMMA KillInv == ASSUME IInv, Kill PROVE IInv'
<1>. USE DEF IInv, Kill
<1>1. TypeOK'
  <2>1. call' \in [Callers -> Calls]
    BY DEF Idle, Calls
  <2>2. faults' \in 0 .. MaxFaults
    BY DEF TypeOK
  <2>. QED BY <2>1, <2>2 DEF TypeOK
<1>2. AloneInv' /\ HalfwayInv' /\ CleanInv'
  BY DEF AloneInv, HalfwayInv, CleanInv, Idle
<1>3. MirrorInv'
  BY DEF MirrorInv, Mirrors
<1>. QED BY <1>1, <1>2, <1>3

LEMMA StartInv == ASSUME IInv, Start PROVE IInv'
<1>. USE DEF IInv, Start
<1>1. TypeOK'
  BY NoHandler DEF TypeOK
<1>2. AloneInv' /\ HalfwayInv' /\ CleanInv'
  BY DEF AloneInv, HalfwayInv, CleanInv
<1>3. MirrorInv'
  BY DEF MirrorInv, Mirrors, Halfway
<1>. QED BY <1>1, <1>2, <1>3

LEMMA LinkLostInv == ASSUME IInv, NEW i \in Links, LinkLost(i) PROVE IInv'
<1>. USE DEF IInv, LinkLost
<1>0. TypeOK
  OBVIOUS
<1>1. \A c \in Callers : /\ call'[c] \in Calls
                         /\ call'[c].dest = call[c].dest /\ call'[c].pc = call[c].pc
                         /\ call'[c].via = call[c].via /\ ~call'[c].alone
                         /\ call[c] = Idle => call'[c] = Idle
  <2>. SUFFICES ASSUME NEW c \in Callers
       PROVE  /\ call'[c] \in Calls
              /\ call'[c].dest = call[c].dest /\ call'[c].pc = call[c].pc
              /\ call'[c].via = call[c].via /\ ~call'[c].alone
              /\ call[c] = Idle => call'[c] = Idle
    OBVIOUS
  <2>1. call[c] \in Calls /\ call'[c] = [call[c] EXCEPT !.alone = FALSE]
    BY DEF TypeOK
  <2>2. call[c] = Idle => call'[c] = Idle
    <3>1. ~Idle.alone
      BY DEF Idle
    <3>2. \A r \in Calls : ~r.alone => [r EXCEPT !.alone = FALSE] = r
      BY DEF Calls
    <3>. QED BY <2>1, <3>1, <3>2
  <2>. QED BY <2>1, <2>2 DEF Calls
<1>2. TypeOK'
  <2>1. call' \in [Callers -> Calls]
    BY <1>1
  <2>2. kernel' \in [Dests -> Links \cup {None}] /\ links' \in SUBSET Links
    BY DEF TypeOK
  <2>3. torn' \in SUBSET Dests /\ faults' \in 0 .. MaxFaults
    BY DEF TypeOK
  <2>4. \A c \in Callers :
          \/ call'[c] = Idle
          \/ /\ call'[c].pc # "idle" /\ call'[c].dest \in Dests
             /\ call'[c].pc \in {"check", "add", "track"} => call'[c].via \in Links
             /\ server' \in {"up", "draining"}
    BY <1>1 DEF TypeOK
  <2>. QED BY <2>1, <2>2, <2>3, <2>4 DEF TypeOK
<1>3. AloneInv' /\ HalfwayInv'
  <2>1. \A c \in Callers : call'[c].dest \in Dests => call'[c].dest \in torn'
    BY <1>1 DEF On
  <2>. QED BY <1>1, <2>1 DEF AloneInv, HalfwayInv
<1>4. \A d \in Dests \ torn' : kernel'[d] = kernel[d] /\ d \notin torn /\ On(d) = {}
  OBVIOUS
<1>5. MirrorInv' /\ CleanInv'
  BY <1>4 DEF MirrorInv, Mirrors, CleanInv, Halfway, On
<1>. QED BY <1>2, <1>3, <1>5

LEMMA LinkBackInv == ASSUME IInv, NEW i \in Links, LinkBack(i) PROVE IInv'
<1>. USE DEF IInv, LinkBack
<1>1. TypeOK'
  BY DEF TypeOK
<1>2. AloneInv' /\ HalfwayInv' /\ CleanInv'
  BY DEF AloneInv, HalfwayInv, CleanInv
<1>3. MirrorInv'
  BY DEF MirrorInv, Mirrors, Halfway
<1>. QED BY <1>1, <1>2, <1>3

-----------------------------------------------------------------------------
(* The theorems *)

LEMMA NextInv == IInv /\ [Next]_vars => IInv'
<1>. SUFFICES ASSUME IInv, [Next]_vars PROVE IInv'
  OBVIOUS
<1>1. ASSUME NEW c \in Callers, Request(c) \/ Handler(c) \/ Drop(c) PROVE IInv'
  BY <1>1, RequestInv, CheckInv, AddKernelInv, TrackInv, DelKernelInv, UntrackInv,
     DropInv DEF Handler
<1>2. CASE Stopping
  BY <1>2, DrainedInv, StopInv, CleanUpInv DEF Stopping
<1>3. ASSUME NEW i \in Links, LinkLost(i) \/ LinkBack(i) PROVE IInv'
  BY <1>3, LinkLostInv, LinkBackInv
<1>4. CASE UNCHANGED vars
  BY <1>4 DEF vars, IInv, TypeOK, AloneInv, HalfwayInv, MirrorInv, Mirrors, Halfway,
              CleanInv
<1>. QED BY <1>1, <1>2, <1>3, <1>4, ShutdownInv, KillInv, StartInv DEF Next

LEMMA Invariance == Spec => []IInv
<1>1. Init => IInv
  BY InitInv
<1>2. IInv /\ [Next]_vars => IInv'
  BY NextInv
<1>. QED BY <1>1, <1>2, PTL DEF Spec

\* Maps and handlers keep their types, and no handler is left when the server
\* takes its routes back.
THEOREM TypeCorrect == Spec => []TypeOK
<1>1. IInv => TypeOK
  BY DEF IInv
<1>. QED BY <1>1, Invariance, PTL

\* For any number of handlers: where no calls overlapped or broke, the map of
\* add_route and remove_route says which destinations have a route.
THEOREM MapIsTrue == Spec => []MapMirrorsKernel
<1>1. IInv => MapMirrorsKernel
  BY DEF IInv, MirrorInv, Mirrors, Halfway, MapMirrorsKernel, On
<1>. QED BY <1>1, Invariance, PTL
=============================================================================
