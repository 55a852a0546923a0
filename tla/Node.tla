-------------------------------- MODULE Node --------------------------------
(***************************************************************************)
(* One node: the start of the mesh agent (main in agent/src/main.rs, with   *)
(* setup_vxlan in agent/src/overlay/vxlan.rs and its two clients) and the    *)
(* addresses that the runtime on the node gives to containers                *)
(* (runtime/src/ipam.rs).  The agent registers, makes the VXLAN interface,   *)
(* connects to the runtime and tells it the subnet of the node; a step that  *)
(* fails ends the process, and whoever supervises it starts it again.        *)
(*                                                                         *)
(* External: the control plane, which gives a subnet at each registration;   *)
(* the kernel, which keeps the interface when the agent ends; the bridge,     *)
(* which somebody makes at some time; and the containers, which outlive both *)
(* processes and call allocate_ip and release_ip.                            *)
(***************************************************************************)
EXTENDS Integers, FiniteSets

CONSTANTS
  Subnets,       \* subnets that configure_subnet accepts
  BadSubnet,     \* one that it does not: not a /24, or outside the cluster
  HostCount,     \* addresses of a subnet, 254 in the code
  Containers,
  MaxStarts,     \* bound on the starts of the agent
  MaxRestarts,   \* bound on the restarts of the runtime
  None

ASSUME SubnetAssumption ==
  BadSubnet \notin Subnets /\ None \notin Subnets \cup {BadSubnet}
ASSUME BoundAssumption ==
  HostCount \in Nat \ {0} /\ MaxStarts \in Nat /\ MaxRestarts \in Nat

VARIABLES
  agent,       \* the step that main is at, "down" or "running"
  mine,        \* the subnet that the agent registered with
  link,        \* vxlan100: what is done of it, out of Parts
  bridge,      \* external: quilt0 is there
  subnet,      \* IpamState.subnet
  allocated,   \* IpamState.allocated
  held,        \* external: the address of a container, and whether it was
               \* allocated since allocated was last cleared
  returned,    \* addresses released since then by containers from before
  cut,         \* a start ended between making the interface and bridging it
  starts, restarts

ipam    == <<subnet, allocated>>
running == <<held, returned>>
process == <<agent, mine, starts>>
vars    == <<process, link, bridge, ipam, running, cut, restarts>>

\* The steps of main, in their order.
Setup == {"setUp", "findBridge", "attach"}
Parts == {"there", "up", "bridged"}
Steps == {"register", "check", "create"} \cup Setup \cup {"connect", "configure"}

Addresses == Subnets \X (1 .. HostCount)
Holds     == [addr : Addresses, fresh : BOOLEAN]

Init ==
  /\ agent = "down" /\ mine = None /\ starts = 0
  /\ link = {} /\ bridge \in BOOLEAN
  /\ subnet = None /\ allocated = {}
  /\ held = [c \in Containers |-> None] /\ returned = {}
  /\ cut = FALSE /\ restarts = 0

-----------------------------------------------------------------------------
(* The start of the agent *)

Goto(l) == agent' = l /\ UNCHANGED <<mine, starts>>

\* What the step at l does to the interface.
Made(l) == CASE l = "create" -> "there"
             [] l = "setUp"  -> "up"
             [] l = "attach" -> "bridged"

Start ==
  /\ agent = "down" /\ starts < MaxStarts
  /\ agent' = "register" /\ starts' = starts + 1
  /\ UNCHANGED <<mine, link, bridge, ipam, running, cut, restarts>>

\* register_node: the subnet is taken as it comes.
Register ==
  /\ agent = "register"
  /\ mine' \in Subnets \cup {BadSubnet}
  /\ agent' = "check"
  /\ UNCHANGED <<starts, link, bridge, ipam, running, cut, restarts>>

\* setup_vxlan takes an interface that is there as it is.
Check ==
  /\ agent = "check"
  /\ Goto(IF "there" \notin link THEN "create" ELSE "connect")
  /\ UNCHANGED <<link, bridge, ipam, running, cut, restarts>>

Create ==
  /\ agent = "create"
  /\ link' = link \cup {Made("create")}
  /\ Goto("setUp")
  /\ UNCHANGED <<bridge, ipam, running, cut, restarts>>

\* Slip: an error is logged, and the start goes on.
SetLinkUpOrWarn ==
  /\ agent = "setUp"
  /\ link' \in {link, link \cup {Made("setUp")}}
  /\ Goto("findBridge")
  /\ UNCHANGED <<bridge, ipam, running, cut, restarts>>

SetLinkUp ==
  /\ agent = "setUp"
  /\ link' = link \cup {Made("setUp")}
  /\ Goto("findBridge")
  /\ UNCHANGED <<bridge, ipam, running, cut, restarts>>

\* Without a bridge the interface stays as it is, with a warning.
FindBridge ==
  /\ agent = "findBridge"
  /\ Goto(IF bridge THEN "attach" ELSE "connect")
  /\ cut' = (cut \/ ~bridge)
  /\ UNCHANGED <<link, bridge, ipam, running, restarts>>

Attach ==
  /\ agent = "attach" /\ bridge
  /\ link' = link \cup {Made("attach")}
  /\ Goto("connect")
  /\ UNCHANGED <<bridge, ipam, running, cut, restarts>>

\* QuiltClient::new
Connect ==
  /\ agent = "connect"
  /\ Goto("configure")
  /\ UNCHANGED <<link, bridge, ipam, running, cut, restarts>>

\* Slip: a subnet that is configured stays.
ConfigureOnce(s) ==
  IF subnet # None THEN UNCHANGED <<ipam, running>>
  ELSE /\ subnet' = s /\ allocated' = {}
       /\ UNCHANGED running

\* configure_subnet: the allocations are cleared, those of this very subnet too.
ConfigureSubnet(s) ==
  /\ subnet' = s /\ allocated' = {}
  /\ held' = [c \in Containers |-> IF held[c] = None THEN None
                                   ELSE [held[c] EXCEPT !.fresh = FALSE]]
  /\ returned' = {}

Configure ==
  /\ agent = "configure" /\ mine # BadSubnet
  /\ ConfigureSubnet(mine)
  /\ Goto("running")
  /\ UNCHANGED <<link, bridge, cut, restarts>>

\* A step fails, or its answer is lost after it was done, or the process is
\* killed.  A subnet that the runtime rejects ends the process in the same way.
Fail ==
  /\ agent # "down"
  /\ Goto("down")
  /\ \/ UNCHANGED <<link, ipam, running>>
     \/ /\ agent \in {"create", "setUp"} \/ (agent = "attach" /\ bridge)
        /\ link' = link \cup {Made(agent)}
        /\ UNCHANGED <<ipam, running>>
     \/ /\ agent = "configure" /\ mine # BadSubnet
        /\ ConfigureSubnet(mine)
        /\ UNCHANGED link
  /\ cut' = (cut \/ agent \in Setup \/ link' # link)
  /\ UNCHANGED <<bridge, restarts>>

-----------------------------------------------------------------------------
(* The runtime and its containers *)

Free == {h \in 1 .. HostCount : <<subnet, h>> \notin allocated}

\* Slip: the next address after as many as are allocated.
IsNextByCount(h) == h = Cardinality(allocated) + 1

\* The first host of the subnet that is free.
IsNext(h) == h \in Free /\ \A k \in Free : h <= k

\* allocate_ip
Allocate(c) ==
  /\ held[c] = None
  /\ subnet # None
  /\ \E h \in 1 .. HostCount :
       /\ IsNext(h)
       /\ allocated' = allocated \cup {<<subnet, h>>}
       /\ held' = [held EXCEPT ![c] = [addr |-> <<subnet, h>>, fresh |-> TRUE]]
  /\ UNCHANGED <<process, link, bridge, subnet, returned, cut, restarts>>

\* release_ip, whoever gives it back.
Release(c) ==
  /\ held[c] # None
  /\ allocated' = allocated \ {held[c].addr}
  /\ returned'  = IF held[c].fresh THEN returned ELSE returned \cup {held[c].addr}
  /\ held' = [held EXCEPT ![c] = None]
  /\ UNCHANGED <<process, link, bridge, subnet, cut, restarts>>

\* The runtime is started again with an IpamState of its own; the connection of
\* the agent is made anew by tonic, and nothing tells the agent.
RestartRuntime ==
  /\ restarts < MaxRestarts
  /\ restarts' = restarts + 1
  /\ ConfigureSubnet(None)
  /\ UNCHANGED <<process, link, bridge, cut>>

MakeBridge ==
  /\ ~bridge /\ bridge' = TRUE
  /\ UNCHANGED <<process, link, ipam, running, cut, restarts>>

-----------------------------------------------------------------------------
StartStep == Register \/ Check \/ Create \/ SetLinkUp \/ FindBridge \/ Attach
               \/ Connect \/ Configure

Next ==
  \/ Start \/ StartStep \/ Fail \/ RestartRuntime \/ MakeBridge
  \/ \E c \in Containers : Allocate(c) \/ Release(c)

Spec == Init /\ [][Next]_vars

-----------------------------------------------------------------------------
(* Properties *)

\* Variables keep their types, and the interface is as far as the start is.
TypeOK ==
  /\ agent \in {"down", "running"} \cup Steps
  /\ mine \in Subnets \cup {BadSubnet, None}
  /\ mine = None => agent \in {"down", "register"}
  /\ link \in SUBSET Parts
  /\ bridge \in BOOLEAN /\ cut \in BOOLEAN
  /\ subnet \in Subnets \cup {None}
  /\ allocated \in SUBSET Addresses
  /\ held \in [Containers -> Holds \cup {None}]
  /\ returned \in SUBSET Addresses
  /\ starts \in 0 .. MaxStarts /\ restarts \in 0 .. MaxRestarts
  /\ agent \in {"setUp", "findBridge", "attach"} => "there" \in link
  /\ agent \in {"findBridge", "attach"} => "up" \in link

\* Two containers that were given their addresses since the allocations were last
\* cleared have different ones, unless a container from before the clearing gave
\* that address back meanwhile: release_ip takes it from whoever holds it now.
AddressesDiffer ==
  \A c, d \in Containers :
    c # d /\ held[c] # None /\ held[d] # None /\ held[c].fresh /\ held[d].fresh
      => held[c].addr # held[d].addr \/ held[c].addr \in returned

\* While an agent runs, the runtime gives out addresses of the subnet that this
\* agent registered with, or, after it was started again, none.
OwnSubnetOnly ==
  agent = "running" =>
    /\ subnet \in {mine, None}
    /\ \A c \in Containers : held[c] # None /\ held[c].fresh => held[c].addr[1] = mine

\* An agent that runs has an interface that is up and bridged, unless some start
\* was cut short or found no bridge: later starts take what it left for ready.
RunningIsBridged ==
  agent = "running" /\ ~cut => link = Parts
=============================================================================
