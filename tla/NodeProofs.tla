----------------------------- MODULE NodeProofs -----------------------------
(***************************************************************************)
(* What the start of an agent leaves of its interface, and which addresses  *)
(* containers have, for any subnets, containers and numbers of restarts.    *)
(***************************************************************************)
EXTENDS Node, TLAPS

\* How far the interface is at each step, if no start was cut short so far.
LinkInv ==
  /\ "there" \notin link => link = {}
  /\ agent = "create" => link = {}
  /\ ~cut =>
       /\ agent \in {"connect", "configure", "running"} => link = Parts
       /\ agent \in {"down", "register", "check"} => link \in {{}, Parts}

\* An address that was given out since the allocations were cleared is of the
\* present subnet, and allocated unless somebody else gave it back.
HeldInv ==
  \A c \in Containers :
    held[c] # None /\ held[c].fresh =>
      /\ subnet # None /\ held[c].addr[1] = subnet
      /\ held[c].addr \in allocated \cup returned

SubnetInv == agent = "running" => subnet \in {mine, None}

AddressInv == AddressesDiffer /\ HeldInv

IInv == TypeOK /\ LinkInv /\ AddressInv /\ SubnetInv

-----------------------------------------------------------------------------
(* The first state *)

LEMMA InitInv == Init => IInv
<1>. SUFFICES ASSUME Init PROVE IInv
  OBVIOUS
<1>. USE DEF Init
<1>1. TypeOK
  <2>1. held \in [Containers -> Holds \cup {None}]
    OBVIOUS
  <2>2. starts \in 0 .. MaxStarts /\ restarts \in 0 .. MaxRestarts
    BY BoundAssumption
  <2>. QED BY <2>1, <2>2 DEF TypeOK
<1>2. LinkInv
  BY DEF LinkInv
<1>3. AddressesDiffer /\ HeldInv /\ SubnetInv
  BY DEF AddressesDiffer, HeldInv, SubnetInv
<1>. QED BY <1>1, <1>2, <1>3 DEF IInv, AddressInv

-----------------------------------------------------------------------------
(* Addresses *)

\* Addresses stand where the runtime and the containers do nothing.
LEMMA RunningUnchanged ==
  ASSUME IInv, UNCHANGED <<ipam, running>>
  PROVE  AddressInv'
BY DEF IInv, AddressInv, AddressesDiffer, HeldInv, ipam, running

\* Clearing the allocations leaves no address that was given out since.
LEMMA ConfigureAddresses ==
  ASSUME IInv, NEW s \in Subnets \cup {None}, ConfigureSubnet(s)
  PROVE  /\ AddressInv'
         /\ subnet' = s /\ allocated' = {} /\ returned' = {}
         /\ held' \in [Containers -> Holds \cup {None}]
<1>1. \A c \in Containers : held'[c] = IF held[c] = None THEN None
                                       ELSE [held[c] EXCEPT !.fresh = FALSE]
  BY DEF ConfigureSubnet
<1>2. \A c \in Containers : held[c] # None => held[c] \in Holds
  BY DEF IInv, TypeOK
<1>3. \A c \in Containers : held'[c] # None =>
        held'[c] = [held[c] EXCEPT !.fresh = FALSE] /\ held[c] \in Holds
  BY <1>1, <1>2
<1>4. \A c \in Containers : held'[c] # None => held'[c] \in Holds /\ ~held'[c].fresh
  BY <1>3 DEF Holds
<1>5. AddressInv'
  BY <1>4 DEF AddressInv, AddressesDiffer, HeldInv
<1>6. held' \in [Containers -> Holds \cup {None}]
  BY <1>4 DEF ConfigureSubnet
<1>. QED BY <1>5, <1>6 DEF ConfigureSubnet

-----------------------------------------------------------------------------
(* One lemma per action *)

LEMMA StartInv == ASSUME IInv, Start PROVE IInv'
<1>. USE DEF Start, IInv
<1>1. TypeOK'
  BY BoundAssumption DEF TypeOK, Steps, Setup, ipam, running
<1>2. LinkInv'
  BY DEF LinkInv
<1>3. SubnetInv'
  BY DEF SubnetInv
<1>. QED BY <1>1, <1>2, <1>3, RunningUnchanged

\* The steps of a start that leave the runtime alone and end neither it nor the
\* process.
LEMMA StepInv ==
  ASSUME IInv,
         Register \/ Check \/ Create \/ SetLinkUp \/ FindBridge \/ Attach \/ Connect
  PROVE  IInv'
<1>. USE DEF IInv, AddressInv
<1>1. UNCHANGED <<ipam, running, starts, bridge, restarts>> /\ agent' \in Steps
  BY DEF Register, Check, Create, SetLinkUp, FindBridge, Attach, Connect, Goto, Steps, Setup
<1>2. TypeOK'
  <2>1. CASE Register
    BY <2>1, SubnetAssumption DEF Register, TypeOK, Steps, Setup, ipam, running
  <2>2. CASE Check \/ FindBridge \/ Connect
    BY <2>2 DEF Check, FindBridge, Connect, Goto, TypeOK, Steps, Setup, ipam, running
  <2>3. CASE Create \/ SetLinkUp \/ Attach
    BY <2>3 DEF Create, SetLinkUp, Attach, Made, Parts, Goto, TypeOK, Steps, Setup,
                ipam, running
  <2>. QED BY <2>1, <2>2, <2>3
<1>3. LinkInv'
  <2>1. CASE Register
    BY <2>1 DEF Register, LinkInv
  <2>2. CASE Check
    BY <2>2 DEF Check, Goto, LinkInv, Parts
  <2>3. CASE Create
    BY <2>3 DEF Create, Made, Goto, LinkInv
  <2>4. CASE SetLinkUp
    BY <2>4 DEF SetLinkUp, Made, Goto, LinkInv, TypeOK
  <2>5. CASE FindBridge
    BY <2>5 DEF FindBridge, Goto, LinkInv, TypeOK
  <2>6. CASE Attach
    <3>1. link' = Parts
      BY <2>6 DEF Attach, Made, Parts, TypeOK
    <3>. QED BY <2>6, <3>1 DEF Attach, Goto, LinkInv, Parts
  <2>7. CASE Connect
    BY <2>7 DEF Connect, Goto, LinkInv
  <2>. QED BY <2>1, <2>2, <2>3, <2>4, <2>5, <2>6, <2>7
<1>4. SubnetInv'
  BY <1>1 DEF SubnetInv, Steps, Setup
<1>. QED BY <1>1, <1>2, <1>3, <1>4, RunningUnchanged

LEMMA ConfigureInv == ASSUME IInv, Configure PROVE IInv'
<1>. USE DEF IInv, AddressInv
<1>0. mine \in Subnets
  BY DEF Configure, TypeOK, LinkInv
<1>1. /\ AddressInv'
      /\ subnet' = mine /\ allocated' = {} /\ returned' = {}
      /\ held' \in [Containers -> Holds \cup {None}]
  BY <1>0, ConfigureAddresses DEF Configure
<1>2. TypeOK'
  BY <1>0, <1>1 DEF Configure, Goto, TypeOK
<1>3. LinkInv'
  BY DEF Configure, Goto, LinkInv
<1>4. SubnetInv'
  BY <1>1 DEF Configure, Goto, SubnetInv
<1>. QED BY <1>1, <1>2, <1>3, <1>4

LEMMA FailInv == ASSUME IInv, Fail PROVE IInv'
<1>. USE DEF IInv, AddressInv
<1>1. CASE UNCHANGED <<link, ipam, running>>
  <2>1. TypeOK'
    BY <1>1 DEF Fail, Goto, TypeOK, ipam, running
  <2>2. LinkInv'
    BY <1>1 DEF Fail, Goto, LinkInv, Setup, TypeOK, Steps
  <2>. QED BY <1>1, <2>1, <2>2, RunningUnchanged DEF Fail, Goto, SubnetInv
<1>2. CASE /\ agent \in {"create", "setUp"} \/ (agent = "attach" /\ bridge)
           /\ link' = link \cup {Made(agent)}
           /\ UNCHANGED <<ipam, running>>
  <2>1. TypeOK'
    BY <1>2 DEF Fail, Goto, TypeOK, Made, Parts, ipam, running
  <2>2. LinkInv'
    BY <1>2 DEF Fail, Goto, LinkInv, Setup, Made, TypeOK
  <2>. QED BY <1>2, <2>1, <2>2, RunningUnchanged DEF Fail, Goto, SubnetInv
<1>3. CASE /\ agent = "configure" /\ mine # BadSubnet
           /\ ConfigureSubnet(mine)
           /\ UNCHANGED link
  <2>0. mine \in Subnets
    BY <1>3 DEF TypeOK
  <2>1. /\ AddressInv'
        /\ subnet' = mine /\ allocated' = {} /\ returned' = {}
        /\ held' \in [Containers -> Holds \cup {None}]
    BY <1>3, <2>0, ConfigureAddresses
  <2>2. TypeOK'
    BY <1>3, <2>0, <2>1 DEF Fail, Goto, TypeOK
  <2>3. LinkInv'
    BY <1>3 DEF Fail, Goto, LinkInv, Setup
  <2>. QED BY <2>1, <2>2, <2>3 DEF Fail, Goto, SubnetInv
<1>. QED BY <1>1, <1>2, <1>3 DEF Fail

LEMMA AllocateInv == ASSUME IInv, NEW c \in Containers, Allocate(c) PROVE IInv'
<1>. USE DEF IInv, AddressInv
<1>0. PICK h \in 1 .. HostCount :
        /\ IsNext(h)
        /\ allocated' = allocated \cup {<<subnet, h>>}
        /\ held' = [held EXCEPT ![c] = [addr |-> <<subnet, h>>, fresh |-> TRUE]]
  BY DEF Allocate
<1>. DEFINE a == <<subnet, h>>
<1>1. /\ a \in Addresses /\ a \notin allocated
      /\ subnet # None /\ subnet' = subnet /\ returned' = returned
      /\ allocated' = allocated \cup {a}
  BY <1>0 DEF Allocate, IsNext, Free, Addresses, TypeOK
<1>2. /\ held'[c] = [addr |-> a, fresh |-> TRUE]
      /\ \A d \in Containers : d # c => held'[d] = held[d]
  BY <1>0 DEF TypeOK
<1>. HIDE DEF a
<1>3. TypeOK'
  <2>1. held' \in [Containers -> Holds \cup {None}]
    <3>1. [addr |-> a, fresh |-> TRUE] \in Holds
      BY <1>1 DEF Holds
    <3>. QED BY <1>0, <3>1 DEF TypeOK, a
  <2>. QED BY <1>1, <2>1 DEF Allocate, TypeOK, process
<1>4. HeldInv'
  <2>1. a[1] = subnet
    BY DEF a
  <2>. QED BY <1>1, <1>2, <2>1 DEF HeldInv
<1>5. AddressesDiffer'
  <2>1. \A d \in Containers :
          d # c /\ held[d] # None /\ held[d].fresh /\ held[d].addr = a => a \in returned
    BY <1>1 DEF HeldInv
  <2>. QED BY <1>1, <1>2, <2>1 DEF AddressesDiffer
<1>6. LinkInv' /\ SubnetInv'
  BY DEF Allocate, process, LinkInv, SubnetInv
<1>. QED BY <1>3, <1>4, <1>5, <1>6

LEMMA ReleaseInv == ASSUME IInv, NEW c \in Containers, Release(c) PROVE IInv'
<1>. USE DEF IInv, AddressInv
<1>0. held[c] \in Holds /\ held[c].addr \in Addresses
  BY DEF Release, TypeOK, Holds
<1>1. /\ held'[c] = None
      /\ \A d \in Containers : d # c => held'[d] = held[d]
      /\ allocated' = allocated \ {held[c].addr}
      /\ returned \subseteq returned'
      /\ ~held[c].fresh => held[c].addr \in returned'
      /\ subnet' = subnet
  BY DEF Release, TypeOK
<1>2. TypeOK'
  BY <1>0 DEF Release, TypeOK, process
<1>3. AddressesDiffer'
  BY <1>1 DEF AddressesDiffer
<1>4. HeldInv'
  <2>. SUFFICES ASSUME NEW d \in Containers, d # c, held[d] # None, held[d].fresh
       PROVE  held[d].addr \in allocated' \cup returned'
    BY <1>1 DEF HeldInv
  <2>1. CASE held[d].addr = held[c].addr
    BY <1>1, <2>1 DEF AddressesDiffer, Release
  <2>2. CASE held[d].addr # held[c].addr
    BY <1>1, <2>2 DEF HeldInv
  <2>. QED BY <2>1, <2>2
<1>5. LinkInv' /\ SubnetInv'
  BY DEF Release, process, LinkInv, SubnetInv
<1>. QED BY <1>2, <1>3, <1>4, <1>5

LEMMA RestartInv == ASSUME IInv, RestartRuntime PROVE IInv'
<1>. USE DEF IInv, AddressInv
<1>1. /\ AddressInv'
      /\ subnet' = None /\ allocated' = {} /\ returned' = {}
      /\ held' \in [Containers -> Holds \cup {None}]
  BY ConfigureAddresses DEF RestartRuntime
<1>2. TypeOK'
  BY <1>1, BoundAssumption DEF RestartRuntime, TypeOK, process
<1>3. LinkInv' /\ SubnetInv'
  BY <1>1 DEF RestartRuntime, process, LinkInv, SubnetInv
<1>. QED BY <1>1, <1>2, <1>3

LEMMA MakeBridgeInv == ASSUME IInv, MakeBridge PROVE IInv'
<1>. USE DEF IInv, MakeBridge
<1>1. TypeOK'
  BY DEF TypeOK, process, ipam, running
<1>2. LinkInv' /\ SubnetInv'
  BY DEF process, ipam, LinkInv, SubnetInv
<1>. QED BY <1>1, <1>2, RunningUnchanged

-----------------------------------------------------------------------------
(* The theorems *)

LEMMA NextInv == IInv /\ [Next]_vars => IInv'
<1>. SUFFICES ASSUME IInv, [Next]_vars PROVE IInv'
  OBVIOUS
<1>1. CASE StartStep
  BY <1>1, StepInv, ConfigureInv DEF StartStep
<1>2. ASSUME NEW c \in Containers, Allocate(c) \/ Release(c) PROVE IInv'
  BY <1>2, AllocateInv, ReleaseInv
<1>3. CASE UNCHANGED vars
  BY <1>3, RunningUnchanged
     DEF vars, process, ipam, running, IInv, TypeOK, LinkInv, SubnetInv
<1>. QED BY <1>1, <1>2, <1>3, StartInv, FailInv, RestartInv, MakeBridgeInv DEF Next

LEMMA Invariance == Spec => []IInv
<1>1. Init => IInv
  BY InitInv
<1>2. IInv /\ [Next]_vars => IInv'
  BY NextInv
<1>. QED BY <1>1, <1>2, PTL DEF Spec

\* Process, interface and addresses keep their types.
THEOREM TypeCorrect == Spec => []TypeOK
<1>1. IInv => TypeOK
  BY DEF IInv
<1>. QED BY <1>1, Invariance, PTL

\* Whatever restarts and releases happen, an address is held twice only where
\* one was given out before the allocations were cleared, or given back so.
THEOREM AddressesAreUnique == Spec => []AddressesDiffer
<1>1. IInv => AddressesDiffer
  BY DEF IInv, AddressInv
<1>. QED BY <1>1, Invariance, PTL

\* Addresses that are given out while an agent runs are of its subnet.
THEOREM SubnetIsOwn == Spec => []OwnSubnetOnly
<1>1. IInv => OwnSubnetOnly
  BY DEF IInv, AddressInv, HeldInv, SubnetInv, OwnSubnetOnly
<1>. QED BY <1>1, Invariance, PTL

\* An agent that runs has a usable interface if no start was cut short.
THEOREM InterfaceIsReady == Spec => []RunningIsBridged
<1>1. IInv => RunningIsBridged
  BY DEF IInv, LinkInv, RunningIsBridged
<1>. QED BY <1>1, Invariance, PTL
=============================================================================
