--------------------------- MODULE OverlayProofs ---------------------------
(***************************************************************************)
(* Peer sync and shutdown, for any nodes, any hosts they share, and any      *)
(* number of failing calls and restarts.                                    *)
(***************************************************************************)
EXTENDS Overlay, TLAPS

Before == {"run", "joining", "dereg", "snap"}
After  == {"unroute", "free", "unfdb"}

\* A process that ended keeps nothing.
Ended == ~Alive => loop = "stopped" /\ peers = {} /\ known = {}

\* No peer whose address does not parse has an entry or a route.
Parsed ==
  /\ \A n \in peers \cup routes : HostOf[n] # BadHost
  /\ loop = "inject" => HostOf[at] # BadHost

\* A shutdown that is not late has the loop behind it.
LoopIsOver == main \in {"dereg", "snap"} \cup After /\ ~late => loop = "stopped"

\* What is there for a peer without an error, also between the two calls for it.
Mirrored(n) ==
  /\ n # at => /\ n \in routes <=> n \in known
               /\ n \in peers  <=> n \in known
               /\ n \in known => HostOf[n] \in fdb
  /\ n = at /\ loop = "inject" => n \in peers /\ HostOf[n] \in fdb
  /\ n = at /\ loop = "eject"  => n \notin peers /\ HostOf[n] \notin fdb
  /\ Sharing(n) \cap (known \cup {at}) = {} => HostOf[n] \notin fdb

Mirror == main \in Before => \A n \in Peers : Clean(n) => Mirrored(n)

\* Of the peers on one host, two are not in use without an error.
Apart ==
  main \in Before =>
    \A m, n \in Peers \cap (known \cup {at}) :
      m # n /\ HostOf[m] = HostOf[n] => ~Clean(n)

\* What a shutdown without an error has still to take back.
TakingBack ==
  ~late /\ logged = {} /\ left = {} =>
    /\ main = "unroute" => routes \subseteq todo /\ doomed = peers
    /\ main = "free"    => routes = {} /\ todo = peers
    /\ main = "unfdb"   => routes = {} /\ peers \subseteq todo
    /\ main \in After   => \A h \in fdb : \E n \in peers : HostOf[n] = h
    /\ main = "done"    => fdb = {} /\ routes = {}

TypeInv == TypeOK /\ Ended

IInv == /\ TypeInv /\ Parsed /\ LoopIsOver
        /\ Mirror /\ Apart /\ TakingBack /\ MapIsInKernel
-----------------------------------------------------------------------------
(* Types *)

USE DEF kernel, syncing, ending, bounds

LEMMA HostKnown ==
  ASSUME NEW n \in Peers, HostOf[n] # BadHost PROVE HostOf[n] \in Hosts
BY DEF Hosts

LEMMA EntryType ==
  ASSUME TypeOK, NEW n \in Peers, AddEntry(n) \/ RemoveEntry(n),
         HostOf[n] # BadHost \/ RemoveEntry(n)
  PROVE  /\ fdb' \in SUBSET Hosts /\ peers' \in SUBSET Peers
         /\ logged' \in SUBSET Peers
<1>1. CASE AddEntry(n) /\ HostOf[n] # BadHost
  BY <1>1, HostKnown DEF AddEntry, TypeOK, Succeeds, Fails, Faulty
<1>2. CASE RemoveEntry(n)
  BY <1>2 DEF RemoveEntry, TypeOK, Succeeds, Fails, Faulty
<1>. QED BY <1>1, <1>2

LEMMA RouteType ==
  ASSUME TypeOK, NEW n \in Peers, NEW R \in SUBSET Peers, SetRoutes(n, R)
  PROVE  routes' \in SUBSET Peers /\ logged' \in SUBSET Peers
BY DEF SetRoutes, Succeeds, Faulty, TypeOK

LEMMA Apartness == TypeOK => None \notin Peers /\ (loop \in {"inject", "eject"} => at \in Peers)
BY NodeAssumption DEF TypeOK, Peers

LEMMA TypeStep == TypeInv /\ [Next]_vars => TypeInv'
<1>. SUFFICES ASSUME TypeInv, [Next]_vars PROVE TypeInv'
  OBVIOUS
<1>. USE DEF TypeInv, Ended, Alive
<1>0. TypeOK /\ None \notin Peers /\ (loop \in {"inject", "eject"} => at \in Peers)
  BY Apartness
<1>1. CASE StartList
  BY <1>1 DEF StartList, TypeOK
<1>2. CASE List
  BY <1>2 DEF List, TypeOK, Peers
<1>3. CASE ListFails
  BY <1>3 DEF ListFails, TypeOK
<1>4. CASE Inject
  <2>1. routes' \in SUBSET Peers /\ logged' \in SUBSET Peers
    BY <1>0, <1>4, RouteType DEF Inject, TypeOK
  <2>. QED BY <1>0, <1>4, <2>1 DEF Inject, TypeOK
<1>5. CASE Eject
  <2>1. routes' \in SUBSET Peers /\ logged' \in SUBSET Peers
    BY <1>0, <1>5, RouteType DEF Eject, TypeOK
  <2>. QED BY <1>0, <1>5, <2>1 DEF Eject, TypeOK
<1>6. CASE EndSync
  BY <1>6 DEF EndSync, TypeOK
<1>7. CASE StopLoop
  BY <1>7 DEF StopLoop, TypeOK
<1>8. ASSUME NEW n \in Peers, AddPeer(n) PROVE TypeInv'
  <2>1. fdb' \in SUBSET Hosts /\ peers' \in SUBSET Peers /\ logged' \in SUBSET Peers
    BY <1>8, EntryType DEF AddPeer
  <2>. QED BY <1>0, <1>8, <2>1 DEF AddPeer, TypeOK
<1>9. ASSUME NEW n \in Peers, SkipPeer(n) PROVE TypeInv'
  BY <1>9 DEF SkipPeer, TypeOK
<1>10. ASSUME NEW n \in Peers, RemovePeer(n) PROVE TypeInv'
  <2>1. fdb' \in SUBSET Hosts /\ peers' \in SUBSET Peers /\ logged' \in SUBSET Peers
    BY <1>10, EntryType DEF RemovePeer
  <2>. QED BY <1>0, <1>10, <2>1 DEF RemovePeer, TypeOK
<1>11. CASE Join
  BY <1>11 DEF Join, TypeOK
<1>12. CASE Deregister
  BY <1>12 DEF Deregister, TypeOK
<1>13. CASE Snapshot
  BY <1>13 DEF Snapshot, TypeOK
<1>14. CASE ReleaseQuilt
  BY <1>14 DEF ReleaseQuilt, TypeOK
<1>15. CASE TakeVxlan
  BY <1>15 DEF TakeVxlan, TypeOK
<1>16. CASE Exit
  BY <1>0, <1>16 DEF Exit, Ends, TypeOK
<1>17. ASSUME NEW n \in Peers, Unroute(n) PROVE TypeInv'
  <2>1. routes' \in SUBSET Peers /\ logged' \in SUBSET Peers
    BY <1>0, <1>17, RouteType DEF Unroute, TypeOK
  <2>. QED BY <1>17, <2>1 DEF Unroute, TypeOK
<1>18. ASSUME NEW n \in Peers, Unfdb(n) PROVE TypeInv'
  <2>1. fdb' \in SUBSET Hosts /\ peers' \in SUBSET Peers /\ logged' \in SUBSET Peers
    BY <1>18, EntryType DEF Unfdb
  <2>. QED BY <1>18, <2>1 DEF Unfdb, TypeOK
<1>19. CASE Signal
  BY <1>19 DEF Signal, TypeOK
<1>20. CASE Kill
  BY <1>0, <1>20 DEF Kill, Ends, TypeOK
<1>21. CASE Start
  BY <1>21, NodeAssumption DEF Start, TypeOK, Peers
<1>22. CASE ListChanges
  BY <1>22 DEF ListChanges, TypeOK, Peers
<1>23. CASE UNCHANGED vars
  BY <1>23 DEF vars, TypeOK
<1>. QED BY <1>1, <1>2, <1>3, <1>4, <1>5, <1>6, <1>7, <1>8, <1>9, <1>10, <1>11,
  <1>12, <1>13, <1>14, <1>15, <1>16, <1>17, <1>18, <1>19, <1>20, <1>21, <1>22,
  <1>23 DEF Next, LoopStep, MainStep
-----------------------------------------------------------------------------
(* The order of things *)

LEMMA ParsedStep == TypeInv /\ Parsed /\ [Next]_vars => Parsed'
<1>. SUFFICES ASSUME TypeInv, Parsed, [Next]_vars PROVE Parsed'
  OBVIOUS
<1>. USE DEF TypeInv, Parsed
<1>1. CASE Inject
  BY <1>1, Apartness DEF Inject, SetRoutes
<1>2. CASE Eject
  BY <1>2 DEF Eject, SetRoutes
<1>3. ASSUME NEW n \in Peers, AddPeer(n) PROVE Parsed'
  BY <1>3 DEF AddPeer, AddEntry
<1>4. ASSUME NEW n \in Peers, RemovePeer(n) PROVE Parsed'
  BY <1>4 DEF RemovePeer, RemoveEntry
<1>5. ASSUME NEW n \in Peers, Unroute(n) PROVE Parsed'
  BY <1>5 DEF Unroute, SetRoutes
<1>6. ASSUME NEW n \in Peers, Unfdb(n) PROVE Parsed'
  BY <1>6 DEF Unfdb, RemoveEntry
<1>7. CASE Exit \/ Kill
  BY <1>7 DEF Exit, Kill, Ends
<1>8. CASE StartList \/ List \/ ListFails \/ EndSync \/ StopLoop \/ Start \/ Signal
  BY <1>8 DEF StartList, List, ListFails, EndSync, StopLoop, Start, Signal
<1>9. CASE Join \/ Deregister \/ Snapshot \/ ReleaseQuilt \/ TakeVxlan \/ ListChanges
  BY <1>9 DEF Join, Deregister, Snapshot, ReleaseQuilt, TakeVxlan, ListChanges
<1>10. ASSUME NEW n \in Peers, SkipPeer(n) PROVE Parsed'
  BY <1>10 DEF SkipPeer
<1>11. CASE UNCHANGED vars
  BY <1>11 DEF vars
<1>. QED BY <1>1, <1>2, <1>3, <1>4, <1>5, <1>6, <1>7, <1>8, <1>9, <1>10, <1>11
  DEF Next, LoopStep, MainStep

LEMMA LoopIsOverStep == TypeInv /\ LoopIsOver /\ [Next]_vars => LoopIsOver'
<1>. SUFFICES ASSUME TypeInv, LoopIsOver, [Next]_vars PROVE LoopIsOver'
  OBVIOUS
<1>. USE DEF LoopIsOver, After
<1>1. CASE StartList \/ List \/ ListFails \/ EndSync \/ StopLoop \/ Inject \/ Eject
  BY <1>1 DEF StartList, List, ListFails, EndSync, StopLoop, Inject, Eject
<1>2. ASSUME NEW n \in Peers, AddPeer(n) \/ SkipPeer(n) \/ RemovePeer(n) PROVE LoopIsOver'
  BY <1>2 DEF AddPeer, SkipPeer, RemovePeer
<1>3. CASE Join \/ Deregister \/ Snapshot \/ ReleaseQuilt \/ TakeVxlan \/ ListChanges
  BY <1>3 DEF Join, Deregister, Snapshot, ReleaseQuilt, TakeVxlan, ListChanges
<1>4. ASSUME NEW n \in Peers, Unroute(n) \/ Unfdb(n) PROVE LoopIsOver'
  BY <1>4 DEF Unroute, Unfdb
<1>5. CASE Exit \/ Kill \/ Start \/ Signal
  BY <1>5 DEF Exit, Kill, Ends, Start, Signal
<1>6. CASE UNCHANGED vars
  BY <1>6 DEF vars
<1>. QED BY <1>1, <1>2, <1>3, <1>4, <1>5, <1>6 DEF Next, LoopStep, MainStep

LEMMA MapStep == TypeInv /\ MapIsInKernel /\ [Next]_vars => MapIsInKernel'
<1>. SUFFICES ASSUME TypeInv, MapIsInKernel, [Next]_vars PROVE MapIsInKernel'
  OBVIOUS
<1>0. \A m, n \in Peers : m # n /\ Sharing(n) = {n} => HostOf[m] # HostOf[n]
  BY DEF Sharing
<1>9. peers \subseteq Peers
  BY DEF TypeInv, TypeOK
<1>. USE DEF MapIsInKernel
<1>1. ASSUME NEW n \in Peers, AddPeer(n) PROVE MapIsInKernel'
  BY <1>1 DEF AddPeer, AddEntry
<1>2. ASSUME NEW n \in Peers, RemovePeer(n) \/ Unfdb(n) PROVE MapIsInKernel'
  <2>1. RemoveEntry(n)
    BY <1>2 DEF RemovePeer, Unfdb
  <2>. QED BY <1>0, <1>9, <2>1 DEF RemoveEntry
<1>3. ASSUME NEW n \in Peers, SkipPeer(n) \/ Unroute(n) PROVE MapIsInKernel'
  BY <1>3 DEF SkipPeer, Unroute
<1>4. CASE StartList \/ List \/ ListFails \/ EndSync \/ StopLoop \/ Inject \/ Eject
  BY <1>4 DEF StartList, List, ListFails, EndSync, StopLoop, Inject, Eject
<1>5. CASE Join \/ Deregister \/ Snapshot \/ ReleaseQuilt \/ TakeVxlan \/ ListChanges
  BY <1>5 DEF Join, Deregister, Snapshot, ReleaseQuilt, TakeVxlan, ListChanges
<1>6. CASE Exit \/ Kill \/ Start \/ Signal
  BY <1>6 DEF Exit, Kill, Ends, Start, Signal
<1>7. CASE UNCHANGED vars
  BY <1>7 DEF vars
<1>. QED BY <1>1, <1>2, <1>3, <1>4, <1>5, <1>6, <1>7 DEF Next, LoopStep, MainStep
-----------------------------------------------------------------------------
(* The mirror *)

LEMMA CleanTogether ==
  ASSUME NEW m \in Peers, NEW n \in Peers, HostOf[m] = HostOf[n]
  PROVE  Clean(m) <=> Clean(n)
BY DEF Clean, Sharing

LEMMA CleanBefore ==
  ASSUME left' = left, logged \subseteq logged', NEW n \in Peers, Clean(n)'
  PROVE  Clean(n)
BY DEF Clean

LEMMA LoggedIsNotClean ==
  ASSUME NEW m \in Peers, NEW n \in Peers, HostOf[m] = HostOf[n], n \in logged'
  PROVE  ~Clean(m)'
BY DEF Clean, Sharing

MirrorInv == Mirror /\ Apart

\* Steps of which neither the kernel nor what the agent knows of it notices.
LEMMA QuietMirror ==
  ASSUME MirrorInv, UNCHANGED <<fdb, routes, peers, known, at, logged, left>>,
         loop' = "inject" => loop = "inject", loop' = "eject" => loop = "eject",
         main' \in Before => main \in Before
  PROVE  MirrorInv'
BY DEF MirrorInv, Mirror, Mirrored, Apart, Clean, Sharing

LEMMA MirrorAdd ==
  ASSUME TypeInv, Parsed, MirrorInv, NEW n \in Peers, AddPeer(n) PROVE MirrorInv'
<1>. USE DEF MirrorInv
<1>1. /\ n \notin known /\ HostOf[n] # BadHost /\ at = None /\ None \notin Peers
      /\ at' = n /\ loop' = "inject" /\ main' = main
      /\ UNCHANGED <<routes, known, left>> /\ AddEntry(n)
  BY Apartness DEF AddPeer, New, TypeInv, TypeOK
<1>2. logged \subseteq logged'
  BY <1>1 DEF AddEntry, Succeeds, Fails, Faulty
<1>3. ASSUME NEW m \in Peers, Clean(m)' PROVE Clean(m)
  BY <1>1, <1>2, <1>3, CleanBefore
<1>4. CASE main' \notin Before
  BY <1>4 DEF Mirror, Apart
<1>5. CASE main' \in Before /\ n \notin logged'
  <2>1. HostOf[n] \notin fdb /\ fdb' = fdb \cup {HostOf[n]} /\ peers' = peers \cup {n}
    BY <1>1, <1>5 DEF AddEntry, Fails, Faulty
  <2>2. Mirror'
    <3>. SUFFICES ASSUME NEW m \in Peers, Clean(m)' PROVE Mirrored(m)'
      BY DEF Mirror
    <3>1. Mirrored(m)
      BY <1>1, <1>3, <1>5 DEF Mirror
    <3>2. CASE m = n
      BY <1>1, <2>1, <3>1, <3>2 DEF Mirrored, Sharing
    <3>3. CASE m # n
      BY <1>1, <2>1, <3>1, <3>3 DEF Mirrored, Sharing
    <3>. QED BY <3>2, <3>3
  <2>3. ASSUME NEW m \in Peers, m \in known, HostOf[m] = HostOf[n] PROVE ~Clean(n)' /\ ~Clean(m)'
    <3>1. ~Clean(m)
      BY <1>1, <1>5, <2>1, <2>3 DEF Mirror, Mirrored
    <3>2. ~Clean(n)
      BY <2>3, <3>1, CleanTogether
    <3>. QED BY <1>3, <3>1, <3>2
  <2>4. Apart'
    <3>. SUFFICES ASSUME NEW k \in Peers, NEW m \in Peers, k \in known' \cup {at'},
                         m \in known' \cup {at'}, k # m, HostOf[k] = HostOf[m]
         PROVE  ~Clean(m)'
      BY DEF Apart
    <3>1. CASE k = n \/ m = n
      BY <1>1, <2>3, <3>1
    <3>2. CASE k # n /\ m # n
      BY <1>1, <1>3, <1>5, <3>2 DEF Apart
    <3>. QED BY <3>1, <3>2
  <2>. QED BY <2>2, <2>4
<1>6. CASE main' \in Before /\ n \in logged'
  <2>1. \A m \in Peers : Clean(m)' => HostOf[m] # HostOf[n]
    BY <1>6, LoggedIsNotClean
  <2>2. /\ peers \subseteq peers' /\ peers' \subseteq peers \cup {n}
        /\ fdb \subseteq fdb' /\ fdb' \subseteq fdb \cup {HostOf[n]}
    BY <1>1 DEF AddEntry
  <2>3. Mirror'
    <3>. SUFFICES ASSUME NEW m \in Peers, Clean(m)' PROVE Mirrored(m)'
      BY DEF Mirror
    <3>1. Mirrored(m) /\ HostOf[m] # HostOf[n]
      BY <1>1, <1>3, <1>6, <2>1 DEF Mirror
    <3>. QED BY <1>1, <2>2, <3>1 DEF Mirrored, Sharing
  <2>4. Apart'
    <3>. SUFFICES ASSUME NEW k \in Peers, NEW m \in Peers, k \in known' \cup {at'},
                         m \in known' \cup {at'}, k # m, HostOf[k] = HostOf[m],
                         Clean(m)'
         PROVE  FALSE
      BY DEF Apart
    <3>. QED BY <1>1, <1>3, <1>6, <2>1 DEF Apart
  <2>. QED BY <2>3, <2>4
<1>. QED BY <1>4, <1>5, <1>6

LEMMA MirrorRemove ==
  ASSUME TypeInv, Parsed, MirrorInv, NEW n \in Peers, RemovePeer(n) PROVE MirrorInv'
<1>. USE DEF MirrorInv
<1>1. /\ n \in known /\ at = None /\ None \notin Peers
      /\ at' = n /\ loop' = "eject" /\ main' = main
      /\ UNCHANGED <<routes, known, left>> /\ RemoveEntry(n)
  BY Apartness DEF RemovePeer, Gone, TypeInv, TypeOK
<1>2. logged \subseteq logged'
  BY <1>1 DEF RemoveEntry, Succeeds, Fails, Faulty
<1>3. ASSUME NEW m \in Peers, Clean(m)' PROVE Clean(m)
  BY <1>1, <1>2, <1>3, CleanBefore
<1>4. CASE main' \notin Before
  BY <1>4 DEF Mirror, Apart
<1>5. CASE main' \in Before
  <2>1. /\ peers' \subseteq peers /\ peers \subseteq peers' \cup {n}
        /\ fdb' \subseteq fdb /\ fdb \subseteq fdb' \cup {HostOf[n]}
    BY <1>1 DEF RemoveEntry
  <2>2. Apart'
    BY <1>1, <1>3, <1>5 DEF Apart
  <2>3. ASSUME NEW m \in Peers, Clean(m)', m # n PROVE HostOf[m] # HostOf[n] \/ m \notin known
    BY <1>1, <1>3, <1>5, <2>3 DEF Apart
  <2>4. ASSUME Clean(n)' PROVE n \notin peers' /\ HostOf[n] \notin fdb'
    <3>1. n \in peers /\ n \notin logged'
      BY <1>1, <1>3, <1>5, <2>4, LoggedIsNotClean DEF Mirror, Mirrored
    <3>. QED BY <1>1, <3>1 DEF RemoveEntry, Fails, Faulty
  <2>5. Mirror'
    <3>. SUFFICES ASSUME NEW m \in Peers, Clean(m)' PROVE Mirrored(m)'
      BY DEF Mirror
    <3>1. Mirrored(m)
      BY <1>1, <1>3, <1>5 DEF Mirror
    <3>2. CASE m = n
      BY <1>1, <2>4, <3>2 DEF Mirrored, Sharing
    <3>3. CASE m # n
      BY <1>1, <2>1, <2>3, <3>1, <3>3 DEF Mirrored, Sharing
    <3>. QED BY <3>2, <3>3
  <2>. QED BY <2>2, <2>5
<1>. QED BY <1>4, <1>5

LEMMA MirrorRoute ==
  ASSUME TypeInv, Parsed, MirrorInv, Inject \/ Eject PROVE MirrorInv'
<1>. USE DEF MirrorInv
<1>1. /\ at \in Peers /\ at' = None /\ loop' = "sync" /\ main' = main /\ None \notin Peers
      /\ UNCHANGED <<fdb, peers, left>> /\ logged \subseteq logged'
  BY Apartness DEF Inject, Eject, SetRoutes, Succeeds, Faulty, TypeInv
<1>2. \A m \in Peers : Clean(m)' => Clean(m)
  BY <1>1, CleanBefore
<1>3. \A m \in Peers : m # at => (m \in routes' <=> m \in routes) /\ (m \in known' <=> m \in known)
  BY DEF Inject, Eject, SetRoutes
<1>4. known' \subseteq known \cup {at}
  BY DEF Inject, Eject
<1>5. CASE main' \notin Before
  BY <1>5 DEF Mirror, Apart
<1>6. CASE main' \in Before
  <2>1. Apart'
    BY <1>1, <1>2, <1>4, <1>6 DEF Apart
  <2>2. Mirror'
    <3>. SUFFICES ASSUME NEW m \in Peers, Clean(m)' PROVE Mirrored(m)'
      BY DEF Mirror
    <3>1. Mirrored(m) /\ m \notin logged'
      BY <1>1, <1>2, <1>6, LoggedIsNotClean DEF Mirror
    <3>2. CASE m = at /\ Inject
      <4>1. m \in routes' /\ m \in known' /\ loop = "inject"
        BY <3>1, <3>2 DEF Inject, SetRoutes, Faulty
      <4>. QED BY <1>1, <3>1, <3>2, <4>1 DEF Mirrored, Sharing
    <3>3. CASE m = at /\ Eject
      <4>1. m \notin routes' /\ m \notin known' /\ loop = "eject"
        BY <3>1, <3>3 DEF Eject, SetRoutes, Faulty
      <4>. QED BY <1>1, <3>1, <3>3, <4>1 DEF Mirrored, Sharing
    <3>4. CASE m # at
      <4>1. Sharing(m) \cap known' = {} /\ HostOf[m] = HostOf[at] => HostOf[m] \notin fdb
        <5>. SUFFICES ASSUME Sharing(m) \cap known' = {}, HostOf[m] = HostOf[at]
             PROVE HostOf[m] \notin fdb
          OBVIOUS
        <5>1. at \notin known'
          BY <1>1 DEF Sharing
        <5>2. loop = "eject"
          BY <5>1 DEF Inject, Eject
        <5>3. Clean(at)
          BY <1>1, <1>2, CleanTogether
        <5>. QED BY <1>1, <1>6, <5>2, <5>3 DEF Mirror, Mirrored
      <4>2. Sharing(m) \cap known' = {} /\ HostOf[m] # HostOf[at]
              => Sharing(m) \cap (known \cup {at}) = {}
        BY <1>1, <1>3 DEF Sharing
      <4>. QED BY <1>1, <1>3, <3>1, <3>4, <4>1, <4>2 DEF Mirrored, Sharing
    <3>. QED BY <3>2, <3>3, <3>4
  <2>. QED BY <2>1, <2>2
<1>. QED BY <1>5, <1>6

LEMMA MirrorSkip ==
  ASSUME TypeInv, Parsed, MirrorInv, NEW n \in Peers, SkipPeer(n) PROVE MirrorInv'
<1>. USE DEF MirrorInv
<1>1. /\ HostOf[n] = BadHost /\ known' = known \cup {n} /\ main' = main
      /\ at = None /\ None \notin Peers /\ loop' = "sync"
      /\ UNCHANGED <<fdb, routes, peers, at, left, logged>>
  BY Apartness DEF SkipPeer, TypeInv, TypeOK
<1>2. \A m \in Peers : Clean(m)' => Clean(m) /\ HostOf[m] # HostOf[n]
  BY <1>1 DEF Clean
<1>3. Mirror'
  <2>. SUFFICES ASSUME NEW m \in Peers, Clean(m)', main' \in Before PROVE Mirrored(m)'
    BY DEF Mirror
  <2>1. Mirrored(m) /\ HostOf[m] # HostOf[n]
    BY <1>1, <1>2 DEF Mirror
  <2>. QED BY <1>1, <2>1 DEF Mirrored, Sharing
<1>4. Apart'
  <2>. SUFFICES ASSUME NEW k \in Peers, NEW m \in Peers, k \in known' \cup {at'},
                       m \in known' \cup {at'}, k # m, HostOf[k] = HostOf[m],
                       Clean(m)', main' \in Before
       PROVE  FALSE
    BY DEF Apart
  <2>. QED BY <1>1, <1>2 DEF Apart
<1>. QED BY <1>3, <1>4

LEMMA MirrorStart == TypeInv /\ Start => MirrorInv'
<1>. SUFFICES ASSUME TypeInv, Start PROVE MirrorInv'
  OBVIOUS
<1>1. /\ known' = {} /\ peers' = {} /\ at' = None /\ loop' = "sleep" /\ None \notin Peers
      /\ left' = {n \in Peers : n \in routes' \/ HostOf[n] \in fdb'}
  BY Apartness DEF Start, TypeInv, Ended, TypeOK
<1>2. \A n \in Peers : Clean(n)' => n \notin left'
  BY DEF Clean, Sharing
<1>. QED BY <1>1, <1>2 DEF MirrorInv, Mirror, Mirrored, Apart

LEMMA MirrorStep == TypeInv /\ Parsed /\ MirrorInv /\ [Next]_vars => MirrorInv'
<1>. SUFFICES ASSUME TypeInv, Parsed, MirrorInv, [Next]_vars PROVE MirrorInv'
  OBVIOUS
<1>1. CASE StartList \/ List \/ ListFails \/ EndSync \/ StopLoop
  BY <1>1, QuietMirror DEF StartList, List, ListFails, EndSync, StopLoop
<1>2. CASE Signal \/ Join \/ Deregister \/ ListChanges
  BY <1>2, QuietMirror DEF Signal, Join, Deregister, ListChanges, Before
<1>3. CASE UNCHANGED vars
  BY <1>3, QuietMirror DEF vars
<1>4. CASE Snapshot \/ ReleaseQuilt \/ TakeVxlan \/ Exit \/ Kill
  BY <1>4 DEF Snapshot, ReleaseQuilt, TakeVxlan, Exit, Kill, Ends,
              MirrorInv, Mirror, Apart, Before
<1>5. ASSUME NEW n \in Peers, Unroute(n) \/ Unfdb(n) PROVE MirrorInv'
  BY <1>5 DEF Unroute, Unfdb, MirrorInv, Mirror, Apart, Before
<1>. QED BY <1>1, <1>2, <1>3, <1>4, <1>5, MirrorAdd, MirrorRemove, MirrorRoute,
            MirrorSkip, MirrorStart DEF Next, LoopStep, MainStep
-----------------------------------------------------------------------------
(* Taking back *)

LEMMA AllClean ==
  ASSUME logged = {}, left = {}, NEW n \in Peers, HostOf[n] # BadHost PROVE Clean(n)
BY DEF Clean

LEMMA BackSnapshot ==
  ASSUME TypeInv, Parsed, LoopIsOver, Mirror, Snapshot PROVE TakingBack'
<1>. SUFFICES ASSUME ~late, logged = {}, left = {}
     PROVE  routes \subseteq peers /\ \A h \in fdb : \E n \in peers : HostOf[n] = h
  BY DEF TakingBack, Snapshot, After
<1>1. /\ loop = "stopped" /\ at = None /\ None \notin Peers
      /\ routes \subseteq Peers /\ known \subseteq Peers /\ peers \subseteq Peers /\ fdb \subseteq Hosts
  BY Apartness DEF Snapshot, LoopIsOver, TypeInv, TypeOK
<1>2. \A n \in Peers : HostOf[n] # BadHost => Mirrored(n)
  BY AllClean DEF Snapshot, Mirror, Before
<1>3. routes \subseteq peers
  BY <1>1, <1>2 DEF Parsed, Mirrored
<1>4. ASSUME NEW h \in fdb PROVE \E n \in peers : HostOf[n] = h
  <2>1. PICK m \in Peers : HostOf[m] = h /\ h # BadHost
    BY <1>1, <1>4 DEF Hosts
  <2>2. Sharing(m) \cap (known \cup {at}) # {}
    BY <1>2, <2>1 DEF Mirrored
  <2>3. PICK n \in Peers : n \in known /\ HostOf[n] = h
    BY <1>1, <2>1, <2>2 DEF Sharing
  <2>4. n \in peers
    BY <1>1, <1>2, <2>1, <2>3 DEF Mirrored
  <2>. QED BY <2>3, <2>4
<1>. QED BY <1>3, <1>4

LEMMA TakingBackStep ==
  TypeInv /\ Parsed /\ LoopIsOver /\ Mirror /\ TakingBack /\ [Next]_vars => TakingBack'
<1>. SUFFICES ASSUME TypeInv, Parsed, LoopIsOver, Mirror, TakingBack, [Next]_vars
     PROVE  TakingBack'
  OBVIOUS
<1>1. CASE Snapshot
  BY <1>1, BackSnapshot
<1>2. ASSUME main \notin After \cup {"done"}, main' = main PROVE TakingBack'
  BY <1>2 DEF TakingBack, After
<1>3. CASE StartList \/ List \/ ListFails \/ EndSync \/ StopLoop \/ Inject \/ Eject
  <2>1. main' = main /\ late' = late /\ Alive /\ loop # "stopped"
    BY <1>3 DEF StartList, List, ListFails, EndSync, StopLoop, Inject, Eject
  <2>2. CASE late
    BY <2>1, <2>2 DEF TakingBack
  <2>3. CASE ~late
    BY <1>2, <2>1, <2>3 DEF LoopIsOver, Alive, After
  <2>. QED BY <2>2, <2>3
<1>4. ASSUME NEW n \in Peers, AddPeer(n) \/ SkipPeer(n) \/ RemovePeer(n) PROVE TakingBack'
  <2>1. main' = main /\ late' = late /\ Alive /\ loop # "stopped"
    BY <1>4 DEF AddPeer, SkipPeer, RemovePeer
  <2>2. CASE late
    BY <2>1, <2>2 DEF TakingBack
  <2>3. CASE ~late
    BY <1>2, <2>1, <2>3 DEF LoopIsOver, Alive, After
  <2>. QED BY <2>2, <2>3
<1>5. CASE Signal \/ Join \/ Deregister \/ Kill \/ Start
  BY <1>5 DEF Signal, Join, Deregister, Kill, Ends, Start, TakingBack, After
<1>6. ASSUME NEW n \in Peers, Unroute(n) PROVE TakingBack'
  <2>. SUFFICES ASSUME ~late', logged' = {}, left' = {}
       PROVE  /\ routes' \subseteq todo' /\ doomed' = peers'
              /\ \A h \in fdb' : \E m \in peers' : HostOf[m] = h
    BY <1>6 DEF TakingBack, Unroute, After
  <2>1. SetRoutes(n, routes \ {n}) /\ main = "unroute" /\ late' = late /\ left' = left
        /\ todo' = todo \ {n} /\ UNCHANGED <<fdb, peers, doomed>>
    BY <1>6 DEF Unroute
  <2>2. routes' = routes \ {n} /\ logged = {}
    BY <2>1 DEF SetRoutes, Succeeds, Faulty
  <2>. QED BY <2>1, <2>2 DEF TakingBack, After
<1>7. CASE ReleaseQuilt
  BY <1>7 DEF ReleaseQuilt, TakingBack, After
<1>8. CASE TakeVxlan
  BY <1>8 DEF TakeVxlan, TakingBack, After
<1>9. ASSUME NEW n \in Peers, Unfdb(n) PROVE TakingBack'
  <2>. SUFFICES ASSUME ~late', logged' = {}, left' = {}
       PROVE  /\ routes' = {} /\ peers' \subseteq todo'
              /\ \A h \in fdb' : \E m \in peers' : HostOf[m] = h
    BY <1>9 DEF TakingBack, Unfdb, After
  <2>1. RemoveEntry(n) /\ main = "unfdb" /\ late' = late /\ left' = left
        /\ todo' = todo \ {n} /\ routes' = routes
    BY <1>9 DEF Unfdb
  <2>2. /\ logged = {} /\ peers' = peers \ {n}
        /\ fdb' = fdb \/ fdb' = fdb \ {HostOf[n]}
        /\ n \in peers => fdb' = fdb \ {HostOf[n]}
    BY <2>1 DEF RemoveEntry, Succeeds, Fails, Faulty
  <2>3. routes = {} /\ peers \subseteq todo /\ \A h \in fdb : \E m \in peers : HostOf[m] = h
    BY <2>1, <2>2 DEF TakingBack, After
  <2>. QED BY <2>1, <2>2, <2>3
<1>10. CASE Exit
  BY <1>10 DEF Exit, Ends, TakingBack, After
<1>11. CASE ListChanges
  BY <1>11 DEF ListChanges, TakingBack, After
<1>12. CASE UNCHANGED vars
  BY <1>12 DEF vars, TakingBack, After
<1>. QED BY <1>1, <1>3, <1>4, <1>5, <1>6, <1>7, <1>8, <1>9, <1>10, <1>11, <1>12
  DEF Next, LoopStep, MainStep

-----------------------------------------------------------------------------
(* The theorems *)

LEMMA InitInv == Init => IInv
BY NodeAssumption
   DEF Init, IInv, TypeInv, TypeOK, Ended, Alive, Parsed, LoopIsOver, Mirror, Mirrored,
       Apart, TakingBack, MapIsInKernel, Sharing, Before, After, Peers

LEMMA Invariance == Spec => []IInv
<1>1. IInv /\ [Next]_vars => IInv'
  BY TypeStep, ParsedStep, LoopIsOverStep, MapStep, MirrorStep, TakingBackStep
     DEF IInv, MirrorInv
<1>. QED BY <1>1, InitInv, PTL DEF Spec

\* The types of both tasks, for any nodes, hosts and number of faults and
\* restarts: neither is in the middle of a peer without holding its lock.
THEOREM TypeCorrect == Spec => []TypeOK
<1>1. IInv => TypeOK
  BY DEF IInv, TypeInv
<1>. QED BY <1>1, Invariance, PTL

\* Only where an error was logged does what the loop put into the kernel differ
\* from what it takes for known.
THEOREM PeersAreMirrored == Spec => []MirrorsKnown
<1>1. IInv => MirrorsKnown
  BY DEF IInv, Mirror, Mirrored, MirrorsKnown, Before
<1>. QED BY <1>1, Invariance, PTL

\* The VXLAN manager never believes in an entry that is missing, but for peers
\* on one host.
THEOREM MapIsTrue == Spec => []MapIsInKernel
<1>1. IInv => MapIsInKernel
  BY DEF IInv
<1>. QED BY <1>1, Invariance, PTL

\* A shutdown that was neither late nor met an error leaves nothing in the kernel.
THEOREM ExitIsClean == Spec => []CleanExit
<1>1. IInv => CleanExit
  BY DEF IInv, TakingBack, CleanExit
<1>. QED BY <1>1, Invariance, PTL
=============================================================================
