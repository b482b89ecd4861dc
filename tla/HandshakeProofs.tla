--------------------------- MODULE HandshakeProofs ---------------------------
(***************************************************************************)
(* What TLAPS proves of Handshake, for every number of machines, every     *)
(* setting of the timers and every choice and number of faults: its types, *)
(* that a ResourceSlice is honest and belongs to an owned peering, and     *)
(* that a refused peering is left alone for its time.                      *)
(***************************************************************************)
EXTENDS Handshake, TLAPS

USE DEF hub, pass, memory, machine

-----------------------------------------------------------------------------
(* Types.                                                                  *)

LEMMA CapTypes ==
  /\ AgeCap \in Nat /\ MissingCap \in Nat /\ ElapsedCap \in Nat
  /\ ElapsedCap <= MissingCap
BY HandshakeAssumption DEF AgeCap, MissingCap, ElapsedCap, Larger

LEMMA NoPassType == NoPass \in Pass /\ NoPass.pending = {}
BY DEF NoPass, Pass

LEMMA TypeInit == Init => HandshakeTypeOK
BY HandshakeAssumption, CapTypes, NoPassType
   DEF Init, HandshakeTypeOK, All, Unmarked

LEMMA FaultType ==
  ASSUME NEW kind, faults \in 0 .. MaxFaults, Fault(kind)
  PROVE  faults' \in 0 .. MaxFaults
BY HandshakeAssumption DEF Fault

LEMMA EndPassType ==
  ASSUME EndPass
  PROVE  /\ at' = "sleep" /\ who' = NoOne /\ todo' = {} /\ elapsed' \in 0 .. ElapsedCap
         /\ p' \in Pass /\ p'.pending \subseteq p'.peered
BY CapTypes, NoPassType DEF EndPass

LEMMA TypeWorld ==
  ASSUME HandshakeTypeOK, NEW m \in Machines, World(m)
  PROVE  HandshakeTypeOK'
<1>1. CASE Rent(m)         BY <1>1, CapTypes DEF Rent, HandshakeTypeOK
<1>2. CASE Boot(m)         BY <1>2 DEF Boot, HandshakeTypeOK
<1>3. CASE RoomChanges(m)  BY <1>3 DEF RoomChanges, HandshakeTypeOK
<1>4. CASE Schedule(m)
  BY <1>4, HandshakeAssumption DEF Schedule, HandshakeTypeOK
<1>5. CASE NodeAppears(m)  BY <1>5 DEF NodeAppears, HandshakeTypeOK
<1>6. CASE TenantEnds(m)   BY <1>6 DEF TenantEnds, HandshakeTypeOK
<1>7. CASE Vanish(m)
  BY <1>7, CapTypes, FaultType DEF Vanish, HandshakeTypeOK
<1> QED BY <1>1, <1>2, <1>3, <1>4, <1>5, <1>6, <1>7 DEF World

LEMMA TypeTick == ASSUME HandshakeTypeOK, Tick PROVE HandshakeTypeOK'
<1>1. age' \in [Machines -> 0 .. AgeCap]
  BY CapTypes DEF Tick, HandshakeTypeOK, Smaller
<1>2. hold' \in [Machines -> 0 .. BlockedRetryS]
  BY HandshakeAssumption DEF Tick, HandshakeTypeOK, Larger
<1>3. refusedFor' \in [Machines -> 0 .. BlockedRetryS]
  BY HandshakeAssumption DEF Tick, HandshakeTypeOK, Larger
<1>4. missing' \in [Machines -> Unmarked .. MissingCap]
  BY CapTypes DEF Tick, HandshakeTypeOK, Smaller, Unmarked
<1>5. elapsed' \in 0 .. ElapsedCap
  BY CapTypes DEF Tick, HandshakeTypeOK, Smaller
<1> QED BY <1>1, <1>2, <1>3, <1>4, <1>5 DEF Tick, HandshakeTypeOK

LEMMA TypeTornDown ==
  ASSUME HandshakeTypeOK, NEW m \in Machines, TornDown(m)
  PROVE  /\ tenant' \in [Machines -> {"none", "active", "terminating"}]
         /\ gateway' \in [Machines -> {"none", "waiting", "refused", "placed"}]
         /\ fc' \in [Machines -> {"none", "unowned", "owned"}]
         /\ slice' \in [Machines -> {"none", "zero", "honest"}]
         /\ node' \in [Machines -> {"none", "bare", "labelled"}]
BY DEF TornDown, HandshakeTypeOK

LEMMA TypeLabel ==
  ASSUME HandshakeTypeOK, NEW names, names \subseteq p.peered, LabelSweep(names)
  PROVE  /\ node' \in [Machines -> {"none", "bare", "labelled"}]
         /\ p' \in Pass /\ p'.pending \subseteq p'.peered
         /\ faults' \in 0 .. MaxFaults
         /\ p'.peered = p.peered /\ p'.machines = p.machines
<1>1. PICK missed \in Misses(names) :
        Label(names, missed) /\ faults' = IF missed = {} THEN faults ELSE faults + 1
  BY DEF LabelSweep
<1>2. node' \in [Machines -> {"none", "bare", "labelled"}]
  BY <1>1 DEF Label, HandshakeTypeOK
<1>3. /\ p' \in Pass /\ p'.pending \subseteq p'.peered
      /\ p'.peered = p.peered /\ p'.machines = p.machines
  BY <1>1 DEF Label, HandshakeTypeOK, Pass
<1>4. faults' \in 0 .. MaxFaults
  BY <1>1, HandshakeAssumption DEF Misses, HandshakeTypeOK
<1> QED BY <1>2, <1>3, <1>4

LEMMA TypeLoop == ASSUME HandshakeTypeOK, Loop PROVE HandshakeTypeOK'
<1>0. /\ p \in Pass /\ who \in Machines \cup {NoOne} /\ NoOne \notin Machines
      /\ faults \in 0 .. MaxFaults /\ elapsed \in 0 .. ElapsedCap
  BY HandshakeAssumption DEF HandshakeTypeOK
<1>1. CASE Observe
  <2>1. p' \in Pass /\ p'.pending \subseteq p'.peered
    BY <1>1, NoPassType DEF Observe, Pass, NoPass, Listed, Joined
  <2> QED BY <1>1, <2>1, CapTypes DEF Observe, HandshakeTypeOK
<1>2. CASE FirstSweep
  BY <1>2, TypeLabel DEF FirstSweep, GoTo, HandshakeTypeOK
<1>3. CASE Look
  <2>1. p' \in Pass /\ p'.pending \subseteq p'.peered /\ p'.peered \subseteq Machines
    <3>1. p.pending \subseteq p.peered
      BY DEF HandshakeTypeOK
    <3> DEFINE refused == {m \in Machines : gateway[m] = "refused"}
               sliced  == {m \in Machines : slice[m] # "none"}
    <3>2. \/ p' = [p EXCEPT !.refused = refused, !.sliced = sliced]
          \/ p' = [p EXCEPT !.readable = FALSE, !.sliced = sliced]
      BY <1>3 DEF Look
    <3>3. refused \subseteq Machines /\ sliced \subseteq Machines
      OBVIOUS
    <3> HIDE DEF refused, sliced
    <3> QED BY <3>1, <3>2, <3>3, <1>0 DEF Pass
  <2>2. faults' \in 0 .. MaxFaults
    BY <1>3, <1>0, FaultType DEF Look
  <2>3. p.machines \subseteq Machines
    BY <1>0 DEF Pass
  <2> QED BY <1>3, <2>1, <2>2, <2>3 DEF Look, HandshakeTypeOK
<1>4. ASSUME NEW m \in Machines, LeaveAlone(m) PROVE HandshakeTypeOK'
  BY <1>4 DEF LeaveAlone, HandshakeTypeOK
<1>5. ASSUME NEW m \in Machines, StartPeer(m) PROVE HandshakeTypeOK'
  BY <1>5, <1>0, HandshakeAssumption DEF StartPeer, HandshakeTypeOK
<1>6. ASSUME NEW m \in Machines, StartAdvertise(m) PROVE HandshakeTypeOK'
  BY <1>6, <1>0 DEF StartAdvertise, HandshakeTypeOK
<1>7. CASE Peered
  BY <1>7 DEF Peered, GoTo, HalfPeered, HandshakeTypeOK
<1>8. CASE Blocked
  BY <1>8, <1>0, CapTypes, HandshakeAssumption
     DEF Blocked, GoTo, Larger, HandshakeTypeOK
<1>9. CASE PeerFails
  <2>1. faults' \in 0 .. MaxFaults
    BY <1>9, <1>0, FaultType DEF PeerFails
  <2> QED BY <1>9, <2>1 DEF PeerFails, GoTo, HalfPeered, HandshakeTypeOK
<1>10. CASE Own
  <2>1. faults' \in 0 .. MaxFaults
    BY <1>10, <1>0, FaultType DEF Own
  <2>2. who \in Machines
    BY <1>10 DEF Own, HandshakeTypeOK
  <2>3. p' \in Pass /\ p'.pending \subseteq p'.peered
    BY <1>10, <1>0, <2>2 DEF Own, Pass, HandshakeTypeOK
  <2> QED BY <1>10, <2>1, <2>3 DEF Own, GoTo, HandshakeTypeOK
<1>11. CASE Advertise
  BY <1>11 DEF Advertise, GoTo, HandshakeTypeOK
<1>12. CASE AdvertiseFails
  BY <1>12, FaultType DEF AdvertiseFails, GoTo, HandshakeTypeOK
<1>13. CASE Advertised
  BY <1>13 DEF Advertised, GoTo, HandshakeTypeOK
<1>14. CASE SetEndpoint
  <2>1. CASE GoTo("sweep") /\ UNCHANGED <<p, faults>>
    BY <1>14, <2>1 DEF SetEndpoint, GoTo, HandshakeTypeOK
  <2>2. CASE Fault("api") /\ EndPass
    BY <1>14, <2>2, FaultType, EndPassType DEF SetEndpoint, HandshakeTypeOK
  <2> QED BY <1>14, <2>1, <2>2 DEF SetEndpoint
<1>15. CASE Sweep
  <2>1. p.pending \cup JustPeered \subseteq p.peered
    BY DEF JustPeered, HandshakeTypeOK
  <2> QED BY <1>15, <2>1, TypeLabel DEF Sweep, HandshakeTypeOK
<1>16. CASE BroughtUp
  BY <1>16, <1>0 DEF BroughtUp, NeverJoined, Pass, HandshakeTypeOK
<1>17. ASSUME NEW m \in Machines, BootTimeout(m) PROVE HandshakeTypeOK'
  <2>1. refusedFor' \in [Machines -> 0 .. BlockedRetryS]
    BY <1>17, HandshakeAssumption DEF BootTimeout, HandshakeTypeOK
  <2>2. CASE Fault("destroy") /\ EndPass /\ UNCHANGED <<box, age, memory>>
    BY <1>17, <2>1, <2>2, TypeTornDown, FaultType, EndPassType
       DEF BootTimeout, HandshakeTypeOK
  <2>3. CASE ~(Fault("destroy") /\ EndPass /\ UNCHANGED <<box, age, memory>>)
    BY <1>17, <2>1, <2>3, TypeTornDown, CapTypes, HandshakeAssumption
       DEF BootTimeout, HandshakeTypeOK, Unmarked
  <2> QED BY <2>2, <2>3
<1>18. ASSUME NEW m \in Machines, Orphan(m) PROVE HandshakeTypeOK'
  <2>1. missing' \in [Machines -> Unmarked .. MissingCap]
    <3>1. elapsed \in Unmarked .. MissingCap /\ Unmarked \in Unmarked .. MissingCap
      BY <1>0, CapTypes DEF Unmarked
    <3> QED BY <1>18, <3>1 DEF Orphan, HandshakeTypeOK
  <2>2. refusedFor' \in [Machines -> 0 .. BlockedRetryS]
    BY <1>18, HandshakeAssumption DEF Orphan, HandshakeTypeOK
  <2>3. CASE TornDown(m)
    BY <1>18, <2>1, <2>2, <2>3, TypeTornDown DEF Orphan, HandshakeTypeOK
  <2>4. CASE UNCHANGED hub
    BY <1>18, <2>1, <2>2, <2>4 DEF Orphan, HandshakeTypeOK
  <2> QED BY <1>18, <2>3, <2>4 DEF Orphan
<1>19. CASE ToOrphans
  <2>1. missing' \in [Machines -> Unmarked .. MissingCap]
    BY <1>19, CapTypes DEF ToOrphans, HandshakeTypeOK, Unmarked
  <2> QED BY <1>19, <1>0, <2>1 DEF ToOrphans, Pass, HandshakeTypeOK
<1>20. CASE PassDone
  BY <1>20, EndPassType DEF PassDone, HandshakeTypeOK
<1> QED BY <1>1, <1>2, <1>3, <1>4, <1>5, <1>6, <1>7, <1>8, <1>9, <1>10, <1>11,
           <1>12, <1>13, <1>14, <1>15, <1>16, <1>17, <1>18, <1>19, <1>20 DEF Loop

LEMMA TypeNext == ASSUME HandshakeTypeOK, [Next]_vars PROVE HandshakeTypeOK'
<1>1. CASE Crash
  <2>1. hold' \in [Machines -> 0 .. BlockedRetryS]
    BY <1>1, HandshakeAssumption DEF Crash, All
  <2>2. missing' \in [Machines -> Unmarked .. MissingCap]
    BY <1>1, CapTypes DEF Crash, All, Unmarked
  <2>3. refusedFor' \in [Machines -> 0 .. BlockedRetryS]
    BY <1>1, HandshakeAssumption DEF Crash, All
  <2>4. faults' \in 0 .. MaxFaults
    BY <1>1, FaultType DEF Crash, HandshakeTypeOK
  <2> QED BY <1>1, <2>1, <2>2, <2>3, <2>4, EndPassType DEF Crash, HandshakeTypeOK
<1>2. CASE UNCHANGED vars
  BY <1>2 DEF vars, HandshakeTypeOK
<1> QED BY <1>1, <1>2, TypeLoop, TypeTick, TypeWorld DEF Next

\* Every record of the handshake and of the pass keeps its type; a machine is
\* swept for labels only once it is peered.
THEOREM HandshakeTyped == Spec => []HandshakeTypeOK
<1>1. Init => HandshakeTypeOK                       BY TypeInit
<1>2. HandshakeTypeOK /\ [Next]_vars => HandshakeTypeOK'  BY TypeNext
<1> QED BY <1>1, <1>2, PTL DEF Spec

-----------------------------------------------------------------------------
(* What is advertised.                                                     *)

BringUp == {"label", "look", "next", "peer", "own", "slice", "endpoint", "sweep"}

\* The machines the pass takes for peered are, until it starts to tear down.
PeeredOwned == at \in BringUp => \A m \in p.peered : fc[m] = "owned"

\* The machine being advertised is peered.
InHand == at = "slice" => who \in p.peered

\* No machine that is still being provisioned has a ForeignCluster, or is about
\* to get one; one with a ForeignCluster never comes back as another machine.
Settled(m) == box[m] \in {"done", "none"}

ProvisionedFirst ==
  /\ \A m \in Machines : fc[m] # "none" => Settled(m)
  /\ at \in {"peer", "own"} => Settled(who)

AdvertInv == SlicesOwned /\ SlicesHonest /\ PeeredOwned /\ InHand /\ ProvisionedFirst

LEMMA AdvertInit == Init => AdvertInv
BY DEF Init, All, AdvertInv, SlicesOwned, SlicesHonest, PeeredOwned, InHand,
       ProvisionedFirst, BringUp

LEMMA AdvertWorld ==
  ASSUME HandshakeTypeOK, AdvertInv, NEW m \in Machines, World(m)
  PROVE  AdvertInv'
<1> USE DEF HandshakeTypeOK, AdvertInv, SlicesOwned, SlicesHonest, PeeredOwned,
            InHand, ProvisionedFirst, Settled, BringUp
<1>1. CASE Rent(m)         BY <1>1 DEF Rent
<1>2. CASE Boot(m)         BY <1>2 DEF Boot
<1>3. CASE RoomChanges(m)  BY <1>3 DEF RoomChanges
<1>4. CASE Schedule(m)     BY <1>4 DEF Schedule
<1>5. CASE NodeAppears(m)  BY <1>5 DEF NodeAppears
<1>6. CASE TenantEnds(m)   BY <1>6 DEF TenantEnds
<1>7. CASE Vanish(m)       BY <1>7 DEF Vanish
<1> QED BY <1>1, <1>2, <1>3, <1>4, <1>5, <1>6, <1>7 DEF World

\* A teardown of m, in a rule that comes after bring_up.
LEMMA AdvertTornDown ==
  ASSUME HandshakeTypeOK, AdvertInv, NEW m \in Machines, TornDown(m),
         \A k \in Machines : box'[k] = box[k] \/ box'[k] = "none",
         at' \notin BringUp
  PROVE  AdvertInv'
BY DEF TornDown, HandshakeTypeOK, AdvertInv, SlicesOwned, SlicesHonest,
       PeeredOwned, InHand, ProvisionedFirst, Settled, BringUp

\* bring_up goes on without touching a peering, a slice or a node.
LEMMA AdvertSame ==
  ASSUME AdvertInv, UNCHANGED <<box, fc, slice, node>>, p'.peered = p.peered,
         at \in BringUp, at' \in BringUp \ {"peer", "own", "slice"}
  PROVE  AdvertInv'
BY DEF AdvertInv, SlicesOwned, SlicesHonest, PeeredOwned, InHand,
       ProvisionedFirst, Settled, BringUp

LEMMA AdvertLook == ASSUME HandshakeTypeOK, AdvertInv, Look PROVE AdvertInv'
<1> DEFINE refused == {m \in Machines : gateway[m] = "refused"}
           sliced  == {m \in Machines : slice[m] # "none"}
<1>1. \/ p' = [p EXCEPT !.refused = refused, !.sliced = sliced]
      \/ p' = [p EXCEPT !.readable = FALSE, !.sliced = sliced]
  BY DEF Look
<1> HIDE DEF refused, sliced
<1>0. p \in Pass
  BY DEF HandshakeTypeOK
<1>2. p'.peered = p.peered
  BY <1>0, <1>1 DEF Pass
<1>3. at = "look" /\ at' = "next" /\ UNCHANGED <<box, fc, slice, node>>
  BY DEF Look
<1> QED BY <1>2, <1>3, AdvertSame DEF BringUp

LEMMA AdvertBlocked == ASSUME AdvertInv, Blocked PROVE AdvertInv'
<1>1. at = "peer" /\ at' = "sweep" /\ UNCHANGED <<box, fc, slice, node, p>>
  BY DEF Blocked, GoTo
<1> QED BY <1>1, AdvertSame DEF BringUp

LEMMA AdvertPeerFails ==
  ASSUME HandshakeTypeOK, AdvertInv, PeerFails PROVE AdvertInv'
<1>1. at = "peer" /\ at' = "sweep" /\ UNCHANGED <<box, slice, node, p>>
  BY DEF PeerFails, GoTo
<1>2. CASE UNCHANGED fc
  BY <1>1, <1>2, AdvertSame DEF BringUp
<1>3. CASE fc' = [fc EXCEPT ![who] = HalfPeered(who)]
  BY <1>1, <1>3
     DEF HalfPeered, HandshakeTypeOK, AdvertInv, SlicesOwned, SlicesHonest,
         PeeredOwned, InHand, ProvisionedFirst, Settled, BringUp
<1> QED BY <1>2, <1>3 DEF PeerFails

LEMMA AdvertLoop ==
  ASSUME HandshakeTypeOK, AdvertInv, Loop PROVE AdvertInv'
<1>5. CASE Look         BY <1>5, AdvertLook
<1>8. CASE Blocked      BY <1>8, AdvertBlocked
<1>9. CASE PeerFails    BY <1>9, AdvertPeerFails
<1> USE DEF HandshakeTypeOK, AdvertInv, SlicesOwned, SlicesHonest, PeeredOwned,
            InHand, ProvisionedFirst, Settled, BringUp
<1>1. CASE Observe
  <2>1. p'.peered = {m \in Machines : fc[m] = "owned"}
    BY <1>1 DEF Observe, NoPass
  <2> QED BY <1>1, <2>1 DEF Observe
<1>2. ASSUME NEW names, names \subseteq p.peered, LabelSweep(names),
             at \in {"label", "sweep"}, at' \in {"look", "next"},
             UNCHANGED <<box, fc, slice>>
      PROVE  AdvertInv'
  <2>1. p'.peered = p.peered
    BY <1>2, TypeLabel
  <2>2. \A m \in Machines : node[m] = "none" => node'[m] = "none"
    BY <1>2 DEF LabelSweep, Label
  <2> QED BY <1>2, <2>1, <2>2
<1>3. CASE FirstSweep
  BY <1>2, <1>3 DEF FirstSweep, GoTo
<1>4. CASE Sweep
  <2>1. p.pending \cup JustPeered \subseteq p.peered
    BY DEF JustPeered
  <2> QED BY <1>2, <1>4, <2>1 DEF Sweep
<1>6. ASSUME NEW m \in Machines, LeaveAlone(m) \/ StartPeer(m) \/ StartAdvertise(m)
      PROVE  AdvertInv'
  BY <1>6 DEF LeaveAlone, StartPeer, StartAdvertise, MachineReady
<1>7. CASE Peered      BY <1>7 DEF Peered, GoTo, HalfPeered
<1>10. CASE Own
  <2>1. CASE fc' = fc /\ p' = p /\ at' = "sweep"
    BY <1>10, <2>1 DEF Own
  <2>2. CASE /\ fc' = [fc EXCEPT ![who] = "owned"] /\ at' = "slice"
             /\ p' = [p EXCEPT !.peered = @ \cup {who}]
    <3>1. p'.peered = p.peered \cup {who} /\ who \in Machines /\ who' = who
      BY <1>10, <2>2 DEF Own, GoTo, Pass
    <3> QED BY <1>10, <2>2, <3>1 DEF Own
  <2> QED BY <1>10, <2>1, <2>2 DEF Own, GoTo
<1>11. CASE Advertise
  <2>1. fc[who] = "owned" /\ who \in Machines /\ box[who] = "done"
    BY <1>11 DEF Advertise, CanSlice, Pass
  <2> QED BY <1>11, <2>1 DEF Advertise, GoTo
<1>12. CASE AdvertiseFails \/ Advertised
  BY <1>12 DEF AdvertiseFails, Advertised, GoTo
<1>13. CASE SetEndpoint
  BY <1>13 DEF SetEndpoint, GoTo, EndPass
<1>14. CASE BroughtUp \/ ToOrphans \/ PassDone
  BY <1>14 DEF BroughtUp, ToOrphans, PassDone, EndPass
<1>15. ASSUME NEW m \in Machines, BootTimeout(m) PROVE AdvertInv'
  <2>1. at' \notin BringUp
    BY <1>15 DEF BootTimeout, EndPass
  <2>2. \A k \in Machines : box'[k] = box[k] \/ box'[k] = "none"
    BY <1>15 DEF BootTimeout
  <2> QED BY <1>15, <2>1, <2>2, AdvertTornDown DEF BootTimeout
<1>16. ASSUME NEW m \in Machines, Orphan(m) PROVE AdvertInv'
  <2>1. CASE TornDown(m)
    BY <1>16, <2>1, AdvertTornDown DEF Orphan
  <2>2. CASE UNCHANGED hub
    BY <1>16, <2>2 DEF Orphan
  <2> QED BY <1>16, <2>1, <2>2 DEF Orphan
<1> QED BY <1>1, <1>3, <1>4, <1>5, <1>6, <1>7, <1>8, <1>9, <1>10, <1>11, <1>12,
           <1>13, <1>14, <1>15, <1>16 DEF Loop

LEMMA AdvertNext ==
  ASSUME HandshakeTypeOK, AdvertInv, [Next]_vars PROVE AdvertInv'
<1> USE DEF AdvertInv, SlicesOwned, SlicesHonest, PeeredOwned, InHand,
            ProvisionedFirst, Settled, BringUp
<1>1. CASE Tick  BY <1>1 DEF Tick
<1>2. CASE Crash
  BY <1>2 DEF Crash, EndPass
<1>3. CASE UNCHANGED vars
  BY <1>3 DEF vars
<1> QED BY <1>1, <1>2, <1>3, AdvertLoop, AdvertWorld DEF Next

LEMMA AdvertsHold ==
  Spec => [](SlicesOwned /\ SlicesHonest)
<1>1. Init => AdvertInv  BY AdvertInit
<1>2. HandshakeTypeOK /\ AdvertInv /\ [Next]_vars => AdvertInv'  BY AdvertNext
<1>3. AdvertInv => SlicesOwned /\ SlicesHonest  BY DEF AdvertInv
<1> QED BY <1>1, <1>2, <1>3, HandshakeTyped, PTL DEF Spec

\* Whatever write fails and whenever the operator restarts, what attracts pods
\* belongs to a peering the teardown rules can find.
THEOREM OwnedFirst == Spec => []SlicesOwned
BY AdvertsHold, PTL

\* No slice is ever written from a machine that was still being provisioned,
\* although the gate is only passed before the handshake and the slice may be
\* written passes later.
THEOREM NoEmptySlice == Spec => []SlicesHonest
BY AdvertsHold, PTL

-----------------------------------------------------------------------------
(* What is refused is left alone.                                          *)

\* As long as a refusal counts, blocked_until lasts and the pod is refused.
RefusalCounts ==
  \A m \in Machines : refusedFor[m] > 0 => refusedFor[m] <= hold[m] /\ gateway[m] = "refused"

\* And the pass knows: it read blocked_until before, and the pods before its
\* loop, or has just abandoned the handshake itself.
PassKnows ==
  /\ at \in {"label", "look"} => \A m \in Machines : refusedFor[m] > 0 => m \in p.held
  /\ at \in BringUp \ {"label", "look"} =>
       \A m \in todo : refusedFor[m] > 0 /\ ~(at = "sweep" /\ m = who)
                         => m \in p.held /\ ~NoLongerRefused(m)

BackoffInv == RefusalCounts /\ PassKnows

LEMMA BackoffInit == Init => BackoffInv
BY DEF Init, All, BackoffInv, RefusalCounts, PassKnows, BringUp

\* A step that does not touch what is refused, and what the pass knows of it.
LEMMA BackoffSame ==
  ASSUME HandshakeTypeOK, BackoffInv, UNCHANGED <<hold, gateway>>,
         \A m \in Machines : refusedFor'[m] \in {0, refusedFor[m]},
         \/ at' \notin BringUp
         \/ /\ p'.held = p.held /\ p'.refused = p.refused /\ p'.readable = p.readable
            /\ \/ at \in {"label", "look"} /\ at' \in {"label", "look"}
               \/ /\ at \in BringUp \ {"label", "look"} /\ at' \in BringUp \ {"label", "look"}
                  /\ todo' \subseteq todo
                  /\ at = "sweep" => who \notin todo' \/ (at' = "sweep" /\ who' = who)
  PROVE  BackoffInv'
BY DEF HandshakeTypeOK, BackoffInv, RefusalCounts, PassKnows, NoLongerRefused, BringUp

\* A machine is given up.
LEMMA BackoffTornDown ==
  ASSUME HandshakeTypeOK, BackoffInv, NEW m \in Machines, TornDown(m),
         refusedFor' = [refusedFor EXCEPT ![m] = 0],
         \A k \in Machines \ {m} : hold'[k] = hold[k],
         at' \notin BringUp
  PROVE  BackoffInv'
BY DEF TornDown, HandshakeTypeOK, BackoffInv, RefusalCounts, PassKnows, BringUp

LEMMA BackoffWorld ==
  ASSUME HandshakeTypeOK, BackoffInv, NEW m \in Machines, World(m)
  PROVE  BackoffInv'
<1>1. CASE Rent(m) \/ Boot(m) \/ RoomChanges(m) \/ NodeAppears(m) \/ TenantEnds(m) \/ Vanish(m)
  BY <1>1 DEF Rent, Boot, RoomChanges, NodeAppears, TenantEnds, Vanish,
     BackoffInv, RefusalCounts, PassKnows, NoLongerRefused, BringUp
<1>2. CASE Schedule(m)
  BY <1>2 DEF Schedule, HandshakeTypeOK, BackoffInv, RefusalCounts, PassKnows,
     NoLongerRefused, BringUp
<1> QED BY <1>1, <1>2 DEF World

LEMMA BackoffTick == ASSUME HandshakeTypeOK, BackoffInv, Tick PROVE BackoffInv'
<1>1. \A m \in Machines : refusedFor'[m] > 0 =>
        refusedFor[m] > 0 /\ refusedFor'[m] = refusedFor[m] - 1 /\ hold'[m] >= hold[m] - 1
  BY HandshakeAssumption DEF Tick, HandshakeTypeOK, Larger
<1>2. UNCHANGED <<gateway, at, who, todo, p>>
  BY DEF Tick
<1>3. \A m \in Machines : refusedFor[m] \in Int /\ hold[m] \in Int /\ hold'[m] \in Int
  BY HandshakeAssumption DEF Tick, HandshakeTypeOK, Larger
<1>4. RefusalCounts'
  BY <1>1, <1>2, <1>3 DEF BackoffInv, RefusalCounts
<1>5. PassKnows'
  BY <1>1, <1>2 DEF HandshakeTypeOK, BackoffInv, PassKnows, NoLongerRefused, BringUp
<1> QED BY <1>4, <1>5 DEF BackoffInv

\* The pass reads who is held back, and later who is refused.
LEMMA BackoffReads ==
  ASSUME HandshakeTypeOK, BackoffInv, Observe \/ Look PROVE BackoffInv'
<1>1. CASE Observe
  <2>1. p'.held = {m \in Machines : hold[m] > 0}
    BY <1>1 DEF Observe, NoPass
  <2>2. at' = "label" /\ UNCHANGED <<hold, gateway, refusedFor>>
    BY <1>1 DEF Observe
  <2>3. \A m \in Machines : refusedFor[m] \in Int /\ hold[m] \in Int
    BY HandshakeAssumption DEF HandshakeTypeOK
  <2> QED BY <2>1, <2>2, <2>3 DEF BackoffInv, RefusalCounts, PassKnows, BringUp
<1>2. CASE Look
  <2> DEFINE refused == {m \in Machines : gateway[m] = "refused"}
             sliced  == {m \in Machines : slice[m] # "none"}
  <2>1. \/ p' = [p EXCEPT !.refused = refused, !.sliced = sliced]
        \/ p' = [p EXCEPT !.readable = FALSE, !.sliced = sliced]
    BY <1>2 DEF Look
  <2>2. p \in Pass /\ at = "look" /\ at' = "next" /\ UNCHANGED <<hold, gateway, refusedFor>>
    BY <1>2 DEF Look, HandshakeTypeOK
  <2>3. p'.held = p.held /\ (p'.refused = refused \/ ~p'.readable)
    <3> HIDE DEF refused, sliced
    <3> QED BY <2>1, <2>2 DEF Pass
  <2>4. todo' \subseteq Machines
    BY <1>2, <2>2 DEF Look, Pass
  <2> QED
    BY <2>2, <2>3, <2>4 DEF BackoffInv, RefusalCounts, PassKnows, NoLongerRefused, BringUp
<1> QED BY <1>1, <1>2

\* A machine is only tried again once its refusal no longer counts.
LEMMA TriedAgain ==
  ASSUME HandshakeTypeOK, BackoffInv, NEW m \in Machines, StartPeer(m)
  PROVE  refusedFor[m] = 0
<1>1. at = "next" /\ m \in todo /\ (m \in p.held => NoLongerRefused(m))
  BY DEF StartPeer
<1>2. ~(refusedFor[m] > 0)
  BY <1>1 DEF BackoffInv, PassKnows, BringUp
<1> QED BY <1>2, HandshakeAssumption DEF HandshakeTypeOK

LEMMA BackoffPeers ==
  ASSUME HandshakeTypeOK, BackoffInv,
         (\E m \in Machines : StartPeer(m)) \/ Blocked
  PROVE  BackoffInv'
<1>1. CASE \E m \in Machines : StartPeer(m)
  <2>1. PICK m \in Machines : StartPeer(m)
    BY <1>1
  <2>2. refusedFor[m] = 0
    BY <2>1, TriedAgain
  <2>3. RefusalCounts'
    BY <2>1, <2>2 DEF StartPeer, HandshakeTypeOK, BackoffInv, RefusalCounts
  <2>4. PassKnows'
    BY <2>1 DEF StartPeer, BackoffInv, PassKnows, NoLongerRefused, BringUp
  <2> QED BY <2>3, <2>4 DEF BackoffInv
<1>2. CASE Blocked
  <2>1. /\ at = "peer" /\ at' = "sweep" /\ gateway[who] = "refused"
        /\ UNCHANGED <<gateway, p, who, todo>>
        /\ \A k \in Machines : /\ k # who => refusedFor'[k] = refusedFor[k] /\ hold'[k] = hold[k]
                               /\ k = who => refusedFor'[k] = hold'[k]
    BY <1>2 DEF Blocked, GoTo, HandshakeTypeOK
  <2>2. \A k \in Machines : hold'[k] \in Int
    BY <1>2, HandshakeAssumption, CapTypes DEF Blocked, HandshakeTypeOK, Larger
  <2>3. RefusalCounts'
    BY <2>1, <2>2 DEF BackoffInv, RefusalCounts
  <2>4. PassKnows'
    BY <2>1 DEF HandshakeTypeOK, BackoffInv, PassKnows, NoLongerRefused, BringUp
  <2> QED BY <2>3, <2>4 DEF BackoffInv
<1> QED BY <1>1, <1>2

LEMMA BackoffSweeps ==
  ASSUME HandshakeTypeOK, BackoffInv, FirstSweep \/ Sweep PROVE BackoffInv'
<1>1. \E names : LabelSweep(names)
  BY DEF FirstSweep, Sweep
<1>2. \E pending : p' = [p EXCEPT !.pending = pending]
  BY <1>1 DEF LabelSweep, Label
<1>3. p'.held = p.held /\ p'.refused = p.refused /\ p'.readable = p.readable
  BY <1>2 DEF HandshakeTypeOK, Pass
<1> QED BY <1>3, BackoffSame DEF FirstSweep, Sweep, GoTo, BringUp

LEMMA BackoffHands ==
  ASSUME HandshakeTypeOK, BackoffInv,
         \/ \E m \in Machines : LeaveAlone(m) \/ StartAdvertise(m)
         \/ Peered \/ PeerFails \/ Own \/ Advertise \/ AdvertiseFails
         \/ Advertised \/ SetEndpoint
  PROVE  BackoffInv'
<1>1. CASE \E m \in Machines : LeaveAlone(m) \/ StartAdvertise(m)
  BY <1>1, BackoffSame DEF LeaveAlone, StartAdvertise, BringUp
<1>2. CASE Peered \/ PeerFails
  BY <1>2, BackoffSame DEF Peered, PeerFails, GoTo, BringUp
<1>3. CASE Own
  <2>1. p' = p \/ p' = [p EXCEPT !.peered = @ \cup {who}]
    BY <1>3 DEF Own
  <2>2. p'.held = p.held /\ p'.refused = p.refused /\ p'.readable = p.readable
    BY <2>1 DEF HandshakeTypeOK, Pass
  <2> QED BY <1>3, <2>2, BackoffSame DEF Own, GoTo, BringUp
<1>4. CASE Advertise \/ AdvertiseFails \/ Advertised
  BY <1>4, BackoffSame DEF Advertise, AdvertiseFails, Advertised, GoTo, BringUp
<1>5. CASE SetEndpoint
  BY <1>5, BackoffSame DEF SetEndpoint, GoTo, EndPass, BringUp
<1> QED BY <1>1, <1>2, <1>3, <1>4, <1>5

LEMMA BackoffReaps ==
  ASSUME HandshakeTypeOK, BackoffInv,
         \/ BroughtUp \/ ToOrphans \/ PassDone
         \/ \E m \in Machines : BootTimeout(m) \/ Orphan(m)
  PROVE  BackoffInv'
<1>1. CASE BroughtUp \/ ToOrphans \/ PassDone
  BY <1>1, BackoffSame DEF BroughtUp, ToOrphans, PassDone, EndPass, BringUp
<1>2. ASSUME NEW m \in Machines, BootTimeout(m) PROVE BackoffInv'
  <2>1. at' \notin BringUp
    BY <1>2 DEF BootTimeout, EndPass, BringUp
  <2>2. \A k \in Machines \ {m} : hold'[k] = hold[k]
    BY <1>2 DEF BootTimeout, HandshakeTypeOK
  <2> QED BY <1>2, <2>1, <2>2, BackoffTornDown DEF BootTimeout
<1>3. ASSUME NEW m \in Machines, Orphan(m) PROVE BackoffInv'
  <2>1. CASE TornDown(m) /\ refusedFor' = [refusedFor EXCEPT ![m] = 0]
    BY <1>3, <2>1, BackoffTornDown DEF Orphan, BringUp
  <2>2. CASE UNCHANGED <<hub, refusedFor>>
    BY <1>3, <2>2, BackoffSame DEF Orphan, BringUp
  <2> QED BY <1>3, <2>1, <2>2 DEF Orphan
<1> QED BY <1>1, <1>2, <1>3

LEMMA BackoffNext ==
  ASSUME HandshakeTypeOK, BackoffInv, [Next]_vars PROVE BackoffInv'
<1>1. CASE Loop
  BY <1>1, BackoffReads, BackoffPeers, BackoffSweeps, BackoffHands, BackoffReaps DEF Loop
<1>2. CASE \E m \in Machines : World(m)
  BY <1>2, BackoffWorld
<1>3. CASE Tick
  BY <1>3, BackoffTick
<1>4. CASE Crash
  BY <1>4 DEF Crash, EndPass, All, BackoffInv, RefusalCounts, PassKnows, BringUp
<1>5. CASE UNCHANGED vars
  BY <1>5 DEF vars, BackoffInv, RefusalCounts, PassKnows, NoLongerRefused, BringUp
<1> QED BY <1>1, <1>2, <1>3, <1>4, <1>5 DEF Next

\* Only StartPeer takes up another machine's handshake.
LEMMA OnlyStartPeer ==
  ASSUME HandshakeTypeOK, [Next]_vars, NEW m \in Machines, who # m, who' = m, at' = "peer"
  PROVE  StartPeer(m)
<1>1. ASSUME NEW k \in Machines, World(k) PROVE FALSE
  BY <1>1 DEF World, Rent, Boot, RoomChanges, Schedule, NodeAppears, TenantEnds, Vanish
<1>2. ASSUME Loop PROVE \E k \in Machines : StartPeer(k)
  BY <1>2 DEF Loop, Observe, FirstSweep, Look, LeaveAlone, StartAdvertise, Peered, Blocked,
     PeerFails, Own, Advertise, AdvertiseFails, Advertised, SetEndpoint, Sweep, BroughtUp,
     BootTimeout, Orphan, ToOrphans, PassDone, EndPass, GoTo
<1>3. ~Tick /\ ~Crash /\ ~UNCHANGED vars
  BY DEF Tick, Crash, EndPass, vars
<1>4. PICK k \in Machines : StartPeer(k)
  BY <1>1, <1>2, <1>3 DEF Next
<1> QED BY <1>4 DEF StartPeer

\* A machine whose gateway pod stays refused is left alone for blocked_retry_s,
\* however the passes, the reading of the pods and the scheduler interleave.
THEOREM BackoffKept == Spec => RefusedLeftAlone
<1>1. Init => BackoffInv  BY BackoffInit
<1>2. HandshakeTypeOK /\ BackoffInv /\ [Next]_vars => BackoffInv'  BY BackoffNext
<1>3. HandshakeTypeOK /\ BackoffInv /\ [Next]_vars =>
        [\A m \in Machines : who # m /\ who' = m /\ at' = "peer" => refusedFor[m] = 0]_vars
  BY OnlyStartPeer, TriedAgain
<1> QED BY <1>1, <1>2, <1>3, HandshakeTyped, PTL DEF Spec, RefusedLeftAlone
=============================================================================
