----------------------------- MODULE FleetProofs -----------------------------
(***************************************************************************)
(* What TLAPS proves of the fleet Controller rents, for every number of    *)
(* machines, pools and clouds, whenever the clouds list their machines in  *)
(* full: that no running machine is without credentials, that the fleet    *)
(* stays under its ceiling, and that the loop implements Fleet.  And of    *)
(* its pools: that releasing an idle machine leaves a pool its floor, and  *)
(* that none grows past its own maximum.                                   *)
(***************************************************************************)
EXTENDS ControllerProofs

USE DEF world, memory, where, renting, history

FullInventories == "blind" \notin Events /\ "omit" \notin Events

-----------------------------------------------------------------------------
(* Every machine that runs was listed by this pass or rented in it.        *)

\* The names the pass read anything about on the hub.
Known == {n \in Names : n \in p.peered \cup p.ready \cup p.down
                        \/ p.credentials[n] # Never}

\* The machine being reaped is released before its credentials go, and the one
\* being rented is not running before it has some.
OutOfService ==
  /\ stage \in {"drop_secret", "unmark", "create", "drop_unused"} => target \notin Up
  /\ stage = "create" => target \in Held \ Known

ListedOrNew ==
  /\ rule \in {"observe", "recycle_condemned", "bring_up"} => Up \subseteq p.machines
  /\ rule # "sleep" => (Up \ p.machines) \cap (Known \cup todo) = {}

FleetInv == Up \subseteq Held /\ OutOfService /\ ListedOrNew

LEMMA FleetInvImplies == FleetInv => BoxHasSecret
BY DEF FleetInv, BoxHasSecret, Up, Held

LEMMA FleetInvInit == Init => FleetInv
BY DEF Init, InitOver, InitPass, FleetInv, OutOfService, ListedOrNew, Up, Held

LEMMA NeverIsOld == \A t \in Stamp : Older(t) = Never <=> t = Never
BY TimeAssumption DEF Stamp, Never, Older

\* Nothing changes for the invariant as long as no machine appears, no Secret
\* goes and the pass stays where it is.
LEMMA FleetInvSame ==
  ASSUME FleetInv, Up' \subseteq Up, Held \subseteq Held', Known' = Known,
         p'.machines = p.machines, rule' = rule, todo' \subseteq todo,
         \/ stage' = stage /\ target' = target
         \/ stage' \notin {"drop_secret", "unmark", "create", "drop_unused"}
         \/ stage' \in {"drop_secret", "unmark"} /\ target' \notin Up
  PROVE  FleetInv'
BY DEF FleetInv, OutOfService, ListedOrNew

LEMMA FleetInvEnd ==
  ASSUME FleetInv, EndPass, Up' \subseteq Up, Held' = Held PROVE FleetInv'
BY DEF FleetInv, OutOfService, ListedOrNew, EndPass

LEMMA FleetInvStep ==
  ASSUME FullInventories, TypeOK, PassInv, FleetInv, [Next]_vars
  PROVE  FleetInv'
<1>0. p \in Pass /\ box \in [Names -> Stamp] /\ secret \in [Names -> Stamp]
      /\ Never \in Stamp /\ Horizon \in Stamp /\ Horizon # Never
  BY StampFacts, TimeAssumption DEF TypeOK, Never
<1> USE DEF At, Done, Go, Call, NextMachine
<1>1. CASE Failure
  <2>1. CASE Abort \/ Crash \/ DestroyRaises
    BY <2>1, FleetInvEnd DEF Abort, Crash, DestroyRaises, Up, Held
  <2>2. CASE CreateRaises
    <3>1. Up' \subseteq Up \cup {target} /\ Held' = Held /\ Known' = Known
      BY <1>0, <2>2 DEF CreateRaises, Up, Held, Known
    <3>2. rule = "scale_up" /\ todo = {} /\ stage' = "none" /\ rule' = rule /\ todo' = todo
          /\ p' = p
      BY <2>2 DEF CreateRaises, EndTurn, TypeOK, RentStages, PassInv, TodoOfRule
    <3>3. QED
      BY <2>2, <3>1, <3>2 DEF CreateRaises, FleetInv, OutOfService, ListedOrNew
  <2>3. QED
    BY <1>1, <2>1, <2>2 DEF Failure
<1>2. CASE Observe
  <2>1. CASE ListMachines
    <3>1. p'.machines = Up
      BY <2>1 DEF ListMachines, Listed, FullInventories, NoPass, Up
    <3>2. Up' = Up /\ Held' = Held
      BY <2>1 DEF ListMachines, Listed, Up, Held
    <3>3. stage = "none" /\ stage' = stage /\ rule' = "observe"
      BY <2>1 DEF ListMachines, Listed, TypeOK, ReapingRules, Stages, ReapStages, RentStages
    <3>4. QED
      BY <3>1, <3>2, <3>3 DEF FleetInv, OutOfService, ListedOrNew
  <2>2. CASE ReadHub
    <3>1. Up' = Up /\ Held' = Held /\ p'.machines = p.machines
      BY <1>0, <2>2 DEF ReadHub, Peerings, VirtualNodes, MachineCredentials, Up, Held, Pass
    <3>2. stage' = stage /\ stage \notin {"drop_secret", "unmark", "create", "drop_unused"}
      BY <2>2 DEF ReadHub, Peerings, VirtualNodes, MachineCredentials, TypeOK,
                    ReapingRules, ReapStages, RentStages
    <3>3. QED
      BY <2>2, <3>1, <3>2 DEF ReadHub, Peerings, VirtualNodes, MachineCredentials,
                               FleetInv, OutOfService, ListedOrNew
  <2>3. QED
    BY <1>2, <2>1, <2>2 DEF Observe
<1>3. CASE NextRule
  <2>1. CASE FinishPass
    BY <2>1, FleetInvEnd DEF FinishPass, Up, Held
  <2>2. ASSUME NextRule, ~FinishPass
        PROVE  /\ rule' \notin {"sleep", "observe", "recycle_condemned"}
               /\ rule' = "bring_up" => rule = "recycle_condemned"
               /\ rule # "sleep" /\ stage' = "none" /\ p' = p
               /\ Up' = Up /\ Held' = Held /\ Known' = Known
               /\ todo' \subseteq p.machines \cup Known
    BY <1>0, <2>2
    DEF NextRule, StartBringUp, StartScaleUp, StartScaleDown, StartReapDead,
        StartReapBootTimeouts, StartReapOrphans, NotJoined, Orphans, Up, Held, Known,
        Pass
  <2>3. QED
    BY <1>3, <2>1, <2>2 DEF FleetInv, OutOfService, ListedOrNew
<1>4. CASE Reap
  <2>0. target \in Names /\ target \in todo /\ rule # "sleep"
    BY <1>4 DEF Reap, Teardown, Destroy, DropSecret, Unmark, TypeOK, PassInv, InHand,
      ReapStages, ReapingRules
  <2>1. CASE Teardown
    <3>1. Up' = Up /\ Held' = Held /\ Known' = Known
      BY <2>1 DEF Teardown, Up, Held, Known
    <3>2. stage' = "drop_secret" => target' \notin Up
      BY <2>0, <2>1 DEF Teardown, AfterTeardown, FleetInv, ListedOrNew
    <3>3. QED
      BY <2>1, <3>1, <3>2, FleetInvSame DEF Teardown, AfterTeardown
  <2>2. CASE Destroy
    <3>1. Up' = Up \ {target} /\ Held' = Held /\ Known' = Known
      BY <1>0, <2>2 DEF Destroy, Up, Held, Known
    <3>2. QED
      BY <2>2, <3>1 DEF Destroy, FleetInv, OutOfService, ListedOrNew
  <2>3. CASE DropSecret
    <3>1. Up' = Up /\ Held' = Held \ {target} /\ Known' = Known
      BY <1>0, <2>3 DEF DropSecret, Up, Held, Known
    <3>2. CASE rule = "recycle_condemned"
      BY <2>3, <3>1, <3>2 DEF DropSecret, FleetInv, OutOfService, ListedOrNew
    <3>3. CASE rule # "recycle_condemned"
      BY <2>3, <3>1, <3>3 DEF DropSecret, FleetInv, OutOfService, ListedOrNew
    <3>4. QED
      BY <3>2, <3>3
  <2>4. CASE Unmark
    <3>1. p'.machines = p.machines \ {target} /\ p'.credentials = p.credentials
          /\ p'.ready \subseteq p.ready /\ p'.down \subseteq p.down /\ p'.peered = p.peered
      BY <1>0, <2>4 DEF Unmark, Popped, Pass
    <3>2. Up' = Up /\ Held' = Held /\ Known' \subseteq Known
      BY <2>4, <3>1 DEF Unmark, Up, Held, Known
    <3>3. rule = "recycle_condemned" /\ target \notin Up
      BY <2>4 DEF Unmark, PassInv, InHand, FleetInv, OutOfService
    <3>4. QED
      BY <2>4, <3>1, <3>2, <3>3 DEF Unmark, FleetInv, OutOfService, ListedOrNew
  <2>5. QED
    BY <1>4, <2>1, <2>2, <2>3, <2>4 DEF Reap
<1>5. CASE Rent
  <2>0. rule = "scale_up" /\ todo = {} /\ rule' = rule /\ todo' = todo /\ p' = p
    BY <1>5 DEF Rent, SizePool, StartSlot, NoOffer, Create, NoCapacity, DropUnused,
      PassOver, WriteCredentials, TypeOK, RentStages, PassInv, TodoOfRule
  <2>1. CASE SizePool \/ StartSlot \/ NoOffer \/ \E d \in Providers : PassOver(d)
    <3>1. Up' = Up /\ Held' = Held /\ Known' = Known
      BY <2>1 DEF SizePool, StartSlot, NoOffer, PassOver, Up, Held, Known
    <3>2. stage' \in {"none", "offer"}
      BY <2>1 DEF SizePool, StartSlot, NoOffer, EndTurn, PassOver
    <3>3. QED
      BY <2>0, <3>1, <3>2, FleetInvSame
  <2>2. CASE Create
    <3>1. Up' \subseteq Up \cup {target} /\ Held' = Held /\ Known' = Known
      BY <1>0, <2>2 DEF Create, Up, Held, Known
    <3>2. QED
      BY <2>0, <2>2, <3>1 DEF Create, FleetInv, OutOfService, ListedOrNew
  <2>3. CASE NoCapacity
    <3>1. Up' = Up /\ Held' = Held /\ Known' = Known
      BY <2>3 DEF NoCapacity, Up, Held, Known
    <3>2. QED
      BY <2>0, <2>3, <3>1 DEF NoCapacity, FleetInv, OutOfService, ListedOrNew
  <2>4. CASE DropUnused
    <3>1. target \in Names
      BY <2>4 DEF DropUnused, TypeOK
    <3>2. Up' = Up /\ Held \ {target} \subseteq Held' /\ Known' = Known
      BY <1>0, <2>4, <3>1 DEF DropUnused, Up, Held, Known
    <3>3. target \notin Up /\ stage' \in {"none", "offer"}
      BY <2>4 DEF DropUnused, EndTurn, FleetInv, OutOfService
    <3>4. QED
      BY <2>0, <3>2, <3>3 DEF FleetInv, OutOfService, ListedOrNew
  <2>5. ASSUME NEW d \in Providers, NEW n \in Names, WriteCredentials(d, n)
        PROVE  FleetInv'
    <3>1. Up' = Up /\ Held \subseteq Held' /\ Known' = Known
      BY <1>0, <2>5 DEF WriteCredentials, Up, Held, Known
    <3>2. n \notin Up /\ n \notin Known
      BY <2>5 DEF WriteCredentials, Fresh, Up, Known
    <3>3. stage' = "none" \/ (stage' = "create" /\ target' = n /\ n \in Held')
      BY <1>0, <2>5 DEF WriteCredentials, EndTurn, Held
    <3>4. QED
      BY <2>0, <3>1, <3>2, <3>3 DEF FleetInv, OutOfService, ListedOrNew
  <2>6. QED
    BY <1>5, <2>1, <2>2, <2>3, <2>4, <2>5 DEF Rent
<1>6. CASE Look
  <2>1. ASSUME NEW n \in Names, BringUp(n) PROVE FleetInv'
    <3>1. Up' = Up /\ Held' = Held /\ p'.machines = p.machines /\ stage' = "none"
      BY <1>0, <2>1 DEF BringUp, Skip, Peer, Slice, Becomes, Up, Held, Pass
    <3>2. QED
      BY <2>1, <3>1 DEF BringUp, FleetInv, OutOfService, ListedOrNew
  <2>2. ASSUME NEW n \in Names,
               \/ Recycle(n) \/ ScaleDown(n) \/ ReapListed(n) \/ OrphanPeering(n)
        PROVE  FleetInv'
    <3>1. /\ Up' = Up /\ Held' = Held /\ Known' = Known /\ rule' = rule /\ p' = p
          /\ stage' \in {"none", "teardown"} /\ todo' \subseteq todo
      BY <2>2 DEF Recycle, ScaleDown, ReapListed, OrphanPeering, Up, Held, Known
    <3>2. QED
      BY <3>1, FleetInvSame
  <2>3. ASSUME NEW n \in Names, OrphanCredentials(n) PROVE FleetInv'
    <3>1. n \notin Up
      BY <2>3 DEF OrphanCredentials, PassInv, TodoOfRule, FleetInv, ListedOrNew
    <3>2. /\ Up' = Up /\ Held' = Held /\ Known' = Known /\ rule' = rule /\ p' = p
          /\ todo' \subseteq todo
          /\ stage' = "none" \/ (stage' = "drop_secret" /\ target' = n)
      BY <2>3 DEF OrphanCredentials, Up, Held, Known
    <3>3. QED
      BY <3>1, <3>2, FleetInvSame
  <2>4. ASSUME NEW q \in Buckets, LeavePool(q) PROVE FleetInv'
    BY <2>4, FleetInvSame DEF LeavePool, InPool, Up, Held, Known
  <2>5. QED
    BY <1>6, <2>1, <2>2, <2>3, <2>4 DEF Look
<1>7. CASE Environment
  <2>1. Up' \subseteq Up /\ Held' = Held
    BY <1>0, <1>7
    DEF Environment, NodeAppears, NodeDown, NodeUp, PodBinds, PodEnds, Vanish, Condemn,
        DemandChanges, Up, Held
  <2>2. QED
    BY <1>7, <2>1, FleetInvSame DEF Environment, LoopUnchanged, Known
<1>8. CASE Tick
  <2>1. Up' = Up /\ Held' = Held
    BY <1>0, <1>8, NeverIsOld DEF Tick, Aged, Up, Held
  <2>2. \A n \in Names : p'.credentials[n] = Never <=> p.credentials[n] = Never
    BY <1>0, <1>8, NeverIsOld DEF Tick, Aged, Pass
  <2>3. /\ p'.machines = p.machines /\ p'.peered = p.peered /\ p'.ready = p.ready
        /\ p'.down = p.down
    BY <1>0, <1>8 DEF Tick, Pass
  <2>4. QED
    BY <1>8, <2>1, <2>2, <2>3, FleetInvSame DEF Tick, Known
<1>9. CASE UNCHANGED vars
  BY <1>9, FleetInvSame DEF vars, Up, Held, Known
<1>10. QED
  BY <1>1, <1>2, <1>3, <1>4, <1>5, <1>6, <1>7, <1>8, <1>9 DEF Next, Loop

\* As long as the clouds list their machines in full, no machine runs without
\* the credentials that reach it: not when create() raises after having created
\* one, not when a call fails or the operator dies half way through a teardown.
THEOREM CredentialsBeforeMachine ==
  ASSUME FullInventories PROVE Spec => []BoxHasSecret
<1>1. Init => TypeOK /\ PassInv /\ FleetInv
  BY InitType, PassInvInit, FleetInvInit
<1>2. TypeOK /\ PassInv /\ FleetInv /\ [Next]_vars => (TypeOK /\ PassInv /\ FleetInv)'
  BY StepType, PassInvStep, FleetInvStep
<1>3. FleetInv => BoxHasSecret
  BY FleetInvImplies
<1>4. QED
  BY <1>1, <1>2, <1>3, PTL DEF Spec

-----------------------------------------------------------------------------
(* The fleet stays under its ceiling.                                      *)

\* What the pass counts, its own machines included, bounds what runs; what it
\* has still to rent fits under the ceiling.
CeilingInv ==
  /\ CeilingHeld
  /\ rule # "sleep" => Cardinality(Up \ p.machines) <= rented
  /\ FleetMax > 0 /\ wanted > 0 =>
       Cardinality(p.machines) + rented + wanted <= FleetMax

LEMMA FewerUp ==
  ASSUME NEW S \in SUBSET Names, NEW T \in SUBSET S
  PROVE  Cardinality(T) \in Nat /\ Cardinality(S) \in Nat
         /\ Cardinality(T) <= Cardinality(S)
BY NamesFinite, FS_Subset

\* A machine more is at most one more to count.
LEMMA OneMoreUp ==
  ASSUME NEW S \in SUBSET Names, NEW n \in Names, NEW T \in SUBSET (S \cup {n})
  PROVE  Cardinality(T) \in Nat /\ Cardinality(S) \in Nat
         /\ Cardinality(T) <= Cardinality(S) + 1
<1>1. IsFiniteSet(S) /\ Cardinality(S) \in Nat
  BY NamesFinite
<1>2. Cardinality(S \cup {n}) <= Cardinality(S) + 1 /\ Cardinality(S \cup {n}) \in Nat
  <2>1. Cardinality(S \cup {n}) = IF n \in S THEN Cardinality(S) ELSE Cardinality(S) + 1
    BY <1>1, FS_AddElement, Zenon
  <2>2. Cardinality(S) <= Cardinality(S) + 1 /\ Cardinality(S) + 1 \in Nat
    BY <1>1
  <2> QED
    BY <1>1, <2>1, <2>2
<1>3. S \cup {n} \in SUBSET Names
  OBVIOUS
<1>4. Cardinality(T) \in Nat /\ Cardinality(T) <= Cardinality(S \cup {n})
  BY <1>3, FewerUp
<1>5. QED
  BY <1>1, <1>2, <1>4

\* A fleet is what of it was listed and what was not.
LEMMA SplitCount ==
  ASSUME NEW S \in SUBSET Names, NEW T \in SUBSET Names
  PROVE  /\ Cardinality(S) \in Nat /\ Cardinality(T) \in Nat
         /\ Cardinality(T \ S) \in Nat
         /\ Cardinality(T) <= Cardinality(S) + Cardinality(T \ S)
<1> DEFINE U == S \cup (T \ S)
<1>1. IsFiniteSet(S) /\ IsFiniteSet(T \ S) /\ T \ S \in SUBSET Names
  BY NamesFinite
<1>2. Cardinality(U) = Cardinality(S) + Cardinality(T \ S) - Cardinality(S \cap (T \ S))
  BY <1>1, FS_Union
<1>3. S \cap (T \ S) = {}
  OBVIOUS
<1>4. Cardinality(S \cap (T \ S)) = 0
  BY <1>3, FS_EmptySet
<1>5. U \in SUBSET Names /\ T \in SUBSET U
  OBVIOUS
<1>6. Cardinality(T) \in Nat /\ Cardinality(T) <= Cardinality(U)
  BY <1>5, FewerUp
<1>7. Cardinality(S) \in Nat /\ Cardinality(T \ S) \in Nat
  BY <1>1, NamesFinite
<1> HIDE DEF U
<1>8. QED
  BY <1>2, <1>4, <1>6, <1>7

LEMMA UpSplit ==
  ASSUME p \in Pass
  PROVE  /\ Cardinality(Up \ p.machines) \in Nat /\ Cardinality(p.machines) \in Nat
         /\ Cardinality(Up) \in Nat
         /\ Cardinality(Up) <= Cardinality(p.machines) + Cardinality(Up \ p.machines)
BY SplitCount DEF Pass, Up

LEMMA CeilingInvInit == Init => CeilingInv
<1> SUFFICES ASSUME Init PROVE CeilingInv
  OBVIOUS
<1>1. Up = {}
  BY DEF Init, InitOver, Up
<1>2. QED
  BY <1>1, FS_EmptySet, PoolsAssumption DEF Init, InitOver, InitPass, CeilingInv, CeilingHeld

\* Machines that go, and counts that stay, leave the ceiling alone.
LEMMA CeilingInvSame ==
  ASSUME CeilingInv, TypeOK, Up' \subseteq Up,
         Up' \ p'.machines \subseteq Up \ p.machines,
         rule # "sleep" \/ rule' = "sleep", rented' = rented,
         wanted' = 0 \/ (wanted' = wanted /\ p'.machines = p.machines)
  PROVE  CeilingInv'
<1>1. Up \in SUBSET Names /\ Up \ p.machines \in SUBSET Names
  BY DEF Up
<1>2. Cardinality(Up') \in Nat /\ Cardinality(Up) \in Nat
      /\ Cardinality(Up') <= Cardinality(Up)
  BY <1>1, FewerUp
<1>3. /\ Cardinality(Up' \ p'.machines) \in Nat /\ Cardinality(Up \ p.machines) \in Nat
      /\ Cardinality(Up' \ p'.machines) <= Cardinality(Up \ p.machines)
  BY <1>1, FewerUp
<1>4. rented \in Nat /\ FleetMax \in Nat
  BY PoolsAssumption DEF TypeOK
<1>5. CeilingHeld'
  BY <1>2, <1>4 DEF CeilingInv, CeilingHeld
<1>6. rule' # "sleep" => Cardinality(Up' \ p'.machines) <= rented'
  BY <1>3, <1>4 DEF CeilingInv
<1>7. QED
  BY <1>5, <1>6 DEF CeilingInv

LEMMA CeilingInvEnd ==
  ASSUME CeilingInv, TypeOK, EndPass, Up' = Up PROVE CeilingInv'
BY DEF CeilingInv, CeilingHeld, EndPass

LEMMA CeilingInvStep ==
  ASSUME FullInventories, "ambiguous" \notin Events,
         TypeOK, PassInv, FleetInv, CeilingInv, [Next]_vars
  PROVE  CeilingInv'
<1>0. /\ p \in Pass /\ box \in [Names -> Stamp] /\ rented \in Nat /\ wanted \in Nat
      /\ FleetMax \in Nat /\ Up \in SUBSET Names
  BY PoolsAssumption DEF TypeOK, Up
<1> USE DEF At, Done, Go, Call, NextMachine
<1>1. CASE Failure
  <2>1. CASE Abort \/ Crash \/ DestroyRaises
    <3>1. EndPass /\ Up' = Up
      BY <2>1 DEF Abort, Crash, DestroyRaises, Up
    <3>2. QED
      BY <3>1, CeilingInvEnd
  <2>2. ~CreateRaises
    BY DEF CreateRaises
  <2>3. QED
    BY <1>1, <2>1, <2>2 DEF Failure
<1>2. CASE Observe
  <2>1. CASE ListMachines
    <3>1. p'.machines = Up /\ Up' = Up /\ rented' = rented
      BY <2>1 DEF ListMachines, Listed, FullInventories, NoPass, Up
    <3>2. wanted' = wanted /\ wanted = 0
      BY <1>0, <2>1 DEF ListMachines, Listed, TypeOK
    <3>3. Up' \ p'.machines = {} /\ Cardinality({}) = 0
      BY <3>1, FS_EmptySet
    <3>4. QED
      BY <1>0, <3>1, <3>2, <3>3 DEF CeilingInv, CeilingHeld
  <2>2. CASE ReadHub
    <3>1. Up' = Up /\ p'.machines = p.machines
      BY <1>0, <2>2 DEF ReadHub, Peerings, VirtualNodes, MachineCredentials, Up, Pass
    <3>2. QED
      BY <2>2, <3>1, CeilingInvSame DEF ReadHub, Peerings, VirtualNodes, MachineCredentials
  <2>3. QED
    BY <1>2, <2>1, <2>2 DEF Observe
<1>3. CASE NextRule
  <2>1. CASE FinishPass
    BY <2>1, CeilingInvEnd DEF FinishPass, Up
  <2>2. ASSUME NextRule, ~FinishPass
        PROVE  Up' = Up /\ p' = p /\ rule # "sleep" /\ rented' = rented /\ wanted' = wanted
    BY <2>2 DEF NextRule, StartBringUp, StartScaleUp, StartScaleDown, StartReapDead,
       StartReapBootTimeouts, StartReapOrphans, Up
  <2>3. QED
    BY <1>3, <2>1, <2>2, CeilingInvSame
<1>4. CASE Reap
  <2>0. target \in Names /\ rule # "sleep"
    BY <1>4 DEF Reap, Teardown, Destroy, DropSecret, Unmark, TypeOK, ReapStages, ReapingRules
  <2>1. CASE Teardown \/ DropSecret
    BY <2>0, <2>1, CeilingInvSame DEF Teardown, DropSecret, Up
  <2>2. CASE Destroy
    <3>1. Up' = Up \ {target}
      BY <1>0, <2>0, <2>2 DEF Destroy, Up
    <3>2. QED
      BY <2>0, <2>2, <3>1, CeilingInvSame DEF Destroy
  <2>3. CASE Unmark
    <3>1. Up' = Up /\ p'.machines = p.machines \ {target}
      BY <1>0, <2>3 DEF Unmark, Popped, Up, Pass
    <3>2. target \notin Up /\ rented' = rented /\ wanted' = 0
      BY <1>0, <2>3 DEF Unmark, FleetInv, OutOfService, PassInv, InHand, TypeOK
    <3>3. QED
      BY <2>0, <3>1, <3>2, CeilingInvSame
  <2>4. QED
    BY <1>4, <2>1, <2>2, <2>3 DEF Reap
<1>5. CASE Rent
  <2>0. rule = "scale_up" /\ rule' = rule /\ p' = p
    BY <1>5 DEF Rent, SizePool, StartSlot, NoOffer, Create, NoCapacity, DropUnused,
      PassOver, WriteCredentials, TypeOK, RentStages
  <2>1. CASE SizePool
    <3>1. PICK bins \in Nat : wanted' = ToRent(PoolAt(turn), bins)
      BY <2>1, PoolsAssumption DEF SizePool
    <3>2. PoolAt(turn) \in Pools
      BY <2>1, PoolsAssumption, PoolAtType DEF SizePool, TypeOK
    <3>3. InPool(p.machines, PoolAt(turn)) \in SUBSET Names /\ p.machines \in SUBSET Names
      BY <1>0 DEF InPool, Pass
    <3>4. Cardinality(InPool(p.machines, PoolAt(turn))) \in Nat
          /\ Cardinality(p.machines) \in Nat
      BY <3>3, NamesFinite
    <3>5. MinOf(PoolAt(turn)) \in Nat /\ PoolMax[PoolAt(turn)] \in Nat
      BY <3>2, PoolsAssumption DEF MinOf
    <3>6. FleetMax > 0 /\ wanted' > 0 =>
            Cardinality(p.machines) + rented + wanted' <= FleetMax
      BY <1>0, <3>1, <3>4, <3>5 DEF ToRent, Capped, Lesser, Greater, FleetSize
    <3>7. Up' = Up /\ rented' = rented /\ rule' = rule
      BY <2>1 DEF SizePool, Up
    <3>8. QED
      BY <2>0, <3>6, <3>7 DEF CeilingInv, CeilingHeld
  <2>2. CASE Create
    <3>1. target \in Names /\ target \notin Up /\ wanted > 0
      BY <2>2 DEF Create, TypeOK, RentStages, FleetInv, OutOfService
    <3>2. Up' \in SUBSET (Up \cup {target})
          /\ Up' \ p.machines \in SUBSET ((Up \ p.machines) \cup {target})
      BY <1>0, <2>2 DEF Create, Up
    <3>3. /\ Cardinality(Up') \in Nat /\ Cardinality(Up) \in Nat
          /\ Cardinality(Up') <= Cardinality(Up) + 1
      BY <1>0, <3>1, <3>2, OneMoreUp
    <3>4. Up \ p.machines \in SUBSET Names
      BY <1>0
    <3>5. /\ Cardinality(Up' \ p.machines) \in Nat
          /\ Cardinality(Up' \ p.machines) <= Cardinality(Up \ p.machines) + 1
      BY <3>1, <3>2, <3>4, OneMoreUp
    <3>6. wanted' = wanted - 1 /\ rented' = rented + 1
      BY <2>2 DEF Create
    <3>7. Cardinality(Up \ p.machines) <= rented
      BY <2>0 DEF CeilingInv
    <3>8. FleetMax > 0 => Cardinality(Up) + wanted <= FleetMax
      BY <1>0, <3>1, <3>7, UpSplit DEF CeilingInv
    <3>9. FleetMax > 0 => Cardinality(Up') <= FleetMax
      BY <1>0, <3>1, <3>3, <3>8
    <3>10. Cardinality(Up' \ p'.machines) <= rented'
      BY <1>0, <2>0, <3>5, <3>6, <3>7, UpSplit
    <3>11. FleetMax > 0 /\ wanted' > 0 =>
             Cardinality(p'.machines) + rented' + wanted' <= FleetMax
      BY <1>0, <2>0, <3>1, <3>6, UpSplit DEF CeilingInv
    <3>12. QED
      BY <3>9, <3>10, <3>11 DEF CeilingInv, CeilingHeld
  <2>3. CASE StartSlot \/ NoOffer \/ NoCapacity \/ \E d \in Providers : PassOver(d)
    BY <2>0, <2>3, CeilingInvSame
    DEF StartSlot, NoOffer, NoCapacity, EndTurn, PassOver, Up
  <2>4. CASE DropUnused
    BY <2>0, <2>4, CeilingInvSame DEF DropUnused, EndTurn, Up
  <2>5. CASE \E d \in Providers, n \in Names : WriteCredentials(d, n)
    BY <2>0, <2>5, CeilingInvSame DEF WriteCredentials, EndTurn, Up
  <2>6. QED
    BY <1>5, <2>1, <2>2, <2>3, <2>4, <2>5 DEF Rent
<1>6. CASE Look
  <2>1. rule # "sleep" /\ rule' = rule /\ Up' = Up /\ rented' = rented /\ wanted' = wanted
    BY <1>6 DEF Look, Recycle, BringUp, ScaleDown, ReapListed, OrphanPeering,
       OrphanCredentials, LeavePool, Up
  <2>2. p'.machines = p.machines
    BY <1>0, <1>6 DEF Look, Recycle, BringUp, Skip, Peer, Slice, Becomes, ScaleDown,
       ReapListed, OrphanPeering, OrphanCredentials, LeavePool, Pass
  <2>3. QED
    BY <2>1, <2>2, CeilingInvSame
<1>7. CASE Environment
  <2>1. Up' \subseteq Up
    BY <1>0, <1>7
    DEF Environment, NodeAppears, NodeDown, NodeUp, PodBinds, PodEnds, Vanish, Condemn,
        DemandChanges, Up
  <2>2. QED
    BY <1>7, <2>1, CeilingInvSame DEF Environment, LoopUnchanged
<1>8. CASE Tick
  <2>1. Up' = Up
    BY <1>0, <1>8, NeverIsOld DEF Tick, Aged, Up
  <2>2. p'.machines = p.machines /\ rule' = rule /\ rented' = rented /\ wanted' = wanted
    BY <1>0, <1>8 DEF Tick, Pass
  <2>3. QED
    BY <2>1, <2>2, CeilingInvSame
<1>9. CASE UNCHANGED vars
  BY <1>9, CeilingInvSame DEF vars, Up
<1>10. QED
  BY <1>1, <1>2, <1>3, <1>4, <1>5, <1>6, <1>7, <1>8, <1>9 DEF Next, Loop

\* As long as the clouds list their machines in full and a create() that raises
\* has created nothing, the fleet never outgrows scale.max_machines, whatever
\* pools rent in a pass and wherever a pass breaks off.
THEOREM FleetUnderCeiling ==
  ASSUME FullInventories, "ambiguous" \notin Events PROVE Spec => []CeilingHeld
<1>1. Init => TypeOK /\ PassInv /\ FleetInv /\ CeilingInv
  BY InitType, PassInvInit, FleetInvInit, CeilingInvInit
<1>2. TypeOK /\ PassInv /\ FleetInv /\ CeilingInv /\ [Next]_vars
        => (TypeOK /\ PassInv /\ FleetInv /\ CeilingInv)'
  BY StepType, PassInvStep, FleetInvStep, CeilingInvStep
<1>3. CeilingInv => CeilingHeld
  BY DEF CeilingInv
<1>4. QED
  BY <1>1, <1>2, <1>3, PTL DEF Spec

-----------------------------------------------------------------------------
(* The loop implements Fleet: what is shown of the states above makes each *)
(* of its steps, seen through Held and Up, a step of Fleet.                *)

\* A step of Fleet, or none.
FleetStep == [Promised!FleetNext]_(Promised!fleet)

USE DEF Promised!fleet

LEMMA NoStep == Up' = Up /\ Held' = Held => FleetStep
BY DEF FleetStep

LEMMA Stays == box' = box /\ secret' = secret => FleetStep
BY NoStep DEF Up, Held

LEMMA LeaveStep ==
  ASSUME NEW n \in Names, Up' \in {Up, Up \ {n}}, Held' = Held PROVE FleetStep
<1>1. CASE Up' = Up
  BY <1>1, NoStep
<1>2. CASE Up' # Up
  <2>1. Promised!Leave(n)
    BY <1>2 DEF Promised!Leave
  <2>2. QED
    BY <2>1 DEF FleetStep, Promised!FleetNext
<1>3. QED
  BY <1>1, <1>2

LEMMA ForgetStep ==
  ASSUME NEW n \in Names, n \notin Up, Up' = Up, Held' \in {Held, Held \ {n}}
  PROVE  FleetStep
<1>1. CASE Held' = Held
  BY <1>1, NoStep
<1>2. CASE Held' # Held
  <2>1. Promised!Forget(n)
    BY <1>2 DEF Promised!Forget
  <2>2. QED
    BY <2>1 DEF FleetStep, Promised!FleetNext
<1>3. QED
  BY <1>1, <1>2

LEMMA ReserveStep ==
  ASSUME NEW n \in Names, n \notin Up, Up' = Up,
         Held' = Held \/ (n \notin Held /\ Held' = Held \cup {n})
  PROVE  FleetStep
<1>1. CASE Held' = Held
  BY <1>1, NoStep
<1>2. CASE Held' # Held
  <2>1. Promised!Reserve(n)
    BY <1>2 DEF Promised!Reserve
  <2>2. QED
    BY <2>1 DEF FleetStep, Promised!FleetNext
<1>3. QED
  BY <1>1, <1>2

\* Fleet counts as Controller does.
LEMMA SameCount == \A S : Promised!Cardinality(S) = Cardinality(S)
BY DEF Promised!Cardinality, Cardinality

LEMMA RentStep ==
  ASSUME NEW n \in Names, n \in Held \ Up, Held' = Held, Up' \in {Up, Up \cup {n}},
         "ambiguous" \notin Events /\ FleetMax > 0 => Cardinality(Up) < FleetMax
  PROVE  FleetStep
<1>1. CASE Up' = Up
  BY <1>1, NoStep
<1>2. CASE Up' # Up
  <2>1. Promised!RentMachine(n)
    BY <1>2, SameCount DEF Promised!RentMachine
  <2>2. QED
    BY <2>1 DEF FleetStep, Promised!FleetNext
<1>3. QED
  BY <1>1, <1>2

\* While it rents, the pass is under the fleet's ceiling with one to spare.
LEMMA RoomForOne ==
  ASSUME TypeOK, CeilingInv, rule = "scale_up", wanted > 0, FleetMax > 0
  PROVE  Cardinality(Up) < FleetMax
<1>1. p \in Pass /\ rented \in Nat /\ wanted \in Nat /\ FleetMax \in Nat
  BY PoolsAssumption DEF TypeOK
<1>2. Cardinality(Up \ p.machines) <= rented
  BY DEF CeilingInv
<1>3. Cardinality(p.machines) + rented + wanted <= FleetMax
  BY DEF CeilingInv
<1>4. QED
  BY <1>1, <1>2, <1>3, UpSplit

\* Every step of the loop, its failures and its world is a step of Fleet.
LEMMA LoopStep ==
  ASSUME TypeOK, PassInv, FleetInv, "ambiguous" \notin Events => CeilingInv, [Next]_vars
  PROVE  FleetStep
<1>0. p \in Pass /\ box \in [Names -> Stamp] /\ secret \in [Names -> Stamp]
      /\ Never \in Stamp /\ Horizon \in Stamp /\ Horizon # Never
  BY StampFacts, TimeAssumption DEF TypeOK, Never
<1> USE DEF Call
<1>1. CASE Failure
  <2>1. CASE Abort \/ Crash \/ DestroyRaises
    BY <2>1, Stays DEF Abort, Crash, DestroyRaises
  <2>2. CASE CreateRaises
    <3>1. target \in Names /\ target \in Held \ Up /\ "ambiguous" \in Events
      BY <2>2 DEF CreateRaises, TypeOK, FleetInv, OutOfService
    <3>2. Up' \in {Up, Up \cup {target}} /\ Held' = Held
      BY <1>0, <2>2, <3>1 DEF CreateRaises, Up, Held
    <3>3. QED
      BY <3>1, <3>2, RentStep
  <2>3. QED
    BY <1>1, <2>1, <2>2 DEF Failure
<1>2. CASE Observe
  BY <1>2, Stays DEF Observe, ListMachines, ReadHub
<1>3. CASE NextRule
  BY <1>3, Stays DEF NextRule, StartBringUp, StartScaleUp, StartScaleDown, StartReapDead,
       StartReapBootTimeouts, StartReapOrphans, FinishPass, Go
<1>4. CASE Reap
  <2>0. target \in Names
    BY <1>4 DEF Reap, Teardown, Destroy, DropSecret, Unmark, TypeOK, ReapStages
  <2>1. CASE Teardown \/ Unmark
    BY <2>1, Stays DEF Teardown, Unmark
  <2>2. CASE Destroy
    <3>1. Up' = Up \ {target} /\ Held' = Held
      BY <1>0, <2>2 DEF Destroy, Up, Held
    <3>2. QED
      BY <2>0, <3>1, LeaveStep
  <2>3. CASE DropSecret
    <3>1. Up' = Up /\ Held' = Held \ {target} /\ target \notin Up
      BY <1>0, <2>3 DEF DropSecret, Up, Held, FleetInv, OutOfService
    <3>2. QED
      BY <2>0, <3>1, ForgetStep
  <2>4. QED
    BY <1>4, <2>1, <2>2, <2>3 DEF Reap
<1>5. CASE Rent
  <2>1. CASE SizePool \/ StartSlot \/ NoOffer \/ NoCapacity \/ \E d \in Providers : PassOver(d)
    BY <2>1, Stays DEF SizePool, StartSlot, NoOffer, NoCapacity, PassOver
  <2>2. CASE Create
    <3>1. target \in Names /\ target \in Held \ Up /\ rule = "scale_up" /\ wanted > 0
      BY <2>2 DEF Create, TypeOK, RentStages, FleetInv, OutOfService
    <3>2. Up' = Up \cup {target} /\ Held' = Held
      BY <1>0, <2>2, <3>1 DEF Create, Up, Held
    <3>3. QED
      BY <3>1, <3>2, RentStep, RoomForOne
  <2>3. CASE DropUnused
    <3>1. target \in Names /\ target \notin Up
      BY <2>3 DEF DropUnused, TypeOK, FleetInv, OutOfService
    <3>2. Up' = Up /\ Held' \in {Held, Held \ {target}}
      BY <1>0, <2>3, <3>1 DEF DropUnused, Up, Held
    <3>3. QED
      BY <3>1, <3>2, ForgetStep
  <2>4. ASSUME NEW d \in Providers, NEW n \in Names, WriteCredentials(d, n)
        PROVE  FleetStep
    <3>1. n \notin Up /\ n \notin Held
      BY <2>4 DEF WriteCredentials, Fresh, Up, Held
    <3>2. Up' = Up /\ (Held' = Held \/ Held' = Held \cup {n})
      BY <1>0, <2>4 DEF WriteCredentials, Up, Held
    <3>3. QED
      BY <3>1, <3>2, ReserveStep
  <2>5. QED
    BY <1>5, <2>1, <2>2, <2>3, <2>4 DEF Rent
<1>6. CASE Look
  BY <1>6, Stays DEF Look, Recycle, BringUp, ScaleDown, ReapListed, OrphanPeering,
       OrphanCredentials, LeavePool
<1>7. CASE Environment
  <2>1. ASSUME NEW n \in Names, Vanish(n), LoopUnchanged PROVE FleetStep
    <3>1. Up' = Up \ {n} /\ Held' = Held
      BY <1>0, <2>1 DEF Vanish, Up, Held
    <3>2. QED
      BY <3>1, LeaveStep
  <2>2. QED
    BY <1>7, <2>1, Stays DEF Environment, NodeAppears, NodeDown, NodeUp, PodBinds, PodEnds,
         Condemn, DemandChanges
<1>8. CASE Tick
  <2>1. Up' = Up /\ Held' = Held
    BY <1>0, <1>8, NeverIsOld DEF Tick, Aged, Up, Held
  <2>2. QED
    BY <2>1, NoStep
<1>9. CASE UNCHANGED vars
  BY <1>9, Stays DEF vars
<1>10. QED
  BY <1>1, <1>2, <1>3, <1>4, <1>5, <1>6, <1>7, <1>8, <1>9 DEF Next, Loop

\* As long as the clouds list their machines in full, the loop implements Fleet:
\* whatever raises, dies or goes on around it, it rents a machine only under a
\* name whose credentials it has written, gives credentials up only after their
\* machine, and unless create() may raise after creating, rents only under
\* scale.max_machines.
THEOREM LoopImplementsFleet == ASSUME FullInventories PROVE Spec => KeepsFleet
<1>1. CASE "ambiguous" \notin Events
  <2>1. Init => TypeOK /\ PassInv /\ FleetInv /\ CeilingInv /\ Promised!FleetInit
    <3>1. Init => Promised!FleetInit
      BY DEF Init, InitOver, Promised!FleetInit, Up, Held
    <3>2. QED
      BY <3>1, InitType, PassInvInit, FleetInvInit, CeilingInvInit
  <2>2. TypeOK /\ PassInv /\ FleetInv /\ CeilingInv /\ [Next]_vars
          => (TypeOK /\ PassInv /\ FleetInv /\ CeilingInv)'
    BY <1>1, StepType, PassInvStep, FleetInvStep, CeilingInvStep
  <2>3. TypeOK /\ PassInv /\ FleetInv /\ CeilingInv /\ [Next]_vars
          => [Promised!FleetNext]_(Promised!fleet)
    BY LoopStep DEF FleetStep
  <2>4. QED
    BY <2>1, <2>2, <2>3, PTL DEF Spec, KeepsFleet, Promised!FleetSpec
<1>2. CASE "ambiguous" \in Events
  <2>1. Init => TypeOK /\ PassInv /\ FleetInv /\ Promised!FleetInit
    <3>1. Init => Promised!FleetInit
      BY DEF Init, InitOver, Promised!FleetInit, Up, Held
    <3>2. QED
      BY <3>1, InitType, PassInvInit, FleetInvInit
  <2>2. TypeOK /\ PassInv /\ FleetInv /\ [Next]_vars => (TypeOK /\ PassInv /\ FleetInv)'
    BY StepType, PassInvStep, FleetInvStep
  <2>3. TypeOK /\ PassInv /\ FleetInv /\ [Next]_vars
          => [Promised!FleetNext]_(Promised!fleet)
    BY <1>2, LoopStep DEF FleetStep
  <2>4. QED
    BY <2>1, <2>2, <2>3, PTL DEF Spec, KeepsFleet, Promised!FleetSpec
<1>3. QED
  BY <1>1, <1>2

-----------------------------------------------------------------------------
(* A pool keeps its floor.                                                 *)

\* Machines go only where the operator releases them, and a teardown leaves
\* nothing from which a node could come back.
OnlyReleased == "vanish" \notin Events /\ "leftover" \notin Events

\* A node has a machine; the one that is released has no node any more.
NodesStand ==
  /\ \A n \in Names : vnode[n] # "none" => n \in Up
  /\ stage = "destroy" => vnode[target] = "none" /\ peering[target] = "none"
  /\ rule = "observe" => p.machines \subseteq Up

\* The machine in hand that may have been released already.
Leaving == IF stage \in {"drop_secret", "unmark"} THEN {target} ELSE {}

BeforeScaleDown == {"recycle_condemned", "bring_up", "scale_up"}

Joining == p.ready \cup p.booting

\* What rule 3 counts against the floor is running, in the pool it counts for.
CountsStand ==
  /\ rule \in BeforeScaleDown => Joining \ Leaving \subseteq Up
  /\ rule = "scale_down" => alive \ Leaving \subseteq Up /\ alive \subseteq Joining
  /\ rule \in BeforeScaleDown \cup {"scale_down"} =>
       \A n \in Joining : p.pool[n] # Unknown => pool[n] = p.pool[n]

\* Rule 3 looks before it releases.
AboveFloor ==
  rule = "scale_down" /\ stage = "teardown" => ~AtFloor(p.pool[target])

FloorInv == NodesStand /\ CountsStand /\ AboveFloor

LEMMA FloorInvImplies == TypeOK /\ FloorInv => FloorKept
<1> SUFFICES ASSUME TypeOK, FloorInv, rule = "scale_down", stage = "teardown"
             PROVE  Cardinality({n \in Up \ {target} : pool[n] = p.pool[target]})
                      >= Floor(p.pool[target])
  BY DEF FloorKept
<1> DEFINE q == p.pool[target]
           S == InPool(alive, q) \ {target}
           T == {n \in Up \ {target} : pool[n] = q}
<1>1. q \in Buckets /\ Floor(q) \in Nat /\ target \in Names /\ alive \in SUBSET Names
  BY PoolsAssumption DEF TypeOK, Pass, Floor, MinOf, Buckets
<1>2. T \in SUBSET Names /\ InPool(alive, q) \in SUBSET Names
  BY <1>1 DEF Up, InPool
<1>3. CASE q = Unknown
  BY <1>2, <1>3, NamesFinite DEF Floor
<1>4. CASE q # Unknown
  <2>1. S \in SUBSET T
    BY <1>4 DEF FloorInv, CountsStand, Leaving, InPool
  <2>2. Cardinality(S) <= Cardinality(T) /\ Cardinality(S) \in Nat /\ Cardinality(T) \in Nat
    BY <1>2, <2>1, FewerUp
  <2>3. InPool(alive, q) \in SUBSET (S \cup {target}) /\ S \in SUBSET Names
    BY <1>2
  <2>4. Cardinality(InPool(alive, q)) <= Cardinality(S) + 1
        /\ Cardinality(InPool(alive, q)) \in Nat
    BY <1>1, <2>3, OneMoreUp
  <2>5. Cardinality(InPool(alive, q)) > Floor(q)
    BY <1>1, <2>4 DEF FloorInv, AboveFloor, AtFloor
  <2> QED
    BY <1>1, <2>2, <2>4, <2>5
<1> QED
  BY <1>3, <1>4

LEMMA FloorInit == Init => FloorInv
BY DEF Init, InitOver, InitPass, FloorInv, NodesStand, CountsStand, AboveFloor,
       BeforeScaleDown, NoPass

\* A pass that ends leaves the world to be right.
LEMMA FloorEnd ==
  ASSUME FloorInv, EndPass, Up' = Up, vnode' = vnode PROVE FloorInv'
BY DEF EndPass, FloorInv, NodesStand, CountsStand, AboveFloor, BeforeScaleDown

LEMMA FloorSame ==
  ASSUME FloorInv, vnode' = vnode, peering' = peering, pool' = pool, Up \subseteq Up',
         UNCHANGED <<rule, alive, p>>,
         \/ UNCHANGED <<stage, target>>
         \/ stage' \notin {"destroy", "teardown"} /\ Leaving \subseteq Leaving'
         \/ stage' = "teardown" /\ rule # "scale_down" /\ Leaving = {}
  PROVE  FloorInv'
<1>1. NodesStand'
  BY DEF FloorInv, NodesStand
<1>2. Leaving \subseteq Leaving'
  BY DEF Leaving
<1>3. CountsStand'
  BY <1>2 DEF FloorInv, CountsStand, Joining
<1>4. AboveFloor'
  BY DEF FloorInv, AboveFloor, AtFloor, InPool
<1> QED
  BY <1>1, <1>3, <1>4 DEF FloorInv

LEMMA FloorRead ==
  ASSUME TypeOK, FloorInv, ReadHub PROVE FloorInv'
<1> USE DEF At, Done, Go, Call, NextMachine
<1>0. p \in Pass /\ Up' = Up /\ stage = "none" /\ stage' = "none"
  BY DEF TypeOK, ReadHub, Up, ReapStages, RentStages, ReapingRules, Stages
<1>1. /\ p'.machines = p.machines
      /\ p'.ready = {n \in Names : vnode[n] = "ready"}
      /\ p'.booting \subseteq p.machines
      /\ \A n \in Names : p'.pool[n] = Bucket(n)
  BY <1>0 DEF ReadHub, VirtualNodes, Pass
<1>2. \A n \in Names : Bucket(n) # Unknown => Bucket(n) = pool[n]
  BY DEF Bucket
<1>3. Joining' \subseteq Up
  BY <1>1 DEF ReadHub, FloorInv, NodesStand, Joining
<1>4. NodesStand'
  BY <1>0 DEF ReadHub, FloorInv, NodesStand
<1>5. CountsStand'
  BY <1>0, <1>1, <1>2, <1>3 DEF ReadHub, CountsStand, Up
<1> QED
  BY <1>4, <1>5 DEF FloorInv, AboveFloor, ReadHub

LEMMA FloorNextRule ==
  ASSUME TypeOK, FloorInv, NextRule PROVE FloorInv'
<1> USE DEF At, Done, Go, Call, NextMachine
<1>1. CASE FinishPass
  BY <1>1, FloorEnd DEF FinishPass, Up
<1>2. CASE NextRule /\ ~FinishPass
  <2>1. /\ rule' \notin {"observe", "recycle_condemned"} /\ stage = "none" /\ stage' = "none"
        /\ p' = p /\ Up' = Up /\ UNCHANGED <<vnode, pool, peering>>
        /\ rule' \in BeforeScaleDown \cup {"scale_down"} => rule \in BeforeScaleDown
        /\ rule' = "scale_down" => alive' = Joining
    BY <1>2
    DEF NextRule, StartBringUp, StartScaleUp, StartScaleDown, StartReapDead,
        StartReapBootTimeouts, StartReapOrphans, Up, BeforeScaleDown, Joining
  <2>2. Joining' = Joining /\ Leaving = {} /\ Leaving' = {}
    BY <2>1 DEF Joining, Leaving
  <2> QED
    BY <2>1, <2>2 DEF FloorInv, NodesStand, CountsStand, AboveFloor, BeforeScaleDown
<1> QED
  BY <1>1, <1>2

LEMMA FloorReap ==
  ASSUME OnlyReleased, TypeOK, PassInv, FloorInv, Reap PROVE FloorInv'
<1> USE DEF At, Done, Go, Call, NextMachine
<1>0. target \in Names /\ p \in Pass /\ rule \in ReapingRules
      /\ vnode \in [Names -> {"none", "ready", "notready"}] /\ box \in [Names -> Stamp]
      /\ peering \in [Names -> {"none", "stray", "managed", "sliced"}]
  BY DEF Reap, Teardown, Destroy, DropSecret, Unmark, TypeOK, ReapStages
<1>1. CASE Teardown
  <2>1. /\ vnode' = [vnode EXCEPT ![target] = "none"]
        /\ peering' = [peering EXCEPT ![target] = "none"] /\ Up' = Up
    BY <1>1 DEF Teardown, Leftovers, OnlyReleased, Up
  <2>2. NodesStand'
    BY <1>0, <1>1, <2>1 DEF Teardown, AfterTeardown, FloorInv, NodesStand
  <2>3. Leaving = {} /\ Joining' = Joining
    BY <1>1 DEF Teardown, Leaving, Joining
  <2>4. CountsStand'
    BY <1>1, <2>1, <2>3 DEF Teardown, FloorInv, CountsStand
  <2> QED
    BY <1>1, <2>2, <2>4 DEF Teardown, AfterTeardown, FloorInv, AboveFloor
<1>2. CASE Destroy
  <2>1. Up' = Up \ {target} /\ Leaving = {} /\ Leaving' = {target} /\ Joining' = Joining
    BY <1>0, <1>2 DEF Destroy, Up, Leaving, Joining
  <2>2. NodesStand'
    BY <1>0, <1>2, <2>1 DEF Destroy, FloorInv, NodesStand, ReapingRules
  <2>3. CountsStand'
    BY <1>2, <2>1 DEF Destroy, FloorInv, CountsStand
  <2> QED
    BY <1>2, <2>2, <2>3 DEF Destroy, FloorInv, AboveFloor
<1>3. CASE DropSecret
  <2>1. Up' = Up /\ Joining' = Joining /\ Leaving = {target}
    BY <1>3 DEF DropSecret, Up, Joining, Leaving
  <2>2. NodesStand'
    BY <1>3, <2>1 DEF DropSecret, FloorInv, NodesStand
  <2>3. CASE rule = "recycle_condemned"
    BY <1>3, <2>1, <2>2, <2>3 DEF DropSecret, FloorInv, CountsStand, AboveFloor, Leaving
  <2>4. CASE rule # "recycle_condemned"
    BY <1>0, <1>3, <2>1, <2>2, <2>4
    DEF DropSecret, FloorInv, CountsStand, AboveFloor, BeforeScaleDown, ReapingRules
  <2> QED
    BY <2>3, <2>4
<1>4. CASE Unmark
  <2>1. /\ p'.machines = p.machines \ {target} /\ p'.pool = p.pool
        /\ Joining' = Joining \ {target}
    BY <1>0, <1>4 DEF Unmark, Popped, Pass, Joining
  <2>2. Up' = Up /\ Leaving = {target} /\ rule = "recycle_condemned" /\ rule' = rule
    BY <1>4 DEF Unmark, Up, Leaving, PassInv, InHand
  <2> QED
    BY <1>4, <2>1, <2>2
    DEF Unmark, FloorInv, NodesStand, CountsStand, AboveFloor, BeforeScaleDown
<1> QED
  BY <1>1, <1>2, <1>3, <1>4 DEF Reap

LEMMA FloorRent ==
  ASSUME TypeOK, FloorInv, Rent \/ CreateRaises PROVE FloorInv'
<1>0. /\ rule = "scale_up" /\ stage \notin ReapStages /\ stage' \notin ReapStages
      /\ UNCHANGED <<rule, p, alive, vnode, peering>>
  BY DEF Rent, SizePool, StartSlot, NoOffer, Create, NoCapacity, DropUnused, At, Call,
         PassOver, WriteCredentials, CreateRaises, EndTurn, TypeOK, RentStages, ReapStages
<1>1. Up \subseteq Up'
  <2>1. box \in [Names -> Stamp] /\ Horizon # Never /\ (stage = "create" => target \in Names)
    BY TimeAssumption DEF TypeOK, Never
  <2> QED
    BY <2>1
    DEF Rent, SizePool, StartSlot, NoOffer, Create, NoCapacity, DropUnused,
        PassOver, WriteCredentials, CreateRaises, Up
<1>2. Joining' = Joining /\ Leaving = {} /\ Leaving' = {} /\ Joining \subseteq Up
  BY <1>0 DEF Joining, Leaving, ReapStages, FloorInv, CountsStand, BeforeScaleDown
<1>3. \A n \in Joining : pool'[n] = pool[n]
  <2>1. pool \in [Names -> Buckets] /\ Up \subseteq Names
    BY DEF TypeOK, Up
  <2> QED
    BY <1>2, <2>1
    DEF Rent, SizePool, StartSlot, NoOffer, Create, NoCapacity, DropUnused,
        PassOver, WriteCredentials, CreateRaises, Fresh, Up
<1> QED
  BY <1>0, <1>1, <1>2, <1>3
  DEF FloorInv, NodesStand, CountsStand, AboveFloor, ReapStages

LEMMA FloorLook ==
  ASSUME TypeOK, PassInv, FloorInv, Look PROVE FloorInv'
<1> USE DEF At, Done, Go, Call, NextMachine
<1>0. p \in Pass
  BY DEF TypeOK
<1>1. ASSUME NEW n \in Names, BringUp(n) PROVE FloorInv'
  <2>1. UNCHANGED <<rule, stage, target, alive, vnode, pool>> /\ Up' = Up /\ stage = "none"
        /\ rule = "bring_up"
    BY <1>1 DEF BringUp, Up
  <2>2. p'.machines = p.machines /\ p'.pool = p.pool /\ Joining' = Joining
    BY <1>0, <1>1 DEF BringUp, Skip, Peer, Slice, Becomes, Pass, Joining
  <2> QED
    BY <2>1, <2>2
    DEF FloorInv, NodesStand, CountsStand, AboveFloor, Leaving, BeforeScaleDown
<1>2. ASSUME NEW n \in Names,
             Recycle(n) \/ ReapListed(n) \/ OrphanPeering(n) \/ OrphanCredentials(n)
      PROVE  FloorInv'
  BY <1>2, FloorSame
  DEF Recycle, ReapListed, OrphanPeering, OrphanCredentials, Up, Leaving
<1>3. ASSUME NEW n \in Names, ScaleDown(n) PROVE FloorInv'
  <2>1. /\ UNCHANGED <<rule, alive, p, vnode, peering, pool>> /\ Up' = Up
        /\ rule = "scale_down" /\ stage = "none" /\ ~AtFloor(p.pool[n])
        /\ stage' = "none" \/ (stage' = "teardown" /\ target' = n)
    BY <1>3 DEF ScaleDown, Up
  <2>2. AboveFloor'
    BY <2>1 DEF AboveFloor, AtFloor, InPool
  <2> QED
    BY <2>1, <2>2 DEF FloorInv, NodesStand, CountsStand, Joining, Leaving
<1>4. ASSUME NEW q \in Buckets, LeavePool(q) PROVE FloorInv'
  BY <1>4, FloorSame DEF LeavePool, Up
<1> QED
  BY <1>1, <1>2, <1>3, <1>4 DEF Look

LEMMA FloorWorld ==
  ASSUME OnlyReleased, TypeOK, FloorInv, Environment PROVE FloorInv'
<1>1. /\ vnode \in [Names -> {"none", "ready", "notready"}]
      /\ stage = "destroy" => target \in Names
  BY DEF TypeOK
<1>2. Up' = Up /\ UNCHANGED <<rule, stage, target, alive, p, pool, peering>>
  BY DEF Environment, LoopUnchanged, NodeAppears, NodeDown, NodeUp, PodBinds, PodEnds,
         Vanish, Condemn, DemandChanges, OnlyReleased, Up
<1>3. \A n \in Names : \/ vnode'[n] = vnode[n]
                       \/ n \in Up /\ peering[n] = "sliced" /\ vnode[n] = "none"
                       \/ vnode[n] # "none"
  BY <1>1 DEF Environment, NodeAppears, NodeDown, NodeUp, PodBinds, PodEnds,
              Vanish, Condemn, DemandChanges, Up
<1>4. NodesStand'
  BY <1>1, <1>2, <1>3 DEF FloorInv, NodesStand
<1> QED
  BY <1>2, <1>4 DEF FloorInv, CountsStand, AboveFloor, Joining, Leaving, AtFloor, InPool

LEMMA FloorStep ==
  ASSUME OnlyReleased, TypeOK, PassInv, FloorInv, [Next]_vars PROVE FloorInv'
<1>1. CASE Abort \/ Crash \/ DestroyRaises
  BY <1>1, FloorEnd DEF Abort, Crash, DestroyRaises, Up
<1>2. CASE ListMachines
  <2>1. p'.machines \subseteq Up /\ Up' = Up /\ rule' = "observe"
    BY <1>2 DEF ListMachines, Listed, NoPass, Up
  <2> QED
    BY <1>2, <2>1 DEF ListMachines, FloorInv, NodesStand, CountsStand, AboveFloor,
                      BeforeScaleDown
<1>3. CASE Tick
  <2>0. p \in Pass /\ box \in [Names -> Stamp]
    BY DEF TypeOK
  <2>1. /\ p'.machines = p.machines /\ p'.pool = p.pool /\ Joining' = Joining
        /\ UNCHANGED <<rule, stage, target, alive, vnode, peering, pool>>
    BY <1>3, <2>0 DEF Tick, Pass, Joining
  <2>2. Up' = Up
    BY <1>3, <2>0, NeverIsOld DEF Tick, Aged, Up
  <2> QED
    BY <2>1, <2>2
    DEF FloorInv, NodesStand, CountsStand, AboveFloor, Leaving, AtFloor, InPool
<1>4. CASE UNCHANGED vars
  BY <1>4, FloorSame DEF vars, Up
<1> QED
  BY <1>1, <1>2, <1>3, <1>4, FloorRead, FloorNextRule, FloorReap, FloorRent, FloorLook,
     FloorWorld
  DEF Next, Loop, Failure, Observe

\* As long as only the operator takes machines away, releasing an idle machine
\* leaves its pool the floor it is configured with, whatever was condemned,
\* whatever joined or went down since the pass counted, wherever a pass broke off.
THEOREM FloorSurvives == ASSUME OnlyReleased PROVE Spec => []FloorKept
<1>1. Init => TypeOK /\ PassInv /\ FloorInv
  BY InitType, PassInvInit, FloorInit
<1>2. TypeOK /\ PassInv /\ FloorInv /\ [Next]_vars => (TypeOK /\ PassInv /\ FloorInv)'
  BY StepType, PassInvStep, FloorStep
<1>3. TypeOK /\ FloorInv => FloorKept
  BY FloorInvImplies
<1> QED
  BY <1>1, <1>2, <1>3, PTL DEF Spec

-----------------------------------------------------------------------------
(* A pool stays under its maximum.                                         *)

\* validate() refuses two pools of one name.
PoolsApart == \A i, j \in DOMAIN PoolSeq : PoolSeq[i] = PoolSeq[j] => i = j

InPoolUp(q) == {n \in Up : pool[n] = q}

\* The machines of a pool that the snapshot does not have.
Newcomers(q) == InPoolUp(q) \ p.machines

\* The snapshot knows the pools of the machines it lists; a machine that is being
\* created is none of them, and belongs to the pool it is rented for.
PoolsKnown ==
  /\ rule \notin {"sleep", "observe"} =>
       \A n \in Up \cap p.machines : p.pool[n] = pool[n]
  /\ stage = "create" => target \notin p.machines /\ pool[target] = RentingPool

\* What a pool has and what is wanted for it fit under its maximum.
RoomFor(q) ==
  Cardinality(InPool(p.machines, q)) + Cardinality(Newcomers(q)) + wanted <= PoolMax[q]

\* A pool that has not been sized yet has no newcomers; one that is being rented
\* for has room for what it has still to get.
RoomLeft ==
  rule = "scale_up" =>
    /\ \A i \in turn .. Len(PoolSeq) : Newcomers(PoolAt(i)) = {}
    /\ \A q \in Pools : wanted > 0 /\ q = RentingPool /\ PoolMax[q] > 0 => RoomFor(q)

PoolCeilingInv == PoolCeilingHeld /\ PoolsKnown /\ RoomLeft

LEMMA PoolCeilingInit == Init => PoolCeilingInv
<1> SUFFICES ASSUME Init PROVE PoolCeilingInv
  OBVIOUS
<1>1. Up = {} /\ Cardinality({}) = 0
  BY FS_EmptySet DEF Init, InitOver, Up
<1>2. \A q \in Pools : {n \in Up : pool[n] = q} = {}
  BY <1>1
<1> QED
  BY <1>1, <1>2, PoolsAssumption
  DEF Init, InitOver, InitPass, PoolCeilingInv, PoolCeilingHeld, PoolsKnown, RoomLeft

\* No machine comes, none changes its pool.
SameOrFewer == Up' \subseteq Up /\ \A n \in Up : pool'[n] = pool[n]

LEMMA PoolCeilingFewer ==
  ASSUME PoolCeilingHeld, SameOrFewer PROVE PoolCeilingHeld'
<1> SUFFICES ASSUME NEW q \in Pools, PoolMax[q] > 0
             PROVE  Cardinality(InPoolUp(q)') <= PoolMax[q]
  BY DEF PoolCeilingHeld, InPoolUp
<1>1. InPoolUp(q)' \in SUBSET InPoolUp(q) /\ InPoolUp(q) \in SUBSET Names
  BY DEF SameOrFewer, InPoolUp, Up
<1>2. /\ Cardinality(InPoolUp(q)') \in Nat /\ Cardinality(InPoolUp(q)) \in Nat
      /\ Cardinality(InPoolUp(q)') <= Cardinality(InPoolUp(q))
  BY <1>1, FewerUp
<1>3. Cardinality(InPoolUp(q)) <= PoolMax[q] /\ PoolMax[q] \in Nat
  BY PoolsAssumption DEF PoolCeilingHeld, InPoolUp
<1> QED
  BY <1>2, <1>3

\* How many machines of a pool the snapshot has, and how many it has not.
LEMMA PoolCounts ==
  ASSUME TypeOK, NEW q \in Pools
  PROVE  /\ Newcomers(q) \in SUBSET Names /\ InPool(p.machines, q) \in SUBSET Names
         /\ Cardinality(InPool(p.machines, q)) \in Nat
         /\ Cardinality(Newcomers(q)) \in Nat
         /\ PoolMax[q] \in Nat /\ wanted \in Nat
<1>1. Newcomers(q) \in SUBSET Names /\ InPool(p.machines, q) \in SUBSET Names
  BY DEF Newcomers, InPoolUp, Up, InPool, TypeOK, Pass
<1> QED
  BY <1>1, NamesFinite, PoolsAssumption DEF TypeOK

LEMMA RoomForFewer ==
  ASSUME TypeOK, TypeOK', NEW q \in Pools, RoomFor(q), SameOrFewer, wanted' = wanted,
         p'.machines = p.machines, p'.pool = p.pool
  PROVE  RoomFor(q)'
<1>1. Newcomers(q)' \in SUBSET Newcomers(q)
  BY DEF SameOrFewer, Newcomers, InPoolUp
<1>2. Cardinality(Newcomers(q)') <= Cardinality(Newcomers(q))
  BY <1>1, PoolCounts, FewerUp
<1>3. InPool(p.machines, q)' = InPool(p.machines, q)
  BY DEF InPool
<1>4. Cardinality(Newcomers(q)') \in Nat
  BY <1>1, PoolCounts, FewerUp
<1> QED
  BY <1>2, <1>3, <1>4, PoolCounts DEF RoomFor

LEMMA RoomFewer ==
  ASSUME TypeOK, TypeOK', RoomLeft, SameOrFewer, UNCHANGED <<rule, turn>>,
         wanted' = wanted \/ wanted' = 0, p'.machines = p.machines, p'.pool = p.pool
  PROVE  RoomLeft'
<1> SUFFICES ASSUME rule = "scale_up" PROVE RoomLeft'
  BY DEF RoomLeft
<1>1. \A i \in turn .. Len(PoolSeq) : Newcomers(PoolAt(i))' = {}
  BY DEF RoomLeft, PoolAt, SameOrFewer, Newcomers, InPoolUp
<1>2. ASSUME NEW q \in Pools, wanted' > 0, q = RentingPool', PoolMax[q] > 0
      PROVE  RoomFor(q)'
  BY <1>2, RoomForFewer DEF RoomLeft, RentingPool, PoolAt
<1> QED
  BY <1>1, <1>2 DEF RoomLeft, PoolAt

LEMMA PoolCeilingSame ==
  ASSUME TypeOK, TypeOK', PoolCeilingInv, SameOrFewer, UNCHANGED <<rule, turn>>,
         wanted' = wanted \/ wanted' = 0, p'.machines = p.machines, p'.pool = p.pool,
         stage' = "create" => UNCHANGED <<stage, target, pool>>
  PROVE  PoolCeilingInv'
<1>1. PoolsKnown'
  BY DEF PoolCeilingInv, PoolsKnown, SameOrFewer, RentingPool, PoolAt
<1> QED
  BY <1>1, PoolCeilingFewer, RoomFewer DEF PoolCeilingInv

\* Outside scale_up nothing is said of what is wanted.
LEMMA PoolCeilingElsewhere ==
  ASSUME PoolCeilingInv, SameOrFewer, rule' # "scale_up", stage' # "create",
         \/ rule' \in {"sleep", "observe"}
         \/ rule \notin {"sleep", "observe"} /\ p' = p
  PROVE  PoolCeilingInv'
<1>1. PoolsKnown'
  BY DEF PoolCeilingInv, PoolsKnown, SameOrFewer
<1> QED
  BY <1>1, PoolCeilingFewer DEF PoolCeilingInv, RoomLeft

LEMMA PoolCeilingObserve ==
  ASSUME TypeOK, FleetInv, PoolCeilingInv, Observe PROVE PoolCeilingInv'
<1>0. p \in Pass /\ SameOrFewer
  BY DEF TypeOK, Observe, ListMachines, ReadHub, SameOrFewer, Up
<1>1. CASE ListMachines
  BY <1>0, <1>1, PoolCeilingElsewhere
  DEF ListMachines, TypeOK, RentStages
<1>2. CASE ReadHub
  <2>1. \A n \in Names : p'.pool[n] = Bucket(n)
    BY <1>0, <1>2 DEF ReadHub, Pass
  <2>2. \A n \in Up : Bucket(n) = pool[n]
    BY DEF FleetInv, Held, Bucket, Up
  <2>3. /\ UNCHANGED <<box, pool, stage, target>> /\ rule' = "recycle_condemned"
        /\ stage # "create"
    BY <1>2 DEF ReadHub, TypeOK, RentStages
  <2>4. PoolsKnown'
    BY <2>1, <2>2, <2>3 DEF PoolsKnown, Up
  <2> QED
    BY <1>0, <2>3, <2>4, PoolCeilingFewer DEF PoolCeilingInv, RoomLeft
<1> QED
  BY <1>1, <1>2 DEF Observe

LEMMA PoolCeilingNextRule ==
  ASSUME TypeOK, FleetInv, PoolCeilingInv, NextRule PROVE PoolCeilingInv'
<1> USE DEF At, Done, Go
<1>0. SameOrFewer /\ stage' = "none"
  BY DEF NextRule, StartBringUp, StartScaleUp, StartScaleDown, StartReapDead,
         StartReapBootTimeouts, StartReapOrphans, FinishPass, EndPass, SameOrFewer, Up
<1>1. CASE StartScaleUp
  <2>1. /\ UNCHANGED <<box, pool, p>> /\ wanted' = 0 /\ wanted \in Nat
        /\ rule = "bring_up" /\ rule' = "scale_up"
    BY <1>1 DEF StartScaleUp, TypeOK
  <2>2. \A q : Newcomers(q)' = {}
    BY <2>1 DEF FleetInv, ListedOrNew, Newcomers, InPoolUp, Up
  <2>3. PoolsKnown'
    BY <1>0, <2>1 DEF PoolCeilingInv, PoolsKnown, Up
  <2>4. RoomLeft'
    BY <2>1, <2>2 DEF RoomLeft, PoolAt
  <2> QED
    BY <1>0, <2>3, <2>4, PoolCeilingFewer DEF PoolCeilingInv
<1>2. CASE NextRule /\ ~StartScaleUp
  BY <1>0, <1>2, PoolCeilingElsewhere
  DEF NextRule, StartBringUp, StartScaleDown, StartReapDead,
      StartReapBootTimeouts, StartReapOrphans, FinishPass, EndPass
<1> QED
  BY <1>1, <1>2

LEMMA PoolCeilingReap ==
  ASSUME TypeOK, TypeOK', PassInv, FleetInv, PoolCeilingInv, Reap PROVE PoolCeilingInv'
<1> USE DEF Call
<1>0. p \in Pass /\ box \in [Names -> Stamp] /\ SameOrFewer /\ UNCHANGED <<rule, turn, wanted>>
  BY DEF TypeOK, Reap, Teardown, Destroy, DropSecret, Unmark, SameOrFewer, Up
<1>1. CASE Teardown \/ Destroy \/ DropSecret
  BY <1>0, <1>1, PoolCeilingSame DEF Teardown, AfterTeardown, Destroy, DropSecret
<1>2. CASE Unmark
  <2>1. /\ p'.machines = p.machines \ {target} /\ p'.pool = p.pool
        /\ rule = "recycle_condemned" /\ stage' = "none"
    BY <1>0, <1>2 DEF Unmark, Popped, Pass, PassInv, InHand
  <2>2. PoolsKnown'
    BY <1>0, <2>1 DEF PoolCeilingInv, PoolsKnown, SameOrFewer
  <2> QED
    BY <1>0, <2>1, <2>2, PoolCeilingFewer DEF PoolCeilingInv, RoomLeft
<1> QED
  BY <1>1, <1>2 DEF Reap

\* Sizing a pool leaves it room for what it wants.
LEMMA SizedHasRoom ==
  ASSUME TypeOK, RoomLeft, SizePool,
         NEW q \in Pools, q = PoolAt(turn), wanted' > 0, PoolMax[q] > 0
  PROVE  RoomFor(q)'
<1>1. PICK bins \in Nat : wanted' = ToRent(q, bins)
  BY PoolsAssumption DEF SizePool
<1>2. Newcomers(q) = {} /\ Cardinality({}) = 0
  BY FS_EmptySet DEF SizePool, At, RoomLeft, TypeOK
<1>3. /\ Newcomers(q)' = Newcomers(q)
      /\ InPool(p.machines, q)' = InPool(p.machines, q)
  BY DEF SizePool, Newcomers, InPoolUp, Up, InPool
<1>4. rented \in Nat /\ Cardinality(p.machines) \in Nat
  BY NamesFinite DEF TypeOK, Pass
<1>5. MinOf(q) \in Nat /\ FleetMax \in Nat
  BY PoolsAssumption DEF MinOf
<1>6. Cardinality(InPool(p.machines, q)) + wanted' <= PoolMax[q]
  BY <1>1, <1>4, <1>5, PoolCounts DEF ToRent, Capped, Lesser, Greater, FleetSize
<1>7. wanted' \in Nat /\ Cardinality(InPool(p.machines, q)) \in Nat
  BY <1>1, <1>4, ToRentType, PoolCounts DEF TypeOK
<1> QED
  BY <1>2, <1>3, <1>6, <1>7 DEF RoomFor

LEMMA PoolCeilingSized ==
  ASSUME TypeOK, TypeOK', PoolCeilingInv, SizePool PROVE PoolCeilingInv'
<1>1. /\ UNCHANGED <<box, pool, p, rule, stage>> /\ turn' = turn + 1 /\ turn \in Nat
      /\ rule = "scale_up" /\ stage = "none"
  BY DEF SizePool, At, TypeOK
<1>2. SameOrFewer /\ PoolsKnown'
  BY <1>1 DEF SameOrFewer, Up, PoolCeilingInv, PoolsKnown
<1>3. \A i \in turn' .. Len(PoolSeq) : Newcomers(PoolAt(i))' = {}
  <2>1. Len(PoolSeq) \in Nat
    BY PoolsAssumption
  <2> QED
    BY <1>1, <2>1 DEF PoolCeilingInv, RoomLeft, PoolAt, Newcomers, InPoolUp, Up
<1>4. RentingPool' = PoolAt(turn)
  BY <1>1 DEF RentingPool, PoolAt
<1>5. RoomLeft'
  BY <1>3, <1>4, SizedHasRoom DEF PoolCeilingInv, RoomLeft, PoolAt
<1> QED
  BY <1>2, <1>5, PoolCeilingFewer DEF PoolCeilingInv

\* A machine is created in the pool the turn is at.
LEMMA PoolCeilingCreated ==
  ASSUME PoolsApart, TypeOK, TypeOK', FleetInv, PoolCeilingInv, Create
  PROVE  PoolCeilingInv'
<1>1. /\ box \in [Names -> Stamp] /\ p \in Pass /\ target \in Names /\ target \notin Up
      /\ wanted > 0 /\ wanted \in Nat /\ rule = "scale_up" /\ turn > 1
      /\ turn \in 1 .. Len(PoolSeq) + 1 /\ Len(PoolSeq) \in Nat
      /\ PoolSeq \in Seq(Pools)
  BY PoolsAssumption DEF Create, TypeOK, RentStages, FleetInv, OutOfService
<1>2. PICK r \in Pools : r = RentingPool
  BY <1>1, PoolAtType DEF RentingPool
<1>3. /\ Up' = Up \cup {target} /\ UNCHANGED <<pool, p, rule, turn>>
      /\ wanted' = wanted - 1 /\ stage' = "none"
  <2>1. Horizon # Never
    BY TimeAssumption DEF Never
  <2> QED
    BY <1>1, <2>1 DEF Create, Call, Up
<1>4. pool[target] = r /\ target \notin p.machines
  BY <1>2 DEF Create, PoolCeilingInv, PoolsKnown
<1>5. /\ \A q \in Pools \ {r} : InPoolUp(q)' = InPoolUp(q) /\ Newcomers(q)' = Newcomers(q)
      /\ InPoolUp(r)' = InPoolUp(r) \cup {target}
      /\ Newcomers(r)' = Newcomers(r) \cup {target}
  BY <1>3, <1>4 DEF InPoolUp, Newcomers
<1>6. PoolsKnown'
  BY <1>3, <1>4 DEF PoolCeilingInv, PoolsKnown
<1>7. Cardinality(Newcomers(r)') <= Cardinality(Newcomers(r)) + 1
      /\ Cardinality(Newcomers(r)') \in Nat
  BY <1>1, <1>5, PoolCounts, OneMoreUp
<1>8. PoolMax[r] > 0 => RoomFor(r)
  BY <1>1, <1>2 DEF PoolCeilingInv, RoomLeft
<1>9. PoolMax[r] > 0 => RoomFor(r)'
  <2>1. InPool(p.machines, r)' = InPool(p.machines, r)
    BY <1>3 DEF InPool
  <2> QED
    BY <1>3, <1>7, <1>8, <2>1, PoolCounts DEF RoomFor
<1>10. \A i \in turn .. Len(PoolSeq) : PoolAt(i) \in Pools \ {r}
  BY <1>1, <1>2, PoolAtType DEF PoolsApart, RentingPool, PoolAt
<1>11. RoomLeft'
  <2>1. RentingPool' = r
    BY <1>2, <1>3 DEF RentingPool, PoolAt
  <2>2. \A i \in turn' .. Len(PoolSeq) : Newcomers(PoolAt(i))' = {}
    BY <1>1, <1>3, <1>5, <1>10 DEF PoolCeilingInv, RoomLeft, PoolAt
  <2> QED
    BY <1>9, <2>1, <2>2 DEF RoomLeft, PoolAt
<1>12. PoolCeilingHeld'
  <2> SUFFICES ASSUME NEW q \in Pools, PoolMax[q] > 0
               PROVE  Cardinality(InPoolUp(q)') <= PoolMax[q]
    BY DEF PoolCeilingHeld, InPoolUp
  <2>1. CASE q # r
    BY <1>5, <2>1 DEF PoolCeilingInv, PoolCeilingHeld, InPoolUp
  <2>2. CASE q = r
    <3>1. InPoolUp(r) \in SUBSET Names
          /\ InPoolUp(r) \ InPool(p.machines, r) \in SUBSET Newcomers(r)
      BY <1>1 DEF InPoolUp, Newcomers, InPool, Up, PoolCeilingInv, PoolsKnown
    <3>2. /\ Cardinality(InPoolUp(r)) \in Nat
          /\ Cardinality(InPoolUp(r) \ InPool(p.machines, r)) \in Nat
          /\ Cardinality(InPoolUp(r)) <= Cardinality(InPool(p.machines, r))
               + Cardinality(InPoolUp(r) \ InPool(p.machines, r))
      BY <1>1, <3>1, PoolCounts, SplitCount
    <3>3. Cardinality(InPoolUp(r) \ InPool(p.machines, r)) <= Cardinality(Newcomers(r))
      BY <1>1, <3>1, PoolCounts, FewerUp
    <3>4. Cardinality(InPoolUp(r)') <= Cardinality(InPoolUp(r)) + 1
          /\ Cardinality(InPoolUp(r)') \in Nat
      BY <1>1, <1>5, <3>1, OneMoreUp
    <3>5. Cardinality(InPool(p.machines, r)) + Cardinality(Newcomers(r)) + wanted
            <= PoolMax[r]
      BY <1>8, <2>2 DEF RoomFor
    <3>6. /\ Cardinality(InPool(p.machines, r)) \in Nat
          /\ Cardinality(Newcomers(r)) \in Nat /\ PoolMax[r] \in Nat
      BY PoolCounts
    <3>7. Cardinality(InPoolUp(r)') <= PoolMax[r]
      BY <1>1, <3>2, <3>3, <3>4, <3>5, <3>6
    <3> QED
      BY <2>2, <3>7
  <2> QED
    BY <2>1, <2>2
<1> QED
  BY <1>6, <1>11, <1>12 DEF PoolCeilingInv

LEMMA PoolCeilingRent ==
  ASSUME PoolsApart, TypeOK, TypeOK', FleetInv, PoolCeilingInv, Rent PROVE PoolCeilingInv'
<1>1. CASE StartSlot \/ NoOffer \/ NoCapacity \/ DropUnused
           \/ \E c \in Providers : PassOver(c)
  BY <1>1, PoolCeilingSame
  DEF StartSlot, NoOffer, NoCapacity, DropUnused, PassOver, EndTurn, Call, SameOrFewer, Up
<1>2. ASSUME NEW c \in Providers, NEW n \in Names, WriteCredentials(c, n)
      PROVE  PoolCeilingInv'
  <2>1. /\ UNCHANGED <<box, p, rule, turn>>
        /\ wanted' = wanted \/ wanted' = 0
        /\ \A k \in Names \ {n} : pool'[k] = pool[k]
        /\ n \notin Up \cup p.machines
    BY <1>2 DEF WriteCredentials, EndTurn, Fresh, Up, TypeOK
  <2>2. SameOrFewer
    BY <2>1 DEF SameOrFewer, Up
  <2>3. stage' = "create" => target' = n /\ pool'[n] = RentingPool
    BY <1>2 DEF WriteCredentials, EndTurn, Call, TypeOK
  <2>4. PoolsKnown'
    BY <2>1, <2>2, <2>3 DEF PoolCeilingInv, PoolsKnown, SameOrFewer, RentingPool, PoolAt
  <2> QED
    BY <2>1, <2>2, <2>4, PoolCeilingFewer, RoomFewer DEF PoolCeilingInv
<1> QED
  BY <1>1, <1>2, PoolCeilingSized, PoolCeilingCreated DEF Rent

LEMMA PoolCeilingLook ==
  ASSUME TypeOK, TypeOK', PoolCeilingInv, Look PROVE PoolCeilingInv'
<1>1. /\ UNCHANGED <<box, pool, rule, turn, wanted>> /\ stage' # "create"
  BY DEF Look, Recycle, BringUp, ScaleDown, ReapListed, OrphanPeering, OrphanCredentials,
         LeavePool, At, Call
<1>2. p'.machines = p.machines /\ p'.pool = p.pool
  BY DEF Look, Recycle, BringUp, Skip, Peer, Slice, Becomes, ScaleDown, ReapListed,
         OrphanPeering, OrphanCredentials, LeavePool, TypeOK, Pass
<1> QED
  BY <1>1, <1>2, PoolCeilingSame DEF SameOrFewer, Up

LEMMA PoolCeilingStep ==
  ASSUME PoolsApart, "ambiguous" \notin Events,
         TypeOK, PassInv, FleetInv, PoolCeilingInv, [Next]_vars
  PROVE  PoolCeilingInv'
<1>0. TypeOK' /\ p \in Pass /\ box \in [Names -> Stamp]
  BY StepType DEF TypeOK
<1>1. CASE Failure
  BY <1>1, PoolCeilingElsewhere
  DEF Failure, Abort, Crash, DestroyRaises, CreateRaises, EndPass, SameOrFewer, Up
<1>2. CASE Environment
  <2>1. Up' \subseteq Up /\ pool' = pool
    BY <1>0, <1>2
    DEF Environment, NodeAppears, NodeDown, NodeUp, PodBinds, PodEnds, Vanish, Condemn,
        DemandChanges, Up
  <2> QED
    BY <1>0, <1>2, <2>1, PoolCeilingSame DEF Environment, LoopUnchanged, SameOrFewer
<1>3. CASE Tick
  <2>1. Up' = Up /\ pool' = pool
    BY <1>0, <1>3, NeverIsOld DEF Tick, Aged, Up
  <2>2. p'.machines = p.machines /\ p'.pool = p.pool
    BY <1>0, <1>3 DEF Tick, Pass
  <2> QED
    BY <1>0, <1>3, <2>1, <2>2, PoolCeilingSame DEF Tick, SameOrFewer
<1>4. CASE UNCHANGED vars
  BY <1>0, <1>4, PoolCeilingSame DEF vars, SameOrFewer, Up
<1> QED
  BY <1>0, <1>1, <1>2, <1>3, <1>4, PoolCeilingObserve, PoolCeilingNextRule,
     PoolCeilingReap, PoolCeilingRent, PoolCeilingLook
  DEF Next, Loop

\* No pool outgrows its own maxMachines, under the hypotheses of FleetUnderCeiling:
\* each pool is sized once in a pass, against machines listed with their pools.
THEOREM PoolUnderCeiling ==
  ASSUME FullInventories, "ambiguous" \notin Events, PoolsApart
  PROVE  Spec => []PoolCeilingHeld
<1>1. Init => TypeOK /\ PassInv /\ FleetInv /\ PoolCeilingInv
  BY InitType, PassInvInit, FleetInvInit, PoolCeilingInit
<1>2. TypeOK /\ PassInv /\ FleetInv /\ PoolCeilingInv /\ [Next]_vars
        => (TypeOK /\ PassInv /\ FleetInv /\ PoolCeilingInv)'
  BY StepType, PassInvStep, FleetInvStep, PoolCeilingStep
<1>3. PoolCeilingInv => PoolCeilingHeld
  BY DEF PoolCeilingInv
<1> QED
  BY <1>1, <1>2, <1>3, PTL DEF Spec
=============================================================================
