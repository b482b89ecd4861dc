-------------------------- MODULE ControllerProofs --------------------------
(***************************************************************************)
(* What TLAPS proves of Controller, for every value of its constants: its  *)
(* types, that no pass destroys a machine twice, and that its timers       *)
(* measure what rules 3 and 6 take them for.                               *)
(***************************************************************************)
EXTENDS Controller, FiniteSetTheorems, TLAPS

USE DEF world, memory, where, renting, history

-----------------------------------------------------------------------------
(* Types.                                                                  *)

LEMMA OlderType == \A t \in Stamp : Older(t) \in Stamp
BY TimeAssumption DEF Stamp, Never, Older

LEMMA AgedType == \A f \in [Names -> Stamp] : Aged(f) \in [Names -> Stamp]
BY OlderType DEF Aged

LEMMA StampFacts == Never \in Stamp /\ Horizon \in Stamp /\ 0 \in Stamp
                    /\ NoStamps \in [Names -> Stamp]
BY TimeAssumption DEF Stamp, Never, NoStamps

LEMMA NoPassType == NoPass \in Pass
BY StampFacts, TimeAssumption DEF NoPass, Pass, Buckets

LEMMA NamesFinite == \A S \in SUBSET Names : IsFiniteSet(S) /\ Cardinality(S) \in Nat
BY NamesAssumption, FS_Subset, FS_CardinalityType

LEMMA PoolAtType == \A i \in 1 .. Len(PoolSeq) : PoolAt(i) \in Pools
BY PoolsAssumption DEF PoolAt, Pools

LEMMA ToRentType ==
  ASSUME NEW q \in Pools, NEW bins \in Nat, p \in Pass, rented \in Nat
  PROVE  ToRent(q, bins) \in Nat
<1>1. InPool(p.machines, q) \in SUBSET Names /\ p.machines \in SUBSET Names
  BY DEF InPool, Pass
<1>2. Cardinality(InPool(p.machines, q)) \in Nat /\ Cardinality(p.machines) \in Nat
  BY <1>1, NamesFinite
<1>3. MinOf(q) \in Nat /\ PoolMax[q] \in Nat /\ FleetMax \in Nat
  BY PoolsAssumption DEF MinOf
<1>4. QED
  BY <1>2, <1>3 DEF ToRent, Capped, Lesser, Greater, FleetSize

LEMMA EndPassType ==
  ASSUME EndPass,
         box' \in [Names -> Stamp], secret' \in [Names -> Stamp],
         pool' \in [Names -> Buckets],
         peering' \in [Names -> {"none", "stray", "managed", "sliced"}],
         vnode' \in [Names -> {"none", "ready", "notready"}],
         since' \in [Names -> Stamp],
         busy' \subseteq Names, condemned' \subseteq Names, demand' \subseteq Pools,
         idleSince' \in [Names -> Stamp], missingSince' \in [Names -> Stamp],
         busyAt' \in [Names -> Stamp], listedAt' \in [Names -> Stamp]
  PROVE  TypeOK'
<1>1. Len(PoolSeq) \in Nat
  BY PoolsAssumption
<1>2. NoBudget \in [Providers -> Nat]
  BY DEF NoBudget
<1>3. QED
  BY <1>1, <1>2, NoPassType
  DEF TypeOK, EndPass, Rules, Stages, ReapStages, RentStages, ReapingRules

LEMMA InitType == Init => TypeOK
<1>1. Len(PoolSeq) \in Nat
  BY PoolsAssumption
<1>2. NoBudget \in [Providers -> Nat]
  BY DEF NoBudget
<1>3. QED
  BY <1>1, <1>2, NoPassType, StampFacts
  DEF Init, InitOver, InitPass, TypeOK, Rules, Stages, ReapStages, RentStages,
      ReapingRules, Buckets

\* Every step keeps the types, action by action.
LEMMA StepType == TypeOK /\ [Next]_vars => TypeOK'
<1> SUFFICES ASSUME TypeOK, [Next]_vars PROVE TypeOK'
  OBVIOUS
<1>0. Len(PoolSeq) \in Nat /\ NoBudget \in [Providers -> Nat] /\ p \in Pass
  BY PoolsAssumption DEF NoBudget, TypeOK
<1> USE DEF Rules, Stages, ReapStages, RentStages, ReapingRules, At, Done, Go, Call,
            NextMachine, EndTurn
<1>1. CASE Abort
  BY <1>0, <1>1, EndPassType DEF TypeOK, Abort
<1>2. CASE Crash
  BY <1>0, <1>2, EndPassType, StampFacts DEF TypeOK, Crash
<1>3. CASE DestroyRaises
  BY <1>0, <1>3, EndPassType DEF TypeOK, DestroyRaises
<1>4. CASE FinishPass
  BY <1>0, <1>4, EndPassType DEF TypeOK, FinishPass
<1>5. CASE ListMachines
  <2> PICK unread \in SUBSET Providers, omitted \in SUBSET Up :
         /\ blind' = unread
         /\ p' = [NoPass EXCEPT
                    !.demand = demand,
                    !.machines = {m \in Up \ omitted : ProviderOf[m] \notin unread},
                    !.created = [m \in Names |->
                       IF m \in {k \in Up \ omitted : ProviderOf[k] \notin unread}
                       THEN box[m] ELSE Never]]
         /\ listedAt' = [m \in Names |->
                       IF m \in {k \in Up \ omitted : ProviderOf[k] \notin unread}
                       THEN Horizon ELSE listedAt[m]]
    BY <1>5 DEF ListMachines, Listed
  <2>1. p' \in Pass
    BY NoPassType, StampFacts DEF TypeOK, Pass, Up
  <2>2. listedAt' \in [Names -> Stamp]
    BY StampFacts DEF TypeOK
  <2>3. QED
    BY <1>0, <1>5, <2>1, <2>2 DEF TypeOK, ListMachines, Listed
<1>6. CASE ReadHub
  <2>1. p' \in Pass
    BY <1>0, <1>6 DEF TypeOK, ReadHub, Peerings, VirtualNodes, MachineCredentials,
                        Pass, Bucket, Buckets
  <2>2. QED
    BY <1>0, <1>6, <2>1 DEF TypeOK, ReadHub, Peerings, VirtualNodes, MachineCredentials
<1>7. CASE StartBringUp
  BY <1>0, <1>7 DEF TypeOK, StartBringUp, Pass
<1>8. CASE StartScaleUp
  <2>1. budget' \in [Providers -> Nat] /\ turn' \in 1 .. Len(PoolSeq) + 1
    BY <1>0, <1>8, PoolsAssumption DEF StartScaleUp
  <2>2. QED
    BY <1>0, <1>8, <2>1 DEF TypeOK, StartScaleUp
<1>9. CASE StartScaleDown
  BY <1>0, <1>9 DEF TypeOK, StartScaleDown, Pass
<1>10. CASE StartReapDead
  BY <1>0, <1>10 DEF TypeOK, StartReapDead, Pass
<1>11. CASE StartReapBootTimeouts
  BY <1>0, <1>11 DEF TypeOK, StartReapBootTimeouts, NotJoined, Pass
<1>12. CASE StartReapOrphans
  BY <1>0, <1>12, StampFacts DEF TypeOK, StartReapOrphans, Orphans, MarksLeft, Pass
<1>13. CASE Teardown
  <2>1. Leftovers(target) \subseteq {"none", "stray", "managed", "sliced"}
        /\ target \in Names
    BY <1>13 DEF TypeOK, Teardown, Leftovers
  <2>2. peering' \in [Names -> {"none", "stray", "managed", "sliced"}]
    BY <1>13, <2>1 DEF TypeOK, Teardown
  <2>3. /\ vnode' \in [Names -> {"none", "ready", "notready"}]
        /\ since' \in [Names -> Stamp] /\ busy' \subseteq Names
    BY <1>13, StampFacts DEF TypeOK, Teardown
  <2>4. QED
    BY <1>0, <1>13, <2>1, <2>2, <2>3, NamesAssumption DEF TypeOK, Teardown, AfterTeardown
<1>14. CASE Destroy
  BY <1>0, <1>14, NamesAssumption, StampFacts DEF TypeOK, Destroy
<1>15. CASE DropSecret
  BY <1>0, <1>15, NamesAssumption, StampFacts DEF TypeOK, DropSecret
<1>16. CASE Unmark
  <2>1. p' \in Pass
    BY <1>0, <1>16 DEF Unmark, Popped, Pass
  <2>2. QED
    BY <1>0, <1>16, <2>1 DEF TypeOK, Unmark
<1>17. CASE SizePool
  <2> PICK bins \in Nat : wanted' = ToRent(PoolAt(turn), bins)
    BY <1>17, PoolsAssumption DEF SizePool
  <2>1. turn \in 1 .. Len(PoolSeq)
    BY <1>0, <1>17 DEF SizePool, TypeOK
  <2>2. wanted' \in Nat
    BY <1>0, <2>1, PoolAtType, ToRentType DEF TypeOK
  <2>3. turn' > 1 /\ turn' \in 1 .. Len(PoolSeq) + 1
    BY <1>0, <1>17, <2>1 DEF SizePool
  <2>4. QED
    BY <1>0, <1>17, <2>2, <2>3 DEF TypeOK, SizePool
<1>18. CASE StartSlot
  <2>1. RentingPool \in Pools
    BY <1>0, <1>18, PoolAtType DEF RentingPool, StartSlot, TypeOK
  <2>2. ProvidersOf(RentingPool) \subseteq Providers
    <3>1. PoolProviders[RentingPool] \in Seq(Providers)
      BY <2>1, PoolsAssumption
    <3>2. QED
      BY <3>1 DEF ProvidersOf
  <2>3. QED
    BY <1>0, <1>18, <2>2 DEF TypeOK, StartSlot
<1>19. CASE NoOffer
  BY <1>0, <1>19 DEF TypeOK, NoOffer
<1>20. CASE Create
  BY <1>0, <1>20, StampFacts DEF TypeOK, Create
<1>21. CASE NoCapacity
  BY <1>0, <1>21 DEF TypeOK, NoCapacity
<1>22. CASE CreateRaises
  BY <1>0, <1>22, StampFacts DEF TypeOK, CreateRaises
<1>23. CASE DropUnused
  <2>1. secret' \in [Names -> Stamp]
    BY <1>23, StampFacts DEF TypeOK, DropUnused
  <2>2. CASE secret' = [secret EXCEPT ![target] = Never] /\ Call("offer", NoName)
             /\ UNCHANGED <<wanted, offers>>
    BY <1>0, <1>23, <2>1, <2>2 DEF TypeOK, DropUnused
  <2>3. CASE EndTurn
    BY <1>0, <1>23, <2>1, <2>3 DEF TypeOK, DropUnused
  <2>4. QED
    BY <1>23, <2>2, <2>3 DEF DropUnused
<1>24. CASE \E d \in Providers : PassOver(d)
  BY <1>0, <1>24 DEF TypeOK, PassOver
<1>25. CASE \E d \in Providers, n \in Names : WriteCredentials(d, n)
  <2> PICK d \in Providers, n \in Names : WriteCredentials(d, n)
    BY <1>25
  <2>1. RentingPool \in Pools
    BY <1>0, PoolAtType DEF RentingPool, WriteCredentials, TypeOK
  <2>2. budget' \in [Providers -> Nat]
    BY <1>0 DEF WriteCredentials, WithinBudget, TypeOK
  <2>3. \/ /\ secret' = [secret EXCEPT ![n] = Horizon]
           /\ pool' = [pool EXCEPT ![n] = RentingPool]
           /\ offers' = offers \ {d} /\ Call("create", n) /\ UNCHANGED wanted
        \/ EndTurn /\ UNCHANGED <<secret, pool>>
    BY DEF WriteCredentials
  <2>4. secret' \in [Names -> Stamp] /\ pool' \in [Names -> Buckets]
    BY <2>1, <2>3, StampFacts DEF TypeOK, Buckets
  <2>5. /\ wanted' \in Nat /\ offers' \subseteq Providers
        /\ \/ stage' = "create" /\ target' = n /\ wanted' = wanted
           \/ stage' = "none" /\ target' = NoName /\ wanted' = 0
    BY <2>3 DEF TypeOK
  <2>6. stage = "offer" /\ rule = "scale_up" /\ wanted > 0
    BY DEF WriteCredentials, TypeOK
  <2>7. QED
    BY <1>0, <2>2, <2>4, <2>5, <2>6, NamesAssumption DEF TypeOK, WriteCredentials
<1>26. CASE \E n \in Names : Recycle(n)
  BY <1>0, <1>26, NamesAssumption DEF TypeOK, Recycle
<1>27. CASE \E n \in Names : BringUp(n)
  <2> PICK n \in Names : BringUp(n)
    BY <1>27
  <2> DEFINE States == {"none", "stray", "managed", "sliced"}
  <2>1. \/ UNCHANGED <<peering, p>>
        \/ \E state \in States : Becomes(n, state)
    BY DEF BringUp, Skip, Peer, Slice
  <2>2. ASSUME NEW state \in States, Becomes(n, state)
        PROVE  p' \in Pass /\ peering' \in [Names -> States]
    <3>1. p' = [p EXCEPT !.peered = p'.peered] /\ p'.peered \subseteq Names
      BY <1>0, <2>2 DEF Becomes, Pass
    <3>2. p' \in Pass
      BY <1>0, <3>1 DEF Pass
    <3>3. QED
      BY <2>2, <3>2 DEF Becomes, TypeOK
  <2>3. p' \in Pass /\ peering' \in [Names -> States]
    BY <1>0, <2>1, <2>2 DEF TypeOK
  <2>4. QED
    BY <1>0, <2>3 DEF TypeOK, BringUp
<1>28. CASE \E n \in Names : ScaleDown(n)
  <2> PICK n \in Names : ScaleDown(n)
    BY <1>28
  <2>1. p.now \in Stamp
    BY <1>0 DEF Pass, Stamp, Never
  <2>2. IdleMark(n) \in Stamp
    BY <2>1, StampFacts DEF TypeOK, IdleMark, Started
  <2>3. QED
    BY <1>0, <2>1, <2>2, NamesAssumption DEF TypeOK, ScaleDown
<1>29. CASE \E n \in Names : ReapListed(n)
  BY <1>0, <1>29, NamesAssumption DEF TypeOK, ReapListed
<1>30. CASE \E n \in Names : OrphanPeering(n)
  <2> PICK n \in Names : OrphanPeering(n)
    BY <1>30
  <2>1. Started(missingSince, n) \in Stamp
    BY <1>0 DEF TypeOK, Started, Pass, Stamp, Never
  <2>2. QED
    BY <1>0, <2>1, NamesAssumption DEF TypeOK, OrphanPeering
<1>31. CASE \E n \in Names : OrphanCredentials(n)
  BY <1>0, <1>31, NamesAssumption DEF TypeOK, OrphanCredentials
<1>32. CASE \E q \in Buckets : LeavePool(q)
  <2>1. p.now \in Stamp
    BY <1>0 DEF Pass, Stamp, Never
  <2>2. QED
    BY <1>0, <1>32, <2>1 DEF TypeOK, LeavePool
<1>33. CASE Environment
  <2> USE DEF LoopUnchanged
  <2>1. ASSUME NEW n \in Names, NodeAppears(n) \/ NodeDown(n) \/ NodeUp(n)
        PROVE  TypeOK'
    <3>1. vnode' \in [Names -> {"none", "ready", "notready"}]
      BY <2>1 DEF TypeOK, NodeAppears, NodeDown, NodeUp
    <3>2. since' \in [Names -> Stamp]
      BY <2>1, StampFacts DEF TypeOK, NodeAppears, NodeDown, NodeUp
    <3>3. UNCHANGED <<box, secret, pool, peering, busy, demand, condemned>>
      BY <2>1 DEF NodeAppears, NodeDown, NodeUp
    <3>4. QED
      BY <1>0, <1>33, <3>1, <3>2, <3>3 DEF TypeOK, Environment
  <2>2. ASSUME NEW n \in Names, PodBinds(n) \/ PodEnds(n) \/ Condemn(n)
        PROVE  TypeOK'
    <3>1. busy' \subseteq Names /\ condemned' \subseteq Names
          /\ UNCHANGED <<box, secret, pool, peering, vnode, since, demand>>
      BY <2>2 DEF TypeOK, PodBinds, PodEnds, Condemn
    <3>2. QED
      BY <1>0, <1>33, <3>1 DEF TypeOK, Environment
  <2>3. ASSUME NEW n \in Names, Vanish(n) PROVE TypeOK'
    BY <1>0, <1>33, <2>3, StampFacts DEF TypeOK, Environment, Vanish
  <2>4. ASSUME NEW q \in Pools, DemandChanges(q) PROVE TypeOK'
    BY <1>0, <1>33, <2>4 DEF TypeOK, Environment, DemandChanges
  <2>5. QED
    BY <1>33, <2>1, <2>2, <2>3, <2>4 DEF Environment
<1>34. CASE Tick
  <2>1. CASE rule = "sleep"
    BY <1>0, <1>34, <2>1, AgedType DEF TypeOK, Tick
  <2>2. CASE rule # "sleep"
    <3>1. Older(p.now) \in 0 .. Horizon
      BY <1>0, TimeAssumption DEF Pass, Older
    <3>2. Aged(p.created) \in [Names -> Stamp] /\ Aged(p.since) \in [Names -> Stamp]
          /\ Aged(p.credentials) \in [Names -> Stamp]
      BY <1>0, AgedType DEF Pass
    <3>3. p' = [p EXCEPT !.now = Older(p.now), !.created = Aged(p.created),
                         !.credentials = Aged(p.credentials),
                         !.since = Aged(p.since)]
      BY <1>0, <1>34, <2>2 DEF Tick, Pass
    <3>4. p' \in Pass
      BY <1>0, <3>1, <3>2, <3>3 DEF Pass
    <3>5. QED
      BY <1>0, <1>34, <3>4, AgedType DEF TypeOK, Tick
  <2>3. QED
    BY <2>1, <2>2
<1>35. CASE UNCHANGED vars
  BY <1>0, <1>35 DEF TypeOK, vars
<1>36. QED
  BY <1>1, <1>2, <1>3, <1>4, <1>5, <1>6, <1>7, <1>8, <1>9, <1>10, <1>11, <1>12,
     <1>13, <1>14, <1>15, <1>16, <1>17, <1>18, <1>19, <1>20, <1>21, <1>22, <1>23, <1>24,
     <1>25, <1>26, <1>27, <1>28, <1>29, <1>30, <1>31, <1>32, <1>33, <1>34, <1>35
  DEF Next, Loop, Failure, Observe, NextRule, Reap, Rent, Look

\* Every variable keeps its type, no provider is asked beyond its batch, and the
\* pass is never in the middle of a call that its rule does not make.
THEOREM TypeCorrect == Spec => []TypeOK
<1>1. QED
  BY InitType, StepType, PTL DEF Spec

-----------------------------------------------------------------------------
(* A machine is destroyed at most once in a pass.                          *)

\* A rule only handles machines it found, and the last one none that is listed.
TodoOfRule ==
  /\ rule = "scale_up" => todo = {}
  /\ rule = "scale_down" => todo \subseteq p.ready
  /\ rule = "reap_dead" => todo \subseteq p.down
  /\ rule = "reap_boot_timeouts" => todo \subseteq NotJoined
  /\ rule = "reap_orphans" => todo \cap p.machines = {}

\* The machine being reaped is one of those.
InHand ==
  /\ stage \in ReapStages => target \in todo
  /\ stage = "destroy" => target \in p.machines
  /\ stage = "unmark" => rule = "recycle_condemned"

\* What keeps a machine from being destroyed again by a later rule.
Spent(n) ==
  \/ n \notin p.machines
  \/ rule = "scale_down" /\ n \in p.ready \ todo
  \/ rule = "reap_dead" /\ n \in (p.ready \cup p.down) \ todo
  \/ rule = "reap_boot_timeouts" /\ n \notin todo
  \/ rule = "reap_orphans"

DestroyedAreSpent ==
  /\ rule \in {"sleep", "observe"} => destroyed = {}
  /\ \A n \in destroyed : Spent(n) \/ (n = target /\ stage \in {"drop_secret", "unmark"})

PassInv == p.ready \cap p.down = {} /\ TodoOfRule /\ InHand /\ DestroyedAreSpent

LEMMA PassInvImplies == PassInv /\ TypeOK => DestroyedOnce
BY DEF PassInv, TypeOK, TodoOfRule, InHand, Spent, DestroyedAreSpent, DestroyedOnce,
       ReapStages, ReapingRules, Rules

LEMMA PassInvInit == Init => PassInv
BY DEF Init, InitOver, InitPass, NoPass, PassInv, TodoOfRule, InHand, DestroyedAreSpent,
       ReapStages

\* An ended pass leaves nothing behind.
LEMMA PassInvEnd == EndPass => PassInv'
BY DEF EndPass, NoPass, PassInv, TodoOfRule, InHand, DestroyedAreSpent, ReapStages

\* What the snapshot says of the fleet, its peerings and its timestamps aside.
View == <<p.machines, p.ready, p.down, p.booting>>

LEMMA PassInvSame ==
  ASSUME PassInv, UNCHANGED <<where, destroyed, View>> PROVE PassInv'
BY DEF PassInv, TodoOfRule, InHand, DestroyedAreSpent, Spent, NotJoined, View

\* Renting reaps nothing.
LEMMA PassInvRent ==
  ASSUME PassInv, rule = "scale_up", stage \notin ReapStages,
         UNCHANGED <<rule, todo, p, destroyed>>, stage' \notin ReapStages
  PROVE  PassInv'
BY DEF PassInv, TodoOfRule, InHand, DestroyedAreSpent, Spent, ReapStages

\* A machine is taken up, or put aside, by the rule whose turn it is.
LEMMA PassInvPick ==
  ASSUME PassInv, stage = "none", NEW n \in todo,
         UNCHANGED <<rule, p, destroyed>>,
         \/ stage' \in {"teardown", "drop_secret"} /\ target' = n /\ todo' = todo
         \/ stage' = "none" /\ todo' \subseteq todo
  PROVE  PassInv'
BY DEF PassInv, TodoOfRule, InHand, DestroyedAreSpent, Spent, ReapStages, NotJoined

LEMMA PassInvStep == TypeOK /\ PassInv /\ [Next]_vars => PassInv'
<1> SUFFICES ASSUME TypeOK, PassInv, [Next]_vars PROVE PassInv'
  OBVIOUS
<1>0. p \in Pass
  BY DEF TypeOK
<1> USE DEF At, Done, Go, Call, NextMachine
<1>1. CASE Failure
  <2>1. CASE Abort \/ Crash \/ DestroyRaises
    BY <2>1, PassInvEnd DEF Abort, Crash, DestroyRaises
  <2>2. CASE CreateRaises
    BY <2>2, PassInvRent DEF CreateRaises, EndTurn, TypeOK, ReapStages, RentStages
  <2>3. QED
    BY <1>1, <2>1, <2>2 DEF Failure
<1>2. CASE Observe
  <2>1. CASE ListMachines
    <3>1. p'.ready = {} /\ p'.down = {}
      BY <2>1 DEF ListMachines, Listed, NoPass
    <3>2. QED
      BY <2>1, <3>1 DEF ListMachines, Listed, PassInv, TodoOfRule, InHand, DestroyedAreSpent,
           ReapStages, ReapingRules, TypeOK
  <2>2. CASE ReadHub
    <3>1. p'.ready \cap p'.down = {}
      BY <1>0, <2>2 DEF ReadHub, Peerings, VirtualNodes, MachineCredentials, Pass
    <3>2. destroyed' = {} /\ rule' = "recycle_condemned" /\ stage' = stage
          /\ stage \notin ReapStages
      BY <2>2 DEF ReadHub, Peerings, VirtualNodes, MachineCredentials, PassInv,
                    DestroyedAreSpent, TypeOK, ReapingRules
    <3>3. QED
      BY <3>1, <3>2 DEF PassInv, TodoOfRule, InHand, DestroyedAreSpent, ReapStages
  <2>3. QED
    BY <1>2, <2>1, <2>2 DEF Observe
<1>3. CASE NextRule
  <2> USE DEF PassInv, TodoOfRule, InHand, DestroyedAreSpent, Spent, ReapStages
  <2>1. CASE StartBringUp
    BY <2>1 DEF StartBringUp
  <2>2. CASE StartScaleUp
    BY <2>2 DEF StartScaleUp
  <2>3. CASE StartScaleDown
    BY <2>3 DEF StartScaleDown
  <2>4. CASE StartReapDead
    BY <2>4 DEF StartReapDead
  <2>5. CASE StartReapBootTimeouts
    BY <2>5 DEF StartReapBootTimeouts, NotJoined
  <2>6. CASE StartReapOrphans
    BY <2>6 DEF StartReapOrphans, Orphans
  <2>7. CASE FinishPass
    BY <2>7, PassInvEnd DEF FinishPass
  <2>8. QED
    BY <1>3, <2>1, <2>2, <2>3, <2>4, <2>5, <2>6, <2>7 DEF NextRule
<1>4. CASE Reap
  <2> USE DEF PassInv, TodoOfRule, InHand, DestroyedAreSpent, Spent, ReapStages
  <2>1. CASE Teardown
    BY <2>1 DEF Teardown, AfterTeardown, NotJoined
  <2>2. CASE Destroy
    BY <2>2, PassInvImplies
    DEF Destroy, DestroyedOnce, TypeOK, ReapingRules, NotJoined
  <2>3. CASE DropSecret
    <3>1. CASE rule = "recycle_condemned"
      BY <2>3, <3>1 DEF DropSecret
    <3>2. CASE rule # "recycle_condemned"
      BY <2>3, <3>2 DEF DropSecret, TypeOK, ReapingRules, Rules, NotJoined
    <3>3. QED
      BY <3>1, <3>2
  <2>4. CASE Unmark
    <3>1. /\ p'.machines = p.machines \ {target} /\ p'.ready = p.ready \ {target}
          /\ p'.down = p.down \ {target}
      BY <1>0, <2>4 DEF Unmark, Popped, Pass
    <3>2. QED
      BY <2>4, <3>1 DEF Unmark
  <2>5. QED
    BY <1>4, <2>1, <2>2, <2>3, <2>4 DEF Reap
<1>5. CASE Rent
  <2> USE DEF ReapStages, RentStages, TypeOK
  <2>1. CASE SizePool \/ StartSlot
    BY <2>1, PassInvRent DEF SizePool, StartSlot
  <2>2. CASE NoOffer \/ Create \/ NoCapacity
    BY <2>2, PassInvRent DEF NoOffer, Create, NoCapacity, EndTurn
  <2>3. CASE DropUnused
    BY <2>3, PassInvRent DEF DropUnused, EndTurn
  <2>4. CASE \E d \in Providers : PassOver(d)
    BY <2>4, PassInvRent DEF PassOver
  <2>5. CASE \E d \in Providers, n \in Names : WriteCredentials(d, n)
    BY <2>5, PassInvRent DEF WriteCredentials, EndTurn
  <2>6. QED
    BY <1>5, <2>1, <2>2, <2>3, <2>4, <2>5 DEF Rent
<1>6. CASE Look
  <2>1. ASSUME NEW n \in Names, Recycle(n) \/ ReapListed(n) PROVE PassInv'
    BY <2>1, PassInvPick DEF Recycle, ReapListed
  <2>2. ASSUME NEW n \in Names, ScaleDown(n) PROVE PassInv'
    BY <2>2, PassInvPick DEF ScaleDown
  <2>3. ASSUME NEW n \in Names, OrphanPeering(n) \/ OrphanCredentials(n) PROVE PassInv'
    BY <2>3, PassInvPick DEF OrphanPeering, OrphanCredentials
  <2>4. ASSUME NEW q \in Buckets, LeavePool(q) PROVE PassInv'
    BY <2>4, PassInvPick DEF LeavePool, InPool
  <2>5. ASSUME NEW n \in Names, BringUp(n) PROVE PassInv'
    <3>1. UNCHANGED View
      BY <1>0, <2>5 DEF BringUp, Skip, Peer, Slice, Becomes, View, Pass
    <3>2. QED
      BY <2>5, <3>1 DEF BringUp, View, PassInv, TodoOfRule, InHand, DestroyedAreSpent,
           Spent, ReapStages
  <2>6. QED
    BY <1>6, <2>1, <2>2, <2>3, <2>4, <2>5 DEF Look
<1>7. CASE Environment
  BY <1>7, PassInvSame DEF Environment, LoopUnchanged, View
<1>8. CASE Tick
  <2>1. UNCHANGED View
    BY <1>0, <1>8 DEF Tick, View, Pass
  <2>2. QED
    BY <1>8, <2>1, PassInvSame DEF Tick
<1>9. CASE UNCHANGED vars
  BY <1>9, PassInvSame DEF vars, View
<1>10. QED
  BY <1>1, <1>2, <1>3, <1>4, <1>5, <1>6, <1>7, <1>8, <1>9 DEF Next, Loop

\* However the rules, the environment and the failures interleave, no pass asks
\* a cloud twice to delete the same machine.
THEOREM NothingDestroyedTwice == Spec => []DestroyedOnce
<1>1. Init => TypeOK /\ PassInv
  BY InitType, PassInvInit
<1>2. TypeOK /\ PassInv /\ [Next]_vars => (TypeOK /\ PassInv)'
  BY StepType, PassInvStep
<1>3. TypeOK /\ PassInv => DestroyedOnce
  BY PassInvImplies
<1>4. QED
  BY <1>1, <1>2, <1>3, PTL DEF Spec

-----------------------------------------------------------------------------
(* The timers in the loop's memory, for every length of theirs: they       *)
(* measure what rules 3 and 6 take them for.                               *)

\* Within a pass, what passes saw is not later than the time it read; a pass
\* lasts no longer than MaxPass.
ClockInv ==
  /\ Horizon - MaxPass <= p.now
  /\ \A n \in Names : busyAt[n] <= p.now /\ listedAt[n] <= p.now

LEMMA StampOrder ==
  /\ Horizon \in Nat /\ MaxPass \in Nat
  /\ \A t \in Stamp : t \in Int /\ -1 <= t /\ t <= Horizon
  /\ \A t, u \in Stamp : t <= u => Older(t) <= Older(u)
  /\ \A t \in Stamp : Older(t) = Never <=> t = Never
BY TimeAssumption DEF Stamp, Never, Older

\* Ageing an interval that ends in the present pass never shortens it below a
\* timer: what is too old to be told apart is older than any timer.
LEMMA IntervalsLast ==
  ASSUME NEW now \in 0 .. Horizon, NEW t \in Stamp, NEW limit \in Nat,
         Horizon - MaxPass < now, limit + MaxPass < Horizon, now - t > limit
  PROVE  Older(now) - Older(t) > limit
BY TimeAssumption DEF Stamp, Never, Older

LEMMA NowType == p \in Pass => p.now \in 0 .. Horizon /\ p.now \in Stamp
BY DEF Pass, Stamp, Never

LEMMA NowOfNoPass == NoPass.now = Horizon
BY DEF NoPass

LEMMA ClockInit == Init => ClockInv
BY StampOrder, NowOfNoPass DEF Init, InitOver, InitPass, ClockInv, NoStamps, Never

LEMMA ClockTick ==
  ASSUME TypeOK, ClockInv, Tick PROVE ClockInv'
<1>0. /\ p \in Pass /\ p.now \in 0 .. Horizon
      /\ busyAt \in [Names -> Stamp] /\ listedAt \in [Names -> Stamp]
  BY NowType DEF TypeOK
<1>1. CASE rule = "sleep"
  <2>1. p' = p /\ busyAt' = Aged(busyAt) /\ listedAt' = Aged(listedAt)
    BY <1>1 DEF Tick
  <2>2. \A t \in Stamp : Older(t) <= t
    BY StampOrder DEF Older, Stamp
  <2> QED
    BY <1>0, <2>1, <2>2, OlderType, StampOrder DEF ClockInv, Aged
<1>2. CASE rule # "sleep"
  <2>1. p'.now = Older(p.now) /\ Horizon - MaxPass < p.now
        /\ busyAt' = Aged(busyAt) /\ listedAt' = Aged(listedAt)
    BY <1>0, <1>2, StampOrder DEF Tick, Pass
  <2>2. p.now \in Stamp /\ Horizon - MaxPass <= Older(p.now)
    BY <1>0, <2>1, TimeAssumption DEF Stamp, Never, Older
  <2> QED
    BY <1>0, <2>1, <2>2, StampOrder DEF ClockInv, Aged
<1> QED
  BY <1>1, <1>2

LEMMA ClockSame ==
  ASSUME ClockInv, p'.now = p.now \/ p'.now = Horizon,
         \A n \in Names : /\ busyAt'[n] \in Stamp /\ listedAt'[n] \in Stamp
                          /\ busyAt'[n] = busyAt[n] \/ busyAt'[n] = p'.now
                          /\ listedAt'[n] = listedAt[n] \/ listedAt'[n] = p'.now
  PROVE  ClockInv'
BY StampOrder DEF ClockInv

\* The clock of a step that is none of Tick's.
LEMMA NowStays ==
  ASSUME TypeOK, [Next]_vars, ~Tick
  PROVE  p'.now = p.now \/ p'.now = Horizon
<1>0. p \in Pass
  BY DEF TypeOK
<1>1. CASE Failure
  BY <1>1, NowOfNoPass DEF Failure, Abort, Crash, DestroyRaises, CreateRaises, EndPass
<1>2. CASE Observe
  BY <1>0, <1>2, NowOfNoPass DEF Observe, ListMachines, Listed, ReadHub, Pass, NoPass
<1>3. CASE NextRule
  BY <1>3, NowOfNoPass
  DEF NextRule, StartBringUp, StartScaleUp, StartScaleDown, StartReapDead,
      StartReapBootTimeouts, StartReapOrphans, FinishPass, Go, EndPass
<1>4. CASE Reap
  BY <1>0, <1>4 DEF Reap, Teardown, Destroy, DropSecret, Unmark, Popped, Pass
<1>5. CASE Rent
  BY <1>5 DEF Rent, SizePool, StartSlot, NoOffer, Create, NoCapacity, DropUnused,
              PassOver, WriteCredentials
<1>6. CASE Look
  BY <1>0, <1>6 DEF Look, Recycle, BringUp, Skip, Peer, Slice, Becomes, ScaleDown, ReapListed,
              OrphanPeering, OrphanCredentials, LeavePool, Pass
<1>7. CASE Environment \/ UNCHANGED vars
  BY <1>7 DEF Environment, LoopUnchanged, vars
<1> QED
  BY <1>1, <1>2, <1>3, <1>4, <1>5, <1>6, <1>7 DEF Next, Loop

\* What a step that is none of Tick's writes into a history is the present.
LEMMA HistoryStays ==
  ASSUME TypeOK, [Next]_vars, ~Tick
  PROVE  \A n \in Names :
           /\ busyAt'[n] = busyAt[n] \/ (rule = "scale_down" /\ busyAt'[n] = p'.now)
           /\ listedAt'[n] = listedAt[n] \/ (ListMachines /\ listedAt'[n] = p'.now)
<1>0. busyAt \in [Names -> Stamp] /\ listedAt \in [Names -> Stamp] /\ p \in Pass
  BY DEF TypeOK
<1>1. CASE Failure
  BY <1>1 DEF Failure, Abort, Crash, DestroyRaises, CreateRaises
<1>2. CASE ListMachines
  BY <1>0, <1>2, NowOfNoPass DEF ListMachines, Listed, NoPass
<1>3. CASE ReadHub \/ NextRule
  BY <1>3 DEF ReadHub, NextRule, StartBringUp, StartScaleUp, StartScaleDown, StartReapDead,
      StartReapBootTimeouts, StartReapOrphans, FinishPass, Go
<1>4. CASE Reap
  BY <1>4 DEF Reap, Teardown, Destroy, DropSecret, Unmark
<1>5. CASE Rent
  BY <1>5 DEF Rent, SizePool, StartSlot, NoOffer, Create, NoCapacity, DropUnused,
              PassOver, WriteCredentials
<1>6. ASSUME NEW n \in Names, ScaleDown(n)
      PROVE /\ listedAt' = listedAt /\ rule = "scale_down" /\ p' = p
            /\ \A k \in Names : busyAt'[k] = busyAt[k] \/ busyAt'[k] = p.now
  BY <1>0, <1>6 DEF ScaleDown, At
<1>7. ASSUME NEW q \in Buckets, LeavePool(q)
      PROVE /\ listedAt' = listedAt /\ rule = "scale_down" /\ p' = p
            /\ \A k \in Names : busyAt'[k] = busyAt[k] \/ busyAt'[k] = p.now
  BY <1>0, <1>7 DEF LeavePool, At
<1>8. ASSUME NEW n \in Names,
             Recycle(n) \/ BringUp(n) \/ ReapListed(n) \/ OrphanPeering(n)
               \/ OrphanCredentials(n)
      PROVE busyAt' = busyAt /\ listedAt' = listedAt
  BY <1>8 DEF Recycle, BringUp, ReapListed, OrphanPeering, OrphanCredentials
<1>9. CASE Environment \/ UNCHANGED vars
  BY <1>9 DEF Environment, LoopUnchanged, vars
<1> QED
  BY <1>1, <1>2, <1>3, <1>4, <1>5, <1>6, <1>7, <1>8, <1>9 DEF Next, Loop, Look, Observe

LEMMA ClockStep ==
  ASSUME TypeOK, ClockInv, [Next]_vars PROVE ClockInv'
<1>1. TypeOK'
  BY StepType
<1>2. CASE ~Tick
  BY <1>1, <1>2, NowStays, HistoryStays, ClockSame DEF TypeOK
<1> QED
  BY <1>2, ClockTick

\* A timer that has run out stays so while the pass goes on, saturated or not.
LEMMA StaysOut ==
  ASSUME TypeOK, ClockInv, [Next]_vars, rule # "sleep",
         NEW t \in Stamp, NEW limit \in {IdleS, MissingConfirmS}, p.now - t > limit
  PROVE  Tick => p'.now - Older(t) > limit
<1> SUFFICES ASSUME Tick PROVE p'.now - Older(t) > limit
  OBVIOUS
<1>1. p \in Pass /\ p.now \in 0 .. Horizon
  BY NowType DEF TypeOK
<1>2. p'.now = Older(p.now) /\ Horizon - MaxPass < p.now
  BY <1>1, StampOrder DEF Tick, Pass
<1>3. limit \in Nat /\ limit + MaxPass < Horizon
  BY TimeAssumption
<1> QED
  BY <1>1, <1>2, <1>3, IntervalsLast

-----------------------------------------------------------------------------
(* The idle timer measures idleness, in a fleet without floors.            *)

NoFloors == \A q \in Pools : MinOf(q) = 0

\* A mark is younger than any use rule 3 has seen.
IdleInv ==
  /\ \A n \in Names : idleSince[n] # Never => busyAt[n] <= idleSince[n]
  /\ rule = "scale_down" => todo \subseteq alive
  /\ IdleStayedIdle

LEMMA IdleInit == Init => IdleInv
BY DEF Init, InitOver, InitPass, IdleInv, IdleStayedIdle, NoStamps

\* Rule 3 looks at every machine that is ready: no pool is left early.
LEMMA NoPoolLeft ==
  ASSUME NoFloors, TypeOK, rule = "scale_down" => todo \subseteq alive,
         NEW q \in Buckets
  PROVE  ~LeavePool(q)
<1> SUFFICES ASSUME LeavePool(q) PROVE FALSE
  OBVIOUS
<1>1. Floor(q) = 0
  BY PoolsAssumption DEF NoFloors, Floor, Buckets
<1>2. InPool(alive, q) \in SUBSET Names /\ InPool(todo, q) \subseteq InPool(alive, q)
  BY DEF LeavePool, At, InPool, TypeOK
<1>3. Cardinality(InPool(alive, q)) = 0 /\ IsFiniteSet(InPool(alive, q))
  BY <1>1, <1>2, NamesFinite DEF LeavePool, AtFloor
<1>4. InPool(alive, q) = {}
  BY <1>3, FS_EmptySet
<1> QED
  BY <1>2, <1>4 DEF LeavePool

LEMMA IdleLooked ==
  ASSUME TypeOK, ClockInv, IdleInv, NEW n \in Names, ScaleDown(n)
  PROVE  IdleInv'
<1> USE DEF Call, NextMachine, At
<1>0. /\ idleSince \in [Names -> Stamp] /\ busyAt \in [Names -> Stamp]
      /\ p.now \in 0 .. Horizon /\ p.now \in Stamp
  BY NowType DEF TypeOK
<1>1. /\ \A k \in Names \ {n} : idleSince'[k] = idleSince[k] /\ busyAt'[k] = busyAt[k]
      /\ idleSince'[n] = IdleMark(n)
      /\ busyAt'[n] = IF InUse(n) THEN p.now ELSE busyAt[n]
      /\ p' = p /\ rule' = rule /\ alive' = alive /\ todo' \subseteq todo
  BY <1>0 DEF ScaleDown
<1>2. ~InUse(n) => Started(idleSince, n) \in Stamp /\ busyAt[n] <= Started(idleSince, n)
  BY <1>0 DEF IdleInv, ClockInv, Started
<1>3. \A k \in Names : idleSince'[k] # Never => busyAt'[k] <= idleSince'[k]
  BY <1>1, <1>2 DEF IdleInv, IdleMark
<1>4. ASSUME stage' = "teardown" PROVE p'.now - busyAt'[target'] > IdleS
  <2>1. IdleExpired(n) /\ target' = n
    BY <1>4 DEF ScaleDown
  <2>2. busyAt[n] \in Int /\ Started(idleSince, n) \in Int /\ p.now \in Int /\ IdleS \in Int
    BY <1>0, <1>2, <2>1, StampOrder, TimeAssumption DEF IdleExpired
  <2> QED
    BY <1>1, <1>2, <2>1, <2>2 DEF IdleExpired
<1> QED
  BY <1>1, <1>3, <1>4 DEF IdleInv, IdleStayedIdle

\* What leaves the marks alone, or clears some.
LEMMA IdleSame ==
  ASSUME IdleInv, busyAt' = busyAt,
         \A n \in Names : idleSince'[n] = idleSince[n] \/ idleSince'[n] = Never,
         rule' = "scale_down" => todo' \subseteq alive',
         rule' = "scale_down" /\ stage' = "teardown" =>
           rule = "scale_down" /\ stage = "teardown" /\ target' = target /\ p'.now = p.now
  PROVE  IdleInv'
BY DEF IdleInv, IdleStayedIdle

LEMMA IdleStep ==
  ASSUME NoFloors, TypeOK, ClockInv, IdleInv, [Next]_vars PROVE IdleInv'
<1> USE DEF At, Done, Go, Call, NextMachine
<1>0. /\ p \in Pass /\ idleSince \in [Names -> Stamp] /\ busyAt \in [Names -> Stamp]
      /\ p.now \in 0 .. Horizon
  BY NowType DEF TypeOK
<1>1. CASE Failure
  BY <1>0, <1>1, IdleSame
  DEF Failure, Abort, Crash, DestroyRaises, CreateRaises, EndPass, EndTurn, NoStamps,
      TypeOK, RentStages, IdleInv
<1>2. CASE Observe
  BY <1>2, IdleSame DEF Observe, ListMachines, ReadHub, IdleInv
<1>3. CASE NextRule
  BY <1>3, IdleSame
  DEF NextRule, StartBringUp, StartScaleUp, StartScaleDown, StartReapDead,
      StartReapBootTimeouts, StartReapOrphans, FinishPass, EndPass
<1>4. CASE Reap
  BY <1>0, <1>4, IdleSame
  DEF Reap, Teardown, AfterTeardown, Destroy, DropSecret, Unmark, IdleInv, TypeOK,
      ReapStages, ReapingRules
<1>5. CASE Rent
  BY <1>5, IdleSame
  DEF Rent, SizePool, StartSlot, NoOffer, EndTurn, Create, NoCapacity, DropUnused,
      PassOver, WriteCredentials, TypeOK, RentStages
<1>6. CASE Look
  <2>1. ASSUME NEW n \in Names,
               Recycle(n) \/ BringUp(n) \/ ReapListed(n) \/ OrphanPeering(n)
                 \/ OrphanCredentials(n)
        PROVE  IdleInv'
    BY <2>1, IdleSame
    DEF Recycle, BringUp, ReapListed, OrphanPeering, OrphanCredentials
  <2> QED
    BY <1>6, <2>1, IdleLooked, NoPoolLeft DEF Look, IdleInv
<1>7. CASE Environment \/ UNCHANGED vars
  BY <1>7, IdleSame DEF Environment, LoopUnchanged, vars, IdleInv
<1>8. CASE Tick
  <2>1. /\ idleSince' = Aged(idleSince) /\ busyAt' = Aged(busyAt)
        /\ UNCHANGED <<rule, stage, target, todo, alive>>
    BY <1>8 DEF Tick
  <2>2. \A n \in Names : idleSince'[n] # Never => busyAt'[n] <= idleSince'[n]
    BY <1>0, <2>1, StampOrder DEF Aged, IdleInv
  <2>3. rule = "scale_down" /\ stage = "teardown" => target \in Names
    BY DEF TypeOK
  <2>4. rule = "scale_down" /\ stage = "teardown" => p'.now - busyAt'[target] > IdleS
    BY <1>0, <1>8, <2>1, <2>3, StaysOut DEF Aged, IdleInv, IdleStayedIdle
  <2> QED
    BY <2>1, <2>2, <2>4 DEF IdleInv, IdleStayedIdle
<1> QED
  BY <1>1, <1>2, <1>3, <1>4, <1>5, <1>6, <1>7, <1>8 DEF Next, Loop

\* In a fleet without floors, rule 3 releases only machines that no pass of the
\* last IdleS found in use, however long passes take and whatever disturbs them.
THEOREM IdleIsMeasured == ASSUME NoFloors PROVE Spec => []IdleStayedIdle
<1>1. Init => TypeOK /\ ClockInv /\ IdleInv
  BY InitType, ClockInit, IdleInit
<1>2. TypeOK /\ ClockInv /\ IdleInv /\ [Next]_vars => (TypeOK /\ ClockInv /\ IdleInv)'
  BY StepType, ClockStep, IdleStep
<1>3. IdleInv => IdleStayedIdle
  BY DEF IdleInv
<1> QED
  BY <1>1, <1>2, <1>3, PTL DEF Spec

-----------------------------------------------------------------------------
(* What rule 6 takes for absent has been absent.                           *)

\* Every pass that saw a machine comes to rule 6, where the machine's mark is
\* cleared: no exception ends a pass, and a cloud that does not answer is the only
\* one there is.
PassesComplete ==
  /\ "api" \notin Events /\ Broken = {}
  /\ "blind" \in Events => \A c, d \in Providers : c = d

\* A machine seen since it was marked missing is unmarked before the pass ends,
\* by rule 6 or by the teardown that takes it out of the snapshot.
AbsenceInv ==
  /\ rule = "recycle_condemned" /\ stage = "unmark" /\ target \in p.machines =>
       missingSince[target] = Never
  /\ blind # {} => p.machines = {}
  /\ \A n \in Names : missingSince[n] # Never =>
       \/ listedAt[n] <= missingSince[n]
       \/ n \in p.machines /\ rule \notin {"sleep", "reap_orphans"}
  /\ AbsenceConfirmed

LEMMA AbsenceInit == Init => AbsenceInv
BY DEF Init, InitOver, InitPass, AbsenceInv, AbsenceConfirmed, NoStamps

LEMMA AbsenceSame ==
  ASSUME AbsenceInv, listedAt' = listedAt, blind' = blind, p'.machines = p.machines,
         \A n \in Names : missingSince'[n] = missingSince[n] \/ missingSince'[n] = Never,
         rule' = rule \/ rule' \notin {"sleep", "reap_orphans"},
         rule \in {"sleep", "reap_orphans"} => rule' = rule,
         rule' = "reap_orphans" /\ stage' = "teardown" =>
           stage = "teardown" /\ target' = target /\ p'.now = p.now,
         stage' = "unmark" => UNCHANGED <<rule, stage, target>> /\ target \in Names
  PROVE  AbsenceInv'
BY DEF AbsenceInv, AbsenceConfirmed

LEMMA AbsenceListed ==
  ASSUME PassesComplete, TypeOK, ClockInv, AbsenceInv, ListMachines PROVE AbsenceInv'
<1>0. /\ listedAt \in [Names -> Stamp] /\ missingSince \in [Names -> Stamp]
      /\ ProviderOf \in [Names -> Providers] /\ rule = "sleep"
  BY NamesAssumption DEF TypeOK, ListMachines
<1>1. PICK unread \in IF "blind" \in Events THEN SUBSET Providers ELSE {{}},
           omitted \in IF "omit" \in Events THEN SUBSET Up ELSE {{}} :
        /\ blind' = unread /\ p'.machines = Listed(unread, omitted)
        /\ listedAt' = [n \in Names |-> IF n \in Listed(unread, omitted) THEN Horizon
                                        ELSE listedAt[n]]
  BY DEF ListMachines, NoPass
<1>2. unread # {} => \A n \in Names : ProviderOf[n] \in unread
  BY <1>0, <1>1 DEF PassesComplete
<1>3. blind' # {} => p'.machines = {}
  BY <1>1, <1>2 DEF Listed, Up
<1>4. \A n \in Names : missingSince'[n] # Never =>
        listedAt'[n] <= missingSince'[n] \/ n \in p'.machines
  BY <1>0, <1>1 DEF AbsenceInv, ListMachines
<1> QED
  BY <1>3, <1>4 DEF AbsenceInv, AbsenceConfirmed, ListMachines

\* Rule 6 begins with the marks of the machines this pass did not see.
LEMMA AbsenceUnmarked ==
  ASSUME TypeOK, AbsenceInv, StartReapOrphans PROVE AbsenceInv'
<1>1. \A n \in Names : missingSince'[n] = IF n \in p.machines THEN Never
                                          ELSE missingSince[n]
  BY DEF StartReapOrphans, MarksLeft, TypeOK
<1> QED
  BY <1>1 DEF StartReapOrphans, Go, Done, At, AbsenceInv, AbsenceConfirmed

LEMMA AbsenceLooked ==
  ASSUME TypeOK, ClockInv, AbsenceInv, NEW n \in Names, OrphanPeering(n)
  PROVE  AbsenceInv'
<1> USE DEF Call, NextMachine, At
<1>0. /\ missingSince \in [Names -> Stamp] /\ listedAt \in [Names -> Stamp]
      /\ p.now \in Stamp /\ rule = "reap_orphans" /\ p \in Pass
  BY NowType DEF TypeOK, OrphanPeering
<1>1. /\ \A k \in Names \ {n} : missingSince'[k] = missingSince[k]
      /\ missingSince'[n] = Started(missingSince, n)
      /\ UNCHANGED <<listedAt, p, rule, blind>>
  BY <1>0 DEF OrphanPeering
<1>2. Started(missingSince, n) \in Stamp /\ listedAt[n] <= Started(missingSince, n)
  BY <1>0 DEF AbsenceInv, ClockInv, Started
<1>3. \A k \in Names : missingSince'[k] # Never => listedAt'[k] <= missingSince'[k]
  BY <1>0, <1>1, <1>2 DEF AbsenceInv
<1>4. ASSUME stage' = "teardown" PROVE p'.now - listedAt'[target'] > MissingConfirmS
  <2>1. p.now - Started(missingSince, n) > MissingConfirmS /\ target' = n
    BY <1>0, <1>2, <1>4, StampOrder, TimeAssumption DEF OrphanPeering
  <2>2. listedAt[n] \in Int /\ Started(missingSince, n) \in Int /\ p.now \in Int
        /\ MissingConfirmS \in Int
    BY <1>0, <1>2, StampOrder, TimeAssumption
  <2> QED
    BY <1>1, <1>2, <2>1, <2>2
<1> QED
  BY <1>0, <1>1, <1>3, <1>4 DEF AbsenceInv, AbsenceConfirmed

LEMMA AbsenceTick ==
  ASSUME TypeOK, ClockInv, AbsenceInv, Tick PROVE AbsenceInv'
<1>0. /\ missingSince \in [Names -> Stamp] /\ listedAt \in [Names -> Stamp] /\ p \in Pass
  BY DEF TypeOK
<1>1. /\ missingSince' = Aged(missingSince) /\ listedAt' = Aged(listedAt)
      /\ UNCHANGED <<rule, stage, target, todo, blind>>
      /\ p'.machines = p.machines
  BY <1>0 DEF Tick, Pass
<1>2. \A n \in Names : /\ missingSince'[n] = Never <=> missingSince[n] = Never
                       /\ listedAt[n] <= missingSince[n] => listedAt'[n] <= missingSince'[n]
  BY <1>0, <1>1, StampOrder DEF Aged
<1>3. stage \in {"teardown", "unmark"} => target \in Names
  BY DEF TypeOK
<1>4. rule = "reap_orphans" /\ stage = "teardown" =>
        p'.now - listedAt'[target] > MissingConfirmS
  BY <1>0, <1>1, <1>3, StaysOut DEF Aged, AbsenceInv, AbsenceConfirmed, Next
<1> QED
  BY <1>1, <1>2, <1>3, <1>4 DEF AbsenceInv, AbsenceConfirmed

LEMMA AbsenceStep ==
  ASSUME PassesComplete, TypeOK, PassInv, ClockInv, AbsenceInv, [Next]_vars
  PROVE  AbsenceInv'
<1> USE DEF At, Done, Go, Call, NextMachine
<1>0. p \in Pass /\ missingSince \in [Names -> Stamp]
  BY DEF TypeOK
<1>1. CASE Failure
  <2>1. ~Abort /\ ~DestroyRaises
    BY DEF Abort, DestroyRaises, ApiMayRaise, PassesComplete
  <2>2. CASE Crash
    BY <2>2 DEF Crash, EndPass, NoPass, NoStamps, AbsenceInv, AbsenceConfirmed
  <2>3. CASE CreateRaises
    BY <2>3, AbsenceSame DEF CreateRaises, EndTurn, TypeOK, RentStages
  <2> QED
    BY <1>1, <2>1, <2>2, <2>3 DEF Failure
<1>2. CASE Observe
  <2>1. CASE ReadHub
    <3>1. p'.machines = p.machines
      BY <1>0, <2>1 DEF ReadHub, Pass
    <3> QED
      BY <2>1, <3>1, AbsenceSame
      DEF ReadHub, AbsenceInv, TypeOK, ReapStages, ReapingRules
  <2> QED
    BY <1>2, <2>1, AbsenceListed DEF Observe
<1>3. CASE NextRule
  <2>1. CASE FinishPass
    BY <2>1 DEF FinishPass, EndPass, NoPass, AbsenceInv, AbsenceConfirmed
  <2>2. ASSUME NextRule, ~FinishPass, ~StartReapOrphans PROVE AbsenceInv'
    BY <2>2, AbsenceSame
    DEF NextRule, StartBringUp, StartScaleUp, StartScaleDown, StartReapDead,
        StartReapBootTimeouts
  <2> QED
    BY <1>3, <2>1, <2>2, AbsenceUnmarked
<1>4. CASE Reap
  <2>0. target \in Names /\ rule # "sleep"
    BY <1>4 DEF Reap, Teardown, Destroy, DropSecret, Unmark, TypeOK, ReapStages, ReapingRules
  <2>1. CASE Teardown \/ Destroy
    BY <2>1, AbsenceSame DEF Teardown, AfterTeardown, Destroy
  <2>2. CASE DropSecret
    <3>1. /\ \A n \in Names : missingSince'[n] = missingSince[n] \/ missingSince'[n] = Never
          /\ rule = "recycle_condemned" /\ target \in p.machines =>
               missingSince'[target] = Never
      BY <1>0, <2>0, <2>2 DEF DropSecret, Reaps, Forgets
    <3> QED
      BY <2>2, <3>1 DEF DropSecret, AbsenceInv, AbsenceConfirmed
  <2>3. CASE Unmark
    <3>1. p'.machines = p.machines \ {target} /\ rule = "recycle_condemned"
      BY <1>0, <2>3 DEF Unmark, Popped, Pass, PassInv, InHand
    <3> QED
      BY <2>3, <3>1 DEF Unmark, AbsenceInv, AbsenceConfirmed
  <2> QED
    BY <1>4, <2>1, <2>2, <2>3 DEF Reap
<1>5. CASE Rent
  BY <1>5, AbsenceSame
  DEF Rent, SizePool, StartSlot, NoOffer, EndTurn, Create, NoCapacity, DropUnused,
      PassOver, WriteCredentials, TypeOK, RentStages
<1>6. CASE Look
  <2>1. ASSUME NEW n \in Names, BringUp(n) PROVE AbsenceInv'
    <3>1. p'.machines = p.machines
      BY <1>0, <2>1 DEF BringUp, Skip, Peer, Slice, Becomes, Pass
    <3> QED
      BY <2>1, <3>1, AbsenceSame DEF BringUp
  <2>2. ASSUME NEW n \in Names,
               Recycle(n) \/ ScaleDown(n) \/ ReapListed(n) \/ OrphanCredentials(n)
        PROVE  AbsenceInv'
    BY <2>2, AbsenceSame DEF Recycle, ScaleDown, ReapListed, OrphanCredentials
  <2>3. ASSUME NEW q \in Buckets, LeavePool(q) PROVE AbsenceInv'
    BY <2>3, AbsenceSame DEF LeavePool
  <2> QED
    BY <1>6, <2>1, <2>2, <2>3, AbsenceLooked DEF Look
<1>7. CASE Environment \/ UNCHANGED vars
  BY <1>7, AbsenceSame DEF Environment, LoopUnchanged, vars, TypeOK, ReapStages
<1> QED
  BY <1>1, <1>2, <1>3, <1>4, <1>5, <1>6, <1>7, AbsenceTick DEF Next, Loop

\* When every pass comes to its end, rule 6 tears a peering down only if no pass
\* of the last MissingConfirmS saw the machine, whatever the inventory omitted,
\* and wherever the operator was restarted.
THEOREM AbsenceIsMeasured == ASSUME PassesComplete PROVE Spec => []AbsenceConfirmed
<1>1. Init => TypeOK /\ PassInv /\ ClockInv /\ AbsenceInv
  BY InitType, PassInvInit, ClockInit, AbsenceInit
<1>2. TypeOK /\ PassInv /\ ClockInv /\ AbsenceInv /\ [Next]_vars
        => (TypeOK /\ PassInv /\ ClockInv /\ AbsenceInv)'
  BY StepType, PassInvStep, ClockStep, AbsenceStep
<1>3. AbsenceInv => AbsenceConfirmed
  BY DEF AbsenceInv
<1> QED
  BY <1>1, <1>2, <1>3, PTL DEF Spec
=============================================================================
