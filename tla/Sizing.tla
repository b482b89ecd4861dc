------------------------------- MODULE Sizing -------------------------------
(***************************************************************************)
(* What packing is for: pass after pass the loop plans for the pods that   *)
(* wait, rents what the plan opens, and counts what it rented as room from *)
(* then on: by its flavor while it boots, by its node while that is Ready. *)
(* One pool; the scheduler binds pods meanwhile, pods come and go, nodes    *)
(* drop out and come back.                                                 *)
(***************************************************************************)
EXTENDS Packing, SequencesExt

CONSTANTS
  Catalogs,       \* flavors: what the provider reports, what a node of it has
  PodCapacity,    \* max_pods_per_machine, as a vector
  Reserve,        \* what the pool holds back on every machine
  Daemons,        \* what the pods of DaemonSets may take on a machine
  MaxMachines     \* the pool's and the fleet's ceiling

\* _with_pod_capacity(): how many pods a machine may hold is our policy.
WithPodCapacity(v) ==
  IF Keys(PodCapacity) \subseteq Keys(v) THEN v ELSE Plus(v, PodCapacity)

\* Pool.schedulable(): a dimension the reserve swallows is gone from the vector.
Schedulable(v) == ClampZero(Minus(v, Reserve))

ShapesFor(reported) ==
  [f \in DOMAIN reported |-> Schedulable(WithPodCapacity(reported[f]))]

ASSUME SizingAssumption ==
  /\ PodCapacity \in Amounts /\ Reserve \in Amounts /\ Daemons \subseteq Amounts
  /\ \A c \in Catalogs :
       ShapesFor(c.reported) \in ShapeLists /\ c.real \in Seq(Amounts)
  /\ MaxMachines \in Nat

VARIABLES
  real,           \* what a machine of each flavor has once it has joined
  machines,       \* the pool's machines
  asked,          \* pods that are there
  bound,          \* where they run: pod -> machine
  dying,          \* those deleted and still terminating
  stage,          \* "sleep", "observe", "plan" or "rent"
  seen,           \* the pods the pass has seen waiting
  slot,           \* the bin scale_up is renting for
  overlooked,     \* history: a machine of the pool counts for nothing in this pass
  promised        \* history: pods the last plan found room for, all rented

loop == <<stage, seen, slot>>
history == <<overlooked, promised>>
podVars == <<asked, bound, dying>>
sizingVars == <<packingVars, real, machines, podVars, loop, history>>

\* No machine runs the pod.
NoWhere == 0

Demand == {i \in asked : bound[i] = NoWhere}
On(m) == {i \in Pods : bound[i] = m}

Ids == 1 .. MaxMachines
Booting == {m \in Ids : machines[m].state = "booting"}
Ready == {m \in Ids : machines[m].state = "ready"}
\* The node is there and not Ready, or it is not there in time.
Out == {m \in Ids : machines[m].state = "out"}
Fleet == Booting \cup Ready \cup Out

NoMachine == [flavor |-> NoFlavor, has |-> Nothing, daemons |-> Nothing, state |-> "none"]

Machine == [flavor : 0 .. Len(real), has : Amounts, daemons : Amounts,
            state : {"none", "booting", "ready", "out"}]

SizingTypeOK ==
  /\ PackingTypeOK
  /\ machines \in [Ids -> Machine]
  /\ asked \subseteq Pods /\ dying \subseteq Pods
  /\ bound \in [Pods -> {NoWhere} \cup Ids]
  /\ stage \in {"sleep", "observe", "plan", "rent"}
  /\ seen \subseteq Pods
  /\ slot \in Nat
  /\ overlooked \in BOOLEAN /\ promised \subseteq Pods

SizingInit ==
  /\ want \in [Pods -> Wants]
  /\ \E c \in Catalogs : shapes = ShapesFor(c.reported) /\ real = c.real
  /\ waiting = {} /\ free = <<>>
  /\ bins = <<>> /\ placed = {} /\ neverFits = {} /\ opener = <<>>
  /\ machines = [m \in Ids |-> NoMachine]
  /\ asked \in SUBSET Pods /\ bound = [i \in Pods |-> NoWhere] /\ dying = {}
  /\ stage = "sleep" /\ seen = {} /\ slot = 1
  /\ overlooked = FALSE /\ promised = {}

-----------------------------------------------------------------------------
(* The loop.                                                               *)

CountedAsTheFirst(m) == Reference          \* mutant: whatever it was rented as

\* booting_shape(): the flavor on record, else the first, else nothing known.
BootingShape(m) == IF machines[m].flavor \in DOMAIN shapes
                   THEN shapes[machines[m].flavor] ELSE Reference

Requested(S) == [d \in Dims |-> SumFunctionOnSet(Asked(d), S)]

\* used_on(): neither the pods of DaemonSets nor those that are terminating count.
UsedOn(m) == Requested(On(m) \ dying)

\* What a pass takes for free on a machine it counts.
RoomOn(m) == IF m \in Booting THEN BootingShape(m)
             ELSE ClampZero(Minus(machines[m].has, UsedOn(m)))

\* Ready nodes first, then the booting machines; inventories have any order.  A machine
\* that is out is on neither list.
Orders == {r \o b : r \in SetToSeqs(Ready), b \in SetToSeqs(Booting)}

ReadDemand ==
  /\ stage = "sleep"
  /\ stage' = "observe" /\ seen' = Demand
  /\ UNCHANGED <<packingVars, real, machines, podVars, slot, history>>

ReadFleet ==
  /\ stage = "observe"
  /\ \E order \in Orders :
       StartPlan(seen, [k \in DOMAIN order |-> RoomOn(order[k])])
  /\ stage' = "plan" /\ slot' = 1 /\ overlooked' = (Out # {})
  /\ UNCHANGED <<want, shapes, real, machines, podVars, seen, promised>>

PlanPod ==
  /\ stage = "plan" /\ PackingNext
  /\ UNCHANGED <<real, machines, podVars, loop, history>>

PlanDone ==
  /\ stage = "plan" /\ waiting = {}
  /\ stage' = "rent"
  /\ UNCHANGED <<packingVars, real, machines, podVars, seen, slot, history>>

\* A slot without a flavor is rented as whatever the cloud picks.
Candidates(b) == IF bins[b].flavor = NoFlavor THEN DOMAIN real
                 ELSE Holding(bins[b].used)

\* The Secret says what the machine was rented as; it will have what it has, less
\* what DaemonSets come to run there.
SetFlavor(m, f) ==
  \E v \in Daemons :
    machines' = [machines EXCEPT ![m] = [flavor |-> f, has |-> real[f], daemons |-> v,
                                         state |-> "booting"]]

\* rent_one gets one of the candidates, and set_flavor records which.
Rent(f) ==
  /\ stage = "rent" /\ slot <= Len(bins)
  /\ f \in Candidates(slot)
  /\ \E m \in Ids : IsFirst(m, Ids \ Fleet) /\ SetFlavor(m, f)
  /\ slot' = slot + 1
  /\ UNCHANGED <<packingVars, real, podVars, stage, seen, history>>

\* All the slots are rented, or the ceiling is reached.
EndPass ==
  /\ stage = "rent"
  /\ slot > Len(bins) \/ Fleet = Ids
  /\ promised' = IF slot > Len(bins) THEN seen \ neverFits ELSE {}
  /\ stage' = "sleep" /\ seen' = {} /\ slot' = 1 /\ overlooked' = FALSE
  /\ StartPlan({}, <<>>)
  /\ UNCHANGED <<want, shapes, real, machines, podVars>>

\* reap(): what was bound to the machine goes with its node.
Reap(m) ==
  /\ machines' = [machines EXCEPT ![m] = NoMachine]
  /\ asked' = asked \ On(m) /\ dying' = dying \ On(m)
  /\ bound' = [i \in Pods |-> IF bound[i] = m THEN NoWhere ELSE bound[i]]
  /\ promised' = {}
  /\ UNCHANGED <<packingVars, real, loop, overlooked>>

\* Rule 3, once its timer has run out: nothing used on the machine, no pod waiting.
ScaleDown(m) ==
  /\ stage = "sleep" /\ m \in Ready
  /\ UsedOn(m) = Nothing /\ Demand = {}
  /\ Reap(m)

\* Rules 4 and 5, once theirs have: the node is not Ready, or never came.
ReapOut(m) == stage = "sleep" /\ m \in Out /\ Reap(m)

-----------------------------------------------------------------------------
(* The cluster around it.  It rests from the reading of the fleet to the   *)
(* end of scale_up, which reads nothing else: what happens meanwhile might  *)
(* as well happen after it.                                                *)

Moves == stage \in {"sleep", "observe"}

Becomes(m, state) ==
  /\ machines' = [machines EXCEPT ![m].state = state]
  /\ UNCHANGED <<packingVars, real, podVars, loop, history>>

\* The ResourceSlice advertises what the machine turned out to have.
Join(m) == Moves /\ m \in Booting /\ Becomes(m, "ready")

\* The node comes without being Ready or ceases to be, or boot_s passes without one.
DropOut(m) == Moves /\ m \in Booting \cup Ready /\ Becomes(m, "out")

ComeBack(m) == Moves /\ m \in Out /\ Becomes(m, "ready")

\* What is left on a machine to the scheduler: every pod counts until it is gone.
FreeOn(m) == Minus(Minus(machines[m].has, machines[m].daemons), Requested(On(m)))

\* The scheduler puts a pod anywhere it fits, not where it was planned.
Bind(i, m) ==
  /\ Moves /\ i \in Demand /\ m \in Ready
  /\ FitsIn(want[i], FreeOn(m), FALSE)
  /\ bound' = [bound EXCEPT ![i] = m]
  /\ promised' = {}
  /\ UNCHANGED <<packingVars, real, machines, asked, dying, loop, overlooked>>

PodArrives(i) ==
  /\ Moves /\ i \notin asked
  /\ asked' = asked \cup {i}
  /\ UNCHANGED <<packingVars, real, machines, bound, dying, loop, history>>

\* A bound pod is deleted, and terminates for as long as that takes.
Delete(i) ==
  /\ Moves /\ bound[i] # NoWhere /\ i \notin dying
  /\ dying' = dying \cup {i}
  /\ UNCHANGED <<packingVars, real, machines, asked, bound, loop, history>>

\* It has finished, or failed, or is terminated in the end by a node that is up.
PodEnds(i) ==
  /\ Moves /\ bound[i] \in Ready
  /\ asked' = asked \ {i} /\ dying' = dying \ {i}
  /\ bound' = [bound EXCEPT ![i] = NoWhere]
  /\ UNCHANGED <<packingVars, real, machines, loop, history>>

Pass == \/ ReadDemand \/ ReadFleet \/ PlanPod \/ PlanDone \/ EndPass
        \/ \E f \in DOMAIN real : Rent(f)

Scheduled(i) == \E m \in Ids : Bind(i, m)

SizingNext == \/ Pass
              \/ \E m \in Ids : \/ ScaleDown(m) \/ ReapOut(m)
                                \/ Join(m) \/ DropOut(m) \/ ComeBack(m)
              \/ \E i \in Pods : PodArrives(i) \/ Delete(i) \/ PodEnds(i) \/ Scheduled(i)

SizingSpec == SizingInit /\ [][SizingNext]_sizingVars

\* main() never stops, machines boot and do not all drop out before they are up, one
\* that is out recovers or is released by rule 4 or 5, a pod that is deleted goes in
\* the end, and one that has room again and again is scheduled.  (Fairness is strong
\* because the world rests while a plan is made.)
FairSizingSpec ==
  /\ SizingSpec /\ WF_sizingVars(Pass)
  /\ SF_sizingVars(\E m \in Ids : Join(m))
  /\ \A m \in Ids : SF_sizingVars(ComeBack(m) \/ ReapOut(m))
  /\ SF_sizingVars(\E i \in dying : PodEnds(i))
  /\ \A i \in Pods : SF_sizingVars(Scheduled(i))

\* Rule 3 is part of every pass.
FairReleasingSpec == FairSizingSpec /\ SF_sizingVars(\E m \in Ids : ScaleDown(m))

-----------------------------------------------------------------------------
(* Properties.                                                             *)

\* The flavors are known, every dimension a pod may ask for is reported, and a
\* machine that has joined has what its flavor was reported to have.
AsReported ==
  \A c \in Catalogs :
    /\ ShapesFor(c.reported) # <<>>
    /\ \A f \in DOMAIN ShapesFor(c.reported) :
         LET s == ShapesFor(c.reported)[f]
         IN  /\ f \in DOMAIN c.real /\ \A d \in Dims : s[d] <= c.real[f][d]
             /\ \A w \in Wants : Keys(w) \subseteq Keys(s)

\* A pod is not rented for twice: once a plan is rented in full, and until the
\* scheduler has bound a pod somewhere or a machine is released, no plan opens a bin
\* for one of its pods, unless it has put another pod on a machine first or the pass
\* has found a machine neither booting nor Ready.  A machine that is booting counts, by
\* what it was rented as.
NotRentedTwice ==
  \A b \in DOMAIN opener : opener[b] \in promised => placed # {} \/ overlooked

\* The same without the second exception: one machine is rented for a pod, whatever
\* becomes of its node.
NeverRentedTwice == \A b \in DOMAIN opener : opener[b] \in promised => placed # {}

\* A pass rents nothing at all for pods an earlier pass has rented for.
RentsForNewPodsOnly ==
  stage = "rent" /\ bins # <<>> => ~(seen \subseteq promised)

\* A pod some flavor can hold runs in the end: what the plan takes for room, the
\* scheduler takes for room too, if only once what terminates there has gone.
EveryPodServed ==
  \A i \in Pods :
    i \in Demand /\ ~Impossible(i) ~> i \notin Demand

Unused == \A i \in Pods : bound[i] = NoWhere

\* "Nothing is stuck", scale_up says when a ceiling keeps it from renting: a pod
\* some flavor can hold does not wait for good while no machine runs anything.
IdleMachinesYield ==
  \A i \in Pods : ~<>[](i \in Demand /\ ~Impossible(i) /\ Unused)
=============================================================================
