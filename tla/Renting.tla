------------------------------- MODULE Renting -------------------------------
(***************************************************************************)
(* A pod from the moment it waits to the moment it runs.  The operator     *)
(* starts with its fleet file (Offers); a pass routes the pod to a pool    *)
(* and adds up what it requests (Routing, Requests); the pass rents a      *)
(* machine for it among those other pods call for (Offers); the scheduler  *)
(* tries the pod on that machine's node (Routing), and the kubelet runs    *)
(* its containers one after the other (Requests).                          *)
(*                                                                         *)
(* The three parts read the same pod and decide on their own.  Once the    *)
(* pod has its machine, what else the loop rents is no longer followed.    *)
(***************************************************************************)
EXTENDS Offers

CONSTANTS
  Cases,                                        \* a pod, the pools, the fleet file
  Others,                                       \* what other waiting pods need
  LiqoLabels, LiqoTaint, OwnLabels, PoolLabel, Absent      \* of Routing

Listing(l) == Len(l) \in Nat /\ DOMAIN l = 1 .. Len(l)

\* Lists are lists, batches and priorities are numbers, flavors have a size.
ASSUME RentingAssumption ==
  /\ None \notin DOMAIN Size /\ Others \subseteq Amounts
  /\ \A c \in Cases :
       /\ Listing(c.pools) /\ Listing(c.file.providers) /\ Listing(c.file.entries)
       /\ \A i \in DOMAIN c.file.providers : c.file.providers[i].batch \in Int
       /\ \A i \in DOMAIN c.file.entries :
            LET e == c.file.entries[i]
            IN  e.priority \in Int /\ Listing(e.flavors) /\ ToSet(e.flavors) \subseteq DOMAIN Size
       /\ Listing(c.pod.init) /\ Listing(c.pod.app) /\ c.pod.overhead \in Amounts
       /\ \A i \in DOMAIN c.pod.init : c.pod.init[i].request \in Amounts
       /\ ToSet(c.pod.app) \subseteq Amounts
       /\ \A t \in c.pod.terms : t.fields \subseteq {"In", "NotIn"}

VARIABLES
  pod, pools, target, step,                     \* of Routing
  started, runs, peak,                          \* of Requests
  machine                                       \* the flavor the pod got

routing  == <<pod, pools, target, step>>
kubelet  == <<started, runs, peak>>
vars     == <<offers, routing, kubelet, machine>>

R == INSTANCE Routing
Q == INSTANCE Requests

RentingTypeOK ==
  /\ OffersTypeOK
  /\ target \in 0 .. Len(pools) /\ started \in 0 .. Len(pod.init)
  /\ machine \in DOMAIN Size \cup {None}
  /\ step \in {"bound", "refused"} => machine # None
  /\ machine # None => target # 0
  /\ runs # "nothing" => step = "bound"

Init ==
  /\ \E c \in Cases : pod = c.pod /\ pools = c.pools /\ file = c.file
  /\ OffersInit
  /\ target = 0 /\ step = "waiting"
  /\ started = 0 /\ runs = "nothing" /\ peak = pod.overhead
  /\ machine = None

-----------------------------------------------------------------------------
Start == Starts /\ UNCHANGED <<routing, kubelet, machine>>

\* observe() reads who waits, for which pool, and how much of it.
Observe ==
  /\ StartPass
  /\ IF step = "waiting" THEN R!Route ELSE UNCHANGED routing
  /\ UNCHANGED <<kubelet, machine>>

\* What scale_up may have a machine to rent for: the pod, other pods, the floor.
Needs == {Nothing} \cup Others \cup (IF target # 0 THEN {Q!PodRequests} ELSE {})

ForPod == target # 0 /\ slot = Q!PodRequests

ScaleUp ==
  \/ \E s \in Needs : StartSlot(s) /\ UNCHANGED machine
  \/ Rents /\ machine' = IF ForPod THEN rented'[2] ELSE None
  \/ /\ \/ EndPass \/ PassOver \/ Ask \/ NothingToRent \/ OutOfStock
        \/ QuotaReached \/ NoCapacity \/ Raises
     /\ UNCHANGED machine

Pass == Observe \/ (ScaleUp /\ UNCHANGED <<routing, kubelet>>)

Schedule ==
  /\ machine # None /\ R!Try
  /\ UNCHANGED <<offers, kubelet, machine>>

Run ==
  /\ step = "bound" /\ Q!Runs
  /\ UNCHANGED <<offers, pools, target, step, machine>>

Next == Start \/ (machine = None /\ Pass) \/ Schedule \/ Run

Spec == Init /\ [][Next]_vars

-----------------------------------------------------------------------------
\* The labels of a node that match() does not look at: Liqo's own but for one, and
\* the name of the pool, which the operator adds itself.
Unseen == DOMAIN OwnLabels \cup {PoolLabel}

\* A pod that asks for none of them, nor that they be missing.
Foreseen(x) ==
  /\ DOMAIN x.selector \cap Unseen = {}
  /\ \A t \in x.terms : \A e \in t.exprs : e.key \notin Unseen

\* A pod that asks for any node but some.
BarsANode(x) == \E t \in x.terms : "NotIn" \in t.fields

\* A term without expressions and fields.
Hollow(t) == t.exprs = {} /\ t.fields = {}

\* What the operator and the cluster read alike: every operator is one the operator
\* knows, no value is left out, a toleration without a key is of everything, and
\* every taint keeps a pod away.
KnownOps == {"In", "NotIn", "Exists", "DoesNotExist"}

Usual(x, taints) ==
  /\ \A t \in x.terms : \A e \in t.exprs : e.op \in KnownOps
  /\ \A t \in x.tolerations :
       (t.key = Absent => t.op = "Exists") /\ (t.op = "Exists" \/ t.value # Absent)
  /\ \A taint \in taints :
       taint.effect \in {"NoSchedule", "NoExecute"} /\ taint.value # Absent

\* Every entry rents from a provider of its own.
OneEntryEach ==
  \A c \in Cases : \A i, j \in DOMAIN c.file.entries :
    c.file.entries[i].provider = c.file.entries[j].provider => i = j

\* No init container stays up beside what follows it.
NoSidecars == \A c \in Cases : \A i \in DOMAIN c.pod.init : ~c.pod.init[i].always

\* The prediction and the scheduler agree: no machine is rented that the
\* scheduler then refuses to use, but for a pod that goes by a label match() does
\* not look at.
NotRentedInVain == step = "refused" => ~Foreseen(pod)

\* And none is withheld that it would use, but for such a pod and one that bars a
\* node by its name.
NotWithheld ==
  step = "routed" /\ target = 0 /\ Foreseen(pod) /\ ~BarsANode(pod) =>
    \A i \in DOMAIN pools : ~R!Accepts(pod, i)

\* For every pod, that is.
NeverInVain   == step # "refused"
NeverWithheld == step = "routed" /\ target = 0 => \A i \in DOMAIN pools : ~R!Accepts(pod, i)

\* A pool the warning names can never be selected.
ShadowedNeverSelected == target # 0 => ~R!Shadowed(target)

\* The machine a pod is rented, out of flavors whose sizes are known, holds it
\* from its first container to its last: what the scheduler lets in by the pod's
\* request, the kubelet does not run out of.
HoldsThroughout ==
  step = "bound" /\ ~NoShapes => \A d \in Dims : Q!Holds[d] <= Size[machine][d]

\* And nothing is asked for that the pod never holds at once.
NothingToSpare == runs = "app" => Q!PodRequests = peak
=============================================================================
