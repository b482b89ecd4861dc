------------------------------- MODULE Packing -------------------------------
(***************************************************************************)
(* plan(): how many machines the waiting pods of a pool need, and of which *)
(* flavor.  First-fit decreasing over resource vectors: the most awkward   *)
(* pod first, onto a running machine with room, else into a bin (a machine *)
(* this plan rents already), else into a bin of its own, of the first      *)
(* flavor that holds it.  One step places one pod.                         *)
(***************************************************************************)
EXTENDS Resources, Sequences, FiniteSetsExt

CONSTANTS
  Pods,           \* the pods, as numbers in the order the hub lists them
  Wants,          \* what a pod may request
  Frees,          \* what may be free on a running machine
  MaxFree,        \* how many of them there are (a bound)
  ShapeLists      \* lists of flavors a pool may be configured with

ASSUME PackingAssumption ==
  /\ Pods \subseteq Nat /\ IsFiniteSet(Pods) /\ IsFiniteSet(Dims)
  /\ Wants \subseteq Amounts
  /\ Frees \subseteq Amounts
  /\ ShapeLists \subseteq Seq(Amounts)

VARIABLES
  want,           \* the pods' requests
  shapes,         \* the flavors' vectors, in priority order; empty: unknown
  waiting,        \* the pods not handled yet
  free,           \* free_on_existing, less what was placed there
  bins,           \* the machines to rent
  placed,         \* the pods placed on existing machines
  neverFits,      \* the pods no flavor can hold
  opener          \* history: the pod each bin was opened for

plan == <<waiting, free, bins, placed, neverFits, opener>>
packingVars == <<want, shapes, plan>>

\* A bin without a flavor: nothing is known, rent one and measure it.
NoFlavor == 0

Bins == [flavor : Nat, used : Amounts]

\* Types; and no running machine is given more than it has free.
PackingTypeOK ==
  /\ want \in [Pods -> Wants]
  /\ shapes \in ShapeLists
  /\ waiting \subseteq Pods
  /\ free \in Seq(Amounts)
  /\ bins \in Seq(Bins)
  /\ \A b \in DOMAIN bins : bins[b].flavor \in DOMAIN shapes \cup {NoFlavor}
  /\ placed \subseteq Pods /\ neverFits \subseteq Pods
  /\ opener \in Seq(Pods) /\ Len(opener) = Len(bins)

FreeLists == UNION {[1 .. n -> Frees] : n \in 0 .. MaxFree}

\* A plan for the pods S with these machines running.
StartPlan(S, running) ==
  /\ waiting' = S /\ free' = running
  /\ bins' = <<>> /\ placed' = {} /\ neverFits' = {} /\ opener' = <<>>

PackingInit ==
  /\ want \in [Pods -> Wants] /\ shapes \in ShapeLists
  /\ waiting = Pods /\ free \in FreeLists
  /\ bins = <<>> /\ placed = {} /\ neverFits = {} /\ opener = <<>>

-----------------------------------------------------------------------------
\* fits(): only the dimensions the flavor reports are enforced, and those it
\* reports are the ones it had before anything was taken from it.
Fits(demand, capacity, measured) ==
  \A d \in Keys(demand) \cap measured : demand[d] <= capacity[d]

Shape(b) == IF bins[b].flavor = NoFlavor THEN Nothing ELSE shapes[bins[b].flavor]

Remaining(b) == Minus(Shape(b), bins[b].used)

MeasuredByWhatIsLeft(b) == Keys(Remaining(b))    \* mutant: exhausted is unmeasured

Measured(b) == Keys(Shape(b))

\* The flavors that hold a demand.
Holding(demand) == {f \in DOMAIN shapes : Fits(demand, shapes[f], Keys(shapes[f]))}

BlankIsRoom(i) ==                          \* mutant: absent is unmeasured
  {k \in DOMAIN free : FitsIn(want[i], free[k], TRUE)}

\* Machines already running report complete vectors: absent is none.
WithRoom(i) == {k \in DOMAIN free : FitsIn(want[i], free[k], FALSE)}

LastBinOnly(i) ==                          \* mutant: next fit, not first fit
  {b \in DOMAIN bins : b = Len(bins) /\ Fits(want[i], Remaining(b), Measured(b))}

BinsWithRoom(i) == {b \in DOMAIN bins : Fits(want[i], Remaining(b), Measured(b))}

IsFirst(k, S) == k \in S /\ \A j \in S : k <= j

Reference == IF shapes = <<>> THEN Nothing ELSE shapes[1]

AwkwardLast(i, j) ==                       \* mutant: the easy pods first
  AsAwkward(want[j], want[i], Reference)
  /\ (AsAwkward(want[i], want[j], Reference) => i <= j)

\* sorted() is stable: pods as awkward as each other keep the hub's order.
NoLaterThan(i, j) ==
  AsAwkward(want[i], want[j], Reference)
  /\ (AsAwkward(want[j], want[i], Reference) => i <= j)

\* The pod at the head of the sorted list.
MostAwkward == {i \in waiting : \A j \in waiting : NoLaterThan(i, j)}

Handled(i) == waiting' = waiting \ {i} /\ UNCHANGED <<want, shapes>>

Impossible(i) == shapes # <<>> /\ Holding(want[i]) = {}

ReportNeverFits(i) ==
  /\ Impossible(i)
  /\ neverFits' = neverFits \cup {i}
  /\ Handled(i)
  /\ UNCHANGED <<free, bins, placed, opener>>

PlaceOnExisting(i) ==
  /\ ~Impossible(i)
  /\ \E k \in DOMAIN free :
       /\ IsFirst(k, WithRoom(i))
       /\ free' = [free EXCEPT ![k] = Minus(@, want[i])]
  /\ placed' = placed \cup {i}
  /\ Handled(i)
  /\ UNCHANGED <<bins, neverFits, opener>>

PlaceInBin(i) ==
  /\ ~Impossible(i) /\ WithRoom(i) = {}
  /\ \E b \in DOMAIN bins :
       /\ IsFirst(b, BinsWithRoom(i))
       /\ bins' = [bins EXCEPT ![b].used = Plus(@, want[i])]
  /\ Handled(i)
  /\ UNCHANGED <<free, placed, neverFits, opener>>

OpenBin(i) ==
  /\ WithRoom(i) = {} /\ BinsWithRoom(i) = {}
  /\ \E f \in DOMAIN shapes :
       /\ IsFirst(f, Holding(want[i]))
       /\ bins' = Append(bins, [flavor |-> f, used |-> want[i]])
  /\ opener' = Append(opener, i)
  /\ Handled(i)
  /\ UNCHANGED <<free, placed, neverFits>>

\* With no flavor known one machine is rented for all the pods that are left.
RentToMeasure(i) ==
  /\ shapes = <<>> /\ WithRoom(i) = {}
  /\ bins' = <<[flavor |-> NoFlavor, used |-> Nothing]>>
  /\ opener' = <<i>>
  /\ waiting' = {}
  /\ UNCHANGED <<want, shapes, free, placed, neverFits>>

\* One pod, the head of the sorted list, is handled.
PackingNext ==
  \E i \in MostAwkward : \/ ReportNeverFits(i) \/ PlaceOnExisting(i)
                         \/ PlaceInBin(i) \/ OpenBin(i) \/ RentToMeasure(i)

PackingSpec == PackingInit /\ [][PackingNext]_packingVars

-----------------------------------------------------------------------------
(* Properties.                                                             *)

\* No bin is asked to hold more of anything its flavor reports than the flavor
\* has, however many pods are packed into it: scale_up rents a flavor that holds
\* slot.used, and there always is one.
NoBinOverflows ==
  \A b \in DOMAIN bins : Fits(bins[b].used, Shape(b), Measured(b))

\* No machine is rented in vain: the pod a bin was opened for fits no machine
\* already running and no bin opened before, not even with all of the plan known.
NoneInVain ==
  \A b \in DOMAIN bins :
    /\ \A k \in DOMAIN free : ~FitsIn(want[opener[b]], free[k], FALSE)
    /\ \A c \in 1 .. b - 1 : ~Fits(want[opener[b]], Remaining(c), Measured(c))

\* What the pods ask for in one dimension.
Asked(d) == [i \in Pods |-> want[i][d]]

\* n machines of the first flavor hold all the pods, by some assignment.
Suffice(n) ==
  \E home \in [Pods -> 1 .. n] :
    \A m \in 1 .. n, d \in Keys(shapes[1]) :
      SumFunctionOnSet(Asked(d), {i \in Pods : home[i] = m}) <= shapes[1][d]

\* The dimensions there is something to decide about: of the others one machine
\* has enough.
Scarce == {d \in Dims : SumFunctionOnSet(Asked(d), Pods) > shapes[1][d]}

\* One flavor, nothing running, and at most one dimension to decide about, by which
\* the pods are sorted.
Classic ==
  /\ Len(shapes) = 1 /\ free = <<>> /\ neverFits = {} /\ Cardinality(Scarce) <= 1
  /\ \A d \in Scarce, i, j \in Pods :
       AsAwkward(want[i], want[j], Reference) => want[j][d] <= want[i][d]

\* The pod the last machine is rented for takes more than a third of one.
LastIsLarge == \A d \in Scarce : 3 * want[opener[Len(bins)]][d] > shapes[1][d]

\* "Within a small constant of optimal": where the problem is the classic one, and the
\* pods are few or the last machine is rented for a large one, no assignment of pods to
\* machines needs fewer machines than the plan rents.
FewestMachines ==
  waiting = {} /\ Len(bins) > 1 /\ Classic /\ (Cardinality(Pods) <= 4 \/ LastIsLarge)
    => ~Suffice(Len(bins) - 1)

\* What was put into the bins is what the pods that are in none of the other places
\* ask for: no pod is lost, none is packed twice.
PackedOnce ==
  shapes # <<>> =>
    \A d \in Dims :
      SumFunctionOnSet([b \in DOMAIN bins |-> bins[b].used[d]], DOMAIN bins)
        = SumFunctionOnSet(Asked(d), Pods \ (waiting \cup placed \cup neverFits))

\* The "small constant", for any number of pods: where n machines of the one flavor
\* would do, a plan rents at most twice as many per dimension that is scarce.
NearlyFewest(n) ==
  Len(shapes) = 1 /\ Suffice(n) =>
    Len(bins) <= 1 + 2 * Cardinality(Scarce \cap Keys(shapes[1])) * (n - 1)
=============================================================================
