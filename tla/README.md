# The external-node autoscaler in TLA+

TLA+ models of the operator in `src/src/autoscaler/` (a Python program that rents cloud machines when pods of a
Kubernetes hub cannot be scheduled, joins them to the hub through Liqo, and releases them when they are idle or
lost), the TLC configurations that check the models, and TLAPS proofs about them. Paths in this file are relative to
the repository: `src/autoscaler/controller.py` is the source, `README.md` and `docs/scaling.md` its documentation.

## 1. The system

One process runs one loop (`__main__.main`): `Controller.reconcile()`, sleep, and again. `reconcile()` takes a
snapshot (`observe`) and runs seven rules over it. The loop is single-threaded. What is concurrent is everything it
talks to: the scheduler binds pods, Liqo creates virtual nodes, clouds lose machines, people run `make recycle`, the
process restarts. All of it may happen between any two calls of a rule, and a pass takes minutes (a peering
handshake alone may take `peer_timeout`).

| Component | State it keeps | Operations | What makes it correct |
|---|---|---|---|
| reconcile loop (`controller.py`, `__main__.py`) | `idle_since`, `missing_since`, `blocked_until`, `_blind`; a `Pass` per pass | `observe`, `recycle_condemned`, `bring_up`, `scale_up`/`rent_one`/`provision`, `scale_down`, `reap_dead`, `reap_boot_timeouts`, `reap_orphans`, `reap` | ceilings and floors hold, timers measure what they claim, nothing is released that should stay, everything left over is swept, a machine always has credentials |
| hub adapter (`hub.py`) | none; the hub's Secrets, pods, nodes, recycle ConfigMap | `pending_demand`, `virtual_nodes`, `used_on`, `write_credentials`, `machine_credentials`, `drop_secret`, `condemned`, `unmark_condemned`, `stuck_peering_pods` | demand and use are counted completely and once |
| liqo adapter (`liqo.py`) | none; ForeignClusters, ResourceSlices, virtual nodes, their labels | `peer`, `create_slice`, `machine_ready`, `peerings`, `unpeer`, `force_teardown`, `ensure_node_metadata` | a peering is either visible to the loop or leaves nothing behind |
| packing (`packing.py`, `resources.py`) | none; what it rents shows in the fleet it is given next | `plan`, `fits`, vector algebra, `pod_requests` | every pod is placed once within capacity, or reported; no machine is rented for what running ones hold |
| pools (`pools.py`) | none | `match`, `validate`, `headroom`, reserves | a pod goes to a pool whose machines it may run on |
| configuration (`config.py`) | frozen `Config` | `load` | drain really drains; bad configurations are refused |
| providers (`providers/`) | none; the clouds' machines | `list_machines`, `create`, `destroy`, `set_flavor` | False from `create` means nothing was created; a listing answers in full or raises |
| credentials (`pki.py`), cloud-init, labels, logging, charts, CI | none | text and keys | not part of this development |

Interactions: the loop calls the adapters synchronously; the adapters share state only through the API server and the
clouds. `pool_for` and `_bucket` tie a machine to a pool through the label of its Secret, and of its virtual node when
the Secret is gone.

What is hard about it:

- **Stale snapshots.** All rules use the snapshot taken at the start; rule 1 may run for minutes before rule 5 acts.
- **Absence as evidence.** A machine that is not listed may be gone, hidden by an eventually consistent inventory, or
  in a cloud that did not answer. Three rules and two ceilings draw conclusions from it.
- **Failure between two calls.** Credentials, machine, label, slice and node are written by five calls to three
  systems. The loop may be cut between any two: by an exception, or by a restart, which also forgets every timer.
- **Several rules, one machine.** A condemned machine may also be dead, idle, late or an orphan in the same pass.
- **Numbers at their limits.** Floor, pool ceiling, fleet ceiling, batch and packing meet in one expression in which
  0 means "no limit".

`PROJECT.json` lists each hazard at the line where it bites, with the property that watches it.

## 2. Modules

| Module | What it is |
|---|---|
| `Fleet` | the abstract specification of what the operator pays for: machines, credentials, a maximum |
| `Controller` | the loop, the parts of the adapters it calls, and the world around it; implements `Fleet` |
| `Handshake` | rule 1 with the Liqo adapter's calls, the peering backoff, rules 5 and 6, and time |
| `Teardown` | `reap` and `force_teardown`, one call to the API server at a time, next to the hub's controllers |
| `Resources`, `Packing`, `Sizing` | resource vectors; `plan()`; the passes that plan, rent, and count what they rented |
| `Routing`, `Requests`, `Offers`, `Renting` | the pool of a pod; what a pod requests; fleet file, startup and the order of offers; the three composed around one pod |
| `Cloud` | the abstract specification of a provider: the contract in `providers/base.py` |
| `Ovh`, `Vultr`, `Providers` | the two providers request by request; both under the contract |
| `MC*.tla`, `*.cfg` | constants for TLC, one configuration per question |
| `ControllerProofs`, `FleetProofs`, `HandshakeProofs`, `SizingProofs`, `ProvidersProofs`, `TeardownProofs`, `RentingProofs` | theorems (section 5) |
| `FoldProofs` | lemmas about folds and sums over finite sets, which the proofs about packing and renting share |

How they fit together. `Controller` has every rule, call and failure of the loop, with sizes, handshake, teardown and
providers reduced to outcomes. The other modules take one of these outcomes apart: `Sizing` what `SizePool` asks for,
`Offers` what `Create` tries, `Handshake` the outcomes of `Peer` and `Slice`, `Teardown` the step `Teardown`, `Cloud`
the answers of `Create`, `Destroy` and `ListMachines`. `Sizing` extends `Packing` and runs its steps inside a pass;
`Renting` extends `Offers` and instantiates `Routing` and `Requests` over the same pod; `Providers` extends `Ovh` and
instantiates `Vultr`. Two refinements are stated and checked: `Controller` implements `Fleet` (`Promised == INSTANCE
Fleet WITH held <- Held, running <- Up, ...`), and each provider implements `Cloud`, whose variables it extends.

### Controller: correspondence to the code

State of the world: `box` (a machine exists in a cloud, since when), `secret` (its credentials), `pool` (the label of
Secret and node), `peering` (`stray`: a ForeignCluster without the operator's label; `managed`: labelled; `sliced`:
with its ResourceSlice), `vnode` and `since` (the virtual node and its last transition), `busy` (nodes that hold a
non-DaemonSet pod), `demand` (pools some unschedulable pod waits for), `condemned` (keys of the recycle ConfigMap).

State of the process: `idleSince`, `missingSince`, `blind` are attributes of `Controller`; `p` is the `Pass`; `rule`,
`stage`, `target`, `todo` are the program counter (which rule, which call, for which machine, which machines are still
ahead in the loop); `turn`, `wanted`, `rented`, `budget`, `offers` are locals of `scale_up` and `rent_one`; `alive` is
the local of `scale_down`. `destroyed`, `busyAt`, `listedAt` are history variables: properties read them, no guard
does, but for `Fresh`, which uses `destroyed` to give no machine the name of one destroyed in the same pass.

| Actions | Code |
|---|---|
| `ListMachines`, `ReadHub` | `observe` and `machines`: inventories first, hub second, each at its own time |
| `Recycle`, `Unmark` | rule 0 |
| `BringUp` (`Skip`, `Peer`, `Slice`) | rule 1; each step of the handshake may fail |
| `SizePool`, `StartSlot`, `PassOver`, `WriteCredentials`, `Create`, `NoCapacity`, `DropUnused`, `NoOffer`, `CreateRaises` | rule 2: `scale_up`, `rent_one`, `provision` |
| `ScaleDown`, `LeavePool` | rule 3 |
| `ReapListed` | rules 4 and 5 |
| `OrphanPeering`, `OrphanCredentials` | rule 6 |
| `Teardown`, `Destroy`, `DestroyRaises`, `DropSecret` | `reap`, call by call |
| `Start...`, `FinishPass` | `reconcile` going from rule to rule, with what a rule reads first |
| `Abort`, `Crash` | an exception that reaches `main`, and a restart |
| `NodeAppears`, `NodeDown`, `NodeUp`, `PodBinds`, `PodEnds`, `DemandChanges`, `Vanish`, `Condemn`, `Tick` | the world |

**Time.** The code only compares timestamps. The model keeps them relative to the present: the present is `Horizon`,
a `Tick` moves every recorded time one unit into the past, and what is older than any timer saturates at 0.
`TimeAssumption` says `Horizon` is far enough away for saturation to be invisible. `MaxPass` bounds how many ticks one
pass may take; `p.now` is read once per pass, as in the code.

**Events.** Each run names the disturbances it allows (`Events`; `Broken` for clouds whose `destroy()` raises). A run
without an event is a statement about a world in which it does not happen, and the table below says so.

**Abstractions.** All of these are in the direction of more behaviours, unless marked.

- Packing is any number of new machines from 0 to `MaxNeed`, 0 when no pod waits. `Packing` has the numbers.
- The flavors a slot may take are any nonempty set of the pool's providers; their order is the configured one.
- The machines of a rule are visited in any order. In the code the order is that of a dict or a sort.
- `Skip` stands for the reasons rule 1 leaves an unpeered machine alone: no address yet, not answering, backing off.
- `Teardown` is `unpeer` (when the machine answers) and `force_teardown` as one step. "leftover" lets the API server
  refuse any part of it. `Teardown` has the calls one by one.
- Node labels and taints are in `Handshake`, sizes in `Sizing`; the report of stuck pods is left out. *(fewer)*
- A new name is one nothing remembers (`Fresh`); in the code it is random. Running out of `Names`, which only the
  model can, reads as a provider without capacity. *(fewer)*

**Fairness.** `FairSpec` has weak fairness of `Loop`, because `main` never stops calling `reconcile` and every call
has a timeout, and of `Tick`, because time passes. Neither failures nor the environment are fair: a pod need not end
and Liqo need not create a node. `FairSpecRestarted` starts over any fleet that earlier lives of the operator left,
peerings and credentials whose machine is gone among it, because an operator that drains from the first day has nothing
to drain. It adds strong fairness of `FullInventory`: a
cloud that keeps hiding machines or failing to list them does answer in full again and again. Without that nothing
could ever be released, and the property about recovering from hidden machines needs it.

### Packing: correspondence to the code

A vector is a function on `Dims` that is 0 where the dict has no key, because `Resources` drops zeroes. "Absent" and
"zero" are then one value, as in the code, and each reader says which of the two it takes it for: `FitsIn` by its
third argument, `Fits` by the set of dimensions that count.

`waiting` are the pods the `for` loop of `plan` has not reached, `free` is `existing`, `bins` is `bins`, `neverFits`
is `never_fits`; `placed` is the set behind the counter `placed_existing`. `opener` is history: the pod each bin was
opened for. `want` and `shapes` are the arguments. Each step handles the head of the sorted list, which is
`MostAwkward`: the sort is stable, so equals keep the order in which the hub lists them (pods are numbers in that
order), and ratios are compared as fractions.

| Action | Branch of the loop |
|---|---|
| `ReportNeverFits` | no flavor holds the pod |
| `PlaceOnExisting` | the first running machine with room takes it |
| `PlaceInBin` | the first bin with room takes it |
| `OpenBin` | a bin of the first flavor that holds it |
| `RentToMeasure` | no flavors known: one bin, and the plan ends |

### Sizing: correspondence to the code

| Action | Code |
|---|---|
| `ReadDemand`, `ReadFleet` | `observe` reads what waits, then what runs; then `scale_up` builds `free`, ready nodes first |
| `PlanPod`, `PlanDone` | `packing.plan` |
| `Rent` | one slot of `scale_up`: `candidates`, `rent_one`, `set_flavor` |
| `EndPass` | all slots rented, or the ceiling reached |
| `ScaleDown` | rule 3 once its timer has run out |
| `ReapOut` | rules 4 and 5 once theirs have |
| `Join`, `DropOut`, `ComeBack` | the machine's node is Ready; it is there and is not, or was not there within `boot_s`; it is Ready after all |
| `Bind`, `PodArrives`, `Delete`, `PodEnds` | the scheduler and the workloads |

A machine is in one of three states, as in `observe`: `Ready` and `Booting` are the two sets a pass counts, and `Out` is
what is in neither (its node is there and not Ready, or there is none and `boot_s` has passed). A machine that is out
counts for no room, so a pass that finds one may rent again for the pods it was rented for; rule 4 or 5 releases it in
the end, or it comes back.

What a pass takes for free on a machine (`RoomOn`) and what the scheduler has left on it (`FreeOn`) are two readings of
the same pods. `RoomOn` is the flavor the Secret names while the machine boots (`BootingShape`), then the node's capacity
less `used_on`, clamped at zero; and `used_on` counts neither pods that terminate (`dying`) nor those of DaemonSets
(`daemons`, what they take on this machine). The scheduler counts both.

Vectors go through the same three hands as in the code: the provider reports a flavor (`reported`),
`_with_pod_capacity` adds how many pods a machine may hold, and `schedulable` takes the pool's reserve off and clamps.
`real` is what a machine of that flavor turns out to offer once it has joined, which the ResourceSlice advertises.
`overlooked` and `promised` are history: whether the pass has found a machine that is out, and which pods the last plan
that was rented in full found room for, until a pod is bound or a machine released.

Abstractions: one pool; the timers of rules 3 to 5, failed rentals, lost machines and inventories that leave machines
out are in `Controller`; `MaxMachines` is the ceiling of the pool and of the fleet at once, without a floor; which of the
candidates the cloud had in stock is any of them. Machines of a kind are listed in any order. The world rests from the
reading of the fleet to the end of `scale_up`, which reads nothing else from outside: what happens meanwhile might as
well happen after it. A pod that is deleted before it is bound is left out.

**Fairness.** Weak fairness of `Pass` (`main` never stops). Everything around it is disabled whenever a plan is being made,
so its fairness is strong. Machines boot (`Join`: not every one drops out before it is up). One that is out comes back or
is released, because rules 4 and 5 are part of every pass; it may drop out again. A pod that is deleted is gone in the
end. `Scheduled(i)`: the scheduler retries a pod whenever the cluster changes, and one that has room again and again gets
it. Other pods need not end and no more need come. `FairReleasingSpec`, used by one row of section 4, adds strong
fairness of `ScaleDown`, since rule 3 is part of every pass; it makes the violation shown there stronger.

### Handshake: correspondence to the code

`box`, `age`, `room` are the machine; `gateway`, `tenant`, `fc`, `slice`, `node` what the hub holds of it (`fc` is
"unowned" between `liqoctl peer` and the label by which the operator finds its peerings; `node` is "bare" until its
pool's labels are written). `hold` is what is left of `blocked_until`, `missing` the age of `missing_since`. `at`,
`who`, `todo`, `p`, `elapsed` are the pass. Times are ages or remainders and stop at a bound (`AgeCap`, `ElapsedCap`,
`MissingCap`) past which no comparison changes.

| Actions | Code |
|---|---|
| `Observe` | inventory and hub as one snapshot; `elapsed` is how long ago |
| `LabelSweep`, `FirstSweep`, `Sweep` | `label_virtual_nodes`, at the start of `bring_up` and after each machine; `Label` is `ensure_node_metadata` |
| `Look`, `LeaveAlone`, `StartPeer`, `StartAdvertise` | `peering_pods_stuck_now` and the loop's conditions: backoff, `machine_ready`, peered already |
| `Peered`, `Blocked`, `PeerFails`, `Own` | the three ends of `liqoctl peer`, and the label that makes the peering ours |
| `Advertise`, `AdvertiseFails`, `Advertised`, `SetEndpoint` | `ensure_slice`, `create_slice`, the endpoint on the Secret |
| `BroughtUp`, `BootTimeout`, `ToOrphans`, `Orphan`, `PassDone` | rules 5 and 6 |
| `Rent`, `Boot`, `RoomChanges`, `Schedule`, `NodeAppears`, `TenantEnds`, `Vanish`, `Tick`, `Crash` | the machine, the scheduler, Liqo, the namespace controller, time, a restart |

A machine keeps its credentials while it is listed (`Controller` has the rest), and a teardown takes all its objects
(`Teardown` has the rest). **Fairness**: weak for `Loop`, strong for `Tick`, which the loop enables whenever it sleeps;
nothing is asked of the machines, the scheduler or Liqo, so "useful or gone" rests on the code's timeouts alone.

### Teardown: correspondence to the code

`obj[m][k]` is an object of machine `m`: ResourceSlice, VirtualNode, NamespaceMap, Secret and ForeignCluster of its
tenant namespace, the namespace, and the node; "bare" is live without its finalizer, "deleting" is deleted and held by
one. `at` is the call of `force_teardown`, in the order of the code. `Replicator` removes the finalizers Liqo put
there, and works only while the machine answers; `Unstick` is the code's substitute for it. `ReapAgain` is a later
pass that finds the machine by its labelled ForeignCluster (`Findable`). **Fairness**: weak for the loop and for
the hub's own controllers; none for the replicator, whose remote clusters need not answer.

### Offers, Routing, Requests, Renting: correspondence to the code

`ReadFile` is `_load_fleet_file`, `_parse_providers`, `_parse_pools` and `validate` as far as providers, batches,
priorities and entries go; `Place` is `load_all`, `SizeEntry` is `flavor_shapes`. In a pass, `Shapes` is `shapes_for`,
`StartSlot` a turn of `scale_up`, and `PassOver`, `Ask`, `NothingToRent` with the ends of `create` are `rent_one`.
`QuotaReached` is OVH's end of `create`: the first quota refusal is answered with False, and the flavors behind it are
not asked for; `NoCapacity` is the end of the list. `Quotas` are the providers that have such a refusal. `refused`,
`skipped`, `full`, `rented` are history: offers refused, providers passed over for their batch, providers that met
their quota, the offer taken. A *place* `<<k, j>>` is the `j`-th flavor in the list of entry `k`; `trying` is the set
of places `create` has still to go through, `Foremost` the one it is at. `Routing` has `match` and what it calls, and
beside it the rules of the scheduler as Kubernetes documents them, applied to what the node carries: the labels and
taints `ensure_node_metadata` writes into the map Liqo has put its own labels in (`NodeLabels`). `match` looks at the
pool's labels and at one of Liqo's; the others (`OwnLabels`: whose node it is, on what hardware) and the pool's name
are `Unseen` to it. Both sides read terms with their `matchFields`, which `match` takes for no match and the scheduler
compares with the node's name. `Requests` has `pod_requests`, and beside it the kubelet's order: init containers one
after the other, sidecars staying up, then the containers. `Renting` lets one pod go through all of it, next to slots
for other pods and for the floor; the three parts meet in the pod's request, in the pool `match` chose, and in the
flavor that was rented.

### Cloud, Ovh, Vultr, Providers: correspondence to the code

`Cloud` is one account and a caller that makes one call at a time: `create` that returns a flavor made exactly one
machine of it, `create` that returns False made none, `create` that raises says nothing; `destroy` that returns leaves
none; a listing has every machine of ours and nobody else's, or raises. In `Ovh` and `Vultr` an action is a request
and what the cloud does with it, or an answer (`Accept`, `Posted`, `Refused`, `Delete`, `Deleted`, `ListRegion`,
`ReadPage`, ...); `step`, `todo`, `region`, `cursor`, `out` are the methods' locals. `Fails` ends any request with an
exception, carried out or not. `MarketMoves` changes what Vultr sells while `plans()` keeps what it read. A Vultr
process starts as `main` does: `SizeFlavors`, or `SizingFails`, which `flavor_shapes` swallows; then `Validate`, which
reads the plans if they have not been read, or `ValidateFails`, which ends the process. `Restart` starts over between
two calls. `Reconfigure` restarts OVH with other placements. To `Cloud` both are `Forget`: the caller has no call in
progress and no inventory. One placement per provider is modelled, in one Vultr region. **Fairness**: weak for
`Proceeds`: a request is answered or times out.

Assumed: no region is given up that still has machines (`Careless = FALSE`), and an error status of Vultr has a body
and means that nothing was done (`Faults = {}`). Section 4 says what the contract loses without each.

## 3. Runs that pass

| Run | Properties | World and bounds | What it shows |
|---|---|---|---|
| `failures` | `BoxHasSecret`, `DestroyedOnce`, `KeepsFleet` | one machine; hub calls that raise, a `create()` that may or may not have created, refused deletes, a `destroy()` that raises, flapping nodes, restarts, `make recycle`; full inventories | no machine runs without the credentials that reach it, no pass destroys one twice, every step is one of `Fleet` |
| `ceilings` | `TypeOK`, `PoolCeilingHeld`, `CeilingHeld` | three names, two pools (maxima 2 and 1, one with a floor), two clouds with batches of one, a fleet maximum of 2; full inventories; timers 0 | pools share batch and ceilings within a pass, and no maximum is passed |
| `floor` | `FloorKept` | two machines, `minMachines` 1, pods and demand | several machines that expire in one pass still leave the floor |
| `converge` | `OrphansSwept`, `CredentialsSwept`, `ScalesToZero`, `UnreachableReleased`, `IdleStayedIdle`, `AbsenceConfirmed` | a restart with `DRAIN` over any fleet and leftovers; pods, demand, blind and incomplete inventories, vanishing machines; the clock moves during a pass | what is left behind is swept; without work the fleet goes to zero; a machine that lost its credentials while its cloud hid it is released; rule 3 releases only what no pass of the last `IdleS` saw in use; rule 6 tears a peering down only when no pass of the last `MissingConfirmS` listed its machine |
| `handshake` | `HandshakeTypeOK`, `SlicesHonest`, `SlicesOwned`, `RefusedLeftAlone`, `UsefulOrGone` | one machine, two ticks to boot, any four of seven kinds of fault | a slice asks only for what the machine has and only behind a peering the loop can find; a refused peering is left alone for `blocked_retry_s`; in the end a machine is capacity its pool's pods can select, or it is gone |
| `teardown` | `TypeOK`, `NothingStuck`, `NothingLeft`, `OffloadingRecovers`, `FindableRemoved` | two machines at any stage of peering, one refused delete | a teardown without a refusal leaves nothing that waits for its machine's cluster, and in the end nothing at all, silent machine or not; Liqo offloads again; what a later pass can find is removed |
| `packing` | `NoBinOverflows`, `NoneInVain`, `FewestMachines` | four pods, six requests (1 to 3 cpus, with or without a GPU), at most one running machine of two kinds, five lists of flavors: unknown, one dimension unmeasured, all measured, two flavors | nothing is overfilled; no machine is rented for a pod that something else holds; where one dimension decides, and the pods are sorted by it, no plan rents a machine more than the best assignment of pods to machines |
| `sizing` | `SizingTypeOK`, `NotRentedTwice`, `EveryPodServed` | two pods, two requests, a small and a large flavor reported in full, two machines, no DaemonSets on them; nodes drop out and come back, pods are deleted and terminate | no plan gives a machine more than the pass counted as free; a pod that a rented plan found room for is given no new bin unless another pod of the plan took that room first or a machine was out; every pod that some flavor holds runs in the end |
| `renting` | `RentingTypeOK`, `NotRentedInVain`, `NotWithheld`, `HoldsThroughout`, `NothingToSpare`, `InConfiguredOrder`, `StopsWithAReason` | every fleet file of seven provider lists and up to two entries, good or bad; every pool of three label sets and three taint sets, alone or in pairs, against pods with a selector, an affinity (by labels, by labels `match` does not see, by fields) and tolerations; pods of up to two init containers and two containers; two slots | the pool and the scheduler agree on every pod that goes by what `match` sees; no offer is taken while an earlier one that would do has not been refused, by itself or with its provider; the machine holds the pod from its first container to its last, and nothing is asked for that the pod never holds; a bad file is refused with a reason |
| `providers` | `ProvidersTypeOK`, `KeepsContract`, `CallsReturn`, `RentsWhatItSized` | three ids, two names of ours and one of somebody else's, two flavors, two regions, one instance per page; sizes that cannot be read, restarts | both providers implement `Cloud`, every call returns, and what Vultr rents has a size in a process that could read sizes when it started |

`FewestMachines` reads "within a small constant of optimal", which `packing.py` says of its heuristic, for the cases
where the constant is 0. `Suffice` is the reference definition, all assignments of pods to machines. The problem is
`Classic`: one flavor, nothing running, every pod packed, and at most one dimension of which one machine has too little,
by which the pods are sorted. Either there are at most four pods, or the last machine is rented for a pod that takes
more than a third of one (`LastIsLarge`); beyond that first fit decreasing is not optimal. That the pods are sorted by
the scarce dimension is a condition of its own, because the code sorts by the *dominant* ratio: with a machine of
(10, 100, 100) and pods of (2, 85, 0), (2, 0, 85), (8, 0, 0), (8, 0, 0) only the first dimension is scarce, but the
other two bring the small pods to the front, where they share a machine, and the plan rents three machines where two
would do. For all other problems with one flavor `NearlyFewest` gives the constant (section 5).

`SizingTypeOK` contains `PackingTypeOK`, which says that no running machine is given more than the pass took for free.

`NotRentedTwice` counts from history: `promised` are the pods of a plan that was rented in full, until a pod is bound or a
machine released. A machine that boots must count as room for them (`BootingShape`), or every pass until it joins rents
another. The property makes two exceptions, and needs both (rows of `sizing` in section 4): a plan that has placed a pod
before, and a pass that has found a machine out, which the code counts for nothing (`controller.py:488-491`).

`EveryPodServed` ties two readings of room together. The plan and the scheduler take it from different places, by
different functions, and put pods in different machines; a pod waits for ever when the plan goes on seeing room that the
scheduler does not. Pods that terminate are such room for a while: `used_on` leaves them out and the scheduler does not,
until they are gone. What DaemonSets take is such room for good, which is why `docs/scaling.md:71-74` keeps them off
virtual nodes; the run has none (`NoDaemons`), and section 4 says what one that slips through does.

`NotRentedInVain` and `NotWithheld` speak of pods that go by no label `match` does not look at (`Foreseen`), `NotWithheld`
also of pods that bar no node by its name; the pods that do are in the run, and the two fail for them (section 4).
`InConfiguredOrder` lets a refusal speak for what was refused: one flavor, or, for a batch or a quota, a whole provider.
`RentsWhatItSized` speaks of a process whose sizing was answered.

`RefusedLeftAlone` counts from history (`refusedFor`): the code's `blocked_until` is lifted early when the gateway pod
is no longer refused, so only an unbroken refusal is promised its time. A restart forgets it, and the property with it.

`OffloadingRecovers` is about Liqo rather than about the operator: while virtual nodes and namespace maps are not
equally many, Liqo offloads nobody's pods, and a teardown that leaves one behind stops the whole hub.

**Bounds.** One machine is enough for properties of one machine against several rules, because the loop's state is per
name; more are used where machines interact (`ceilings`, `floor`, `teardown`). Timers of 0 or 1 tick separate
"expired" from "not yet", and with `MaxPass = 1` the clock moves during a pass, so that a timer may be as long as a
pass; `ceilings` takes 0. `Horizon` is the smallest the assumption allows. `MaxNeed` bounds what packing asks for per
pool and pass; in `ceilings` it exceeds what either maximum leaves. Names are permuted (`SYMMETRY`) only in `floor`,
where no constant tells two names apart and no property is temporal. In `packing` four pods are enough for first fit
and next fit to differ, for a second-best assignment to cost a machine, and for one dimension of a bin to be used up
while others are not. In `sizing` a machine of either flavor, once it has joined, holds any one of the pods: where one
is too small for some pod, it may stand in that pod's way for good at the ceiling (section 4); two machines are enough
for one to be out, or boot, while the other is counted. In `handshake` four faults are more than any one attempt
meets; boot takes two ticks, so a pass can come before, during and after it. In `teardown` one refusal is enough to
leave any one object behind. In `renting` a case is rich in one respect and plain in the others, because the parts
share only the request, the pool and the flavor; two slots exhaust a batch. In `providers` one instance per page puts
every pair of machines on different pages.

`packing`, `teardown` and `renting` do not check deadlock: a plan ends, a machine is torn down once, and a pod, once it
runs, is followed no further. Every other run does.

Every property has a mutant: a definition of the model is replaced by a plausibly wrong one (defined next to it with
the comment `mutant:`) and TLC finds the property violated by it.

## 4. Where code and documents part

Two runs end in a violation on purpose; each checks one sentence of the repository. `PROJECT.json`, "findings", quotes
them.

| Run | The sentence | The behaviour |
|---|---|---|
| `destroy_raises` | one cloud's trouble must not stop teardown at another | `reap` does not catch what `destroy()` raises; the pass ends there, in every pass, and a machine of another cloud is never released |
| `late_join` | rule 5 is for machines that never became a virtual node | rule 5 judges by the virtual nodes read before rule 1, which may take minutes; a machine that has joined since is torn down and destroyed |

Others are one change of a configuration away. In each row TLC, given the named change of a passing run's `.cfg`,
reports the named property violated.

| Change | Violated | What the code does |
|---|---|---|
| `floor`: add `IdleStayedIdle` | `IdleStayedIdle` | rule 3 stops looking at a pool at its floor, so an old idle mark survives a use of the machine, which goes at once when the pool outgrows its floor; `README.md:67-68` says it must stay idle |
| `converge`: `Spec`, no liveness, `Drain = FALSE`, `Events = {"demand", "omit", "api"}` | `AbsenceConfirmed` | an exception before rule 6 leaves the missing mark of a machine the pass saw (`controller.py:746`), so that one later omission counts as absence since the first; `values.yaml:292` says "How long a machine must stay absent" |
| `converge`: add `ReleasesTheIdle` (a property) | `ReleasesTheIdle` | a pod binds between `used_on` and the teardown of its machine and goes with it (`controller.py:708`) |
| `sizing`: `Catalogs <- NotReported`, `SizingSpec` | `NotRentedTwice` | sizes unknown: the machine that boots counts for an empty vector, in which `plan` reads what is absent as zero, and every pass rents another for the same pod until one has joined; `providers/__init__.py:104-105` says "renting one and measuring it". A dimension not reported, or swallowed by a reserve, does the same |
| `sizing`: `SizingSpec`, add `NeverRentedTwice` | `NeverRentedTwice` | a machine whose node is not Ready is in neither `ready` nor `booting` (`controller.py:488-491`) and counts for no room: the next pass rents again for the same pods, with nothing bound or released, and has both when the node is Ready |
| `sizing`: `Daemons <- ADaemon` | `EveryPodServed` | `used_on` leaves DaemonSet pods out (`hub.py:227-229`): the plan goes on placing a pod where the scheduler has no room for it; `docs/scaling.md:71-74` says to keep DaemonSets off virtual nodes |
| `sizing`: `Catalogs <- TwoSizes`, `MaxMachines = 1`, `FairReleasingSpec`, `IdleMachinesYield` | `IdleMachinesYield` | at a ceiling nothing is rented, and nothing is released while a pod waits: an idle machine too small keeps out the one that would fit; the log line at `controller.py:671` says "Nothing is stuck" |
| `sizing`: `Wants <- EvenWants`, `Catalogs <- OneFitsAll`, `SizingSpec`, add `RentsForNewPodsOnly` | `RentsForNewPodsOnly` | every pass plans anew, in whatever order the machines are listed, and a machine that joins changes place: a pod goes to the machine rented for another (`packing.py:100-104`), which fits nowhere else, and one more is rented although there are enough |
| `handshake`: add `PeeringsSwept` | `PeeringsSwept` | a ForeignCluster whose ownership label was not written (`liqo.py:318`) is listed by nobody and outlives its machine |
| `teardown`: add `Converges` | `Converges` | a refused delete is logged, the ForeignCluster goes all the same, and what stays is found by no later pass (`liqo.py:524`) |
| `teardown`: add `OnlyTheDeletedUnstuck` | `OnlyTheDeletedUnstuck` | finalizers are stripped also when the delete before was refused; the docstring at `liqo.py:469` says "Call AFTER delete, never instead of it" |
| `providers`: `Faults = {"gateway"}`, `FalseMeansNothing` | `FalseMeansNothing` | any error status counts as "no capacity" (`vultr/provider.py:432`), also one of a gateway whose request was carried out; `controller.py:264` says "A definite 'nothing was created'" |
| `providers`: `Faults = {"empty"}`, `InventoryInFull` | `InventoryInFull` | an error without a body reads as an empty page (`vultr/provider.py:176`) and ends the listing without an exception |
| `providers`: `Careless = TRUE`, `InventoryInFull` | `InventoryInFull` | `regions()` lists what the placements name now; a machine in a region given up over a restart is invisible (`ovh/provider.py:174`) |
| `providers`: add `RentsOnlyTheSized` | `RentsOnlyTheSized` | sizing fails at startup and is swallowed (`providers/__init__.py:114-120`), `validate()` then reads and keeps the plans (`vultr/provider.py:473-479`), and `create` rents what was never sized |
| `renting`: add `NeverInVain` | `NeverInVain` | `Pool.labels()` has neither the pool's own label nor Liqo's but one, and the node has all of them (`liqo.py:405`, `liqo.py:428-436`): for a pod that excludes such a label a machine is rented in vain |
| `renting`: add `NeverWithheld` | `NeverWithheld` | a pod that selects such a label is sent nowhere, and so is one whose affinity bars some node by its name (`pools.py:117-121`) |
| `renting`: `Empty = TRUE` | `NotRentedInVain` | an affinity term without expressions is true of every pool (`pools.py:122`, `all` of nothing), and to Kubernetes it matches no node: the pod is rented for in vain |
| `renting`: `Blank = TRUE` | `NotWithheld` | a toleration without a value and a taint with an empty one are different to `tolerates` and the same to Kubernetes |
| `renting`: `Soft = TRUE` | `NotWithheld` | a PreferNoSchedule taint is taken for a hard one (`pools.py:165`) |
| `renting`: `Sidecars = TRUE` | `HoldsThroughout` | an init container that stays up is counted as one that ends (`resources.py:169`) |
| `renting`: `Twice = TRUE` | `InConfiguredOrder` | a second entry of a provider in one pool overwrites the flavors of the first (`providers/__init__.py:76`) |
| `renting`: `Faults = {"sizes"}` | `InConfiguredOrder` | a provider that could not be sized at startup is not asked until a restart, while another one is sized |
| `renting`: add `EveryOfferAsked` | `EveryOfferAsked` | the first quota refusal ends OVH's `create` (`ovh/provider.py:235-243`): flavors further down that would do are passed over unasked, because the quota is taken for the account's; the loop then asks the next provider |
| `renting`: add `DeficitSpreads` | `DeficitSpreads` | when a batch is spent the rest goes to the next provider in the same pass; `values.yaml:66` says it waits |
| `renting`: add `ShadowedNeverSelected` | `ShadowedNeverSelected` | the shadowing warning looks at labels only; a pod with a NotIn or DoesNotExist rule selects the pool it calls unreachable |

Behaviours the models contain that read as decisions of the design: a pass with a blind cloud keeps the missing marks
of machines it did see; the machines of a blind cloud do not count towards the ceilings; a condemned machine of a blind
cloud loses its credentials; one waiting pod pins a pool during a drain.

## 5. What is proved

Each theorem holds for every value of the constants that satisfies the module's assumptions.

**Controller** (`ControllerProofs`, `FleetProofs`): any finite set of names, any pools and providers, any timers.

- `TypeCorrect`: `Spec => []TypeOK`. Besides types `TypeOK` says that a call in progress belongs to its rule and that
  no batch is overspent (`budget` stays a natural number).
- `NothingDestroyedTwice`: `Spec => []DestroyedOnce`, with every event allowed. `DestroyedOnce` is not inductive: it
  holds because each rule's work list excludes what earlier rules destroyed, and that is spread over the snapshot.
  `PassInv` says it: a machine destroyed in this pass is in no set of the snapshot a later rule works from (after rule
  0), or was taken off the list of the rule that destroyed it, and rules 3, 4, 5 work on disjoint sets (ready, down,
  neither).
- `CredentialsBeforeMachine`: `Spec => []BoxHasSecret`, assuming `FullInventories` ("blind" and "omit" are not among
  the events; every other failure may happen). `FleetInv` adds what makes it inductive: the snapshot lists every
  machine there still is, the order of `provision` and of `reap` as facts about `stage`, and that orphan rules only
  have names in hand that no machine has.
- `FleetUnderCeiling`: `Spec => []CeilingHeld`, under the same hypothesis and without "ambiguous". `CeilingInv` bounds
  the machines there are by those listed plus those rented in this pass. Neither hypothesis can go: a machine that is
  not listed is not counted, and one that `create()` made before it raised is not counted in `rented`.
- `LoopImplementsFleet`: `Spec => KeepsFleet`, assuming `FullInventories`: every step of the loop and of the world is
  a step of `Fleet` under the refinement mapping, or leaves it alone. `FleetInv` gives each action what its abstract
  step requires (`Reserve` a fresh name, `Forget` a name without a machine).
- `PoolUnderCeiling`: `Spec => []PoolCeilingHeld`, under the hypotheses of `FleetUnderCeiling` and `PoolsApart` (no two
  pools of one name, which `validate` refuses). `PoolCeilingInv`: a pool not sized yet in this pass has no machine the
  snapshot lacks, the one being rented for has room for what it still wants, and the snapshot knows the pool of every
  machine it lists, for which `FleetInv` is needed: a machine without Secret and node would count for no pool.
- `FloorSurvives`: `Spec => []FloorKept`, assuming `OnlyReleased` (neither "vanish" nor "leftover"). `FloorInv`: every
  node has a machine, what rule 3 counts is running and counted for the pool it is labelled with, and a release is
  preceded by a look at the floor. A machine lost to the cloud, or a node that outlives its machine, is counted and
  serves nobody; neither hypothesis can go.
- `IdleIsMeasured`: `Spec => []IdleStayedIdle`, assuming `NoFloors`; every event is allowed. An idle mark is never older
  than the last use rule 3 saw (`IdleInv`). With a floor it is false (section 4).
- `AbsenceIsMeasured`: `Spec => []AbsenceConfirmed`, assuming `PassesComplete`: no exception ends a pass, and no cloud
  is blind while another answers. `AbsenceInv`: a mark older than the last sight of its machine is cleared before the
  pass ends. Without the first hypothesis it is false (section 4), without the second too.
- Both timer theorems rest on `ClockInv`, a clock that passes read once and histories never overtake, and on
  `IntervalsLast`, which says that saturating old timestamps at 0 never shortens an interval below a timer. This is
  what `TimeAssumption` is for.

**Handshake** (`HandshakeProofs`): any machines, timers, faults and number of faults.

- `HandshakeTyped`: `Spec => []HandshakeTypeOK`; every age and remainder stays under its bound.
- `OwnedFirst`: `Spec => []SlicesOwned`, and `NoEmptySlice`: `Spec => []SlicesHonest`. Neither is inductive alone;
  `AdvertInv` adds that what the pass takes for peered stays owned as long as rule 1 runs, that the machine in hand is
  among it when a slice is created, and that a machine has passed the readiness gate before (`ProvisionedFirst`).
- `BackoffKept`: `Spec => RefusedLeftAlone`. `BackoffInv`: while a refusal counts, `blocked_until` lasts at least as
  long and the pod is refused, and the pass knows both, from what it read or because it gave up the attempt itself.

**Packing and Sizing** (`SizingProofs`): any finite set of numbered pods, any natural vectors over any finite set of
dimensions, any number of running machines and lists of flavors. `PackingInv` is the conjunction of the first three
results. For `Sizing`, any catalogs, reserve, pod capacity and number of machines too, the inventories in any order.

- `PlanTypes`: what is left of a running machine never goes below zero (`free` stays a sequence of natural vectors).
- `PlanHolds`: no bin is filled over its flavor in a dimension the flavor reports. The step that matters is
  `BinTakes`: what is measured is the flavor's, not the remainder's, so a dimension used up still counts.
- `PlanRentsNoneInVain`: `RoomShrinks` and `BinShrinks` say that room only shrinks as the plan goes on, so that a pod
  that found none when its bin was opened finds none later.
- `PlanGoesOn`: as long as pods wait, the sorted list has exactly one head and some branch of the loop takes it. That
  `AsAwkward` compares two ratios by cross-multiplication must make it a total preorder (`RatioTransitive`,
  `AwkwardTransitive`), zero denominators included. `PlanEnds`: every step leaves fewer pods waiting.
- `PlanPacksOnce`: in each dimension the bins hold the sum of what the packed pods ask for (`PackedOnce`).
- `PlanIsFirstFit`: every state of a plan is a first-fit-decreasing packing. There is no variable for which pod is in
  which bin, so `HomesInv` says that such an assignment exists: loads are sums of its pods, each bin was opened for the
  first of its pods in the sorted order, and no earlier bin had room for a pod next to the pods before it. A step extends
  the assignment by the pod it handles (`OnePlaced`) or leaves it alone (`HomesKept`).
- `PlanIsNearlyFewest`: where `n` machines of the one flavor would hold all the pods, the plan rents at most
  `1 + 2 s (n - 1)`, with `s` scarce dimensions. Two bins of a plan together exceed a machine in some reported dimension
  (`TwoBinsExceed`), else the later one would not have been opened. In one dimension fewer than `n` disjoint pairs can,
  because `n` machines hold everything (`FewPairs`); the bins are paired off and each pair is counted where it exceeds.
  With `n = 1`: wherever one machine would do, one is rented.
- `PlanRentsTheFewest`: `PackingSpec => []FewestMachines`, by `PlanIsFirstFit` read in the one scarce dimension
  (`Decreasing` against `Spread`, any other assignment). When the last bin's opener takes more than a third of a machine,
  look at the pods up to it and give one that is alone in its bin a weight of 2, every other a weight of 1: each bin but
  the last weighs at least 2, the last opener 1 more, and no machine of any assignment more than 2 (`LastIsSmall`). Of
  at most four pods, openers that exceed a machine pairwise are apart in every assignment (`FirstsApart`), and some bin
  with a second pod leaves two or three bins to look at (`FewArePacked`).
- `SizingTyped`: `SizingSpec => []SizingTypeOK`, whatever the provider reports and DaemonSets take. `SizedInv` adds the
  catalog in force and `PackingInv`, which every pass starts anew with what it takes for free (`OrdersListAll`,
  `ClampedFacts`, `PlanStarts`).
- `RentedOnce`: `SizingSpec => []NotRentedTwice`, assuming `AsReported`: the flavors are known, they report every
  dimension a pod may ask for, and a machine that joins has at least what was reported of its flavor. The invariant
  follows a pod's room from pass to pass. While it is planned, it is in a bin with everything else the bin holds, or
  was placed on a machine that had room (`PlannedInv`); once its bin is rented, the machine has room for it, because
  whatever holds the bin holds the pod (`HolderHasRoom`); and room is never lost, because a machine that joins has at
  least what it was counted for, a machine that is out keeps what is bound to it, and only the scheduler and the rules
  that release take any, which end the promise (`RoomInv`, `RoomKept`). So when the next plan comes to the pod with
  nothing placed, the machine is still as free as it was read. `CountedInv` says that a booting machine is of a known
  flavor and untouched. Without `AsReported` it is false (section 4); `CatalogsAgree` in `MCSizing` has TLC evaluate
  it for the run's catalogs.

**Providers** (`ProvidersProofs`): any instances, names, flavors, regions and page lengths, whatever requests fail.

- `OvhKeepsContract`: `OvhSpec => KeepsContract`, every request of the provider is a step of `Cloud` or none, as long as
  the operator gives up no region that still has machines (`~Careless`). `OvhInv` says that at most one post of a
  `create` has made an instance, that no two machines of ours share a name, that machines of ours are in regions a
  listing reads, and that what has been read of a listing is complete so far.
- `ProvidersKeepContract`: the same of whichever provider the file names, assuming also `Faults = {}` (an error status
  of Vultr has a body and means that nothing was done). `VultrInv`: what a post has made is of the flavor `create` is
  at, what is still to be tried was asked for, and every machine of ours with an id up to the cursor has been read.
  The last one is what a page must keep. A page is the instances behind the cursor with fewer than `PerPage` before
  them, so the proof needs that the next id not read is always on it (`PageNotEmpty`, `PageInFull`): least and greatest
  elements and counts of finite sets, by well-founded induction over the naturals.
- `ProvidersTellTheTruth`: hence False from `create` means that nothing was created, and an inventory that is returned
  has every machine of ours (`FalseMeansNothing`, `InventoryInFull`). The step is `ContractStep`, about `Cloud` alone.
- `ProvidersTyped`: `ProvidersSpec => []ProvidersTypeOK`, with every fault allowed. It needs which locals are alive
  (`VSteps`, `Steps`): a cursor or a half-read list only means something in the middle of a listing.
- `VultrRentsWhatItSized`: `ProvidersSpec => RentsWhatItSized`, with every fault allowed, restarts too. `SizesInv`: where
  sizing was answered, the catalogue it read is the one `create` still consults, and no answer is ready before a post.

Without `~Careless` or `Faults = {}` the contract is false (section 4).

**Teardown** (`TeardownProofs`): any machines, any number of refusals.

- `TeardownTyped`: `Spec => []TypeOK`. That `unpeer` only meets a peering that is there (`PeeringWhole`) rests on the
  ForeignCluster being deleted by the loop alone.
- `SpotlessLeavesNothingStuck`: `Spec => []NothingStuck`. The property speaks of machines released in the past, the code
  of one call after the other; `SoFar` connects them: for each call of `force_teardown`, what the calls before it have
  done for good if none was refused. `StaysDown` is why it stays done: no controller brings a deleted object back, and a
  virtual node comes only from a live slice. So the order of the calls matters in the proof, as the comments in
  `liqo.py` say it does: the slice goes first.

**Renting** (`RentingProofs`): any pods, pools, labels, taints and fleet files, any flavors, sizes and clouds. The
hypotheses are about the cases a run starts from; `CasesAgree` in `MCRenting` states that those of the `renting` run
satisfy them, and each flag that makes one false makes TLC find the property violated (section 4), so none can go.

- `RentingTyped`: `Spec => []RentingTypeOK`, with every fault allowed; the batches stay natural numbers.
- `NothingRentedInVain`: `Spec => []NotRentedInVain`, for pods without an empty affinity term; the property itself is
  about those that go by no hidden label (`Foreseen`). Two readings of labels, affinity and tolerations are compared,
  operator by operator (`SameExpression`, `SameToleration`, `MatchIsAccepted`); the labels agree, but for the `Unseen`
  ones, because what `ensure_node_metadata` writes goes over what Liqo has put there (`SameLabels`).
- `NothingWithheld`: `Spec => []NotWithheld`, for pods whose fields are spelled out (`Usual`); the converse comparison.
- `NeverCrashesOnAFile`: `Spec => []StopsWithAReason`, for any file at all. `validate` looks at the entries as they are
  declared, `load_all` at the sorted ones; `Sorted` says that sorting by priority is a permutation, which takes that
  the number of entries before one tells the entries apart.
- `RentsInConfiguredOrder`: `Spec => []InConfiguredOrder`, if no provider has two entries in the pool (`OneEntryEach`)
  and every cloud answered at startup (`AllSized`). `PlacedInv` says what startup leaves of each entry. `OrderInv` says
  what a pass has done so far: every entry before `next` is gone through (its provider passed over or at its quota, or
  everything that would do refused), and of the entry that is tried, what would do is still to try or refused.
- `HoldsFromFirstToLast`: `Spec => []HoldsThroughout`, and `AsksForNoMore`: `Spec => []NothingToSpare`, if no init
  container stays up (`NoSidecars`). `FitInv`: what is tried holds what it is for, and what the pod got holds its
  request. `PeakInv`: the most the pod has held is, in each dimension, its overhead and the biggest of what has run.
  Between them stands `Requested`, what `pod_requests` computes: sums and maxima over lists of any length.

**Folds** (`FoldProofs`). The community modules define folds by a function that is recursive over the subsets of a set.
`FoldsAgree` and `FoldExists` show that there is exactly one and that it satisfies its equation; `SumUnfolds`,
`TotalUnfolds` and `MostUnfolds` apply it to sums and maxima, and `TotalOf` and `BiggestOf` say what those of a pod's
containers compute. On these rest the facts about sums that packing needs: one element more or less (`SumAdds`,
`SumTakesOut`), disjoint unions, a sum taken group by group (`SumByGroup`), what many small or few large elements amount
to (`SumOfMany`, `SumOfFew`, `SumOfPairs`), and the pigeonhole for sets of bins (`FewInUnion`). The library's induction
theorems cannot be used for this (they take an operator as a parameter), so each of these looks at a smallest
counterexample (`SmallestSet`), which the well-foundedness of inclusion between finite sets provides.

The properties were checked by TLC on the small instances before they were proved.

Every invariant and every action property of the runs that pass is the statement of a theorem. Only model-checked is
liveness (`OrphansSwept`, `CredentialsSwept`, `ScalesToZero`, `UnreachableReleased`, `EveryPodServed`, `UsefulOrGone`,
`NothingLeft`, `OffloadingRecovers`, `FindableRemoved`, `CallsReturn`), which under fairness is outside this use of the
proof system. Of it `PlanGoesOn` and `PlanEnds` prove what safety can say of one call: that `plan()` comes to an end.

## 6. Not modelled

- Key and certificate generation (`pki.py`): cryptography without state.
- Cloud-init and the provision script: text; what it does runs on the machine and is `Boot` in `Handshake`.
- The fake provider (a test double), log set-up, labels, charts, CI, `experiment/`.
- `config.py` as far as it reads environment variables and checks the shape of the YAML, and the numeric bounds of
  `validate`; parsing of quantities in `resources.py`; running the `liqoctl` process and checking its version.
- `report_stuck_peering_pods` and `log_flavors`: they write log lines.
- Vultr's request body, OVH's disk check and image lookup, the parsing of both providers' settings.
- Which pods count as demand or use, by phase and owner (`hub.py`), is whether there is any; `Sizing` has those that
  terminate and those of DaemonSets.

What would come next: a bound for plans over several flavors or next to running machines, where `plan()` has no one
assignment to be compared with; how many machines too many the order of the machines can cost
(`RentsForNewPodsOnly`, section 4); sidecars in `pod_requests` once the code counts them.
