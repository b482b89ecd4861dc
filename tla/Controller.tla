----------------------------- MODULE Controller -----------------------------
(***************************************************************************)
(* The reconcile loop of the autoscaler: one pass observes the fleet and   *)
(* then runs seven rules over that snapshot, each rule calling out to the  *)
(* hub's API server, to Liqo and to the clouds.  The world goes on between *)
(* any two calls, so every call is a step of its own.                      *)
(*                                                                         *)
(* Time.  Only differences of timestamps matter to the code, so clock      *)
(* readings are kept relative to the present: the present is always        *)
(* Horizon, and a Tick moves everything recorded one unit into the past,   *)
(* saturating at 0, which is further back than any timer reaches.          *)
(*                                                                         *)
(* Events names what may happen in a run besides the loop itself:          *)
(*   "pods"       pods bind to the nodes and end                           *)
(*   "demand"     pods wait for a pool and stop waiting                    *)
(*   "blind"      a cloud's inventory cannot be read in a pass             *)
(*   "omit"       an inventory that answers leaves some machine out        *)
(*   "vanish"     a machine is deleted behind the operator's back          *)
(*   "flap"       a virtual node of a running machine turns NotReady       *)
(*   "ambiguous"  create(), or the label written after it, raises, the     *)
(*                machine having been created or not                       *)
(*   "api"        a call to the hub's API server raises                    *)
(*   "leftover"   the API server refuses the deletes of a teardown         *)
(*   "crash"      the operator restarts                                    *)
(*   "condemn"    somebody runs `make recycle`                             *)
(* and destroy() may raise for the machines of a provider in Broken.       *)
(***************************************************************************)
EXTENDS Integers, Sequences, FiniteSets

CONSTANTS
  Names,            \* machine names the namer may come up with (a bound)
  NoName,
  Providers,
  ProviderOf,       \* [Names -> Providers], the cloud a machine lives in
  PoolSeq,          \* cfg.pools, in order
  PoolProviders,    \* pool -> its providers, in priority order
  Unknown,          \* UNKNOWN_POOL
  MinMachines,      \* pool -> minMachines
  PoolMax,          \* pool -> maxMachines, 0 for unlimited
  FleetMax,         \* scale.max_machines, 0 for unlimited
  Batch,            \* provider -> batchSize
  Drain,
  BootS, IdleS, DeadS, MissingConfirmS,
  MaxPass,          \* how many ticks one pass may last (a bound)
  MaxNeed,          \* how many bins packing may ask for at once (a bound)
  Horizon,
  Events,
  Broken            \* providers whose destroy() may raise

Pools == {PoolSeq[i] : i \in DOMAIN PoolSeq}
Buckets == Pools \cup {Unknown}

Never == -1
Stamp == Never .. Horizon

ASSUME NamesAssumption ==
  /\ IsFiniteSet(Names)
  /\ NoName \notin Names
  /\ ProviderOf \in [Names -> Providers]

ASSUME PoolsAssumption ==
  /\ PoolSeq \in Seq(Pools)
  /\ Unknown \notin Pools
  /\ PoolProviders \in [Pools -> Seq(Providers)]
  /\ MinMachines \in [Pools -> Nat]
  /\ PoolMax \in [Pools -> Nat]
  /\ Batch \in [Providers -> Nat]
  /\ FleetMax \in Nat
  /\ MaxNeed \in Nat
  /\ Drain \in BOOLEAN

ASSUME TimeAssumption ==
  /\ BootS \in Nat /\ IdleS \in Nat /\ DeadS \in Nat /\ MissingConfirmS \in Nat
  /\ MaxPass \in Nat
  /\ Horizon \in Nat
  /\ \A s \in {BootS, IdleS, DeadS, MissingConfirmS} : s + MaxPass < Horizon

MinIgnoringDrain(q) == MinMachines[q]      \* mutant: Config.load keeps the floors

\* Config.load() gives every pool a minMachines of 0 when it drains.
MinOf(q) == IF Drain THEN 0 ELSE MinMachines[q]

-----------------------------------------------------------------------------
VARIABLES
  box,            \* when each cloud machine was created, Never if there is none
  secret,         \* when its credentials Secret was created
  pool,           \* the pool its Secret and its virtual node are labelled with
  peering,        \* its ForeignCluster and ResourceSlice on the hub
  vnode,          \* its virtual node
  since,          \* when that node turned NotReady, Never if it is ready
  busy,           \* machines whose node holds a pod that is not a DaemonSet's
  demand,         \* pools some unschedulable pod waits for
  condemned,      \* keys of the recycle ConfigMap
  idleSince,      \* Controller.idle_since
  missingSince,   \* Controller.missing_since
  rule,           \* the rule the pass is in
  stage,          \* the call that rule is making
  target,         \* the machine it is making it for
  todo,           \* the machines that rule has still to look at
  p,              \* the Pass
  alive,          \* scale_down's machines that count against the floor
  blind,          \* Controller._blind
  turn,           \* scale_up: the pool it is at
  wanted,         \* scale_up: how many more to rent for it
  rented,         \* scale_up: rented so far in this pass
  budget,         \* scale_up: what is left of each provider's batch
  offers,         \* rent_one: the providers not tried yet
  destroyed,      \* history: machines destroyed in this pass
  busyAt,         \* history: the last pass whose idle rule had it in use
  listedAt        \* history: the last pass whose inventory showed it

world   == <<box, secret, pool, peering, vnode, since, busy, demand, condemned>>
memory  == <<idleSince, missingSince>>
where   == <<rule, stage, target, todo>>
renting == <<turn, wanted, rented, budget, offers>>
history == <<destroyed, busyAt, listedAt>>
vars    == <<world, memory, where, p, alive, blind, renting, history>>

Rules == {"sleep", "observe", "recycle_condemned", "bring_up", "scale_up",
          "scale_down", "reap_dead", "reap_boot_timeouts", "reap_orphans"}

ReapingRules == Rules \ {"sleep", "observe", "bring_up", "scale_up"}

\* The calls a rule may be in the middle of.
ReapStages == {"teardown", "destroy", "drop_secret", "unmark"}
RentStages == {"offer", "create", "drop_unused"}
Stages     == {"none"} \cup ReapStages \cup RentStages

Pass == [now : 0 .. Horizon, demand : SUBSET Pools, machines : SUBSET Names,
         created : [Names -> Stamp], credentials : [Names -> Stamp],
         peered : SUBSET Names, ready : SUBSET Names, down : SUBSET Names,
         since : [Names -> Stamp], booting : SUBSET Names,
         pool : [Names -> Buckets]]

NoStamps == [n \in Names |-> Never]

NoPass == [now |-> Horizon, demand |-> {}, machines |-> {}, created |-> NoStamps,
           credentials |-> NoStamps, peered |-> {}, ready |-> {}, down |-> {},
           since |-> NoStamps, booting |-> {},
           pool |-> [n \in Names |-> Unknown]]

Up == {n \in Names : box[n] # Never}

TypeOK ==
  /\ box \in [Names -> Stamp] /\ secret \in [Names -> Stamp]
  /\ pool \in [Names -> Buckets]
  /\ peering \in [Names -> {"none", "stray", "managed", "sliced"}]
  /\ vnode \in [Names -> {"none", "ready", "notready"}]
  /\ since \in [Names -> Stamp]
  /\ busy \subseteq Names /\ condemned \subseteq Names
  /\ demand \subseteq Pools
  /\ idleSince \in [Names -> Stamp] /\ missingSince \in [Names -> Stamp]
  /\ rule \in Rules /\ stage \in Stages
  /\ target \in Names \cup {NoName}
  /\ stage \in {"none", "offer"} <=> target = NoName
  /\ stage \in ReapStages => rule \in ReapingRules
  /\ stage \in RentStages => rule = "scale_up" /\ wanted > 0
  /\ wanted > 0 => rule = "scale_up" /\ turn > 1
  /\ todo \subseteq Names
  /\ p \in Pass
  /\ alive \subseteq Names
  /\ blind \subseteq Providers
  /\ turn \in 1 .. Len(PoolSeq) + 1 /\ wanted \in Nat /\ rented \in Nat
  /\ budget \in [Providers -> Nat]
  /\ offers \subseteq Providers
  /\ destroyed \subseteq Names
  /\ busyAt \in [Names -> Stamp] /\ listedAt \in [Names -> Stamp]

-----------------------------------------------------------------------------
(* Starting, ending and aborting a pass.                                   *)

NoBudget == [q \in Providers |-> 0]

InitPass ==
  /\ rule = "sleep" /\ stage = "none" /\ target = NoName /\ todo = {}
  /\ p = NoPass /\ alive = {} /\ blind = {}
  /\ turn = 1 /\ wanted = 0 /\ rented = 0 /\ budget = NoBudget /\ offers = {}
  /\ destroyed = {}

\* An operator starts: over the machines S, which earlier lives of it rented
\* for the first pool and brought up, and the credentials of L, which they wrote
\* and did not come to use or to drop.
InitOver(S, L) ==
  /\ box = [n \in Names |-> IF n \in S THEN 0 ELSE Never]
  /\ secret = [n \in Names |-> IF n \in S \cup L THEN 0 ELSE Never]
  /\ since = NoStamps
  /\ pool = [n \in Names |-> IF n \in S \cup L THEN PoolSeq[1] ELSE Unknown]
  /\ peering = [n \in Names |-> IF n \in S THEN "sliced" ELSE "none"]
  /\ vnode = [n \in Names |-> IF n \in S THEN "ready" ELSE "none"]
  /\ busy = {} /\ demand = {} /\ condemned = {}
  /\ idleSince = NoStamps /\ missingSince = NoStamps
  /\ InitPass
  /\ busyAt = NoStamps /\ listedAt = NoStamps

Init == InitOver({}, {})

\* A pass returns, or an exception escapes it: main() logs and sleeps either
\* way, and everything local to the pass is gone.
EndPass ==
  /\ rule' = "sleep" /\ stage' = "none" /\ target' = NoName /\ todo' = {}
  /\ p' = NoPass /\ alive' = {} /\ blind' = {}
  /\ turn' = 1 /\ wanted' = 0 /\ rented' = 0 /\ budget' = NoBudget /\ offers' = {}
  /\ destroyed' = {}

\* A call to the hub goes through or, in runs with "api" events, may fail.
ApiMayRaise == "api" \in Events

\* An exception nothing in the pass catches.  provision() runs under
\* rent_one's try, so nothing escapes scale_up.
Abort ==
  /\ ApiMayRaise
  /\ \/ /\ stage = "none"
        /\ rule \in {"observe", "recycle_condemned", "bring_up", "scale_down"}
     \/ stage \in {"teardown", "drop_secret", "unmark"}
  /\ EndPass
  /\ UNCHANGED <<world, memory, busyAt, listedAt>>

\* The process dies and comes back: the timers restart with it.
Crash ==
  /\ "crash" \in Events
  /\ EndPass
  /\ idleSince' = NoStamps /\ missingSince' = NoStamps
  /\ UNCHANGED <<world, busyAt, listedAt>>

-----------------------------------------------------------------------------
(* observe(): the demand and the inventories first, then the hub.          *)

\* Every inventory that can be read, in all its regions, under our prefix.
Listed(unread, omitted) == {n \in Up \ omitted : ProviderOf[n] \notin unread}

ListMachines ==
  /\ rule = "sleep"
  /\ \E unread \in IF "blind" \in Events THEN SUBSET Providers ELSE {{}},
        omitted \in IF "omit" \in Events THEN SUBSET Up ELSE {{}} :
       LET seen == Listed(unread, omitted)
       IN  /\ blind' = unread
           /\ p' = [NoPass EXCEPT
                      !.demand = demand, !.machines = seen,
                      !.created = [n \in Names |-> IF n \in seen THEN box[n]
                                                   ELSE Never]]
           /\ listedAt' = [n \in Names |-> IF n \in seen THEN Horizon
                                           ELSE listedAt[n]]
  /\ rule' = "observe"
  /\ UNCHANGED <<world, memory, stage, target, todo, alive, renting,
                 destroyed, busyAt>>

\* The pool of a machine: off its Secret, else off its virtual node.
Bucket(n) == IF secret[n] # Never \/ vnode[n] # "none" THEN pool[n] ELSE Unknown

\* The foreign clusters that carry our label; the virtual nodes in a state; when
\* each Secret was created, by the API server's clock.
Peerings == {n \in Names : peering[n] \in {"managed", "sliced"}}
VirtualNodes(states) == {n \in Names : vnode[n] \in states}
MachineCredentials == secret

ReadHub ==
  /\ rule = "observe"
  /\ p' = [p EXCEPT
              !.credentials = MachineCredentials,
              !.peered = Peerings,
              !.ready = VirtualNodes({"ready"}),
              !.down = VirtualNodes({"notready"}),
              !.since = since,
              !.booting = {n \in p.machines \ VirtualNodes({"ready", "notready"}) :
                             p.now - p.created[n] < BootS},
              !.pool = [n \in Names |-> Bucket(n)]]
  /\ rule' = "recycle_condemned"
  /\ todo' = condemned
  /\ UNCHANGED <<world, memory, stage, target, alive, blind, renting, history>>

InPool(S, q) == {n \in S : p.pool[n] = q}

-----------------------------------------------------------------------------
(* reconcile(): from a rule that has looked at everything to the next one. *)

At(r) == rule = r /\ stage = "none"
Done(r) == At(r) /\ todo = {}

Go(r, work) ==
  /\ rule' = r /\ todo' = work
  /\ UNCHANGED <<world, stage, target, p, blind, history>>

StartBringUp ==
  /\ Done("recycle_condemned")
  /\ Go("bring_up", {n \in p.machines : p.credentials[n] # Never})
  /\ UNCHANGED <<memory, alive, renting>>

StartScaleUp ==
  /\ Done("bring_up")
  /\ Go("scale_up", {})
  /\ turn' = IF Drain THEN Len(PoolSeq) + 1 ELSE 1
  /\ budget' = [q \in Providers |-> IF Batch[q] > 1 THEN Batch[q] ELSE 1]
  /\ UNCHANGED <<memory, alive, wanted, rented, offers>>

StartScaleDown ==
  /\ Done("scale_up") /\ wanted = 0 /\ turn = Len(PoolSeq) + 1
  /\ Go("scale_down", p.ready)
  /\ alive' = p.ready \cup p.booting
  /\ UNCHANGED <<memory, renting>>

StartReapDead ==
  /\ Done("scale_down")
  /\ Go("reap_dead", {n \in p.down : p.now - p.since[n] > DeadS})
  /\ UNCHANGED <<memory, alive, renting>>

NotJoinedButKnown ==                       \* mutant: one without credentials is
  {n \in p.machines \ (p.ready \cup p.down \cup p.booting) :
     p.credentials[n] # Never}

\* The machines that had their time to boot and are no virtual node.
NotJoined == p.machines \ (p.ready \cup p.down \cup p.booting)

StartReapBootTimeouts ==
  /\ Done("reap_dead")
  /\ Go("reap_boot_timeouts", NotJoined)
  /\ UNCHANGED <<memory, alive, renting>>

OrphanCredentialsOnly ==                   \* mutant: peerings are not looked at
  {n \in Names : n \notin p.peered /\ p.credentials[n] # Never} \ p.machines

OrphanPeeringsOnly == p.peered \ p.machines   \* mutant: Secrets are not

\* What is left on the hub of machines no inventory lists.
Orphans == {n \in Names : n \in p.peered \/ p.credentials[n] # Never} \ p.machines

MarksKept == missingSince                  \* mutant: a machine seen stays marked

\* The marks that are left once the machines this pass saw are unmarked.
MarksLeft == [n \in Names |-> IF n \in p.machines THEN Never ELSE missingSince[n]]

\* A pass that could not read some inventory stops here.
StartReapOrphans ==
  /\ Done("reap_boot_timeouts")
  /\ blind = {}
  /\ Go("reap_orphans", Orphans)
  /\ missingSince' = MarksLeft
  /\ UNCHANGED <<idleSince, alive, renting>>

FinishPass ==
  /\ \/ Done("reap_boot_timeouts") /\ blind # {}
     \/ Done("reap_orphans")
  /\ EndPass
  /\ UNCHANGED <<world, memory, busyAt, listedAt>>

-----------------------------------------------------------------------------
(* reap(), and the parts of it that recycle_condemned and reap_orphans     *)
(* call on their own.                                                      *)

Call(s, n) == stage' = s /\ target' = n

NextMachine(n) == todo' = todo \ {n}

NeverReleases == "drop_secret"             \* mutant: the machine is not released

AfterTeardown == IF target \in p.machines THEN "destroy" ELSE "drop_secret"

\* force_teardown logs a delete the API server refuses and goes on: any of the
\* ForeignCluster, the slice and the node may survive it.
Leftovers(n) ==
  {"none"} \cup
  IF "leftover" \notin Events THEN {}
  ELSE {peering[n]} \cup IF peering[n] = "sliced" THEN {"managed"} ELSE {}

\* liqo.unpeer when the machine can be asked, then liqo.force_teardown either
\* way: the ForeignCluster, the slice and the node go, and the pods with it.
Teardown ==
  /\ stage = "teardown"
  /\ \E left \in Leftovers(target) : peering' = [peering EXCEPT ![target] = left]
  /\ \/ /\ vnode' = [vnode EXCEPT ![target] = "none"]
        /\ since' = [since EXCEPT ![target] = Never]
        /\ busy' = busy \ {target}
     \/ "leftover" \in Events /\ UNCHANGED <<vnode, since, busy>>
  /\ Call(AfterTeardown, target)
  /\ UNCHANGED <<box, secret, pool, demand, condemned, memory, rule, todo, p,
                 alive, blind, renting, history>>

Destroy ==
  /\ stage = "destroy"
  /\ box' = [box EXCEPT ![target] = Never]
  /\ destroyed' = destroyed \cup {target}
  /\ Call("drop_secret", target)
  /\ UNCHANGED <<secret, pool, peering, vnode, since, busy, demand, condemned,
                 memory, rule, todo, p, alive, blind, renting, busyAt, listedAt>>

\* destroy() is not wrapped: its exception ends the pass.
DestroyRaises ==
  /\ stage = "destroy" /\ ProviderOf[target] \in Broken
  /\ EndPass
  /\ UNCHANGED <<world, memory, busyAt, listedAt>>

\* reap() forgets both timers of the machine, the orphan rule only the one it
\* used, and a condemned name nobody lists keeps whatever it had.
Reaps == ~(rule = "recycle_condemned" /\ target \notin p.machines)
         /\ rule # "reap_orphans"
Forgets == Reaps \/ (rule = "reap_orphans" /\ target \in p.peered)

DropSecret ==
  /\ stage = "drop_secret"
  /\ secret' = [secret EXCEPT ![target] = Never]
  /\ idleSince' = IF Reaps THEN [idleSince EXCEPT ![target] = Never]
                  ELSE idleSince
  /\ missingSince' = IF Forgets THEN [missingSince EXCEPT ![target] = Never]
                     ELSE missingSince
  /\ IF rule = "recycle_condemned"
     THEN Call("unmark", target) /\ UNCHANGED <<todo, alive>>
     ELSE Call("none", NoName) /\ NextMachine(target) /\ alive' = alive \ {target}
  /\ UNCHANGED <<box, pool, peering, vnode, since, busy, demand, condemned, rule,
                 p, blind, renting, history>>

-----------------------------------------------------------------------------
(* Rule 0: recycle_condemned.                                              *)

Recycle(n) ==
  /\ At("recycle_condemned") /\ n \in todo
  /\ Call("teardown", n)
  /\ UNCHANGED <<world, memory, rule, todo, p, alive, blind, renting, history>>

NotPopped(n) == p                          \* mutant: the snapshot stays as it was

\* The machine leaves the snapshot with everything known of it but its peering.
Popped(n) == [p EXCEPT !.machines = @ \ {n}, !.ready = @ \ {n},
                       !.down = @ \ {n}, !.booting = @ \ {n}]

\* unmark_condemned swallows a refusal.
Unmark ==
  /\ stage = "unmark"
  /\ \/ condemned' = condemned \ {target}
     \/ ApiMayRaise /\ UNCHANGED condemned
  /\ p' = Popped(target)
  /\ Call("none", NoName) /\ NextMachine(target)
  /\ UNCHANGED <<box, secret, pool, peering, vnode, since, busy, demand, memory,
                 rule, alive, blind, renting, history>>

-----------------------------------------------------------------------------
(* Rule 1: bring_up.                                                       *)

Becomes(n, state) ==
  /\ peering' = [peering EXCEPT ![n] = state]
  /\ p' = [p EXCEPT !.peered = IF state = "stray" THEN @ ELSE @ \cup {n}]

\* The machine is not up yet, or its peering is still backing off.
Skip(n) == n \notin p.peered /\ UNCHANGED <<peering, p>>

\* liqoctl peer, then the label, then the slice; any of them may raise.
Peer(n) ==
  /\ n \notin p.peered /\ box[n] # Never
  /\ \E state \in {"stray", "managed", "sliced"} : Becomes(n, state)

\* Peered in an earlier pass: the slice exists already, is made now, or fails.
Slice(n) ==
  /\ n \in p.peered
  /\ \/ peering[n] = "managed" /\ box[n] # Never /\ Becomes(n, "sliced")
     \/ UNCHANGED <<peering, p>>

BringUp(n) ==
  /\ At("bring_up") /\ n \in todo
  /\ Skip(n) \/ Peer(n) \/ Slice(n)
  /\ NextMachine(n)
  /\ UNCHANGED <<box, secret, pool, vnode, since, busy, demand, condemned, memory,
                 rule, stage, target, alive, blind, renting, history>>

-----------------------------------------------------------------------------
(* Rule 2: scale_up, rent_one and provision.                               *)

Lesser(a, b) == IF a < b THEN a ELSE b
Greater(a, b) == IF a > b THEN a ELSE b

CappedOffByOne(want, limit, have) ==       \* mutant: one over the limit
  IF limit = 0 THEN want ELSE Lesser(want, limit - have + 1)

\* headroom(): what a limit leaves, and no constraint at all when it is 0.
Capped(want, limit, have) == IF limit = 0 THEN want ELSE Lesser(want, limit - have)

PoolAt(i) == PoolSeq[i]

FleetSizeAtStart == Cardinality(p.machines)     \* mutant: without this pass's own

\* The fleet this pass measures its ceiling against.
FleetSize == Cardinality(p.machines) + rented

\* How many machines packing and the floor call for, under both ceilings.
ToRent(q, bins) ==
  LET have == Cardinality(InPool(p.machines, q))
      need == Greater(bins, MinOf(q) - have)
  IN  Greater(0, Capped(Capped(need, PoolMax[q], have),
                        FleetMax, FleetSize))

\* Packing decides how many bins the waiting pods need: any number up to
\* MaxNeed, and none when no pod waits.
SizePool ==
  /\ At("scale_up") /\ wanted = 0 /\ turn <= Len(PoolSeq)
  /\ \E bins \in IF PoolAt(turn) \in p.demand THEN 0 .. MaxNeed ELSE {0} :
       wanted' = ToRent(PoolAt(turn), bins)
  /\ turn' = turn + 1
  /\ UNCHANGED <<world, memory, where, p, alive, blind, rented, budget, offers,
                 history>>

RentingPool == PoolAt(turn - 1)

ProvidersOf(q) == {PoolProviders[q][i] : i \in DOMAIN PoolProviders[q]}

\* The providers with a flavor big enough for the next slot.
StartSlot ==
  /\ At("scale_up") /\ wanted > 0
  /\ offers' \in SUBSET ProvidersOf(RentingPool) \ {{}}
  /\ stage' = "offer"
  /\ UNCHANGED <<world, memory, rule, target, todo, p, alive, blind, turn, wanted,
                 rented, budget, history>>

Priority(q, c) == CHOOSE i \in DOMAIN PoolProviders[q] :
                    /\ PoolProviders[q][i] = c
                    /\ \A j \in 1 .. i - 1 : PoolProviders[q][j] # c

Preferred(c) == \A d \in offers :
                  Priority(RentingPool, c) <= Priority(RentingPool, d)

\* rent_one returned False, or raised inside: the pool's turn is over.
EndTurn == wanted' = 0 /\ offers' = {} /\ Call("none", NoName)

\* Names are random; a fresh one is no machine's, dead or alive, that anything
\* still remembers.
Fresh == {n \in Names :
            /\ box[n] = Never /\ secret[n] = Never /\ peering[n] = "none"
            /\ vnode[n] = "none" /\ n \notin condemned
            /\ idleSince[n] = Never /\ missingSince[n] = Never
            /\ p.credentials[n] = Never
            /\ n \notin p.machines \cup p.peered \cup p.ready \cup p.down
            /\ n \notin destroyed}

NoOffer ==
  /\ stage = "offer" /\ offers = {}
  /\ EndTurn
  /\ UNCHANGED <<world, memory, rule, todo, p, alive, blind, turn, rented, budget,
                 history>>

AsksAnyway(c) == TRUE                      \* mutant: no batch budget

WithinBudget(c) == budget[c] > 0

\* The batch is spent (or, a bound of the model, Names is used up).
PassOver(c) ==
  /\ stage = "offer" /\ c \in offers /\ Preferred(c)
  /\ ~WithinBudget(c) \/ {n \in Fresh : ProviderOf[n] = c} = {}
  /\ offers' = offers \ {c}
  /\ UNCHANGED <<world, memory, where, p, alive, blind, turn, wanted, rented,
                 budget, history>>

\* provision(): the credentials are written before the machine is asked for.
WriteCredentials(c, n) ==
  /\ stage = "offer" /\ c \in offers /\ Preferred(c)
  /\ WithinBudget(c) /\ n \in Fresh /\ ProviderOf[n] = c
  /\ budget' = [budget EXCEPT ![c] = @ - 1]
  /\ \/ /\ secret' = [secret EXCEPT ![n] = Horizon]
        /\ pool' = [pool EXCEPT ![n] = RentingPool]
        /\ offers' = offers \ {c}
        /\ Call("create", n)
        /\ UNCHANGED wanted
     \/ ApiMayRaise /\ EndTurn /\ UNCHANGED <<secret, pool>>
  /\ UNCHANGED <<box, peering, vnode, since, busy, demand, condemned, memory, rule,
                 todo, p, alive, blind, turn, rented, history>>

Create ==
  /\ stage = "create"
  /\ box' = [box EXCEPT ![target] = Horizon]
  /\ wanted' = wanted - 1 /\ rented' = rented + 1
  /\ offers' = {} /\ Call("none", NoName)
  /\ UNCHANGED <<secret, pool, peering, vnode, since, busy, demand, condemned,
                 memory, rule, todo, p, alive, blind, turn, budget, history>>

\* "No capacity": nothing was created and the next provider is tried.
NoCapacity ==
  /\ stage = "create"
  /\ Call("drop_unused", target)
  /\ UNCHANGED <<world, memory, rule, todo, p, alive, blind, renting, history>>

RaisedLikeNoCapacity ==                    \* mutant: its credentials are dropped
  /\ stage = "create" /\ "ambiguous" \in Events
  /\ box' \in {box, [box EXCEPT ![target] = Horizon]}
  /\ Call("drop_unused", target)
  /\ UNCHANGED <<secret, pool, peering, vnode, since, busy, demand, condemned,
                 memory, rule, todo, p, alive, blind, renting, history>>

\* An exception out of create() says nothing about the machine.
CreateRaises ==
  /\ stage = "create" /\ "ambiguous" \in Events
  /\ box' \in {box, [box EXCEPT ![target] = Horizon]}
  /\ EndTurn
  /\ UNCHANGED <<secret, pool, peering, vnode, since, busy, demand, condemned,
                 memory, rule, todo, p, alive, blind, turn, rented, budget, history>>

DropUnused ==
  /\ stage = "drop_unused"
  /\ \/ /\ secret' = [secret EXCEPT ![target] = Never]
        /\ Call("offer", NoName)
        /\ UNCHANGED <<wanted, offers>>
     \/ ApiMayRaise /\ EndTurn /\ UNCHANGED secret
  /\ UNCHANGED <<box, pool, peering, vnode, since, busy, demand, condemned, memory,
                 rule, todo, p, alive, blind, turn, rented, budget, history>>

-----------------------------------------------------------------------------
(* Rule 3: scale_down.                                                     *)

Floor(q) == IF q = Unknown THEN 0 ELSE MinOf(q)

AtFloorTooLate(q) ==                       \* mutant: one below the floor
  Cardinality(InPool(alive, q)) < Floor(q)

AtFloor(q) == Cardinality(InPool(alive, q)) <= Floor(q)

InUse(n) == n \in busy \/ p.pool[n] \in p.demand

\* dict.setdefault on a timer: it starts now unless it runs already.
Started(timer, n) == IF timer[n] = Never THEN p.now ELSE timer[n]

IdleMarkKept(n) == Started(idleSince, n)        \* mutant: use does not clear it

IdleMarkRestarted(n) ==                    \* mutant: every idle pass restarts it
  IF InUse(n) THEN Never ELSE p.now

\* What the idle timer of a machine becomes: use clears it.
IdleMark(n) == IF InUse(n) THEN Never ELSE Started(idleSince, n)

IdleExpired(n) == ~InUse(n) /\ p.now - Started(idleSince, n) > IdleS

ScaleDown(n) ==
  /\ At("scale_down") /\ n \in todo /\ ~AtFloor(p.pool[n])
  /\ idleSince' = [idleSince EXCEPT ![n] = IdleMark(n)]
  /\ busyAt' = IF InUse(n) THEN [busyAt EXCEPT ![n] = p.now] ELSE busyAt
  /\ IF IdleExpired(n)
     THEN Call("teardown", n) /\ UNCHANGED todo
     ELSE NextMachine(n) /\ UNCHANGED <<stage, target>>
  /\ UNCHANGED <<world, missingSince, rule, p, alive, blind, renting, destroyed,
                 listedAt>>

\* The pool is down to its floor: the rest of it is not looked at, timers
\* included.
LeavePool(q) ==
  /\ At("scale_down") /\ AtFloor(q) /\ InPool(todo, q) # {}
  /\ todo' = todo \ InPool(todo, q)
  /\ busyAt' = [n \in Names |-> IF n \in InPool(todo, q) /\ InUse(n) THEN p.now
                                ELSE busyAt[n]]
  /\ UNCHANGED <<world, memory, rule, stage, target, p, alive, blind, renting,
                 destroyed, listedAt>>

-----------------------------------------------------------------------------
(* Rules 4 and 5: reap_dead and reap_boot_timeouts.                        *)

ReapListed(n) ==
  /\ At("reap_dead") \/ At("reap_boot_timeouts")
  /\ n \in todo
  /\ Call("teardown", n)
  /\ UNCHANGED <<world, memory, rule, todo, p, alive, blind, renting, history>>

-----------------------------------------------------------------------------
(* Rule 6: reap_orphans.                                                   *)

OrphanPeering(n) ==
  /\ At("reap_orphans") /\ n \in todo \cap p.peered
  /\ missingSince' = [missingSince EXCEPT ![n] = Started(missingSince, n)]
  /\ IF p.now - Started(missingSince, n) <= MissingConfirmS
     THEN NextMachine(n) /\ UNCHANGED <<stage, target>>
     ELSE Call("teardown", n) /\ UNCHANGED todo
  /\ UNCHANGED <<world, idleSince, rule, p, alive, blind, renting, history>>

OrphanCredentials(n) ==
  /\ At("reap_orphans") /\ n \in todo \ p.peered
  /\ IF p.now - p.credentials[n] <= BootS
     THEN NextMachine(n) /\ UNCHANGED <<stage, target>>
     ELSE Call("drop_secret", n) /\ UNCHANGED todo
  /\ UNCHANGED <<world, memory, rule, p, alive, blind, renting, history>>

-----------------------------------------------------------------------------
(* The world around the loop.                                              *)

LoopUnchanged == UNCHANGED <<memory, where, p, alive, blind, renting, history>>

\* Liqo projects a virtual node for a slice of a machine it can reach.
NodeAppears(n) ==
  /\ peering[n] = "sliced" /\ vnode[n] = "none" /\ box[n] # Never
  /\ vnode' = [vnode EXCEPT ![n] = "ready"]
  /\ since' = [since EXCEPT ![n] = Never]
  /\ UNCHANGED <<box, secret, pool, peering, busy, demand, condemned>>

NodeDown(n) ==
  /\ vnode[n] = "ready"
  /\ box[n] = Never \/ "flap" \in Events
  /\ vnode' = [vnode EXCEPT ![n] = "notready"]
  /\ since' = [since EXCEPT ![n] = Horizon]
  /\ UNCHANGED <<box, secret, pool, peering, busy, demand, condemned>>

NodeUp(n) ==
  /\ vnode[n] = "notready" /\ box[n] # Never
  /\ vnode' = [vnode EXCEPT ![n] = "ready"]
  /\ since' = [since EXCEPT ![n] = Never]
  /\ UNCHANGED <<box, secret, pool, peering, busy, demand, condemned>>

PodBinds(n) ==
  /\ "pods" \in Events /\ vnode[n] = "ready" /\ n \notin busy
  /\ busy' = busy \cup {n}
  /\ UNCHANGED <<box, secret, pool, peering, vnode, since, demand, condemned>>

PodEnds(n) ==
  /\ n \in busy
  /\ busy' = busy \ {n}
  /\ UNCHANGED <<box, secret, pool, peering, vnode, since, demand, condemned>>

DemandChanges(q) ==
  /\ "demand" \in Events
  /\ demand' = IF q \in demand THEN demand \ {q} ELSE demand \cup {q}
  /\ UNCHANGED <<box, secret, pool, peering, vnode, since, busy, condemned>>

Vanish(n) ==
  /\ "vanish" \in Events /\ box[n] # Never
  /\ box' = [box EXCEPT ![n] = Never]
  /\ UNCHANGED <<secret, pool, peering, vnode, since, busy, demand, condemned>>

Condemn(n) ==
  /\ "condemn" \in Events /\ box[n] # Never /\ n \notin condemned
  /\ condemned' = condemned \cup {n}
  /\ UNCHANGED <<box, secret, pool, peering, vnode, since, busy, demand>>

Older(t) == IF t > 0 THEN t - 1 ELSE t
Aged(f) == [n \in Names |-> Older(f[n])]

\* The clock moves on; a pass takes at most MaxPass ticks.
Tick ==
  /\ rule = "sleep" \/ p.now > Horizon - MaxPass
  /\ box' = Aged(box) /\ secret' = Aged(secret) /\ since' = Aged(since)
  /\ idleSince' = Aged(idleSince) /\ missingSince' = Aged(missingSince)
  /\ p' = IF rule = "sleep" THEN p
          ELSE [p EXCEPT !.now = Older(@), !.created = Aged(@),
                         !.credentials = Aged(@), !.since = Aged(@)]
  /\ busyAt' = Aged(busyAt) /\ listedAt' = Aged(listedAt)
  /\ UNCHANGED <<pool, peering, vnode, busy, demand, condemned, where, alive,
                 blind, renting, destroyed>>

-----------------------------------------------------------------------------
Observe == ListMachines \/ ReadHub
NextRule == \/ StartBringUp \/ StartScaleUp \/ StartScaleDown \/ StartReapDead
            \/ StartReapBootTimeouts \/ StartReapOrphans \/ FinishPass
Reap == Teardown \/ Destroy \/ DropSecret \/ Unmark
Rent == \/ SizePool \/ StartSlot \/ NoOffer \/ Create \/ NoCapacity \/ DropUnused
        \/ \E c \in Providers : PassOver(c) \/ \E n \in Names : WriteCredentials(c, n)
Look == \/ \E n \in Names : \/ Recycle(n) \/ BringUp(n) \/ ScaleDown(n)
                            \/ ReapListed(n) \/ OrphanPeering(n)
                            \/ OrphanCredentials(n)
        \/ \E q \in Buckets : LeavePool(q)

\* What the loop does when every call it makes is answered.
Loop == Observe \/ NextRule \/ Reap \/ Rent \/ Look

Failure == Abort \/ Crash \/ DestroyRaises \/ CreateRaises

Environment ==
  /\ \/ \E n \in Names : \/ NodeAppears(n) \/ NodeDown(n) \/ NodeUp(n)
                         \/ PodBinds(n) \/ PodEnds(n) \/ Vanish(n) \/ Condemn(n)
     \/ \E q \in Pools : DemandChanges(q)
  /\ LoopUnchanged

Next == Loop \/ Failure \/ Environment \/ Tick

Spec == Init /\ [][Next]_vars

\* main() never stops calling reconcile(), and time passes.
FairSpec == Spec /\ WF_vars(Loop) /\ WF_vars(Tick)

\* Clouds that keep failing to list their machines, or to list all of them,
\* do answer in full again and again.
FullInventory == ListMachines /\ blind' = {} /\ p'.machines = Up

\* An operator that is started again, draining for one, finds its fleet there.
FairSpecRestarted ==
  /\ \E S, L \in SUBSET Names : InitOver(S, L)
  /\ [][Next]_vars
  /\ WF_vars(Loop) /\ WF_vars(Tick) /\ SF_vars(FullInventory)

-----------------------------------------------------------------------------
(* Safety.                                                                 *)

\* At most one destroy() per machine and pass, whichever rules want it gone:
\* recycle_condemned and the timers of rules 3 to 5 work off one snapshot.
DestroyedOnce == stage = "destroy" => target \notin destroyed

\* A running, billing machine is never without the credentials that reach it:
\* provision() writes them before it asks for the machine, and every teardown
\* drops them after it has released the machine.
BoxHasSecret == \A n \in Up : secret[n] # Never

\* The fleet never grows past scale.max_machines, however many pools rent in
\* a pass and whatever was rented by a pass that did not end.
CeilingHeld == FleetMax > 0 => Cardinality(Up) <= FleetMax

\* Nor does any pool grow past its own maxMachines.
PoolCeilingHeld ==
  \A q \in Pools : PoolMax[q] > 0 =>
    Cardinality({n \in Up : pool[n] = q}) <= PoolMax[q]

\* Rule 3 releases a machine only when no pass of the last IdleS found it in
\* use: "the autoscaler waits for it to stay idle".
IdleStayedIdle ==
  rule = "scale_down" /\ stage = "teardown" => p.now - busyAt[target] > IdleS

\* Rule 6 tears a peering down only when no pass of the last MissingConfirmS
\* saw the machine in its provider's inventory.
AbsenceConfirmed ==
  rule = "reap_orphans" /\ stage = "teardown"
    => p.now - listedAt[target] > MissingConfirmS

\* Releasing an idle machine leaves its pool at least minMachines machines.
FloorKept ==
  rule = "scale_down" /\ stage = "teardown"
    => Cardinality({n \in Up \ {target} : pool[n] = p.pool[target]})
         >= Floor(p.pool[target])

\* What rule 3 tears down is idle when it does.
ReleasesTheIdle ==
  [][rule = "scale_down" /\ stage = "teardown" /\ stage' \in {"destroy", "drop_secret"}
       => target \notin busy]_vars

-----------------------------------------------------------------------------
(* What all of this implements.                                            *)

\* The machines the hub holds credentials of.
Held == {n \in Names : secret[n] # Never}

\* A create() that raised may have created a machine nobody counts, so a run
\* with such events promises no maximum.
Promised == INSTANCE Fleet WITH
  Machines <- Names, held <- Held, running <- Up,
  Max <- IF "ambiguous" \in Events THEN 0 ELSE FleetMax

\* Seen through credentials and machines alone, every step of every rule, every
\* failure and every event is a step of Fleet or none: a machine is rented under
\* a name that was reserved for it, and given up before its credentials are.
KeepsFleet == Promised!FleetSpec

-----------------------------------------------------------------------------
(* Liveness.                                                               *)

\* A peering whose machine is gone is torn down.
OrphansSwept ==
  \A n \in Names : box[n] = Never /\ peering[n] \in {"managed", "sliced"}
                    ~> peering[n] = "none"

\* Credentials no machine uses are dropped, whoever left them behind.
CredentialsSwept == \A n \in Names : n \in Held \ Up ~> n \notin Held \ Up

\* One cloud's trouble does not keep the machines of another billing.
OthersReleased ==
  \A n \in Names : ProviderOf[n] \notin Broken =>
    (box[n] # Never /\ vnode[n] = "none" ~> box[n] = Never \/ vnode[n] # "none")

\* A machine nothing can reach any more, because its credentials were given up
\* while its cloud hid it, is released once the cloud shows it again.
UnreachableReleased ==
  \A n \in Names : box[n] # Never /\ secret[n] = Never ~> box[n] = Never

\* With no work left and no floor to keep, nothing is rented for ever.
ScalesToZero == <>[](demand = {} /\ busy = {}) => <>[](Up = {})
=============================================================================
