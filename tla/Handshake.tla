----------------------------- MODULE Handshake -----------------------------
(***************************************************************************)
(* How a rented machine becomes capacity: rule 1 of the reconcile loop     *)
(* with the Liqo adapter's calls, next to the scheduler that places the    *)
(* gateway pods, to Liqo, which creates virtual nodes in its own time, and *)
(* to the rules that give up on a machine (boot timeouts and orphans).     *)
(*                                                                         *)
(* A machine keeps its credentials here as long as it is listed, its pool  *)
(* is declared, and a teardown takes all its objects: Controller and       *)
(* Teardown have the rest.                                                 *)
(*                                                                         *)
(* Time passes between passes and while liqoctl runs.  Every timer is an   *)
(* age, or what is left of a deadline, and stops at its bound.             *)
(*                                                                         *)
(* Faults names what may go wrong, MaxFaults times in all:                 *)
(*   "patch"    a label or a virtual node cannot be written                *)
(*   "api"      the API server refuses a slice, or a Secret's endpoint     *)
(*   "hub"      the gateway pods cannot be read                            *)
(*   "timeout"  liqoctl gives up on a peering that could have succeeded    *)
(*   "destroy"  the cloud does not release a machine                       *)
(*   "vanish"   a machine is deleted behind the operator's back            *)
(*   "crash"    the operator restarts                                      *)
(***************************************************************************)
EXTENDS Integers

CONSTANTS
  Machines,
  NoOne,
  BootS, MissingConfirmS, BlockedRetryS,
  AbortBlocked,       \* liqo.abort_blocked_peering
  Faults, MaxFaults

ASSUME HandshakeAssumption ==
  /\ NoOne \notin Machines
  /\ BootS \in Nat /\ MissingConfirmS \in Nat /\ BlockedRetryS \in Nat
  /\ AbortBlocked \in BOOLEAN /\ MaxFaults \in Nat

VARIABLES
  box,        \* the machine: none, booting, its node up, its bootstrap done
  age,        \* how long ago it was created
  room,       \* whether the hub has room for its gateway pod
  gateway,    \* that pod: none, waiting, refused by the scheduler, placed
  tenant,     \* its tenant namespace: none, active, terminating
  fc,         \* its ForeignCluster: none, without our label, with it
  slice,      \* what its ResourceSlice advertises: none, zero, what there is
  node,       \* its virtual node: none, bare, with its pool's labels
  hold,       \* what is left of Controller.blocked_until
  missing,    \* the age of Controller.missing_since, Unmarked for no entry
  at,         \* the call the pass is in
  who,        \* the machine it is in it for
  todo,       \* the machines the rule has still to look at
  p,          \* the Pass, and what bring_up reads before its loop
  elapsed,    \* how long ago the pass read its clock
  faults,     \* how much has gone wrong so far
  refusedFor  \* history: what is left of blocked_retry_s since a handshake was
              \* abandoned, 0 once the gateway pod is no longer refused

hub     == <<gateway, tenant, fc, slice, node>>
pass    == <<at, who, todo, p, elapsed>>
memory  == <<hold, missing>>
machine == <<box, age, room>>
vars    == <<machine, hub, memory, pass, faults, refusedFor>>

Unmarked == -1
Larger(a, b)  == IF a < b THEN b ELSE a
Smaller(a, b) == IF a < b THEN a ELSE b

AgeCap == BootS + MissingConfirmS + 1
ElapsedCap == Larger(BlockedRetryS, MissingConfirmS + 1)
MissingCap == ElapsedCap + MissingConfirmS + 1

Pass == [machines : SUBSET Machines, peered : SUBSET Machines,
         vnodes : SUBSET Machines, booting : SUBSET Machines,
         held : SUBSET Machines, refused : SUBSET Machines, readable : BOOLEAN,
         sliced : SUBSET Machines, pending : SUBSET Machines]

NoPass == [machines |-> {}, peered |-> {}, vnodes |-> {}, booting |-> {},
           held |-> {}, refused |-> {}, readable |-> TRUE, sliced |-> {},
           pending |-> {}]

HandshakeTypeOK ==
  /\ box \in [Machines -> {"none", "booting", "up", "done"}]
  /\ age \in [Machines -> 0 .. AgeCap]
  /\ room \in [Machines -> BOOLEAN]
  /\ gateway \in [Machines -> {"none", "waiting", "refused", "placed"}]
  /\ tenant \in [Machines -> {"none", "active", "terminating"}]
  /\ fc \in [Machines -> {"none", "unowned", "owned"}]
  /\ slice \in [Machines -> {"none", "zero", "honest"}]
  /\ node \in [Machines -> {"none", "bare", "labelled"}]
  /\ hold \in [Machines -> 0 .. BlockedRetryS]
  /\ missing \in [Machines -> Unmarked .. MissingCap]
  /\ at \in {"sleep", "label", "look", "next", "peer", "own", "slice",
             "endpoint", "sweep", "timeouts", "orphans"}
  /\ who \in Machines \cup {NoOne}
  /\ todo \subseteq Machines
  /\ p \in Pass
  /\ elapsed \in 0 .. ElapsedCap
  /\ faults \in 0 .. MaxFaults
  /\ refusedFor \in [Machines -> 0 .. BlockedRetryS]
  /\ at \in {"peer", "own", "slice", "endpoint", "sweep"} <=> who # NoOne
  /\ p.pending \subseteq p.peered

All(v) == [m \in Machines |-> v]

Init ==
  /\ box = All("none") /\ age = All(0) /\ room \in [Machines -> BOOLEAN]
  /\ gateway = All("none") /\ tenant = All("none") /\ fc = All("none")
  /\ slice = All("none") /\ node = All("none")
  /\ hold = All(0) /\ missing = All(Unmarked)
  /\ at = "sleep" /\ who = NoOne /\ todo = {} /\ p = NoPass /\ elapsed = 0
  /\ faults = 0 /\ refusedFor = All(0)

Fault(kind) == kind \in Faults /\ faults < MaxFaults /\ faults' = faults + 1

EndPass ==
  /\ at' = "sleep" /\ who' = NoOne /\ todo' = {} /\ p' = NoPass /\ elapsed' = 0

GoTo(call) == at' = call /\ UNCHANGED <<who, todo, elapsed>>

-----------------------------------------------------------------------------
(* The world.                                                              *)

\* Scale-up rents a machine; names are random, so none comes back to a name
\* something is left of.
Rent(m) ==
  /\ box[m] = "none" /\ tenant[m] = "none" /\ fc[m] = "none"
  /\ hold[m] = 0 /\ missing[m] = Unmarked
  /\ at = "sleep"
  /\ box' = [box EXCEPT ![m] = "booting"] /\ age' = [age EXCEPT ![m] = 0]
  /\ UNCHANGED <<room, hub, memory, pass, faults, refusedFor>>

\* Its node turns Ready, and later provision.sh ends and stamps it: only then
\* do the device plugins advertise what the box has.
Boot(m) ==
  /\ box[m] \in {"booting", "up"}
  /\ box' = [box EXCEPT ![m] = IF @ = "booting" THEN "up" ELSE "done"]
  /\ UNCHANGED <<age, room, hub, memory, pass, faults, refusedFor>>

RoomChanges(m) ==
  /\ room' = [room EXCEPT ![m] = ~@]
  /\ UNCHANGED <<box, age, hub, memory, pass, faults, refusedFor>>

\* The hub's scheduler places a gateway pod, or rules that it cannot; a pod it
\* refused is queued again.
Schedule(m) ==
  /\ gateway[m] \in {"waiting", "refused"}
  /\ gateway' = [gateway EXCEPT ![m] = IF room[m] THEN "placed" ELSE "refused"]
  /\ refusedFor' = [refusedFor EXCEPT ![m] = IF room[m] THEN 0 ELSE @]
  /\ UNCHANGED <<machine, tenant, fc, slice, node, memory, pass, faults>>

\* Liqo turns an accepted slice into a virtual node.
NodeAppears(m) ==
  /\ slice[m] # "none" /\ node[m] = "none" /\ tenant[m] = "active"
  /\ node' = [node EXCEPT ![m] = "bare"]
  /\ UNCHANGED <<machine, gateway, tenant, fc, slice, memory, pass, faults, refusedFor>>

TenantEnds(m) ==
  /\ tenant[m] = "terminating"
  /\ tenant' = [tenant EXCEPT ![m] = "none"]
  /\ UNCHANGED <<machine, gateway, fc, slice, node, memory, pass, faults, refusedFor>>

Vanish(m) ==
  /\ box[m] # "none" /\ Fault("vanish")
  /\ box' = [box EXCEPT ![m] = "none"] /\ age' = [age EXCEPT ![m] = 0]
  /\ UNCHANGED <<room, hub, memory, pass, refusedFor>>

Tick ==
  /\ at \in {"sleep", "peer"}
  /\ age' = [m \in Machines |-> IF box[m] = "none" THEN 0 ELSE Smaller(age[m] + 1, AgeCap)]
  /\ hold' = [m \in Machines |-> Larger(hold[m] - 1, 0)]
  /\ missing' = [m \in Machines |-> IF missing[m] = Unmarked THEN Unmarked
                                    ELSE Smaller(missing[m] + 1, MissingCap)]
  /\ refusedFor' = [m \in Machines |-> Larger(refusedFor[m] - 1, 0)]
  /\ elapsed' = IF at = "sleep" THEN 0 ELSE Smaller(elapsed + 1, ElapsedCap)
  /\ UNCHANGED <<box, room, hub, at, who, todo, p, faults>>

\* The operator restarts: its timers are gone, what it wrote is not.
Crash ==
  /\ Fault("crash") /\ EndPass
  /\ hold' = All(0) /\ missing' = All(Unmarked) /\ refusedFor' = All(0)
  /\ UNCHANGED <<machine, hub>>

-----------------------------------------------------------------------------
(* observe(), and what bring_up() does before its loop.                    *)

Listed == {m \in Machines : box[m] # "none"}
Joined == {m \in Machines : node[m] # "none"}
StillBoots(m) == m \notin Joined /\ age[m] < BootS

Observe ==
  /\ at = "sleep" /\ at' = "label" /\ elapsed' = 0
  /\ p' = [NoPass EXCEPT !.machines = Listed, !.vnodes = Joined,
                         !.peered = {m \in Machines : fc[m] = "owned"},
                         !.booting = {m \in Listed : StillBoots(m)},
                         !.held = {m \in Machines : hold[m] > 0}]
  /\ UNCHANGED <<machine, hub, memory, who, todo, faults, refusedFor>>

\* label_virtual_nodes: every virtual node of names is labelled but those in
\* missed; what is settled need not be looked at again in this pass.
Label(names, missed) ==
  /\ node' = [m \in Machines |->
        IF m \in (names \cap (p.machines \cup p.vnodes)) \ missed /\ node[m] = "bare"
        THEN "labelled" ELSE node[m]]
  /\ p' = [p EXCEPT !.pending = {m \in names : node'[m] # "labelled"}]

Misses(names) ==
  {{}} \cup IF "patch" \in Faults /\ faults < MaxFaults THEN SUBSET names ELSE {}

\* A patch that is refused leaves the node as it was.
LabelSweep(names) ==
  \E missed \in Misses(names) :
     /\ Label(names, missed)
     /\ faults' = IF missed = {} THEN faults ELSE faults + 1

FirstSweep ==
  /\ at = "label" /\ LabelSweep(p.peered) /\ GoTo("look")
  /\ UNCHANGED <<machine, gateway, tenant, fc, slice, memory, refusedFor>>

\* The peering pods the scheduler refuses, and the slices there are.
Look ==
  /\ at = "look" /\ at' = "next" /\ todo' = p.machines
  /\ \/ /\ p' = [p EXCEPT !.refused = {m \in Machines : gateway[m] = "refused"},
                          !.sliced = {m \in Machines : slice[m] # "none"}]
        /\ UNCHANGED faults
     \/ /\ Fault("hub")
        /\ p' = [p EXCEPT !.readable = FALSE,
                          !.sliced = {m \in Machines : slice[m] # "none"}]
  /\ UNCHANGED <<machine, hub, memory, who, elapsed, refusedFor>>

-----------------------------------------------------------------------------
(* bring_up()'s loop.                                                      *)

NodeUp(m) == box[m] \in {"up", "done"}       \* mutant: only the node is asked for

\* The Node is Ready and carries the bootstrap label.
MachineReady(m) == box[m] = "done"

NotRefusedNow(m) == m \notin p.refused       \* mutant: not asked is not refused

NoLongerRefused(m) == p.readable /\ m \notin p.refused

LeaveAlone(m) ==
  /\ at = "next" /\ m \in todo \ p.peered
  /\ ~MachineReady(m) \/ (m \in p.held /\ ~NoLongerRefused(m))
  /\ todo' = todo \ {m}
  /\ UNCHANGED <<machine, hub, memory, at, who, p, elapsed, faults, refusedFor>>

\* liqoctl peer: from here on its tenant namespace and its gateway pod exist.
StartPeer(m) ==
  /\ at = "next" /\ m \in todo \ p.peered
  /\ MachineReady(m) /\ (m \in p.held => NoLongerRefused(m))
  /\ at' = "peer" /\ who' = m
  /\ hold' = [hold EXCEPT ![m] = IF m \in p.held THEN 0 ELSE @]
  /\ tenant' = [tenant EXCEPT ![m] = IF @ = "none" THEN "active" ELSE @]
  /\ gateway' = [gateway EXCEPT ![m] = IF @ = "none" THEN "waiting" ELSE @]
  /\ UNCHANGED <<machine, fc, slice, node, missing, todo, p, elapsed, faults, refusedFor>>

StartAdvertise(m) ==
  /\ at = "next" /\ m \in todo \cap p.peered
  /\ at' = "slice" /\ who' = m
  /\ UNCHANGED <<machine, hub, memory, todo, p, elapsed, faults, refusedFor>>

HalfPeered(m) == IF fc[m] = "none" THEN "unowned" ELSE fc[m]

CanPeer(m) == gateway[m] = "placed" /\ tenant[m] = "active" /\ box[m] # "none"

\* liqoctl succeeds.  The ForeignCluster is there and not yet ours.
Peered ==
  /\ at = "peer" /\ CanPeer(who)
  /\ fc' = [fc EXCEPT ![who] = HalfPeered(who)]
  /\ GoTo("own")
  /\ UNCHANGED <<machine, gateway, tenant, slice, node, memory, p, faults, refusedFor>>

\* report_blocked raises: the handshake is abandoned, what it made stays.
Blocked ==
  /\ at = "peer" /\ gateway[who] = "refused" /\ AbortBlocked
  /\ hold' = [hold EXCEPT ![who] = Larger(BlockedRetryS - elapsed, 0)]
  /\ refusedFor' = [refusedFor EXCEPT ![who] = Larger(BlockedRetryS - elapsed, 0)]
  /\ GoTo("sweep")
  /\ UNCHANGED <<machine, hub, missing, p, faults>>

\* liqoctl gives up, with or without a ForeignCluster to show for it.
PeerFails ==
  /\ at = "peer"
  /\ IF CanPeer(who) THEN Fault("timeout") ELSE UNCHANGED faults
  /\ \/ UNCHANGED fc
     \/ tenant[who] = "active" /\ fc' = [fc EXCEPT ![who] = HalfPeered(who)]
  /\ GoTo("sweep")
  /\ UNCHANGED <<machine, gateway, tenant, slice, node, memory, p, refusedFor>>

OwnAnyway ==                     \* mutant: a label that is not written is let pass
  /\ at = "own"
  /\ \/ fc' = [fc EXCEPT ![who] = "owned"] /\ UNCHANGED faults
     \/ Fault("patch") /\ UNCHANGED fc
  /\ p' = [p EXCEPT !.peered = @ \cup {who}] /\ GoTo("slice")
  /\ UNCHANGED <<machine, gateway, tenant, slice, node, memory, refusedFor>>

\* The ownership label: peerings() finds the machine by it from here on.
Own ==
  /\ at = "own"
  /\ \/ /\ fc' = [fc EXCEPT ![who] = "owned"]
        /\ p' = [p EXCEPT !.peered = @ \cup {who}]
        /\ GoTo("slice") /\ UNCHANGED faults
     \/ /\ Fault("patch") /\ GoTo("sweep")
        /\ UNCHANGED <<fc, p>>
  /\ UNCHANGED <<machine, gateway, tenant, slice, node, memory, refusedFor>>

CanSlice(m) == box[m] \in {"up", "done"} /\ tenant[m] = "active"

\* ensure_slice: advertise what the machine's node says it has.
Advertise ==
  /\ at = "slice" /\ who \notin p.sliced /\ CanSlice(who)
  /\ slice' = [slice EXCEPT ![who] = IF box[who] = "done" THEN "honest" ELSE "zero"]
  /\ GoTo("endpoint")
  /\ UNCHANGED <<machine, gateway, tenant, fc, node, memory, p, faults, refusedFor>>

\* The machine does not answer, its tenant namespace is terminating, or the API
\* server refuses: the next pass tries again.
AdvertiseFails ==
  /\ at = "slice" /\ who \notin p.sliced
  /\ IF CanSlice(who) THEN Fault("api") ELSE UNCHANGED faults
  /\ GoTo("sweep")
  /\ UNCHANGED <<machine, hub, memory, p, refusedFor>>

Advertised ==
  /\ at = "slice" /\ who \in p.sliced
  /\ GoTo("endpoint")
  /\ UNCHANGED <<machine, hub, memory, p, faults, refusedFor>>

\* set_endpoint: what it raises is caught by nobody, and the pass ends.
SetEndpoint ==
  /\ at = "endpoint"
  /\ \/ GoTo("sweep") /\ UNCHANGED <<p, faults>>
     \/ Fault("api") /\ EndPass
  /\ UNCHANGED <<machine, hub, memory, refusedFor>>

WhoeverItIs == {who}             \* mutant: labelled whether it peered or not

JustPeered == {who} \cap p.peered

Sweep ==
  /\ at = "sweep"
  /\ LabelSweep(p.pending \cup JustPeered)
  /\ at' = "next" /\ who' = NoOne /\ todo' = todo \ {who}
  /\ UNCHANGED <<machine, gateway, tenant, fc, slice, memory, elapsed, refusedFor>>

-----------------------------------------------------------------------------
(* Rules 5 and 6.                                                          *)

\* force_teardown: the hub forgets the machine; its tenant namespace may hang.
TornDown(m) ==
  /\ \E left \in {"none", "terminating"} :
       tenant' = [tenant EXCEPT ![m] = IF @ = "none" THEN @ ELSE left]
  /\ gateway' = [gateway EXCEPT ![m] = "none"]
  /\ fc' = [fc EXCEPT ![m] = "none"]
  /\ slice' = [slice EXCEPT ![m] = "none"]
  /\ node' = [node EXCEPT ![m] = "none"]

NeverPeered == p.machines \ (p.peered \cup p.booting)  \* mutant: a peering counts as joining

NeverJoined == p.machines \ (p.vnodes \cup p.booting)

BroughtUp ==
  /\ at = "next" /\ todo = {}
  /\ at' = "timeouts" /\ todo' = NeverJoined
  /\ UNCHANGED <<machine, hub, memory, who, p, elapsed, faults, refusedFor>>

\* reap: the machine is released, or the cloud raises and the pass ends.
BootTimeout(m) ==
  /\ at = "timeouts" /\ m \in todo
  /\ TornDown(m) /\ refusedFor' = [refusedFor EXCEPT ![m] = 0]
  /\ \/ /\ box' = [box EXCEPT ![m] = "none"] /\ age' = [age EXCEPT ![m] = 0]
        /\ hold' = [hold EXCEPT ![m] = 0]
        /\ missing' = [missing EXCEPT ![m] = Unmarked]
        /\ todo' = todo \ {m}
        /\ UNCHANGED <<at, who, p, elapsed, faults>>
     \/ /\ Fault("destroy") /\ EndPass
        /\ UNCHANGED <<box, age, memory>>
  /\ UNCHANGED room

ToOrphans ==
  /\ at = "timeouts" /\ todo = {}
  /\ at' = "orphans" /\ todo' = p.peered \ p.machines
  /\ missing' = [m \in Machines |-> IF m \in p.machines THEN Unmarked ELSE missing[m]]
  /\ UNCHANGED <<machine, hub, hold, who, p, elapsed, faults, refusedFor>>

\* An absence is confirmed before it is believed.
Orphan(m) ==
  /\ at = "orphans" /\ m \in todo /\ todo' = todo \ {m}
  /\ IF missing[m] = Unmarked \/ missing[m] - elapsed <= MissingConfirmS
     THEN /\ missing' = [missing EXCEPT ![m] = IF @ = Unmarked THEN elapsed ELSE @]
          /\ UNCHANGED <<hub, refusedFor>>
     ELSE /\ missing' = [missing EXCEPT ![m] = Unmarked]
          /\ TornDown(m) /\ refusedFor' = [refusedFor EXCEPT ![m] = 0]
  /\ UNCHANGED <<machine, hold, at, who, p, elapsed, faults>>

PassDone ==
  /\ at = "orphans" /\ todo = {} /\ EndPass
  /\ UNCHANGED <<machine, hub, memory, faults, refusedFor>>

-----------------------------------------------------------------------------
Loop ==
  \/ Observe \/ FirstSweep \/ Look
  \/ \E m \in Machines : LeaveAlone(m) \/ StartPeer(m) \/ StartAdvertise(m)
  \/ Peered \/ Blocked \/ PeerFails \/ Own
  \/ Advertise \/ AdvertiseFails \/ Advertised \/ SetEndpoint \/ Sweep
  \/ BroughtUp \/ (\E m \in Machines : BootTimeout(m) \/ Orphan(m))
  \/ ToOrphans \/ PassDone

World(m) ==
  \/ Rent(m) \/ Boot(m) \/ RoomChanges(m) \/ Schedule(m)
  \/ NodeAppears(m) \/ TenantEnds(m) \/ Vanish(m)

Next == Loop \/ (\E m \in Machines : World(m)) \/ Tick \/ Crash

Spec == Init /\ [][Next]_vars

\* The loop runs for ever, and it sleeps between its passes, again and again.
\* Nothing is asked of the machines, of the scheduler or of Liqo.
FairSpec == Spec /\ WF_vars(Loop) /\ SF_vars(Tick)

-----------------------------------------------------------------------------
\* A slice advertises capacity others schedule onto, so what it says must be
\* what the machine has: none is written from a machine that was still being
\* provisioned, however the passes that peered it and sliced it went.
SlicesHonest == \A m \in Machines : slice[m] # "zero"

\* Rules 3, 4 and 6 find a peering by its label.  Nothing that attracts pods
\* exists for a machine they cannot find, whichever write failed.
SlicesOwned ==
  \A m \in Machines : slice[m] # "none" \/ node[m] # "none" => fc[m] = "owned"

\* A machine whose gateway pod has been refused without a break since the last
\* handshake was abandoned is not tried again before blocked_retry_s is over,
\* also when a pass cannot read the pods.
RefusedLeftAlone ==
  [][\A m \in Machines : who # m /\ who' = m /\ at' = "peer" => refusedFor[m] = 0]_vars

\* Whatever the hub, Liqo and the machine do or fail to do, a rented machine
\* ends up as a node its pool's pods can select, or it is given up.
UsefulOrGone ==
  \A m \in Machines :
     box[m] # "none" ~> (node[m] = "labelled" \/ box[m] = "none")

\* The boot timeout is for machines that never became a virtual node.
NeverBecameANode ==
  [][\A m \in Machines :
       at = "timeouts" /\ m \in todo /\ node[m] # "none" => node'[m] # "none"]_vars

\* A peering whose machine is gone by any path is torn down.
PeeringsSwept ==
  \A m \in Machines : box[m] = "none" /\ fc[m] # "none" ~> fc[m] = "none" \/ box[m] # "none"
=============================================================================
