------------------------------ MODULE MCRenting ------------------------------
(***************************************************************************)
(* Values of Renting's constants for TLC.  A case is rich in one respect   *)
(* and plain in the others: in the fleet file, good or bad; in the pod's   *)
(* labels and tolerations and the pools'; in the pod's containers.         *)
(***************************************************************************)
EXTENDS Renting, FiniteSetsExt

CONSTANTS
  cpu, gpu,
  ovh, vultr, other,                          \* other is not in the image
  small, large, huge, retired,                \* flavors; retired is sold nowhere
  Blank, Soft, Empty, Sidecars, Twice         \* where code and cluster part

Both(k) == [d \in Dims |-> k]

Sizes == (small :> Both(1)) @@ (large :> Both(2)) @@ (retired :> Both(2)) @@ (huge :> Both(3))

Market == (ovh :> {small, large, huge}) @@ (vultr :> {large, small})

OneEach == {Both(1)}

-----------------------------------------------------------------------------
(* Fleet files: up to two providers and two entries.                       *)

Provider(t, b) == [name |-> t, batch |-> b]
Entry(t, n, fs) == [provider |-> t, priority |-> n, flavors |-> fs]

ProviderLists ==
  {<< >>, <<Provider(ovh, 2)>>, <<Provider(ovh, 1), Provider(vultr, 1)>>,
   <<Provider(vultr, 2), Provider(ovh, 1)>>, <<Provider(ovh, 1), Provider(ovh, 1)>>,
   <<Provider(ovh, 0), Provider(vultr, 1)>>, <<Provider(ovh, 1), Provider(other, 1)>>}

Entries2 ==
  {Entry(t, n, fs) : t \in {ovh, vultr, other}, n \in {10, 20},
     fs \in {<< >>, <<small>>, <<small, large>>, <<large, small>>, <<retired, large>>}}

Distinct(e) == Twice \/ \A i, j \in DOMAIN e : e[i].provider = e[j].provider => i = j

SomeFiles ==
  [providers : ProviderLists,
   entries : {e \in {<< >>} \cup {<<x>> : x \in Entries2} \cup (Entries2 \X Entries2) : Distinct(e)}]

PlainFile == [providers |-> <<Provider(ovh, 1)>>, entries |-> <<Entry(ovh, 10, <<small>>)>>]
ThreeSizes ==
  [providers |-> <<Provider(ovh, 1)>>, entries |-> <<Entry(ovh, 10, <<small, large, huge>>)>>]

-----------------------------------------------------------------------------
(* Pods and pools over two labels and a taint.                             *)

Liqo == [type |-> "virtual-node"]
OfTheMachine == [arch |-> "amd64"]
NotAllowed == [key |-> "not-allowed", value |-> "true", effect |-> "NoExecute"]

Expression(key, op, values) == [key |-> key, op |-> op, values |-> values]

ByLabel(keys, values) ==
  {Expression(key, op, {v}) : key \in keys, v \in values, op \in {"In", "NotIn"}}
  \cup {Expression(key, op, {}) : key \in keys, op \in {"Exists", "DoesNotExist"}}

Expressions ==
  ByLabel({"gpu", "type"}, {"a10", "virtual-node"})
  \cup {Expression("gpu", "NotIn", {"a10", "l4"})}

Term(es) == [exprs |-> es, fields |-> {}]

Affinities ==
  {{}} \cup {{Term({e})} : e \in Expressions} \cup {{Term(t)} : t \in kSubset(2, Expressions)}
       \cup {{Term({e}), Term({f})} : e \in Expressions, f \in Expressions}
       \cup IF Empty THEN {{Term({})}} ELSE {}

FewAffinities == {{}} \cup {{Term({e})} : e \in Expressions}

\* By a label of Liqo's own, by the pool's name, by the name of a node.
OwnTerms ==
  {Term({e}) : e \in ByLabel({"arch", "pool"}, {"amd64", "one"})}
  \cup [exprs : {{}} \cup {{e} : e \in Expressions}, fields : {{"In"}, {"NotIn"}}]

OwnAffinities == {{t} : t \in OwnTerms} \cup {{t, Term({e})} : t \in OwnTerms, e \in Expressions}

Toleration(key, op, value, effect) == [key |-> key, op |-> op, value |-> value, effect |-> effect]

OfLiqo == Toleration("not-allowed", "Exists", Absent, Absent)

Tolerations ==
  {{}, {OfLiqo}, {Toleration(Absent, "Exists", Absent, Absent)},
   {Toleration(Absent, "Exists", Absent, "NoSchedule")},
   {OfLiqo, Toleration("gpu", "Equal", "a10", Absent)},
   {OfLiqo, Toleration("gpu", "Equal", "l4", "NoSchedule")},
   {OfLiqo, Toleration("gpu", "Exists", Absent, "NoExecute")}}
  \cup IF Blank THEN {{OfLiqo, Toleration("gpu", "Equal", Absent, Absent)}} ELSE {}

Pod(selector, terms, tolerations, init, app, overhead) ==
  [selector |-> selector, terms |-> terms, tolerations |-> tolerations,
   init |-> init, app |-> app, overhead |-> overhead]

Selectors == {<< >>, [gpu |-> "a10"], [type |-> "virtual-node"]}
OwnSelectors == {[arch |-> "amd64"], [arch |-> "arm64"], [pool |-> "one"]}

Labelled(selectors, affinities, tolerations) ==
  {Pod(s, a, t, << >>, <<Both(1)>>, Nothing) : s \in selectors, a \in affinities, t \in tolerations}

Taint(value, effect) == [key |-> "gpu", value |-> value, effect |-> effect]

Taints ==
  {{}, {Taint("a10", "NoSchedule")}, {Taint("l4", "NoExecute")}}
  \cup (IF Blank THEN {{Taint("", "NoSchedule")}} ELSE {})
  \cup (IF Soft THEN {{Taint("a10", "PreferNoSchedule")}} ELSE {})

Pool(n) == [name : {n}, labels : {<< >>, [gpu |-> "a10"], [gpu |-> "l4"]}, taints : Taints]

One == {<<q>> : q \in Pool("one")}
Two == {<<q, r>> : q \in Pool("one"), r \in Pool("two")}

PlainPools == <<[name |-> "one", labels |-> << >>, taints |-> {}]>>

-----------------------------------------------------------------------------
(* Pods of up to two init containers and up to two containers.             *)

Small(k) == [Dims -> 0 .. k]

InitContainer == [request : Small(2), always : {FALSE} \cup IF Sidecars THEN {TRUE} ELSE {}]

Inits == {<< >>} \cup {<<c>> : c \in InitContainer} \cup (InitContainer \X InitContainer)

Apps == {<<v>> : v \in Small(2)} \cup (Small(1) \X Small(2))

Loaded == {Pod(<< >>, {}, {OfLiqo}, i, a, o) : i \in Inits, a \in Apps, o \in {Nothing, Both(1)}}

Sized == {Pod(<< >>, {}, {OfLiqo}, << >>, <<Both(k)>>, Nothing) : k \in {1, 2}}

-----------------------------------------------------------------------------
Case(ps, fleets, files) == [pod : ps, pools : fleets, file : files]

SomeCases ==
  Case(Sized, {PlainPools}, SomeFiles)
  \cup Case(Labelled(Selectors, Affinities, Tolerations), One, {PlainFile})
  \cup Case(Labelled(Selectors, FewAffinities, Tolerations), Two, {PlainFile})
  \cup Case(Labelled(Selectors, OwnAffinities, {{}, {OfLiqo}}), One, {PlainFile})
  \cup Case(Labelled(OwnSelectors, FewAffinities, {{}, {OfLiqo}}), One, {PlainFile})
  \cup Case(Loaded, {PlainPools}, {ThreeSizes})

\* What the proofs suppose of the cases is so of these.
ASSUME CasesAgree ==
  /\ OneEntryEach \/ Twice
  /\ NoSidecars \/ Sidecars
  /\ \A c \in Cases :
       /\ (\A t \in c.pod.terms : ~Hollow(t)) \/ Empty
       /\ \/ Blank \/ Soft
          \/ \A i \in DOMAIN c.pools : Usual(c.pod, {LiqoTaint} \cup c.pools[i].taints)
=============================================================================
