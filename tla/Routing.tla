------------------------------- MODULE Routing -------------------------------
(***************************************************************************)
(* Which pool a waiting pod is rented for (pools.py), next to the scheduler *)
(* that later decides whether the pod may use the machine: "the prediction  *)
(* and the scheduler's later decision must agree".  A pod waits, the loop   *)
(* routes it and rents, labels the machine's virtual node, and the          *)
(* scheduler tries the pod on it.                                           *)
(*                                                                          *)
(* Labels are functions from some keys to values.  A pod is a record of     *)
(*   selector     its nodeSelector, a function like the labels              *)
(*   terms        its required node affinity, of which one has to hold, or  *)
(*                {} if it has none: each with expressions over labels, and *)
(*                the operators of its fields, which go by the name of a    *)
(*                node that is there                                        *)
(*   tolerations                                                            *)
(* in the form the API server accepts.                                      *)
(***************************************************************************)
EXTENDS Naturals

CONSTANTS
  LiqoLabels,     \* what Liqo puts on a virtual node (pools.VNODE_LABELS)
  LiqoTaint,      \* and taints it with (pools.VNODE_TAINT)
  OwnLabels,      \* what else Liqo puts there: whose node it is, what machine
  PoolLabel,      \* the key of the label the operator adds itself (POOL_LABEL)
  Absent          \* a field that is left out

VARIABLES
  pod,            \* the pod that waits
  pools,          \* cfg.pools, in order
  target,         \* the pool a machine is rented from for it, 0 for none
  step            \* waiting, routed, and whether the scheduler accepts the node

-----------------------------------------------------------------------------
(* pools.py.                                                               *)

\* {**g, **f}: what both have, f decides.
Over(f, g) == [k \in DOMAIN f \cup DOMAIN g |-> IF k \in DOMAIN f THEN f[k] ELSE g[k]]

Labels(pool) == Over(pool.labels, LiqoLabels)

EffectiveTaints(pool) == {LiqoTaint} \cup pool.taints

Present(key, labels) == key \in DOMAIN labels

NotInIfPresent(e, labels) ==     \* mutant: a label that is missing is in no set
  Present(e.key, labels) /\ labels[e.key] \notin e.values

NotInOrMissing(e, labels) == Present(e.key, labels) => labels[e.key] \notin e.values

MatchesExpression(e, labels) ==
  CASE e.op = "Exists"       -> Present(e.key, labels)
    [] e.op = "DoesNotExist" -> ~Present(e.key, labels)
    [] e.op = "In"           -> Present(e.key, labels) /\ labels[e.key] \in e.values
    [] e.op = "NotIn"        -> NotInOrMissing(e, labels)
    [] OTHER                 -> FALSE

\* There is no node yet to have a name.
MatchesTerm(t, labels) ==
  t.fields = {} /\ \A e \in t.exprs : MatchesExpression(e, labels)

AffinityMatches(x, labels) ==
  x.terms = {} \/ \E t \in x.terms : MatchesTerm(t, labels)

SelectorMatches(x, labels) ==
  \A key \in DOMAIN x.selector : Present(key, labels) /\ labels[key] = x.selector[key]

Tolerates(t, taint) ==
  /\ t.effect \in {Absent, taint.effect}
  /\ IF t.key = Absent
     THEN t.op = "Exists"
     ELSE t.key = taint.key /\ (t.op = "Exists" \/ t.value = taint.value)

ToleratesAll(x, taints) == \A taint \in taints : \E t \in x.tolerations : Tolerates(t, taint)

Matches(x, pool) ==
  /\ SelectorMatches(x, Labels(pool))
  /\ AffinityMatches(x, Labels(pool))
  /\ ToleratesAll(x, EffectiveTaints(pool))

Fitting(x) == {i \in DOMAIN pools : Matches(x, pools[i])}

\* The first pool that matches.
Match(x) == IF Fitting(x) = {} THEN 0 ELSE CHOOSE i \in Fitting(x) : \A j \in Fitting(x) : i <= j

\* What the warning about a pool that can never be selected looks at.
Covers(earlier, later) == \A key \in DOMAIN later : key \in DOMAIN earlier /\ earlier[key] = later[key]

Shadowed(i) ==
  \E j \in 1 .. i - 1 : pools[j].taints = {} /\ Covers(Labels(pools[j]), Labels(pools[i]))

-----------------------------------------------------------------------------
(* The virtual node, and the scheduler.                                    *)

PoolLabelOnly(i) == [k \in {PoolLabel} |-> pools[i].name]      \* mutant: nodeLabels are forgotten

\* ensure_node_metadata: the pool's labels and its name.
OperatorLabels(i) == Over([k \in {PoolLabel} |-> pools[i].name], pools[i].labels)

OperatorTaints(i) == pools[i].taints

\* What the virtual node of a machine of pool i carries: the operator's labels go
\* into the same map as Liqo's.
NodeLabels(i) == Over(OperatorLabels(i), Over(LiqoLabels, OwnLabels))
NodeTaints(i) == {LiqoTaint} \cup OperatorTaints(i)

\* The scheduler's own reading of a pod.
Satisfies(labels, e) ==
  CASE e.op = "In"           -> Present(e.key, labels) /\ labels[e.key] \in e.values
    [] e.op = "NotIn"        -> ~(Present(e.key, labels) /\ labels[e.key] \in e.values)
    [] e.op = "Exists"       -> Present(e.key, labels)
    [] e.op = "DoesNotExist" -> ~Present(e.key, labels)

\* A term without expressions and fields selects nothing; a new node is none of
\* those a field names.
Selects(labels, term) ==
  /\ term.exprs # {} \/ term.fields # {}
  /\ "In" \notin term.fields
  /\ \A e \in term.exprs : Satisfies(labels, e)

\* A value that is left out is the empty one, and only two of the effects keep a
\* pod from a node.
Value(v) == IF v = Absent THEN "" ELSE v

Tolerated(x, taint) ==
  \E t \in x.tolerations :
     /\ t.effect = Absent \/ t.effect = taint.effect
     /\ t.key = Absent \/ t.key = taint.key
     /\ t.op = "Exists" \/ Value(t.value) = Value(taint.value)

Accepts(x, i) ==
  /\ \A key \in DOMAIN x.selector :
        Present(key, NodeLabels(i)) /\ NodeLabels(i)[key] = x.selector[key]
  /\ x.terms = {} \/ \E t \in x.terms : Selects(NodeLabels(i), t)
  /\ \A taint \in NodeTaints(i) :
        taint.effect \in {"NoSchedule", "NoExecute"} => Tolerated(x, taint)

-----------------------------------------------------------------------------
\* pending_demand: the pool the pod is counted for.
Route ==
  /\ step = "waiting" /\ step' = "routed"
  /\ target' = Match(pod)
  /\ UNCHANGED <<pod, pools>>

\* The machine has joined.
Try ==
  /\ step = "routed" /\ target # 0
  /\ step' = IF Accepts(pod, target) THEN "bound" ELSE "refused"
  /\ UNCHANGED <<pod, pools, target>>
=============================================================================
