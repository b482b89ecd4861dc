------------------------------ MODULE Teardown ------------------------------
(***************************************************************************)
(* reap() and force_teardown(), one call to the hub's API server at a      *)
(* time, next to the controllers that finish what a delete only starts:    *)
(* the namespace controller, Liqo, and the crdreplicator, which clears its *)
(* finalizers only while the remote cluster answers.                       *)
(*                                                                         *)
(* A refused call is logged and the teardown goes on.  MaxRefusals bounds  *)
(* how many calls are refused in all.                                      *)
(***************************************************************************)
EXTENDS Naturals, FiniteSets

CONSTANTS Machines, NoOne, MaxRefusals

ASSUME TeardownAssumption == NoOne \notin Machines /\ MaxRefusals \in Nat

\* What a peering leaves on the hub: in its tenant namespace, which is "NS", and
\* outside of it.
Inside  == {"RS", "VN", "NM", "Secret"}
Kinds   == Inside \cup {"NS", "FC", "Node"}
Guarded == {"RS", "NM", "Secret"}     \* finalized by the crdreplicator

VARIABLES
  obj,        \* object: absent, live, live without its finalizer, being deleted
  cloud,      \* the machine: it answers, it does not, it has been released
  at,         \* the call the loop is in
  who,        \* the machine it is reaping
  refusals,   \* calls refused so far
  spotless,   \* history: whether no call of this teardown was refused
  clean       \* history: machines released with a spotless teardown

vars == <<obj, cloud, at, who, refusals, spotless, clean>>

Live(m, k)  == obj[m][k] \in {"live", "bare"}
Gone(m, k)  == obj[m][k] = "absent"
Put(m, k, s) == obj' = [obj EXCEPT ![m][k] = s]

Calls == {"idle", "unpeer", "rs", "unstick_rs", "vn", "nm", "unstick_nm",
          "node", "fc", "ns", "secrets", "destroy"}

TypeOK ==
  /\ obj \in [Machines -> [Kinds -> {"absent", "live", "bare", "deleting"}]]
  /\ cloud \in [Machines -> {"answers", "silent", "released"}]
  /\ at \in Calls /\ who \in Machines \cup {NoOne}
  /\ spotless \in BOOLEAN
  /\ refusals \in 0 .. MaxRefusals
  /\ clean \subseteq Machines
  /\ at = "idle" <=> who = NoOne
  /\ at = "unpeer" => ~Gone(who, "FC")

\* Not peered yet, or peered, with a slice Liqo has made a virtual node of, or not yet.
Started == [k \in Kinds |-> "absent"]
Halfway == [k \in Kinds |-> IF k \in {"NS", "FC", "Secret"} THEN "live" ELSE "absent"]
Joined  == [k \in Kinds |-> "live"]

Init ==
  /\ obj \in [Machines -> {Started, Halfway, Joined}]
  /\ cloud = [m \in Machines |-> "answers"]
  /\ at = "idle" /\ who = NoOne
  /\ refusals = 0 /\ spotless = TRUE /\ clean = {}

-----------------------------------------------------------------------------
(* The controllers, and the machine.                                       *)

Elsewhere == UNCHANGED <<at, who, refusals, spotless, clean>>

FallsSilent(m) ==
  /\ cloud[m] = "answers"
  /\ cloud' = [cloud EXCEPT ![m] = "silent"]
  /\ UNCHANGED obj /\ Elsewhere

\* The crdreplicator lets go of a deleted object by way of the remote cluster.
Replicator(m, k) ==
  /\ k \in Guarded /\ obj[m][k] = "deleting" /\ cloud[m] = "answers"
  /\ Put(m, k, "absent")
  /\ UNCHANGED cloud /\ Elsewhere

\* Liqo makes a virtual node of a slice.
NodeAppears(m) ==
  /\ Live(m, "RS") /\ Gone(m, "VN") /\ obj[m]["NS"] = "live"
  /\ obj' = [obj EXCEPT ![m]["VN"] = "live", ![m]["NM"] = "live", ![m]["Node"] = "live"]
  /\ UNCHANGED cloud /\ Elsewhere

\* What is deleted, when nothing guards it, is gone at once.
Deleted(m, k) == CASE obj[m][k] = "live" /\ k \in Guarded \cup {"VN", "NS"} -> "deleting"
                   [] obj[m][k] = "deleting" -> "deleting"
                   [] OTHER -> "absent"

\* A VirtualNode takes its Node and its NamespaceMap along.
VirtualNodeEnds(m) ==
  /\ obj[m]["VN"] = "deleting"
  /\ obj' = [obj EXCEPT ![m]["VN"] = "absent", ![m]["Node"] = Deleted(m, "Node"),
                        ![m]["NM"] = Deleted(m, "NM")]
  /\ UNCHANGED cloud /\ Elsewhere

\* The namespace controller deletes what is in a namespace, then the namespace.
NamespaceEmpties(m) ==
  /\ obj[m]["NS"] = "deleting" /\ \E k \in Inside : Live(m, k)
  /\ obj' = [obj EXCEPT ![m] = [k \in Kinds |-> IF k \in Inside THEN Deleted(m, k) ELSE @[k]]]
  /\ UNCHANGED cloud /\ Elsewhere

NamespaceEnds(m) ==
  /\ obj[m]["NS"] = "deleting" /\ \A k \in Inside : Gone(m, k)
  /\ Put(m, "NS", "absent")
  /\ UNCHANGED cloud /\ Elsewhere

-----------------------------------------------------------------------------
(* Who is reaped, and how.                                                 *)

WorthATry(m) == TRUE             \* mutant: unpeered whether it was peered or not

WasPeered(m) == Live(m, "FC")

\* Some rule wants a machine that is there.  One that died, timed out or was
\* condemned is not unpeered first, and one that never peered has nothing to undo.
Reap(m) ==
  /\ at = "idle" /\ cloud[m] # "released"
  /\ at' \in {"rs"} \cup IF WasPeered(m) THEN {"unpeer"} ELSE {}
  /\ who' = m /\ spotless' = TRUE
  /\ UNCHANGED <<obj, cloud, refusals, clean>>

\* Rule 6 finds the ForeignCluster of a machine that is gone, rule 4 its Node.
Findable(m) == Live(m, "FC") \/ Live(m, "Node")

ReapAgain(m) ==
  /\ at = "idle" /\ cloud[m] = "released" /\ Findable(m)
  /\ at' = "rs" /\ who' = m /\ spotless' = TRUE
  /\ UNCHANGED <<obj, cloud, refusals, clean>>

\* liqoctl unpeer, which never takes the tenant namespace along.  It may fail
\* at any point.
Unpeer ==
  /\ at = "unpeer" /\ at' = "rs"
  /\ \E undone \in SUBSET {"RS", "VN", "FC"} :
       /\ cloud[who] # "answers" => undone = {}
       /\ obj' = [obj EXCEPT ![who] =
                    [k \in Kinds |-> IF k \in undone THEN Deleted(who, k) ELSE @[k]]]
  /\ UNCHANGED <<cloud, who, refusals, spotless, clean>>

-----------------------------------------------------------------------------
(* force_teardown().                                                       *)

Then(call) == at' = call /\ UNCHANGED <<cloud, who, clean>>

\* The call is carried out (a 404 is not an error), or it is refused.
Carried == UNCHANGED <<refusals, spotless>>

Refused ==
  /\ refusals < MaxRefusals /\ refusals' = refusals + 1
  /\ spotless' = FALSE /\ UNCHANGED obj

Delete(k) == (Put(who, k, Deleted(who, k)) /\ Carried) \/ Refused

\* The finalizer goes: an object that was deleted is gone, another is bare.
Unstick(k) ==
  \/ /\ Put(who, k, CASE obj[who][k] = "deleting" -> "absent"
                      [] obj[who][k] = "live"     -> "bare"
                      [] OTHER                    -> obj[who][k])
     /\ Carried
  \/ Refused

DeleteSlice == at = "rs" /\ Delete("RS") /\ Then("unstick_rs")

UnstickSlice == at = "unstick_rs" /\ Unstick("RS") /\ Then("vn")

DeleteVirtualNode == at = "vn" /\ Delete("VN") /\ Then("nm")

\* The maps there are, are deleted and unstuck; if they cannot be listed, neither.
DeleteMaps ==
  /\ at = "nm"
  /\ \/ ~Gone(who, "NM") /\ Delete("NM") /\ Then("unstick_nm")
     \/ Gone(who, "NM") /\ UNCHANGED obj /\ Carried /\ Then("node")
     \/ Refused /\ Then("node")

LeaveMaps ==                     \* mutant: the deleted map is left to its guard
  at = "unstick_nm" /\ UNCHANGED obj /\ Carried /\ Then("node")

UnstickMaps == at = "unstick_nm" /\ Unstick("NM") /\ Then("node")

DeleteNode == at = "node" /\ Delete("Node") /\ Then("fc")

KeepPeering ==                   \* mutant: the peering goes with its namespace
  at = "fc" /\ UNCHANGED obj /\ Carried /\ Then("ns")

DeletePeering == at = "fc" /\ Delete("FC") /\ Then("ns")

DeleteNamespace == at = "ns" /\ Delete("NS") /\ Then("secrets")

LeaveSecrets ==                  \* mutant: the Secrets of the namespace keep their guard
  at = "secrets" /\ UNCHANGED obj /\ Carried /\ Then("destroy")

StripSecrets == at = "secrets" /\ Unstick("Secret") /\ Then("destroy")

\* reap() goes on to release the machine.
Release ==
  /\ at = "destroy" /\ at' = "idle" /\ who' = NoOne /\ spotless' = TRUE
  /\ cloud' = [cloud EXCEPT ![who] = "released"]
  /\ clean' = IF spotless THEN clean \cup {who} ELSE clean
  /\ UNCHANGED <<obj, refusals>>

-----------------------------------------------------------------------------
ForceTeardown ==
  \/ DeleteSlice \/ UnstickSlice \/ DeleteVirtualNode \/ DeleteMaps \/ UnstickMaps
  \/ DeleteNode \/ DeletePeering \/ DeleteNamespace \/ StripSecrets

Loop == Unpeer \/ ForceTeardown \/ Release \/ \E m \in Machines : ReapAgain(m)

Hub(m) == VirtualNodeEnds(m) \/ NamespaceEmpties(m) \/ NamespaceEnds(m)

Next ==
  \/ Loop
  \/ \E m \in Machines :
       \/ Reap(m) \/ Hub(m) \/ NodeAppears(m) \/ FallsSilent(m)
       \/ \E k \in Guarded : Replicator(m, k)

Spec == Init /\ [][Next]_vars

\* The loop runs for ever, and so do the hub's own controllers.  Nothing is
\* asked of the crdreplicator, whose remote clusters need not answer.
FairSpec ==
  /\ Spec /\ WF_vars(Loop)
  /\ \A m \in Machines : WF_vars(Hub(m))

-----------------------------------------------------------------------------
\* A teardown none of whose calls was refused ends with nothing left on the hub,
\* whether the machine ever answers again or not.
NothingLeft == \A m \in Machines : m \in clean ~> \A k \in Kinds : Gone(m, k)

\* What it does leave then, the hub's own controllers can finish: nothing keeps a
\* finalizer that only the crdreplicator clears, nothing is there that a virtual
\* node could come from again, and the namespace is on its way out.
NothingStuck ==
  \A m \in clean :
    /\ \A k \in Guarded : obj[m][k] \in {"absent", "bare"}
    /\ Gone(m, "RS") /\ Gone(m, "FC") /\ ~Live(m, "NS") /\ ~Live(m, "VN")

\* Liqo offloads to nobody while the virtual nodes and the maps are not equally
\* many.  As long as no call is refused, it offloads again and again, whoever
\* is torn down.
Offloads ==
  Cardinality({m \in Machines : ~Gone(m, "VN")}) = Cardinality({m \in Machines : ~Gone(m, "NM")})

OffloadingRecovers == []<>(refusals = 0 => Offloads)

\* What the rules can find of a machine that is gone, they remove, however many
\* calls are refused.
FindableRemoved ==
  \A m \in Machines : cloud[m] = "released" /\ Findable(m) ~> ~Findable(m)

\* The finalizer of an object is only taken away once it has been deleted.
OnlyTheDeletedUnstuck == \A m \in Machines : obj[m]["RS"] # "bare" /\ obj[m]["NM"] # "bare"

\* Every rule converges: of a machine that has been released nothing stays.
Converges == \A m \in Machines : cloud[m] = "released" ~> \A k \in Kinds : Gone(m, k)
=============================================================================
