---------------------------- MODULE TeardownProofs ----------------------------
(***************************************************************************)
(* What TLAPS proves of Teardown, for any number of machines and however   *)
(* many calls are refused: that liqoctl is only sent after a machine that  *)
(* is peered, and that what a teardown none of whose calls was refused     *)
(* leaves behind does not need the remote cluster to go away.              *)
(***************************************************************************)
EXTENDS Teardown, TLAPS

\* What may become of an object in a step: it goes towards its end, or a virtual
\* node appears, which takes a slice in a namespace.
Sinks(m, k) ==
  \/ obj'[m][k] = obj[m][k]
  \/ obj[m][k] = "live" /\ obj'[m][k] \in {"bare", "deleting", "absent"}
  \/ obj[m][k] \in {"bare", "deleting"} /\ obj'[m][k] = "absent"

Appears(m, k) ==
  /\ k \in {"VN", "NM", "Node"} /\ Live(m, "RS") /\ obj[m]["NS"] = "live"
  /\ obj'[m][k] = "live"

ObjStep == \A m \in Machines, k \in Kinds : Sinks(m, k) \/ Appears(m, k)

States == {"absent", "live", "bare", "deleting"}

ObjOK == obj \in [Machines -> [Kinds -> States]]

\* Nothing guards a peering: it is there or it is not.
PeeringWhole == \A m \in Machines : obj[m]["FC"] \in {"absent", "live"}

\* One object, or none, goes.
LEMMA OneSinks ==
  ASSUME ObjOK, PeeringWhole, NEW m \in Machines, NEW k \in Kinds, NEW s \in States, Put(m, k, s),
         \/ s = obj[m][k]
         \/ obj[m][k] = "live" /\ s \in {"bare", "deleting", "absent"} /\ (k = "FC" => s = "absent")
         \/ obj[m][k] \in {"bare", "deleting"} /\ s = "absent"
  PROVE  ObjStep /\ ObjOK' /\ PeeringWhole'
<1>1. /\ obj'[m][k] = s
      /\ \A n \in Machines, j \in Kinds : n # m \/ j # k => obj'[n][j] = obj[n][j]
  BY DEF Put, ObjOK
<1>2. ObjOK'
  BY DEF Put, ObjOK
<1>3. PeeringWhole'
  BY <1>1 DEF PeeringWhole, Kinds
<1> QED
  BY <1>1, <1>2, <1>3 DEF ObjStep, Sinks

LEMMA WhatDeletedDoes ==
  ASSUME ObjOK, PeeringWhole, NEW m \in Machines, NEW k \in Kinds
  PROVE  /\ Deleted(m, k) \in {"absent", "deleting"}
         /\ obj[m][k] \in {"absent", "bare"} => Deleted(m, k) = "absent"
         /\ k \in {"FC", "Node"} /\ obj[m][k] # "deleting" => Deleted(m, k) = "absent"
<1>1. obj[m][k] \in States
  BY DEF ObjOK
<1> QED
  BY <1>1 DEF Deleted, States, Guarded

LEMMA DeleteSinks ==
  ASSUME ObjOK, PeeringWhole, who \in Machines, NEW k \in Kinds, Delete(k)
  PROVE  ObjStep /\ ObjOK' /\ PeeringWhole'
<1>1. CASE Put(who, k, Deleted(who, k))
  <2>1. obj[who][k] \in States /\ Deleted(who, k) \in States
    BY WhatDeletedDoes DEF ObjOK, States
  <2>2. \/ Deleted(who, k) = obj[who][k]
        \/ obj[who][k] = "live" /\ Deleted(who, k) \in {"deleting", "absent"}
             /\ (k = "FC" => Deleted(who, k) = "absent")
        \/ obj[who][k] \in {"bare", "deleting"} /\ Deleted(who, k) = "absent"
    BY <2>1, WhatDeletedDoes DEF States, Deleted
  <2> QED
    BY <1>1, <2>1, <2>2, OneSinks
<1>2. CASE Refused
  BY <1>2 DEF Refused, ObjStep, Sinks, ObjOK, PeeringWhole
<1> QED
  BY <1>1, <1>2 DEF Delete

Unstuck(s) == CASE s = "deleting" -> "absent" [] s = "live" -> "bare" [] OTHER -> s

LEMMA UnstickSinks ==
  ASSUME ObjOK, PeeringWhole, who \in Machines, NEW k \in Guarded, Unstick(k)
  PROVE  ObjStep /\ ObjOK' /\ PeeringWhole'
<1>1. CASE Put(who, k, Unstuck(obj[who][k]))
  <2>1. obj[who][k] \in States /\ Unstuck(obj[who][k]) \in States /\ k # "FC" /\ k \in Kinds
    BY DEF ObjOK, States, Unstuck, Guarded, Kinds, Inside
  <2>2. \/ Unstuck(obj[who][k]) = obj[who][k]
        \/ obj[who][k] = "live" /\ Unstuck(obj[who][k]) = "bare"
        \/ obj[who][k] = "deleting" /\ Unstuck(obj[who][k]) = "absent"
    BY <2>1 DEF Unstuck, States
  <2> QED
    BY <1>1, <2>1, <2>2, OneSinks
<1>2. CASE Refused
  BY <1>2 DEF Refused, ObjStep, Sinks, ObjOK, PeeringWhole
<1> QED
  BY <1>1, <1>2 DEF Unstick, Unstuck

\* Several of a machine's objects are deleted at once.
LEMMA ManySink ==
  ASSUME ObjOK, PeeringWhole, NEW m \in Machines, NEW K \in SUBSET Kinds,
         obj' = [obj EXCEPT ![m] = [k \in Kinds |-> IF k \in K THEN Deleted(m, k) ELSE @[k]]]
  PROVE  ObjStep /\ ObjOK' /\ PeeringWhole'
<1>1. /\ \A k \in Kinds : obj'[m][k] = IF k \in K THEN Deleted(m, k) ELSE obj[m][k]
      /\ \A n \in Machines : n # m => obj'[n] = obj[n]
  BY DEF ObjOK
<1>2. \A k \in Kinds : Deleted(m, k) \in States /\ obj[m][k] \in States
  BY WhatDeletedDoes DEF ObjOK, States
<1>3. ObjOK'
  BY <1>2 DEF ObjOK
<1>4. PeeringWhole'
  BY <1>1, WhatDeletedDoes DEF PeeringWhole, Kinds
<1>5. \A k \in Kinds : Sinks(m, k)
  BY <1>1, <1>2, WhatDeletedDoes DEF Sinks, States, Deleted
<1> QED
  BY <1>1, <1>3, <1>4, <1>5 DEF ObjStep, Sinks

LEMMA HubSinks ==
  ASSUME ObjOK, PeeringWhole, NEW m \in Machines,
         \/ VirtualNodeEnds(m) \/ NodeAppears(m) \/ NamespaceEmpties(m) \/ NamespaceEnds(m)
         \/ \E k \in Guarded : Replicator(m, k)
  PROVE  ObjStep /\ ObjOK' /\ PeeringWhole'
<1> USE DEF Kinds, Inside
<1>1. CASE VirtualNodeEnds(m)
  <2>1. /\ obj'[m]["VN"] = "absent" /\ obj[m]["VN"] = "deleting"
        /\ obj'[m]["Node"] = Deleted(m, "Node") /\ obj'[m]["NM"] = Deleted(m, "NM")
        /\ \A n \in Machines, k \in Kinds :
             n # m \/ k \notin {"VN", "Node", "NM"} => obj'[n][k] = obj[n][k]
    BY <1>1 DEF VirtualNodeEnds, ObjOK
  <2>2. \A k \in {"Node", "NM"} : Deleted(m, k) \in States /\ obj[m][k] \in States
    BY WhatDeletedDoes DEF ObjOK, States
  <2>3. ObjOK'
    BY <1>1, <2>2 DEF VirtualNodeEnds, ObjOK, States
  <2>4. Sinks(m, "Node") /\ Sinks(m, "NM")
    BY <2>1, <2>2, WhatDeletedDoes DEF Sinks, States, Deleted
  <2>5. PeeringWhole'
    BY <2>1 DEF PeeringWhole
  <2> QED
    BY <2>1, <2>3, <2>4, <2>5 DEF ObjStep, Sinks
<1>2. CASE NodeAppears(m)
  <2>1. /\ obj'[m]["VN"] = "live" /\ obj'[m]["Node"] = "live" /\ obj'[m]["NM"] = "live"
        /\ \A n \in Machines, k \in Kinds :
             n # m \/ k \notin {"VN", "Node", "NM"} => obj'[n][k] = obj[n][k]
    BY <1>2 DEF NodeAppears, ObjOK
  <2>2. ObjOK'
    BY <1>2 DEF NodeAppears, ObjOK, States
  <2>3. PeeringWhole'
    BY <2>1 DEF PeeringWhole
  <2> QED
    BY <1>2, <2>1, <2>2, <2>3 DEF NodeAppears, ObjStep, Sinks, Appears
<1>3. CASE NamespaceEmpties(m)
  BY <1>3, ManySink DEF NamespaceEmpties
<1>4. CASE NamespaceEnds(m)
  BY <1>4, OneSinks DEF NamespaceEnds, States
<1>5. ASSUME NEW k \in Guarded, Replicator(m, k) PROVE ObjStep /\ ObjOK' /\ PeeringWhole'
  BY <1>5, OneSinks DEF Replicator, States, Guarded
<1> QED
  BY <1>1, <1>2, <1>3, <1>4, <1>5

LEMMA UnpeerSinks ==
  ASSUME ObjOK, PeeringWhole, who \in Machines, Unpeer
  PROVE  ObjStep /\ ObjOK' /\ PeeringWhole'
<1>1. PICK undone \in SUBSET {"RS", "VN", "FC"} :
        obj' = [obj EXCEPT ![who] =
                  [k \in Kinds |-> IF k \in undone THEN Deleted(who, k) ELSE @[k]]]
  BY DEF Unpeer
<1>2. undone \in SUBSET Kinds
  BY DEF Kinds, Inside
<1> QED
  BY <1>1, <1>2, ManySink

-----------------------------------------------------------------------------
(* Types.                                                                  *)

LEMMA CallOrder ==
  ASSUME TypeOK PROVE at # "idle" => who \in Machines
BY DEF TypeOK

TypeInv == TypeOK /\ PeeringWhole

LEMMA TypeStart == Init => TypeInv
<1> SUFFICES ASSUME Init PROVE TypeInv
  OBVIOUS
<1>1. \A o \in {Started, Halfway, Joined} :
        o \in [Kinds -> States] /\ o["FC"] \in {"absent", "live"}
  BY DEF Started, Halfway, Joined, States, Kinds, Inside
<1>2. ObjOK /\ PeeringWhole
  BY <1>1 DEF Init, ObjOK, PeeringWhole
<1> QED
  BY <1>2, TeardownAssumption DEF Init, TypeInv, TypeOK, ObjOK, States, Calls

\* The steps of the loop that call the API server.
LEMMA ForceTeardownTyped ==
  ASSUME TypeInv, ForceTeardown PROVE TypeInv' /\ ObjStep
<1>1. at # "idle" /\ at # "unpeer" /\ at' # "idle" /\ at' # "unpeer" /\ at' \in Calls
  BY DEF ForceTeardown, DeleteSlice, UnstickSlice, DeleteVirtualNode, DeleteMaps, UnstickMaps,
     DeleteNode, DeletePeering, DeleteNamespace, StripSecrets, Then, Calls
<1>2. who \in Machines /\ ObjOK /\ PeeringWhole
  BY <1>1 DEF TypeInv, TypeOK, ObjOK, States
<1>3. /\ UNCHANGED <<cloud, who, clean>>
      /\ \/ \E k \in Kinds : Delete(k)
         \/ \E k \in Guarded : Unstick(k)
         \/ Refused
         \/ UNCHANGED obj /\ Carried
  BY DEF ForceTeardown, DeleteSlice, UnstickSlice, DeleteVirtualNode, DeleteMaps, UnstickMaps,
     DeleteNode, DeletePeering, DeleteNamespace, StripSecrets, Then, Kinds, Inside, Guarded
<1>4. ObjStep /\ ObjOK' /\ PeeringWhole'
  BY <1>2, <1>3, DeleteSinks, UnstickSinks DEF Refused, ObjStep, Sinks, ObjOK, PeeringWhole
<1>5. refusals' \in 0 .. MaxRefusals /\ spotless' \in BOOLEAN
  <2>1. Carried \/ Refused
    BY <1>3 DEF Delete, Unstick
  <2>2. refusals \in 0 .. MaxRefusals /\ spotless \in BOOLEAN /\ MaxRefusals \in Nat
    BY TeardownAssumption DEF TypeInv, TypeOK
  <2>3. CASE Carried
    BY <2>2, <2>3 DEF Carried
  <2>4. CASE Refused
    <3>1. refusals' = refusals + 1 /\ refusals < MaxRefusals
      BY <2>4 DEF Refused
    <3>2. refusals' \in 0 .. MaxRefusals
      BY <2>2, <3>1
    <3>3. spotless' \in BOOLEAN
      BY <2>4 DEF Refused
    <3> QED
      BY <3>2, <3>3
  <2> QED
    BY <2>1, <2>3, <2>4
<1> QED
  BY <1>1, <1>2, <1>3, <1>4, <1>5 DEF TypeInv, TypeOK, ObjOK, States

LEMMA OthersTyped ==
  ASSUME TypeInv,
         \/ Unpeer \/ Release
         \/ \E m \in Machines : \/ Reap(m) \/ ReapAgain(m) \/ Hub(m) \/ NodeAppears(m)
                                \/ FallsSilent(m) \/ \E k \in Guarded : Replicator(m, k)
         \/ UNCHANGED vars
  PROVE  TypeInv' /\ ObjStep
<1>1. ObjOK /\ PeeringWhole
  BY DEF TypeInv, TypeOK, ObjOK, States
<1>2. CASE Unpeer
  <2>1. who \in Machines
    BY <1>2 DEF Unpeer, TypeInv, TypeOK
  <2>2. ObjStep /\ ObjOK' /\ PeeringWhole'
    BY <1>1, <1>2, <2>1, UnpeerSinks
  <2> QED
    BY <1>2, <2>1, <2>2 DEF Unpeer, TypeInv, TypeOK, ObjOK, States, Calls
<1>3. CASE Release
  <2>1. who \in Machines
    BY <1>3 DEF Release, TypeInv, TypeOK
  <2> QED
    BY <1>3, <2>1, TeardownAssumption
       DEF Release, TypeInv, TypeOK, PeeringWhole, Calls, ObjStep, Sinks
<1>4. ASSUME NEW m \in Machines, Reap(m) \/ ReapAgain(m) PROVE TypeInv' /\ ObjStep
  <2>1. at' = "unpeer" => ~Gone(m, "FC")
    BY <1>4 DEF Reap, ReapAgain, WasPeered, Live, Gone
  <2> QED
    BY <1>4, <2>1, TeardownAssumption
       DEF Reap, ReapAgain, TypeInv, TypeOK, PeeringWhole, Calls, Gone, ObjStep, Sinks
<1>5. ASSUME NEW m \in Machines,
             \/ VirtualNodeEnds(m) \/ NodeAppears(m) \/ NamespaceEmpties(m) \/ NamespaceEnds(m)
             \/ \E k \in Guarded : Replicator(m, k)
      PROVE TypeInv' /\ ObjStep
  <2>1. ObjStep /\ ObjOK' /\ PeeringWhole'
    BY <1>1, <1>5, HubSinks
  <2>2. UNCHANGED <<cloud, at, who, refusals, spotless, clean>>
    BY <1>5 DEF VirtualNodeEnds, NodeAppears, NamespaceEmpties, NamespaceEnds, Replicator, Elsewhere
  <2>3. \A n \in Machines : obj'[n]["FC"] = obj[n]["FC"]
    BY <1>1, <1>5 DEF VirtualNodeEnds, NodeAppears, NamespaceEmpties, NamespaceEnds, Replicator,
       Put, ObjOK, Kinds, Inside, Guarded
  <2> QED
    BY <2>1, <2>2, <2>3 DEF TypeInv, TypeOK, ObjOK, States, Gone
<1>6. ASSUME NEW m \in Machines, FallsSilent(m) PROVE TypeInv' /\ ObjStep
  BY <1>6 DEF FallsSilent, Elsewhere, TypeInv, TypeOK, PeeringWhole, Gone, ObjStep, Sinks
<1>7. CASE UNCHANGED vars
  BY <1>7 DEF vars, TypeInv, TypeOK, PeeringWhole, Gone, ObjStep, Sinks
<1> QED
  BY <1>2, <1>3, <1>4, <1>5, <1>6, <1>7 DEF Hub

LEMMA TypeStep == ASSUME TypeInv, [Next]_vars PROVE TypeInv' /\ ObjStep
BY ForceTeardownTyped, OthersTyped DEF Next, Loop

\* Of whatever the loop does to a machine's objects and whatever is refused, they
\* are always of their kinds; and liqoctl is only sent after a peering that is there.
THEOREM TeardownTyped == Spec => []TypeOK
<1>1. Init => TypeInv
  BY TypeStart
<1>2. TypeInv /\ [Next]_vars => TypeInv'
  BY TypeStep
<1>3. TypeInv => TypeOK
  BY DEF TypeInv
<1> QED
  BY <1>1, <1>2, <1>3, PTL DEF Spec

-----------------------------------------------------------------------------
(* What a spotless teardown leaves.                                        *)

After(call) ==
  CASE call = "rs"         -> {"unstick_rs", "vn", "nm", "unstick_nm", "node", "fc", "ns",
                               "secrets", "destroy"}
    [] call = "unstick_rs" -> {"vn", "nm", "unstick_nm", "node", "fc", "ns", "secrets", "destroy"}
    [] call = "vn"         -> {"nm", "unstick_nm", "node", "fc", "ns", "secrets", "destroy"}
    [] call = "unstick_nm" -> {"node", "fc", "ns", "secrets", "destroy"}
    [] call = "fc"         -> {"ns", "secrets", "destroy"}
    [] call = "ns"         -> {"secrets", "destroy"}
    [] call = "secrets"    -> {"destroy"}

\* What each call of this teardown has done for good, if none was refused.
SoFar ==
  spotless =>
    /\ at \in After("rs") => ~Live(who, "RS")
    /\ at \in After("unstick_rs") => Gone(who, "RS")
    /\ at \in After("vn") => ~Live(who, "VN")
    /\ at = "unstick_nm" => obj[who]["NM"] # "live"
    /\ at \in After("unstick_nm") => obj[who]["NM"] \in {"absent", "bare"}
    /\ at \in After("fc") => Gone(who, "FC")
    /\ at \in After("ns") => ~Live(who, "NS")
    /\ at \in After("secrets") => obj[who]["Secret"] \in {"absent", "bare"}

StuckInv == TypeInv /\ SoFar /\ NothingStuck

\* An object that is on its way out stays so, and without a slice no virtual node
\* appears.
LEMMA StaysDown ==
  ASSUME ObjOK, ObjStep, NEW m \in Machines, NEW k \in Kinds,
         ~Live(m, "RS") \/ k \in {"RS", "FC", "NS", "Secret"}
  PROVE  /\ ~Live(m, k) => ~Live(m, k)'
         /\ obj[m][k] # "live" => obj'[m][k] # "live"
         /\ Gone(m, k) => Gone(m, k)'
         /\ obj[m][k] \in {"absent", "bare"} => obj'[m][k] \in {"absent", "bare"}
<1>1. Sinks(m, k)
  BY DEF ObjStep, Appears
<1> QED
  BY <1>1 DEF Sinks, Live, Gone

LEMMA StuckStays == ASSUME StuckInv, ObjStep, UNCHANGED clean PROVE NothingStuck'
<1>1. ObjOK /\ clean \subseteq Machines
  BY DEF StuckInv, TypeInv, TypeOK, ObjOK, States
<1> SUFFICES ASSUME NEW m \in clean
             PROVE  /\ \A k \in Guarded : obj'[m][k] \in {"absent", "bare"}
                    /\ Gone(m, "RS")' /\ Gone(m, "FC")' /\ ~Live(m, "NS")' /\ ~Live(m, "VN")'
  BY DEF NothingStuck
<1>2. ~Live(m, "RS")
  BY DEF StuckInv, NothingStuck, Live, Gone
<1> QED
  BY <1>1, <1>2, StaysDown DEF StuckInv, NothingStuck, Kinds, Inside, Guarded

\* What has been done for good stays done while the loop goes on.
LEMMA DoneForGood ==
  ASSUME StuckInv, ObjStep, who \in Machines, UNCHANGED who, spotless
  PROVE  /\ at \in After("rs") => ~Live(who, "RS")'
         /\ at \in After("unstick_rs") => Gone(who, "RS")'
         /\ at \in After("vn") => ~Live(who, "VN")'
         /\ at = "unstick_nm" => obj'[who]["NM"] # "live"
         /\ at \in After("unstick_nm") => obj'[who]["NM"] \in {"absent", "bare"}
         /\ at \in After("fc") => Gone(who, "FC")'
         /\ at \in After("ns") => ~Live(who, "NS")'
         /\ at \in After("secrets") => obj'[who]["Secret"] \in {"absent", "bare"}
<1>1. ObjOK
  BY DEF StuckInv, TypeInv, TypeOK, ObjOK, States
<1>2. /\ at \in After("vn") \cup {"unstick_nm"} => at \in After("rs")
      /\ at \in After("unstick_nm") => at \in After("rs")
  BY DEF After
<1>3. {"RS", "VN", "NM", "FC", "NS", "Secret"} \subseteq Kinds
  BY DEF Kinds, Inside
<1>4. /\ at \in After("rs") => ~Live(who, "RS")'
      /\ at \in After("unstick_rs") => Gone(who, "RS")'
      /\ at \in After("fc") => Gone(who, "FC")'
      /\ at \in After("ns") => ~Live(who, "NS")'
      /\ at \in After("secrets") => obj'[who]["Secret"] \in {"absent", "bare"}
  BY <1>1, <1>3, StaysDown DEF StuckInv, SoFar, Live, Gone
<1>5. /\ at \in After("vn") => ~Live(who, "VN")'
      /\ at = "unstick_nm" => obj'[who]["NM"] # "live"
      /\ at \in After("unstick_nm") => obj'[who]["NM"] \in {"absent", "bare"}
  BY <1>1, <1>2, <1>3, StaysDown DEF StuckInv, SoFar
<1> QED
  BY <1>4, <1>5

\* What a call leaves of the object it was sent for.
LEMMA OneCall ==
  ASSUME ObjOK, PeeringWhole, who \in Machines, NEW k \in Kinds
  PROVE  /\ Put(who, k, Deleted(who, k)) => obj'[who][k] \in {"absent", "deleting"}
         /\ Put(who, k, Deleted(who, k)) /\ k = "FC" => obj'[who][k] = "absent"
         /\ Put(who, k, Unstuck(obj[who][k])) => obj'[who][k] \in {"absent", "bare"}
         /\ Put(who, k, Unstuck(obj[who][k])) /\ obj[who][k] \in {"absent", "deleting"}
              => obj'[who][k] = "absent"
<1>1. ASSUME NEW s, Put(who, k, s) PROVE obj'[who][k] = s
  BY <1>1 DEF Put, ObjOK
<1>2. obj[who][k] \in States /\ (k = "FC" => obj[who][k] # "deleting")
  BY DEF ObjOK, PeeringWhole
<1>3. /\ Deleted(who, k) \in {"absent", "deleting"}
      /\ k = "FC" => Deleted(who, k) = "absent"
  BY <1>2, WhatDeletedDoes
<1>4. /\ Unstuck(obj[who][k]) \in {"absent", "bare"}
      /\ obj[who][k] \in {"absent", "deleting"} => Unstuck(obj[who][k]) = "absent"
  BY <1>2 DEF Unstuck, States
<1> QED
  BY <1>1, <1>3, <1>4

LEMMA SoFarKept == ASSUME StuckInv, ForceTeardown, ObjStep PROVE SoFar'
<1> SUFFICES ASSUME spotless' PROVE SoFar'
  BY DEF SoFar
<1>1. spotless /\ UNCHANGED who
  BY DEF StuckInv, TypeInv, TypeOK, ForceTeardown, DeleteSlice, UnstickSlice, DeleteVirtualNode,
     DeleteMaps, UnstickMaps, DeleteNode, DeletePeering, DeleteNamespace, StripSecrets, Then,
     Delete, Unstick, Carried, Refused
<1>2. who \in Machines /\ ObjOK /\ PeeringWhole
  BY DEF StuckInv, TypeInv, TypeOK, ObjOK, States, ForceTeardown, DeleteSlice, UnstickSlice,
     DeleteVirtualNode, DeleteMaps, UnstickMaps, DeleteNode, DeletePeering, DeleteNamespace,
     StripSecrets
<1>3. ~Refused
  BY DEF Refused
<1>4. {"RS", "VN", "NM", "FC", "NS", "Secret"} \subseteq Kinds
  BY DEF Kinds, Inside
<1>5. CASE DeleteSlice
  <2>1. at' = "unstick_rs" /\ ~Live(who, "RS")'
    BY <1>1, <1>2, <1>3, <1>4, <1>5, OneCall DEF DeleteSlice, Delete, Then, Live
  <2> QED
    BY <2>1, <1>1 DEF SoFar, After, Live
<1>6. CASE UnstickSlice
  <2>1. at = "unstick_rs" /\ at' = "vn" /\ Put(who, "RS", Unstuck(obj[who]["RS"]))
    BY <1>3, <1>6 DEF UnstickSlice, Unstick, Then, Unstuck
  <2>2. obj[who]["RS"] \in {"absent", "deleting"}
    BY <1>1, <1>2, <1>4, <2>1 DEF StuckInv, SoFar, After, Live, ObjOK, States
  <2>3. obj'[who]["RS"] = "absent"
    BY <1>2, <1>4, <2>1, <2>2, OneCall
  <2> QED
    BY <1>1, <2>1, <2>3 DEF SoFar, After, Live, Gone
<1>7. CASE DeleteVirtualNode
  <2>1. at = "vn" /\ at' = "nm" /\ ~Live(who, "VN")'
    BY <1>1, <1>2, <1>3, <1>4, <1>7, OneCall DEF DeleteVirtualNode, Delete, Then, Live
  <2> QED
    BY <1>1, <1>2, <2>1, DoneForGood DEF SoFar, After, Live, Gone
<1>8. CASE DeleteMaps
  <2>1. at = "nm" /\ at' \in {"unstick_nm", "node"}
    BY <1>8 DEF DeleteMaps, Then
  <2>2. CASE at' = "unstick_nm"
    <3>1. obj'[who]["NM"] # "live"
      BY <1>1, <1>2, <1>3, <1>4, <1>8, <2>2, OneCall DEF DeleteMaps, Delete, Then
    <3> QED
      BY <1>1, <1>2, <2>1, <2>2, <3>1, DoneForGood DEF SoFar, After, Live, Gone
  <2>3. CASE at' = "node"
    <3>1. obj'[who]["NM"] = "absent"
      BY <1>3, <1>8, <2>3 DEF DeleteMaps, Then, Gone
    <3> QED
      BY <1>1, <1>2, <2>1, <2>3, <3>1, DoneForGood DEF SoFar, After, Live, Gone
  <2> QED
    BY <2>1, <2>2, <2>3
<1>9. CASE UnstickMaps
  <2>1. /\ at = "unstick_nm" /\ at' = "node"
        /\ Put(who, "NM", Unstuck(obj[who]["NM"]))
    BY <1>3, <1>9 DEF UnstickMaps, Unstick, Then, Unstuck
  <2>2. obj'[who]["NM"] \in {"absent", "bare"}
    BY <1>2, <1>4, <2>1, OneCall
  <2> QED
    BY <1>1, <1>2, <2>1, <2>2, DoneForGood DEF SoFar, After, Live, Gone
<1>10. CASE DeleteNode
  <2>1. at = "node" /\ at' = "fc"
    BY <1>10 DEF DeleteNode, Then
  <2> QED
    BY <1>1, <1>2, <2>1, DoneForGood DEF SoFar, After, Live, Gone
<1>11. CASE DeletePeering
  <2>1. at = "fc" /\ at' = "ns" /\ Gone(who, "FC")'
    BY <1>1, <1>2, <1>3, <1>4, <1>11, OneCall DEF DeletePeering, Delete, Then, Gone
  <2> QED
    BY <1>1, <1>2, <2>1, DoneForGood DEF SoFar, After, Live, Gone
<1>12. CASE DeleteNamespace
  <2>1. at = "ns" /\ at' = "secrets" /\ ~Live(who, "NS")'
    BY <1>1, <1>2, <1>3, <1>4, <1>12, OneCall DEF DeleteNamespace, Delete, Then, Live
  <2> QED
    BY <1>1, <1>2, <2>1, DoneForGood DEF SoFar, After, Live, Gone
<1>13. CASE StripSecrets
  <2>1. /\ at = "secrets" /\ at' = "destroy"
        /\ Put(who, "Secret", Unstuck(obj[who]["Secret"]))
    BY <1>3, <1>13 DEF StripSecrets, Unstick, Then, Unstuck
  <2>2. obj'[who]["Secret"] \in {"absent", "bare"}
    BY <1>2, <1>4, <2>1, OneCall
  <2> QED
    BY <1>1, <1>2, <2>1, <2>2, DoneForGood DEF SoFar, After, Live, Gone
<1> QED
  BY <1>5, <1>6, <1>7, <1>8, <1>9, <1>10, <1>11, <1>12, <1>13 DEF ForceTeardown

LEMMA StuckStep == ASSUME StuckInv, [Next]_vars PROVE StuckInv'
<1>1. TypeInv' /\ ObjStep
  BY TypeStep DEF StuckInv
<1>2. CASE ForceTeardown
  <2>1. UNCHANGED clean
    BY <1>2 DEF ForceTeardown, DeleteSlice, UnstickSlice, DeleteVirtualNode, DeleteMaps,
       UnstickMaps, DeleteNode, DeletePeering, DeleteNamespace, StripSecrets, Then
  <2> QED
    BY <1>1, <1>2, <2>1, SoFarKept, StuckStays DEF StuckInv
<1>3. CASE Release
  <2>1. at = "destroy" /\ at' = "idle" /\ clean' \subseteq clean \cup {who} /\ UNCHANGED obj
    BY <1>3 DEF Release
  <2>2. ASSUME clean' \subseteq clean PROVE NothingStuck'
    BY <2>1, <2>2 DEF StuckInv, NothingStuck, Live, Gone
  <2>3. ASSUME spotless PROVE NothingStuck'
    <3>1. /\ Gone(who, "RS") /\ Gone(who, "FC") /\ ~Live(who, "NS") /\ ~Live(who, "VN")
          /\ \A k \in Guarded : obj[who][k] \in {"absent", "bare"}
      BY <2>1, <2>3 DEF StuckInv, SoFar, After, Guarded, Gone
    <3> QED
      BY <2>1, <3>1 DEF StuckInv, NothingStuck, Live, Gone
  <2>4. NothingStuck'
    BY <1>3, <2>2, <2>3 DEF Release
  <2> QED
    BY <1>1, <2>1, <2>4 DEF StuckInv, SoFar, After
<1>4. CASE Unpeer \/ \E m \in Machines : Reap(m) \/ ReapAgain(m)
  <2>1. at' \in {"rs", "unpeer"} /\ UNCHANGED clean
    BY <1>4 DEF Unpeer, Reap, ReapAgain
  <2> QED
    BY <1>1, <2>1, StuckStays DEF StuckInv, SoFar, After
<1>5. CASE UNCHANGED <<at, who, spotless, clean>>
  <2>1. at # "idle" => who \in Machines
    BY DEF StuckInv, TypeInv, TypeOK
  <2>2. CASE at = "idle"
    BY <1>1, <1>5, <2>2, StuckStays DEF StuckInv, SoFar, After
  <2>3. CASE at # "idle"
    BY <1>1, <1>5, <2>1, <2>3, StuckStays, DoneForGood DEF StuckInv, SoFar
  <2> QED
    BY <2>2, <2>3
<1>6. \/ ForceTeardown \/ Release \/ UNCHANGED <<at, who, spotless, clean>>
      \/ Unpeer \/ \E m \in Machines : Reap(m) \/ ReapAgain(m)
  BY DEF Next, Loop, Hub, VirtualNodeEnds, NamespaceEmpties, NamespaceEnds, NodeAppears,
     FallsSilent, Replicator, Elsewhere, vars
<1> QED
  BY <1>2, <1>3, <1>4, <1>5, <1>6

\* Whatever the remote cluster answers and whenever it stops answering, however the
\* controllers and the teardown interleave and whatever other teardowns are refused:
\* a machine released after a teardown none of whose calls was refused leaves no
\* finalizer that needs its cluster, nothing a virtual node could come from, and a
\* namespace that is gone or going.
THEOREM SpotlessLeavesNothingStuck == Spec => []NothingStuck
<1>1. Init => StuckInv
  BY TypeStart DEF Init, StuckInv, SoFar, NothingStuck, After
<1>2. StuckInv /\ [Next]_vars => StuckInv'
  BY StuckStep
<1>3. StuckInv => NothingStuck
  BY DEF StuckInv
<1> QED
  BY <1>1, <1>2, <1>3, PTL DEF Spec
=============================================================================
