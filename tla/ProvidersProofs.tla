--------------------------- MODULE ProvidersProofs ---------------------------
(***************************************************************************)
(* What TLAPS proves of the providers, for any number of instances, names, *)
(* flavors, regions and pages, whatever requests fail: that each of them   *)
(* implements Cloud.  For Ovh this is as long as no region is given up     *)
(* that still has machines; for Vultr as long as an error status means     *)
(* that nothing was done, and has a body.                                  *)
(***************************************************************************)
EXTENDS Providers, FiniteSetTheorems, WellFoundedInduction, TLAPS

-----------------------------------------------------------------------------
(* What the contract promises, for every provider that keeps it.           *)

ContractInv == FalseMeansNothing /\ InventoryInFull /\ (call # NoCall => reply = Silent)

LEMMA RepliesDiffer ==
  /\ NoCapacity # Listed /\ Silent # Listed /\ Silent # NoCapacity
  /\ Gone # Listed /\ Gone # NoCapacity /\ Raised # Listed /\ Raised # NoCapacity
  /\ \A f : Rented(f) # Listed /\ Rented(f) # NoCapacity
BY DEF NoCapacity, Listed, Silent, Gone, Raised, Rented

LEMMA ContractStep ==
  ASSUME ContractInv, [CloudNext]_cloud
  PROVE  ContractInv'
<1> USE DEF ContractInv, FalseMeansNothing, InventoryInFull
<1>1. CASE \E c \in Calls : Ask(c)
  BY <1>1, RepliesDiffer DEF Ask
<1>2. CASE \E i \in Ids : Vanish(i)
  BY <1>2 DEF Vanish, ListsOurs, OursRunning, Running
<1>3. CASE \E i \in Ids : \E f \in Flavors : Boot(i, f)
  BY <1>3, RepliesDiffer DEF Boot, NoCall
<1>4. CASE Release
  BY <1>4, RepliesDiffer DEF Release, NoCall
<1>5. CASE Answer
  <2>1. reply' = NoCapacity => made' = None
    BY <1>5, RepliesDiffer DEF Answer, Says
  <2>2. reply' = Listed => ListsOurs(inventory')
    BY <1>5, RepliesDiffer DEF Answer, Says
  <2>3. reply' = Listed => ListsOurs(inventory)'
    BY <1>5, <2>2 DEF Answer, ListsOurs, OursRunning, Running
  <2> QED
    BY <1>5, <2>1, <2>3 DEF Answer
<1>6. CASE UNCHANGED cloud
  BY <1>6 DEF cloud, ListsOurs, OursRunning, Running
<1>7. CASE Forget
  BY <1>7, RepliesDiffer DEF Forget
<1> QED
  BY <1>1, <1>2, <1>3, <1>4, <1>5, <1>6, <1>7 DEF CloudNext

-----------------------------------------------------------------------------
(* Ovh.                                                                    *)

Shape ==
  /\ DOMAIN instance = Ids /\ regionOf \in [Ids -> Regions]
  /\ todo \in Seq(Flavors) /\ DOMAIN out \subseteq Ours

\* Every call has its method, and the method its call.
Steps ==
  /\ step = "idle" => call = NoCall
  /\ step \in {"catalog", "post"} => call.op = "create"
  /\ step = "list" => call.op = "list"
  /\ step = "delete" => call.op = "destroy"
  /\ step \in {"idle", "catalog", "post", "list", "delete"}

\* One post at most: the flavor that was made is the one the method is at.
OnePost ==
  /\ step = "catalog" => made = None
  /\ step = "post" /\ made # None =>
       todo # << >> /\ made = Head(todo) /\ Head(todo) \in catalog

\* No two machines of ours have a name in common, nor does one that is created.
NamesApart ==
  /\ \A i, j \in OursRunning : instance[i].name = instance[j].name => i = j
  /\ call.op = "create" /\ made = None =>
       \A i \in Running : instance[i].name # call.name

\* Machines of ours are where listings look.
Within ==
  /\ step \in {"catalog", "post"} => region \in RegionsRead
  /\ \A i \in OursRunning : regionOf[i] \in RegionsRead

\* What has been read of a listing is complete.
ReadInFull ==
  step = "list" =>
    \A i \in OursRunning :
      regionOf[i] \notin unlisted =>
        instance[i].name \in DOMAIN out /\ out[instance[i].name] = i

OvhInv == Shape /\ Steps /\ OnePost /\ NamesApart /\ Within /\ ReadInFull

LEMMA OvhStart == OvhInit => OvhInv
<1> SUFFICES ASSUME OvhInit PROVE OvhInv
  OBVIOUS
<1>1. OursRunning = {}
  BY CloudAssumption DEF OvhInit, CloudInit, OursRunning, Running
<1>2. Shape
  BY DEF OvhInit, CloudInit, Shape
<1>3. Steps /\ OnePost /\ ReadInFull
  BY DEF OvhInit, CloudInit, Steps, OnePost, ReadInFull, NoCall
<1>4. NamesApart /\ Within
  BY <1>1 DEF OvhInit, CloudInit, NamesApart, Within, NoCall
<1> QED
  BY <1>2, <1>3, <1>4 DEF OvhInv

-----------------------------------------------------------------------------
(* Every step is one the contract allows.                                  *)

\* What every answer has in common.
LEMMA AnswerStep ==
  ASSUME NEW r, Returns(r), UNCHANGED instance, call # NoCall,
         \/ call.op = "create" /\ made # None /\ r = Rented(made)
         \/ call.op = "create" /\ made = None /\ r = NoCapacity
         \/ call.op = "destroy" /\ instance[call.id] = None /\ r = Gone
         \/ r = Raised,
         UNCHANGED inventory
  PROVE  Answer
BY DEF Returns, Answer, Says

\* A step of the contract, or none.
CloudStep == [CloudNext]_cloud

LEMMA OpenCall == Steps /\ step # "idle" => call # NoCall
BY DEF Steps, NoCall

LEMMA CreateImplements ==
  ASSUME OvhInv,
         \/ \E n \in Ours : \E wish \in Wishes : StartCreate(n, wish)
         \/ ReadCatalog \/ OutOfStock \/ NoFlavorLeft \/ Posted \/ CapacityRefused
         \/ \E i \in Ids : Accept(i)
  PROVE  CloudStep
<1> USE DEF CloudStep, CloudNext
<1>1. CASE \E n \in Ours : \E wish \in Wishes : StartCreate(n, wish)
  BY <1>1 DEF StartCreate, Ask
<1>2. CASE ReadCatalog \/ OutOfStock
  BY <1>2 DEF ReadCatalog, OutOfStock
<1>3. CASE NoFlavorLeft
  <2>1. call # NoCall /\ call.op = "create" /\ made = None
    BY <1>3, OpenCall DEF NoFlavorLeft, OvhInv, Steps, OnePost
  <2>2. Answer
    BY <1>3, <2>1, AnswerStep DEF NoFlavorLeft
  <2> QED
    BY <2>2
<1>4. CASE Posted
  <2>1. call # NoCall /\ call.op = "create" /\ made # None /\ made = Head(todo)
    BY <1>4, OpenCall DEF Posted, OvhInv, Steps, OnePost
  <2>2. Answer
    BY <1>4, <2>1, AnswerStep DEF Posted
  <2> QED
    BY <2>2
<1>5. CASE CapacityRefused
  <2>1. call # NoCall /\ call.op = "create" /\ made = None
    BY <1>5, OpenCall DEF CapacityRefused, Refusals, OvhInv, Steps
  <2>2. Answer
    BY <1>5, <2>1, AnswerStep DEF CapacityRefused
  <2> QED
    BY <2>2
<1>6. CASE \E i \in Ids : Accept(i)
  <2>1. PICK i \in Ids : Accept(i)
    BY <1>6
  <2>2. Head(todo) \in Flavors
    BY <2>1 DEF Accept, OvhInv, Shape
  <2> QED
    BY <2>1, <2>2 DEF Accept
<1> QED
  BY <1>1, <1>2, <1>3, <1>4, <1>5, <1>6

LEMMA ListDoneImplements == OvhInv /\ ListDone => CloudStep
<1> SUFFICES ASSUME OvhInv, ListDone PROVE Answer
  BY DEF CloudStep, CloudNext
<1>1. call # NoCall /\ call.op = "list"
  BY OpenCall DEF ListDone, OvhInv, Steps
<1>2. ListsOurs(out)
  BY DEF ListDone, OvhInv, Shape, ReadInFull, ListsOurs
<1> QED
  BY <1>1, <1>2 DEF ListDone, Returns, Answer

LEMMA OthersImplement ==
  ASSUME OvhInv,
         \/ \E n \in Ours : StartDestroy(n)
         \/ StartList \/ Delete \/ Deleted \/ Fails \/ Reconfigure \/ Lost
         \/ \E r \in Regions : ListRegion(r)
         \/ UNCHANGED ovh
  PROVE  CloudStep
<1> USE DEF CloudStep, CloudNext
<1>1. CASE \E n \in Ours : StartDestroy(n)
  BY <1>1 DEF StartDestroy, Ask
<1>2. CASE StartList
  BY <1>2 DEF StartList, Ask
<1>3. CASE Delete \/ Lost
  BY <1>3 DEF Delete, Lost
<1>4. CASE Deleted
  <2>1. call # NoCall /\ call.op = "destroy"
    BY <1>4, OpenCall DEF Deleted, OvhInv, Steps
  <2>2. Answer
    BY <1>4, <2>1, AnswerStep DEF Deleted
  <2> QED
    BY <2>2
<1>5. CASE Fails
  <2>1. Answer
    BY <1>5, OpenCall, AnswerStep DEF Fails, OvhInv
  <2> QED
    BY <2>1
<1>6. CASE Reconfigure \/ (\E r \in Regions : ListRegion(r)) \/ UNCHANGED ovh
  BY <1>6 DEF Reconfigure, ListRegion, ovh, cloud
<1> QED
  BY <1>1, <1>2, <1>3, <1>4, <1>5, <1>6

-----------------------------------------------------------------------------
(* The invariant is kept, as long as no region is given up that is needed. *)

\* A call that is asked for has its method; a name that is created is new.
LEMMA AskedName ==
  ASSUME NEW c \in Calls, c.op = "create"
  PROVE  \A i \in Running : instance[i].name # c.name
BY DEF Calls, Create, DestroyCall, ListCall, Running

LEMMA Answered ==
  ASSUME OvhInv, NEW r, Returns(r), UNCHANGED instance PROVE OvhInv'
<1> USE DEF Returns, Idle
<1>1. Shape'
  BY DEF OvhInv, Shape
<1>2. Steps' /\ OnePost' /\ ReadInFull'
  BY DEF Steps, OnePost, ReadInFull
<1>3. NamesApart'
  BY DEF OvhInv, NamesApart, OursRunning, Running, NoCall
<1>4. Within'
  BY DEF OvhInv, Within, OursRunning, Running, RegionsRead
<1> QED
  BY <1>1, <1>2, <1>3, <1>4 DEF OvhInv

LEMMA StartCreateKeeps ==
  ASSUME OvhInv, NEW n \in Ours, NEW wish \in Wishes, StartCreate(n, wish) PROVE OvhInv'
<1> USE DEF StartCreate, Ask
<1>1. Shape'
  BY CloudAssumption DEF OvhInv, Shape
<1>2. Steps' /\ OnePost' /\ ReadInFull'
  BY DEF Steps, OnePost, ReadInFull, Create
<1>3. NamesApart'
  BY AskedName DEF OvhInv, NamesApart, OursRunning, Running, Create
<1>4. Within'
  BY DEF OvhInv, Within, OursRunning, Running, RegionsRead
<1> QED
  BY <1>1, <1>2, <1>3, <1>4 DEF OvhInv

LEMMA ReadCatalogKeeps == OvhInv /\ ReadCatalog => OvhInv'
<1> SUFFICES ASSUME OvhInv, ReadCatalog PROVE OvhInv'
  OBVIOUS
<1> USE DEF ReadCatalog, cloud
<1>1. Shape' /\ Steps' /\ OnePost' /\ ReadInFull'
  BY DEF OvhInv, Shape, Steps, OnePost, ReadInFull
<1>2. NamesApart' /\ Within'
  BY DEF OvhInv, NamesApart, Within, OursRunning, Running, RegionsRead
<1> QED
  BY <1>1, <1>2 DEF OvhInv

LEMMA OutOfStockKeeps == OvhInv /\ OutOfStock => OvhInv'
<1> SUFFICES ASSUME OvhInv, OutOfStock PROVE OvhInv'
  OBVIOUS
<1> USE DEF OutOfStock, cloud
<1>1. Shape'
  BY DEF OvhInv, Shape
<1>2. Steps' /\ OnePost' /\ ReadInFull'
  BY DEF OvhInv, Steps, OnePost, ReadInFull
<1>3. NamesApart' /\ Within'
  BY DEF OvhInv, NamesApart, Within, OursRunning, Running, RegionsRead
<1> QED
  BY <1>1, <1>2, <1>3 DEF OvhInv

\* The new machine has a new name, and is where the next listing looks.
LEMMA AcceptKeeps ==
  ASSUME OvhInv, NEW i \in Ids, Accept(i) PROVE OvhInv'
<1> USE DEF Accept, Boot, method
<1>1. i \notin Running /\ Head(todo) \in Flavors
  BY DEF FreeIds, OvhInv, Shape
<1>2. /\ instance'[i].name = call.name
      /\ \A j \in Ids \ {i} : instance'[j] = instance[j]
      /\ \A j \in Ids \ {i} : regionOf'[j] = regionOf[j]
      /\ regionOf'[i] = region
      /\ DOMAIN instance' = Ids
  BY DEF OvhInv, Shape
<1>3. Shape'
  <2>1. region \in Regions
    BY OvhAssumption DEF OvhInv, Within, RegionsRead
  <2> QED
    BY <1>2, <2>1 DEF OvhInv, Shape
<1>4. Steps' /\ OnePost' /\ ReadInFull'
  BY DEF OvhInv, Steps, OnePost, ReadInFull
<1>5. OursRunning' \subseteq OursRunning \cup {i}
  BY <1>2 DEF OursRunning, Running
<1>6. NamesApart'
  <2>1. made' # None
    BY <1>1, CloudAssumption
  <2>2. \A j \in OursRunning : instance[j].name # call.name
    BY DEF OvhInv, NamesApart, OursRunning
  <2> QED
    BY <1>1, <1>2, <1>5, <2>1, <2>2 DEF OvhInv, NamesApart, OursRunning, Running
<1>7. Within'
  <2>1. RegionsRead' = RegionsRead
    BY DEF RegionsRead
  <2>2. region \in RegionsRead
    BY DEF OvhInv, Within
  <2>3. \A j \in OursRunning : j # i => regionOf'[j] \in RegionsRead
    BY <1>2 DEF OvhInv, Within, OursRunning, Running
  <2> QED
    BY <1>2, <1>5, <2>1, <2>2, <2>3 DEF Within
<1> QED
  BY <1>3, <1>4, <1>6, <1>7 DEF OvhInv

LEMMA StartListKeeps == OvhInv /\ StartList => OvhInv'
<1> SUFFICES ASSUME OvhInv, StartList PROVE OvhInv'
  OBVIOUS
<1> USE DEF StartList, Ask
<1>1. Shape'
  BY DEF OvhInv, Shape
<1>2. Steps' /\ OnePost'
  BY DEF Steps, OnePost, ListCall
<1>3. NamesApart'
  BY DEF OvhInv, NamesApart, OursRunning, Running, ListCall
<1>4. Within' /\ ReadInFull'
  BY DEF OvhInv, Within, ReadInFull, OursRunning, Running, RegionsRead
<1> QED
  BY <1>1, <1>2, <1>3, <1>4 DEF OvhInv

\* A region's machines are found by name, because names are apart.
LEMMA FoundInRegion ==
  ASSUME OvhInv, NEW i \in OursRunning, NEW r, regionOf[i] = r
  PROVE  instance[i].name \in DOMAIN ListIn(r) /\ ListIn(r)[instance[i].name] = i
<1> DEFINE there == {j \in Running : regionOf[j] = r /\ instance[j].name \in OwnNames}
<1>1. there \subseteq OursRunning /\ i \in there
  BY DEF OursRunning, OwnNames
<1>2. \A j \in there : instance[j].name = instance[i].name => j = i
  BY <1>1 DEF OvhInv, NamesApart
<1>3. (CHOOSE j \in there : instance[j].name = instance[i].name) = i
  BY <1>1, <1>2
<1> QED
  BY <1>1, <1>3 DEF ListIn

\* What a region lists is ours, under its name.
LEMMA ListsByName ==
  ASSUME OvhInv, NEW r, NEW n \in DOMAIN ListIn(r)
  PROVE  /\ n \in Ours
         /\ ListIn(r)[n] \in OursRunning /\ instance[ListIn(r)[n]].name = n
<1> DEFINE there == {j \in Running : regionOf[j] = r /\ instance[j].name \in OwnNames}
<1>1. PICK j \in there : instance[j].name = n
  BY DEF ListIn
<1>2. (CHOOSE k \in there : instance[k].name = n) \in there
  BY <1>1
<1>3. instance[CHOOSE k \in there : instance[k].name = n].name = n
  BY <1>1
<1>4. ListIn(r)[n] = CHOOSE k \in there : instance[k].name = n
  BY DEF ListIn
<1> QED
  BY <1>1, <1>2, <1>3, <1>4 DEF OursRunning, OwnNames

LEMMA ListRegionKeeps ==
  ASSUME OvhInv, NEW r \in Regions, ListRegion(r) PROVE OvhInv'
<1> DEFINE L == ListIn(r)
<1>1. /\ step = "list" /\ step' = "list" /\ unlisted' = unlisted \ {r}
      /\ UNCHANGED <<instance, call, made, regionOf, placements, region, todo>>
  BY DEF ListRegion, cloud
<1>2. out' = [n \in DOMAIN L \cup DOMAIN out |-> IF n \in DOMAIN L THEN L[n] ELSE out[n]]
  BY DEF ListRegion
<1>3. Shape'
  <2>1. DOMAIN L \subseteq Ours
    BY ListsByName
  <2> HIDE DEF L
  <2> QED
    BY <1>1, <1>2, <2>1 DEF OvhInv, Shape
<1>4. Steps' /\ OnePost'
  BY <1>1 DEF OvhInv, Steps, OnePost
<1>5. NamesApart' /\ Within'
  BY <1>1 DEF OvhInv, NamesApart, Within, OursRunning, Running, RegionsRead
<1>6. ASSUME NEW i \in OursRunning, regionOf[i] \notin unlisted \ {r}
      PROVE  instance[i].name \in DOMAIN out' /\ out'[instance[i].name] = i
  <2>1. instance[i].name \in DOMAIN L => L[instance[i].name] = i
    BY ListsByName DEF OvhInv, NamesApart
  <2>2. CASE regionOf[i] = r
    <3>1. instance[i].name \in DOMAIN L
      BY <2>2, FoundInRegion
    <3> HIDE DEF L
    <3> QED
      BY <1>2, <2>1, <3>1
  <2>3. CASE regionOf[i] # r
    <3>1. instance[i].name \in DOMAIN out /\ out[instance[i].name] = i
      BY <1>1, <1>6, <2>3 DEF OvhInv, ReadInFull
    <3> HIDE DEF L
    <3> QED
      BY <1>2, <2>1, <3>1
  <2> QED
    BY <2>2, <2>3
<1>7. OursRunning' = OursRunning
  BY <1>1 DEF OursRunning, Running
<1>8. ReadInFull'
  BY <1>1, <1>6, <1>7 DEF ReadInFull
<1> QED
  BY <1>3, <1>4, <1>5, <1>8 DEF OvhInv

LEMMA StartDestroyKeeps ==
  ASSUME OvhInv, NEW n \in Ours, StartDestroy(n) PROVE OvhInv'
<1> USE DEF StartDestroy, Ask
<1>1. Shape'
  BY DEF OvhInv, Shape
<1>2. Steps' /\ OnePost' /\ ReadInFull'
  BY DEF Steps, OnePost, ReadInFull, DestroyCall
<1>3. NamesApart'
  BY DEF OvhInv, NamesApart, OursRunning, Running, DestroyCall
<1>4. Within'
  BY DEF OvhInv, Within, OursRunning, Running, RegionsRead
<1> QED
  BY <1>1, <1>2, <1>3, <1>4 DEF OvhInv

\* A machine that goes, by whichever hand, leaves the others where they were.
LEMMA LossKeeps ==
  ASSUME OvhInv, NEW i, instance' = [instance EXCEPT ![i] = None],
         UNCHANGED <<call, made, regionOf, placements, method>>
  PROVE  OvhInv'
<1> USE DEF method
<1>1. /\ OursRunning' \subseteq OursRunning /\ Running' \subseteq Running
      /\ \A j \in Running' : instance'[j] = instance[j]
  BY DEF OvhInv, Shape, OursRunning, Running
<1>2. Shape'
  BY DEF OvhInv, Shape
<1>3. Steps' /\ OnePost'
  BY DEF OvhInv, Steps, OnePost
<1>4. NamesApart'
  BY <1>1 DEF OvhInv, NamesApart, OursRunning
<1>5. Within' /\ ReadInFull'
  BY <1>1 DEF OvhInv, Within, ReadInFull, RegionsRead, OursRunning
<1> QED
  BY <1>2, <1>3, <1>4, <1>5 DEF OvhInv

LEMMA ReconfigureKeeps ==
  ASSUME OvhInv, ~Careless, Reconfigure PROVE OvhInv'
<1> USE DEF Reconfigure, Forget, method
<1>1. Shape' /\ Steps' /\ OnePost' /\ ReadInFull'
  BY DEF OvhInv, Shape, Steps, OnePost, ReadInFull
<1>2. NamesApart'
  BY DEF OvhInv, NamesApart, OursRunning, Running, NoCall
<1>3. OursRunning' = OursRunning
  BY DEF OursRunning, Running
<1>4. \A i \in OursRunning : regionOf[i] \in RegionsRead'
  BY DEF OvhInv, Shape, OursRunning, Running, Needed, RegionsRead
<1>5. Within'
  BY <1>3, <1>4 DEF Within
<1> QED
  BY <1>1, <1>2, <1>5 DEF OvhInv

LEMMA OvhStep ==
  ASSUME OvhInv, ~Careless, [OvhNext]_ovh PROVE OvhInv'
<1>1. CASE \E n \in Ours : \E wish \in Wishes : StartCreate(n, wish)
  BY <1>1, StartCreateKeeps
<1>2. CASE ReadCatalog \/ OutOfStock
  BY <1>2, ReadCatalogKeeps, OutOfStockKeeps
<1>3. CASE NoFlavorLeft \/ Posted \/ CapacityRefused \/ ListDone \/ Deleted \/ Fails
  BY <1>3, Answered DEF NoFlavorLeft, Posted, CapacityRefused, ListDone, Deleted, Fails
<1>4. CASE \E i \in Ids : Accept(i)
  BY <1>4, AcceptKeeps
<1>5. CASE StartList \/ \E n \in Ours : StartDestroy(n)
  BY <1>5, StartListKeeps, StartDestroyKeeps
<1>6. CASE \E r \in Regions : ListRegion(r)
  BY <1>6, ListRegionKeeps
<1>7. CASE Delete
  BY <1>7, LossKeeps DEF Delete, Release
<1>8. CASE Lost
  BY <1>8, LossKeeps DEF Lost, Vanish
<1>9. CASE Reconfigure
  BY <1>9, ReconfigureKeeps
<1>10. CASE UNCHANGED ovh
  BY <1>10 DEF ovh, cloud, method, OvhInv, Shape, Steps, OnePost, NamesApart, Within,
     ReadInFull, OursRunning, Running, RegionsRead
<1> QED
  BY <1>1, <1>2, <1>3, <1>4, <1>5, <1>6, <1>7, <1>8, <1>9, <1>10 DEF OvhNext, Proceeds

LEMMA OvhImplements ==
  ASSUME OvhInv, [OvhNext]_ovh PROVE CloudStep
BY CreateImplements, ListDoneImplements, OthersImplement DEF OvhNext, Proceeds

\* The OVH provider keeps the contract of base.py, as long as the operator gives
\* up no region that still has machines.
THEOREM OvhKeepsContract == ASSUME ~Careless PROVE OvhSpec => KeepsContract
<1>1. OvhInit => OvhInv /\ CloudInit
  BY OvhStart DEF OvhInit
<1>2. OvhInv /\ [OvhNext]_ovh => OvhInv' /\ [CloudNext]_cloud
  BY OvhStep, OvhImplements DEF CloudStep
<1> QED
  BY <1>1, <1>2, PTL DEF OvhSpec, KeepsContract, CloudSpec

-----------------------------------------------------------------------------
(* Vultr: it has the contract under names of its own.                      *)

LEMMA SameCloud ==
  /\ V!Running = Running /\ V!OursRunning = OursRunning /\ V!FreeIds = FreeIds
  /\ V!Calls = Calls /\ V!NoCall = NoCall /\ V!ListCall = ListCall
  /\ V!NoCapacity = NoCapacity /\ V!Raised = Raised /\ V!Gone = Gone /\ V!Listed = Listed
  /\ \A f : V!Rented(f) = Rented(f)
  /\ \A k : V!DestroyCall(k) = DestroyCall(k)
  /\ \A k, w : V!Create(k, w) = Create(k, w)
  /\ \A i : i \in Running <=> i \in Ids /\ instance[i] # None
BY DEF V!Running, Running, V!OursRunning, OursRunning, V!FreeIds, FreeIds, V!Calls, Calls,
   V!NoCall, NoCall, V!ListCall, ListCall, V!NoCapacity, NoCapacity, V!Raised, Raised,
   V!Gone, Gone, V!Listed, Listed, V!Rented, Rented, V!DestroyCall, DestroyCall,
   V!Create, Create

LEMMA SameSteps ==
  /\ \A c : V!Ask(c) <=> Ask(c)
  /\ \A i : V!Vanish(i) <=> Vanish(i)
  /\ V!Release <=> Release
  /\ V!Forget <=> Forget
  /\ V!CloudInit <=> CloudInit
  /\ V!CloudTypeOK <=> CloudTypeOK
BY SameCloud DEF V!Ask, Ask, V!Vanish, Vanish, V!Release, Release, V!CloudInit, CloudInit,
   V!CloudTypeOK, CloudTypeOK, V!Instance, Instance, V!Silent, Silent, V!NoCall, NoCall,
   V!Forget, Forget

\* Every call has its method, and the method its call; and there are no sizes
\* that nobody answered.
VSteps ==
  /\ step \in {"size", "validate", "idle"} => call = NoCall
  /\ step = "post" => call.op = "create"
  /\ step \in {"page", "listed"} => call.op = "list"
  /\ step = "delete" => call.op = "destroy"
  /\ step \in {"size", "validate", "idle", "post", "page", "listed", "delete"}
  /\ ~answered => sized = {}

\* What is in the type invariants only by way of these.
CallTyped == call.op = "create" => call.name \in Ours
OutTyped  == DOMAIN out \subseteq Ours /\ \A n \in DOMAIN out : out[n] \in Ids

\* What the process does until it can be called.
Starting == V!SizeFlavors \/ V!SizingFails \/ V!Validate

VTyped == V!VultrTypeOK /\ VSteps /\ CallTyped /\ OutTyped

USE DEF V!startup

\* One post that is not a definite refusal at most: it is the one the method is at.
VOnePost ==
  step = "post" /\ made # None =>
    todo # << >> /\ made = Head(todo) /\ Head(todo) \in V!Rentable(plans)

\* What is still to be tried was asked for.
VAsked ==
  step = "post" => \A k \in DOMAIN todo : \E j \in DOMAIN call.flavors : todo[k] = call.flavors[j]

Read(i) == instance[i].name \in DOMAIN out /\ out[instance[i].name] = i

\* Up to the cursor everything has been read; a listing starts before every id.
VReadInFull ==
  /\ step \in {"size", "validate", "idle"} => cursor = 0
  /\ step = "page" => \A i \in OursRunning : i <= cursor => Read(i)
  /\ step = "listed" => \A i \in OursRunning : Read(i)

VultrInv == VTyped /\ VOnePost /\ VAsked /\ NamesApart /\ VReadInFull

-----------------------------------------------------------------------------
(* Pages.                                                                  *)

LEMMA Smallest ==
  ASSUME NEW S, S \subseteq Nat, S # {}
  PROVE  \E k \in S : \A j \in S : k <= j
<1> DEFINE Less == {p \in Nat \X Nat : p[1] < p[2]}
<1>1. IsWellFoundedOn(Less, Nat)
  BY NatLessThanWellFounded, Zenon DEF OpToRel
<1>2. \E k \in S : \A j \in S : ~ (<<j, k>> \in Less)
  <2> HIDE DEF Less
  <2> QED
    BY <1>1, WFMin
<1>3. \A k \in S, j \in S : j < k => <<j, k>> \in Less
  OBVIOUS
<1>4. \E k \in S : \A j \in S : ~ (j < k)
  <2> HIDE DEF Less
  <2> QED
    BY <1>2, <1>3
<1> QED
  BY <1>4

LEMMA SameCardinality == \A S : V!Cardinality(S) = Cardinality(S)
BY Zenon DEF V!Cardinality, Cardinality

LEMMA Below ==
  ASSUME NEW S, S \subseteq Nat, NEW i \in S
  PROVE  {j \in S : j < i} \subseteq 0 .. i /\ IsFiniteSet({j \in S : j < i})
<1>1. \A j \in {k \in S : k < i} : j \in 0 .. i
  OBVIOUS
<1>2. IsFiniteSet(0 .. i)
  BY FS_Interval
<1> QED
  BY <1>1, <1>2, FS_Subset

LEMMA RestIsNat == V!Rest \subseteq Nat
BY CloudAssumption DEF V!Rest, V!Running

\* How many instances come before i after the cursor.
Before(i) == Cardinality({j \in V!Rest : j < i})

LEMMA BeforeIsMonotone ==
  ASSUME NEW i \in V!Rest, NEW k \in V!Rest, i < k
  PROVE  Before(i) \in Nat /\ Before(k) \in Nat /\ Before(i) < Before(k)
<1> DEFINE below(x) == {j \in V!Rest : j < x}
<1>2. IsFiniteSet(below(k))
  BY RestIsNat, Below
<1>3. below(i) \subseteq below(k) /\ i \in below(k) /\ i \notin below(i)
  <2>1. \A j \in V!Rest : j < i => j < k
    BY RestIsNat
  <2>2. ~ (i < i)
    BY RestIsNat
  <2> QED
    BY <2>1, <2>2
<1> HIDE DEF below
<1>4. /\ IsFiniteSet(below(i)) /\ Cardinality(below(i)) <= Cardinality(below(k))
      /\ Cardinality(below(i)) # Cardinality(below(k))
  BY <1>2, <1>3, FS_Subset
<1>5. Cardinality(below(i)) \in Nat /\ Cardinality(below(k)) \in Nat
  BY <1>2, <1>4, FS_CardinalityType
<1>6. Before(i) = Cardinality(below(i)) /\ Before(k) = Cardinality(below(k))
  BY DEF Before, below
<1> QED
  BY <1>4, <1>5, <1>6

LEMMA BeforeIsNat == ASSUME NEW i \in V!Rest PROVE Before(i) \in Nat
<1>1. IsFiniteSet({j \in V!Rest : j < i})
  BY RestIsNat, Below
<1> QED
  BY <1>1, FS_CardinalityType DEF Before

LEMMA OnPage == \A i : i \in V!Page <=> i \in V!Rest /\ Before(i) < PerPage
BY SameCardinality DEF V!Page, Before

\* A page has a last instance, and so has any part of it.
LEMMA PageHasLast ==
  ASSUME NEW T, T \subseteq V!Page, T # {}
  PROVE  V!Max(T) \in T /\ \A j \in T : j <= V!Max(T)
<1>1. \A i \in T : i \in V!Rest /\ i \in Nat /\ Before(i) \in Nat /\ Before(i) < PerPage
  BY RestIsNat, BeforeIsNat, OnPage
<1> DEFINE left == {PerPage - Before(i) : i \in T}
<1>2. left \subseteq Nat /\ left # {}
  BY <1>1, VultrAssumption
<1>3. PICK k \in left : \A j \in left : k <= j
  BY <1>2, Smallest
<1>4. PICK i \in T : k = PerPage - Before(i)
  BY <1>3
<1>5. \A j \in T : Before(j) <= Before(i)
  BY <1>1, <1>3, <1>4, VultrAssumption
<1>6. \A j \in T : j <= i
  BY <1>1, <1>5, BeforeIsMonotone
<1> QED
  BY <1>1, <1>6 DEF V!Max

\* What follows the cursor and is not after the page, is on it.
LEMMA PageInFull ==
  ASSUME V!Page # {}, NEW i \in V!Rest, i <= V!Max(V!Page) PROVE i \in V!Page
<1>1. V!Max(V!Page) \in V!Page
  BY PageHasLast
<1>2. V!Max(V!Page) \in V!Rest /\ Before(V!Max(V!Page)) < PerPage
  BY <1>1, OnPage
<1>3. CASE i = V!Max(V!Page)
  BY <1>1, <1>3
<1>4. CASE i < V!Max(V!Page)
  BY <1>2, <1>4, OnPage, BeforeIsMonotone, VultrAssumption
<1>5. i \in Nat /\ V!Max(V!Page) \in Nat
  BY <1>2, RestIsNat
<1> QED
  BY <1>3, <1>4, <1>5

LEMMA PageNotEmpty == ASSUME V!Rest # {} PROVE V!Page # {}
<1>1. PICK i \in V!Rest : \A j \in V!Rest : i <= j
  BY RestIsNat, Smallest
<1>2. \A j \in V!Rest : ~ (j < i)
  BY <1>1, RestIsNat
<1>3. {j \in V!Rest : j < i} = {}
  BY <1>2
<1>4. Before(i) = 0
  BY <1>3, FS_EmptySet DEF Before
<1> QED
  BY <1>4, OnPage, VultrAssumption

\* A page is read by name.
LEMMA ByLabelTyped ==
  ASSUME NEW ids, ids \subseteq V!Page, NEW n \in DOMAIN V!ByLabel(ids)
  PROVE  /\ n \in Ours /\ V!ByLabel(ids)[n] \in ids
         /\ instance[V!ByLabel(ids)[n]].name = n
<1> DEFINE named == {i \in ids : instance[i].name \in Ours /\ instance[i].name = n}
<1>1. n \in {instance[i].name : i \in {j \in ids : instance[j].name \in Ours}}
  BY DEF V!ByLabel, V!OwnNames
<1>2. named # {} /\ named \subseteq V!Page /\ n \in Ours
  BY <1>1
<1>3. {i \in {j \in ids : instance[j].name \in Ours} : instance[i].name = n} = named
  OBVIOUS
<1>4. V!ByLabel(ids)[n] = V!Max(named)
  BY <1>1, <1>3 DEF V!ByLabel, V!OwnNames
<1>5. V!Max(named) \in named
  BY <1>2, PageHasLast
<1> QED
  BY <1>2, <1>4, <1>5

LEMMA ByLabelInFull ==
  ASSUME NEW ids, ids \subseteq V!Page, NEW i \in ids, instance[i].name \in Ours,
         \A j \in ids : instance[j].name = instance[i].name => j = i
  PROVE  instance[i].name \in DOMAIN V!ByLabel(ids) /\ V!ByLabel(ids)[instance[i].name] = i
<1>1. instance[i].name \in DOMAIN V!ByLabel(ids)
  BY DEF V!ByLabel, V!OwnNames
<1> QED
  BY <1>1, ByLabelTyped

-----------------------------------------------------------------------------
(* The types of Vultr, whatever its requests meet.                         *)

LEMMA NothingYet == DOMAIN << >> = {} /\ << >> \in Seq(Flavors)
<1>1. DOMAIN << >> = {}
  OBVIOUS
<1>2. << >> \in Seq(Flavors)
  OBVIOUS
<1> QED
  BY <1>1, <1>2

LEMMA VTypedStart == V!VultrInit => VTyped
<1> SUFFICES ASSUME V!VultrInit PROVE VTyped
  OBVIOUS
<1> USE DEF V!VultrInit, V!CloudInit
<1>1. V!CloudTypeOK
  BY DEF V!CloudTypeOK, V!NoCall, V!Silent
<1>2. V!VultrTypeOK
  BY <1>1, NothingYet DEF V!VultrTypeOK
<1>3. VSteps /\ CallTyped /\ OutTyped
  BY DEF VSteps, CallTyped, OutTyped, V!NoCall, NoCall
<1> QED
  BY <1>2, <1>3 DEF VTyped

\* An answer that leaves machines and inventory as they are.
LEMMA VAnswerTyped ==
  ASSUME VTyped, NEW r, V!Returns(r), instance' = instance,
         r.says \in {"nothing", "rented", "no capacity", "raised", "gone", "listed"},
         inventory' \in {inventory, out}
  PROVE  VTyped'
<1> USE DEF V!Returns
<1>1. V!CloudTypeOK'
  BY DEF VTyped, V!VultrTypeOK, V!CloudTypeOK, OutTyped, V!NoCall, V!Instance
<1>2. DOMAIN out' = {} /\ todo' \in Seq(Flavors)
  BY NothingYet
<1>3. V!VultrTypeOK'
  BY <1>1, <1>2 DEF VTyped, V!VultrTypeOK
<1>4. VSteps' /\ CallTyped' /\ OutTyped'
  BY <1>2 DEF VTyped, VSteps, CallTyped, OutTyped, V!NoCall, NoCall
<1> QED
  BY <1>3, <1>4 DEF VTyped

LEMMA VAnswersTyped ==
  ASSUME VTyped, V!Posted \/ V!NoFlavorLeft \/ V!ListDone \/ V!Deleted \/ V!Fails PROVE VTyped'
<1> USE DEF V!Posted, V!NoFlavorLeft, V!ListDone, V!Deleted, V!Fails
<1>1. PICK r : V!Returns(r) /\ r \in {V!NoCapacity, V!Listed, V!Gone, V!Raised, V!Rented(Head(todo))}
  OBVIOUS
<1>2. r.says \in {"nothing", "rented", "no capacity", "raised", "gone", "listed"}
  <2>1. r = V!Rented(Head(todo)) => r.says = "rented"
    BY DEF V!Rented
  <2>2. /\ V!NoCapacity.says = "no capacity" /\ V!Listed.says = "listed"
        /\ V!Gone.says = "gone" /\ V!Raised.says = "raised"
    BY DEF V!NoCapacity, V!Listed, V!Gone, V!Raised
  <2> QED
    BY <1>1, <2>1, <2>2
<1> QED
  BY <1>1, <1>2, VAnswerTyped

LEMMA VCallsTyped ==
  ASSUME VTyped,
         \/ \E n \in Ours : V!StartDestroy(n) \/ \E wish \in Wishes : V!StartCreate(n, wish)
         \/ V!StartList
  PROVE  VTyped'
<1>1. CASE \E n \in Ours : V!StartDestroy(n)
  <2>1. PICK n \in Ours : V!StartDestroy(n)
    BY <1>1
  <2>2. /\ call' = [op |-> "destroy", id |-> inventory[n]]
        /\ made' = None /\ reply' = V!Silent /\ step' = "delete"
        /\ UNCHANGED <<instance, inventory, sold, V!startup, todo, cursor, out>>
    BY <2>1 DEF V!StartDestroy, V!Ask, V!DestroyCall
  <2>3. V!CloudTypeOK'
    BY <2>2 DEF V!Silent, VTyped, V!VultrTypeOK, V!CloudTypeOK, V!Instance
  <2>4. V!VultrTypeOK'
    BY <2>2, <2>3 DEF VTyped, V!VultrTypeOK
  <2> QED
    BY <2>2, <2>4 DEF VTyped, VSteps, CallTyped, OutTyped
<1>2. CASE V!StartList
  BY <1>2 DEF V!StartList, V!Ask, V!ListCall, V!Silent, NoCall,
     VTyped, V!VultrTypeOK, V!CloudTypeOK, VSteps, CallTyped, OutTyped
<1>3. ASSUME NEW n \in Ours, NEW wish \in Wishes, V!StartCreate(n, wish) PROVE VTyped'
  <2> USE <1>3 DEF V!StartCreate, V!Ask, V!Create, V!Silent
  <2>1. V!CloudTypeOK'
    BY DEF VTyped, V!VultrTypeOK, V!CloudTypeOK, V!Instance
  <2>2. V!VultrTypeOK'
    BY <2>1, CloudAssumption DEF VTyped, V!VultrTypeOK
  <2>3. VSteps' /\ CallTyped' /\ OutTyped'
    BY DEF VTyped, VSteps, CallTyped, OutTyped, NoCall
  <2> QED
    BY <2>2, <2>3 DEF VTyped
<1> QED
  BY <1>1, <1>2, <1>3

LEMMA VPostTyped ==
  ASSUME VTyped, V!SkipFlavor \/ V!Refused PROVE VTyped'
<1>1. todo # << >> /\ V!NextFlavor
  BY DEF V!SkipFlavor, V!Refused, V!Posting
<1> USE <1>1 DEF V!NextFlavor, V!cloud
<1>2. todo' \in Seq(Flavors)
  BY DEF VTyped, V!VultrTypeOK
<1>3. V!VultrTypeOK'
  BY <1>2 DEF VTyped, V!VultrTypeOK, V!CloudTypeOK, V!Instance
<1> QED
  BY <1>3 DEF VTyped, VSteps, CallTyped, OutTyped

LEMMA VAcceptTyped == ASSUME VTyped, NEW i \in Ids, V!Accept(i) PROVE VTyped'
<1> USE DEF V!Accept, V!Posting, V!method
<1>1. Head(todo) \in Flavors /\ call.name \in Ours
  BY DEF VTyped, V!VultrTypeOK, VSteps, CallTyped
<1>2. instance' \in [Ids -> V!Instance \cup {None}]
  BY <1>1 DEF VTyped, V!VultrTypeOK, V!CloudTypeOK, V!Instance
<1>3. V!CloudTypeOK'
  BY <1>1, <1>2 DEF VTyped, V!VultrTypeOK, V!CloudTypeOK, V!Instance
<1>4. V!VultrTypeOK'
  BY <1>3 DEF VTyped, V!VultrTypeOK
<1> QED
  BY <1>4 DEF VTyped, VSteps, CallTyped, OutTyped

LEMMA VReadTyped == ASSUME VTyped, V!ReadPage PROVE VTyped'
<1>1. PICK ids \in {V!Page} \cup IF "empty" \in Faults THEN {{}} ELSE {} :
        /\ out' = [n \in DOMAIN V!ByLabel(ids) \cup DOMAIN out |->
                     IF n \in DOMAIN V!ByLabel(ids) THEN V!ByLabel(ids)[n] ELSE out[n]]
        /\ IF ids = V!Rest \/ ids = {} THEN step' = "listed" /\ UNCHANGED cursor
                                       ELSE cursor' = V!Max(ids) /\ UNCHANGED step
  BY DEF V!ReadPage
<1>2. ids \subseteq V!Page /\ V!Page \subseteq Ids /\ Ids \subseteq Nat
  BY <1>1, CloudAssumption DEF V!Page, V!Rest, V!Running
<1> DEFINE L == V!ByLabel(ids)
<1>3. \A n \in DOMAIN L : n \in Ours /\ L[n] \in Ids
  BY <1>2, ByLabelTyped
<1>4. cursor' \in Nat
  BY <1>1, <1>2, PageHasLast DEF VTyped, V!VultrTypeOK
<1> HIDE DEF L
<1>5. OutTyped'
  BY <1>1, <1>3 DEF VTyped, OutTyped, L
<1>6. V!VultrTypeOK'
  BY <1>1, <1>4, <1>5 DEF V!ReadPage, V!cloud, VTyped, V!VultrTypeOK, V!CloudTypeOK, V!Instance,
     OutTyped
<1>7. VSteps' /\ CallTyped'
  BY <1>1 DEF V!ReadPage, V!cloud, VTyped, VSteps, CallTyped
<1> QED
  BY <1>5, <1>6, <1>7 DEF VTyped

LEMMA VRestTyped ==
  ASSUME VTyped, V!Delete \/ V!MarketMoves \/ Starting \/ V!Lost \/ UNCHANGED V!vultr
  PROVE  VTyped'
<1>1. CASE V!Delete \/ V!Lost
  <2>1. PICK i : instance' = [instance EXCEPT ![i] = None]
    BY <1>1 DEF V!Delete, V!Release, V!Lost, V!Vanish
  <2>2. UNCHANGED <<call, made, reply, inventory, sold, V!startup, V!method>>
    BY <1>1 DEF V!Delete, V!Release, V!Lost, V!Vanish
  <2>3. instance' \in [Ids -> V!Instance \cup {None}]
    BY <2>1 DEF VTyped, V!VultrTypeOK, V!CloudTypeOK
  <2> QED
    BY <2>2, <2>3 DEF VTyped, V!VultrTypeOK, V!CloudTypeOK, V!Instance, V!method, VSteps,
       CallTyped, OutTyped
<1>2. CASE V!MarketMoves \/ Starting \/ UNCHANGED V!vultr
  BY <1>2 DEF V!MarketMoves, Starting, V!SizeFlavors, V!SizingFails, V!Validate,
     V!Rentable, V!vultr, V!cloud, V!method, VTyped,
     V!VultrTypeOK, V!CloudTypeOK, V!Instance, VSteps, CallTyped, OutTyped
<1> QED
  BY <1>1, <1>2

\* What ends the process, and what it forgets.
Ending == V!ValidateFails \/ V!Restart

LEMMA VEndingTyped == ASSUME VTyped, Ending PROVE VTyped'
<1> USE DEF Ending, V!ValidateFails, V!Restart, V!StartsOver, V!Forget
<1>0. /\ made' = None /\ reply' = V!Silent /\ inventory' = << >>
      /\ UNCHANGED <<instance, call>>
  OBVIOUS
<1>1. V!CloudTypeOK'
  BY <1>0, NothingYet DEF VTyped, V!VultrTypeOK, V!CloudTypeOK, V!Silent, V!Instance
<1>2. V!VultrTypeOK'
  BY <1>1 DEF VTyped, V!VultrTypeOK
<1> QED
  BY <1>2 DEF VTyped, VSteps, CallTyped, OutTyped

LEMMA VTypedStep == ASSUME VTyped, [V!VultrNext]_(V!vultr) PROVE VTyped'
BY VAnswersTyped, VCallsTyped, VPostTyped, VAcceptTyped, VReadTyped, VRestTyped, VEndingTyped
   DEF V!VultrNext, V!Proceeds, Starting, Ending

-----------------------------------------------------------------------------
(* Vultr keeps the contract.                                               *)

\* Names, and what has been read of a listing, do not mind what does not touch them.
LEMMA VSameMachines ==
  ASSUME VultrInv, UNCHANGED <<instance, call, made>>, VTyped', VOnePost', VAsked',
         VReadInFull'
  PROVE  VultrInv'
BY DEF VultrInv, NamesApart, OursRunning, Running

LEMMA VOpenCall == VSteps /\ step \notin {"size", "validate", "idle"} => call # NoCall
BY DEF VSteps, NoCall

LEMMA VAnswerStep ==
  ASSUME NEW r, V!Returns(r), UNCHANGED instance, call # NoCall,
         \/ call.op = "create" /\ made # None /\ r = Rented(made)
         \/ call.op = "create" /\ made = None /\ r = NoCapacity
         \/ call.op = "destroy" /\ instance[call.id] = None /\ r = Gone
         \/ r = Raised,
         UNCHANGED inventory
  PROVE  CloudStep
BY SameCloud DEF V!Returns, Answer, Says, CloudStep, CloudNext

LEMMA VAnswered ==
  ASSUME VultrInv, NEW r, V!Returns(r), UNCHANGED instance, VTyped' PROVE VultrInv'
<1> USE DEF V!Returns
<1>1. VOnePost' /\ VAsked' /\ VReadInFull'
  BY DEF VOnePost, VAsked, VReadInFull
<1>2. NamesApart'
  BY DEF VultrInv, NamesApart, OursRunning, Running, V!NoCall
<1> QED
  BY <1>1, <1>2 DEF VultrInv

\* A step keeps the invariant and is one of the contract.
VGood == VultrInv' /\ CloudStep

LEMMA VCreateGood ==
  ASSUME VultrInv, VTyped', NEW n \in Ours, NEW wish \in Wishes, V!StartCreate(n, wish)
  PROVE  VGood
<1>1. Ask(Create(n, wish)) /\ step' = "post" /\ todo' = wish
  BY SameSteps, SameCloud DEF V!StartCreate
<1>2. NamesApart'
  BY <1>1, AskedName DEF Ask, VultrInv, NamesApart, OursRunning, Running, Create
<1>3. VOnePost' /\ VReadInFull'
  BY <1>1 DEF Ask, VOnePost, VReadInFull
<1>4. VAsked'
  BY <1>1 DEF Ask, VAsked, Create
<1> QED
  BY <1>1, <1>2, <1>3, <1>4 DEF VGood, VultrInv, CloudStep, CloudNext, Ask

LEMMA VPostGood ==
  ASSUME VultrInv, VTyped', Faults = {}, V!SkipFlavor \/ V!Refused PROVE VGood
<1>1. made = None
  BY DEF V!SkipFlavor, V!Refused, V!NothingWasDone, V!Catalog, VultrInv, VOnePost
<1>2. UNCHANGED cloud /\ step' = step /\ step = "post"
  BY DEF V!SkipFlavor, V!Refused, V!Posting, V!NextFlavor, V!cloud, cloud
<1>3. VOnePost' /\ VReadInFull'
  BY <1>1, <1>2 DEF VOnePost, VReadInFull, cloud
<1>4. todo \in Seq(Flavors) /\ todo # << >> /\ todo' = Tail(todo)
  BY DEF V!SkipFlavor, V!Refused, V!Posting, V!NextFlavor, VultrInv, VTyped, V!VultrTypeOK
<1>5. \A k \in DOMAIN Tail(todo) : k + 1 \in DOMAIN todo /\ Tail(todo)[k] = todo[k + 1]
  BY <1>4
<1>6. VAsked'
  BY <1>2, <1>4, <1>5 DEF VultrInv, VAsked, cloud
<1> QED
  BY <1>2, <1>3, <1>6, VSameMachines DEF VGood, CloudStep, cloud

LEMMA VAcceptGood ==
  ASSUME VultrInv, VTyped', NEW i \in Ids, V!Accept(i) PROVE VGood
<1> USE DEF V!Accept, V!Posting, V!method
<1>1. made = None /\ call.op = "create" /\ todo # << >>
  BY DEF VultrInv, VOnePost, VTyped, VSteps
<1>2. Head(todo) \in Flavors /\ i \in FreeIds /\ todo \in Seq(Flavors)
  BY SameCloud DEF VultrInv, VTyped, V!VultrTypeOK
<1>3. Boot(i, Head(todo))
  <2>1. 1 \in DOMAIN todo /\ Head(todo) = todo[1]
    BY <1>1, <1>2
  <2>2. Head(todo) \in {call.flavors[k] : k \in DOMAIN call.flavors}
    BY <2>1 DEF VultrInv, VAsked
  <2> QED
    BY <1>1, <1>2, <2>2 DEF Boot
<1>4. CloudStep
  BY <1>2, <1>3 DEF CloudStep, CloudNext
<1>5. VOnePost' /\ VAsked' /\ VReadInFull'
  BY <1>1 DEF V!Catalog, VultrInv, VOnePost, VAsked, VReadInFull
<1>6. NamesApart'
  <2>1. made' # None
    BY <1>2, CloudAssumption
  <2>2. /\ instance'[i].name = call.name
        /\ \A j \in Ids \ {i} : instance'[j] = instance[j]
    BY DEF VultrInv, VTyped, V!VultrTypeOK, V!CloudTypeOK
  <2>3. OursRunning' \subseteq OursRunning \cup {i}
    BY <2>2 DEF OursRunning, Running
  <2>4. \A j \in OursRunning : instance[j].name # call.name
    BY <1>1 DEF VultrInv, NamesApart, OursRunning
  <2>5. i \notin Running
    BY <1>2 DEF FreeIds
  <2> QED
    BY <1>2, <2>1, <2>2, <2>3, <2>4, <2>5 DEF VultrInv, NamesApart, OursRunning, Running
<1> QED
  BY <1>4, <1>5, <1>6 DEF VGood, VultrInv

LEMMA VAnswersGood ==
  ASSUME VultrInv, VTyped', Faults = {},
         V!Posted \/ V!NoFlavorLeft \/ V!Deleted \/ V!Fails
  PROVE  VGood
<1>1. PICK r : V!Returns(r) /\ UNCHANGED <<instance, inventory>>
  BY DEF V!Posted, V!NoFlavorLeft, V!Deleted, V!Fails
<1>2. VultrInv'
  BY <1>1, VAnswered
<1>3. CASE V!Posted
  <2>1. V!Returns(Rented(made)) /\ made # None /\ call.op = "create" /\ call # NoCall
    BY <1>3, SameCloud, VOpenCall, CloudAssumption DEF V!Posted, V!Posting, VultrInv, VTyped,
       VSteps, V!VultrTypeOK
  <2> QED
    BY <1>2, <1>3, <2>1, VAnswerStep DEF VGood, V!Posted
<1>4. CASE V!NoFlavorLeft
  <2>1. V!Returns(NoCapacity) /\ made = None /\ call.op = "create" /\ call # NoCall
    BY <1>4, SameCloud, VOpenCall DEF V!NoFlavorLeft, VultrInv, VOnePost, VTyped, VSteps
  <2> QED
    BY <1>2, <1>4, <2>1, VAnswerStep DEF VGood, V!NoFlavorLeft
<1>5. CASE V!Deleted
  <2>1. /\ V!Returns(Gone) /\ instance[call.id] = None
        /\ call.op = "destroy" /\ call # NoCall
    BY <1>5, SameCloud, VOpenCall DEF V!Deleted, VultrInv, VTyped, VSteps
  <2> QED
    BY <1>2, <1>5, <2>1, VAnswerStep DEF VGood, V!Deleted
<1>6. CASE V!Fails
  <2>1. V!Returns(Raised) /\ call # NoCall
    BY <1>6, SameCloud, VOpenCall DEF V!Fails, VultrInv, VTyped
  <2> QED
    BY <1>2, <1>6, <2>1, VAnswerStep DEF VGood, V!Fails
<1> QED
  BY <1>3, <1>4, <1>5, <1>6

LEMMA VListGood ==
  ASSUME VultrInv, VTyped', V!ListDone PROVE VGood
<1>1. V!Returns(Listed) /\ step = "listed" /\ inventory' = out /\ UNCHANGED instance
  BY SameCloud DEF V!ListDone
<1>2. VultrInv'
  BY <1>1, VAnswered
<1>3. call # NoCall /\ call.op = "list"
  BY <1>1, VOpenCall DEF VultrInv, VTyped, VSteps
<1>4. ListsOurs(out)
  BY <1>1 DEF VultrInv, VTyped, OutTyped, VReadInFull, Read, ListsOurs
<1>5. Answer
  BY <1>1, <1>3, <1>4, SameCloud DEF V!Returns, Answer
<1> QED
  BY <1>2, <1>5 DEF VGood, CloudStep, CloudNext

LEMMA VReadGood ==
  ASSUME VultrInv, VTyped', Faults = {}, V!ReadPage PROVE VGood
<1> DEFINE L == V!ByLabel(V!Page)
<1>1. /\ step = "page"
      /\ out' = [n \in DOMAIN L \cup DOMAIN out |-> IF n \in DOMAIN L THEN L[n] ELSE out[n]]
      /\ IF V!Page = V!Rest \/ V!Page = {} THEN step' = "listed" /\ UNCHANGED cursor
                                           ELSE cursor' = V!Max(V!Page) /\ UNCHANGED step
      /\ UNCHANGED <<instance, call, made, reply, inventory>>
  BY DEF V!ReadPage, V!cloud
<1>2. V!Page \subseteq Running
  BY SameCloud DEF V!Page, V!Rest
<1>3. ASSUME NEW i \in OursRunning, Read(i) \/ i \in V!Page
      PROVE  Read(i)'
  <2>1. \A n \in DOMAIN L : L[n] \in V!Page /\ instance[L[n]].name = n /\ n \in Ours
    BY ByLabelTyped
  <2>2. \A j \in V!Page : instance[j].name = instance[i].name => j = i
    BY <1>2, <1>3 DEF VultrInv, NamesApart, OursRunning
  <2>3. i \in V!Page => instance[i].name \in DOMAIN L /\ L[instance[i].name] = i
    BY <1>3, <2>2, ByLabelInFull DEF OursRunning
  <2>4. instance[i].name \in DOMAIN L => L[instance[i].name] = i
    BY <2>1, <2>2
  <2> HIDE DEF L
  <2> QED
    BY <1>1, <1>3, <2>3, <2>4 DEF Read
<1>4. \A i \in OursRunning : i <= cursor \/ i \in V!Rest
  BY SameCloud, CloudAssumption DEF V!Rest, OursRunning, Running, VultrInv, VTyped, V!VultrTypeOK
<1>5. \A i \in OursRunning : i <= cursor => Read(i)
  BY <1>1 DEF VultrInv, VReadInFull
<1> HIDE DEF L
<1>6. OursRunning' = OursRunning
  BY <1>1 DEF OursRunning, Running
<1>7. VReadInFull'
  <2>1. CASE V!Page = V!Rest
    BY <1>1, <1>3, <1>4, <1>5, <1>6, <2>1 DEF VReadInFull
  <2>2. CASE V!Page # V!Rest
    <3>1. V!Page # {}
      BY <2>2, PageNotEmpty DEF V!Page
    <3>2. \A i \in V!Rest : i <= V!Max(V!Page) => i \in V!Page
      BY <3>1, PageInFull
    <3>3. step' = "page" /\ cursor' = V!Max(V!Page)
      BY <1>1, <2>2, <3>1
    <3> QED
      BY <1>3, <1>4, <1>5, <1>6, <3>2, <3>3 DEF VReadInFull
  <2> QED
    BY <2>1, <2>2
<1>8. VOnePost' /\ VAsked'
  BY <1>1 DEF VOnePost, VAsked
<1> QED
  BY <1>1, <1>7, <1>8, VSameMachines DEF VGood, CloudStep, cloud

LEMMA VOthersGood ==
  ASSUME VultrInv, VTyped',
         \/ \E n \in Ours : V!StartDestroy(n)
         \/ V!StartList \/ V!Delete \/ V!Lost \/ V!MarketMoves \/ Starting \/ UNCHANGED V!vultr
  PROVE  VGood
<1> USE DEF VGood, CloudStep, CloudNext
<1>1. ASSUME NEW n \in Ours, V!StartDestroy(n) PROVE VGood
  <2>1. Ask(DestroyCall(n)) /\ step' = "delete"
    BY <1>1, SameSteps, SameCloud DEF V!StartDestroy
  <2>2. VOnePost' /\ VAsked' /\ VReadInFull'
    BY <2>1 DEF VOnePost, VAsked, VReadInFull
  <2>3. NamesApart'
    BY <2>1 DEF Ask, DestroyCall, VultrInv, NamesApart, OursRunning, Running
  <2> QED
    BY <2>1, <2>2, <2>3 DEF VultrInv, Ask
<1>2. CASE V!StartList
  <2>1. Ask(ListCall) /\ step' = "page" /\ step = "idle" /\ UNCHANGED <<instance, cursor, out>>
    BY <1>2, SameSteps, SameCloud DEF V!StartList, Ask
  <2>2. VOnePost' /\ VAsked' /\ NamesApart'
    BY <2>1 DEF Ask, ListCall, VultrInv, NamesApart, OursRunning, Running, VOnePost, VAsked
  <2>3. \A i \in OursRunning : ~ (i <= 0)
    BY CloudAssumption DEF OursRunning, Running
  <2>4. VReadInFull'
    BY <2>1, <2>3 DEF VultrInv, VReadInFull, OursRunning, Running
  <2> QED
    BY <2>1, <2>2, <2>4 DEF VultrInv, Ask
<1>3. CASE V!Delete \/ V!Lost
  <2>1. PICK i : instance' = [instance EXCEPT ![i] = None]
    BY <1>3 DEF V!Delete, V!Release, V!Lost, V!Vanish
  <2>2. UNCHANGED <<call, made, reply, inventory, sold, V!startup, V!method>>
    BY <1>3 DEF V!Delete, V!Release, V!Lost, V!Vanish
  <2>3. /\ OursRunning' \subseteq OursRunning /\ Running' \subseteq Running
        /\ \A j \in Running' : instance'[j] = instance[j]
    BY <2>1 DEF VultrInv, VTyped, V!VultrTypeOK, V!CloudTypeOK, OursRunning, Running
  <2>4. NamesApart'
    BY <2>2, <2>3 DEF VultrInv, NamesApart, OursRunning
  <2>5. VOnePost' /\ VAsked' /\ VReadInFull'
    BY <2>2, <2>3 DEF VultrInv, VOnePost, VAsked, VReadInFull, Read, V!method, OursRunning
  <2>6. CloudStep
    BY <1>3, SameSteps DEF V!Delete, V!Lost
  <2> QED
    BY <2>4, <2>5, <2>6 DEF VultrInv
<1>4. CASE V!MarketMoves \/ Starting \/ UNCHANGED V!vultr
  <2>1. UNCHANGED cloud
    BY <1>4 DEF V!MarketMoves, Starting, V!SizeFlavors, V!SizingFails, V!Validate,
     V!vultr, V!cloud, cloud
  <2>2. VOnePost' /\ VAsked' /\ VReadInFull'
    BY <1>4 DEF V!MarketMoves, Starting, V!SizeFlavors, V!SizingFails, V!Validate,
     V!vultr, V!cloud, V!method, V!Rentable, VultrInv,
       VOnePost, VAsked, VReadInFull, Read, OursRunning, Running
  <2> QED
    BY <2>1, <2>2, VSameMachines DEF cloud
<1> QED
  BY <1>1, <1>2, <1>3, <1>4

LEMMA VEndingGood == ASSUME VultrInv, VTyped', Ending PROVE VGood
<1>1. Forget /\ step \in {"validate", "idle"} /\ step' = "size" /\ UNCHANGED <<cursor, instance>>
  BY SameSteps DEF Ending, V!ValidateFails, V!Restart, V!StartsOver, Forget
<1>2. VOnePost' /\ VAsked' /\ VReadInFull'
  BY <1>1 DEF VultrInv, VOnePost, VAsked, VReadInFull
<1>3. NamesApart'
  BY <1>1 DEF Forget, NoCall, VultrInv, NamesApart, OursRunning, Running
<1> QED
  BY <1>1, <1>2, <1>3 DEF VGood, VultrInv, CloudStep, CloudNext

LEMMA VultrStep ==
  ASSUME VultrInv, Faults = {}, [V!VultrNext]_(V!vultr) PROVE VultrInv' /\ CloudStep
<1>1. VTyped'
  BY VTypedStep DEF VultrInv
<1>2. VGood
  BY <1>1, VCreateGood, VPostGood, VAcceptGood, VAnswersGood, VListGood, VReadGood, VOthersGood,
     VEndingGood DEF V!VultrNext, V!Proceeds, Starting, Ending
<1> QED
  BY <1>2 DEF VGood

-----------------------------------------------------------------------------
(* The types of Ovh, whatever regions are given up.                        *)

OTyped == OvhTypeOK /\ Steps /\ CallTyped /\ OutTyped

LEMMA OTypedStart == OvhInit => OTyped
<1> SUFFICES ASSUME OvhInit PROVE OTyped
  OBVIOUS
<1> USE DEF OvhInit, CloudInit
<1>1. CloudTypeOK
  BY DEF CloudTypeOK, NoCall, Silent
<1>2. OvhTypeOK
  BY <1>1, OvhAssumption DEF OvhTypeOK
<1>3. Steps /\ CallTyped /\ OutTyped
  BY DEF Steps, CallTyped, OutTyped, NoCall
<1> QED
  BY <1>2, <1>3 DEF OTyped

LEMMA OAnswerTyped ==
  ASSUME OTyped, NEW r, Returns(r), instance' = instance,
         r.says \in {"nothing", "rented", "no capacity", "raised", "gone", "listed"},
         inventory' \in {inventory, out}
  PROVE  OTyped'
<1> USE DEF Returns, Idle
<1>1. CloudTypeOK'
  BY DEF OTyped, OvhTypeOK, CloudTypeOK, OutTyped, NoCall, Instance
<1>2. DOMAIN out' = {} /\ todo' \in Seq(Flavors)
  BY NothingYet
<1>3. OvhTypeOK'
  BY <1>1, <1>2, OvhAssumption DEF OTyped, OvhTypeOK
<1>4. Steps' /\ CallTyped' /\ OutTyped'
  BY <1>2 DEF Steps, CallTyped, OutTyped, NoCall
<1> QED
  BY <1>3, <1>4 DEF OTyped

LEMMA OAnswersTyped ==
  ASSUME OTyped, NoFlavorLeft \/ Posted \/ CapacityRefused \/ ListDone \/ Deleted \/ Fails
  PROVE  OTyped'
<1> USE DEF NoFlavorLeft, Posted, CapacityRefused, ListDone, Deleted, Fails
<1>1. PICK r : Returns(r) /\ r \in {NoCapacity, Listed, Gone, Raised, Rented(Head(todo))}
  OBVIOUS
<1>2. r.says \in {"nothing", "rented", "no capacity", "raised", "gone", "listed"}
  <2>1. r = Rented(Head(todo)) => r.says = "rented"
    BY DEF Rented
  <2>2. /\ NoCapacity.says = "no capacity" /\ Listed.says = "listed"
        /\ Gone.says = "gone" /\ Raised.says = "raised"
    BY DEF NoCapacity, Listed, Gone, Raised
  <2> QED
    BY <1>1, <2>1, <2>2
<1> QED
  BY <1>1, <1>2, OAnswerTyped

LEMMA OCallsTyped ==
  ASSUME OTyped,
         \/ \E n \in Ours : StartDestroy(n) \/ \E wish \in Wishes : StartCreate(n, wish)
         \/ StartList
  PROVE  OTyped'
<1> USE DEF OTyped, OvhTypeOK, CloudTypeOK
<1>0. RegionsRead \subseteq Regions
  BY OvhAssumption DEF RegionsRead
<1>1. ASSUME NEW n \in Ours, StartDestroy(n) PROVE OTyped'
  <2>1. /\ call' = [op |-> "destroy", id |-> inventory[n]]
        /\ made' = None /\ reply' = Silent /\ step' = "delete"
        /\ UNCHANGED <<instance, inventory, regionOf, placements, region, catalog, todo,
                       unlisted, out>>
    BY <1>1 DEF StartDestroy, Ask, DestroyCall
  <2> QED
    BY <2>1 DEF Silent, Instance, Steps, CallTyped, OutTyped
<1>2. CASE StartList
  BY <1>0, <1>2 DEF StartList, Ask, ListCall, Silent, Instance, Steps, CallTyped, OutTyped
<1>3. ASSUME NEW n \in Ours, NEW wish \in Wishes, StartCreate(n, wish) PROVE OTyped'
  <2> USE <1>3 DEF StartCreate, Ask, Create, Silent
  <2>1. CloudTypeOK'
    BY DEF Instance
  <2>2. region' \in Regions /\ todo' \in Seq(Flavors)
    BY <1>0, CloudAssumption
  <2>3. OvhTypeOK'
    BY <2>1, <2>2
  <2>4. Steps' /\ CallTyped' /\ OutTyped'
    BY DEF Steps, CallTyped, OutTyped
  <2> QED
    BY <2>3, <2>4
<1> QED
  BY <1>1, <1>2, <1>3

LEMMA OListTyped == ASSUME OTyped, NEW r \in Regions, ListRegion(r) PROVE OTyped'
<1> DEFINE L == ListIn(r)
<1>1. \A n \in DOMAIN L : n \in Ours /\ L[n] \in Ids
  <2> SUFFICES ASSUME NEW n \in DOMAIN L PROVE n \in Ours /\ L[n] \in Ids
    OBVIOUS
  <2>1. PICK j \in {i \in Running : regionOf[i] = r /\ instance[i].name \in OwnNames} :
          instance[j].name = n
    BY DEF ListIn
  <2>2. (CHOOSE i \in {k \in Running : regionOf[k] = r /\ instance[k].name \in OwnNames} :
           instance[i].name = n) \in Ids
    BY <2>1 DEF Running
  <2> QED
    BY <2>1, <2>2 DEF ListIn, OwnNames
<1>2. out' = [n \in DOMAIN L \cup DOMAIN out |-> IF n \in DOMAIN L THEN L[n] ELSE out[n]]
  BY DEF ListRegion
<1> HIDE DEF L
<1>3. OutTyped'
  BY <1>1, <1>2 DEF OTyped, OutTyped
<1>4. OvhTypeOK' /\ Steps' /\ CallTyped'
  BY DEF ListRegion, cloud, OTyped, OvhTypeOK, CloudTypeOK, Instance, Steps, CallTyped
<1> QED
  BY <1>3, <1>4 DEF OTyped

LEMMA OLossTyped ==
  ASSUME OTyped, NEW i, instance' = [instance EXCEPT ![i] = None],
         UNCHANGED <<call, made, reply, inventory, regionOf, placements, method>>
  PROVE  OTyped'
<1>1. instance' \in [Ids -> Instance \cup {None}]
  BY DEF OTyped, OvhTypeOK, CloudTypeOK
<1> QED
  BY <1>1 DEF method, OTyped, OvhTypeOK, CloudTypeOK, Instance, Steps, CallTyped, OutTyped

LEMMA OAcceptTyped == ASSUME OTyped, NEW i \in Ids, Accept(i) PROVE OTyped'
<1> USE DEF Accept, Boot, method
<1>1. Head(todo) \in Flavors /\ call.name \in Ours
  BY DEF OTyped, OvhTypeOK, Steps, CallTyped
<1>2. instance' \in [Ids -> Instance \cup {None}]
  BY <1>1 DEF OTyped, OvhTypeOK, CloudTypeOK, Instance
<1>3. CloudTypeOK'
  BY <1>1, <1>2 DEF OTyped, OvhTypeOK, CloudTypeOK, Instance
<1>4. OvhTypeOK'
  BY <1>3 DEF OTyped, OvhTypeOK
<1> QED
  BY <1>4 DEF OTyped, Steps, CallTyped, OutTyped

LEMMA ORestTyped ==
  ASSUME OTyped, ReadCatalog \/ OutOfStock \/ Reconfigure \/ UNCHANGED ovh PROVE OTyped'
<1>1. CASE OutOfStock
  <2>1. todo' \in Seq(Flavors)
    BY <1>1 DEF OutOfStock, OTyped, OvhTypeOK
  <2> QED
    BY <1>1, <2>1 DEF OutOfStock, cloud, OTyped, OvhTypeOK, CloudTypeOK, Instance, Steps,
       CallTyped, OutTyped
<1>2. CASE Reconfigure
  <2>1. CloudTypeOK'
    BY <1>2, NothingYet DEF Reconfigure, Forget, OTyped, OvhTypeOK, CloudTypeOK, Silent, Instance
  <2> QED
    BY <1>2, <2>1 DEF Reconfigure, Forget, method, OTyped, OvhTypeOK, Steps, CallTyped, OutTyped
<1>3. CASE ReadCatalog \/ UNCHANGED ovh
  BY <1>3 DEF ReadCatalog, ovh, cloud, method, OTyped, OvhTypeOK, CloudTypeOK,
     Instance, Steps, CallTyped, OutTyped
<1> QED
  BY <1>1, <1>2, <1>3

LEMMA OTypedStep == ASSUME OTyped, [OvhNext]_ovh PROVE OTyped'
<1>1. CASE Delete
  BY <1>1, OLossTyped DEF Delete, Release
<1>2. CASE Lost
  BY <1>2, OLossTyped DEF Lost, Vanish
<1> QED
  BY <1>1, <1>2, OAnswersTyped, OCallsTyped, OListTyped, OAcceptTyped, ORestTyped
     DEF OvhNext, Proceeds

-----------------------------------------------------------------------------
(* Either of them.                                                         *)

\* A step of one of them is its step, or none of anything it has.
LEMMA EitherSteps ==
  ASSUME [ProvidersNext]_all, provider \in {"ovh", "vultr"}
  PROVE  /\ provider' = provider
         /\ provider = "ovh" => [OvhNext]_ovh
         /\ provider = "vultr" => [V!VultrNext]_(V!vultr)
BY DEF ProvidersNext, OvhDoes, VultrDoes, all, ovh, ofVultr, V!vultr, V!cloud, cloud, method, V!method

LEMMA EitherStarts ==
  ASSUME ProvidersInit
  PROVE  /\ provider \in {"ovh", "vultr"} /\ CloudInit
         /\ provider = "ovh" => OvhInit
         /\ provider = "vultr" => V!VultrInit
BY SameSteps DEF ProvidersInit, OvhInit, V!VultrInit

EitherTyped ==
  /\ provider \in {"ovh", "vultr"}
  /\ provider = "ovh" => OTyped
  /\ provider = "vultr" => VTyped

\* Every value the two providers' methods hold is of its kind, whatever fails:
\* no foreign machine gets into an inventory, and no id that is none.
THEOREM ProvidersTyped == ProvidersSpec => []ProvidersTypeOK
<1>1. ProvidersInit => EitherTyped
  BY EitherStarts, OTypedStart, VTypedStart DEF EitherTyped
<1>2. EitherTyped /\ [ProvidersNext]_all => EitherTyped'
  BY EitherSteps, OTypedStep, VTypedStep DEF EitherTyped
<1>3. EitherTyped => ProvidersTypeOK
  BY DEF EitherTyped, ProvidersTypeOK, OTyped, VTyped
<1> QED
  BY <1>1, <1>2, <1>3, PTL DEF ProvidersSpec

EitherInv ==
  /\ provider \in {"ovh", "vultr"}
  /\ provider = "ovh" => OvhInv
  /\ provider = "vultr" => VultrInv

LEMMA VultrStart == V!VultrInit => VultrInv
<1> SUFFICES ASSUME V!VultrInit PROVE VultrInv
  OBVIOUS
<1>1. OursRunning = {} /\ call = NoCall /\ step = "size" /\ cursor = 0
  BY SameCloud, SameSteps, CloudAssumption DEF V!VultrInit, CloudInit, OursRunning, Running
<1>2. NamesApart
  BY <1>1 DEF NamesApart, NoCall
<1>3. VOnePost /\ VAsked /\ VReadInFull
  BY <1>1 DEF VOnePost, VAsked, VReadInFull
<1> QED
  BY <1>2, <1>3, VTypedStart DEF VultrInv

\* Both providers keep the contract of base.py: Ovh as long as the operator
\* gives up no region that still has machines, Vultr as long as an error status
\* means that nothing was done, and has a body.
THEOREM ProvidersKeepContract ==
  ASSUME ~Careless, Faults = {} PROVE ProvidersSpec => KeepsContract
<1>1. ProvidersInit => EitherInv /\ CloudInit
  BY EitherStarts, OvhStart, VultrStart DEF EitherInv
<1>2. EitherInv /\ [ProvidersNext]_all => EitherInv' /\ [CloudNext]_cloud
  BY EitherSteps, OvhStep, OvhImplements, VultrStep DEF EitherInv, CloudStep
<1> QED
  BY <1>1, <1>2, PTL DEF ProvidersSpec, KeepsContract, CloudSpec

\* What that contract is for: False from create() means that nothing was
\* created, and an inventory that is returned has every machine of ours.
THEOREM ProvidersTellTheTruth ==
  ASSUME ~Careless, Faults = {} PROVE ProvidersSpec => [](FalseMeansNothing /\ InventoryInFull)
<1>1. CloudInit => ContractInv
  BY RepliesDiffer DEF CloudInit, ContractInv, FalseMeansNothing, InventoryInFull
<1>2. ContractInv /\ [CloudNext]_cloud => ContractInv'
  BY ContractStep
<1>3. ContractInv => FalseMeansNothing /\ InventoryInFull
  BY DEF ContractInv
<1> QED
  BY <1>1, <1>2, <1>3, ProvidersKeepContract, PTL DEF KeepsContract, CloudSpec

\* What create() tries is what had a size when the operator started, if
\* flavor_capacity answered.
SizesInv ==
  /\ provider \in {"ovh", "vultr"}
  /\ provider = "vultr" =>
       /\ VSteps /\ (answered => sized = V!Rentable(plans))
       /\ step = "post" => reply.says = "nothing"

LEMMA SizesStart == ProvidersInit => SizesInv
BY EitherStarts, VTypedStart DEF SizesInv, V!VultrInit, VTyped

LEMMA SizesStep ==
  ASSUME SizesInv, VTyped, VTyped', provider' = provider, [V!VultrNext]_(V!vultr)
  PROVE  /\ SizesInv'
         /\ provider = "vultr" /\ step = "post" /\ answered /\ reply'.says = "rented" => reply'.flavor \in sized
<1> SUFFICES ASSUME provider = "vultr"
             PROVE  /\ VSteps' /\ (answered' => sized' = V!Rentable(plans)') /\ (step' = "post" => reply'.says = "nothing")
                    /\ step = "post" /\ answered /\ reply'.says = "rented" => reply'.flavor \in sized
  BY DEF SizesInv
<1>1. VSteps' /\ (answered => sized = V!Rentable(plans)) /\ (step = "post" => reply.says = "nothing")
  BY DEF SizesInv, VTyped
<1>2. CASE V!Posted
  <2>1. reply' = V!Rented(Head(todo)) /\ step' = "idle" /\ Head(todo) \in V!Rentable(plans)
    BY <1>2 DEF V!Posted, V!Posting, V!Catalog, V!Returns
  <2>2. UNCHANGED V!startup
    BY <1>2 DEF V!Posted, V!Returns
  <2> QED
    BY <1>1, <2>1, <2>2 DEF V!Rented, V!Rentable
<1>3. CASE V!NoFlavorLeft \/ V!Deleted \/ V!Fails \/ V!ListDone
  <2>1. UNCHANGED V!startup /\ step' = "idle" /\ reply' \in {V!NoCapacity, V!Gone, V!Raised, V!Listed}
    BY <1>3 DEF V!NoFlavorLeft, V!Deleted, V!Fails, V!ListDone, V!Returns
  <2>2. /\ V!NoCapacity.says = "no capacity" /\ V!Listed.says = "listed"
        /\ V!Gone.says = "gone" /\ V!Raised.says = "raised"
    BY DEF V!NoCapacity, V!Listed, V!Gone, V!Raised
  <2> QED
    BY <1>1, <2>1, <2>2 DEF V!Rentable
<1>4. CASE \/ \E n \in Ours : V!StartDestroy(n) \/ \E wish \in Wishes : V!StartCreate(n, wish)
           \/ V!StartList
  <2>1. UNCHANGED V!startup /\ step = "idle" /\ reply' = V!Silent
    BY <1>4 DEF V!StartDestroy, V!StartCreate, V!StartList, V!Ask
  <2> QED
    BY <1>1, <2>1 DEF V!Silent, V!Rentable
<1>5. CASE Starting \/ Ending
  BY <1>1, <1>5 DEF Starting, V!SizeFlavors, V!SizingFails, V!Validate, Ending, V!ValidateFails,
     V!Restart, V!StartsOver, V!Forget, V!Silent, V!startup, V!cloud, V!Rentable
<1>6. CASE \/ V!SkipFlavor \/ V!Refused \/ V!ReadPage \/ V!Delete \/ V!MarketMoves \/ V!Lost
           \/ UNCHANGED V!vultr \/ \E i \in Ids : V!Accept(i)
  <2>1. UNCHANGED <<reply, V!startup>> /\ (step' = "post" => step = "post")
    BY <1>6 DEF V!SkipFlavor, V!Refused, V!Posting, V!NextFlavor, V!ReadPage, V!Delete, V!Release,
       V!MarketMoves, V!Lost, V!Vanish, V!vultr, V!cloud, V!method, V!Accept
  <2> QED
    BY <1>1, <2>1 DEF V!Rentable
<1> QED
  BY <1>2, <1>3, <1>4, <1>5, <1>6 DEF V!VultrNext, V!Proceeds, Starting, Ending

\* A process whose sizing was answered rents no flavor on Vultr that it could not
\* size, whatever the region has come to sell since and whatever its requests meet.
THEOREM VultrRentsWhatItSized == ProvidersSpec => RentsWhatItSized
<1>1. ProvidersInit => EitherTyped /\ SizesInv
  BY EitherStarts, OTypedStart, VTypedStart, SizesStart DEF EitherTyped
<1>2. EitherTyped /\ SizesInv /\ [ProvidersNext]_all =>
        /\ EitherTyped' /\ SizesInv'
        /\ provider = "vultr" /\ step = "post" /\ answered /\ reply'.says = "rented" => reply'.flavor \in sized
  <2> SUFFICES ASSUME EitherTyped, SizesInv, [ProvidersNext]_all
               PROVE  /\ EitherTyped' /\ SizesInv'
                      /\ provider = "vultr" /\ step = "post" /\ answered /\ reply'.says = "rented"
                           => reply'.flavor \in sized
    OBVIOUS
  <2>1. EitherTyped'
    BY EitherSteps, OTypedStep, VTypedStep DEF EitherTyped
  <2>2. CASE provider = "ovh"
    BY <2>1, <2>2, EitherSteps DEF EitherTyped, SizesInv
  <2>3. CASE provider = "vultr"
    BY <2>1, <2>3, EitherSteps, SizesStep DEF EitherTyped
  <2> QED
    BY <2>1, <2>2, <2>3 DEF EitherTyped
<1> QED
  BY <1>1, <1>2, PTL DEF ProvidersSpec, RentsWhatItSized
=============================================================================
