--------------------------------- MODULE Ovh ---------------------------------
(***************************************************************************)
(* The OVH provider (providers/ovh/provider.py), request by request: it    *)
(* reads a region's flavors, posts at most one instance, and lists region  *)
(* by region.  It implements Cloud.                                        *)
(*                                                                         *)
(* Any request may fail, having been carried out or not.  Stock changes    *)
(* between the reading of the flavors and the post.                        *)
(***************************************************************************)
EXTENDS Cloud

CONSTANTS
  Regions,
  Account,          \* cfg.region
  Careless          \* whether a region may be given up that has machines

ASSUME OvhAssumption == Account \in Regions /\ Careless \in BOOLEAN

VARIABLES
  regionOf,         \* id -> the region the machine is in
  placements,       \* region -> whether some pool's placement overrides to it
  step,             \* where the method is
  region,           \* the region it works on
  catalog,          \* the flavors create() read as available there
  todo,             \* the flavors it has not tried
  unlisted,         \* the regions list_machines() has not read
  out               \* what it has read

method == <<step, region, catalog, todo, unlisted, out>>
ovh    == <<cloud, regionOf, placements, method>>

OvhTypeOK ==
  /\ CloudTypeOK
  /\ regionOf \in [Ids -> Regions]
  /\ placements \in [Regions -> BOOLEAN]
  /\ step \in {"idle", "catalog", "post", "list", "delete"}
  /\ region \in Regions /\ catalog \subseteq Flavors
  /\ todo \in Seq(Flavors) /\ unlisted \subseteq Regions

Idle == /\ step' = "idle" /\ region' = Account /\ catalog' = {} /\ todo' = << >>
        /\ unlisted' = {} /\ out' = << >>

OvhInit ==
  /\ CloudInit
  /\ regionOf \in [Ids -> Regions]
  /\ \A i \in Ids : instance[i] = None => regionOf[i] = Account
  /\ placements \in [Regions -> BOOLEAN]
  /\ step = "idle" /\ region = Account /\ catalog = {} /\ todo = << >>
  /\ unlisted = {} /\ out = << >>

\* The account region and any that a pool overrides to.
RegionsRead == {Account} \cup {r \in Regions : placements[r]}

\* The method returns r, or raises.
Returns(r) ==
  /\ call' = NoCall /\ reply' = r /\ Idle
  /\ UNCHANGED <<made, regionOf, placements>>

-----------------------------------------------------------------------------
(* create().                                                               *)

StartCreate(n, wish) ==
  /\ step = "idle" /\ Ask(Create(n, wish))
  /\ region' \in RegionsRead /\ todo' = wish /\ step' = "catalog"
  /\ UNCHANGED <<regionOf, placements, catalog, unlisted, out>>

\* The flavors that are in stock now.
ReadCatalog ==
  /\ step = "catalog"
  /\ catalog' \in SUBSET Flavors
  /\ step' = "post"
  /\ UNCHANGED <<cloud, regionOf, placements, region, todo, unlisted, out>>

OutOfStockStays ==              \* mutant: the loop does not move on
  step = "post" /\ todo # << >> /\ Head(todo) \notin catalog /\ UNCHANGED ovh

OutOfStock ==
  /\ step = "post" /\ todo # << >> /\ Head(todo) \notin catalog
  /\ todo' = Tail(todo)
  /\ UNCHANGED <<cloud, regionOf, placements, step, region, catalog, unlisted, out>>

NoFlavorLeft ==
  /\ step = "post" /\ todo = << >>
  /\ Returns(NoCapacity) /\ UNCHANGED <<instance, inventory>>

\* The instance appears in the region asked for.
Accept(i) ==
  /\ step = "post" /\ made = None /\ todo # << >> /\ Head(todo) \in catalog
  /\ Boot(i, Head(todo))
  /\ regionOf' = [regionOf EXCEPT ![i] = region]
  /\ UNCHANGED <<placements, method>>

Posted ==
  /\ step = "post" /\ made # None
  /\ Returns(Rented(Head(todo))) /\ UNCHANGED <<instance, inventory>>

RefusalsAll == step = "post" /\ todo # << >>   \* mutant: a lost answer counts as one

\* A quota is a definite no.
Refusals == step = "post" /\ todo # << >> /\ made = None

CapacityRefused ==
  /\ Refusals
  /\ Head(todo) \in catalog
  /\ Returns(NoCapacity) /\ UNCHANGED <<instance, inventory>>

-----------------------------------------------------------------------------
(* list_machines() and destroy().                                          *)

StartList ==
  /\ step = "idle" /\ Ask(ListCall)
  /\ unlisted' = RegionsRead /\ step' = "list"
  /\ UNCHANGED <<regionOf, placements, region, catalog, todo, out>>

EverybodysNames == Ours \cup Foreign       \* mutant: the prefix is not checked

OwnNames == Ours

\* _list_in: our machines in a region, by name.
ListIn(r) ==
  LET there == {i \in Running : regionOf[i] = r /\ instance[i].name \in OwnNames}
  IN  [n \in {instance[i].name : i \in there} |->
         CHOOSE i \in there : instance[i].name = n]

ListRegion(r) ==
  /\ step = "list" /\ r \in unlisted
  /\ out' = [n \in DOMAIN ListIn(r) \cup DOMAIN out |->
               IF n \in DOMAIN ListIn(r) THEN ListIn(r)[n] ELSE out[n]]
  /\ unlisted' = unlisted \ {r}
  /\ UNCHANGED <<cloud, regionOf, placements, step, region, catalog, todo>>

ListDone ==
  /\ step = "list" /\ unlisted = {}
  /\ Returns(Listed)
  /\ inventory' = out /\ UNCHANGED instance

StartDestroy(n) ==
  /\ step = "idle" /\ n \in DOMAIN inventory /\ Ask(DestroyCall(n))
  /\ step' = "delete"
  /\ UNCHANGED <<regionOf, placements, region, catalog, todo, unlisted, out>>

Delete ==
  /\ step = "delete" /\ Release
  /\ UNCHANGED <<regionOf, placements, method>>

\* Deleted, or not found: either way it is not there.
Deleted ==
  /\ step = "delete" /\ instance[call.id] = None
  /\ Returns(Gone) /\ UNCHANGED <<instance, inventory>>

-----------------------------------------------------------------------------
\* A request that fails in any other way ends the method: an error answer, or
\* none, whatever the cloud did with the request.
Fails ==
  /\ step # "idle"
  /\ Returns(Raised) /\ UNCHANGED <<instance, inventory>>

\* Regions of machines of ours that no other inventory would show.
Needed == {regionOf[i] : i \in OursRunning} \ {Account}

\* The operator restarts with other placements for its pools.
Reconfigure ==
  /\ step = "idle" /\ Forget
  /\ placements' \in [Regions -> BOOLEAN]
  /\ Careless \/ \A r \in Needed : placements'[r]
  /\ UNCHANGED <<regionOf, method>>

Lost == (\E i \in Ids : Vanish(i)) /\ UNCHANGED <<regionOf, placements, method>>

\* What a method does when its requests are answered.
Proceeds ==
  \/ ReadCatalog \/ OutOfStock \/ NoFlavorLeft \/ Posted \/ CapacityRefused
  \/ \E i \in Ids : Accept(i)
  \/ ListDone \/ Delete \/ Deleted
  \/ \E r \in Regions : ListRegion(r)

OvhNext ==
  \/ \E n \in Ours : StartDestroy(n) \/ \E wish \in Wishes : StartCreate(n, wish)
  \/ StartList \/ Proceeds \/ Fails \/ Reconfigure \/ Lost

OvhSpec == OvhInit /\ [][OvhNext]_ovh /\ WF_ovh(Proceeds)

-----------------------------------------------------------------------------
\* What the loop relies on, it gets.
KeepsContract == CloudSpec

\* Every call returns.
CallsReturn == call # NoCall ~> call = NoCall
=============================================================================
