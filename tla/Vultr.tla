-------------------------------- MODULE Vultr --------------------------------
(***************************************************************************)
(* The Vultr provider (providers/vultr/provider.py), request by request:   *)
(* it goes through the flavors it was asked for until one is accepted, and *)
(* lists the account page by page.  It implements Cloud as long as an      *)
(* error means that nothing was done and says so in its body.              *)
(*                                                                         *)
(* Faults names what else a request may meet besides an error of that      *)
(* kind and a connection that breaks (Providers runs it):                  *)
(*   "gateway"  an error status for a request that was carried out         *)
(*   "empty"    an error status without a body                             *)
(***************************************************************************)
EXTENDS Cloud, FiniteSetsExt

CONSTANTS
  PerPage,      \* how many instances the API puts on a page
  BlockOnly,    \* flavors without a local disk
  Faults

VARIABLES
  sold,         \* the flavors Vultr sells in the region now
  plans,        \* the catalog the process keeps
  sized,        \* the flavors flavor_shapes has a size for
  answered,     \* whether flavor_capacity answered it
  step,         \* where the method is
  todo,         \* the flavors create() has not tried
  cursor,       \* the last id of the pages read, 0 for none
  out           \* the inventory read so far

startup == <<plans, sized, answered>>
method  == <<step, todo, cursor, out>>
vultr   == <<cloud, sold, startup, method>>

VultrTypeOK ==
  /\ CloudTypeOK
  /\ sold \subseteq Flavors /\ plans \subseteq Flavors /\ sized \subseteq plans
  /\ answered \in BOOLEAN
  /\ step \in {"size", "validate", "idle", "post", "page", "listed", "delete"}
  /\ todo \in Seq(Flavors) /\ cursor \in Nat
  /\ DOMAIN out \subseteq Ours

\* flavor_capacity: what it can size is what create() will try.
Rentable(catalog) == catalog \ BlockOnly

VultrInit ==
  /\ CloudInit
  /\ sold \in SUBSET Flavors
  /\ plans = {} /\ sized = {} /\ answered = FALSE
  /\ step = "size" /\ todo = << >> /\ cursor = 0 /\ out = << >>

\* The method returns r, or raises.
Returns(r) ==
  /\ call' = NoCall /\ reply' = r
  /\ step' = "idle" /\ todo' = << >> /\ cursor' = 0 /\ out' = << >>
  /\ UNCHANGED <<made, sold, startup>>

-----------------------------------------------------------------------------
(* The process starts: flavor_shapes, then validate().                     *)

\* What plans() has read it keeps as long as the process lives.
SizeFlavors ==
  /\ step = "size"
  /\ plans' = sold /\ sized' = Rentable(sold) /\ answered' = TRUE
  /\ step' = "validate"
  /\ UNCHANGED <<cloud, sold, todo, cursor, out>>

\* flavor_shapes goes on without the sizes it could not get.
SizingFails ==
  /\ step = "size" /\ step' = "validate"
  /\ UNCHANGED <<cloud, sold, startup, todo, cursor, out>>

\* Plans that are not there yet are read now.
Validate ==
  /\ step = "validate" /\ step' = "idle"
  /\ plans' = IF answered THEN plans ELSE sold
  /\ UNCHANGED <<cloud, sold, sized, answered, todo, cursor, out>>

StartsOver ==
  /\ Forget
  /\ plans' = {} /\ sized' = {} /\ answered' = FALSE /\ step' = "size"
  /\ UNCHANGED <<sold, todo, cursor, out>>

\* What validate() raises ends the process.
ValidateFails == step = "validate" /\ StartsOver

Restart == step = "idle" /\ StartsOver

-----------------------------------------------------------------------------
(* create().                                                               *)

StartCreate(n, wish) ==
  /\ step = "idle" /\ Ask(Create(n, wish))
  /\ step' = "post" /\ todo' = wish
  /\ UNCHANGED <<sold, startup, cursor, out>>

SoldNow == sold                  \* mutant: the catalog is read again

\* The catalog is read once and kept.
Catalog == plans

Posting == step = "post" /\ todo # << >> /\ Head(todo) \in Rentable(Catalog)

NextFlavor ==
  /\ todo' = Tail(todo)
  /\ UNCHANGED <<cloud, sold, startup, step, cursor, out>>

SkipFlavor ==
  /\ step = "post" /\ todo # << >> /\ Head(todo) \notin Rentable(Catalog)
  /\ NextFlavor

\* The instance exists from here on; the answer is still to come.  After a
\* gateway's error the next flavor is asked for under the same name.
Accept(i) ==
  /\ Posting /\ Head(todo) \in sold /\ made # Head(todo)
  /\ i \in FreeIds
  /\ instance' = [instance EXCEPT ![i] = [name |-> call.name, flavor |-> Head(todo)]]
  /\ made' = Head(todo)
  /\ UNCHANGED <<call, reply, inventory, sold, startup, method>>

\* An empty body is a success, whatever the status.
Posted ==
  /\ Posting /\ (made = Head(todo) \/ "empty" \in Faults)
  /\ Returns(Rented(Head(todo))) /\ UNCHANGED <<instance, inventory>>

WhateverWasDone == TRUE          \* mutant: no answer counts as a refusal

\* An error status says that the request was not carried out.
NothingWasDone == made = None

\* Any error status is a refusal of this flavor, and the next one is tried.
Refused ==
  /\ Posting
  /\ NothingWasDone \/ "gateway" \in Faults
  /\ NextFlavor

NoFlavorLeft ==
  /\ step = "post" /\ todo = << >>
  /\ Returns(NoCapacity) /\ UNCHANGED <<instance, inventory>>

-----------------------------------------------------------------------------
(* list_machines() and destroy().                                          *)

StartList ==
  /\ step = "idle" /\ Ask(ListCall)
  /\ step' = "page"
  /\ UNCHANGED <<sold, startup, todo, cursor, out>>

FromTheStart == Running          \* mutant: the cursor is not passed back

\* What the API has after the cursor.
Rest == {i \in Running : i > cursor}

Page == {i \in Rest : Cardinality({j \in Rest : j < i}) < PerPage}

EverybodysNames == Ours \cup Foreign       \* mutant: the prefix is not checked

OwnNames == Ours

\* dict by label: of two instances with one label the later one stays.
ByLabel(ids) ==
  LET own == {i \in ids : instance[i].name \in OwnNames}
  IN  [n \in {instance[i].name : i \in own} |->
         Max({i \in own : instance[i].name = n})]

\* An answer without a body is a page without instances, and the last one.
ReadPage ==
  /\ step = "page"
  /\ \E ids \in {Page} \cup IF "empty" \in Faults THEN {{}} ELSE {} :
       /\ out' = [n \in DOMAIN ByLabel(ids) \cup DOMAIN out |->
                    IF n \in DOMAIN ByLabel(ids) THEN ByLabel(ids)[n] ELSE out[n]]
       /\ IF ids = Rest \/ ids = {} THEN step' = "listed" /\ UNCHANGED cursor
                                   ELSE cursor' = Max(ids) /\ UNCHANGED step
  /\ UNCHANGED <<cloud, sold, startup, todo>>

ListDone ==
  /\ step = "listed"
  /\ Returns(Listed)
  /\ inventory' = out /\ UNCHANGED instance

StartDestroy(n) ==
  /\ step = "idle" /\ n \in DOMAIN inventory /\ Ask(DestroyCall(n))
  /\ step' = "delete"
  /\ UNCHANGED <<sold, startup, todo, cursor, out>>

Delete ==
  /\ step = "delete" /\ Release
  /\ UNCHANGED <<sold, startup, method>>

\* Deleted, or not found, or an error without a body.
Deleted ==
  /\ step = "delete"
  /\ instance[call.id] = None \/ "empty" \in Faults
  /\ Returns(Gone) /\ UNCHANGED <<instance, inventory>>

-----------------------------------------------------------------------------
\* The connection breaks, or a read or delete is answered with an error.
Fails ==
  /\ step \in {"post", "page", "delete"}
  /\ step = "post" => todo # << >>
  /\ Returns(Raised) /\ UNCHANGED <<instance, inventory>>

\* What is sold in the region changes.
MarketMoves ==
  /\ sold' \in SUBSET Flavors
  /\ UNCHANGED <<cloud, startup, method>>

Lost == (\E i \in Ids : Vanish(i)) /\ UNCHANGED <<sold, startup, method>>

\* What a method does when its requests are answered.
Proceeds ==
  \/ SizeFlavors \/ Validate
  \/ SkipFlavor \/ Posted \/ Refused \/ NoFlavorLeft
  \/ \E i \in Ids : Accept(i)
  \/ ReadPage \/ ListDone \/ Delete \/ Deleted

VultrNext ==
  \/ \E n \in Ours : StartDestroy(n) \/ \E wish \in Wishes : StartCreate(n, wish)
  \/ StartList \/ Proceeds \/ Fails \/ MarketMoves \/ Lost
  \/ SizingFails \/ ValidateFails \/ Restart
=============================================================================
