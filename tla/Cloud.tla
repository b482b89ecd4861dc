-------------------------------- MODULE Cloud --------------------------------
(***************************************************************************)
(* What the loop relies on when it calls a provider: the contract of       *)
(* Provider in providers/base.py, as one account whose machines come and   *)
(* go and a caller that makes one call at a time.                          *)
(*                                                                         *)
(* create() that returns a flavor made exactly one machine, of that        *)
(* flavor; create() that returns False made none; create() that raises     *)
(* says nothing.  destroy() that returns leaves no machine behind.         *)
(* list_machines() that returns names every machine of ours, and none that *)
(* is not.  Ovh and Vultr are the providers.                               *)
(***************************************************************************)
EXTENDS Integers, Sequences, FiniteSets

CONSTANTS
  Ids,          \* identifiers a cloud gives its instances: numbers from 1 on, in order
  Ours,         \* names with our prefix
  Foreign,      \* names of the account's other instances
  Flavors,
  Wishes,       \* the flavor lists create() may be called with
  None

ASSUME CloudAssumption ==
  /\ Ids \subseteq Nat \ {0} /\ None \notin Ids \cup Flavors
  /\ Ours \cap Foreign = {}
  /\ Wishes \subseteq Seq(Flavors)

VARIABLES
  instance,     \* id -> the name and flavor of the machine, None if there is none
  call,         \* the call in progress
  made,         \* the flavor of the machine that call has created
  reply,        \* what the last call answered
  inventory     \* what list_machines() last returned: name -> id

cloud == <<instance, call, made, reply, inventory>>

Instance == [name : Ours \cup Foreign, flavor : Flavors]
NoCall == [op |-> "none"]
Silent == [says |-> "nothing"]

Rented(f) == [says |-> "rented", flavor |-> f]
NoCapacity == [says |-> "no capacity"]
Raised == [says |-> "raised"]
Gone == [says |-> "gone"]
Listed == [says |-> "listed"]

Running == {i \in Ids : instance[i] # None}
OursRunning == {i \in Running : instance[i].name \in Ours}

CloudTypeOK ==
  /\ instance \in [Ids -> Instance \cup {None}]
  /\ call.op \in {"none", "create", "destroy", "list"}
  /\ made \in Flavors \cup {None}
  /\ reply.says \in {"nothing", "rented", "no capacity", "raised", "gone", "listed"}
  /\ DOMAIN inventory \subseteq Ours /\ \A n \in DOMAIN inventory : inventory[n] \in Ids

\* An account starts with what somebody else has in it: one machine to a name,
\* a bound.
CloudInit ==
  /\ instance \in {f \in [Ids -> Instance \cup {None}] :
                     \A i \in Ids : f[i] # None =>
                       /\ f[i].name \in Foreign
                       /\ \A j \in Ids : f[j] # None /\ f[j].name = f[i].name => i = j}
  /\ call = NoCall /\ made = None /\ reply = Silent
  /\ inventory = << >>

Create(n, wish) == [op |-> "create", name |-> n, flavors |-> wish]
DestroyCall(n) == [op |-> "destroy", id |-> inventory[n]]
ListCall == [op |-> "list"]

\* A new machine gets a new name; a machine is destroyed under the id it was
\* listed with.
Calls ==
  {Create(n, wish) : n \in Ours \ {instance[i].name : i \in Running}, wish \in Wishes}
  \cup {DestroyCall(n) : n \in DOMAIN inventory} \cup {ListCall}

Ask(c) ==
  /\ call = NoCall /\ c \in Calls
  /\ call' = c /\ made' = None /\ reply' = Silent
  /\ UNCHANGED <<instance, inventory>>

\* Ids are not given twice: none the caller still holds.
FreeIds == {i \in Ids \ Running : \A n \in DOMAIN inventory : inventory[n] # i}

Boot(i, f) ==
  /\ call.op = "create" /\ made = None /\ i \in FreeIds
  /\ f \in {call.flavors[k] : k \in DOMAIN call.flavors}
  /\ instance' = [instance EXCEPT ![i] = [name |-> call.name, flavor |-> f]]
  /\ made' = f
  /\ UNCHANGED <<call, reply, inventory>>

Release ==
  /\ call.op = "destroy"
  /\ instance' = [instance EXCEPT ![call.id] = None]
  /\ UNCHANGED <<call, made, reply, inventory>>

\* Every machine of ours under its own name, and nobody else's.
ListsOurs(seen) ==
  /\ DOMAIN seen \subseteq Ours
  /\ \A i \in OursRunning : instance[i].name \in DOMAIN seen /\ seen[instance[i].name] = i

Says(r) == reply' = r /\ UNCHANGED inventory

Answer ==
  /\ call # NoCall
  /\ \/ call.op = "create" /\ made # None /\ Says(Rented(made))
     \/ call.op = "create" /\ made = None /\ Says(NoCapacity)
     \/ call.op = "destroy" /\ instance[call.id] = None /\ Says(Gone)
     \/ call.op = "list" /\ ListsOurs(inventory') /\ reply' = Listed
     \/ Says(Raised)
  /\ call' = NoCall
  /\ UNCHANGED <<instance, made>>

Vanish(i) ==
  /\ instance[i] # None
  /\ instance' = [instance EXCEPT ![i] = None]
  /\ UNCHANGED <<call, made, reply, inventory>>

\* The process ends and starts again, with nothing asked for and nothing known.
Forget ==
  /\ call = NoCall
  /\ made' = None /\ reply' = Silent /\ inventory' = << >>
  /\ UNCHANGED <<instance, call>>

CloudNext ==
  \/ \E c \in Calls : Ask(c)
  \/ \E i \in Ids : Vanish(i) \/ \E f \in Flavors : Boot(i, f)
  \/ Release \/ Answer \/ Forget

CloudSpec == CloudInit /\ [][CloudNext]_cloud
-----------------------------------------------------------------------------
(* Two sentences of the contract on their own.                             *)

\* False from create() is "a definite 'nothing was created'": provision() drops
\* the credentials on it.
FalseMeansNothing == reply = NoCapacity => made = None

\* What list_machines() returns has every machine of ours: what it leaves out is
\* hidden from every rule that reaps, and bills on.
InventoryInFull == reply = Listed => ListsOurs(inventory)
=============================================================================
