------------------------------ MODULE Providers ------------------------------
(***************************************************************************)
(* The two providers the image has, each with an account of its own, under *)
(* the one contract the loop relies on (Cloud).  The loop calls a provider *)
(* without knowing which it is, and a provider keeps no state that another *)
(* one sees, so a behaviour is that of either.                             *)
(***************************************************************************)
EXTENDS Ovh

CONSTANTS PerPage, BlockOnly, Faults    \* of Vultr

ASSUME VultrAssumption ==
  /\ PerPage \in Nat \ {0} /\ BlockOnly \subseteq Flavors
  /\ Faults \subseteq {"gateway", "empty"}

VARIABLES
  provider,                         \* the type the fleet file declares
  sold, plans, sized, answered, cursor        \* of Vultr

ofVultr == <<sold, plans, sized, answered, cursor>>
ofOvh   == <<regionOf, placements, region, catalog, unlisted>>
all     == <<ovh, provider, ofVultr>>

V == INSTANCE Vultr

ProvidersTypeOK ==
  /\ provider \in {"ovh", "vultr"}
  /\ IF provider = "ovh" THEN OvhTypeOK ELSE V!VultrTypeOK

ProvidersInit ==
  \/ /\ provider = "ovh" /\ OvhInit
     /\ sold = {} /\ plans = {} /\ sized = {} /\ answered = FALSE /\ cursor = 0
  \/ /\ provider = "vultr" /\ V!VultrInit
     /\ regionOf = [i \in Ids |-> Account] /\ region = Account
     /\ placements = [r \in Regions |-> FALSE]
     /\ catalog = {} /\ unlisted = {}

\* One of them does a step, the other one is not there.
OvhDoes(step1)   == provider = "ovh" /\ step1 /\ UNCHANGED <<provider, ofVultr>>
VultrDoes(step1) == provider = "vultr" /\ step1 /\ UNCHANGED <<provider, ofOvh>>

ProvidersNext == OvhDoes(OvhNext) \/ VultrDoes(V!VultrNext)

\* A request that is sent is answered, or given up on.
ProvidersSpec ==
  /\ ProvidersInit /\ [][ProvidersNext]_all
  /\ WF_all(OvhDoes(Proceeds)) /\ WF_all(VultrDoes(V!Proceeds))

-----------------------------------------------------------------------------
\* A machine that boots is counted by the flavor create() says it got, and the
\* sizes of flavors are asked for once, when the operator starts: if they were
\* answered then, what Vultr rents has one, whatever the region has come to sell
\* before validate() and since.
RentsWhatItSized ==
  [][provider = "vultr" /\ step = "post" /\ answered /\ reply'.says = "rented"
       => reply'.flavor \in sized]_all

\* Not so when they were not answered: what flavor_shapes swallows, validate()
\* makes up for in the catalog and not in the sizes.
RentsOnlyTheSized ==
  [][provider = "vultr" /\ step = "post" /\ reply'.says = "rented"
       => reply'.flavor \in sized]_all
=============================================================================
