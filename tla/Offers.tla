------------------------------- MODULE Offers -------------------------------
(***************************************************************************)
(* From the fleet file to the machine that is rented: what the operator    *)
(* checks of its configuration when it starts (config.py, pools.py), what  *)
(* it asks its providers then (providers/__init__.py), and in which order  *)
(* rent_one() and create() go through the offers of a pool afterwards.     *)
(*                                                                         *)
(* A file declares providers, each with a batch size, and one pool, whose  *)
(* entries name a provider, a priority and the flavors to rent there.  A   *)
(* slot is a machine to rent: what the pods on it need, or Nothing if it   *)
(* is rented for none.  Stock comes and goes.                              *)
(***************************************************************************)
EXTENDS Resources, SequencesExt

CONSTANTS
  Types,        \* the providers the image has
  Size,         \* flavor -> what it holds
  Sold,         \* provider -> the flavors its cloud offers
  Quotas,       \* the providers that refuse for a quota of the whole account
  MaxSlots,     \* how many in one pass (a bound)
  Faults,       \* "sizes": a cloud may not answer when the operator starts
  None

ASSUME OffersAssumption ==
  /\ Sold \in [Types -> SUBSET DOMAIN Size]
  /\ Size \in [DOMAIN Size -> Amounts] /\ MaxSlots \in Nat /\ Quotas \subseteq Types

VARIABLES
  file,         \* what is mounted
  phase,        \* reading it, placing, sizing, then passes: a slot is asked
                \* for, tried, settled, or nothing is to be had; or stopped
                \* with a message, or crashed
  pool,         \* the pool's entries, in the order they are used
  placement,    \* provider -> the flavors parsed for the pool, None before
  sized,        \* provider -> those flavor_capacity gave a size
  next,         \* the entry that is placed, sized or asked next
  budget,       \* provider -> what is left of its batch in this pass
  slot,         \* what the machine is for
  trying,       \* where the flavors are listed that create() has still to try
  done,         \* slots of this pass
  refused,      \* history: the offers refused for this slot
  skipped,      \* history: the providers passed over for their batch
  full,         \* history: the providers that met their quota for this slot
  rented        \* history: the offer taken for it

startup == <<file, pool, placement, sized>>
history == <<refused, skipped, full, rented>>
offers  == <<startup, phase, next, budget, slot, trying, done, history>>

Declared == {file.providers[i].name : i \in DOMAIN file.providers}
Entries  == DOMAIN pool

\* The flavors kept for an entry.  A place is an entry and an index into its list.
List(k) == placement[pool[k].provider]
FlavorAt(o) == List(o[1])[o[2]]

Places == UNION {{k} \X DOMAIN List(k) : k \in Entries}

OffersTypeOK ==
  /\ phase \in {"read", "place", "size", "pass", "ask", "try", "settled",
               "nothing", "stopped", "crashed"}
  /\ DOMAIN placement = Types /\ sized \in [Types -> SUBSET DOMAIN Size]
  /\ next \in Nat /\ slot \in Amounts /\ done \in 0 .. MaxSlots
  /\ budget \in [Types -> Nat]
  /\ phase = "try" => next \in Entries /\ trying \subseteq Places
  /\ phase # "try" => trying = {}
  /\ skipped \subseteq Types /\ full \subseteq Types

OffersInit ==
  /\ phase = "read" /\ pool = << >>
  /\ placement = [t \in Types |-> None] /\ sized = [t \in Types |-> {}]
  /\ next = 1 /\ budget = [t \in Types |-> 0]
  /\ slot = Nothing /\ trying = {} /\ done = 0
  /\ refused = {} /\ skipped = {} /\ full = {} /\ rented = None

-----------------------------------------------------------------------------
(* Startup.                                                                *)

AsDeclared(i, j) == i < j        \* mutant: the priorities are forgotten

\* Sorted by priority; equal priorities keep their order.
Precedes(i, j) ==
  LET e == file.entries[i]  f == file.entries[j]
  IN  e.priority < f.priority \/ (e.priority = f.priority /\ i < j)

SortedEntries ==
  [k \in DOMAIN file.entries |->
     file.entries[CHOOSE i \in DOMAIN file.entries :
                    Cardinality({j \in DOMAIN file.entries : Precedes(j, i)}) = k - 1]]

NamesKnown == TRUE               \* mutant: a pool may name any provider

\* A pool rents from declared providers only.
NamesDeclared == \A i \in DOMAIN file.entries : file.entries[i].provider \in Declared

\* What the loader and validate() refuse, and load() of a type it has not.
Valid ==
  /\ file.providers # << >> /\ file.entries # << >>
  /\ \A i, j \in DOMAIN file.providers :
        file.providers[i].name = file.providers[j].name => i = j
  /\ \A i \in DOMAIN file.providers : file.providers[i].batch >= 1
  /\ NamesDeclared
  /\ Declared \subseteq Types

ReadFile ==
  /\ phase = "read"
  /\ phase' = IF Valid THEN "place" ELSE "stopped"
  /\ pool' = IF Valid THEN SortedEntries ELSE << >>
  /\ UNCHANGED <<file, placement, sized, next, budget, slot, trying, done, history>>

\* Each entry's placement is parsed and kept under its provider and pool.
Place ==
  /\ phase = "place" /\ next \in Entries
  /\ LET e == pool[next]
     IN  IF e.provider \notin Declared \/ e.flavors = << >>
         THEN /\ phase' = IF e.provider \notin Declared THEN "crashed" ELSE "stopped"
              /\ UNCHANGED <<placement, next>>
         ELSE /\ placement' = [placement EXCEPT ![e.provider] = e.flavors]
              /\ next' = next + 1 /\ UNCHANGED phase
  /\ UNCHANGED <<file, pool, sized, budget, slot, trying, done, history>>

\* flavor_shapes: what the provider can size of the placement.
SizeEntry ==
  /\ phase = "size" /\ next \in Entries
  /\ LET p == pool[next].provider
     IN  \/ sized' = [sized EXCEPT ![p] = ToSet(placement[p]) \cap Sold[p]]
         \/ "sizes" \in Faults /\ UNCHANGED sized
  /\ next' = next + 1
  /\ UNCHANGED <<file, pool, placement, phase, budget, slot, trying, done, history>>

\* All entries are done.
NextPhase ==
  /\ phase \in {"place", "size"} /\ next \notin Entries
  /\ phase' = IF phase = "place" THEN "size" ELSE "pass"
  /\ next' = 1
  /\ UNCHANGED <<startup, budget, slot, trying, done, history>>

-----------------------------------------------------------------------------
(* A pass.                                                                 *)

BatchOf(t) ==
  LET mine == {i \in DOMAIN file.providers : file.providers[i].name = t}
  IN  IF mine = {} THEN 0 ELSE file.providers[CHOOSE i \in mine : TRUE].batch

\* Nobody has been asked for the slot yet.
Afresh == refused' = {} /\ skipped' = {} /\ full' = {} /\ rented' = None

StartPass ==
  /\ phase \in {"pass", "nothing"}
  /\ budget' = [t \in Types |-> BatchOf(t)] /\ done' = 0
  /\ phase' = "settled" /\ Afresh
  /\ UNCHANGED <<startup, next, slot, trying>>

\* shapes_for: the flavors of an entry that have a size.
Shapes(k) == {j \in DOMAIN List(k) : List(k)[j] \in sized[pool[k].provider]}

NoShapes == \A k \in Entries : Shapes(k) = {}

Holds(f, s) == \A d \in Dims : s[d] <= Size[f][d]

Candidates(k, s) == {j \in Shapes(k) : Holds(List(k)[j], s)}

\* plan() rents for what some flavor holds, or one machine to measure; the
\* machines that only keep the floor come last.
StartSlot(s) ==
  /\ phase = "settled" /\ done < MaxSlots
  /\ done > 0 /\ slot = Nothing => s = Nothing
  /\ NoShapes \/ \E k \in Entries : Candidates(k, s) # {}
  /\ slot' = s /\ phase' = "ask" /\ next' = 1 /\ done' = done + 1
  /\ Afresh
  /\ UNCHANGED <<startup, budget, trying>>

EndPass ==
  /\ phase = "settled" /\ phase' = "pass"
  /\ UNCHANGED <<startup, next, budget, slot, trying, done, history>>

SameProvider(k) == {j \in Entries : pool[j].provider = pool[k].provider}

\* by_provider: a provider is asked once, where it first comes, for all of its
\* candidates; when nothing has a size, for whatever its placement lists.
Flavors(k) ==
  IF NoShapes THEN {k} \X DOMAIN List(k)
  ELSE UNION {{i} \X Candidates(i, slot) : i \in SameProvider(k)}

ToAsk(k) == (\A j \in SameProvider(k) : k <= j) /\ (NoShapes \/ Candidates(k, slot) # {})

AskAnyway(t) == TRUE             \* mutant: the batch is counted and not looked at

WithinBatch(t) == budget[t] > 0

PassOver ==
  /\ phase = "ask" /\ next \in Entries
  /\ ~ToAsk(next) \/ ~WithinBatch(pool[next].provider)
  /\ skipped' = IF ToAsk(next) THEN skipped \cup {pool[next].provider} ELSE skipped
  /\ next' = next + 1
  /\ UNCHANGED <<startup, phase, budget, slot, trying, done, refused, full, rented>>

Ask ==
  /\ phase = "ask" /\ next \in Entries
  /\ ToAsk(next) /\ WithinBatch(pool[next].provider)
  /\ budget' = [budget EXCEPT ![pool[next].provider] = @ - 1]
  /\ trying' = Flavors(next) /\ phase' = "try"
  /\ UNCHANGED <<startup, next, slot, done, history>>

\* The other slots of the pool wait for the next pass.
NothingToRent ==
  /\ phase = "ask" /\ next \notin Entries
  /\ phase' = "nothing"
  /\ UNCHANGED <<startup, next, budget, slot, trying, done, history>>

\* create() goes through the flavors it was given, in order.
Foremost(o) ==
  o \in trying /\ \A q \in trying : o[1] < q[1] \/ (o[1] = q[1] /\ o[2] <= q[2])

Offer(o) == <<pool[next].provider, FlavorAt(o)>>

Rents ==
  /\ phase = "try" /\ phase' = "settled" /\ trying' = {}
  /\ \E o \in trying :
       Foremost(o) /\ FlavorAt(o) \in Sold[pool[next].provider] /\ rented' = Offer(o)
  /\ UNCHANGED <<startup, next, budget, slot, done, refused, skipped, full>>

OutOfStock ==
  /\ phase = "try"
  /\ \E o \in trying :
       Foremost(o) /\ refused' = refused \cup {Offer(o)} /\ trying' = trying \ {o}
  /\ UNCHANGED <<startup, phase, next, budget, slot, done, skipped, full, rented>>

\* A quota is the account's: a smaller flavor would fail the same, so create() asks
\* for no other.
QuotaReached ==
  /\ phase = "try" /\ pool[next].provider \in Quotas
  /\ \E o \in trying : Foremost(o) /\ FlavorAt(o) \in Sold[pool[next].provider]
  /\ full' = full \cup {pool[next].provider}
  /\ phase' = "ask" /\ next' = next + 1 /\ trying' = {}
  /\ UNCHANGED <<startup, budget, slot, done, refused, skipped, rented>>

\* It has gone through them all.
NoCapacity ==
  /\ phase = "try" /\ trying = {}
  /\ phase' = "ask" /\ next' = next + 1
  /\ UNCHANGED <<startup, budget, slot, trying, done, history>>

\* It raises: nobody knows what it did, so nobody else is asked in this pass.
Raises ==
  /\ phase = "try" /\ phase' = "pass"
  /\ next' = 1 /\ trying' = {} /\ done' = 0 /\ Afresh
  /\ UNCHANGED <<startup, budget, slot>>

Starts == ReadFile \/ Place \/ SizeEntry \/ NextPhase

-----------------------------------------------------------------------------
\* What the file offers for the slot, by entry and place in its list.
Listed == file.entries

Fitting ==
  {o \in UNION {{k} \X DOMAIN Listed[k].flavors : k \in DOMAIN Listed} :
     LET f == Listed[o[1]].flavors[o[2]]
     IN  f \in Sold[Listed[o[1]].provider] /\ Holds(f, slot)}

At(o) == <<Listed[o[1]].provider, Listed[o[1]].flavors[o[2]]>>

Earlier(o, q) ==
  \/ Listed[o[1]].priority < Listed[q[1]].priority
  \/ Listed[o[1]].priority = Listed[q[1]].priority
     /\ (o[1] < q[1] \/ (o[1] = q[1] /\ o[2] < q[2]))

Tried(o) ==
  \/ At(o) \in refused
  \/ Listed[o[1]].provider \in skipped \cup full

\* "Choosing a machine walks the configuration in order": what is rented comes
\* after nothing that would do and has not been refused, by itself or with its
\* whole provider, and a pass that rents nothing has tried everything that would do.
InConfiguredOrder ==
  /\ phase = "nothing" => \A o \in Fitting : Tried(o)
  /\ rented # None =>
       \E q \in Fitting : At(q) = rented /\ \A o \in Fitting : Earlier(o, q) => Tried(o)

\* Not everything that would do has been asked for: a quota of the account speaks
\* for flavors nobody named to it.
EveryOfferAsked ==
  phase = "nothing" =>
    \A o \in Fitting : At(o) \in refused \/ Listed[o[1]].provider \in skipped

\* The operator runs with what it accepted: a file it cannot use is refused with
\* a reason, whichever of its parts disagree.
StopsWithAReason == phase # "crashed"

\* A deficit larger than a batch spreads over consecutive passes.
DeficitSpreads == rented # None => skipped = {}
=============================================================================
