---------------------------- MODULE RentingProofs ----------------------------
(***************************************************************************)
(* What TLAPS proves of Renting, for all pods, pools, fleet files, markets *)
(* and passes: where the operator and the scheduler read a pod alike, and  *)
(* that a file that passes the checks is used without crashing.            *)
(***************************************************************************)
EXTENDS Renting, FoldProofs

\* A set of numbers has a smallest.
LEMMA Smallest ==
  ASSUME NEW S \in SUBSET Nat, S # {}
  PROVE  \E i \in S : \A j \in S : i <= j
<1> DEFINE Less == {p \in Nat \X Nat : p[1] < p[2]}
<1>1. IsWellFoundedOn(Less, Nat)
  BY NatLessThanWellFounded, Zenon DEF OpToRel
<1> HIDE DEF Less
<1>2. PICK i \in S : \A j \in S : <<j, i>> \notin Less
  BY <1>1, WFMin, Zenon
<1> USE DEF Less
<1>3. \A j \in S : ~(j < i)
  BY <1>2
<1> QED
  BY <1>2, <1>3

-----------------------------------------------------------------------------
(* The prediction and the scheduler.                                       *)

\* Of the labels that are not hidden from it, the node carries those the prediction
\* looked at.
LEMMA SameLabels ==
  ASSUME NEW i, NEW key, key \notin Unseen
  PROVE  /\ key \in DOMAIN R!NodeLabels(i) <=> key \in DOMAIN R!Labels(pools[i])
         /\ key \in DOMAIN R!Labels(pools[i]) =>
              R!NodeLabels(i)[key] = R!Labels(pools[i])[key]
<1> DEFINE Name == [k \in {PoolLabel} |-> pools[i].name]
           Own  == R!Over(Name, pools[i].labels)
           Liqo == R!Over(LiqoLabels, OwnLabels)
<1>1. \A f, g, k : /\ k \in DOMAIN R!Over(f, g) <=> k \in DOMAIN f \/ k \in DOMAIN g
                   /\ k \in DOMAIN f => R!Over(f, g)[k] = f[k]
                   /\ k \notin DOMAIN f /\ k \in DOMAIN g => R!Over(f, g)[k] = g[k]
  BY DEF R!Over
<1>2. DOMAIN Name = {PoolLabel}
  OBVIOUS
<1> HIDE DEF Name
<1>3. /\ key \in DOMAIN Own <=> key \in DOMAIN pools[i].labels
      /\ key \in DOMAIN pools[i].labels => Own[key] = pools[i].labels[key]
  BY <1>1, <1>2 DEF Unseen
<1>4. /\ key \in DOMAIN Liqo <=> key \in DOMAIN LiqoLabels
      /\ key \in DOMAIN LiqoLabels => Liqo[key] = LiqoLabels[key]
  BY <1>1 DEF Unseen
<1>5. R!NodeLabels(i) = R!Over(Own, Liqo)
  BY DEF R!NodeLabels, R!OperatorLabels, Name
<1> HIDE DEF Own, Liqo
<1> QED
  BY <1>1, <1>3, <1>4, <1>5 DEF R!Labels

\* An expression over such a label says the same of both.
LEMMA SameExpression ==
  ASSUME NEW i, NEW e, e.key \notin Unseen
  PROVE  /\ R!MatchesExpression(e, R!Labels(pools[i])) => R!Satisfies(R!NodeLabels(i), e)
         /\ e.op \in KnownOps /\ R!Satisfies(R!NodeLabels(i), e)
              => R!MatchesExpression(e, R!Labels(pools[i]))
<1> DEFINE L == R!Labels(pools[i])
           N == R!NodeLabels(i)
<1>1. /\ R!Present(e.key, N) <=> R!Present(e.key, L)
      /\ R!Present(e.key, L) => N[e.key] = L[e.key]
  BY SameLabels DEF R!Present
<1> HIDE DEF L, N
<1>2. /\ R!MatchesExpression(e, L) => R!Satisfies(N, e)
      /\ e.op \in KnownOps /\ R!Satisfies(N, e) => R!MatchesExpression(e, L)
  BY <1>1 DEF R!MatchesExpression, R!Satisfies, R!NotInOrMissing, KnownOps
<1> QED
  BY <1>2 DEF L, N

LEMMA SameToleration ==
  ASSUME NEW t, NEW taint
  PROVE  /\ R!Tolerates(t, taint) =>
              /\ t.effect = Absent \/ t.effect = taint.effect
              /\ t.key = Absent \/ t.key = taint.key
              /\ t.op = "Exists" \/ R!Value(t.value) = R!Value(taint.value)
         /\ /\ t.key = Absent => t.op = "Exists"
            /\ t.op = "Exists" \/ t.value # Absent
            /\ taint.value # Absent
            /\ t.effect = Absent \/ t.effect = taint.effect
            /\ t.key = Absent \/ t.key = taint.key
            /\ t.op = "Exists" \/ R!Value(t.value) = R!Value(taint.value)
            => R!Tolerates(t, taint)
BY DEF R!Tolerates, R!Value

\* What the operator takes for a match, the scheduler accepts.
LEMMA MatchIsAccepted ==
  ASSUME NEW x, NEW i, Foreseen(x), \A t \in x.terms : ~Hollow(t), R!Matches(x, pools[i])
  PROVE  R!Accepts(x, i)
<1>1. \A key \in DOMAIN x.selector :
        R!Present(key, R!NodeLabels(i)) /\ R!NodeLabels(i)[key] = x.selector[key]
  BY SameLabels DEF R!Matches, R!SelectorMatches, R!Present, Foreseen
<1>2. x.terms = {} \/ \E t \in x.terms : R!Selects(R!NodeLabels(i), t)
  BY SameExpression DEF R!Matches, R!AffinityMatches, R!MatchesTerm, R!Selects, Foreseen, Hollow
<1>3. \A taint \in R!NodeTaints(i) : R!Tolerated(x, taint)
  BY SameToleration DEF R!Matches, R!ToleratesAll, R!EffectiveTaints, R!NodeTaints,
     R!OperatorTaints, R!Tolerated
<1> QED
  BY <1>1, <1>2, <1>3 DEF R!Accepts

\* And what the scheduler would accept, the operator takes for a match.
LEMMA AcceptedIsMatch ==
  ASSUME NEW x, NEW i, Foreseen(x), ~BarsANode(x),
         \A t \in x.terms : t.fields \subseteq {"In", "NotIn"},
         Usual(x, {LiqoTaint} \cup pools[i].taints), R!Accepts(x, i)
  PROVE  R!Matches(x, pools[i])
<1>1. R!SelectorMatches(x, R!Labels(pools[i]))
  BY SameLabels DEF R!Accepts, R!SelectorMatches, R!Present, Foreseen
<1>2. R!AffinityMatches(x, R!Labels(pools[i]))
  <2>1. CASE x.terms = {}
    BY <2>1 DEF R!AffinityMatches
  <2>2. CASE x.terms # {}
    <3>1. PICK t \in x.terms : R!Selects(R!NodeLabels(i), t)
      BY <2>2 DEF R!Accepts
    <3>2. t.fields = {}
      BY <3>1 DEF R!Selects, BarsANode
    <3>3. \A e \in t.exprs : R!MatchesExpression(e, R!Labels(pools[i]))
      BY <3>1, SameExpression DEF R!Selects, Foreseen, Usual
    <3> QED
      BY <3>1, <3>2, <3>3 DEF R!AffinityMatches, R!MatchesTerm
  <2> QED
    BY <2>1, <2>2
<1>3. R!ToleratesAll(x, R!EffectiveTaints(pools[i]))
  <2> SUFFICES ASSUME NEW taint \in R!EffectiveTaints(pools[i])
               PROVE  \E t \in x.tolerations : R!Tolerates(t, taint)
    BY DEF R!ToleratesAll
  <2>1. taint \in {LiqoTaint} \cup pools[i].taints /\ taint \in R!NodeTaints(i)
    BY DEF R!EffectiveTaints, R!NodeTaints, R!OperatorTaints
  <2>2. R!Tolerated(x, taint)
    BY <2>1 DEF R!Accepts, Usual
  <2> QED
    BY <2>1, <2>2, SameToleration DEF R!Tolerated, Usual
<1> QED
  BY <1>1, <1>2, <1>3 DEF R!Matches

\* match() finds a pool that fits when there is one.
LEMMA MatchFits ==
  ASSUME NEW x, DOMAIN pools \subseteq Nat \ {0}
  PROVE  /\ R!Match(x) = 0 => R!Fitting(x) = {}
         /\ R!Match(x) # 0 => R!Match(x) \in R!Fitting(x)
<1>1. CASE R!Fitting(x) = {}
  BY <1>1 DEF R!Match
<1>2. CASE R!Fitting(x) # {}
  <2>1. R!Fitting(x) \subseteq Nat /\ 0 \notin R!Fitting(x)
    BY DEF R!Fitting
  <2>2. \E i \in R!Fitting(x) : \A j \in R!Fitting(x) : i <= j
    BY <1>2, <2>1, Smallest
  <2> QED
    BY <1>2, <2>1, <2>2 DEF R!Match
<1> QED
  BY <1>1, <1>2

\* Where the pod is in its way.
RoutedInv ==
  /\ \E c \in Cases : pod = c.pod /\ pools = c.pools
  /\ step = "waiting" => target = 0
  /\ step # "waiting" => target = R!Match(pod)
  /\ step \in {"waiting", "routed", "bound", "refused"}

\* A step of the pod's: it is routed, or tried, or nothing happens to it.
RoutingStep == R!Route \/ (target # 0 /\ R!Try) \/ UNCHANGED routing

LEMMA RoutingSteps == [Next]_vars => RoutingStep
BY DEF Next, Start, Pass, Observe, ScaleUp, Schedule, Run, Q!Runs, Q!StartInit, Q!InitDone,
   Q!StartContainers, routing, vars, RoutingStep, R!Try

LEMMA RoutedStep == ASSUME RoutedInv, RoutingStep PROVE RoutedInv'
<1>1. UNCHANGED <<pod, pools>>
  BY DEF RoutingStep, R!Route, R!Try, routing
<1>2. R!Match(pod)' = R!Match(pod)
  BY <1>1 DEF R!Match, R!Fitting
<1>3. CASE R!Route
  BY <1>1, <1>2, <1>3 DEF RoutedInv, R!Route
<1>4. CASE R!Try
  BY <1>1, <1>2, <1>4 DEF RoutedInv, R!Try
<1>5. CASE UNCHANGED routing
  BY <1>1, <1>2, <1>5 DEF RoutedInv, routing
<1> QED
  BY <1>3, <1>4, <1>5 DEF RoutingStep

LEMMA Routed == Spec => []RoutedInv
<1>1. Init => RoutedInv
  BY DEF Init, RoutedInv
<1>2. RoutedInv /\ [Next]_vars => RoutedInv'
  BY RoutingSteps, RoutedStep
<1> QED
  BY <1>1, <1>2, PTL DEF Spec

LEMMA PoolsListed == RoutedInv => DOMAIN pools \subseteq Nat \ {0}
BY RentingAssumption DEF RoutedInv, Listing

\* Whatever the labels, rules, taints and tolerations of a pod and of the pools: of
\* a pod that neither goes by a label match() does not look at nor has an empty
\* affinity term, no machine is rented that the scheduler then refuses to use.
THEOREM NothingRentedInVain ==
  ASSUME \A c \in Cases : \A t \in c.pod.terms : ~Hollow(t)
  PROVE  Spec => []NotRentedInVain
<1>1. Init => NotRentedInVain
  BY DEF Init, NotRentedInVain
<1>2. RoutedInv /\ NotRentedInVain /\ [Next]_vars => NotRentedInVain'
  <2> SUFFICES ASSUME RoutedInv, NotRentedInVain, RoutingStep PROVE NotRentedInVain'
    BY RoutingSteps
  <2>1. CASE R!Try
    <3> SUFFICES ASSUME Foreseen(pod) PROVE step' # "refused"
      BY <2>1 DEF R!Try, NotRentedInVain, Foreseen
    <3>1. target # 0 /\ target = R!Match(pod)
      BY <2>1 DEF R!Try, RoutedInv
    <3>2. R!Matches(pod, pools[target]) /\ \A t \in pod.terms : ~Hollow(t)
      BY <3>1, PoolsListed, MatchFits DEF R!Fitting, RoutedInv
    <3>3. R!Accepts(pod, target)
      BY <3>2, MatchIsAccepted
    <3> QED
      BY <2>1, <3>3 DEF R!Try
  <2> QED
    BY <2>1 DEF RoutingStep, R!Route, routing, NotRentedInVain, Foreseen
<1> QED
  BY <1>1, <1>2, Routed, PTL DEF Spec

\* Nor is one withheld: of a pod and pools whose every field is one the operator
\* knows, a pod that is sent to no pool is one no pool's machine could take, or goes
\* by a label match() does not look at, or bars a node by its name.
THEOREM NothingWithheld ==
  ASSUME \A c \in Cases :
           \A i \in DOMAIN c.pools : Usual(c.pod, {LiqoTaint} \cup c.pools[i].taints)
  PROVE  Spec => []NotWithheld
<1>1. RoutedInv => NotWithheld
  <2> SUFFICES ASSUME RoutedInv, step = "routed", target = 0, Foreseen(pod), ~BarsANode(pod),
                      NEW i \in DOMAIN pools
               PROVE  ~R!Accepts(pod, i)
    BY DEF NotWithheld
  <2>1. R!Fitting(pod) = {}
    BY PoolsListed, MatchFits DEF RoutedInv
  <2>2. ~R!Matches(pod, pools[i])
    BY <2>1 DEF R!Fitting
  <2>3. Usual(pod, {LiqoTaint} \cup pools[i].taints)
    BY DEF RoutedInv
  <2>4. \A t \in pod.terms : t.fields \subseteq {"In", "NotIn"}
    BY RentingAssumption DEF RoutedInv
  <2> QED
    BY <2>2, <2>3, <2>4, AcceptedIsMatch
<1> QED
  BY <1>1, Routed, PTL

-----------------------------------------------------------------------------
(* The fleet file.                                                         *)

FileListed == \E c \in Cases : file = c.file

n == Len(file.entries)

\* How many entries come before one, and which entry comes k-th.
Before(i) == {j \in DOMAIN file.entries : Precedes(j, i)}
Rank(i) == Cardinality(Before(i))
From(k) == CHOOSE i \in DOMAIN file.entries : Rank(i) = k - 1

LEMMA ListedFacts ==
  ASSUME FileListed
  PROVE  /\ n \in Nat /\ DOMAIN file.entries = 1 .. n
         /\ \A i \in 1 .. n : /\ file.entries[i].priority \in Int
                              /\ DOMAIN file.entries[i].flavors \subseteq Nat
BY RentingAssumption DEF FileListed, n, Listing

\* Priority and place make a strict order of all entries.
LEMMA Ordered ==
  ASSUME FileListed, NEW i \in 1 .. n, NEW j \in 1 .. n
  PROVE  /\ ~Precedes(i, i)
         /\ i # j => Precedes(i, j) \/ Precedes(j, i)
         /\ Precedes(i, j) => ~Precedes(j, i)
         /\ \A l \in 1 .. n : Precedes(l, i) /\ Precedes(i, j) => Precedes(l, j)
<1>1. /\ n \in Nat /\ i \in Nat /\ j \in Nat
      /\ \A l \in 1 .. n : l \in Nat /\ file.entries[l].priority \in Int
  BY ListedFacts
<1> QED
  BY <1>1 DEF Precedes

LEMMA RankRises ==
  ASSUME FileListed, NEW i \in 1 .. n, NEW j \in 1 .. n
  PROVE  /\ Rank(i) \in 0 .. n - 1
         /\ Precedes(i, j) => Rank(i) < Rank(j)
<1>0. n \in Nat /\ DOMAIN file.entries = 1 .. n
  BY ListedFacts
<1>1. IsFiniteSet(1 .. n) /\ Cardinality(1 .. n) = n
  BY <1>0, Counted
<1>2. \A l \in 1 .. n : Before(l) \in SUBSET ((1 .. n) \ {l})
  BY <1>0, Ordered DEF Before
<1>3. IsFiniteSet((1 .. n) \ {i}) /\ Cardinality((1 .. n) \ {i}) = n - 1
  BY <1>1, FS_RemoveElement
<1>4. Rank(i) \in Nat /\ Rank(i) <= n - 1 /\ IsFiniteSet(Before(i))
  BY <1>2, <1>3, FS_Subset, FS_CardinalityType DEF Rank
<1>5. ASSUME Precedes(i, j) PROVE Rank(i) < Rank(j)
  <2>1. i \notin Before(i)
    BY <1>2
  <2>2. Before(i) \cup {i} \in SUBSET Before(j)
    BY <1>0, <1>5, Ordered DEF Before
  <2>3. IsFiniteSet(Before(j))
    BY <1>1, <1>2, FS_Subset
  <2>4. Cardinality(Before(i) \cup {i}) = Rank(i) + 1
    BY <1>4, <2>1, FS_AddElement DEF Rank
  <2>5. Cardinality(Before(i) \cup {i}) <= Rank(j)
    BY <2>2, <2>3, FS_Subset DEF Rank
  <2>6. Rank(j) \in Nat
    BY <2>3, FS_CardinalityType DEF Rank
  <2> QED
    BY <1>4, <2>4, <2>5, <2>6
<1> QED
  BY <1>0, <1>4, <1>5

\* The sorted list has every entry once, in order.
LEMMA Sorted ==
  ASSUME FileListed
  PROVE  /\ DOMAIN SortedEntries = 1 .. n
         /\ \A k \in 1 .. n : From(k) \in 1 .. n /\ SortedEntries[k] = file.entries[From(k)]
         /\ \A k, l \in 1 .. n : Precedes(From(k), From(l)) => k < l
         /\ \A k, l \in 1 .. n : From(k) = From(l) => k = l
         /\ \A i \in 1 .. n : \E k \in 1 .. n : From(k) = i
<1>0. n \in Nat /\ DOMAIN file.entries = 1 .. n
  BY ListedFacts
<1> DEFINE rank == [i \in 1 .. n |-> Rank(i)]
<1>1. rank \in Injection(1 .. n, 0 .. n - 1)
  <2>1. rank \in [1 .. n -> 0 .. n - 1]
    BY RankRises
  <2>2. ASSUME NEW i \in 1 .. n, NEW j \in 1 .. n, i # j PROVE rank[i] # rank[j]
    <3>1. Rank(i) < Rank(j) \/ Rank(j) < Rank(i)
      BY <2>2, Ordered, RankRises
    <3> QED
      BY <1>0, <3>1, RankRises
  <2> QED
    BY <2>1, <2>2 DEF Injection, IsInjective
<1>2. IsFiniteSet(0 .. n - 1) /\ Cardinality(0 .. n - 1) = n /\ Cardinality(1 .. n) = n
  <2>1. IsFiniteSet(0 .. n - 1) /\ IsFiniteSet(1 .. n)
    BY <1>0, FS_Interval
  <2>2. Cardinality(1 .. n) = n
    BY <1>0, Counted
  <2>3. 0 \in Int /\ n - 1 \in Int /\ (0 > n - 1 <=> n = 0) /\ (n - 1) - 0 + 1 = n
    BY <1>0
  <2>4. Cardinality(0 .. n - 1) = IF 0 > n - 1 THEN 0 ELSE (n - 1) - 0 + 1
    BY <2>3, FS_Interval
  <2> QED
    BY <2>1, <2>2, <2>3, <2>4
<1>3. rank \in Surjection(1 .. n, 0 .. n - 1)
  BY <1>1, <1>2, FS_Injection
<1>4. \A k \in 1 .. n : From(k) \in 1 .. n /\ Rank(From(k)) = k - 1
  <2> SUFFICES ASSUME NEW k \in 1 .. n PROVE \E i \in 1 .. n : Rank(i) = k - 1
    BY <1>0 DEF From
  <2>1. k - 1 \in 0 .. n - 1
    BY <1>0
  <2>2. PICK i \in 1 .. n : rank[i] = k - 1
    BY <1>3, <2>1 DEF Surjection
  <2> QED
    BY <2>2
<1>5. ASSUME NEW k \in 1 .. n, NEW l \in 1 .. n, Precedes(From(k), From(l)) PROVE k < l
  <2>1. Rank(From(k)) < Rank(From(l))
    BY <1>4, <1>5, RankRises
  <2> QED
    BY <1>0, <1>4, <2>1
<1>6. ASSUME NEW i \in 1 .. n PROVE \E k \in 1 .. n : From(k) = i
  <2>1. Rank(i) \in 0 .. n - 1
    BY RankRises
  <2>2. Rank(i) + 1 \in 1 .. n /\ (Rank(i) + 1) - 1 = Rank(i)
    BY <1>0, <2>1
  <2>3. rank[From(Rank(i) + 1)] = rank[i]
    BY <1>4, <2>2
  <2>4. From(Rank(i) + 1) = i
    BY <1>1, <1>4, <2>2, <2>3 DEF Injection, IsInjective
  <2> QED
    BY <2>2, <2>4
<1>8. ASSUME NEW k \in 1 .. n, NEW l \in 1 .. n, From(k) = From(l) PROVE k = l
  <2>1. k - 1 = l - 1 /\ k \in Int /\ l \in Int
    BY <1>0, <1>4, <1>8
  <2> QED
    BY <2>1
<1>7. /\ DOMAIN SortedEntries = 1 .. n
      /\ \A k \in 1 .. n : SortedEntries[k] = file.entries[From(k)]
  BY <1>0 DEF SortedEntries, From, Rank, Before
<1> QED
  BY <1>4, <1>5, <1>6, <1>7, <1>8

-----------------------------------------------------------------------------
(* Starting.                                                               *)

\* What a step does to the offers: one of the operator's own, or nothing.
OfferStep ==
  \/ ReadFile \/ Place \/ SizeEntry \/ NextPhase \/ StartPass
  \/ \E s \in Needs : StartSlot(s)
  \/ EndPass \/ PassOver \/ Ask \/ NothingToRent \/ Rents \/ OutOfStock \/ QuotaReached
  \/ NoCapacity \/ Raises
  \/ UNCHANGED offers

LEMMA OfferSteps == [Next]_vars => OfferStep
BY DEF Next, Start, Starts, Pass, Observe, ScaleUp, Schedule, Run, vars, OfferStep

StartInv ==
  /\ FileListed /\ phase # "crashed"
  /\ phase \notin {"read", "stopped"} => Valid /\ pool = SortedEntries

\* The file is read once.
LEMMA FileKept ==
  ASSUME OfferStep
  PROVE  /\ UNCHANGED file
         /\ ~ReadFile => UNCHANGED pool
         /\ FileListed => FileListed'
         /\ (Valid <=> Valid') /\ SortedEntries' = SortedEntries
<1>1. UNCHANGED file /\ (~ReadFile => UNCHANGED pool)
  BY DEF OfferStep, ReadFile, Place, SizeEntry, NextPhase, StartPass, StartSlot, EndPass, PassOver,
     Ask, NothingToRent, Rents, OutOfStock, QuotaReached, NoCapacity, Raises, startup, offers
<1>2. FileListed => FileListed'
  BY <1>1 DEF FileListed
<1>3. Valid <=> Valid'
  BY <1>1 DEF Valid, NamesDeclared, Declared
<1>4. SortedEntries' = SortedEntries
  BY <1>1 DEF SortedEntries, Precedes
<1> QED
  BY <1>1, <1>2, <1>3, <1>4

\* An entry of the pool names a provider that is declared, and one of the image's.
LEMMA EntryDeclared ==
  ASSUME StartInv, phase \notin {"read", "stopped"}
  PROVE  /\ Entries = 1 .. n
         /\ \A k \in Entries :
              /\ From(k) \in 1 .. n /\ pool[k] = file.entries[From(k)]
              /\ pool[k].provider \in Declared /\ pool[k].provider \in Types
<1>1. FileListed /\ pool = SortedEntries /\ NamesDeclared /\ Declared \subseteq Types
  BY DEF StartInv, Valid
<1>2. Entries = 1 .. n /\ \A k \in Entries : From(k) \in 1 .. n /\ pool[k] = file.entries[From(k)]
  BY <1>1, Sorted DEF Entries
<1> QED
  BY <1>1, <1>2, ListedFacts DEF NamesDeclared

LEMMA StartStep == ASSUME StartInv, OfferStep PROVE StartInv'
<1>1. FileListed'
  BY FileKept DEF StartInv
<1>2. CASE ReadFile
  BY <1>1, <1>2, FileKept DEF ReadFile, StartInv
<1>3. CASE Place
  <2>1. phase' # "crashed"
    BY <1>3, EntryDeclared DEF Place
  <2> QED
    BY <1>1, <1>3, <2>1, FileKept DEF Place, StartInv
<1>4. CASE ~ReadFile /\ ~Place
  <2>1. pool' = pool /\ phase' # "crashed" /\ (phase' \in {"read", "stopped"} <=> phase \in {"read", "stopped"})
    BY <1>4, FileKept DEF StartInv, OfferStep, SizeEntry, NextPhase, StartPass, StartSlot, EndPass,
       PassOver, Ask, NothingToRent, Rents, OutOfStock, QuotaReached, NoCapacity, Raises, offers
  <2> QED
    BY <1>1, <2>1, FileKept DEF StartInv
<1> QED
  BY <1>2, <1>3, <1>4

LEMMA Started == Spec => []StartInv
<1>1. Init => StartInv
  BY DEF Init, OffersInit, StartInv, FileListed
<1>2. StartInv /\ [Next]_vars => StartInv'
  BY OfferSteps, StartStep
<1> QED
  BY <1>1, <1>2, PTL DEF Spec

\* Whatever the fleet file says: what passes the checks is used, and what does not
\* is refused.  The startup does not crash on either.
THEOREM NeverCrashesOnAFile == Spec => []StopsWithAReason
<1>1. StartInv => StopsWithAReason
  BY DEF StartInv, StopsWithAReason
<1> QED
  BY <1>1, Started, PTL

-----------------------------------------------------------------------------
(* In configured order.                                                    *)

\* Every cloud can say at startup what its flavors hold.
AllSized == Faults = {}

KnownOf(k) == sized[pool[k].provider] = ToSet(List(k)) \cap Sold[pool[k].provider]

\* What is kept of the entries that have been gone through.
PlacedInv ==
  /\ next \in Nat \ {0} /\ DOMAIN placement = Types /\ DOMAIN sized = Types
  /\ phase = "read" => next = 1
  /\ phase = "place" => \A k \in Entries : k < next => List(k) = pool[k].flavors
  /\ phase \notin {"read", "stopped", "place"} => \A k \in Entries : List(k) = pool[k].flavors
  /\ phase = "size" => \A k \in Entries : k < next => KnownOf(k)
  /\ phase \notin {"read", "stopped", "place", "size"} => \A k \in Entries : KnownOf(k)

LEMMA Apart ==
  ASSUME OneEntryEach, StartInv, phase \notin {"read", "stopped"},
         NEW k \in Entries, NEW l \in Entries, pool[k].provider = pool[l].provider
  PROVE  k = l
<1>1. /\ From(k) \in 1 .. n /\ pool[k] = file.entries[From(k)]
      /\ From(l) \in 1 .. n /\ pool[l] = file.entries[From(l)]
      /\ k \in 1 .. n /\ l \in 1 .. n /\ FileListed /\ DOMAIN file.entries = 1 .. n
  BY EntryDeclared, ListedFacts DEF StartInv
<1>2. From(k) = From(l)
  BY <1>1 DEF OneEntryEach, FileListed
<1> QED
  BY <1>1, <1>2, Sorted

LEMMA PlacedStep ==
  ASSUME OneEntryEach, AllSized, StartInv, PlacedInv, OfferStep PROVE PlacedInv'
<1>0. Entries = DOMAIN pool /\ Entries' = DOMAIN pool'
  BY DEF Entries
<1>1. CASE ReadFile
  <2>1. next' = 1 /\ UNCHANGED <<placement, sized>> /\ phase' \in {"place", "stopped"}
    BY <1>1 DEF ReadFile, PlacedInv
  <2>2. phase' = "place" => Entries' = 1 .. n /\ n \in Nat
    BY <1>0, <1>1, Sorted, ListedFacts DEF ReadFile, StartInv
  <2> QED
    BY <2>1, <2>2 DEF PlacedInv
<1>2. CASE Place
  <2>1. UNCHANGED <<pool, sized>> /\ next \in Entries /\ phase = "place"
    BY <1>2 DEF Place
  <2>2. CASE phase' # "place"
    BY <1>2, <2>1, <2>2, EntryDeclared DEF Place, PlacedInv
  <2>3. CASE phase' = "place"
    <3>1. /\ next' = next + 1
          /\ placement' = [placement EXCEPT ![pool[next].provider] = pool[next].flavors]
      BY <1>2, <2>3 DEF Place
    <3>2. pool[next].provider \in Types /\ next \in Nat /\ Entries \subseteq Nat
      BY <2>1, EntryDeclared DEF PlacedInv
    <3>3. ASSUME NEW k \in Entries, k < next + 1 PROVE List(k)' = pool[k].flavors
      <4>1. CASE k = next
        BY <2>1, <3>1, <3>2, <4>1 DEF List, PlacedInv
      <4>2. CASE k # next
        <5>1. pool[k].provider # pool[next].provider /\ k < next
          BY <2>1, <3>2, <3>3, <4>2, Apart
        <5>2. List(k)' = List(k)
          BY <2>1, <3>1, <5>1, EntryDeclared DEF List, PlacedInv
        <5> QED
          BY <2>1, <5>1, <5>2 DEF PlacedInv
      <4> QED
        BY <4>1, <4>2
    <3>4. DOMAIN placement' = Types /\ DOMAIN sized' = Types
      BY <2>1, <3>1 DEF PlacedInv
    <3> QED
      BY <1>0, <2>1, <2>3, <3>1, <3>2, <3>3, <3>4 DEF PlacedInv
  <2> QED
    BY <2>2, <2>3
<1>3. CASE SizeEntry
  <2>1. UNCHANGED <<pool, placement, phase>> /\ next \in Entries /\ phase = "size" /\ next' = next + 1
    BY <1>3 DEF SizeEntry
  <2>2. sized' = [sized EXCEPT ![pool[next].provider] =
                    ToSet(placement[pool[next].provider]) \cap Sold[pool[next].provider]]
    BY <1>3 DEF SizeEntry, AllSized
  <2>3. pool[next].provider \in Types /\ next \in Nat /\ Entries \subseteq Nat
    BY <2>1, EntryDeclared DEF PlacedInv
  <2>4. \A k \in Entries : List(k)' = List(k)
    BY <2>1 DEF List
  <2>5. ASSUME NEW k \in Entries, k < next + 1 PROVE KnownOf(k)'
    <3>1. CASE k = next
      BY <2>1, <2>2, <2>3, <3>1 DEF KnownOf, List, PlacedInv
    <3>2. CASE k # next
      <4>1. pool[k].provider # pool[next].provider /\ k < next
        BY <2>1, <2>3, <2>5, <3>2, Apart
      <4>2. KnownOf(k)
        BY <2>1, <4>1 DEF PlacedInv
      <4>3. sized'[pool[k].provider] = sized[pool[k].provider]
        BY <2>1, <2>2, <4>1, EntryDeclared DEF PlacedInv
      <4> QED
        BY <2>1, <2>4, <4>2, <4>3 DEF KnownOf
    <3> QED
      BY <3>1, <3>2
  <2>6. DOMAIN placement' = Types /\ DOMAIN sized' = Types
    BY <2>1, <2>2 DEF PlacedInv
  <2> QED
    BY <1>0, <2>1, <2>3, <2>4, <2>5, <2>6 DEF PlacedInv
<1>4. CASE ~ReadFile /\ ~Place /\ ~SizeEntry
  <2>1. UNCHANGED startup /\ \A k : (List(k)' = List(k)) /\ (KnownOf(k)' <=> KnownOf(k))
    <3>1. UNCHANGED startup
      BY <1>4 DEF OfferStep, NextPhase, StartPass, StartSlot, EndPass, PassOver, Ask, NothingToRent,
         Rents, OutOfStock, QuotaReached, NoCapacity, Raises, offers
    <3> QED
      BY <3>1 DEF startup, List, KnownOf
  <2>2. CASE NextPhase
    <3>1. Entries \subseteq 1 .. n /\ n \in Nat /\ next \notin Entries /\ Entries = 1 .. n
      BY <2>2, EntryDeclared, ListedFacts DEF NextPhase, StartInv
    <3>2. \A k \in Entries : ~(k < 1)
      BY <3>1
    <3>3. CASE \A k \in Entries : k < next
      BY <1>0, <2>1, <2>2, <3>2, <3>3 DEF NextPhase, PlacedInv, startup
    <3>4. CASE ~(\A k \in Entries : k < next)
      <4>1. next \in Nat /\ next # 0
        BY DEF PlacedInv
      <4>2. next \in 1 .. n
        BY <3>1, <3>4, <4>1
      <4> QED
        BY <3>1, <4>2
    <3> QED
      BY <3>3, <3>4
  <2>3. CASE ~NextPhase
    <3>1. /\ next' \in Nat \ {0}
          /\ phase' \in {"read", "stopped", "place", "size"} <=> phase \in {"read", "stopped", "place", "size"}
          /\ phase' # "read" \/ UNCHANGED <<phase, next>>
          /\ phase \in {"read", "stopped", "place", "size"} => UNCHANGED <<phase, next>>
      BY <1>4, <2>3 DEF OfferStep, StartPass, StartSlot, EndPass, PassOver, Ask, NothingToRent,
         Rents, OutOfStock, QuotaReached, NoCapacity, Raises, offers, PlacedInv
    <3> QED
      BY <1>0, <2>1, <3>1 DEF PlacedInv, startup
  <2> QED
    BY <2>2, <2>3
<1> QED
  BY <1>1, <1>2, <1>3, <1>4

OfferAt(k, j) == <<pool[k].provider, List(k)[j]>>

Usable(k, j) == List(k)[j] \in Sold[pool[k].provider] /\ Holds(List(k)[j], slot)

\* An entry has been gone through: its provider is passed over, or has refused
\* whatever it would be asked for, or everything that would do.
GoneThrough(k) ==
  \/ pool[k].provider \in skipped \cup full
  \/ \A j \in DOMAIN List(k) : Usable(k, j) => OfferAt(k, j) \in refused

\* What create() has still to try is of this entry, and of the entry nothing is
\* forgotten that would do.
BeingTried ==
  /\ next \in Entries /\ trying \subseteq {next} \X DOMAIN List(next)
  /\ ~NoShapes => \A o \in trying : Holds(FlavorAt(o), slot)
  /\ \A j \in DOMAIN List(next) :
       Usable(next, j) => <<next, j>> \in trying \/ OfferAt(next, j) \in refused

Ordering ==
  \E q \in Fitting : At(q) = rented /\ \A o \in Fitting : Earlier(o, q) => Tried(o)

OrderInv ==
  /\ phase \in {"ask", "try"} => \A k \in Entries : k < next => GoneThrough(k)
  /\ phase = "nothing" => \A k \in Entries : GoneThrough(k)
  /\ phase = "try" => BeingTried
  /\ phase \notin {"settled", "pass"} => rented = None
  /\ rented # None => Ordering

PassInv == StartInv /\ PlacedInv /\ OrderInv

\* What the file lists for an offer is what the pool keeps of its entry.
LEMMA WhereListed ==
  ASSUME PassInv, phase \notin {"read", "stopped", "place"}, NEW k \in Entries
  PROVE  /\ From(k) \in 1 .. n /\ k \in 1 .. n /\ k \in Nat
         /\ Listed[From(k)].provider = pool[k].provider
         /\ Listed[From(k)].flavors = List(k)
         /\ Listed[From(k)].priority = pool[k].priority
BY EntryDeclared, ListedFacts DEF PassInv, PlacedInv, StartInv, Listed

\* Every offer that would do is in some entry of the pool.
LEMMA InSomeEntry ==
  ASSUME PassInv, phase \notin {"read", "stopped", "place"}, NEW o \in Fitting
  PROVE  \E k \in Entries :
           /\ From(k) = o[1] /\ o[2] \in DOMAIN List(k) /\ Usable(k, o[2])
           /\ At(o) = OfferAt(k, o[2]) /\ Listed[o[1]].provider = pool[k].provider
<1>1. o[1] \in 1 .. n /\ o[2] \in DOMAIN Listed[o[1]].flavors
  BY ListedFacts DEF Fitting, Listed, PassInv, StartInv
<1>2. PICK k \in 1 .. n : From(k) = o[1]
  BY <1>1, Sorted DEF PassInv, StartInv
<1>3. k \in Entries
  BY <1>2, EntryDeclared DEF PassInv
<1>4. Listed[o[1]].provider = pool[k].provider /\ Listed[o[1]].flavors = List(k)
  BY <1>2, <1>3, WhereListed
<1> QED
  BY <1>1, <1>2, <1>3, <1>4 DEF Fitting, At, OfferAt, Usable

LEMMA AllGoneThrough ==
  ASSUME PassInv, phase \notin {"read", "stopped", "place"}, \A k \in Entries : GoneThrough(k)
  PROVE  \A o \in Fitting : Tried(o)
<1> SUFFICES ASSUME NEW o \in Fitting PROVE Tried(o)
  OBVIOUS
<1>1. PICK k \in Entries :
        /\ From(k) = o[1] /\ o[2] \in DOMAIN List(k) /\ Usable(k, o[2])
        /\ At(o) = OfferAt(k, o[2]) /\ Listed[o[1]].provider = pool[k].provider
  BY InSomeEntry
<1> QED
  BY <1>1 DEF GoneThrough, Tried

\* What create() rents comes in the configured order.
LEMMA RentedInOrder ==
  ASSUME PassInv, phase = "try", NEW o \in trying, Foremost(o),
         FlavorAt(o) \in Sold[pool[next].provider]
  PROVE  \E q \in Fitting : At(q) = Offer(o) /\ \A p \in Fitting : Earlier(p, q) => Tried(p)
<1> DEFINE q == <<From(next), o[2]>>
<1>1. /\ next \in Entries /\ o[1] = next /\ o[2] \in DOMAIN List(next) /\ BeingTried
      /\ o = <<o[1], o[2]>>
  BY DEF PassInv, OrderInv, BeingTried
<1>2. /\ From(next) \in 1 .. n /\ next \in 1 .. n
      /\ Listed[From(next)].provider = pool[next].provider
      /\ Listed[From(next)].flavors = List(next)
  BY <1>1, WhereListed
<1>3. FlavorAt(o) = List(next)[o[2]]
  BY <1>1 DEF FlavorAt
<1>4. Holds(FlavorAt(o), slot)
  <2>1. CASE ~NoShapes
    BY <1>1, <2>1 DEF BeingTried
  <2>2. CASE NoShapes
    <3>1. KnownOf(next)
      BY <1>1 DEF PassInv, PlacedInv
    <3>2. o[2] \in Shapes(next)
      BY <1>1, <1>3, <3>1 DEF KnownOf, Shapes, ToSet
    <3> QED
      BY <1>1, <2>2, <3>2 DEF NoShapes
  <2> QED
    BY <2>1, <2>2
<1>5. DOMAIN Listed = 1 .. n /\ \A i \in 1 .. n : Listed[i].priority \in Int
  BY ListedFacts DEF Listed, PassInv, StartInv
<1>6. q \in Fitting
  <2>1. q \in {From(next)} \X DOMAIN Listed[From(next)].flavors
    BY <1>1, <1>2
  <2>2. q \in UNION {{k} \X DOMAIN Listed[k].flavors : k \in DOMAIN Listed}
    BY <1>2, <1>5, <2>1
  <2> QED
    BY <1>2, <1>3, <1>4, <2>2 DEF Fitting
<1>7. At(q) = Offer(o)
  BY <1>2, <1>3 DEF At, Offer
<1>8. ASSUME NEW p \in Fitting, Earlier(p, q) PROVE Tried(p)
  <2>1. PICK k \in Entries :
          /\ From(k) = p[1] /\ p[2] \in DOMAIN List(k) /\ Usable(k, p[2])
          /\ At(p) = OfferAt(k, p[2]) /\ Listed[p[1]].provider = pool[k].provider
    BY InSomeEntry
  <2>2. k \in 1 .. n /\ p[1] \in 1 .. n /\ FileListed /\ n \in Nat
    BY <2>1, WhereListed, ListedFacts DEF PassInv, StartInv
  <2>3. CASE p[1] # From(next)
    <3>1. Precedes(From(k), From(next))
      BY <1>2, <1>5, <1>8, <2>1, <2>2, <2>3 DEF Earlier, Precedes, Listed
    <3>2. k < next
      <4>1. Precedes(From(k), From(next)) => k < next
        BY <1>2, <2>2, Sorted, Zenon
      <4> QED
        BY <3>1, <4>1
    <3>3. GoneThrough(k)
      BY <2>1, <3>2 DEF PassInv, OrderInv
    <3> QED
      BY <2>1, <3>3 DEF GoneThrough, Tried
  <2>4. CASE p[1] = From(next)
    <3>1. k = next
      BY <1>2, <2>1, <2>2, <2>4, Sorted
    <3>2. p[2] < o[2]
      BY <1>2, <1>5, <1>8, <2>4 DEF Earlier
    <3>3. <<next, p[2]>> \notin trying
      <4>1. ASSUME <<next, p[2]>> \in trying PROVE o[2] <= p[2]
        BY <1>1, <1>2, <2>2, <4>1 DEF Foremost
      <4>2. o[2] \in Nat /\ p[2] \in Nat
        BY <1>1, <1>2, <2>1, <2>2, <3>1, ListedFacts DEF Listed
      <4> QED
        BY <3>2, <4>1, <4>2
    <3> QED
      BY <1>1, <2>1, <3>1, <3>3 DEF BeingTried, Tried
  <2> QED
    BY <2>3, <2>4
<1> QED
  BY <1>6, <1>7, <1>8

\* While a slot is asked for, refusals only add up.
LEMMA GoneKept ==
  ASSUME UNCHANGED <<startup, slot>>, skipped \subseteq skipped', full \subseteq full',
         refused \subseteq refused'
  PROVE  \A k : /\ List(k)' = List(k) /\ pool'[k] = pool[k]
                /\ \A j : (Usable(k, j)' <=> Usable(k, j)) /\ OfferAt(k, j)' = OfferAt(k, j)
                /\ GoneThrough(k) => GoneThrough(k)'
<1>1. UNCHANGED <<file, pool, placement, sized, slot>>
  BY DEF startup
<1>2. \A k : List(k)' = List(k) /\ pool'[k] = pool[k]
  BY <1>1 DEF List
<1>3. \A f : Holds(f, slot)' <=> Holds(f, slot)
  BY <1>1 DEF Holds
<1>4. \A k, j : (Usable(k, j)' <=> Usable(k, j)) /\ OfferAt(k, j)' = OfferAt(k, j)
  BY <1>2, <1>3 DEF Usable, OfferAt
<1> QED
  BY <1>2, <1>4 DEF GoneThrough

LEMMA OrderingKept ==
  ASSUME UNCHANGED <<startup, slot, refused, skipped, full, rented>>, Ordering PROVE Ordering'
<1>1. UNCHANGED <<file, slot>> /\ Listed' = Listed
  BY DEF startup, Listed
<1>2. Fitting' = Fitting
  BY <1>1 DEF Fitting, Holds
<1>3. \A o, q : At(o)' = At(o) /\ (Earlier(o, q)' <=> Earlier(o, q)) /\ (Tried(o)' <=> Tried(o))
  BY <1>1 DEF At, Earlier, Tried
<1>4. PICK q \in Fitting : At(q) = rented /\ \A o \in Fitting : Earlier(o, q) => Tried(o)
  BY DEF Ordering
<1>5. q \in Fitting' /\ At(q)' = rented'
  BY <1>2, <1>3, <1>4
<1>6. \A o \in Fitting' : Earlier(o, q)' => Tried(o)'
  BY <1>2, <1>3, <1>4
<1> QED
  BY <1>5, <1>6 DEF Ordering

LEMMA NextGone ==
  ASSUME UNCHANGED <<startup, slot>>, skipped \subseteq skipped', full \subseteq full',
         refused \subseteq refused',
         PassInv, phase \in {"ask", "try"}, next' = next + 1,
         NEW e \in Entries, e = next, GoneThrough(e)'
  PROVE  \A k \in Entries' : k < next' => GoneThrough(k)'
<1>1. Entries' = Entries /\ Entries \subseteq Nat /\ next \in Nat
  <2>1. Entries = 1 .. n /\ n \in Nat
    BY EntryDeclared, ListedFacts DEF PassInv, StartInv
  <2> QED
    BY <2>1 DEF PassInv, PlacedInv, startup, Entries
<1> SUFFICES ASSUME NEW k \in Entries, k < next + 1 PROVE GoneThrough(k)'
  BY <1>1
<1>2. k = e \/ k < next
  BY <1>1
<1>3. GoneThrough(k) => GoneThrough(k)'
  BY GoneKept
<1> QED
  BY <1>2, <1>3 DEF PassInv, OrderInv

\* An entry that is not asked, and not for its provider's batch, has nothing that
\* would do.
LEMMA NothingThere ==
  ASSUME OneEntryEach, PassInv, phase = "ask", NEW k \in Entries, ~ToAsk(k)
  PROVE  GoneThrough(k)
<1>1. SameProvider(k) = {k}
  BY Apart DEF SameProvider, PassInv
<1>2. k \in Nat /\ KnownOf(k)
  BY EntryDeclared DEF PassInv, PlacedInv
<1>3. ~NoShapes /\ Candidates(k, slot) = {}
  BY <1>1, <1>2 DEF ToAsk
<1>4. ASSUME NEW j \in DOMAIN List(k), Usable(k, j) PROVE FALSE
  <2>1. j \in Shapes(k)
    BY <1>2, <1>4 DEF Shapes, KnownOf, Usable, ToSet
  <2> QED
    BY <1>3, <1>4, <2>1 DEF Candidates, Usable
<1> QED
  BY <1>4 DEF GoneThrough

LEMMA AskTries ==
  ASSUME OneEntryEach, PassInv, Ask PROVE BeingTried'
<1>1. /\ phase = "ask" /\ next \in Entries /\ UNCHANGED <<startup, next, slot, refused, skipped, full>>
      /\ trying' = Flavors(next)
  BY DEF Ask, history
<1>2. SameProvider(next) = {next}
  BY <1>1, Apart DEF SameProvider, PassInv
<1>3. KnownOf(next)
  BY <1>1 DEF PassInv, PlacedInv
<1>4. /\ \A k : List(k)' = List(k) /\ \A j : (Usable(k, j)' <=> Usable(k, j)) /\ OfferAt(k, j)' = OfferAt(k, j)
      /\ Entries' = Entries /\ (NoShapes' <=> NoShapes) /\ next' = next
      /\ \A o : FlavorAt(o)' = FlavorAt(o) /\ \A f : Holds(f, slot)' = Holds(f, slot)
  BY <1>1, GoneKept DEF startup, Entries, NoShapes, Shapes, FlavorAt, Holds, List
<1>5. CASE NoShapes
  BY <1>1, <1>4, <1>5 DEF Flavors, BeingTried
<1>6. CASE ~NoShapes
  <2>1. trying' = {next} \X Candidates(next, slot)
    BY <1>1, <1>2, <1>6 DEF Flavors
  <2>2. \A j \in Candidates(next, slot) : j \in DOMAIN List(next) /\ Holds(List(next)[j], slot)
    BY DEF Candidates, Shapes
  <2>3. \A j \in DOMAIN List(next) : Usable(next, j) => j \in Candidates(next, slot)
    BY <1>3 DEF Candidates, Shapes, KnownOf, Usable, ToSet
  <2>4. \A o \in trying' : o[1] = next /\ o[2] \in Candidates(next, slot)
    BY <2>1
  <2>5. \A o \in trying' : Holds(FlavorAt(o), slot)
    BY <2>2, <2>4 DEF FlavorAt
  <2>6. trying' \subseteq {next} \X DOMAIN List(next)
    BY <2>1, <2>2
  <2> QED
    BY <1>1, <1>4, <2>1, <2>3, <2>5, <2>6 DEF BeingTried
<1> QED
  BY <1>5, <1>6

LEMMA RefusedTries ==
  ASSUME PassInv, OutOfStock PROVE BeingTried'
<1>1. /\ phase = "try" /\ UNCHANGED <<startup, next, slot, skipped, full>> /\ BeingTried
  BY DEF OutOfStock, PassInv, OrderInv
<1>2. PICK o \in trying : refused' = refused \cup {Offer(o)} /\ trying' = trying \ {o}
  BY DEF OutOfStock
<1>3. /\ \A k : List(k)' = List(k) /\ \A j : (Usable(k, j)' <=> Usable(k, j)) /\ OfferAt(k, j)' = OfferAt(k, j)
      /\ Entries' = Entries /\ (NoShapes' <=> NoShapes)
      /\ \A q : FlavorAt(q)' = FlavorAt(q) /\ \A f : Holds(f, slot)' = Holds(f, slot)
  BY <1>1, <1>2, GoneKept DEF startup, Entries, NoShapes, Shapes, FlavorAt, Holds, List
<1>4. o = <<next, o[2]>> /\ Offer(o) = OfferAt(next, o[2])
  BY <1>1 DEF BeingTried, Offer, OfferAt, FlavorAt
<1>5. \A j \in DOMAIN List(next) :
        Usable(next, j) => <<next, j>> \in trying' \/ OfferAt(next, j) \in refused'
  BY <1>1, <1>2, <1>4 DEF BeingTried
<1> QED
  BY <1>1, <1>2, <1>3, <1>5 DEF BeingTried

LEMMA OrderStep == ASSUME OneEntryEach, PassInv, OfferStep PROVE OrderInv'
<1>0. n \in Nat /\ (phase \notin {"read", "stopped"} => Entries = 1 .. n)
  BY EntryDeclared, ListedFacts DEF PassInv, StartInv
<1>1. CASE ReadFile \/ Place \/ SizeEntry \/ NextPhase
  <2>1. /\ phase' \notin {"ask", "try", "nothing"} /\ rented' = rented
        /\ phase \notin {"settled", "pass"}
    BY <1>1, Zenon DEF ReadFile, Place, SizeEntry, NextPhase, history
  <2> QED
    BY <2>1 DEF PassInv, OrderInv
<1>2. CASE StartPass \/ Raises
  BY <1>2 DEF StartPass, Raises, Afresh, OrderInv
<1>3. ASSUME NEW s \in Needs, StartSlot(s) PROVE OrderInv'
  <2>1. phase' = "ask" /\ next' = 1 /\ rented' = None /\ Entries' = 1 .. n
    BY <1>0, <1>3 DEF StartSlot, Afresh, startup, Entries
  <2>2. \A k \in Entries' : ~(k < next')
    BY <1>0, <2>1
  <2> QED
    BY <2>1, <2>2 DEF OrderInv
<1>4. CASE EndPass
  <2>1. phase' = "pass" /\ UNCHANGED <<startup, slot, refused, skipped, full, rented>>
    BY <1>4 DEF EndPass, history
  <2> QED
    BY <2>1, OrderingKept DEF PassInv, OrderInv
<1>5. CASE PassOver
  <2>1. /\ phase = "ask" /\ phase' = "ask" /\ next \in Entries /\ next' = next + 1
        /\ UNCHANGED <<startup, slot, refused, full, rented>> /\ skipped \subseteq skipped'
    BY <1>5 DEF PassOver
  <2>2. PICK k \in Entries : k = next
    BY <2>1
  <2>4. GoneThrough(k)'
    <3>1. CASE ToAsk(k)
      <4>1. pool'[k] = pool[k] /\ pool[k].provider \in skipped'
        BY <1>5, <2>1, <2>2, <3>1 DEF PassOver, startup
      <4> QED
        BY <4>1 DEF GoneThrough
    <3>2. CASE ~ToAsk(k)
      <4>1. GoneThrough(k)
        BY <2>1, <3>2, NothingThere
      <4>2. GoneThrough(k) => GoneThrough(k)'
        BY <2>1, GoneKept
      <4> QED
        BY <4>1, <4>2
    <3> QED
      BY <3>1, <3>2
  <2>3. \A l \in Entries' : l < next' => GoneThrough(l)'
    BY <2>1, <2>2, <2>4, NextGone
  <2> QED
    BY <2>1, <2>3 DEF PassInv, OrderInv
<1>6. CASE Ask
  <2>1. /\ phase = "ask" /\ phase' = "try" /\ UNCHANGED <<startup, next, slot, refused, skipped, full, rented>>
    BY <1>6 DEF Ask, history
  <2>2. \A k \in Entries' : k < next' => GoneThrough(k)'
    BY <2>1, GoneKept DEF PassInv, OrderInv, startup, Entries
  <2> QED
    BY <1>6, <2>1, <2>2, AskTries DEF PassInv, OrderInv
<1>7. CASE NothingToRent
  <2>1. /\ phase = "ask" /\ phase' = "nothing" /\ next \notin Entries
        /\ UNCHANGED <<startup, slot, refused, skipped, full, rented>>
    BY <1>7 DEF NothingToRent, history
  <2>2. \A k \in Entries : k < next
    BY <1>0, <2>1 DEF PassInv, PlacedInv
  <2>3. \A k \in Entries' : GoneThrough(k)'
    BY <2>1, <2>2, GoneKept DEF PassInv, OrderInv, startup, Entries
  <2> QED
    BY <2>1, <2>3 DEF PassInv, OrderInv
<1>8. CASE Rents
  <2>1. /\ phase = "try" /\ phase' = "settled" /\ UNCHANGED <<startup, slot, refused, skipped, full>>
    BY <1>8 DEF Rents
  <2>2. PICK o \in trying :
          Foremost(o) /\ FlavorAt(o) \in Sold[pool[next].provider] /\ rented' = Offer(o)
    BY <1>8 DEF Rents
  <2>3. PICK q \in Fitting : At(q) = Offer(o) /\ \A p \in Fitting : Earlier(p, q) => Tried(p)
    BY <2>1, <2>2, RentedInOrder
  <2>4. UNCHANGED <<file, slot>> /\ Listed' = Listed
    BY <2>1 DEF startup, Listed
  <2>5. Fitting' = Fitting
    BY <2>4 DEF Fitting, Holds
  <2>6. \A p, r : At(p)' = At(p) /\ (Earlier(p, r)' <=> Earlier(p, r)) /\ (Tried(p)' <=> Tried(p))
    BY <2>1, <2>4 DEF At, Earlier, Tried
  <2>7. At(q)' = rented' /\ \A p \in Fitting' : Earlier(p, q)' => Tried(p)'
    BY <2>2, <2>3, <2>5, <2>6
  <2>8. Ordering'
    BY <2>3, <2>5, <2>7 DEF Ordering
  <2> QED
    BY <2>1, <2>8 DEF OrderInv
<1>9. CASE OutOfStock
  <2>1. /\ phase = "try" /\ phase' = "try" /\ UNCHANGED <<startup, next, slot, skipped, full, rented>>
        /\ refused \subseteq refused'
    BY <1>9 DEF OutOfStock
  <2>2. \A k \in Entries' : k < next' => GoneThrough(k)'
    BY <2>1, GoneKept DEF PassInv, OrderInv, startup, Entries
  <2> QED
    BY <1>9, <2>1, <2>2, RefusedTries DEF PassInv, OrderInv
<1>10. CASE NoCapacity
  <2>1. /\ phase = "try" /\ phase' = "ask" /\ trying = {} /\ next' = next + 1
        /\ UNCHANGED <<startup, slot, refused, skipped, full, rented>>
    BY <1>10 DEF NoCapacity, history
  <2>2. PICK k \in Entries : k = next
    BY <2>1 DEF PassInv, OrderInv, BeingTried
  <2>4. GoneThrough(k)
    BY <2>1, <2>2 DEF PassInv, OrderInv, BeingTried, GoneThrough
  <2>5. GoneThrough(k) => GoneThrough(k)'
    BY <2>1, GoneKept
  <2>3. \A l \in Entries' : l < next' => GoneThrough(l)'
    BY <2>1, <2>2, <2>4, <2>5, NextGone
  <2> QED
    BY <2>1, <2>3 DEF PassInv, OrderInv
<1>11. CASE QuotaReached
  <2>1. /\ phase = "try" /\ phase' = "ask" /\ next' = next + 1
        /\ UNCHANGED <<startup, slot, refused, skipped, rented>>
        /\ full' = full \cup {pool[next].provider}
    BY <1>11 DEF QuotaReached
  <2>2. PICK k \in Entries : k = next
    BY <2>1 DEF PassInv, OrderInv, BeingTried
  <2>4. GoneThrough(k)'
    <3>1. pool'[k] = pool[k] /\ pool[k].provider \in full'
      BY <2>1, <2>2 DEF startup
    <3> QED
      BY <3>1 DEF GoneThrough
  <2>3. \A l \in Entries' : l < next' => GoneThrough(l)'
    BY <2>1, <2>2, <2>4, NextGone
  <2> QED
    BY <2>1, <2>3 DEF PassInv, OrderInv
<1>12. CASE UNCHANGED offers
  <2>1. UNCHANGED <<startup, phase, next, slot, trying, refused, skipped, full, rented>>
    BY <1>12 DEF offers, history
  <2>2. /\ Entries' = Entries /\ (NoShapes' <=> NoShapes)
        /\ \A o : FlavorAt(o)' = FlavorAt(o) /\ \A f : Holds(f, slot)' = Holds(f, slot)
    BY <2>1 DEF startup, Entries, NoShapes, Shapes, FlavorAt, Holds, List
  <2>3. BeingTried => BeingTried'
    BY <2>1, <2>2, GoneKept DEF BeingTried
  <2>4. \A k : GoneThrough(k) => GoneThrough(k)'
    BY <2>1, GoneKept
  <2> QED
    BY <2>1, <2>2, <2>3, <2>4, OrderingKept DEF PassInv, OrderInv
<1> QED
  BY <1>1, <1>2, <1>3, <1>4, <1>5, <1>6, <1>7, <1>8, <1>9, <1>10, <1>11, <1>12 DEF OfferStep

\* Whatever the priorities, the flavors, the stock and the batches, and whatever the
\* slots are for: from a file that names no provider twice in its pool, of clouds that
\* could say at startup what their flavors hold, what is rented comes after nothing
\* that would do and was not refused, by itself or with its whole provider, and a pass
\* gives up only when all of it was.
THEOREM RentsInConfiguredOrder ==
  ASSUME OneEntryEach, AllSized
  PROVE  Spec => []InConfiguredOrder
<1>1. Init => PassInv
  <2> SUFFICES ASSUME Init PROVE PassInv
    OBVIOUS
  <2>1. StartInv /\ OrderInv
    BY DEF Init, OffersInit, StartInv, FileListed, OrderInv
  <2>2. PlacedInv
    BY DEF Init, OffersInit, PlacedInv
  <2> QED
    BY <2>1, <2>2 DEF PassInv
<1>2. PassInv /\ [Next]_vars => PassInv'
  BY OfferSteps, StartStep, PlacedStep, OrderStep DEF PassInv
<1>3. PassInv => InConfiguredOrder
  BY AllGoneThrough DEF PassInv, OrderInv, InConfiguredOrder, Ordering
<1> QED
  BY <1>1, <1>2, <1>3, PTL DEF Spec

-----------------------------------------------------------------------------
(* What a pod requests: sums and maxima of vectors, folded over lists.     *)

LEMMA VectorOps ==
  ASSUME NEW v \in Amounts, NEW w \in Amounts
  PROVE  /\ Q!Plus(v, w) \in Amounts /\ Q!Biggest(v, w) \in Amounts /\ Q!Nothing \in Amounts
         /\ \A d \in Dims : /\ Q!Plus(v, w)[d] = v[d] + w[d] /\ Q!Nothing[d] = 0
                            /\ Q!Biggest(v, w)[d] = IF v[d] < w[d] THEN w[d] ELSE v[d]
BY DEF Q!Plus, Q!Biggest, Q!ElementwiseMax, Q!Nothing, Amounts

\* What folding a list of vectors computes, subset by subset of its places.
LEMMA TotalUnfolds ==
  ASSUME NEW vs, IsFiniteSet(DOMAIN vs), \A i \in DOMAIN vs : vs[i] \in Amounts
  PROVE  \E f : /\ Q!Total(vs) = f[DOMAIN vs]
                /\ \A s \in SUBSET DOMAIN vs :
                     f[s] = IF s = {} THEN Q!Nothing
                            ELSE Q!Plus(vs[Pick(s)], f[s \ {Pick(s)}])
<1> DEFINE D == DOMAIN vs
           G == [p \in D \X Amounts |-> Q!Plus(vs[p[1]], p[2])]
           Eq(f) == f = [s \in SUBSET D |-> IF s = {} THEN Q!Nothing
                                            ELSE Q!Plus(vs[Pick(s)], f[s \ {Pick(s)}])]
<1>1. G \in [D \X Amounts -> Amounts] /\ Q!Nothing \in Amounts
  <2>1. Q!Nothing \in Amounts
    BY DEF Q!Nothing, Amounts
  <2>2. \A p \in D \X Amounts : Q!Plus(vs[p[1]], p[2]) \in Amounts
    BY VectorOps
  <2> QED
    BY <2>1, <2>2
<1>2. PICK h \in [SUBSET D -> Amounts] : Folds(h, D, Q!Nothing, G)
  <2> HIDE DEF G
  <2> QED
    BY <1>1, FoldExists
<1>3. \A s \in SUBSET D : s # {} =>
        G[<<Pick(s), h[s \ {Pick(s)}]>>] = Q!Plus(vs[Pick(s)], h[s \ {Pick(s)}])
  <2> SUFFICES ASSUME NEW s \in SUBSET D, s # {}
               PROVE G[<<Pick(s), h[s \ {Pick(s)}]>>] = Q!Plus(vs[Pick(s)], h[s \ {Pick(s)}])
    OBVIOUS
  <2>1. <<Pick(s), h[s \ {Pick(s)}]>> \in D \X Amounts
    BY PickIn
  <2> QED
    BY <2>1
<1>4. Eq(h)
  <2> HIDE DEF G
  <2> QED
    BY <1>2, <1>3 DEF Folds
<1> DEFINE f == CHOOSE g : Eq(g)
<1>5. Eq(f)
  BY <1>4, Zenon
<1>6. Q!Total(vs) = f[D]
  BY Zenon DEF Q!Total, Q!FoldSeq, Q!FoldFunction, Q!FoldFunctionOnSet, Q!MapThenFoldSet, Pick
<1> HIDE DEF f
<1> QED
  BY <1>5, <1>6, Zenon

LEMMA MostUnfolds ==
  ASSUME NEW vs, IsFiniteSet(DOMAIN vs), \A i \in DOMAIN vs : vs[i] \in Amounts
  PROVE  \E f : /\ Q!FoldSeq(Q!Biggest, Q!Nothing, vs) = f[DOMAIN vs]
                /\ \A s \in SUBSET DOMAIN vs :
                     f[s] = IF s = {} THEN Q!Nothing
                            ELSE Q!Biggest(vs[Pick(s)], f[s \ {Pick(s)}])
<1> DEFINE D == DOMAIN vs
           G == [p \in D \X Amounts |-> Q!Biggest(vs[p[1]], p[2])]
           Eq(f) == f = [s \in SUBSET D |-> IF s = {} THEN Q!Nothing
                                            ELSE Q!Biggest(vs[Pick(s)], f[s \ {Pick(s)}])]
<1>1. G \in [D \X Amounts -> Amounts] /\ Q!Nothing \in Amounts
  <2>1. Q!Nothing \in Amounts
    BY DEF Q!Nothing, Amounts
  <2>2. \A p \in D \X Amounts : Q!Biggest(vs[p[1]], p[2]) \in Amounts
    BY VectorOps
  <2> QED
    BY <2>1, <2>2
<1>2. PICK h \in [SUBSET D -> Amounts] : Folds(h, D, Q!Nothing, G)
  <2> HIDE DEF G
  <2> QED
    BY <1>1, FoldExists
<1>3. \A s \in SUBSET D : s # {} =>
        G[<<Pick(s), h[s \ {Pick(s)}]>>] = Q!Biggest(vs[Pick(s)], h[s \ {Pick(s)}])
  <2> SUFFICES ASSUME NEW s \in SUBSET D, s # {}
               PROVE G[<<Pick(s), h[s \ {Pick(s)}]>>] = Q!Biggest(vs[Pick(s)], h[s \ {Pick(s)}])
    OBVIOUS
  <2>1. <<Pick(s), h[s \ {Pick(s)}]>> \in D \X Amounts
    BY PickIn
  <2> QED
    BY <2>1
<1>4. Eq(h)
  <2> HIDE DEF G
  <2> QED
    BY <1>2, <1>3 DEF Folds
<1> DEFINE f == CHOOSE g : Eq(g)
<1>5. Eq(f)
  BY <1>4, Zenon
<1>6. Q!FoldSeq(Q!Biggest, Q!Nothing, vs) = f[D]
  BY Zenon DEF Q!FoldSeq, Q!FoldFunction, Q!FoldFunctionOnSet, Q!MapThenFoldSet, Pick
<1> HIDE DEF f
<1> QED
  BY <1>5, <1>6, Zenon

\* The total of vectors is one; of nothings it is nothing.
LEMMA TotalOf ==
  ASSUME NEW vs, IsFiniteSet(DOMAIN vs), \A i \in DOMAIN vs : vs[i] \in Amounts
  PROVE  /\ Q!Total(vs) \in Amounts
         /\ (\A i \in DOMAIN vs : vs[i] = Q!Nothing) => Q!Total(vs) = Q!Nothing
<1> DEFINE D == DOMAIN vs
<1>1. PICK f : /\ Q!Total(vs) = f[D]
               /\ \A s \in SUBSET D :
                    f[s] = IF s = {} THEN Q!Nothing ELSE Q!Plus(vs[Pick(s)], f[s \ {Pick(s)}])
  BY TotalUnfolds
<1> DEFINE Good(s) == /\ f[s] \in Amounts
                      /\ (\A i \in D : vs[i] = Q!Nothing) => f[s] = Q!Nothing
           C == {s \in SUBSET D : ~Good(s)}
<1>2. C = {}
  <2> SUFFICES ASSUME C # {} PROVE FALSE
    OBVIOUS
  <2>1. C \in SUBSET SUBSET D
    OBVIOUS
  <2>2. PICK s \in C : \A r \in C : ~(r \subseteq s /\ r # s)
    <3> HIDE DEF C
    <3> QED
      BY <2>1, SmallestSet
  <2>3. CASE s = {}
    <3>1. Q!Nothing \in Amounts
      BY DEF Q!Nothing, Amounts
    <3> QED
      BY <1>1, <2>3, <3>1
  <2>4. CASE s # {}
    <3>1. Pick(s) \in D /\ s \ {Pick(s)} \in SUBSET D /\ s \ {Pick(s)} # s
      BY <2>4, PickIn
    <3>2. Good(s \ {Pick(s)})
      BY <2>2, <3>1
    <3>3. f[s] = Q!Plus(vs[Pick(s)], f[s \ {Pick(s)}])
      BY <1>1, <2>4
    <3>4. f[s] \in Amounts
      BY <3>1, <3>2, <3>3, VectorOps
    <3>5. Q!Plus(Q!Nothing, Q!Nothing) = Q!Nothing
      BY DEF Q!Plus, Q!Nothing
    <3> QED
      BY <3>1, <3>2, <3>3, <3>4, <3>5
  <2> QED
    BY <2>3, <2>4
<1> QED
  BY <1>1, <1>2

\* The biggest of vectors is, in every dimension, the least that none exceeds.
LEMMA BiggestOf ==
  ASSUME NEW vs, IsFiniteSet(DOMAIN vs), \A i \in DOMAIN vs : vs[i] \in Amounts
  PROVE  LET most == Q!FoldSeq(Q!Biggest, Q!Nothing, vs)
         IN  /\ most \in Amounts
             /\ \A d \in Dims : /\ \A i \in DOMAIN vs : vs[i][d] <= most[d]
                                /\ most[d] = 0 \/ \E i \in DOMAIN vs : most[d] = vs[i][d]
<1> DEFINE D == DOMAIN vs
<1>1. PICK f : /\ Q!FoldSeq(Q!Biggest, Q!Nothing, vs) = f[D]
               /\ \A s \in SUBSET D :
                    f[s] = IF s = {} THEN Q!Nothing ELSE Q!Biggest(vs[Pick(s)], f[s \ {Pick(s)}])
  BY MostUnfolds
<1> DEFINE Good(s) == /\ f[s] \in Amounts
                      /\ \A d \in Dims : /\ \A i \in s : vs[i][d] <= f[s][d]
                                         /\ f[s][d] = 0 \/ \E i \in s : f[s][d] = vs[i][d]
           C == {s \in SUBSET D : ~Good(s)}
<1>2. C = {}
  <2> SUFFICES ASSUME C # {} PROVE FALSE
    OBVIOUS
  <2>1. C \in SUBSET SUBSET D
    OBVIOUS
  <2>2. PICK s \in C : \A r \in C : ~(r \subseteq s /\ r # s)
    <3> HIDE DEF C
    <3> QED
      BY <2>1, SmallestSet
  <2>3. CASE s = {}
    <3>1. Q!Nothing \in Amounts /\ \A d \in Dims : Q!Nothing[d] = 0
      BY DEF Q!Nothing, Amounts
    <3> QED
      BY <1>1, <2>3, <3>1
  <2>4. CASE s # {}
    <3> DEFINE x == Pick(s)
               r == s \ {Pick(s)}
    <3>1. x \in D /\ x \in s /\ r \in SUBSET D /\ r # s /\ s = r \cup {x}
      BY <2>4, PickIn
    <3>2. Good(r)
      BY <2>2, <3>1
    <3>3. f[s] = Q!Biggest(vs[x], f[r])
      BY <1>1, <2>4
    <3> HIDE DEF x, r
    <3>4. /\ f[s] \in Amounts
          /\ \A d \in Dims : f[s][d] = IF vs[x][d] < f[r][d] THEN f[r][d] ELSE vs[x][d]
      BY <3>1, <3>2, <3>3, VectorOps
    <3>5. \A d \in Dims : /\ f[r][d] \in Nat
                          /\ \A i \in s : vs[i][d] \in Nat
      BY <3>1, <3>2 DEF Amounts
    <3>6. ASSUME NEW d \in Dims
          PROVE  /\ \A i \in s : vs[i][d] <= f[s][d]
                 /\ f[s][d] = 0 \/ \E i \in s : f[s][d] = vs[i][d]
      <4>1. /\ \A i \in r : vs[i][d] <= f[r][d]
            /\ f[r][d] = 0 \/ \E i \in r : f[r][d] = vs[i][d]
        BY <3>2
      <4>2. f[s][d] = IF vs[x][d] < f[r][d] THEN f[r][d] ELSE vs[x][d]
        BY <3>4
      <4>3. f[r][d] \in Nat /\ vs[x][d] \in Nat /\ \A i \in s : vs[i][d] \in Nat
        BY <3>1, <3>5
      <4>4. f[r][d] <= f[s][d] /\ vs[x][d] <= f[s][d] /\ f[s][d] \in Nat
        BY <4>2, <4>3
      <4>5. ASSUME NEW i \in s PROVE vs[i][d] <= f[s][d]
        <5>1. i = x \/ vs[i][d] <= f[r][d]
          BY <3>1, <4>1
        <5> QED
          BY <4>3, <4>4, <5>1
      <4>6. f[s][d] = 0 \/ \E i \in s : f[s][d] = vs[i][d]
        BY <3>1, <4>1, <4>2
      <4> QED
        BY <4>5, <4>6
    <3> QED
      BY <3>4, <3>6
  <2> QED
    BY <2>3, <2>4
<1> QED
  BY <1>1, <1>2

-----------------------------------------------------------------------------
(* Types.                                                                  *)

\* What the pod requests: the bigger, in each dimension, of its containers together
\* and its biggest init container, and its overhead.
LEMMA Requested ==
  ASSUME RoutedInv
  PROVE  /\ Q!Total(pod.app) \in Amounts /\ Q!InitRequests \in Amounts /\ pod.overhead \in Amounts
         /\ Q!PodRequests \in Amounts
         /\ \A d \in Dims :
              Q!PodRequests[d] = (IF Q!Total(pod.app)[d] < Q!InitRequests[d] THEN Q!InitRequests[d]
                                  ELSE Q!Total(pod.app)[d]) + pod.overhead[d]
         /\ \A d \in Dims :
              /\ \A i \in DOMAIN pod.init : pod.init[i].request[d] <= Q!InitRequests[d]
              /\ \/ Q!InitRequests[d] = 0
                 \/ \E i \in DOMAIN pod.init : Q!InitRequests[d] = pod.init[i].request[d]
<1> DEFINE asked == [i \in DOMAIN pod.init |-> pod.init[i].request]
<1>1. /\ DOMAIN pod.init = 1 .. Len(pod.init) /\ Len(pod.init) \in Nat
      /\ DOMAIN pod.app = 1 .. Len(pod.app) /\ Len(pod.app) \in Nat
      /\ pod.overhead \in Amounts
      /\ \A i \in DOMAIN pod.init : pod.init[i].request \in Amounts
      /\ \A i \in DOMAIN pod.app : pod.app[i] \in Amounts
  BY RentingAssumption DEF RoutedInv, Listing, ToSet
<1>2. IsFiniteSet(DOMAIN pod.init) /\ IsFiniteSet(DOMAIN pod.app)
  <2>1. \A k \in Nat : IsFiniteSet(1 .. k)
    BY Counted
  <2> QED
    BY <1>1, <2>1
<1>3. Q!Total(pod.app) \in Amounts
  BY <1>1, <1>2, TotalOf
<1>4. IsFiniteSet(DOMAIN asked) /\ \A i \in DOMAIN asked : asked[i] \in Amounts
  BY <1>1, <1>2
<1>5. /\ Q!InitRequests \in Amounts
      /\ \A d \in Dims :
              /\ \A i \in DOMAIN asked : asked[i][d] <= Q!InitRequests[d]
              /\ \/ Q!InitRequests[d] = 0
                 \/ \E i \in DOMAIN asked : Q!InitRequests[d] = asked[i][d]
  <2> HIDE DEF asked
  <2>1. Q!InitRequests = Q!FoldSeq(Q!Biggest, Q!Nothing, asked)
    BY DEF Q!InitRequests, asked
  <2> QED
    BY <1>4, <2>1, BiggestOf
<1>6. Q!PodRequests = Q!Plus(Q!Biggest(Q!Total(pod.app), Q!InitRequests), pod.overhead)
  BY DEF Q!PodRequests, Q!Biggest
<1>7. Q!Biggest(Q!Total(pod.app), Q!InitRequests) \in Amounts
  BY <1>3, <1>5, VectorOps
<1>8. Q!PodRequests \in Amounts
  BY <1>1, <1>6, <1>7, VectorOps
<1>9. \A d \in Dims : Q!PodRequests[d] =
        Q!Biggest(Q!Total(pod.app), Q!InitRequests)[d] + pod.overhead[d]
  BY <1>1, <1>6, <1>7, VectorOps
<1> QED
  BY <1>1, <1>3, <1>5, <1>8, <1>9, VectorOps

LEMMA NeedsAreAmounts == RoutedInv => Needs \subseteq Amounts
BY Requested, RentingAssumption DEF Needs, Nothing, Amounts

TypeInv == StartInv /\ RoutedInv /\ RentingTypeOK

LEMMA Batches ==
  ASSUME StartInv, Valid PROVE \A t : BatchOf(t) \in Nat
<1> SUFFICES ASSUME NEW t PROVE BatchOf(t) \in Nat
  OBVIOUS
<1> DEFINE mine == {i \in DOMAIN file.providers : file.providers[i].name = t}
<1>1. \A i \in DOMAIN file.providers : file.providers[i].batch \in Int /\ file.providers[i].batch >= 1
  BY RentingAssumption DEF StartInv, FileListed, Valid
<1>2. CASE mine = {}
  BY <1>2 DEF BatchOf
<1>3. CASE mine # {}
  <2>1. (CHOOSE i \in mine : TRUE) \in mine
    BY <1>3
  <2> QED
    BY <1>1, <1>3, <2>1 DEF BatchOf
<1> QED
  BY <1>2, <1>3

LEMMA FlavorsPlaced ==
  ASSUME NEW k \in Entries PROVE Flavors(k) \subseteq Places
<1>1. CASE NoShapes
  BY <1>1 DEF Flavors, Places
<1>2. CASE ~NoShapes
  <2>1. \A i \in SameProvider(k) : i \in Entries /\ Candidates(i, slot) \subseteq DOMAIN List(i)
    BY DEF SameProvider, Candidates, Shapes
  <2>2. ASSUME NEW o \in Flavors(k) PROVE o \in Places
    <3>1. PICK i \in SameProvider(k) : o \in {i} \X Candidates(i, slot)
      BY <1>2 DEF Flavors
    <3>2. o \in {i} \X DOMAIN List(i) /\ i \in Entries
      BY <2>1, <3>1
    <3> QED
      BY <3>2 DEF Places
  <2> QED
    BY <2>2
<1> QED
  BY <1>1, <1>2

LEMMA PlacesKept == ASSUME UNCHANGED startup PROVE Places' = Places /\ Entries' = Entries
BY DEF startup, Places, Entries, List

LEMMA OffersTyped ==
  ASSUME StartInv, OffersTypeOK, OfferStep, Needs \subseteq Amounts PROVE OffersTypeOK'
<1>1. CASE ReadFile
  BY <1>1 DEF ReadFile, OffersTypeOK, history
<1>2. CASE Place
  BY <1>2 DEF Place, OffersTypeOK, history
<1>3. CASE SizeEntry
  <2>1. /\ phase = "size" /\ next \in Entries /\ next' = next + 1
        /\ UNCHANGED <<pool, placement, phase, budget, slot, trying, done, skipped, full>>
    BY <1>3 DEF SizeEntry, history
  <2>2. sized' \in [Types -> SUBSET DOMAIN Size]
    <3>1. pool[next].provider \in Types
      BY <2>1, EntryDeclared
    <3>2. Sold[pool[next].provider] \in SUBSET DOMAIN Size
      BY <3>1, OffersAssumption
    <3> QED
      BY <1>3, <3>2 DEF SizeEntry, OffersTypeOK
  <2> QED
    BY <2>1, <2>2 DEF OffersTypeOK
<1>4. CASE NextPhase
  BY <1>4 DEF NextPhase, OffersTypeOK, history, startup
<1>5. CASE StartPass
  <2>1. \A t \in Types : BatchOf(t) \in Nat
    BY <1>5, Batches DEF StartPass, StartInv
  <2>2. budget' \in [Types -> Nat]
    BY <1>5, <2>1 DEF StartPass
  <2>3. MaxSlots \in Nat
    BY OffersAssumption
  <2> QED
    BY <1>5, <2>2, <2>3 DEF StartPass, Afresh, OffersTypeOK, startup
<1>6. ASSUME NEW s \in Needs, StartSlot(s) PROVE OffersTypeOK'
  <2>1. /\ phase = "settled" /\ phase' = "ask" /\ next' = 1 /\ done' = done + 1 /\ done < MaxSlots
        /\ slot' = s /\ skipped' = {} /\ full' = {}
        /\ UNCHANGED <<startup, budget, trying>>
    BY <1>6 DEF StartSlot, Afresh
  <2>2. done' \in 0 .. MaxSlots
    BY <2>1, OffersAssumption DEF OffersTypeOK
  <2> QED
    BY <2>1, <2>2 DEF OffersTypeOK, startup
<1>7. CASE EndPass \/ NothingToRent
  BY <1>7 DEF EndPass, NothingToRent, OffersTypeOK, startup, history
<1>8. CASE PassOver
  <2>1. /\ phase = "ask" /\ next \in Entries /\ next' = next + 1
        /\ UNCHANGED <<startup, phase, budget, slot, trying, done, full>>
        /\ skipped' \subseteq skipped \cup {pool[next].provider}
    BY <1>8 DEF PassOver
  <2>2. pool[next].provider \in Types
    BY <2>1, EntryDeclared
  <2> QED
    BY <2>1, <2>2 DEF OffersTypeOK, startup
<1>9. CASE Ask
  <2>1. /\ next \in Entries /\ phase = "ask" /\ phase' = "try" /\ trying' = Flavors(next)
        /\ budget[pool[next].provider] > 0
        /\ budget' = [budget EXCEPT ![pool[next].provider] = @ - 1]
        /\ UNCHANGED <<startup, next, slot, done, skipped, full>>
    BY <1>9 DEF Ask, history, WithinBatch
  <2>2. pool[next].provider \in Types
    BY <2>1, EntryDeclared
  <2>3. budget' \in [Types -> Nat]
    BY <2>1, <2>2 DEF OffersTypeOK
  <2>4. next' \in Entries' /\ trying' \subseteq Places'
    BY <2>1, FlavorsPlaced, PlacesKept
  <2> QED
    BY <2>1, <2>3, <2>4 DEF OffersTypeOK, startup
<1>10. CASE Rents \/ Raises
  <2>1. /\ phase' \in {"settled", "pass"} /\ trying' = {}
        /\ skipped' \subseteq skipped /\ full' \subseteq full
        /\ UNCHANGED <<startup, slot, budget>> /\ next' \in {next, 1} /\ done' \in {done, 0}
    BY <1>10 DEF Rents, Raises, Afresh
  <2>2. next' \in Nat /\ done' \in 0 .. MaxSlots
    BY <2>1, OffersAssumption DEF OffersTypeOK
  <2> QED
    BY <2>1, <2>2 DEF OffersTypeOK, startup
<1>11. CASE OutOfStock
  BY <1>11, PlacesKept DEF OutOfStock, OffersTypeOK, startup
<1>12. CASE NoCapacity
  BY <1>12 DEF NoCapacity, OffersTypeOK, startup, history
<1>13. CASE QuotaReached
  BY <1>13, OffersAssumption DEF QuotaReached, OffersTypeOK, startup
<1>14. CASE UNCHANGED offers
  <2>1. UNCHANGED <<startup, phase, next, budget, slot, trying, done, skipped, full>>
    BY <1>14 DEF offers, history
  <2> QED
    BY <2>1, PlacesKept DEF OffersTypeOK, startup
<1> QED
  BY <1>1, <1>2, <1>3, <1>4, <1>5, <1>6, <1>7, <1>8, <1>9, <1>10, <1>11, <1>12, <1>13,
     <1>14 DEF OfferStep

\* A machine that is rented is of a flavor with a size.
LEMMA RentedSized ==
  ASSUME StartInv, OffersTypeOK, Rents PROVE rented'[2] \in DOMAIN Size
<1>1. phase = "try" /\ next \in Entries
  BY DEF Rents, OffersTypeOK
<1>2. PICK o \in trying : FlavorAt(o) \in Sold[pool[next].provider] /\ rented' = Offer(o)
  BY DEF Rents
<1>3. Sold[pool[next].provider] \subseteq DOMAIN Size
  BY <1>1, EntryDeclared, OffersAssumption
<1> QED
  BY <1>2, <1>3 DEF Offer

LEMMA TypeStep == ASSUME TypeInv, [Next]_vars PROVE TypeInv'
<1>1. StartInv' /\ RoutedInv' /\ OffersTypeOK'
  BY OfferSteps, StartStep, RoutingSteps, RoutedStep, NeedsAreAmounts, OffersTyped
     DEF TypeInv, RentingTypeOK
<1>2. Len(pod.init) \in Nat /\ UNCHANGED <<pod, pools>>
  BY RoutingSteps, RentingAssumption DEF TypeInv, RoutedInv, Listing, RoutingStep, R!Route, R!Try, routing
<1>3. target' \in 0 .. Len(pools')
  <2>1. DOMAIN pools = 1 .. Len(pools) /\ Len(pools) \in Nat
    BY RentingAssumption DEF TypeInv, RoutedInv, Listing
  <2>2. target' = 0 \/ target' = R!Match(pod)
    BY <1>1, <1>2 DEF RoutedInv, R!Match, R!Fitting
  <2>3. R!Match(pod) = 0 \/ R!Match(pod) \in DOMAIN pools
    BY MatchFits, PoolsListed DEF TypeInv, R!Fitting
  <2> QED
    BY <1>2, <2>1, <2>2, <2>3
<1> DEFINE Way == /\ started \in 0 .. Len(pod.init) /\ machine \in DOMAIN Size \cup {None}
                  /\ step \in {"bound", "refused"} => machine # None
                  /\ machine # None => target # 0
                  /\ runs # "nothing" => step = "bound"
<1>4. Way'
  <2>0. Way
    BY DEF TypeInv, RentingTypeOK
  <2>1. CASE Start \/ UNCHANGED vars
    BY <2>0, <2>1 DEF Start, vars, routing, kubelet
  <2>2. CASE machine = None /\ Observe
    BY <2>0, <2>2 DEF Observe, routing, kubelet, R!Route, TypeInv, RoutedInv
  <2>3. CASE machine = None /\ ScaleUp /\ UNCHANGED <<routing, kubelet>>
    <3>1. machine' = None \/ (Rents /\ ForPod /\ machine' = rented'[2])
      BY <2>3 DEF ScaleUp
    <3>2. machine' \in DOMAIN Size \cup {None} /\ (machine' # None => target # 0)
      BY <3>1, RentedSized DEF TypeInv, RentingTypeOK, ForPod
    <3> QED
      BY <2>0, <2>3, <3>2 DEF routing, kubelet
  <2>4. CASE Schedule
    BY <2>0, <2>4 DEF Schedule, R!Try, kubelet
  <2>5. CASE Run
    <3>1. started' \in 0 .. Len(pod.init)
      BY <1>2, <2>0, <2>5 DEF Run, Q!Runs, Q!StartInit, Q!InitDone, Q!StartContainers
    <3> QED
      BY <1>2, <2>0, <2>5, <3>1 DEF Run, Q!Runs
  <2> QED
    BY <2>1, <2>2, <2>3, <2>4, <2>5 DEF Next, Pass
<1> QED
  BY <1>1, <1>3, <1>4 DEF TypeInv, RentingTypeOK

LEMMA TypeStart == Init => TypeInv
<1> SUFFICES ASSUME Init PROVE TypeInv
  OBVIOUS
<1>1. StartInv /\ RoutedInv
  BY DEF Init, OffersInit, StartInv, FileListed, RoutedInv
<1>2. Len(pools) \in Nat /\ Len(pod.init) \in Nat
  BY RentingAssumption DEF Init, Listing
<1>3. OffersTypeOK
  BY OffersAssumption DEF Init, OffersInit, OffersTypeOK, Nothing, Amounts
<1> QED
  BY <1>1, <1>2, <1>3 DEF Init, TypeInv, RentingTypeOK

LEMMA AlwaysTyped == Spec => []TypeInv
BY TypeStart, TypeStep, PTL DEF Spec

\* Whatever the cases and whatever else is waited for: no provider is asked beyond
\* its batch, what create() has to try is listed for the pool, a pod is tried and runs
\* only on a machine it was routed to a pool for, and a machine is of a known flavor.
THEOREM RentingTyped == Spec => []RentingTypeOK
<1>1. TypeInv => RentingTypeOK
  BY DEF TypeInv
<1> QED
  BY <1>1, AlwaysTyped, PTL

-----------------------------------------------------------------------------
(* The machine holds the pod.                                              *)

Request(i) == pod.init[i].request

\* What is tried holds what it is for, and so does what the pod was rented.
FitInv ==
  /\ phase = "try" /\ ~NoShapes => \A o \in trying : Holds(FlavorAt(o), slot)
  /\ machine # None =>
       /\ phase \notin {"read", "place", "size"}
       /\ ~NoShapes => Holds(machine, Q!PodRequests)

LEMMA AskFits == ASSUME ~NoShapes, NEW k PROVE \A o \in Flavors(k) : Holds(FlavorAt(o), slot)
<1> SUFFICES ASSUME NEW o \in Flavors(k) PROVE Holds(FlavorAt(o), slot)
  OBVIOUS
<1>1. PICK i \in SameProvider(k) : o \in {i} \X Candidates(i, slot)
  BY DEF Flavors
<1>2. o[1] = i /\ o[2] \in Candidates(i, slot)
  BY <1>1
<1> QED
  BY <1>2 DEF Candidates, FlavorAt

LEMMA FitStep == ASSUME TypeInv, FitInv, [Next]_vars PROVE FitInv'
<1>0. UNCHANGED pod /\ Q!PodRequests' = Q!PodRequests
  <2>1. UNCHANGED pod
    BY RoutingSteps DEF RoutingStep, R!Route, R!Try, routing
  <2> QED
    BY <2>1 DEF Q!PodRequests, Q!InitRequests
<1>1. ASSUME UNCHANGED <<startup, slot>>
      PROVE  /\ NoShapes' <=> NoShapes
             /\ \A o : FlavorAt(o)' = FlavorAt(o) /\ (Holds(FlavorAt(o), slot)' <=> Holds(FlavorAt(o), slot))
             /\ \A f : Holds(f, Q!PodRequests)' <=> Holds(f, Q!PodRequests)
  BY <1>0, <1>1 DEF startup, NoShapes, Entries, Shapes, FlavorAt, Holds, List
<1>2. ASSUME UNCHANGED startup PROVE NoShapes' <=> NoShapes
  BY <1>2 DEF startup, NoShapes, Entries, Shapes, List
<1>3. \A f : Holds(f, Q!PodRequests)' <=> Holds(f, Q!PodRequests)
  BY <1>0 DEF Holds
<1>4. phase' = "try" /\ ~NoShapes' => \A o \in trying' : Holds(FlavorAt(o), slot)'
  <2>1. CASE Ask
    <3>1. UNCHANGED <<startup, slot>> /\ trying' = Flavors(next)
      BY <2>1 DEF Ask
    <3> QED
      BY <1>1, <3>1, AskFits
  <2>2. CASE OutOfStock
    <3>1. UNCHANGED <<startup, slot, phase>> /\ trying' \subseteq trying /\ phase = "try"
      BY <2>2 DEF OutOfStock
    <3> QED
      BY <1>1, <3>1 DEF FitInv
  <2>3. CASE UNCHANGED offers
    <3>1. UNCHANGED <<startup, slot, phase, trying>>
      BY <2>3 DEF offers
    <3> QED
      BY <1>1, <3>1 DEF FitInv
  <2>4. CASE ~Ask /\ ~OutOfStock /\ ~UNCHANGED offers
    <3>1. phase' # "try"
      BY <2>4, OfferSteps DEF OfferStep, ReadFile, Place, SizeEntry, NextPhase, StartPass,
         StartSlot, EndPass, PassOver, NothingToRent, Rents, QuotaReached, NoCapacity, Raises
    <3> QED
      BY <3>1
  <2> QED
    BY <2>1, <2>2, <2>3, <2>4
<1>5. machine' # None =>
        /\ phase' \notin {"read", "place", "size"}
        /\ ~NoShapes' => Holds(machine, Q!PodRequests)'
  <2>1. CASE Start
    <3>1. UNCHANGED machine /\ machine = None
      BY <2>1 DEF Start, Starts, ReadFile, Place, SizeEntry, NextPhase, FitInv, kubelet
    <3> QED
      BY <3>1
  <2>2. CASE machine = None /\ Pass
    <3> SUFFICES ASSUME machine' # None
                 PROVE  /\ phase' \notin {"read", "place", "size"}
                        /\ ~NoShapes' => Holds(machine, Q!PodRequests)'
      OBVIOUS
    <3>1. Rents /\ ForPod /\ machine' = rented'[2]
      BY <2>2 DEF Pass, Observe, ScaleUp
    <3>2. PICK o \in trying : rented' = Offer(o)
      BY <3>1 DEF Rents
    <3>3. phase = "try" /\ phase' = "settled" /\ UNCHANGED startup /\ machine' = FlavorAt(o)
      BY <3>1, <3>2 DEF Rents, Offer
    <3>4. ~NoShapes => Holds(FlavorAt(o), Q!PodRequests)
      BY <3>1, <3>3 DEF FitInv, ForPod
    <3>5. ~NoShapes => \A d \in Dims : Q!PodRequests[d] <= Size[machine'][d]
      BY <3>3, <3>4 DEF Holds
    <3>6. ~NoShapes' => Holds(machine, Q!PodRequests)'
      BY <1>0, <1>2, <3>3, <3>5 DEF Holds
    <3> QED
      BY <3>3, <3>6
  <2>3. CASE Schedule \/ Run \/ UNCHANGED vars
    <3>1. UNCHANGED <<offers, machine>>
      BY <2>3 DEF Schedule, Run, vars
    <3>2. UNCHANGED <<startup, phase, slot, machine>>
      BY <3>1 DEF offers
    <3>3. Holds(machine, Q!PodRequests) => Holds(machine, Q!PodRequests)'
      BY <1>0, <3>2 DEF Holds
    <3> QED
      BY <1>2, <3>2, <3>3 DEF FitInv
  <2> QED
    BY <2>1, <2>2, <2>3 DEF Next
<1> QED
  BY <1>4, <1>5 DEF FitInv

\* How far the pod has come, and the most it has held.
PeakInv ==
  /\ runs \in {"nothing", "init", "app"}
  /\ runs = "init" => started # 0
  /\ runs = "app" => started = Len(pod.init)
  /\ peak \in Amounts
  /\ \A d \in Dims :
       /\ pod.overhead[d] <= peak[d]
       /\ \A i \in 1 .. started : pod.overhead[d] + Request(i)[d] <= peak[d]
       /\ runs = "app" => pod.overhead[d] + Q!Total(pod.app)[d] <= peak[d]
       /\ \/ peak[d] = pod.overhead[d]
          \/ \E i \in 1 .. started : peak[d] = pod.overhead[d] + Request(i)[d]
          \/ runs = "app" /\ peak[d] = pod.overhead[d] + Q!Total(pod.app)[d]

\* The pod's parts are vectors, and there are no sidecars beside them.
LEMMA Parts ==
  ASSUME NoSidecars, TypeInv
  PROVE  /\ DOMAIN pod.init = 1 .. Len(pod.init) /\ Len(pod.init) \in Nat
         /\ pod.overhead \in Amounts /\ Q!Total(pod.app) \in Amounts
         /\ \A i \in DOMAIN pod.init : Request(i) \in Amounts
         /\ started \in 0 .. Len(pod.init)
         /\ \A k \in 0 .. Len(pod.init) : Q!Beside(k) = Q!Nothing
<1>1. /\ DOMAIN pod.init = 1 .. Len(pod.init) /\ Len(pod.init) \in Nat
      /\ \A i \in DOMAIN pod.init : pod.init[i].request \in Amounts /\ ~pod.init[i].always
  BY RentingAssumption DEF NoSidecars, TypeInv, RoutedInv, Listing
<1>2. ASSUME NEW k \in 0 .. Len(pod.init) PROVE Q!Beside(k) = Q!Nothing
  <2> DEFINE vs == [i \in 1 .. k |-> IF pod.init[i].always THEN pod.init[i].request ELSE Q!Nothing]
  <2>1. \A i \in DOMAIN vs : vs[i] = Q!Nothing
    BY <1>1
  <2>2. IsFiniteSet(DOMAIN vs) /\ Q!Nothing \in Amounts
    BY <1>1, Counted DEF Q!Nothing, Amounts
  <2> HIDE DEF vs
  <2>3. Q!Total(vs) = Q!Nothing
    BY <2>1, <2>2, TotalOf
  <2> QED
    BY <2>3 DEF Q!Beside, vs
<1> QED
  BY <1>1, <1>2, Requested DEF TypeInv, RentingTypeOK, Request

\* What a pod holds that has started this many init containers.
LEMMA HoldsWhat ==
  ASSUME NoSidecars, TypeInv, PeakInv
  PROVE  /\ Q!Holds \in Amounts
         /\ \A d \in Dims :
              /\ runs = "init" => Q!Holds[d] = pod.overhead[d] + Request(started)[d]
              /\ runs = "app" => Q!Holds[d] = pod.overhead[d] + Q!Total(pod.app)[d]
              /\ runs = "nothing" => Q!Holds[d] = pod.overhead[d]
<1>1. /\ runs = "init" => started \in DOMAIN pod.init /\ started - 1 \in 0 .. Len(pod.init)
      /\ started \in 0 .. Len(pod.init)
  BY Parts DEF PeakInv
<1>2. CASE runs = "init"
  <2>1. Q!Holds = Q!Plus(pod.overhead, Q!Plus(Q!Nothing, Request(started)))
    BY <1>1, <1>2, Parts DEF Q!Holds, Request
  <2>2. Request(started) \in Amounts /\ pod.overhead \in Amounts
    BY <1>1, <1>2, Parts
  <2> HIDE DEF Request
  <2> QED
    BY <1>2, <2>1, <2>2 DEF Q!Plus, Q!Nothing, Amounts
<1>3. CASE runs = "app"
  <2>1. Q!Holds = Q!Plus(pod.overhead, Q!Plus(Q!Nothing, Q!Total(pod.app)))
    BY <1>1, <1>3, Parts DEF Q!Holds
  <2> QED
    BY <1>3, <2>1, Parts DEF Q!Plus, Q!Nothing, Amounts
<1>4. CASE runs = "nothing"
  <2>1. Q!Holds = Q!Plus(pod.overhead, Q!Nothing)
    BY <1>1, <1>4, Parts DEF Q!Holds
  <2> QED
    BY <1>4, <2>1, Parts DEF Q!Plus, Q!Nothing, Amounts
<1> QED
  BY <1>2, <1>3, <1>4 DEF PeakInv

\* The pod and its vectors stay as they are while it runs.
LEMMA PodKept ==
  ASSUME [Next]_vars
  PROVE  /\ pod' = pod /\ Q!PodRequests' = Q!PodRequests
         /\ Q!Total(pod.app)' = Q!Total(pod.app)
         /\ \A k : Q!Beside(k)' = Q!Beside(k)
<1>1. pod' = pod
  BY RoutingSteps DEF RoutingStep, R!Route, R!Try, routing
<1> QED
  BY <1>1 DEF Q!PodRequests, Q!InitRequests, Q!Beside

\* What it holds right after the next container, or all of the last ones, started.
LEMMA HoldsNext ==
  ASSUME NoSidecars, TypeInv, PeakInv, [Next]_vars
  PROVE  /\ Q!StartInit => \A d \in Dims : Q!Holds'[d] = pod.overhead[d] + Request(started + 1)[d]
         /\ Q!StartContainers =>
              \A d \in Dims : Q!Holds'[d] = pod.overhead[d] + Q!Total(pod.app)[d]
<1>1. CASE Q!StartInit
  <2>1. /\ started' = started + 1 /\ runs' = "init"
        /\ started + 1 \in DOMAIN pod.init /\ started \in 0 .. Len(pod.init)
        /\ started' - 1 = started
    BY <1>1, Parts DEF Q!StartInit
  <2>2. Q!Holds' = Q!Plus(pod.overhead', Q!Plus(Q!Beside(started - 1)', pod.init[started]'.request))
    BY <2>1 DEF Q!Holds
  <2>3. Q!Beside(started - 1)' = Q!Nothing
    <3>1. PICK k \in 0 .. Len(pod.init) : k = started' - 1
      BY <2>1
    <3>2. Q!Beside(k)' = Q!Nothing
      BY PodKept, Parts
    <3> QED
      BY <3>1, <3>2 DEF Q!Beside
  <2>4. Q!Holds' = Q!Plus(pod.overhead, Q!Plus(Q!Nothing, Request(started + 1)))
    BY <2>1, <2>2, <2>3, PodKept DEF Request
  <2>5. Request(started + 1) \in Amounts /\ pod.overhead \in Amounts
    BY <2>1, Parts
  <2> HIDE DEF Request
  <2> QED
    BY <1>1, <2>4, <2>5 DEF Q!Plus, Q!Nothing, Amounts, Q!StartContainers, Q!StartInit
<1>2. CASE Q!StartContainers
  <2>1. /\ started' = started /\ runs' = "app" /\ started \in 0 .. Len(pod.init)
    BY <1>2, Parts DEF Q!StartContainers
  <2>2. Q!Holds' = Q!Plus(pod.overhead', Q!Plus(Q!Beside(started)', Q!Total(pod.app)'))
    BY <2>1 DEF Q!Holds
  <2>3. Q!Beside(started)' = Q!Nothing
    <3>1. PICK k \in 0 .. Len(pod.init) : k = started'
      BY <2>1
    <3>2. Q!Beside(k)' = Q!Nothing
      BY PodKept, Parts
    <3> QED
      BY <3>1, <3>2 DEF Q!Beside
  <2>4. Q!Holds' = Q!Plus(pod.overhead, Q!Plus(Q!Nothing, Q!Total(pod.app)))
    BY <2>2, <2>3, PodKept
  <2> QED
    BY <1>2, <2>1, <2>4, Parts DEF Q!Plus, Q!Nothing, Amounts, Q!StartInit
<1> QED
  BY <1>1, <1>2

LEMMA PeakStep == ASSUME NoSidecars, TypeInv, PeakInv, [Next]_vars PROVE PeakInv'
<1>1. pod' = pod /\ Q!Total(pod.app)' = Q!Total(pod.app)
  BY PodKept
<1>2. CASE UNCHANGED kubelet
  BY <1>1, <1>2 DEF PeakInv, kubelet, Request
<1>3. CASE Q!StartInit
  <2>1. /\ started' = started + 1 /\ runs' = "init" /\ runs = "nothing"
        /\ started + 1 \in DOMAIN pod.init /\ started \in 0 .. Len(pod.init)
        /\ peak' = Q!ElementwiseMax(peak, Q!Holds')
    BY <1>3, Parts DEF Q!StartInit
  <2>2. \A d \in Dims : Q!Holds'[d] = pod.overhead[d] + Request(started + 1)[d]
    BY <1>3, HoldsNext
  <2>3. \A d \in Dims : peak'[d] = IF peak[d] < pod.overhead[d] + Request(started + 1)[d]
                                   THEN pod.overhead[d] + Request(started + 1)[d] ELSE peak[d]
    BY <2>1, <2>2 DEF Q!ElementwiseMax
  <2>4. /\ Request(started + 1) \in Amounts /\ pod.overhead \in Amounts /\ peak \in Amounts
        /\ \A i \in 1 .. started : Request(i) \in Amounts
    BY <2>1, Parts DEF PeakInv
  <2>5. peak' \in Amounts
    <3>1. peak' = [d \in Dims |-> peak'[d]]
      BY <2>1 DEF Q!ElementwiseMax
    <3>2. \A d \in Dims : peak'[d] \in Nat
      BY <2>3, <2>4 DEF Amounts
    <3> QED
      BY <3>1, <3>2 DEF Amounts
  <2>6. \A i : Request(i)' = Request(i)
    BY <1>1 DEF Request
  <2>7. 1 .. started' = (1 .. started) \cup {started + 1}
    BY <2>1
  <2>8. ASSUME NEW d \in Dims
        PROVE  /\ pod.overhead[d] <= peak'[d]
               /\ \A i \in 1 .. started' : pod.overhead[d] + Request(i)[d] <= peak'[d]
               /\ \/ peak'[d] = pod.overhead[d]
                  \/ \E i \in 1 .. started' : peak'[d] = pod.overhead[d] + Request(i)[d]
    <3> DEFINE more == pod.overhead[d] + Request(started + 1)[d]
    <3>1. pod.overhead[d] \in Nat /\ peak[d] \in Nat /\ more \in Nat
      BY <2>4 DEF Amounts
    <3>2. peak'[d] = IF peak[d] < more THEN more ELSE peak[d]
      BY <2>3
    <3>3. peak[d] <= peak'[d] /\ more <= peak'[d] /\ peak'[d] \in {peak[d], more}
      <4> HIDE DEF more
      <4> QED
        BY <3>1, <3>2
    <3>4. pod.overhead[d] <= peak'[d]
      BY <3>1, <3>3, <2>5 DEF PeakInv, Amounts
    <3>5. ASSUME NEW i \in 1 .. started' PROVE pod.overhead[d] + Request(i)[d] <= peak'[d]
      <4>1. CASE i = started + 1
        BY <3>3, <4>1
      <4>2. CASE i \in 1 .. started
        <5>1. pod.overhead[d] + Request(i)[d] <= peak[d] /\ pod.overhead[d] + Request(i)[d] \in Nat
          BY <4>2, <2>4 DEF PeakInv, Amounts
        <5>2. peak'[d] \in Nat
          BY <2>5 DEF Amounts
        <5> HIDE DEF more
        <5> QED
          BY <5>1, <5>2, <3>1, <3>3
      <4> QED
        BY <2>7, <4>1, <4>2
    <3>6. \/ peak'[d] = pod.overhead[d]
          \/ \E i \in 1 .. started' : peak'[d] = pod.overhead[d] + Request(i)[d]
      <4>1. CASE peak'[d] = more
        BY <2>7, <4>1
      <4>2. CASE peak'[d] = peak[d]
        BY <2>1, <2>7, <4>2 DEF PeakInv
      <4> QED
        BY <3>3, <4>1, <4>2
    <3> QED
      BY <3>4, <3>5, <3>6
  <2>9. started' # 0
    BY <2>1
  <2> HIDE DEF Request
  <2> QED
    BY <1>1, <2>1, <2>5, <2>6, <2>8, <2>9 DEF PeakInv
<1>4. CASE Q!InitDone
  BY <1>1, <1>4 DEF Q!InitDone, PeakInv, Request
<1>5. CASE Q!StartContainers
  <2>1. /\ started' = started /\ runs' = "app" /\ runs = "nothing" /\ started = Len(pod.init)
        /\ peak' = Q!ElementwiseMax(peak, Q!Holds')
    BY <1>5 DEF Q!StartContainers
  <2>2. \A d \in Dims : Q!Holds'[d] = pod.overhead[d] + Q!Total(pod.app)[d]
    BY <1>5, HoldsNext
  <2>3. \A d \in Dims : peak'[d] = IF peak[d] < pod.overhead[d] + Q!Total(pod.app)[d]
                                   THEN pod.overhead[d] + Q!Total(pod.app)[d] ELSE peak[d]
    BY <2>1, <2>2 DEF Q!ElementwiseMax
  <2>4. /\ Q!Total(pod.app) \in Amounts /\ pod.overhead \in Amounts /\ peak \in Amounts
        /\ \A i \in 1 .. started : Request(i) \in Amounts
    BY <2>1, Parts DEF PeakInv
  <2>5. peak' \in Amounts
    <3>1. peak' = [d \in Dims |-> peak'[d]]
      BY <2>1 DEF Q!ElementwiseMax
    <3>2. \A d \in Dims : peak'[d] \in Nat
      BY <2>3, <2>4 DEF Amounts
    <3> QED
      BY <3>1, <3>2 DEF Amounts
  <2>6. \A i : Request(i)' = Request(i)
    BY <1>1 DEF Request
  <2>7. ASSUME NEW d \in Dims
        PROVE  /\ pod.overhead[d] <= peak'[d]
               /\ \A i \in 1 .. started : pod.overhead[d] + Request(i)[d] <= peak'[d]
               /\ pod.overhead[d] + Q!Total(pod.app)[d] <= peak'[d]
               /\ \/ peak'[d] = pod.overhead[d]
                  \/ \E i \in 1 .. started : peak'[d] = pod.overhead[d] + Request(i)[d]
                  \/ peak'[d] = pod.overhead[d] + Q!Total(pod.app)[d]
    <3> DEFINE more == pod.overhead[d] + Q!Total(pod.app)[d]
    <3>1. pod.overhead[d] \in Nat /\ peak[d] \in Nat /\ more \in Nat /\ peak'[d] \in Nat
      BY <2>4, <2>5 DEF Amounts
    <3>2. peak'[d] = IF peak[d] < more THEN more ELSE peak[d]
      BY <2>3
    <3>3. peak[d] <= peak'[d] /\ more <= peak'[d] /\ peak'[d] \in {peak[d], more}
      <4> HIDE DEF more
      <4> QED
        BY <3>1, <3>2
    <3>4. \A i \in 1 .. started : pod.overhead[d] + Request(i)[d] \in Nat
      BY <2>4 DEF Amounts
    <3> HIDE DEF Request
    <3> QED
      BY <2>1, <3>1, <3>3, <3>4 DEF PeakInv
  <2> HIDE DEF Request
  <2> QED
    BY <1>1, <2>1, <2>5, <2>6, <2>7 DEF PeakInv
<1> QED
  <2>1. UNCHANGED kubelet \/ Q!Runs
    BY DEF Next, vars, Start, Pass, Observe, Schedule, Run
  <2> QED
    BY <1>2, <1>3, <1>4, <1>5, <2>1 DEF Q!Runs

LEMMA RunStart == ASSUME NoSidecars, Init PROVE FitInv /\ PeakInv
<1>1. pod.overhead \in Amounts
  BY TypeStart, Requested DEF TypeInv
<1>2. FitInv
  BY DEF Init, OffersInit, FitInv
<1>3. /\ runs = "nothing" /\ started = 0 /\ peak = pod.overhead
  BY DEF Init
<1> QED
  BY <1>1, <1>2, <1>3 DEF PeakInv, Amounts

LEMMA AlwaysFits == ASSUME NoSidecars PROVE Spec => [](TypeInv /\ FitInv /\ PeakInv)
<1>1. Init => FitInv /\ PeakInv
  BY RunStart
<1>2. TypeInv /\ FitInv /\ PeakInv /\ [Next]_vars => FitInv' /\ PeakInv'
  BY FitStep, PeakStep
<1> QED
  BY <1>1, <1>2, AlwaysTyped, PTL DEF Spec

\* The machine a pod is rented holds what the pod holds, from its first init
\* container to the last of its containers: pod_requests takes the biggest init
\* container in each dimension, which is enough while none of them stays up.
THEOREM HoldsFromFirstToLast == ASSUME NoSidecars PROVE Spec => []HoldsThroughout
<1>1. TypeInv /\ FitInv /\ PeakInv => HoldsThroughout
  <2> SUFFICES ASSUME TypeInv, FitInv, PeakInv, step = "bound", ~NoShapes, NEW d \in Dims
               PROVE  Q!Holds[d] <= Size[machine][d]
    BY DEF HoldsThroughout
  <2>1. machine # None /\ machine \in DOMAIN Size
    BY DEF TypeInv, RentingTypeOK
  <2>2. Q!PodRequests[d] <= Size[machine][d]
    BY <2>1 DEF FitInv, Holds
  <2>3. Size[machine][d] \in Nat
    BY <2>1, OffersAssumption DEF Amounts
  <2>4. RoutedInv
    BY DEF TypeInv
  <2>5. /\ Q!PodRequests[d] \in Nat /\ Q!Total(pod.app)[d] \in Nat /\ pod.overhead[d] \in Nat
        /\ Q!InitRequests[d] \in Nat
    BY <2>4, Requested DEF Amounts
  <2>6. Q!PodRequests[d] = (IF Q!Total(pod.app)[d] < Q!InitRequests[d] THEN Q!InitRequests[d]
                            ELSE Q!Total(pod.app)[d]) + pod.overhead[d]
    BY <2>4, Requested
  <2>7. Q!Holds[d] \in Nat
    BY HoldsWhat DEF Amounts
  <2>8. CASE runs = "init"
    <3>1. started \in DOMAIN pod.init
      BY <2>8, Parts DEF PeakInv
    <3>2. Request(started)[d] <= Q!InitRequests[d]
      BY <3>1, <2>4, Requested DEF Request
    <3>3. Request(started)[d] \in Nat
      BY <3>1, Parts DEF Amounts
    <3>4. Q!Holds[d] = pod.overhead[d] + Request(started)[d]
      BY <2>8, HoldsWhat
    <3> HIDE DEF Request
    <3> QED
      BY <3>2, <3>3, <3>4, <2>2, <2>3, <2>5, <2>6
  <2>9. CASE runs = "app"
    <3>1. Q!Holds[d] = pod.overhead[d] + Q!Total(pod.app)[d]
      BY <2>9, HoldsWhat
    <3> QED
      BY <3>1, <2>2, <2>3, <2>5, <2>6
  <2>10. CASE runs = "nothing"
    <3>1. Q!Holds[d] = pod.overhead[d]
      BY <2>10, HoldsWhat
    <3> QED
      BY <3>1, <2>2, <2>3, <2>5, <2>6
  <2> QED
    BY <2>8, <2>9, <2>10 DEF PeakInv
<1> QED
  BY <1>1, AlwaysFits, PTL

\* And no more than that is asked for: by the time its containers run the pod has
\* held, in each dimension, all that pod_requests counted.
THEOREM AsksForNoMore == ASSUME NoSidecars PROVE Spec => []NothingToSpare
<1>1. TypeInv /\ PeakInv => NothingToSpare
  <2> SUFFICES ASSUME TypeInv, PeakInv, runs = "app" PROVE Q!PodRequests = peak
    BY DEF NothingToSpare
  <2>1. RoutedInv
    BY DEF TypeInv
  <2>2. Q!PodRequests \in Amounts /\ peak \in Amounts
    BY <2>1, Requested DEF PeakInv
  <2>3. ASSUME NEW d \in Dims PROVE Q!PodRequests[d] = peak[d]
    <3>1. /\ Q!PodRequests[d] \in Nat /\ Q!Total(pod.app)[d] \in Nat /\ pod.overhead[d] \in Nat
          /\ Q!InitRequests[d] \in Nat /\ peak[d] \in Nat
      BY <2>1, Requested DEF Amounts, PeakInv
    <3>2. Q!PodRequests[d] = (IF Q!Total(pod.app)[d] < Q!InitRequests[d] THEN Q!InitRequests[d]
                              ELSE Q!Total(pod.app)[d]) + pod.overhead[d]
      BY <2>1, Requested
    <3>3. started = Len(pod.init) /\ DOMAIN pod.init = 1 .. started
      BY Parts DEF PeakInv
    <3>4. \A i \in 1 .. started : Request(i)[d] <= Q!InitRequests[d] /\ Request(i)[d] \in Nat
      BY <3>3, <2>1, Requested, Parts DEF Request, Amounts
    <3>5. Q!InitRequests[d] = 0 \/ \E i \in 1 .. started : Q!InitRequests[d] = Request(i)[d]
      BY <3>3, <2>1, Requested DEF Request
    <3>6. /\ pod.overhead[d] <= peak[d]
          /\ \A i \in 1 .. started : pod.overhead[d] + Request(i)[d] <= peak[d]
          /\ pod.overhead[d] + Q!Total(pod.app)[d] <= peak[d]
          /\ \/ peak[d] = pod.overhead[d]
             \/ \E i \in 1 .. started : peak[d] = pod.overhead[d] + Request(i)[d]
             \/ peak[d] = pod.overhead[d] + Q!Total(pod.app)[d]
      BY DEF PeakInv
    <3> HIDE DEF Request
    <3>7. pod.overhead[d] + Q!InitRequests[d] <= peak[d]
      BY <3>1, <3>5, <3>6
    <3>8. peak[d] <= Q!PodRequests[d]
      BY <3>1, <3>2, <3>4, <3>6
    <3> QED
      BY <3>1, <3>2, <3>6, <3>7, <3>8
  <2> QED
    BY <2>2, <2>3 DEF Amounts
<1> QED
  BY <1>1, AlwaysFits, PTL
=============================================================================
