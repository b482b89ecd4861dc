--------------------------- MODULE SizingProofs ---------------------------
(***************************************************************************)
(* What a plan guarantees for any number of pods, machines, flavors and    *)
(* dimensions: no bin overflows, none is rented in vain, the plan ends     *)
(* with every pod handled, and what it rents is a first-fit-decreasing     *)
(* packing, which is compared with every other assignment of pods to       *)
(* machines.  And of the passes that plan and rent one after the other:    *)
(* what an earlier one has rented for a pod counts as room for it, until   *)
(* another pod takes it.                                                   *)
(***************************************************************************)
EXTENDS Sizing, FoldProofs

PackingInv == PackingTypeOK /\ NoBinOverflows /\ NoneInVain

-----------------------------------------------------------------------------
(* Vectors.                                                                *)

\* Arithmetic keeps the dimensions.
LEMMA VectorAlgebra ==
  ASSUME NEW v \in Amounts, NEW w \in Amounts
  PROVE  /\ Plus(v, w) \in Amounts
         /\ Minus(v, w) \in Vector
         /\ Nothing \in Amounts
BY DEF Amounts, Vector, Plus, Minus, Nothing

\* What fits, by resources.py's reading of a complete vector, leaves nothing
\* negative behind.
LEMMA RoomLeft ==
  ASSUME NEW v \in Amounts, NEW room \in Amounts, FitsIn(v, room, FALSE)
  PROVE  Minus(room, v) \in Amounts
BY DEF Amounts, Minus, FitsIn, Keys

\* A pod that has no room has none either once another pod took some of it.
LEMMA RoomShrinks ==
  ASSUME NEW v \in Amounts, NEW w \in Amounts, NEW room \in Amounts,
         FitsIn(w, room, FALSE), ~FitsIn(v, room, FALSE)
  PROVE  ~FitsIn(v, Minus(room, w), FALSE)
BY DEF Amounts, Minus, FitsIn, Keys

\* A bin that takes what fits what it has left does not overflow.
LEMMA BinTakes ==
  ASSUME NEW v \in Amounts, NEW used \in Amounts, NEW whole \in Amounts,
         Fits(used, whole, Keys(whole)),
         Fits(v, Minus(whole, used), Keys(whole))
  PROVE  Fits(Plus(used, v), whole, Keys(whole))
<1> SUFFICES ASSUME NEW d \in Dims, whole[d] # 0
             PROVE  used[d] + v[d] <= whole[d]
  BY DEF Fits, Keys, Plus, Amounts
<1>1. used[d] \in Nat /\ v[d] \in Nat /\ whole[d] \in Nat
  BY DEF Amounts
<1>2. Minus(whole, used)[d] = whole[d] - used[d]
  BY DEF Minus
<1>3. used[d] <= whole[d]
  BY <1>1 DEF Fits, Keys
<1>4. v[d] <= whole[d] - used[d]
  BY <1>1, <1>2, <1>3 DEF Fits, Keys
<1> QED
  BY <1>1, <1>4

\* What a bin refused it refuses when it holds more.
LEMMA BinShrinks ==
  ASSUME NEW v \in Amounts, NEW w \in Amounts, NEW used \in Amounts,
         NEW whole \in Amounts, ~Fits(v, Minus(whole, used), Keys(whole))
  PROVE  ~Fits(v, Minus(whole, Plus(used, w)), Keys(whole))
BY DEF Amounts, Minus, Plus, Fits, Keys

-----------------------------------------------------------------------------
(* The state.                                                              *)

\* What the invariant says of one bin and of one running machine.
LEMMA BinTypes ==
  ASSUME PackingTypeOK, NEW b \in DOMAIN bins
  PROVE  /\ b \in 1 .. Len(bins)
         /\ bins[b].used \in Amounts
         /\ Shape(b) \in Amounts
         /\ opener[b] \in Pods /\ want[opener[b]] \in Amounts
<1>1. bins[b] \in Bins /\ bins[b].flavor \in DOMAIN shapes \cup {NoFlavor}
  BY DEF PackingTypeOK
<1>2. shapes \in Seq(Amounts)
  BY PackingAssumption DEF PackingTypeOK
<1>3. Nothing \in Amounts
  BY DEF Nothing, Amounts
<1>4. Shape(b) \in Amounts
  BY <1>1, <1>2, <1>3 DEF Shape
<1>5. b \in 1 .. Len(bins) /\ opener[b] \in Pods
  BY DEF PackingTypeOK
<1> QED
  BY <1>1, <1>4, <1>5, PackingAssumption DEF PackingTypeOK, Bins

LEMMA InitialInv == PackingInit => PackingInv
<1> SUFFICES ASSUME PackingInit PROVE PackingInv
  OBVIOUS
<1>1. free \in Seq(Amounts)
  BY PackingAssumption DEF PackingInit, FreeLists
<1>2. PackingTypeOK
  BY <1>1 DEF PackingInit, PackingTypeOK
<1>3. NoBinOverflows /\ NoneInVain
  BY DEF PackingInit, NoBinOverflows, NoneInVain
<1> QED
  BY <1>2, <1>3 DEF PackingInv

\* The head of the list is one of the pods, with a request that is a vector.
LEMMA HeadIsPod ==
  ASSUME PackingTypeOK, NEW i \in MostAwkward
  PROVE  i \in Pods /\ want[i] \in Amounts
BY PackingAssumption DEF MostAwkward, PackingTypeOK

LEMMA ReportKeeps ==
  ASSUME PackingInv, NEW i \in MostAwkward, ReportNeverFits(i)
  PROVE  PackingInv'
<1> USE DEF ReportNeverFits, Handled
<1>1. PackingTypeOK'
  BY HeadIsPod DEF PackingInv, PackingTypeOK
<1>2. NoBinOverflows'
  BY DEF PackingInv, NoBinOverflows, Shape, Measured
<1>3. NoneInVain'
  BY DEF PackingInv, NoneInVain, Shape, Measured, Remaining
<1> QED
  BY <1>1, <1>2, <1>3 DEF PackingInv

LEMMA ExistingKeeps ==
  ASSUME PackingInv, NEW i \in MostAwkward, PlaceOnExisting(i)
  PROVE  PackingInv'
<1>1. PICK k \in DOMAIN free :
        k \in WithRoom(i) /\ free' = [free EXCEPT ![k] = Minus(@, want[i])]
  BY DEF PlaceOnExisting, IsFirst
<1>2. i \in Pods /\ want[i] \in Amounts /\ free[k] \in Amounts
  BY HeadIsPod DEF PackingInv, PackingTypeOK
<1>3. FitsIn(want[i], free[k], FALSE)
  BY <1>1 DEF WithRoom
<1>4. Minus(free[k], want[i]) \in Amounts
  BY <1>2, <1>3, RoomLeft
<1>5. UNCHANGED <<want, shapes, bins, opener, neverFits>> /\ DOMAIN free' = DOMAIN free
  BY <1>1 DEF PlaceOnExisting, Handled
<1>6. PackingTypeOK'
  <2>1. free' \in Seq(Amounts)
    BY <1>1, <1>4 DEF PackingInv, PackingTypeOK
  <2> QED
    BY <1>2, <1>5, <2>1 DEF PackingInv, PackingTypeOK, PlaceOnExisting, Handled
<1>7. NoBinOverflows'
  BY <1>5 DEF PackingInv, NoBinOverflows, Shape, Measured
<1>8. NoneInVain'
  <2> SUFFICES ASSUME NEW b \in DOMAIN bins, NEW j \in DOMAIN free
               PROVE  ~FitsIn(want[opener[b]], free'[j], FALSE)
    BY <1>5 DEF PackingInv, NoneInVain, Shape, Measured, Remaining
  <2>1. ~FitsIn(want[opener[b]], free[j], FALSE)
    BY DEF PackingInv, NoneInVain
  <2>2. CASE j = k
    <3>1. want[opener[b]] \in Amounts
      BY BinTypes DEF PackingInv
    <3>2. free'[j] = Minus(free[k], want[i])
      BY <1>1, <2>2 DEF PackingInv, PackingTypeOK
    <3> QED
      BY <1>2, <1>3, <2>1, <2>2, <3>1, <3>2, RoomShrinks
  <2>3. CASE j # k
    BY <1>1, <2>1, <2>3 DEF PackingInv, PackingTypeOK
  <2> QED
    BY <2>2, <2>3
<1> QED
  BY <1>6, <1>7, <1>8 DEF PackingInv

LEMMA InBinKeeps ==
  ASSUME PackingInv, NEW i \in MostAwkward, PlaceInBin(i)
  PROVE  PackingInv'
<1>1. PICK b \in DOMAIN bins :
        b \in BinsWithRoom(i) /\ bins' = [bins EXCEPT ![b].used = Plus(@, want[i])]
  BY DEF PlaceInBin, IsFirst
<1>2. /\ i \in Pods /\ want[i] \in Amounts
      /\ Shape(b) \in Amounts /\ bins[b].used \in Amounts
  BY HeadIsPod, BinTypes DEF PackingInv
<1>3. UNCHANGED <<want, shapes, free, opener, neverFits, placed>>
  BY DEF PlaceInBin, Handled
<1>4. Plus(bins[b].used, want[i]) \in Amounts
  BY <1>2, VectorAlgebra
<1>5. /\ bins \in Seq(Bins) /\ bins' \in Seq(Bins)
      /\ DOMAIN bins' = DOMAIN bins /\ Len(bins') = Len(bins)
  <2> DEFINE fuller == [bins[b] EXCEPT !.used = Plus(@, want[i])]
  <2>1. bins \in Seq(Bins) /\ bins[b] \in Bins
    BY DEF PackingInv, PackingTypeOK
  <2>2. fuller \in Bins
    BY <1>4, <2>1 DEF Bins
  <2>3. bins' = [bins EXCEPT ![b] = fuller]
    BY <1>1
  <2> HIDE DEF fuller
  <2> QED
    BY <2>1, <2>2, <2>3
<1>6. \A c \in DOMAIN bins : bins'[c].flavor = bins[c].flavor
  BY <1>1, <1>5 DEF Bins
<1>7. \A c \in DOMAIN bins : Shape(c)' = Shape(c) /\ Measured(c)' = Measured(c)
  BY <1>3, <1>6 DEF Shape, Measured
<1>8. \A c \in DOMAIN bins :
        bins'[c].used = IF c = b THEN Plus(bins[b].used, want[i]) ELSE bins[c].used
  BY <1>1, <1>5 DEF Bins
<1>9. PackingTypeOK'
  BY <1>3, <1>5, <1>6 DEF PackingInv, PackingTypeOK, PlaceInBin, Handled
<1>10. NoBinOverflows'
  <2> SUFFICES ASSUME NEW c \in DOMAIN bins
               PROVE  Fits(bins'[c].used, Shape(c), Measured(c))
    BY <1>5, <1>7 DEF NoBinOverflows, Fits
  <2>1. Fits(bins[c].used, Shape(c), Measured(c))
    BY DEF PackingInv, NoBinOverflows
  <2>2. CASE c = b
    <3>1. Fits(want[i], Minus(Shape(b), bins[b].used), Keys(Shape(b)))
      BY <1>1 DEF BinsWithRoom, Remaining, Measured
    <3> QED
      BY <1>2, <1>8, <2>1, <2>2, <3>1, BinTakes DEF Measured
  <2>3. CASE c # b
    BY <1>8, <2>1, <2>3
  <2> QED
    BY <2>2, <2>3
<1>11. NoneInVain'
  <2>0. SUFFICES ASSUME NEW a \in DOMAIN bins, NEW c \in 1 .. a - 1
                 PROVE  ~Fits(want[opener[a]], Minus(Shape(c), bins'[c].used), Keys(Shape(c)))
    <3>1. \A a \in DOMAIN bins, k \in DOMAIN free :
            ~FitsIn(want[opener[a]], free[k], FALSE)
      BY DEF PackingInv, NoneInVain
    <3>2. \A a \in DOMAIN bins : 1 .. a - 1 \subseteq DOMAIN bins
      BY <1>5
    <3> QED
      BY <1>3, <1>5, <1>7, <3>1, <3>2 DEF NoneInVain, Remaining, Measured
  <2>1. c \in DOMAIN bins
    BY <1>5
  <2>2. ~Fits(want[opener[a]], Minus(Shape(c), bins[c].used), Keys(Shape(c)))
    BY DEF PackingInv, NoneInVain, Remaining, Measured
  <2>3. want[opener[a]] \in Amounts
    BY BinTypes DEF PackingInv
  <2> QED
    BY <1>2, <1>8, <2>1, <2>2, <2>3, BinShrinks
<1> QED
  BY <1>9, <1>10, <1>11 DEF PackingInv

LEMMA OpenKeeps ==
  ASSUME PackingInv, NEW i \in MostAwkward, OpenBin(i)
  PROVE  PackingInv'
<1>0. PICK n \in Nat : n = Len(bins)
  BY DEF PackingInv, PackingTypeOK
<1>1. PICK f \in DOMAIN shapes :
        /\ f \in Holding(want[i])
        /\ bins' = Append(bins, [flavor |-> f, used |-> want[i]])
  BY DEF OpenBin, IsFirst
<1>2. /\ WithRoom(i) = {} /\ BinsWithRoom(i) = {}
      /\ opener' = Append(opener, i)
      /\ UNCHANGED <<want, shapes, free, placed, neverFits>>
  BY DEF OpenBin, Handled
<1>3. i \in Pods /\ want[i] \in Amounts /\ shapes \in Seq(Amounts) /\ f \in Nat \ {0}
  BY <1>1, HeadIsPod, PackingAssumption DEF PackingInv, PackingTypeOK
<1>4. bins \in Seq(Bins) /\ opener \in Seq(Pods) /\ Len(opener) = n
  BY <1>0 DEF PackingInv, PackingTypeOK
<1>5. [flavor |-> f, used |-> want[i]] \in Bins
  BY <1>3 DEF Bins
<1>6. /\ bins' \in Seq(Bins) /\ opener' \in Seq(Pods)
      /\ Len(bins') = n + 1 /\ Len(opener') = n + 1
      /\ DOMAIN bins' = DOMAIN bins \cup {n + 1}
      /\ DOMAIN bins = 1 .. n
  BY <1>0, <1>1, <1>2, <1>3, <1>4, <1>5
<1>7. \A b \in DOMAIN bins : bins'[b] = bins[b] /\ opener'[b] = opener[b]
  BY <1>0, <1>1, <1>2, <1>3, <1>4, <1>5
<1>8. /\ bins'[n + 1].flavor = f /\ bins'[n + 1].used = want[i]
      /\ opener'[n + 1] = i
  BY <1>0, <1>1, <1>2, <1>3, <1>4, <1>5
<1>9. PackingTypeOK'
  <2>1. \A b \in DOMAIN bins' : bins'[b].flavor \in DOMAIN shapes \cup {NoFlavor}
    BY <1>6, <1>7, <1>8 DEF PackingInv, PackingTypeOK
  <2> QED
    BY <1>2, <1>6, <2>1 DEF PackingInv, PackingTypeOK, OpenBin, Handled
<1>10. \A b \in DOMAIN bins : Shape(b)' = Shape(b) /\ Measured(b)' = Measured(b)
  BY <1>2, <1>7 DEF Shape, Measured
<1>11. Shape(n + 1)' = shapes[f] /\ Measured(n + 1)' = Keys(shapes[f])
  BY <1>2, <1>3, <1>8 DEF Shape, Measured, NoFlavor
<1>12. NoBinOverflows'
  <2> SUFFICES ASSUME NEW b \in DOMAIN bins \cup {n + 1}
               PROVE  Fits(bins'[b].used, Shape(b)', Measured(b)')
    BY <1>6 DEF NoBinOverflows, Fits, Keys
  <2>1. CASE b \in DOMAIN bins
    BY <1>7, <1>10, <2>1 DEF PackingInv, NoBinOverflows
  <2>2. CASE b = n + 1
    BY <1>1, <1>8, <1>11, <2>2 DEF Holding
  <2> QED
    BY <2>1, <2>2
<1>13. NoneInVain'
  <2> DEFINE Alone(b) ==
        /\ \A k \in DOMAIN free : ~FitsIn(want[opener'[b]], free[k], FALSE)
        /\ \A c \in 1 .. b - 1 :
             ~Fits(want[opener'[b]], Minus(Shape(c), bins[c].used), Measured(c))
  <2>1. ASSUME NEW b \in DOMAIN bins PROVE Alone(b)
    BY <1>7 DEF PackingInv, NoneInVain, Remaining
  <2>2. Alone(n + 1)
    <3>1. (n + 1) - 1 = n /\ 1 .. n = DOMAIN bins
      BY <1>6
    <3>2. \A k \in DOMAIN free : ~FitsIn(want[i], free[k], FALSE)
      BY <1>2 DEF WithRoom
    <3>3. \A c \in DOMAIN bins : ~Fits(want[i], Minus(Shape(c), bins[c].used), Measured(c))
      BY <1>2 DEF BinsWithRoom, Remaining
    <3> QED
      BY <1>8, <3>1, <3>2, <3>3
  <2>3. \A b \in DOMAIN bins' : Alone(b)
    BY <1>6, <2>1, <2>2
  <2>4. \A b \in DOMAIN bins' : \A c \in 1 .. b - 1 : c \in DOMAIN bins
    BY <1>4, <1>6
  <2>5. \A b \in DOMAIN bins' : \A c \in 1 .. b - 1 :
          Minus(Shape(c), bins[c].used) = Remaining(c)'
    BY <1>7, <1>10, <2>4 DEF Remaining
  <2> QED
    BY <1>2, <1>10, <2>3, <2>4, <2>5 DEF NoneInVain
<1> QED
  BY <1>9, <1>12, <1>13 DEF PackingInv

LEMMA MeasureKeeps ==
  ASSUME PackingInv, NEW i \in MostAwkward, RentToMeasure(i)
  PROVE  PackingInv'
<1>1. /\ bins' = <<[flavor |-> NoFlavor, used |-> Nothing]>>
      /\ opener' = <<i>> /\ waiting' = {} /\ WithRoom(i) = {}
      /\ UNCHANGED <<want, shapes, free, placed, neverFits>>
  BY DEF RentToMeasure
<1>2. i \in Pods /\ want[i] \in Amounts
  BY HeadIsPod DEF PackingInv
<1>3. [flavor |-> NoFlavor, used |-> Nothing] \in Bins
  BY DEF Bins, NoFlavor, Nothing, Amounts
<1>4. /\ DOMAIN bins' = {1} /\ bins'[1].flavor = NoFlavor
      /\ bins'[1].used = Nothing /\ opener'[1] = i
  BY <1>1
<1>5. PackingTypeOK'
  BY <1>1, <1>2, <1>3, <1>4 DEF PackingInv, PackingTypeOK
<1>6. NoBinOverflows'
  BY <1>4 DEF NoBinOverflows, Fits, Keys, Nothing
<1>7. NoneInVain'
  <2>1. \A k \in DOMAIN free : ~FitsIn(want[i], free[k], FALSE)
    BY <1>1 DEF WithRoom
  <2>2. \A b \in DOMAIN bins' : opener'[b] = i /\ 1 .. b - 1 = {}
    BY <1>4
  <2> QED
    BY <1>1, <2>1, <2>2 DEF NoneInVain
<1> QED
  BY <1>5, <1>6, <1>7 DEF PackingInv

-----------------------------------------------------------------------------
\* Every step of a plan keeps all of it.
LEMMA StepKeeps == PackingInv /\ [PackingNext]_packingVars => PackingInv'
<1> SUFFICES ASSUME PackingInv, [PackingNext]_packingVars PROVE PackingInv'
  OBVIOUS
<1>1. CASE PackingNext
  BY <1>1, ReportKeeps, ExistingKeeps, InBinKeeps, OpenKeeps, MeasureKeeps
     DEF PackingNext
<1>2. CASE UNCHANGED packingVars
  BY <1>2 DEF PackingInv, PackingTypeOK, NoBinOverflows, NoneInVain,
              packingVars, plan, Shape, Measured, Remaining
<1> QED
  BY <1>1, <1>2

LEMMA PlanInvariant == PackingSpec => []PackingInv
BY InitialInv, StepKeeps, PTL DEF PackingSpec

\* plan() never gives a running machine more than it has free, whatever the
\* pods ask for: what is left of a vector never goes below zero.
THEOREM PlanTypes == PackingSpec => []PackingTypeOK
<1>1. PackingInv => PackingTypeOK
  BY DEF PackingInv
<1> QED
  BY <1>1, PlanInvariant, PTL

\* plan() never fills a bin over its flavor, in any dimension the flavor reports.
THEOREM PlanHolds == PackingSpec => []NoBinOverflows
<1>1. PackingInv => NoBinOverflows
  BY DEF PackingInv
<1> QED
  BY <1>1, PlanInvariant, PTL

\* plan() opens a bin only for a pod nothing running and nothing rented holds.
THEOREM PlanRentsNoneInVain == PackingSpec => []NoneInVain
<1>1. PackingInv => NoneInVain
  BY DEF PackingInv
<1> QED
  BY <1>1, PlanInvariant, PTL

-----------------------------------------------------------------------------
(* Nothing is lost, nothing is packed twice.                               *)

Load(d) == [b \in DOMAIN bins |-> bins[b].used[d]]

Packed == Pods \ (waiting \cup placed \cup neverFits)

\* A bin is of a flavor and holds at least the pod it was opened for, and a pod is
\* in one place.
PackedInv ==
  /\ PackedOnce
  /\ shapes # <<>> => \A b \in DOMAIN bins :
       bins[b].flavor \in DOMAIN shapes /\ \A d \in Dims : want[opener[b]][d] <= bins[b].used[d]
  /\ waiting \cap placed = {} /\ waiting \cap neverFits = {} /\ placed \cap neverFits = {}

\* The sums are sums of natural numbers over finite sets.
LEMMA SumFacts ==
  ASSUME PackingTypeOK, NEW d \in Dims
  PROVE  /\ IsFiniteSet(DOMAIN bins)
         /\ \A b \in DOMAIN bins : Load(d)[b] = bins[b].used[d] /\ Load(d)[b] \in Nat
         /\ IsFiniteSet(Pods) /\ \A S \in SUBSET Pods : IsFiniteSet(S)
         /\ \A i \in Pods : Asked(d)[i] = want[i][d] /\ Asked(d)[i] \in Nat
<1>1. \A i \in Pods : Asked(d)[i] = want[i][d] /\ Asked(d)[i] \in Nat
  BY PackingAssumption DEF Asked, PackingTypeOK, Amounts
<1>2. \A b \in DOMAIN bins : Load(d)[b] = bins[b].used[d] /\ Load(d)[b] \in Nat
  BY BinTypes DEF Load, Amounts
<1>3. IsFiniteSet(DOMAIN bins)
  <2>1. Len(bins) \in Int /\ 1 \in Int /\ DOMAIN bins = 1 .. Len(bins)
    BY DEF PackingTypeOK
  <2> QED
    BY <2>1, Counted
<1>4. IsFiniteSet(Pods) /\ \A S \in SUBSET Pods : IsFiniteSet(S)
  BY PackingAssumption, FS_Subset
<1> QED
  BY <1>1, <1>2, <1>3, <1>4

LEMMA PackedStart == PackingInit => PackedInv
<1> SUFFICES ASSUME PackingInit PROVE PackedInv
  OBVIOUS
<1>1. bins = <<>> /\ waiting = Pods /\ placed = {} /\ neverFits = {}
  BY DEF PackingInit
<1>2. PackedOnce
  <2> SUFFICES ASSUME NEW d \in Dims
               PROVE  Sum(Load(d), DOMAIN bins) = Sum(Asked(d), Packed)
    BY DEF PackedOnce, Sum, Load, Packed
  <2>1. DOMAIN bins = {} /\ Packed = {} /\ IsFiniteSet({})
    BY <1>1, FS_EmptySet DEF Packed
  <2>2. Sum(Load(d), {}) = 0 /\ Sum(Asked(d), {}) = 0
    BY <2>1, SumTakesOut
  <2> QED
    BY <2>1, <2>2
<1> QED
  BY <1>1, <1>2 DEF PackedInv

LEMMA PackedStep ==
  ASSUME PackingInv, PackingInv', PackedInv, [PackingNext]_packingVars
  PROVE  PackedInv'
<1>0. PackingTypeOK /\ PackingTypeOK' /\ want' = want /\ shapes' = shapes
  BY DEF PackingInv, PackingNext, ReportNeverFits, PlaceOnExisting, PlaceInBin, OpenBin,
         RentToMeasure, Handled, packingVars
<1>1. CASE UNCHANGED packingVars
  BY <1>1 DEF packingVars, plan, PackedInv, PackedOnce, Asked
<1>2. CASE PackingNext
  <2>1. PICK i \in MostAwkward : \/ ReportNeverFits(i) \/ PlaceOnExisting(i)
                                 \/ PlaceInBin(i) \/ OpenBin(i) \/ RentToMeasure(i)
    BY <1>2 DEF PackingNext
  <2>2. i \in Pods /\ want[i] \in Amounts /\ i \in waiting
    BY <1>0, HeadIsPod DEF MostAwkward
  <2>3. CASE ReportNeverFits(i) \/ PlaceOnExisting(i)
    <3>1. /\ UNCHANGED <<bins, opener>> /\ waiting' = waiting \ {i}
          /\ \/ neverFits' = neverFits \cup {i} /\ placed' = placed
             \/ placed' = placed \cup {i} /\ neverFits' = neverFits
      BY <2>3 DEF ReportNeverFits, PlaceOnExisting, Handled
    <3>2. waiting' \cup placed' \cup neverFits' = waiting \cup placed \cup neverFits
      BY <2>2, <3>1
    <3>3. PackedOnce'
      BY <1>0, <3>1, <3>2 DEF PackedInv, PackedOnce, Asked
    <3> QED
      BY <1>0, <2>2, <3>1, <3>3 DEF PackedInv
  <2>4. CASE PlaceInBin(i)
    <3>1. PICK b \in DOMAIN bins : bins' = [bins EXCEPT ![b].used = Plus(@, want[i])]
      BY <2>4 DEF PlaceInBin, IsFirst
    <3>2. UNCHANGED <<free, placed, neverFits, opener>> /\ waiting' = waiting \ {i}
      BY <2>4 DEF PlaceInBin, Handled
    <3>3. bins[b].used \in Amounts /\ bins \in Seq(Bins)
      BY <1>0, BinTypes DEF PackingTypeOK
    <3>4. /\ DOMAIN bins' = DOMAIN bins
          /\ \A c \in DOMAIN bins :
               /\ bins'[c].used = IF c = b THEN Plus(bins[b].used, want[i]) ELSE bins[c].used
               /\ bins'[c].flavor = bins[c].flavor
      BY <3>1, <3>3 DEF Bins
    <3>5. ASSUME NEW d \in Dims
          PROVE  (shapes # <<>> => Sum(Load(d), DOMAIN bins) = Sum(Asked(d), Packed))
                 => (shapes # <<>> => Sum(Load(d)', DOMAIN bins) = Sum(Asked(d), Packed'))
      <4>1. /\ IsFiniteSet(DOMAIN bins) /\ \A c \in DOMAIN bins : Load(d)[c] \in Nat
            /\ \A S \in SUBSET Pods : IsFiniteSet(S)
            /\ \A j \in Pods : Asked(d)[j] = want[j][d] /\ Asked(d)[j] \in Nat
        BY <1>0, SumFacts
      <4>2. /\ Load(d)'[b] = Load(d)[b] + want[i][d]
            /\ \A c \in DOMAIN bins \ {b} : Load(d)'[c] = Load(d)[c]
        BY <2>2, <3>3, <3>4 DEF Load, Plus
      <4>3. /\ Sum(Load(d), DOMAIN bins) = Load(d)[b] + Sum(Load(d), DOMAIN bins \ {b})
            /\ Sum(Load(d)', DOMAIN bins) = Load(d)'[b] + Sum(Load(d)', DOMAIN bins \ {b})
        <5>1. \A c \in DOMAIN bins : Load(d)'[c] \in Nat
          BY <2>2, <4>1, <4>2 DEF Amounts
        <5> QED
          BY <4>1, <5>1, SumTakesOut
      <4>4. /\ Sum(Load(d), DOMAIN bins \ {b}) = Sum(Load(d)', DOMAIN bins \ {b})
            /\ Sum(Load(d), DOMAIN bins \ {b}) \in Nat
        <5>1. IsFiniteSet(DOMAIN bins \ {b})
          BY <4>1, FS_Subset
        <5> QED
          BY <4>1, <4>2, <5>1, SumSame, SumTakesOut
      <4>5. Packed' \ {i} = Packed /\ i \in Packed' /\ Packed' \subseteq Pods
        BY <2>2, <3>2 DEF Packed, PackedInv
      <4>6. Sum(Asked(d), Packed') = want[i][d] + Sum(Asked(d), Packed)
        BY <2>2, <4>1, <4>5, SumTakesOut
      <4>7. want[i][d] \in Nat /\ Load(d)[b] \in Nat /\ Sum(Asked(d), Packed) \in Nat
        <5>1. Packed \in SUBSET Pods
          BY DEF Packed
        <5> QED
          BY <2>2, <4>1, <5>1, SumTakesOut DEF Amounts
      <4> QED
        BY <4>2, <4>3, <4>4, <4>6, <4>7
    <3>6. PackedOnce'
      BY <1>0, <3>4, <3>5 DEF PackedInv, PackedOnce, Sum, Load, Packed, Asked
    <3>7. ASSUME NEW c \in DOMAIN bins, NEW d \in Dims, shapes # <<>>
          PROVE  bins'[c].flavor \in DOMAIN shapes /\ want[opener[c]][d] <= bins'[c].used[d]
      <4>1. want[opener[c]][d] <= bins[c].used[d] /\ bins[c].flavor \in DOMAIN shapes
        BY <3>7 DEF PackedInv
      <4>2. want[opener[c]][d] \in Nat /\ bins[c].used[d] \in Nat /\ want[i][d] \in Nat
        BY <1>0, <2>2, BinTypes DEF Amounts
      <4>3. bins'[c].used[d] = bins[c].used[d] \/ bins'[c].used[d] = bins[c].used[d] + want[i][d]
        BY <3>4 DEF Plus
      <4>4. bins'[c].flavor = bins[c].flavor
        BY <3>4
      <4> QED
        BY <4>1, <4>2, <4>3, <4>4
    <3>8. waiting' \cap placed' = {} /\ waiting' \cap neverFits' = {} /\ placed' \cap neverFits' = {}
      BY <3>2 DEF PackedInv
    <3>9. shapes' # <<>> => \A c \in DOMAIN bins' :
            bins'[c].flavor \in DOMAIN shapes' /\ \A d \in Dims : want'[opener'[c]][d] <= bins'[c].used[d]
      <4>1. shapes # <<>> => \A c \in DOMAIN bins :
              bins'[c].flavor \in DOMAIN shapes /\ \A d \in Dims : want[opener[c]][d] <= bins'[c].used[d]
        <5> SUFFICES ASSUME shapes # <<>>, NEW c \in DOMAIN bins
                     PROVE  /\ bins'[c].flavor \in DOMAIN shapes
                            /\ \A d \in Dims : want[opener[c]][d] <= bins'[c].used[d]
          OBVIOUS
        <5>1. bins[c].flavor \in DOMAIN shapes
          BY DEF PackedInv
        <5> QED
          BY <3>4, <3>7, <5>1
      <4> QED
        BY <1>0, <3>2, <3>4, <4>1
    <3> QED
      BY <3>6, <3>8, <3>9 DEF PackedInv
  <2>5. CASE OpenBin(i)
    <3>1. PICK f \in DOMAIN shapes : bins' = Append(bins, [flavor |-> f, used |-> want[i]])
      BY <2>5 DEF OpenBin, IsFirst
    <3>2. /\ UNCHANGED <<free, placed, neverFits>> /\ opener' = Append(opener, i)
          /\ waiting' = waiting \ {i}
      BY <2>5 DEF OpenBin, Handled
    <3>3. PICK n \in Nat : n = Len(bins) /\ n = Len(opener)
      BY <1>0 DEF PackingTypeOK
    <3>4. bins \in Seq(Bins) /\ opener \in Seq(Pods)
      BY <1>0 DEF PackingTypeOK
    <3>5. /\ DOMAIN bins' = DOMAIN bins \cup {n + 1} /\ n + 1 \notin DOMAIN bins
          /\ bins'[n + 1].used = want[i] /\ bins'[n + 1].flavor \in DOMAIN shapes
          /\ \A c \in DOMAIN bins : bins'[c] = bins[c]
          /\ opener'[n + 1] = i /\ \A c \in DOMAIN bins : opener'[c] = opener[c]
      <4> DEFINE new == [flavor |-> f, used |-> want[i]]
      <4>1. shapes \in Seq(Amounts)
        BY <1>0, PackingAssumption DEF PackingTypeOK
      <4>2. new \in Bins /\ new.used = want[i] /\ new.flavor = f
        BY <2>2, <4>1 DEF Bins
      <4>3. bins' = Append(bins, new)
        BY <3>1
      <4> HIDE DEF new
      <4>4. /\ DOMAIN bins' = 1 .. n + 1 /\ DOMAIN bins = 1 .. n /\ bins'[n + 1] = new
            /\ \A c \in 1 .. n : bins'[c] = bins[c]
        <5>1. new \in Bins /\ bins \in Seq(Bins) /\ Len(bins) = n /\ bins' = Append(bins, new)
          BY <3>3, <3>4, <4>2, <4>3
        <5>2. Len(Append(bins, new)) = n + 1 /\ Append(bins, new)[n + 1] = new
          BY <5>1
        <5>3. \A c \in 1 .. n : Append(bins, new)[c] = bins[c]
          BY <5>1
        <5>4. Append(bins, new) \in Seq(Bins)
          BY <5>1
        <5> QED
          BY <5>1, <5>2, <5>3, <5>4
      <4>5. opener'[n + 1] = i /\ \A c \in 1 .. n : opener'[c] = opener[c]
        BY <2>2, <3>2, <3>3, <3>4
      <4>6. 1 .. n + 1 = (1 .. n) \cup {n + 1} /\ n + 1 \notin 1 .. n
        OBVIOUS
      <4> QED
        BY <4>2, <4>4, <4>5, <4>6
    <3>6. ASSUME NEW d \in Dims
          PROVE  Sum(Load(d), DOMAIN bins) = Sum(Asked(d), Packed)
                 => Sum(Load(d)', DOMAIN bins') = Sum(Asked(d), Packed')
      <4>1. /\ IsFiniteSet(DOMAIN bins) /\ \A c \in DOMAIN bins : Load(d)[c] \in Nat
            /\ \A S \in SUBSET Pods : IsFiniteSet(S)
            /\ \A j \in Pods : Asked(d)[j] = want[j][d] /\ Asked(d)[j] \in Nat
        BY <1>0, SumFacts
      <4>2. /\ Load(d)'[n + 1] = want[i][d]
            /\ \A c \in DOMAIN bins : Load(d)'[c] = Load(d)[c]
        BY <3>5 DEF Load
      <4>3. Sum(Load(d)', DOMAIN bins') = want[i][d] + Sum(Load(d)', DOMAIN bins)
        <5>0. DOMAIN bins' = DOMAIN bins \cup {n + 1} /\ DOMAIN bins' \ {n + 1} = DOMAIN bins
          BY <3>5
        <5>1. IsFiniteSet(DOMAIN bins')
          BY <4>1, <5>0, FS_AddElement
        <5>2. \A c \in DOMAIN bins' : Load(d)'[c] \in Nat
          BY <2>2, <3>5, <4>1, <4>2 DEF Amounts
        <5>3. Sum(Load(d)', DOMAIN bins') = Load(d)'[n + 1] + Sum(Load(d)', DOMAIN bins' \ {n + 1})
          BY <3>5, <5>1, <5>2, SumTakesOut
        <5> QED
          BY <4>2, <5>0, <5>3
      <4>4. Sum(Load(d), DOMAIN bins) = Sum(Load(d)', DOMAIN bins)
        BY <4>1, <4>2, SumSame
      <4>5. Packed' \ {i} = Packed /\ i \in Packed' /\ Packed' \subseteq Pods
        BY <2>2, <3>2 DEF Packed, PackedInv
      <4>6. Sum(Asked(d), Packed') = want[i][d] + Sum(Asked(d), Packed)
        BY <2>2, <4>1, <4>5, SumTakesOut
      <4> QED
        BY <4>3, <4>4, <4>6
    <3>7. PackedOnce'
      BY <1>0, <3>6 DEF PackedInv, PackedOnce, Sum, Load, Packed, Asked
    <3>8. ASSUME NEW c \in DOMAIN bins'
          PROVE  /\ bins'[c].flavor \in DOMAIN shapes'
                 /\ \A d \in Dims : want'[opener'[c]][d] <= bins'[c].used[d]
      <4>1. CASE c = n + 1
        BY <1>0, <2>2, <3>5, <4>1 DEF Amounts
      <4>2. CASE c \in DOMAIN bins
        BY <1>0, <3>1, <3>5, <4>2 DEF PackedInv
      <4> QED
        BY <3>5, <4>1, <4>2
    <3>9. waiting' \cap placed' = {} /\ waiting' \cap neverFits' = {} /\ placed' \cap neverFits' = {}
      BY <3>2 DEF PackedInv
    <3> QED
      BY <3>7, <3>8, <3>9 DEF PackedInv
  <2>6. CASE RentToMeasure(i)
    <3>1. /\ shapes' = <<>> /\ waiting' = {} /\ UNCHANGED <<placed, neverFits>>
      BY <1>0, <2>6 DEF RentToMeasure
    <3> QED
      BY <3>1 DEF PackedOnce, PackedInv
  <2> QED
    BY <2>1, <2>3, <2>4, <2>5, <2>6
<1> QED
  BY <1>1, <1>2

LEMMA PackedInvariant == PackingSpec => [](PackingInv /\ PackedInv)
<1>1. PackingInit => PackingInv /\ PackedInv
  BY InitialInv, PackedStart
<1>2. PackingInv /\ PackedInv /\ [PackingNext]_packingVars => (PackingInv /\ PackedInv)'
  BY StepKeeps, PackedStep
<1> QED
  BY <1>1, <1>2, PTL DEF PackingSpec

\* plan() packs every pod once: what it put into its bins is what the pods ask for
\* that are neither waiting nor placed on a running machine nor reported.
THEOREM PlanPacksOnce == PackingSpec => []PackedOnce
<1>1. PackingInv /\ PackedInv => PackedOnce
  BY DEF PackedInv
<1> QED
  BY <1>1, PackedInvariant, PTL

-----------------------------------------------------------------------------
(* A small constant of the fewest.                                         *)

LEMMA OneFlavor ==
  ASSUME PackingTypeOK, Len(shapes) = 1
  PROVE  /\ shapes # <<>> /\ DOMAIN shapes = {1} /\ shapes[1] \in Amounts
         /\ \A d \in Keys(shapes[1]) : d \in Dims /\ shapes[1][d] \in Nat
<1>1. shapes \in Seq(Amounts)
  BY PackingAssumption DEF PackingTypeOK
<1>2. DOMAIN shapes = 1 .. 1 /\ 1 .. 1 = {1}
  BY <1>1
<1>3. shapes[1] \in Amounts
  BY <1>1, <1>2
<1> QED
  BY <1>2, <1>3 DEF Keys, Amounts

\* Two bins hold more of something the flavor reports than one machine has: the
\* later was opened for a pod the earlier had no room for, even when it had less in.
LEMMA TwoBinsExceed ==
  ASSUME PackingInv, PackedInv, Len(shapes) = 1,
         NEW b \in DOMAIN bins, NEW c \in DOMAIN bins, b < c
  PROVE  \E d \in Keys(shapes[1]) : shapes[1][d] < Load(d)[b] + Load(d)[c]
<1>1. PackingTypeOK /\ b \in 1 .. c - 1 /\ shapes # <<>> /\ DOMAIN shapes = {1}
  <2>1. PackingTypeOK
    BY DEF PackingInv
  <2>2. b \in Nat /\ c \in Nat /\ b \in 1 .. c - 1
    BY <2>1 DEF PackingTypeOK
  <2> QED
    BY <2>1, <2>2, OneFlavor
<1>2. bins[b].flavor = 1 /\ \A d \in Dims : want[opener[c]][d] <= bins[c].used[d]
  BY <1>1 DEF PackedInv
<1>3. Shape(b) = shapes[1] /\ Measured(b) = Keys(shapes[1])
  BY <1>2 DEF Shape, Measured, NoFlavor
<1>4. ~Fits(want[opener[c]], Remaining(b), Keys(shapes[1]))
  BY <1>1, <1>3 DEF PackingInv, NoneInVain
<1>5. PICK d \in Keys(shapes[1]) : ~(want[opener[c]][d] <= Remaining(b)[d])
  BY <1>4 DEF Fits
<1>6. d \in Dims
  BY DEF Keys
<1>7. /\ want[opener[c]][d] \in Nat /\ bins[b].used[d] \in Nat /\ bins[c].used[d] \in Nat
      /\ shapes[1][d] \in Nat
  BY <1>1, <1>3, <1>6, BinTypes DEF Amounts
<1>8. Remaining(b)[d] = shapes[1][d] - bins[b].used[d]
  BY <1>3, <1>6 DEF Remaining, Minus
<1>9. Load(d)[b] = bins[b].used[d] /\ Load(d)[c] = bins[c].used[d]
  BY DEF Load
<1> QED
  BY <1>2, <1>5, <1>6, <1>7, <1>8, <1>9

\* Where n machines hold all the pods, they hold what the pods ask for.
LEMMA MachinesHold ==
  ASSUME PackingTypeOK, Len(shapes) = 1, NEW n \in Nat, Suffice(n), NEW d \in Keys(shapes[1])
  PROVE  Sum(Asked(d), Pods) <= shapes[1][d] * n
<1>1. PICK home \in [Pods -> 1 .. n] :
        \A m \in 1 .. n : Sum(Asked(d), {i \in Pods : home[i] = m}) <= shapes[1][d]
  BY DEF Suffice, Sum
<1> DEFINE g == [m \in 1 .. n |-> {i \in Pods : home[i] = m}]
           v == [m \in 1 .. n |-> Sum(Asked(d), {i \in Pods : home[i] = m})]
<1>2. d \in Dims /\ shapes[1][d] \in Nat
  BY OneFlavor
<1>3. IsFiniteSet(1 .. n) /\ Cardinality(1 .. n) = n
  BY Counted
<1>4. /\ IsFiniteSet(Pods) /\ \A S \in SUBSET Pods : IsFiniteSet(S)
      /\ \A i \in Pods : Asked(d)[i] \in Nat
  BY <1>2, SumFacts
<1>5. Divides(g, Pods, 1 .. n) /\ GroupSums(v, Asked(d), g, 1 .. n)
  BY DEF Divides, GroupSums
<1>6. \A m \in 1 .. n : v[m] \in Nat /\ v[m] <= shapes[1][d]
  <2> SUFFICES ASSUME NEW m \in 1 .. n
               PROVE  Sum(Asked(d), {i \in Pods : home[i] = m}) \in Nat
    BY <1>1
  <2> DEFINE S == {i \in Pods : home[i] = m}
  <2>1. IsFiniteSet(S) /\ \A i \in S : Asked(d)[i] \in Nat
    BY <1>4
  <2> HIDE DEF S
  <2>2. Sum(Asked(d), S) \in Nat
    BY <2>1, SumTakesOut
  <2> QED
    BY <2>2 DEF S
<1> HIDE DEF v, g
<1>7. Sum(Asked(d), Pods) = Sum(v, 1 .. n)
  BY <1>3, <1>4, <1>5, SumByGroup
<1>8. Sum(v, 1 .. n) <= shapes[1][d] * Cardinality(1 .. n)
  BY <1>2, <1>3, <1>6, SumOfFew
<1> QED
  BY <1>3, <1>7, <1>8

\* There are fewer pairs of bins that exceed a machine in one dimension than machines.
LEMMA FewPairs ==
  ASSUME PackingInv, PackedInv, Len(shapes) = 1, NEW n \in Nat \ {0}, Suffice(n),
         NEW d \in Keys(shapes[1]), NEW P \in SUBSET (Nat \ {0}), IsFiniteSet(P),
         \A p \in P : 2 * p <= Len(bins) /\ shapes[1][d] < Load(d)[2 * p - 1] + Load(d)[2 * p]
  PROVE  Cardinality(P) <= n - 1 /\ (P # {} => d \in Scarce)
<1>1. PackingTypeOK /\ d \in Dims /\ shapes # <<>> /\ shapes[1][d] \in Nat
  <2>1. PackingTypeOK
    BY DEF PackingInv
  <2> QED
    BY <2>1, OneFlavor
<1>2. PICK cap \in Nat : cap = shapes[1][d]
  BY <1>1
<1>3. PICK N \in Nat : DOMAIN bins = 1 .. N /\ N = Len(bins)
  BY <1>1 DEF PackingTypeOK
<1>4. /\ IsFiniteSet(DOMAIN bins) /\ \A b \in DOMAIN bins : Load(d)[b] \in Nat
      /\ IsFiniteSet(Pods) /\ \A i \in Pods : Asked(d)[i] \in Nat
  BY <1>1, SumFacts
<1>5. (cap + 1) * Cardinality(P) <= Sum(Load(d), DOMAIN bins)
  <2>1. cap + 1 \in Nat /\ \A b \in 1 .. N : Load(d)[b] \in Nat
    BY <1>3, <1>4
  <2>2. \A p \in P : 2 * p <= N /\ cap + 1 <= Load(d)[2 * p - 1] + Load(d)[2 * p]
    <3> SUFFICES ASSUME NEW p \in P
                 PROVE  2 * p <= N /\ cap + 1 <= Load(d)[2 * p - 1] + Load(d)[2 * p]
      OBVIOUS
    <3>1. p \in Nat \ {0} /\ 2 * p <= N /\ cap < Load(d)[2 * p - 1] + Load(d)[2 * p]
      BY <1>2, <1>3
    <3>2. 2 * p - 1 \in 1 .. N /\ 2 * p \in 1 .. N
      BY <3>1
    <3>3. Load(d)[2 * p - 1] \in Nat /\ Load(d)[2 * p] \in Nat
      BY <2>1, <3>2
    <3> QED
      BY <3>1, <3>3
  <2> QED
    BY <1>3, <2>1, <2>2, SumOfPairs
<1>6. Sum(Load(d), DOMAIN bins) = Sum(Asked(d), Packed)
  BY <1>1 DEF PackedInv, PackedOnce, Sum, Load, Packed
<1>7. Sum(Asked(d), Packed) <= Sum(Asked(d), Pods)
  <2>1. Packed \in SUBSET Pods
    BY DEF Packed
  <2> QED
    BY <1>4, <2>1, SumOfPart
<1>8. Sum(Asked(d), Pods) <= cap * n
  BY <1>1, <1>2, MachinesHold
<1>9. PICK q \in Nat : q = Cardinality(P)
  BY FS_CardinalityType
<1>10. PICK total \in Nat : total = Sum(Asked(d), Pods)
  BY <1>4, SumTakesOut
<1>11. (cap + 1) * q <= total
  <2>1. Sum(Load(d), DOMAIN bins) \in Nat /\ (cap + 1) * q \in Nat
    BY <1>4, SumTakesOut
  <2> QED
    BY <1>5, <1>6, <1>7, <1>9, <1>10, <2>1
<1>12. q <= n - 1
  <2> SUFFICES ASSUME q >= n PROVE FALSE
    OBVIOUS
  <2>1. PICK r \in Nat : q = n + r
    <3>1. q = n + (q - n) /\ q - n \in Nat
      OBVIOUS
    <3> QED
      BY <3>1
  <2>2. (cap + 1) * q = cap * n + cap * r + n + r /\ cap * r \in Nat /\ cap * n \in Nat
    BY <2>1
  <2> QED
    BY <1>8, <1>10, <1>11, <2>1, <2>2
<1>13. ASSUME P # {} PROVE d \in Scarce
  <2>1. q # 0
    BY <1>9, <1>13, FS_EmptySet
  <2>2. PICK r \in Nat : q = r + 1
    <3>1. q = (q - 1) + 1 /\ q - 1 \in Nat
      BY <2>1
    <3> QED
      BY <3>1
  <2>3. (cap + 1) * q = (cap + 1) * r + cap + 1 /\ (cap + 1) * r \in Nat
    BY <2>2
  <2>4. total > cap
    BY <1>11, <2>3
  <2> QED
    BY <1>1, <1>2, <1>10, <2>4 DEF Scarce, Sum
<1> QED
  BY <1>9, <1>12, <1>13

\* Every pair of bins exceeds a machine somewhere, and there are few for each dimension.
LEMMA NearlyFewestHolds ==
  ASSUME PackingInv, PackedInv, NEW n \in Nat \ {0}
  PROVE  NearlyFewest(n)
<1> SUFFICES ASSUME Len(shapes) = 1, Suffice(n)
             PROVE  Len(bins) <= 1 + 2 * Cardinality(Scarce \cap Keys(shapes[1])) * (n - 1)
  BY DEF NearlyFewest
<1> DEFINE K == Scarce \cap Keys(shapes[1])
           Exceeds(d) == {p \in Nat \ {0} : 2 * p <= Len(bins)
                                            /\ shapes[1][d] < Load(d)[2 * p - 1] + Load(d)[2 * p]}
           P == [d \in K |-> Exceeds(d)]
<1>1. PICK N \in Nat : DOMAIN bins = 1 .. N /\ N = Len(bins)
  BY DEF PackingInv, PackingTypeOK
<1>2. PICK h \in Nat : N = 2 * h \/ N = 2 * h + 1
  <2>1. N \div 2 \in Nat /\ (N = 2 * (N \div 2) \/ N = 2 * (N \div 2) + 1)
    OBVIOUS
  <2> QED
    BY <2>1
<1>3. IsFiniteSet(1 .. h) /\ Cardinality(1 .. h) = h
  BY Counted
<1>4. \A p \in Nat \ {0} : p \in 1 .. h <=> 2 * p <= N
  <2> SUFFICES ASSUME NEW p \in Nat \ {0} PROVE p <= h <=> 2 * p <= N
    OBVIOUS
  <2>1. CASE N = 2 * h
    BY <2>1
  <2>2. CASE N = 2 * h + 1
    BY <2>2
  <2> QED
    BY <1>2, <2>1, <2>2
<1>5. \A d \in Keys(shapes[1]) : IsFiniteSet(Exceeds(d))
  <2>1. \A d \in Keys(shapes[1]) : Exceeds(d) \in SUBSET (1 .. h)
    BY <1>1, <1>4
  <2> QED
    BY <1>3, <2>1, FS_Subset
<1>6. \A d \in Keys(shapes[1]) : Cardinality(Exceeds(d)) <= n - 1 /\ (Exceeds(d) # {} => d \in Scarce)
  <2> SUFFICES ASSUME NEW d \in Keys(shapes[1])
               PROVE  Cardinality(Exceeds(d)) <= n - 1 /\ (Exceeds(d) # {} => d \in Scarce)
    OBVIOUS
  <2>1. Exceeds(d) \in SUBSET (Nat \ {0}) /\ IsFiniteSet(Exceeds(d))
    BY <1>5
  <2>2. \A p \in Exceeds(d) : 2 * p <= Len(bins) /\ shapes[1][d] < Load(d)[2 * p - 1] + Load(d)[2 * p]
    OBVIOUS
  <2> HIDE DEF Exceeds
  <2> QED
    BY <2>1, <2>2, FewPairs
<1>7. \A p \in 1 .. h : \E d \in Keys(shapes[1]) : p \in Exceeds(d)
  <2> SUFFICES ASSUME NEW p \in 1 .. h PROVE \E d \in Keys(shapes[1]) : p \in Exceeds(d)
    OBVIOUS
  <2>1. /\ p \in Nat \ {0} /\ 2 * p <= N /\ 2 * p - 1 < 2 * p
        /\ 2 * p - 1 \in DOMAIN bins /\ 2 * p \in DOMAIN bins
    <3>1. p \in Nat \ {0} /\ 2 * p <= N
      BY <1>4
    <3>2. 2 * p - 1 \in 1 .. N /\ 2 * p \in 1 .. N /\ 2 * p - 1 < 2 * p
      BY <3>1
    <3> QED
      BY <1>1, <3>1, <3>2
  <2>2. PICK d \in Keys(shapes[1]) : shapes[1][d] < Load(d)[2 * p - 1] + Load(d)[2 * p]
    BY <2>1, TwoBinsExceed
  <2> QED
    BY <1>1, <2>1, <2>2
<1> HIDE DEF Exceeds
<1>8. 1 .. h \subseteq UNION {P[d] : d \in K}
  <2> SUFFICES ASSUME NEW p \in 1 .. h PROVE \E d \in K : p \in P[d]
    OBVIOUS
  <2>1. PICK d \in Keys(shapes[1]) : p \in Exceeds(d)
    BY <1>7
  <2>2. d \in K
    BY <1>6, <2>1
  <2> QED
    BY <2>1, <2>2
<1>9. IsFiniteSet(K)
  <2>1. K \in SUBSET Dims
    BY DEF Scarce
  <2> QED
    BY <2>1, PackingAssumption, FS_Subset
<1>10. n - 1 \in Nat /\ \A d \in K : IsFiniteSet(P[d]) /\ Cardinality(P[d]) <= n - 1
  BY <1>5, <1>6
<1> HIDE DEF P
<1>11. /\ IsFiniteSet(UNION {P[d] : d \in K})
       /\ Cardinality(UNION {P[d] : d \in K}) <= (n - 1) * Cardinality(K)
  BY <1>9, <1>10, FewInUnion
<1>12. h <= Cardinality(UNION {P[d] : d \in K}) /\ Cardinality(UNION {P[d] : d \in K}) \in Nat
  BY <1>3, <1>8, <1>11, FS_Subset, FS_CardinalityType
<1>13. PICK k \in Nat : k = Cardinality(K)
  BY <1>9, FS_CardinalityType
<1>14. PICK m \in Nat : m = n - 1
  BY <1>10
<1>15. h <= m * k
  BY <1>11, <1>12, <1>13, <1>14
<1>16. 2 * k * m = 2 * (m * k) /\ m * k \in Nat
  OBVIOUS
<1>17. N <= 1 + 2 * k * m
  BY <1>2, <1>15, <1>16
<1> QED
  BY <1>1, <1>13, <1>14, <1>17

\* "Within a small constant of optimal", for any number of pods, of machines and of
\* dimensions: where n machines of the one flavor would hold all the pods, plan() rents
\* no more than 1 + 2 s (n - 1), where s of the dimensions the flavor reports are scarce.
THEOREM PlanIsNearlyFewest ==
  ASSUME NEW n \in Nat \ {0} PROVE PackingSpec => []NearlyFewest(n)
<1>1. PackingInv /\ PackedInv => NearlyFewest(n)
  BY NearlyFewestHolds
<1> QED
  BY <1>1, PackedInvariant, PTL

-----------------------------------------------------------------------------
(* The head of the sorted list, and the end of a plan.                     *)

\* a/b <= c/d <= e/f.
LEMMA RatioTransitive ==
  ASSUME NEW a \in Nat, NEW b \in Nat, NEW c \in Nat, NEW d \in Nat \ {0}, NEW e \in Nat, NEW f \in Nat,
         a * d <= c * b, c * f <= e * d
  PROVE  a * f <= e * b
<1>1. PICK x \in Nat : x = a * f
  OBVIOUS
<1>2. PICK y \in Nat : y = e * b
  OBVIOUS
<1>3. (a * d) * f <= (c * b) * f
  <2>1. PICK r \in Nat : c * b = a * d + r
    <3>1. c * b - a * d \in Nat /\ c * b = a * d + (c * b - a * d)
      OBVIOUS
    <3> QED
      BY <3>1
  <2>2. (c * b) * f = (a * d) * f + r * f /\ r * f \in Nat
    BY <2>1
  <2> QED
    BY <2>2
<1>4. (c * f) * b <= (e * d) * b
  <2>1. PICK r \in Nat : e * d = c * f + r
    <3>1. e * d - c * f \in Nat /\ e * d = c * f + (e * d - c * f)
      OBVIOUS
    <3> QED
      BY <3>1
  <2>2. (e * d) * b = (c * f) * b + r * b /\ r * b \in Nat
    BY <2>1
  <2> QED
    BY <2>2
<1>5. (a * d) * f = (a * f) * d /\ (c * b) * f = (c * f) * b /\ (e * d) * b = (e * b) * d
  OBVIOUS
<1>6. x * d <= y * d
  BY <1>1, <1>2, <1>3, <1>4, <1>5
<1>7. x <= y
  <2> SUFFICES ASSUME x > y PROVE FALSE
    OBVIOUS
  <2>1. PICK r \in Nat : x = y + 1 + r
    <3>1. x - y - 1 \in Nat /\ x = y + 1 + (x - y - 1)
      OBVIOUS
    <3> QED
      BY <3>1
  <2>2. x * d = y * d + d + r * d /\ r * d \in Nat /\ y * d \in Nat
    BY <2>1
  <2> QED
    BY <1>6, <2>2
<1> QED
  BY <1>1, <1>2, <1>7

LEMMA FractionTypes ==
  ASSUME NEW v \in Amounts, NEW capacity \in Amounts, NEW f \in Fractions(v, capacity)
  PROVE  f[1] \in Nat /\ f[2] \in Nat \ {0}
<1>1. CASE f = <<0, 1>> \/ f = <<1, 1>>
  BY <1>1
<1>2. CASE \E d \in Dims : capacity[d] > 0 /\ f = <<v[d], capacity[d]>>
  <2>1. PICK d \in Dims : capacity[d] > 0 /\ f = <<v[d], capacity[d]>>
    BY <1>2
  <2>2. v[d] \in Nat /\ capacity[d] \in Nat \ {0}
    BY <2>1 DEF Amounts
  <2> QED
    BY <2>1, <2>2
<1> QED
  BY <1>1, <1>2 DEF Fractions

\* Of two pods one is as awkward as the other.
LEMMA AwkwardTotal ==
  ASSUME NEW v \in Amounts, NEW w \in Amounts, NEW capacity \in Amounts, ~AsAwkward(v, w, capacity)
  PROVE  AsAwkward(w, v, capacity)
<1>1. PICK f \in Fractions(w, capacity) :
        \A g \in Fractions(v, capacity) : ~(f[1] * g[2] <= g[1] * f[2])
  BY DEF AsAwkward
<1>2. ASSUME NEW g \in Fractions(v, capacity) PROVE g[1] * f[2] <= f[1] * g[2]
  <2>1. f[1] * g[2] \in Nat /\ g[1] * f[2] \in Nat
    BY FractionTypes
  <2> QED
    BY <1>1, <2>1
<1> QED
  BY <1>2 DEF AsAwkward

LEMMA AwkwardTransitive ==
  ASSUME NEW u \in Amounts, NEW v \in Amounts, NEW w \in Amounts, NEW capacity \in Amounts,
         AsAwkward(u, v, capacity), AsAwkward(v, w, capacity)
  PROVE  AsAwkward(u, w, capacity)
<1> SUFFICES ASSUME NEW f \in Fractions(w, capacity)
             PROVE  \E h \in Fractions(u, capacity) : f[1] * h[2] <= h[1] * f[2]
  BY DEF AsAwkward
<1>1. PICK g \in Fractions(v, capacity) : f[1] * g[2] <= g[1] * f[2]
  BY DEF AsAwkward
<1>2. PICK h \in Fractions(u, capacity) : g[1] * h[2] <= h[1] * g[2]
  BY DEF AsAwkward
<1>3. /\ f[1] \in Nat /\ f[2] \in Nat /\ g[1] \in Nat /\ g[2] \in Nat \ {0}
      /\ h[1] \in Nat /\ h[2] \in Nat
  BY FractionTypes
<1>4. f[1] * h[2] <= h[1] * f[2]
  <2>1. PICK a \in Nat, b \in Nat : a = f[1] /\ b = f[2]
    BY <1>3
  <2>2. PICK c \in Nat, d \in Nat \ {0} : c = g[1] /\ d = g[2]
    BY <1>3
  <2>3. PICK x \in Nat, y \in Nat : x = h[1] /\ y = h[2]
    BY <1>3
  <2>4. a * d <= c * b /\ c * y <= x * d
    BY <1>1, <1>2, <2>1, <2>2, <2>3
  <2>5. a * y <= x * b
    BY <2>4, RatioTransitive
  <2> QED
    BY <2>1, <2>3, <2>5
<1> QED
  BY <1>4

\* The list has one order: what sorted() makes of it does not depend on how it sorts.
LEMMA OneOrder ==
  ASSUME PackingTypeOK, NEW i \in Pods, NEW j \in Pods, NEW k \in Pods
  PROVE  /\ NoLaterThan(i, j) \/ NoLaterThan(j, i)
         /\ NoLaterThan(i, j) /\ NoLaterThan(j, i) => i = j
         /\ NoLaterThan(i, j) /\ NoLaterThan(j, k) => NoLaterThan(i, k)
<1> DEFINE Geq(x, y) == AsAwkward(want[x], want[y], Reference)
<1>1. Reference \in Amounts /\ \A x \in Pods : want[x] \in Amounts
  <2>1. shapes \in Seq(Amounts) /\ Nothing \in Amounts
    BY PackingAssumption DEF PackingTypeOK, Nothing, Amounts
  <2>2. shapes = <<>> \/ shapes[1] \in Amounts
    BY <2>1
  <2> QED
    BY <2>1, <2>2, PackingAssumption DEF Reference, PackingTypeOK
<1>2. \A x, y \in Pods : Geq(x, y) \/ Geq(y, x)
  BY <1>1, AwkwardTotal
<1>3. \A x, y, z \in Pods : Geq(x, y) /\ Geq(y, z) => Geq(x, z)
  BY <1>1, AwkwardTransitive
<1>4. \A x, y \in Pods : NoLaterThan(x, y) <=> Geq(x, y) /\ (Geq(y, x) => x <= y)
  BY DEF NoLaterThan
<1>5. i \in Nat /\ j \in Nat /\ k \in Nat
  BY PackingAssumption
<1> HIDE DEF Geq
<1>6. NoLaterThan(i, j) \/ NoLaterThan(j, i)
  BY <1>2, <1>4, <1>5
<1>7. NoLaterThan(i, j) /\ NoLaterThan(j, i) => i = j
  BY <1>4, <1>5
<1>8. NoLaterThan(i, j) /\ NoLaterThan(j, k) => NoLaterThan(i, k)
  BY <1>3, <1>4, <1>5
<1> QED
  BY <1>6, <1>7, <1>8

LEMMA OneHead ==
  ASSUME PackingTypeOK, waiting # {}
  PROVE  \E i \in waiting : MostAwkward = {i}
<1> DEFINE Heads(s) == {i \in s : \A j \in s : NoLaterThan(i, j)}
           C == {s \in SUBSET waiting : s # {} /\ Heads(s) = {}}
<1>1. waiting \in SUBSET Pods /\ IsFiniteSet(waiting)
  BY PackingAssumption, FS_Subset DEF PackingTypeOK
<1>2. C = {}
  <2> SUFFICES ASSUME C # {} PROVE FALSE
    OBVIOUS
  <2>1. C \in SUBSET SUBSET waiting
    OBVIOUS
  <2>2. PICK s \in C : \A r \in C : ~(r \subseteq s /\ r # s)
    <3> HIDE DEF C
    <3> QED
      BY <1>1, <2>1, SmallestSet
  <2>3. /\ s \in SUBSET Pods /\ s # {} /\ Heads(s) = {}
        /\ \A x \in s : s \ {x} = {} \/ Heads(s \ {x}) # {}
    <3>1. s \in SUBSET waiting /\ s # {} /\ Heads(s) = {}
      OBVIOUS
    <3>2. ASSUME NEW x \in s, s \ {x} # {} PROVE Heads(s \ {x}) # {}
      <4>1. s \ {x} \in SUBSET waiting /\ s \ {x} \subseteq s /\ s \ {x} # s
        BY <3>1
      <4>2. s \ {x} \notin C
        BY <2>2, <4>1
      <4> HIDE DEF Heads
      <4> QED
        BY <3>2, <4>1, <4>2
    <3> QED
      BY <1>1, <3>1, <3>2
  <2> HIDE DEF C
  <2>4. PICK x \in s : TRUE
    BY <2>3
  <2>5. NoLaterThan(x, x)
    BY <2>3, <2>4, OneOrder
  <2>6. CASE s \ {x} = {}
    <3>1. x \in Heads(s)
      BY <2>4, <2>5, <2>6
    <3> QED
      BY <2>3, <3>1
  <2>7. CASE s \ {x} # {}
    <3>1. PICK h \in s : \A j \in s \ {x} : NoLaterThan(h, j)
      BY <2>3, <2>4, <2>7
    <3>2. x \in Pods /\ h \in Pods /\ \A j \in s : j \in Pods
      BY <2>3, <2>4, <3>1
    <3>3. CASE NoLaterThan(h, x)
      <4>1. h \in Heads(s)
        BY <3>1, <3>3
      <4> QED
        BY <2>3, <4>1
    <3>4. CASE NoLaterThan(x, h)
      <4>1. ASSUME NEW j \in s PROVE NoLaterThan(x, j)
        <5>1. CASE j = x
          BY <2>5, <5>1
        <5>2. CASE j # x
          BY <3>1, <3>2, <3>4, <5>2, OneOrder
        <5> QED
          BY <5>1, <5>2
      <4>2. x \in Heads(s)
        BY <2>4, <4>1
      <4> QED
        BY <2>3, <4>2
    <3> QED
      BY <3>2, <3>3, <3>4, OneOrder
  <2> QED
    BY <2>6, <2>7
<1>3. Heads(waiting) # {} /\ MostAwkward = Heads(waiting)
  BY <1>2 DEF MostAwkward
<1>4. \A i, j \in MostAwkward : i = j
  <2> SUFFICES ASSUME NEW i \in MostAwkward, NEW j \in MostAwkward PROVE i = j
    OBVIOUS
  <2>1. i \in Pods /\ j \in Pods /\ NoLaterThan(i, j) /\ NoLaterThan(j, i)
    BY <1>1 DEF MostAwkward
  <2> QED
    BY <2>1, OneOrder
<1> HIDE DEF Heads
<1> QED
  BY <1>3, <1>4 DEF MostAwkward

LEMMA FirstExists ==
  ASSUME NEW S, IsFiniteSet(S), S # {}
  PROVE  S \subseteq Nat => \E k \in S : IsFirst(k, S)
<1>0. SUFFICES ASSUME S \subseteq Nat PROVE \E k \in S : IsFirst(k, S)
  OBVIOUS
<1> DEFINE Has(s) == \E k \in s : \A j \in s : k <= j
           C == {s \in SUBSET S : s # {} /\ ~Has(s)}
<1>1. C = {}
  <2> SUFFICES ASSUME C # {} PROVE FALSE
    OBVIOUS
  <2>1. C \in SUBSET SUBSET S
    OBVIOUS
  <2>2. PICK s \in C : \A r \in C : ~(r \subseteq s /\ r # s)
    <3> HIDE DEF C
    <3> QED
      BY <2>1, SmallestSet
  <2>3. /\ s \in SUBSET Nat /\ s # {} /\ ~Has(s)
        /\ \A x \in s : s \ {x} = {} \/ Has(s \ {x})
    <3>1. s \in SUBSET S /\ s # {} /\ ~Has(s)
      OBVIOUS
    <3>2. ASSUME NEW x \in s, s \ {x} # {} PROVE Has(s \ {x})
      <4>1. s \ {x} \in SUBSET S /\ s \ {x} \subseteq s /\ s \ {x} # s
        BY <3>1
      <4>2. s \ {x} \notin C
        BY <2>2, <4>1
      <4> HIDE DEF Has
      <4> QED
        BY <3>2, <4>1, <4>2
    <3> QED
      BY <1>0, <3>1, <3>2
  <2> HIDE DEF C
  <2>4. PICK x \in s : TRUE
    BY <2>3
  <2>5. x \in Nat /\ \A j \in s : j \in Nat
    BY <2>3, <2>4
  <2>6. CASE s \ {x} = {}
    <3>1. \A j \in s : x <= j
      BY <2>4, <2>5, <2>6
    <3> QED
      BY <2>3, <2>4, <3>1
  <2>7. CASE s \ {x} # {}
    <3>1. PICK k \in s : \A j \in s \ {x} : k <= j
      BY <2>3, <2>4, <2>7
    <3>2. PICK m \in s : m <= k /\ m <= x
      BY <2>4, <2>5, <3>1
    <3>3. \A j \in s : m <= j
      BY <2>5, <3>1, <3>2
    <3> QED
      BY <2>3, <3>3
  <2> QED
    BY <2>6, <2>7
<1>2. Has(S)
  BY <1>1
<1> QED
  BY <1>2 DEF IsFirst

\* What plan() can do with the head of the list: the conditions its branches test.
CanHandle(i) ==
  \/ Impossible(i)
  \/ ~Impossible(i) /\ \E k \in DOMAIN free : IsFirst(k, WithRoom(i))
  \/ ~Impossible(i) /\ WithRoom(i) = {} /\ \E b \in DOMAIN bins : IsFirst(b, BinsWithRoom(i))
  \/ /\ WithRoom(i) = {} /\ BinsWithRoom(i) = {}
     /\ \E f \in DOMAIN shapes : IsFirst(f, Holding(want[i]))
  \/ shapes = <<>> /\ WithRoom(i) = {}

LEMMA SomeBranch ==
  ASSUME PackingTypeOK, NEW i \in waiting
  PROVE  CanHandle(i)
<1>1. shapes \in Seq(Amounts) /\ free \in Seq(Amounts) /\ bins \in Seq(Bins)
  BY PackingAssumption DEF PackingTypeOK
<1>2. ASSUME NEW q, NEW n \in Nat, DOMAIN q = 1 .. n, NEW S \in SUBSET DOMAIN q, S # {}
      PROVE  \E k \in DOMAIN q : IsFirst(k, S)
  <2>1. IsFiniteSet(1 .. n)
    BY Counted
  <2>2. S \in SUBSET Nat /\ IsFiniteSet(S)
    BY <1>2, <2>1, FS_Subset
  <2> QED
    BY <1>2, <2>2, FirstExists
<1>3. /\ Len(shapes) \in Nat /\ DOMAIN shapes = 1 .. Len(shapes)
      /\ Len(free) \in Nat /\ DOMAIN free = 1 .. Len(free)
      /\ Len(bins) \in Nat /\ DOMAIN bins = 1 .. Len(bins)
  BY <1>1
<1>4. CASE WithRoom(i) # {}
  <2>1. WithRoom(i) \in SUBSET DOMAIN free
    BY DEF WithRoom
  <2>2. \E k \in DOMAIN free : IsFirst(k, WithRoom(i))
    BY <1>2, <1>3, <1>4, <2>1
  <2> QED
    BY <2>2 DEF CanHandle
<1>5. CASE WithRoom(i) = {} /\ BinsWithRoom(i) # {}
  <2>1. BinsWithRoom(i) \in SUBSET DOMAIN bins
    BY DEF BinsWithRoom
  <2>2. \E b \in DOMAIN bins : IsFirst(b, BinsWithRoom(i))
    BY <1>2, <1>3, <1>5, <2>1
  <2> QED
    BY <1>5, <2>2 DEF CanHandle
<1>6. CASE WithRoom(i) = {} /\ BinsWithRoom(i) = {} /\ shapes # <<>> /\ ~Impossible(i)
  <2>1. Holding(want[i]) \in SUBSET DOMAIN shapes /\ Holding(want[i]) # {}
    BY <1>6 DEF Holding, Impossible
  <2>2. \E f \in DOMAIN shapes : IsFirst(f, Holding(want[i]))
    BY <1>2, <1>3, <2>1
  <2> QED
    BY <1>6, <2>2 DEF CanHandle
<1> QED
  BY <1>4, <1>5, <1>6 DEF CanHandle

\* What a plan goes on with, as long as pods are waiting: one pod, and a branch for it.
GoesOn == waiting # {} => \E i \in waiting : MostAwkward = {i} /\ CanHandle(i)

\* plan() never stops before every pod is handled, and it has no choice: the sorted list
\* has one head, whatever the requests are, and some branch of the loop takes it.
THEOREM PlanGoesOn == PackingSpec => []GoesOn
<1>1. PackingInv => GoesOn
  BY OneHead, SomeBranch DEF PackingInv, GoesOn
<1> QED
  BY <1>1, PlanInvariant, PTL

\* A step of the plan leaves fewer pods waiting.
Advances == waiting' \subseteq waiting /\ waiting' # waiting

\* plan() handles a pod with every step and never takes one up again, so that it ends
\* after as many steps as there are pods.
THEOREM PlanEnds == PackingSpec => [][Advances]_packingVars
<1>1. PackingNext => Advances
  <2> SUFFICES ASSUME NEW i \in MostAwkward,
                      \/ ReportNeverFits(i) \/ PlaceOnExisting(i)
                      \/ PlaceInBin(i) \/ OpenBin(i) \/ RentToMeasure(i)
               PROVE  Advances
    BY DEF PackingNext
  <2>1. i \in waiting /\ (waiting' = waiting \ {i} \/ waiting' = {})
    BY DEF MostAwkward, ReportNeverFits, PlaceOnExisting, PlaceInBin, OpenBin, RentToMeasure, Handled
  <2> QED
    BY <2>1 DEF Advances
<1>2. [PackingNext]_packingVars => [Advances]_packingVars
  BY <1>1
<1> QED
  BY <1>2, PTL DEF PackingSpec

-----------------------------------------------------------------------------
(* First fit, decreasing.                                                  *)

\* The pods up to a pod in the sorted list, and those in a bin.
UpTo(i) == {j \in Pods : NoLaterThan(j, i)}
In(home, b) == {j \in Pods : home[j] = b}

\* home has the bin of each pod, 0 for none.  A bin was opened for the first of its pods,
\* no pod of a later bin comes before that one, and a pod is in no bin with an earlier
\* one that has room for it with the pods before it.
Homes(home) ==
  /\ home \in [Pods -> DOMAIN bins \cup {0}]
  /\ \A i \in Pods : home[i] # 0 <=> i \in Packed
  /\ \A b \in DOMAIN bins : home[opener[b]] = b
  /\ \A b \in DOMAIN bins, i \in Pods : home[i] >= b => NoLaterThan(opener[b], i)
  /\ \A i \in Packed, j \in waiting : NoLaterThan(i, j)
  /\ \A b \in DOMAIN bins, d \in Dims : bins[b].used[d] = Sum(Asked(d), In(home, b))
  /\ \A i \in Pods, b \in DOMAIN bins : b < home[i] =>
       \E d \in Measured(b) : Shape(b)[d] < want[i][d] + Sum(Asked(d), In(home, b) \cap UpTo(i))

\* What a plan has made so far is what first fit, decreasing makes of the pods it handled.
FirstFitDecreasing == shapes # <<>> => \E home \in [Pods -> Nat] : Homes(home)

HomesInv == FirstFitDecreasing /\ (free = <<>> => placed = {})

LEMMA HomesStart == PackingInit => HomesInv
<1> SUFFICES ASSUME PackingInit PROVE HomesInv
  OBVIOUS
<1>1. bins = <<>> /\ waiting = Pods /\ placed = {} /\ neverFits = {} /\ DOMAIN bins = {} /\ Packed = {}
  BY DEF PackingInit, Packed
<1> DEFINE home == [i \in Pods |-> 0]
<1>2. Homes(home) /\ home \in [Pods -> Nat]
  BY <1>1 DEF Homes
<1> QED
  BY <1>1, <1>2 DEF HomesInv, FirstFitDecreasing

\* The head of the list goes into bin b, which is new or the first with room.
LEMMA OnePlaced ==
  ASSUME PackingTypeOK, PackingTypeOK', PackedInv, NEW home, Homes(home), NEW i \in MostAwkward,
         NEW b \in DOMAIN bins', DOMAIN bins' = DOMAIN bins \cup {b}, UNCHANGED <<want, shapes>>,
         waiting' = waiting \ {i}, UNCHANGED <<placed, neverFits>>,
         \A c \in DOMAIN bins : /\ opener'[c] = opener[c] /\ bins'[c].flavor = bins[c].flavor
                                /\ c # b => bins'[c].used = bins[c].used
                                /\ c < b => ~Fits(want[i], Remaining(c), Measured(c)),
         b \in DOMAIN bins => bins'[b].used = Plus(bins[b].used, want[i]),
         b \notin DOMAIN bins =>
           bins'[b].used = want[i] /\ opener'[b] = i /\ \A c \in DOMAIN bins : c < b
  PROVE  Homes([home EXCEPT ![i] = b])'
<1> DEFINE new == [home EXCEPT ![i] = b]
<1>1. i \in Pods /\ i \in waiting /\ want[i] \in Amounts /\ i \notin Packed
  BY HeadIsPod DEF MostAwkward, Packed
<1>2. /\ home \in [Pods -> DOMAIN bins \cup {0}]
      /\ \A j \in Pods : home[j] # 0 <=> j \in Packed
      /\ \A c \in DOMAIN bins : home[opener[c]] = c
      /\ \A c \in DOMAIN bins, j \in Pods : home[j] >= c => NoLaterThan(opener[c], j)
      /\ \A j \in Packed, k \in waiting : NoLaterThan(j, k)
      /\ \A c \in DOMAIN bins, d \in Dims : bins[c].used[d] = Sum(Asked(d), In(home, c))
      /\ \A j \in Pods, c \in DOMAIN bins : c < home[j] =>
           \E d \in Measured(c) : Shape(c)[d] < want[j][d] + Sum(Asked(d), In(home, c) \cap UpTo(j))
  BY DEF Homes
<1>3. DOMAIN bins \subseteq Nat \ {0} /\ DOMAIN bins' \subseteq Nat \ {0}
  BY DEF PackingTypeOK
<1>4. /\ new \in [Pods -> DOMAIN bins' \cup {0}] /\ home[i] = 0
      /\ new[i] = b /\ \A j \in Pods : j # i => new[j] = home[j]
  BY <1>1, <1>2
<1>5. \A j, k \in Pods : NoLaterThan(j, k)' <=> NoLaterThan(j, k)
  BY DEF NoLaterThan, Reference
<1>6. \A j \in Pods : UpTo(j)' = UpTo(j)
  BY <1>5 DEF UpTo
<1>7. Packed' = Packed \cup {i}
  BY <1>1 DEF Packed, PackedInv
<1>8. \A c \in DOMAIN bins : Shape(c)' = Shape(c) /\ Measured(c)' = Measured(c)
  BY DEF Shape, Measured
<1>9. /\ In(new, b) = In(home, b) \cup {i} /\ i \notin In(home, b)
      /\ \A c \in DOMAIN bins : c # b => In(new, c) = In(home, c)
  BY <1>1, <1>3, <1>4 DEF In
<1>10. \A c \in DOMAIN bins : opener[c] \in Packed /\ opener[c] \in Pods /\ opener[c] # i
  <2> SUFFICES ASSUME NEW c \in DOMAIN bins PROVE opener[c] \in Packed /\ opener[c] \in Pods
    BY <1>1
  <2>1. opener[c] \in Pods
    BY BinTypes
  <2> QED
    BY <1>2, <1>3, <2>1
<1>11. \A d \in Dims : Asked(d)' = Asked(d)
  BY DEF Asked
<1> HIDE DEF new
<1>12. \A j \in Pods : new[j] # 0 <=> j \in Packed'
  BY <1>1, <1>2, <1>3, <1>4, <1>7
<1>13. \A c \in DOMAIN bins' : new[opener'[c]] = c
  <2> SUFFICES ASSUME NEW c \in DOMAIN bins' PROVE new[opener'[c]] = c
    OBVIOUS
  <2>1. CASE c \in DOMAIN bins
    BY <1>2, <1>4, <1>10, <2>1
  <2>2. CASE c \notin DOMAIN bins
    BY <1>4, <2>2
  <2> QED
    BY <2>1, <2>2
<1>14. \A c \in DOMAIN bins', j \in Pods : new[j] >= c => NoLaterThan(opener'[c], j)
  <2> SUFFICES ASSUME NEW c \in DOMAIN bins', NEW j \in Pods, new[j] >= c
               PROVE  NoLaterThan(opener'[c], j)
    OBVIOUS
  <2>1. CASE c \in DOMAIN bins /\ j = i
    BY <1>1, <1>2, <1>10, <2>1
  <2>2. CASE c \in DOMAIN bins /\ j # i
    BY <1>2, <1>4, <2>2
  <2>3. CASE c \notin DOMAIN bins
    <3>1. c = b /\ opener'[c] = i /\ \A e \in DOMAIN bins : e < b
      BY <2>3
    <3>2. j = i
      <4> SUFFICES ASSUME j # i PROVE FALSE
        OBVIOUS
      <4>1. home[j] >= b /\ home[j] \in DOMAIN bins \cup {0}
        BY <1>2, <1>4, <3>1
      <4> QED
        BY <1>3, <3>1, <4>1
    <3> QED
      BY <1>1, <3>1, <3>2, OneOrder
  <2> QED
    BY <2>1, <2>2, <2>3
<1>15. \A j \in Packed', k \in waiting' : NoLaterThan(j, k)
  BY <1>2, <1>7 DEF MostAwkward
<1>16. \A c \in DOMAIN bins', d \in Dims : bins'[c].used[d] = Sum(Asked(d), In(new, c))
  <2> SUFFICES ASSUME NEW c \in DOMAIN bins', NEW d \in Dims
               PROVE  bins'[c].used[d] = Sum(Asked(d), In(new, c))
    OBVIOUS
  <2>1. CASE c # b
    <3>1. c \in DOMAIN bins /\ bins'[c].used = bins[c].used /\ In(new, c) = In(home, c)
      BY <1>9, <2>1
    <3> QED
      BY <1>2, <3>1
  <2>2. CASE c = b
    <3>1. /\ IsFiniteSet(In(new, b)) /\ \A j \in In(new, b) : Asked(d)[j] \in Nat
          /\ IsFiniteSet(In(home, b)) /\ \A j \in In(home, b) : Asked(d)[j] \in Nat
          /\ Asked(d)[i] = want[i][d] /\ want[i][d] \in Nat
      <4>1. In(new, b) \in SUBSET Pods /\ In(home, b) \in SUBSET Pods
        BY DEF In
      <4> QED
        BY <1>1, <4>1, SumFacts
    <3>2. i \in In(new, b) /\ In(new, b) \ {i} = In(home, b)
      BY <1>9
    <3>3. Sum(Asked(d), In(new, b)) = want[i][d] + Sum(Asked(d), In(home, b))
      BY <3>1, <3>2, SumTakesOut
    <3>4. CASE b \in DOMAIN bins
      <4>1. bins'[b].used[d] = bins[b].used[d] + want[i][d] /\ bins[b].used[d] \in Nat
        BY <3>4, BinTypes DEF Plus, Amounts
      <4>2. bins[b].used[d] = Sum(Asked(d), In(home, b))
        BY <1>2, <3>4
      <4> QED
        BY <2>2, <3>1, <3>3, <4>1, <4>2
    <3>5. CASE b \notin DOMAIN bins
      <4>1. In(home, b) = {}
        BY <1>2, <1>3, <3>5 DEF In
      <4>2. Sum(Asked(d), {}) = 0
        BY FS_EmptySet, SumTakesOut
      <4>3. bins'[b].used[d] = want[i][d]
        BY <3>5
      <4> QED
        BY <2>2, <3>1, <3>3, <4>1, <4>2, <4>3
    <3> QED
      BY <3>4, <3>5
  <2> QED
    BY <2>1, <2>2
<1>17. ASSUME NEW j \in Pods, NEW c \in DOMAIN bins', c < new[j]
       PROVE  \E d \in Measured(c)' :
                Shape(c)'[d] < want[j][d] + Sum(Asked(d), In(new, c) \cap UpTo(j))
  <2>1. c \in DOMAIN bins /\ Shape(c)' = Shape(c) /\ Measured(c)' = Measured(c)
    <3>1. c \in DOMAIN bins
      <4> SUFFICES ASSUME c \notin DOMAIN bins PROVE FALSE
        OBVIOUS
      <4>1. c = b /\ \A e \in DOMAIN bins : e < b
        OBVIOUS
      <4>2. new[j] = b \/ new[j] \in DOMAIN bins \/ new[j] = 0
        BY <1>2, <1>4
      <4> QED
        BY <1>3, <1>17, <4>1, <4>2
    <3> QED
      BY <1>8, <3>1
  <2>2. CASE j = i
    <3>1. c < b /\ ~Fits(want[i], Remaining(c), Measured(c)) /\ c # b
      BY <1>3, <1>4, <1>17, <2>1, <2>2
    <3>2. PICK d \in Measured(c) : ~(want[i][d] <= Remaining(c)[d])
      BY <3>1 DEF Fits
    <3>3. d \in Dims /\ bins[c].used[d] \in Nat /\ want[i][d] \in Nat /\ Shape(c)[d] \in Nat
      <4>1. d \in Dims
        BY <3>2 DEF Measured, Keys
      <4> QED
        BY <1>1, <2>1, <4>1, BinTypes DEF Amounts
    <3>4. Remaining(c)[d] = Shape(c)[d] - bins[c].used[d]
      BY <3>3 DEF Remaining, Minus
    <3>5. In(new, c) \cap UpTo(i) = In(home, c)
      <4>1. In(new, c) = In(home, c)
        BY <1>9, <2>1, <3>1
      <4>2. \A k \in In(home, c) : k \in Pods /\ k \in Packed
        BY <1>2, <1>3, <2>1 DEF In
      <4>3. \A k \in In(home, c) : k \in UpTo(i)
        BY <1>1, <1>2, <4>2 DEF UpTo
      <4> QED
        BY <4>1, <4>3
    <3>6. bins[c].used[d] = Sum(Asked(d), In(home, c))
      BY <1>2, <2>1, <3>3
    <3>7. Shape(c)[d] < want[i][d] + Sum(Asked(d), In(home, c))
      BY <3>2, <3>3, <3>4, <3>6
    <3> QED
      BY <2>1, <2>2, <3>5, <3>7
  <2>3. CASE j # i
    <3>1. c < home[j] /\ j \in Packed
      BY <1>2, <1>3, <1>4, <1>17, <2>1, <2>3
    <3>2. i \notin UpTo(j)
      <4>1. NoLaterThan(j, i)
        BY <1>1, <1>2, <3>1
      <4> QED
        BY <1>1, <2>3, <4>1, OneOrder DEF UpTo
    <3>3. In(new, c) \cap UpTo(j) = In(home, c) \cap UpTo(j)
      BY <1>9, <2>1, <3>2
    <3> QED
      BY <1>2, <2>1, <3>1, <3>3
  <2> QED
    BY <2>2, <2>3
<1>18. (\A c \in DOMAIN bins, j \in Pods : new[j] >= c => NoLaterThan(opener[c], j))'
  BY <1>14 DEF NoLaterThan, Reference
<1>19. (\A j \in Packed, k \in waiting : NoLaterThan(j, k))'
  BY <1>15 DEF NoLaterThan, Reference
<1>20. (\A c \in DOMAIN bins, d \in Dims : bins[c].used[d] = Sum(Asked(d), In(new, c)))'
  BY <1>11, <1>16 DEF In
<1>21. (\A j \in Pods, c \in DOMAIN bins : c < new[j] =>
          \E d \in Measured(c) : Shape(c)[d] < want[j][d] + Sum(Asked(d), In(new, c) \cap UpTo(j)))'
  <2> SUFFICES ASSUME NEW j \in Pods, NEW c \in DOMAIN bins', c < new[j]
               PROVE  \E d \in Measured(c)' :
                        Shape(c)'[d] < want'[j][d] + Sum(Asked(d)', In(new, c)' \cap UpTo(j)')
    OBVIOUS
  <2>1. PICK d \in Measured(c)' :
          Shape(c)'[d] < want[j][d] + Sum(Asked(d), In(new, c) \cap UpTo(j))
    BY <1>17
  <2>2. Asked(d)' = Asked(d) /\ UpTo(j)' = UpTo(j) /\ In(new, c)' = In(new, c)
    BY <1>6 DEF Asked, In
  <2> QED
    BY <2>1, <2>2
<1>22. (\A j \in Pods : new[j] # 0 <=> j \in Packed)' /\ (\A c \in DOMAIN bins : new[opener[c]] = c)'
  BY <1>12, <1>13
<1>23. Homes(new)'
  BY <1>4, <1>18, <1>19, <1>20, <1>21, <1>22 DEF Homes
<1> QED
  BY <1>23 DEF new

\* A pod that goes elsewhere leaves the bins as they are.
LEMMA HomesKept ==
  ASSUME UNCHANGED <<want, shapes, bins, opener>>, Packed' = Packed, waiting' \subseteq waiting,
         NEW home, Homes(home)
  PROVE  Homes(home)'
<1>1. /\ home \in [Pods -> DOMAIN bins \cup {0}]
      /\ \A j \in Pods : home[j] # 0 <=> j \in Packed
      /\ \A c \in DOMAIN bins : home[opener[c]] = c
      /\ \A c \in DOMAIN bins, j \in Pods : home[j] >= c => NoLaterThan(opener[c], j)
      /\ \A j \in Packed, k \in waiting : NoLaterThan(j, k)
      /\ \A c \in DOMAIN bins, d \in Dims : bins[c].used[d] = Sum(Asked(d), In(home, c))
      /\ \A j \in Pods, c \in DOMAIN bins : c < home[j] =>
           \E d \in Measured(c) : Shape(c)[d] < want[j][d] + Sum(Asked(d), In(home, c) \cap UpTo(j))
  BY DEF Homes
<1>2. (\A c \in DOMAIN bins, j \in Pods : home[j] >= c => NoLaterThan(opener[c], j))'
  BY <1>1 DEF NoLaterThan, Reference
<1>3. (\A j \in Packed, k \in waiting : NoLaterThan(j, k))'
  BY <1>1 DEF NoLaterThan, Reference
<1>4. (\A c \in DOMAIN bins, d \in Dims : bins[c].used[d] = Sum(Asked(d), In(home, c)))'
  BY <1>1 DEF Asked, In
<1>5. (\A j \in Pods, c \in DOMAIN bins : c < home[j] =>
         \E d \in Measured(c) : Shape(c)[d] < want[j][d] + Sum(Asked(d), In(home, c) \cap UpTo(j)))'
  <2> SUFFICES ASSUME NEW j \in Pods, NEW c \in DOMAIN bins', c < home[j]
               PROVE  \E d \in Measured(c)' :
                        Shape(c)'[d] < want'[j][d] + Sum(Asked(d)', In(home, c)' \cap UpTo(j)')
    OBVIOUS
  <2>1. PICK d \in Measured(c) :
          Shape(c)[d] < want[j][d] + Sum(Asked(d), In(home, c) \cap UpTo(j))
    BY <1>1
  <2>2. /\ Asked(d)' = Asked(d) /\ In(home, c)' = In(home, c)
        /\ Measured(c)' = Measured(c) /\ Shape(c)' = Shape(c)
    BY DEF Asked, In, Measured, Shape
  <2>3. UpTo(j)' = UpTo(j)
    BY DEF UpTo, NoLaterThan, Reference
  <2> QED
    BY <2>1, <2>2, <2>3
<1> QED
  BY <1>1, <1>2, <1>3, <1>4, <1>5 DEF Homes

LEMMA HomesStep ==
  ASSUME PackingInv, PackingInv', PackedInv, HomesInv, [PackingNext]_packingVars
  PROVE  HomesInv'
<1>0. PackingTypeOK /\ PackingTypeOK' /\ want' = want /\ shapes' = shapes
  BY DEF PackingInv, PackingNext, ReportNeverFits, PlaceOnExisting, PlaceInBin, OpenBin,
         RentToMeasure, Handled, packingVars
<1>1. CASE UNCHANGED packingVars
  <2>1. UNCHANGED <<want, shapes, bins, opener, free, placed, waiting>> /\ Packed' = Packed
    BY <1>1 DEF packingVars, plan, Packed
  <2>2. \A home : Homes(home) => Homes(home)'
    BY <2>1, HomesKept
  <2> QED
    BY <2>1, <2>2 DEF HomesInv, FirstFitDecreasing
<1>2. CASE PackingNext
  <2>1. PICK i \in MostAwkward : \/ ReportNeverFits(i) \/ PlaceOnExisting(i)
                                 \/ PlaceInBin(i) \/ OpenBin(i) \/ RentToMeasure(i)
    BY <1>2 DEF PackingNext
  <2>2. i \in Pods /\ want[i] \in Amounts /\ i \in waiting
    BY <1>0, HeadIsPod DEF MostAwkward
  <2>3. CASE ReportNeverFits(i) \/ PlaceOnExisting(i)
    <3>1. /\ UNCHANGED <<bins, opener>> /\ waiting' = waiting \ {i}
          /\ \/ neverFits' = neverFits \cup {i} /\ placed' = placed
             \/ placed' = placed \cup {i} /\ neverFits' = neverFits
      BY <2>3 DEF ReportNeverFits, PlaceOnExisting, Handled
    <3>2. Packed' = Packed
      BY <2>2, <3>1 DEF Packed
    <3>3. ASSUME NEW home, Homes(home) PROVE Homes(home)'
      BY <1>0, <3>1, <3>2, <3>3, HomesKept
    <3>4. free' = <<>> => placed' = {}
      <4>1. CASE ReportNeverFits(i)
        BY <4>1 DEF ReportNeverFits, HomesInv
      <4>2. CASE PlaceOnExisting(i)
        <5>1. PICK k \in DOMAIN free : free' = [free EXCEPT ![k] = Minus(@, want[i])]
          BY <4>2 DEF PlaceOnExisting
        <5>2. k \in DOMAIN free'
          BY <5>1
        <5> QED
          BY <5>2
      <4> QED
        BY <2>3, <4>1, <4>2
    <3> QED
      BY <1>0, <3>3, <3>4 DEF HomesInv, FirstFitDecreasing
  <2>4. ASSUME PlaceInBin(i) \/ OpenBin(i), NEW home \in [Pods -> Nat], Homes(home), shapes # <<>>
        PROVE  \E new \in [Pods -> Nat] : Homes(new)'
    <3>1. PICK b \in DOMAIN bins' :
            /\ DOMAIN bins' = DOMAIN bins \cup {b}
            /\ \A c \in DOMAIN bins : /\ opener'[c] = opener[c] /\ bins'[c].flavor = bins[c].flavor
                                      /\ c # b => bins'[c].used = bins[c].used
                                      /\ c < b => ~Fits(want[i], Remaining(c), Measured(c))
            /\ b \in DOMAIN bins => bins'[b].used = Plus(bins[b].used, want[i])
            /\ b \notin DOMAIN bins =>
                 bins'[b].used = want[i] /\ opener'[b] = i /\ \A c \in DOMAIN bins : c < b
      <4>1. CASE PlaceInBin(i)
        <5>1. PICK b \in DOMAIN bins : /\ IsFirst(b, BinsWithRoom(i))
                                       /\ bins' = [bins EXCEPT ![b].used = Plus(@, want[i])]
          BY <4>1 DEF PlaceInBin
        <5>2. bins \in Seq(Bins) /\ opener' = opener /\ DOMAIN bins \subseteq Nat
          BY <1>0, <4>1 DEF PackingTypeOK, PlaceInBin
        <5>3. /\ DOMAIN bins' = DOMAIN bins
              /\ \A c \in DOMAIN bins :
                   /\ bins'[c].used = IF c = b THEN Plus(bins[b].used, want[i]) ELSE bins[c].used
                   /\ bins'[c].flavor = bins[c].flavor
          BY <5>1, <5>2 DEF Bins
        <5>4. \A c \in DOMAIN bins : c < b => ~Fits(want[i], Remaining(c), Measured(c))
          BY <5>1, <5>2 DEF IsFirst, BinsWithRoom
        <5>5. /\ b \in DOMAIN bins' /\ DOMAIN bins' = DOMAIN bins \cup {b}
              /\ bins'[b].used = Plus(bins[b].used, want[i])
          BY <5>3
        <5>6. \A c \in DOMAIN bins : /\ opener'[c] = opener[c] /\ bins'[c].flavor = bins[c].flavor
                                     /\ c # b => bins'[c].used = bins[c].used
                                     /\ c < b => ~Fits(want[i], Remaining(c), Measured(c))
          BY <5>2, <5>3, <5>4
        <5> QED
          BY <5>5, <5>6
      <4>2. CASE OpenBin(i)
        <5>1. PICK f \in DOMAIN shapes : bins' = Append(bins, [flavor |-> f, used |-> want[i]])
          BY <4>2 DEF OpenBin, IsFirst
        <5>2. opener' = Append(opener, i) /\ BinsWithRoom(i) = {}
          BY <4>2 DEF OpenBin
        <5>3. PICK n \in Nat : n = Len(bins) /\ n = Len(opener)
          BY <1>0 DEF PackingTypeOK
        <5>4. bins \in Seq(Bins) /\ opener \in Seq(Pods)
          BY <1>0 DEF PackingTypeOK
        <5> DEFINE fresh == [flavor |-> f, used |-> want[i]]
        <5>5. fresh \in Bins /\ fresh.used = want[i] /\ bins' = Append(bins, fresh)
          <6>1. shapes \in Seq(Amounts)
            BY <1>0, PackingAssumption DEF PackingTypeOK
          <6>2. f \in Nat
            BY <6>1
          <6> QED
            BY <2>2, <5>1, <6>2 DEF Bins
        <5> HIDE DEF fresh
        <5>6. DOMAIN bins' = 1 .. n + 1 /\ DOMAIN bins = 1 .. n /\ bins'[n + 1] = fresh
          <6>0. fresh \in Bins /\ bins \in Seq(Bins) /\ Len(bins) = n
            BY <5>3, <5>4, <5>5
          <6>1. Len(Append(bins, fresh)) = n + 1 /\ Append(bins, fresh)[n + 1] = fresh
            BY <6>0
          <6>2. Append(bins, fresh) \in Seq(Bins)
            BY <5>4, <5>5
          <6> QED
            BY <5>3, <5>4, <5>5, <6>1, <6>2
        <5>7. \A c \in 1 .. n : bins'[c] = bins[c]
          <6>0. fresh \in Bins /\ bins \in Seq(Bins) /\ Len(bins) = n
            BY <5>3, <5>4, <5>5
          <6>1. \A c \in 1 .. n : Append(bins, fresh)[c] = bins[c]
            BY <6>0
          <6> QED
            BY <5>5, <6>1
        <5>8. opener'[n + 1] = i /\ \A c \in 1 .. n : opener'[c] = opener[c]
          BY <2>2, <5>2, <5>3, <5>4
        <5>9. 1 .. n + 1 = (1 .. n) \cup {n + 1} /\ n + 1 \notin 1 .. n /\ \A c \in 1 .. n : c < n + 1
          OBVIOUS
        <5>10. \A c \in 1 .. n : ~Fits(want[i], Remaining(c), Measured(c))
          BY <5>2, <5>6 DEF BinsWithRoom
        <5> DEFINE b == n + 1
        <5>11. /\ b \in DOMAIN bins' /\ DOMAIN bins' = DOMAIN bins \cup {b} /\ b \notin DOMAIN bins
               /\ bins'[b].used = want[i] /\ opener'[b] = i
          BY <5>5, <5>6, <5>8, <5>9
        <5>12. \A c \in DOMAIN bins : /\ opener'[c] = opener[c] /\ bins'[c] = bins[c] /\ c < b
                                      /\ ~Fits(want[i], Remaining(c), Measured(c))
          BY <5>6, <5>7, <5>8, <5>9, <5>10
        <5> HIDE DEF b
        <5> QED
          BY <5>11, <5>12
      <4> QED
        BY <2>4, <4>1, <4>2
    <3>2. waiting' = waiting \ {i} /\ UNCHANGED <<placed, neverFits>>
      BY <2>4 DEF PlaceInBin, OpenBin, Handled
    <3>3. Homes([home EXCEPT ![i] = b])'
      BY <1>0, <2>4, <3>1, <3>2, OnePlaced
    <3>4. b \in Nat
      BY <1>0 DEF PackingTypeOK
    <3>5. [home EXCEPT ![i] = b] \in [Pods -> Nat]
      BY <3>4
    <3> QED
      BY <3>3, <3>5
  <2>5. CASE PlaceInBin(i) \/ OpenBin(i)
    <3>1. UNCHANGED <<free, placed>>
      BY <2>5 DEF PlaceInBin, OpenBin
    <3> QED
      BY <1>0, <2>4, <2>5, <3>1 DEF HomesInv, FirstFitDecreasing
  <2>6. CASE RentToMeasure(i)
    <3>1. shapes' = <<>> /\ UNCHANGED <<free, placed>>
      BY <1>0, <2>6 DEF RentToMeasure
    <3> QED
      BY <3>1 DEF HomesInv, FirstFitDecreasing
  <2> QED
    BY <2>1, <2>3, <2>5, <2>6
<1> QED
  BY <1>1, <1>2

LEMMA HomesInvariant == PackingSpec => [](PackingInv /\ PackedInv /\ HomesInv)
<1>1. PackingInit => PackingInv /\ PackedInv /\ HomesInv
  BY InitialInv, PackedStart, HomesStart
<1>2. PackingInv /\ PackedInv /\ HomesInv /\ [PackingNext]_packingVars
        => (PackingInv /\ PackedInv /\ HomesInv)'
  BY StepKeeps, PackedStep, HomesStep
<1> QED
  BY <1>1, <1>2, PTL DEF PackingSpec

\* plan() is first fit, decreasing: there is a place for every pod it packed such that
\* what a bin holds is what its pods ask for, each bin was opened for the first of its
\* pods, and no earlier bin had room for a pod when it was the pod's turn.
THEOREM PlanIsFirstFit == PackingSpec => []FirstFitDecreasing
<1>1. PackingInv /\ PackedInv /\ HomesInv => FirstFitDecreasing
  BY DEF HomesInv
<1> QED
  BY <1>1, HomesInvariant, PTL

-----------------------------------------------------------------------------
(* The fewest machines.                                                    *)

\* home puts the pods of P, that take s of something, into k machines with cap of it,
\* decreasing and first fit: upto[i] are the pods up to i, first[b] the first in b.
Decreasing(P, s, cap, k, home, first, upto) ==
  /\ home \in [P -> 1 .. k] /\ first \in [1 .. k -> P] /\ upto \in [P -> SUBSET P]
  /\ \A b \in 1 .. k : home[first[b]] = b
  /\ \A b \in 1 .. k, i \in P : home[i] >= b => first[b] \in upto[i]
  /\ \A i \in P : i \in upto[i]
  /\ \A i \in P : \A j \in upto[i] : s[i] <= s[j]
  /\ \A i \in P, b \in 1 .. k : b < home[i] => cap < s[i] + Sum(s, {j \in upto[i] : home[j] = b})
  /\ \A b \in 1 .. k : Sum(s, {j \in P : home[j] = b}) <= cap

\* at spreads them over n machines.
Spread(P, s, cap, n, at) ==
  /\ at \in [P -> 1 .. n]
  /\ \A m \in 1 .. n : Sum(s, {j \in P : at[j] = m}) <= cap

\* Two pods that exceed a machine between them are in two machines.
LEMMA Apart ==
  ASSUME NEW P, IsFiniteSet(P), NEW s, \A i \in P : s[i] \in Nat, NEW cap \in Nat, NEW n \in Nat,
         NEW at, Spread(P, s, cap, n, at), NEW i \in P, NEW j \in P, i # j, cap < s[i] + s[j]
  PROVE  at[i] # at[j]
<1> SUFFICES ASSUME at[i] = at[j] PROVE FALSE
  OBVIOUS
<1> DEFINE S == {x \in P : at[x] = at[i]}
<1>1. IsFiniteSet(S) /\ i \in S /\ j \in S /\ \A x \in S : s[x] \in Nat
  BY FS_Subset
<1>2. Sum(s, S) <= cap
  BY DEF Spread
<1> HIDE DEF S
<1>3. s[i] + s[j] <= Sum(s, S) /\ Sum(s, S) \in Nat
  BY <1>1, TwoOfMany, SumTakesOut
<1> QED
  BY <1>1, <1>2, <1>3

\* Where the first pods of the machines all exceed a machine in pairs, none is too many.
LEMMA FirstsApart ==
  ASSUME NEW P, IsFiniteSet(P), NEW s, \A i \in P : s[i] \in Nat, NEW cap \in Nat,
         NEW k \in Nat \ {0, 1}, NEW first \in [1 .. k -> P], NEW at, Spread(P, s, cap, k - 1, at),
         \A b, c \in 1 .. k : b < c => first[b] # first[c] /\ cap < s[first[b]] + s[first[c]]
  PROVE  FALSE
<1> DEFINE f == [b \in 1 .. k |-> at[first[b]]]
<1>1. f \in [1 .. k -> 1 .. k - 1]
  BY DEF Spread
<1>2. /\ IsFiniteSet(1 .. k) /\ IsFiniteSet(1 .. k - 1)
      /\ Cardinality(1 .. k) = k /\ Cardinality(1 .. k - 1) = k - 1
  BY FS_Interval
<1> HIDE DEF f
<1>3. PICK x \in 1 .. k, y \in 1 .. k : x # y /\ f[x] = f[y]
  <2> DEFINE S == 1 .. k
             T == 1 .. k - 1
  <2>1. IsFiniteSet(S) /\ IsFiniteSet(T) /\ Cardinality(T) < Cardinality(S) /\ f \in [S -> T]
    BY <1>1, <1>2
  <2> HIDE DEF S, T
  <2>2. \E x, y \in S : x # y /\ f[x] = f[y]
    BY <2>1, FS_PigeonHole
  <2> QED
    BY <2>2 DEF S
<1>4. PICK b \in 1 .. k, c \in 1 .. k : b < c /\ f[b] = f[c]
  <2>1. x < y \/ y < x
    BY <1>3
  <2> QED
    BY <1>3, <2>1
<1>5. at[first[b]] # at[first[c]]
  <2>1. k - 1 \in Nat /\ first[b] \in P /\ first[c] \in P
    OBVIOUS
  <2> QED
    BY <1>4, <2>1, Apart
<1> QED
  BY <1>4, <1>5 DEF f

\* If the plan needs one machine more than there must be, its last one is for a small
\* pod.  Give a pod that is alone in its machine, of those up to the last first pod, a
\* weight of 2 and the others 1: the plan's machines weigh 2 each, and no machine of
\* any assignment weighs more.
LEMMA LastIsSmall ==
  ASSUME NEW P, IsFiniteSet(P), NEW s, \A i \in P : s[i] \in Nat, NEW cap \in Nat,
         NEW k \in Nat \ {0, 1}, NEW home, NEW first, NEW upto,
         Decreasing(P, s, cap, k, home, first, upto), NEW at, Spread(P, s, cap, k - 1, at)
  PROVE  3 * s[first[k]] <= cap
<1> SUFFICES ASSUME cap < 3 * s[first[k]] PROVE FALSE
  <2>1. first[k] \in P
    BY DEF Decreasing
  <2>2. s[first[k]] \in Nat
    BY <2>1
  <2> QED
    BY <2>2
<1> DEFINE w == first[k]
           E == upto[w]
           N == 1 .. k - 1
           G == [b \in 1 .. k |-> {j \in E : home[j] = b}]
           Alone == {b \in N : G[b] = {first[b]}}
           t == [i \in E |-> IF \E b \in Alone : i = first[b] THEN 2 ELSE 1]
           O == [m \in N |-> {j \in E : at[j] = m}]
<1>1. w \in P /\ w \in E /\ E \in SUBSET P /\ home[w] = k
  BY DEF Decreasing
<1>2. IsFiniteSet(E) /\ \A S \in SUBSET E : IsFiniteSet(S)
  BY <1>1, FS_Subset
<1>3. PICK sw \in Nat : sw = s[w] /\ cap < 3 * sw
  BY <1>1
<1>4. \A i \in E : i \in P /\ s[i] \in Nat /\ sw <= s[i]
  BY <1>1, <1>3 DEF Decreasing
<1>5. \A b \in N : b \in 1 .. k /\ first[b] \in E /\ home[first[b]] = b /\ b < k
  BY <1>1 DEF Decreasing
<1>6. \A b \in N : cap < sw + Sum(s, G[b])
  <2> SUFFICES ASSUME NEW b \in N PROVE cap < sw + Sum(s, {j \in E : home[j] = b})
    BY <1>5
  <2>1. b \in 1 .. k /\ b < home[w]
    BY <1>1, <1>5
  <2> QED
    BY <1>1, <1>3, <2>1 DEF Decreasing
<1>7. \A i \in E : t[i] \in Nat /\ (t[i] = 1 \/ t[i] = 2) /\ (t[i] = 2 <=> \E b \in Alone : i = first[b])
  <2> HIDE DEF Alone, E
  <2> QED
    OBVIOUS
<1>8. \A b \in 1 .. k : G[b] = {j \in E : home[j] = b}
  OBVIOUS
<1>9. \A m \in N : O[m] = {j \in E : at[j] = m}
  OBVIOUS
<1>10. Alone \subseteq N /\ \A b \in N : b \in Alone <=> G[b] = {first[b]}
  OBVIOUS
<1>11. k - 1 \in Nat /\ IsFiniteSet(N) /\ Cardinality(N) = k - 1
  BY FS_Interval
<1> HIDE DEF w, E, N, G, Alone, t, O
\* What the plan's machines weigh.
<1>12. ASSUME NEW b \in N PROVE 2 <= Sum(t, G[b])
  <2>1. IsFiniteSet(G[b]) /\ first[b] \in G[b] /\ \A i \in G[b] : i \in E /\ t[i] \in Nat /\ t[i] >= 1
    BY <1>2, <1>5, <1>7, <1>8
  <2>2. CASE b \in Alone
    <3>1. t[first[b]] = 2
      BY <1>5, <1>7, <2>2
    <3>2. Sum(t, G[b]) = t[first[b]] + Sum(t, G[b] \ {first[b]}) /\ Sum(t, G[b] \ {first[b]}) \in Nat
      <4>1. IsFiniteSet(G[b] \ {first[b]})
        BY <2>1, FS_Subset
      <4> QED
        BY <2>1, <4>1, SumTakesOut
    <3> QED
      BY <3>1, <3>2
  <2>3. CASE b \notin Alone
    <3>1. PICK y \in G[b] : y # first[b]
      BY <1>10, <2>1, <2>3
    <3>2. t[first[b]] + t[y] <= Sum(t, G[b]) /\ Sum(t, G[b]) \in Nat
      BY <2>1, <3>1, TwoOfMany, SumTakesOut
    <3>3. t[first[b]] \in Nat /\ t[first[b]] >= 1 /\ t[y] \in Nat /\ t[y] >= 1
      BY <2>1, <3>1
    <3> QED
      BY <3>2, <3>3
  <2> QED
    BY <2>2, <2>3
<1>13. 2 * (k - 1) + 1 <= Sum(t, E)
  <2> DEFINE v == [b \in 1 .. k |-> Sum(t, G[b])]
  <2>1. Divides(G, E, 1 .. k) /\ GroupSums(v, t, G, 1 .. k)
    <3>1. \A x \in E : home[x] \in 1 .. k
      BY <1>4 DEF Decreasing
    <3> QED
      BY <1>8, <3>1 DEF Divides, GroupSums
  <2>2. IsFiniteSet(1 .. k) /\ k \in 1 .. k /\ (1 .. k) \ {k} = N
    <3>1. (1 .. k) \ {k} = 1 .. k - 1
      OBVIOUS
    <3>2. IsFiniteSet(1 .. k) /\ k \in 1 .. k
      BY Counted
    <3> QED
      BY <3>1, <3>2 DEF N
  <2>3. \A b \in 1 .. k : v[b] \in Nat
    <3> SUFFICES ASSUME NEW b \in 1 .. k PROVE Sum(t, G[b]) \in Nat
      OBVIOUS
    <3>1. IsFiniteSet(G[b]) /\ \A i \in G[b] : t[i] \in Nat
      BY <1>2, <1>7, <1>8
    <3> QED
      BY <3>1, SumTakesOut
  <2>4. \A b \in N : 2 <= v[b]
    BY <1>5, <1>12
  <2>5. 1 <= v[k]
    <3>1. IsFiniteSet(G[k]) /\ w \in G[k] /\ \A i \in G[k] : t[i] \in Nat
      BY <1>1, <1>2, <1>7, <1>8
    <3>2. Sum(t, G[k]) = t[w] + Sum(t, G[k] \ {w}) /\ Sum(t, G[k] \ {w}) \in Nat
      <4>1. IsFiniteSet(G[k] \ {w})
        BY <3>1, FS_Subset
      <4> QED
        BY <3>1, <4>1, SumTakesOut
    <3>3. t[w] >= 1 /\ t[w] \in Nat
      BY <1>1, <1>7
    <3> QED
      BY <3>2, <3>3
  <2> HIDE DEF v
  <2>6. Sum(t, E) = Sum(v, 1 .. k)
    BY <1>2, <1>7, <2>1, <2>2, SumByGroup
  <2>7. Sum(v, 1 .. k) = v[k] + Sum(v, N)
    BY <2>2, <2>3, SumTakesOut
  <2>8. 2 * (k - 1) <= Sum(v, N) /\ Sum(v, N) \in Nat
    <3>1. \A b \in N : v[b] \in Nat
      BY <1>5, <2>3
    <3>2. 2 * Cardinality(N) <= Sum(v, N)
      BY <1>11, <2>4, <3>1, SumOfMany
    <3> QED
      BY <1>11, <3>1, <3>2, SumTakesOut
  <2> QED
    BY <2>2, <2>3, <2>5, <2>6, <2>7, <2>8
\* What the machines of the assignment weigh.
<1>14. ASSUME NEW m \in N PROVE Sum(t, O[m]) <= 2
  <2>1. IsFiniteSet(O[m]) /\ \A i \in O[m] : i \in E /\ t[i] \in Nat /\ s[i] \in Nat /\ sw <= s[i]
    BY <1>2, <1>4, <1>7, <1>9
  <2>2. Sum(s, O[m]) <= cap /\ Sum(s, O[m]) \in Nat
    <3>1. O[m] \in SUBSET {j \in P : at[j] = m} /\ IsFiniteSet({j \in P : at[j] = m})
      BY <1>1, <1>9, FS_Subset
    <3>2. Sum(s, O[m]) <= Sum(s, {j \in P : at[j] = m}) /\ Sum(s, {j \in P : at[j] = m}) \in Nat
      <4> DEFINE S == {j \in P : at[j] = m}
      <4>1. \A i \in S : s[i] \in Nat
        OBVIOUS
      <4> HIDE DEF S
      <4> QED
        BY <3>1, <4>1, SumOfPart, SumTakesOut DEF S
    <3>3. Sum(s, {j \in P : at[j] = m}) <= cap
      BY DEF Spread, N
    <3>4. Sum(s, O[m]) \in Nat
      BY <2>1, SumTakesOut
    <3> QED
      BY <3>2, <3>3, <3>4
  <2>3. CASE \E i \in O[m] : t[i] = 2
    <3>1. PICK i \in O[m] : t[i] = 2
      BY <2>3
    <3>2. PICK b \in N : i = first[b] /\ G[b] = {i}
      BY <1>7, <1>10, <2>1, <3>1
    <3>3. cap < sw + s[i]
      <4>1. IsFiniteSet({i}) /\ IsFiniteSet({i} \ {i}) /\ {i} \ {i} = {}
        BY <2>1, <3>1, <3>2, <1>2, <1>8, FS_EmptySet, FS_AddElement
      <4>2. Sum(s, {i}) = s[i] + Sum(s, {i} \ {i}) /\ Sum(s, {i} \ {i}) = 0
        BY <2>1, <3>1, <4>1, SumTakesOut
      <4> QED
        <5>1. cap < sw + Sum(s, G[b]) /\ Sum(s, G[b]) = s[i] + 0
          BY <1>6, <3>2, <4>2
        <5> QED
          BY <2>1, <3>1, <5>1
    <3>4. O[m] = {i}
      <4> SUFFICES ASSUME NEW j \in O[m], j # i PROVE FALSE
        BY <3>1
      <4>1. s[i] + s[j] <= Sum(s, O[m])
        BY <2>1, <3>1, TwoOfMany
      <4> QED
        BY <2>1, <2>2, <3>1, <3>3, <4>1
    <3>5. Sum(t, O[m]) = t[i] + Sum(t, O[m] \ {i}) /\ O[m] \ {i} = {}
      BY <2>1, <3>1, <3>4, SumTakesOut
    <3>6. Sum(t, {}) = 0
      BY FS_EmptySet, SumTakesOut
    <3> QED
      BY <3>1, <3>5, <3>6
  <2>4. CASE ~\E i \in O[m] : t[i] = 2
    <3>1. \A i \in O[m] : t[i] \in Nat /\ t[i] <= 1
      BY <1>7, <2>1, <2>4
    <3>2. PICK c \in Nat : c = Cardinality(O[m])
      BY <2>1, FS_CardinalityType
    <3>3. Sum(t, O[m]) <= 1 * c
      BY <2>1, <3>1, <3>2, SumOfFew
    <3>4. sw * c <= Sum(s, O[m])
      BY <2>1, <3>2, SumOfMany
    <3>5. c <= 2
      <4> SUFFICES ASSUME c > 2 PROVE FALSE
        OBVIOUS
      <4>1. PICK r \in Nat : c = 3 + r
        <5>1. c = 3 + (c - 3) /\ c - 3 \in Nat
          OBVIOUS
        <5> QED
          BY <5>1
      <4>2. sw * c = 3 * sw + sw * r /\ sw * r \in Nat
        BY <4>1
      <4> QED
        BY <1>3, <2>2, <3>4, <4>2
    <3>6. Sum(t, O[m]) \in Nat
      BY <2>1, SumTakesOut
    <3> QED
      BY <3>3, <3>5, <3>6
  <2> QED
    BY <2>3, <2>4
<1>15. Sum(t, E) <= 2 * (k - 1)
  <2> DEFINE v == [m \in N |-> Sum(t, O[m])]
  <2>1. Divides(O, E, N) /\ GroupSums(v, t, O, N)
    <3>1. \A x \in E : at[x] \in N
      BY <1>4 DEF Spread, N
    <3> QED
      BY <1>9, <3>1 DEF Divides, GroupSums
  <2>2. \A m \in N : v[m] \in Nat /\ v[m] <= 2
    <3> SUFFICES ASSUME NEW m \in N PROVE Sum(t, O[m]) \in Nat /\ Sum(t, O[m]) <= 2
      OBVIOUS
    <3>1. IsFiniteSet(O[m]) /\ \A i \in O[m] : t[i] \in Nat
      BY <1>2, <1>7, <1>9
    <3> QED
      BY <1>14, <3>1, SumTakesOut
  <2> HIDE DEF v
  <2>3. Sum(t, E) = Sum(v, N)
    BY <1>2, <1>7, <1>11, <2>1, SumByGroup
  <2>4. Sum(v, N) <= 2 * Cardinality(N)
    BY <1>11, <2>2, SumOfFew
  <2> QED
    BY <1>11, <2>3, <2>4
<1>16. Sum(t, E) \in Nat
  BY <1>2, <1>7, SumTakesOut
<1> QED
  BY <1>11, <1>13, <1>15, <1>16

LEMMA OneMore ==
  ASSUME NEW S, IsFiniteSet(S), NEW x, x \notin S, NEW T, T = S \cup {x}
  PROVE  IsFiniteSet(T) /\ Cardinality(T) = Cardinality(S) + 1
BY FS_AddElement

\* Nor does the plan need one machine more than there must be for four pods.
LEMMA FewArePacked ==
  ASSUME NEW P, IsFiniteSet(P), Cardinality(P) <= 4, NEW s, \A i \in P : s[i] \in Nat, NEW cap \in Nat,
         NEW k \in Nat \ {0, 1}, NEW home, NEW first, NEW upto,
         Decreasing(P, s, cap, k, home, first, upto), NEW at, Spread(P, s, cap, k - 1, at)
  PROVE  FALSE
<1> DEFINE With(i, b) == {j \in upto[i] : home[j] = b}
<1>1. /\ home \in [P -> 1 .. k] /\ first \in [1 .. k -> P] /\ upto \in [P -> SUBSET P]
      /\ \A b \in 1 .. k : home[first[b]] = b
      /\ \A b \in 1 .. k, i \in P : home[i] >= b => first[b] \in upto[i]
      /\ \A i \in P : \A j \in upto[i] : s[i] <= s[j]
      /\ \A i \in P, b \in 1 .. k : b < home[i] => cap < s[i] + Sum(s, With(i, b))
  BY DEF Decreasing
<1>2. ASSUME NEW i \in P, NEW b \in 1 .. k
      PROVE  /\ IsFiniteSet(With(i, b)) /\ \A j \in With(i, b) : j \in P /\ home[j] = b /\ s[j] \in Nat
             /\ Sum(s, With(i, b)) \in Nat
  <2>1. IsFiniteSet(With(i, b)) /\ \A j \in With(i, b) : j \in P /\ home[j] = b /\ s[j] \in Nat
    BY <1>1, FS_Subset
  <2> HIDE DEF With
  <2> QED
    BY <2>1, SumTakesOut
<1> HIDE DEF With
<1>3. \A b, c \in 1 .. k : b < c => first[b] # first[c]
  <2> SUFFICES ASSUME NEW b \in 1 .. k, NEW c \in 1 .. k, b < c PROVE first[b] # first[c]
    OBVIOUS
  <2>1. home[first[b]] = b /\ home[first[c]] = c
    BY <1>1
  <2> QED
    BY <2>1
\* A pod does not fit a machine with nothing but its first pod in it.
<1>4. ASSUME NEW b \in 1 .. k, \A j \in P : home[j] = b => j = first[b],
             NEW i \in P, b < home[i]
      PROVE  cap < s[i] + s[first[b]]
  <2>1. first[b] \in P /\ s[first[b]] \in Nat /\ s[i] \in Nat
    BY <1>1
  <2>2. Sum(s, With(i, b)) <= s[first[b]]
    <3>1. CASE With(i, b) = {}
      <4>1. Sum(s, With(i, b)) = 0
        BY <1>2, <3>1, SumTakesOut
      <4> QED
        BY <2>1, <4>1
    <3>2. CASE With(i, b) # {}
      <4>1. With(i, b) = {first[b]}
        BY <1>2, <1>4, <3>2
      <4>2. /\ Sum(s, With(i, b)) = s[first[b]] + Sum(s, With(i, b) \ {first[b]})
            /\ With(i, b) \ {first[b]} = {}
        BY <1>2, <4>1, SumTakesOut
      <4>3. Sum(s, {}) = 0
        BY FS_EmptySet, SumTakesOut
      <4>4. Sum(s, With(i, b)) = s[first[b]] + 0
        BY <4>2, <4>3
      <4> QED
        BY <2>1, <4>4
    <3> QED
      BY <3>1, <3>2
  <2>3. cap < s[i] + Sum(s, With(i, b)) /\ Sum(s, With(i, b)) \in Nat
    BY <1>1, <1>2, <1>4
  <2> QED
    BY <2>1, <2>2, <2>3
<1>5. CASE \A b \in 1 .. k - 1, j \in P : home[j] = b => j = first[b]
  <2>1. ASSUME NEW b \in 1 .. k, NEW c \in 1 .. k, b < c
        PROVE  first[b] # first[c] /\ cap < s[first[b]] + s[first[c]]
    <3>1. b \in 1 .. k - 1 /\ first[b] \in P /\ first[c] \in P /\ home[first[c]] = c
      BY <1>1, <2>1
    <3>2. cap < s[first[c]] + s[first[b]] /\ s[first[c]] \in Nat /\ s[first[b]] \in Nat
      BY <1>4, <1>5, <2>1, <3>1
    <3> QED
      BY <1>3, <2>1, <3>2
  <2> QED
    BY <1>1, <2>1, FirstsApart
<1>6. ASSUME NEW b \in 1 .. k - 1, NEW z \in P, home[z] = b, z # first[b] PROVE FALSE
  <2>1. b \in 1 .. k /\ \A c \in 1 .. k : first[c] \in P /\ first[c] # z
    BY <1>1, <1>6
  <2>2. CASE k = 2
    <3>1. \A i \in P : at[i] = 1
      <4>1. at \in [P -> 1 .. 1]
        BY <2>2 DEF Spread
      <4> QED
        BY <4>1
    <3>2. {j \in P : at[j] = 1} = P /\ 1 \in 1 .. k - 1
      BY <2>2, <3>1
    <3>3. Sum(s, P) <= cap
      BY <3>2 DEF Spread
    <3>4. PICK x \in P : x = first[2] /\ home[x] = 2
      BY <1>1, <2>2
    <3>5. cap < s[x] + Sum(s, With(x, 1))
      BY <1>1, <2>2, <3>4
    <3>6. With(x, 1) \in SUBSET (P \ {x}) /\ IsFiniteSet(P \ {x})
      BY <1>2, <2>2, <3>4, FS_Subset
    <3>7. Sum(s, With(x, 1)) <= Sum(s, P \ {x}) /\ Sum(s, P \ {x}) \in Nat /\ Sum(s, With(x, 1)) \in Nat
      BY <1>2, <2>2, <3>6, SumOfPart, SumTakesOut
    <3>8. Sum(s, P) = s[x] + Sum(s, P \ {x})
      BY SumTakesOut
    <3> QED
      BY <3>3, <3>5, <3>7, <3>8
  <2>3. CASE k >= 3
    <3>0. 1 \in 1 .. k /\ 2 \in 1 .. k /\ 3 \in 1 .. k
      BY <2>3
    <3>1. PICK x \in P, y \in P, w \in P :
            /\ x = first[1] /\ y = first[2] /\ w = first[3]
            /\ home[x] = 1 /\ home[y] = 2 /\ home[w] = 3
      BY <1>1, <3>0
    <3>2. x # y /\ x # w /\ y # w /\ z # x /\ z # y /\ z # w
      BY <2>1, <3>0, <3>1
    <3>3. IsFiniteSet({x, y, w, z}) /\ Cardinality({x, y, w, z}) = 4
      <4>1. IsFiniteSet({}) /\ Cardinality({}) = 0
        BY FS_EmptySet
      <4>2. IsFiniteSet({x}) /\ Cardinality({x}) = 1
        <5>1. {x} = {} \cup {x} /\ x \notin {}
          OBVIOUS
        <5>2. IsFiniteSet({x}) /\ Cardinality({x}) = Cardinality({}) + 1
          BY <4>1, <5>1, OneMore, Zenon
        <5> QED
          BY <4>1, <5>2
      <4>3. IsFiniteSet({x, y}) /\ Cardinality({x, y}) = 2
        <5>1. {x, y} = {x} \cup {y} /\ y \notin {x}
          BY <3>2
        <5>2. IsFiniteSet({x, y}) /\ Cardinality({x, y}) = Cardinality({x}) + 1
          BY <4>2, <5>1, OneMore, Zenon
        <5> QED
          BY <4>2, <5>2
      <4>4. IsFiniteSet({x, y, w}) /\ Cardinality({x, y, w}) = 3
        <5>1. {x, y, w} = {x, y} \cup {w} /\ w \notin {x, y}
          BY <3>2
        <5>2. IsFiniteSet({x, y, w}) /\ Cardinality({x, y, w}) = Cardinality({x, y}) + 1
          BY <4>3, <5>1, OneMore, Zenon
        <5> QED
          BY <4>3, <5>2
      <4>5. {x, y, w, z} = {x, y, w} \cup {z} /\ z \notin {x, y, w}
        BY <3>2
      <4> QED
        BY <4>4, <4>5, OneMore
    <3>4. P = {x, y, w, z}
      <4>1. {x, y, w, z} \in SUBSET P /\ Cardinality(P) \in Nat
        BY FS_CardinalityType
      <4>2. Cardinality({x, y, w, z}) <= Cardinality(P)
        BY <4>1, FS_Subset
      <4>3. Cardinality(P) = Cardinality({x, y, w, z})
        BY <3>3, <4>1, <4>2
      <4> QED
        BY <4>1, <4>3, FS_Subset
    <3>5. k = 3 /\ (b = 1 \/ b = 2)
      <4>1. k = 3
        <5> SUFFICES ASSUME 4 \in 1 .. k PROVE FALSE
          BY <2>3
        <5>1. first[4] \in P /\ home[first[4]] = 4 /\ first[4] # z
          BY <1>1, <2>1
        <5> QED
          BY <3>1, <3>4, <5>1
      <4> QED
        BY <4>1
    <3>6. s[x] \in Nat /\ s[y] \in Nat /\ s[w] \in Nat /\ s[z] \in Nat
      OBVIOUS
    <3>7. CASE b = 1
      <4>1. cap < s[w] + s[y]
        <5>1. \A j \in P : home[j] = 2 => j = first[2]
          BY <1>6, <3>1, <3>4, <3>7
        <5> QED
          BY <1>4, <3>0, <3>1, <5>1
      <4>2. s[y] <= s[x] /\ s[w] <= s[y]
        BY <1>1, <3>0, <3>1
      <4>3. \A c, d \in 1 .. k : c < d => first[c] # first[d] /\ cap < s[first[c]] + s[first[d]]
        <5> SUFFICES ASSUME NEW c \in 1 .. k, NEW d \in 1 .. k, c < d
                     PROVE  cap < s[first[c]] + s[first[d]]
          BY <1>3
        <5>1. (c = 1 /\ d = 2) \/ (c = 1 /\ d = 3) \/ (c = 2 /\ d = 3)
          BY <3>5
        <5> QED
          BY <3>1, <3>6, <4>1, <4>2, <5>1
      <4> QED
        BY <1>1, <4>3, FirstsApart
    <3>8. CASE b = 2
      <4>1. \A j \in P : home[j] = 1 => j = first[1]
        BY <1>6, <3>1, <3>4, <3>8
      <4>2. cap < s[y] + s[x] /\ cap < s[w] + s[x] /\ cap < s[z] + s[x]
        BY <1>4, <1>6, <3>0, <3>1, <3>8, <4>1
      <4>3. at[x] # at[y] /\ at[x] # at[w] /\ at[x] # at[z]
        <5>1. k - 1 \in Nat
          OBVIOUS
        <5>2. cap < s[x] + s[y] /\ cap < s[x] + s[w] /\ cap < s[x] + s[z]
          BY <3>6, <4>2
        <5> QED
          BY <3>2, <5>1, <5>2, Apart
      <4>4. at[w] = at[y] /\ at[z] = at[y] /\ at[y] \in 1 .. k - 1
        <5>1. at \in [P -> 1 .. 2]
          BY <3>5 DEF Spread
        <5>2. at[x] \in 1 .. 2 /\ at[y] \in 1 .. 2 /\ at[w] \in 1 .. 2 /\ at[z] \in 1 .. 2
          BY <5>1
        <5> QED
          BY <3>5, <4>3, <5>2
      <4>5. s[y] + s[w] + s[z] <= cap
        <5> DEFINE S == {j \in P : at[j] = at[y]}
        <5>1. IsFiniteSet(S) /\ y \in S /\ w \in S /\ z \in S /\ \A j \in S : s[j] \in Nat
          BY <4>4, FS_Subset
        <5>2. Sum(s, S) <= cap
          BY <4>4 DEF Spread
        <5> HIDE DEF S
        <5>3. s[y] + s[w] + s[z] <= Sum(s, S) /\ Sum(s, S) \in Nat
          BY <3>2, <5>1, ThreeOfMany, SumTakesOut
        <5> QED
          BY <3>6, <5>2, <5>3
      <4>6. Sum(s, With(w, 2)) <= s[y] + s[z]
        <5>1. With(w, 2) \in SUBSET {y, z}
          BY <1>2, <3>0, <3>1, <3>4
        <5>2. IsFiniteSet({y, z}) /\ Sum(s, {y, z}) = s[y] + s[z]
          BY <3>2, SumOfTwo
        <5> QED
          BY <5>1, <5>2, SumOfPart
      <4>7. cap < s[w] + Sum(s, With(w, 2)) /\ Sum(s, With(w, 2)) \in Nat
        <5>1. 2 \in 1 .. k /\ 2 < home[w]
          BY <3>0, <3>1
        <5> QED
          BY <1>1, <1>2, <5>1
      <4> QED
        BY <3>6, <4>5, <4>6, <4>7
    <3> QED
      BY <3>5, <3>7, <3>8
  <2> QED
    BY <2>2, <2>3
<1> QED
  BY <1>5, <1>6

\* Where the problem is the classic one, what a plan makes is a packing of that kind.
LEMMA FewestHolds ==
  ASSUME PackingInv, PackedInv, HomesInv
  PROVE  FewestMachines
<1> SUFFICES ASSUME waiting = {}, Len(bins) > 1, Classic, Cardinality(Pods) <= 4 \/ LastIsLarge,
                    Suffice(Len(bins) - 1)
             PROVE  FALSE
  BY DEF FewestMachines
<1>1. /\ PackingTypeOK /\ shapes # <<>> /\ DOMAIN shapes = {1} /\ shapes[1] \in Amounts
      /\ placed = {} /\ Packed = Pods
  <2>1. PackingTypeOK /\ Len(shapes) = 1 /\ neverFits = {} /\ placed = {}
    BY DEF PackingInv, Classic, HomesInv
  <2> QED
    BY <2>1, OneFlavor DEF Packed
<1>2. PICK k \in Nat \ {0, 1} : k = Len(bins) /\ DOMAIN bins = 1 .. k
  <2>1. Len(bins) \in Nat \ {0, 1} /\ DOMAIN bins = 1 .. Len(bins)
    BY <1>1 DEF PackingTypeOK
  <2> QED
    BY <2>1
<1>3. PICK home : Homes(home)
  BY <1>1 DEF HomesInv, FirstFitDecreasing
<1>4. /\ home \in [Pods -> 1 .. k] /\ opener \in [1 .. k -> Pods]
      /\ \A b \in 1 .. k : home[opener[b]] = b
      /\ \A b \in 1 .. k, i \in Pods : home[i] >= b => opener[b] \in UpTo(i)
  <2>1. home \in [Pods -> DOMAIN bins \cup {0}] /\ \A i \in Pods : home[i] # 0
    BY <1>1, <1>3 DEF Homes
  <2>2. home \in [Pods -> 1 .. k]
    BY <1>2, <2>1
  <2>3. opener \in [1 .. k -> Pods]
    BY <1>1, <1>2 DEF PackingTypeOK
  <2> QED
    BY <1>2, <1>3, <2>2, <2>3 DEF Homes, UpTo
<1>5. \A b \in 1 .. k : Shape(b) = shapes[1] /\ Measured(b) = Keys(shapes[1])
  <2>1. \A b \in 1 .. k : bins[b].flavor = 1
    BY <1>1, <1>2 DEF PackedInv
  <2> QED
    BY <2>1 DEF Shape, Measured, NoFlavor
<1>6. ASSUME NEW i \in Pods, NEW b \in 1 .. k, b < home[i]
      PROVE  \E d \in Keys(shapes[1]) \cap Scarce :
               shapes[1][d] < want[i][d] + Sum(Asked(d), In(home, b) \cap UpTo(i))
  <2>1. PICK d \in Keys(shapes[1]) :
          shapes[1][d] < want[i][d] + Sum(Asked(d), In(home, b) \cap UpTo(i))
    BY <1>2, <1>3, <1>5, <1>6 DEF Homes
  <2>2. d \in Dims /\ shapes[1][d] \in Nat
    BY <1>1 DEF Keys, Amounts
  <2>3. /\ IsFiniteSet(Pods) /\ \A S \in SUBSET Pods : IsFiniteSet(S)
        /\ \A j \in Pods : Asked(d)[j] = want[j][d] /\ Asked(d)[j] \in Nat
    BY <1>1, <2>2, SumFacts
  <2>4. In(home, b) \cap UpTo(i) \in SUBSET (Pods \ {i})
    BY <1>4, <1>6 DEF In
  <2>5. Sum(Asked(d), In(home, b) \cap UpTo(i)) <= Sum(Asked(d), Pods \ {i})
    BY <2>3, <2>4, SumOfPart
  <2>6. Sum(Asked(d), Pods) = want[i][d] + Sum(Asked(d), Pods \ {i})
    <3>1. Sum(Asked(d), Pods) = Asked(d)[i] + Sum(Asked(d), Pods \ {i})
      BY <2>3, SumTakesOut
    <3> QED
      BY <2>3, <3>1
  <2>7. /\ Sum(Asked(d), In(home, b) \cap UpTo(i)) \in Nat
        /\ Sum(Asked(d), Pods \ {i}) \in Nat /\ want[i][d] \in Nat
    BY <2>3, <2>4, SumTakesOut
  <2>8. Sum(Asked(d), Pods) > shapes[1][d]
    BY <2>1, <2>2, <2>5, <2>6, <2>7
  <2> QED
    BY <2>1, <2>2, <2>8 DEF Scarce, Sum
<1>7. PICK d \in Keys(shapes[1]) : Scarce = {d}
  <2>1. 1 \in 1 .. k /\ 2 \in 1 .. k /\ opener[2] \in Pods /\ 1 < home[opener[2]]
    BY <1>4
  <2>2. PICK d \in Keys(shapes[1]) \cap Scarce : TRUE
    BY <1>6, <2>1
  <2>3. IsFiniteSet(Scarce) /\ Cardinality(Scarce) <= 1 /\ Cardinality(Scarce) \in Nat
    <3>1. Scarce \in SUBSET Dims
      BY DEF Scarce
    <3>2. IsFiniteSet(Scarce)
      BY <3>1, PackingAssumption, FS_Subset
    <3> QED
      BY <3>2, FS_CardinalityType DEF Classic
  <2>4. ASSUME NEW e \in Scarce, e # d PROVE FALSE
    <3>1. IsFiniteSet(Scarce \ {d}) /\ Cardinality(Scarce \ {d}) = Cardinality(Scarce) - 1
      BY <2>2, <2>3, FS_RemoveElement
    <3>2. Cardinality(Scarce \ {d}) = 0
      <4>1. Cardinality(Scarce \ {d}) \in Nat
        BY <3>1, FS_CardinalityType
      <4> QED
        BY <2>3, <3>1, <4>1
    <3>3. Scarce \ {d} = {}
      BY <3>1, <3>2, FS_EmptySet
    <3> QED
      BY <2>4, <3>3
  <2> QED
    BY <2>2, <2>4
<1>8. PICK cap \in Nat : cap = shapes[1][d] /\ d \in Dims
  BY <1>1 DEF Keys, Amounts
<1>9. /\ IsFiniteSet(Pods) /\ \A i \in Pods : Asked(d)[i] = want[i][d] /\ Asked(d)[i] \in Nat
  BY <1>1, <1>8, SumFacts
<1> DEFINE upto == [i \in Pods |-> UpTo(i)]
           s == Asked(d)
<1>10. Decreasing(Pods, s, cap, k, home, opener, upto)
  <2>1. upto \in [Pods -> SUBSET Pods] /\ \A i \in Pods : upto[i] = UpTo(i)
    BY DEF UpTo
  <2>2. \A i \in Pods : i \in UpTo(i)
    BY <1>1, OneOrder DEF UpTo
  <2>3. ASSUME NEW i \in Pods, NEW j \in UpTo(i) PROVE s[i] <= s[j]
    <3>1. j \in Pods /\ AsAwkward(want[j], want[i], Reference)
      BY DEF UpTo, NoLaterThan
    <3> QED
      BY <1>7, <1>9, <3>1 DEF Classic
  <2>4. ASSUME NEW i \in Pods, NEW b \in 1 .. k, b < home[i]
        PROVE  cap < s[i] + Sum(s, {j \in UpTo(i) : home[j] = b})
    <3>1. cap < s[i] + Sum(s, In(home, b) \cap UpTo(i))
      BY <1>6, <1>7, <1>8, <1>9, <2>4
    <3>2. In(home, b) \cap UpTo(i) = {j \in UpTo(i) : home[j] = b}
      BY DEF In, UpTo
    <3> QED
      BY <3>1, <3>2
  <2>5. ASSUME NEW b \in 1 .. k PROVE Sum(s, {j \in Pods : home[j] = b}) <= cap
    <3>1. bins[b].used[d] = Sum(s, In(home, b)) /\ bins[b].used \in Amounts
      BY <1>1, <1>2, <1>3, <1>8, BinTypes DEF Homes
    <3>2. Fits(bins[b].used, shapes[1], Keys(shapes[1]))
      BY <1>2, <1>5 DEF PackingInv, NoBinOverflows
    <3>3. bins[b].used[d] <= cap
      BY <1>8, <3>1, <3>2 DEF Fits, Keys, Amounts
    <3> QED
      BY <3>1, <3>3 DEF In
  <2> HIDE DEF upto, s
  <2> QED
    BY <1>4, <2>1, <2>2, <2>3, <2>4, <2>5 DEF Decreasing
<1>11. PICK at : Spread(Pods, s, cap, k - 1, at)
  BY <1>2, <1>7, <1>8 DEF Suffice, Spread, Sum
<1>12. CASE Cardinality(Pods) <= 4
  <2> HIDE DEF upto, s
  <2>1. \A i \in Pods : s[i] \in Nat
    BY <1>9 DEF s
  <2> QED
    BY <1>9, <1>10, <1>11, <1>12, <2>1, FewArePacked
<1>13. CASE LastIsLarge
  <2>1. \A i \in Pods : s[i] \in Nat
    BY <1>9
  <2>2. 3 * s[opener[k]] <= cap
    <3> HIDE DEF upto, s
    <3> QED
      BY <1>9, <1>10, <1>11, <2>1, LastIsSmall
  <2>3. opener[k] \in Pods /\ s[opener[k]] = want[opener[k]][d] /\ s[opener[k]] \in Nat
    BY <1>4, <1>9
  <2>4. 3 * want[opener[k]][d] > cap
    BY <1>2, <1>7, <1>8, <1>13 DEF LastIsLarge
  <2> QED
    BY <2>2, <2>3, <2>4
<1> QED
  BY <1>12, <1>13

\* "Within a small constant of optimal", where the problem is the classic one: a plan for
\* no more than four pods, or one of any number of pods whose last machine is rented for
\* a large pod, rents no machine more than there must be.
THEOREM PlanRentsTheFewest == PackingSpec => []FewestMachines
<1>1. PackingInv /\ PackedInv /\ HomesInv => FewestMachines
  BY FewestHolds
<1> QED
  BY <1>1, HomesInvariant, PTL

-----------------------------------------------------------------------------
(* Pass after pass: types.                                                 *)

SizedInv ==
  /\ PackingInv /\ SizingTypeOK
  /\ \E c \in Catalogs : shapes = ShapesFor(c.reported) /\ real = c.real

Within(v, w) == \A d \in Dims : v[d] <= w[d]

\* What pods ask for together: a vector, and the less the fewer they are.
LEMMA RequestedFacts ==
  ASSUME PackingTypeOK, NEW S \in SUBSET Pods, NEW T \in SUBSET S
  PROVE  /\ Requested(S) \in Amounts /\ Within(Requested(T), Requested(S))
         /\ Requested({}) = Nothing
<1>1. ASSUME NEW d \in Dims
      PROVE  /\ SumFunctionOnSet(Asked(d), S) \in Nat
             /\ SumFunctionOnSet(Asked(d), T) <= SumFunctionOnSet(Asked(d), S)
             /\ SumFunctionOnSet(Asked(d), {}) = 0
  <2>1. /\ IsFiniteSet(S) /\ \A i \in S : Asked(d)[i] \in Nat
        /\ IsFiniteSet({}) /\ \A i \in {} : Asked(d)[i] \in Nat
    BY SumFacts, FS_EmptySet
  <2> QED
    BY <2>1, SumTakesOut, SumOfPart DEF Sum
<1> QED
  BY <1>1 DEF Requested, Within, Amounts, Nothing

\* A difference that is cut off at zero, and when it is the greater.
LEMMA ClampedFacts ==
  ASSUME NEW v \in Amounts, NEW w \in Amounts
  PROVE  /\ ClampZero(Minus(v, w)) \in Amounts /\ ClampZero(Minus(v, Nothing)) = v
         /\ \A u \in Amounts :
              Within(u, w) => Within(ClampZero(Minus(v, w)), ClampZero(Minus(v, u)))
BY DEF ClampZero, Minus, Amounts, Nothing, Within

LEMMA SizedFacts ==
  ASSUME SizedInv
  PROVE  /\ PackingTypeOK /\ SizingTypeOK
         /\ shapes \in Seq(Amounts) /\ real \in Seq(Amounts) /\ MaxMachines \in Nat
         /\ \A i \in Pods : want[i] \in Amounts
         /\ \A m \in Ids : machines[m].flavor \in Nat /\ machines[m].has \in Amounts
         /\ \A m \in Ids : RoomOn(m) \in Amounts /\ UsedOn(m) \in Amounts
         /\ Reference \in Amounts /\ Nothing \in Amounts
<1>1. PackingTypeOK /\ SizingTypeOK
  BY DEF SizedInv, PackingInv
<1>2. shapes \in Seq(Amounts) /\ real \in Seq(Amounts) /\ MaxMachines \in Nat
  BY SizingAssumption, PackingAssumption DEF SizedInv
<1>3. \A i \in Pods : want[i] \in Amounts
  BY <1>1, PackingAssumption DEF PackingTypeOK
<1>4. \A m \in Ids : machines[m].flavor \in Nat /\ machines[m].has \in Amounts
  BY <1>1, <1>2 DEF SizingTypeOK, Machine
<1>5. Nothing \in Amounts
  BY DEF Nothing, Amounts
<1>6. Reference \in Amounts
  BY <1>2, <1>5 DEF Reference
<1>7. \A m \in Ids : UsedOn(m) \in Amounts
  BY <1>1, RequestedFacts DEF UsedOn, On
<1>8. ASSUME NEW m \in Ids PROVE RoomOn(m) \in Amounts
  <2>1. BootingShape(m) \in Amounts
    BY <1>2, <1>6 DEF BootingShape
  <2>2. ClampZero(Minus(machines[m].has, UsedOn(m))) \in Amounts
    BY <1>4, <1>7, ClampedFacts
  <2> QED
    BY <2>1, <2>2 DEF RoomOn
<1> QED
  BY <1>1, <1>2, <1>3, <1>4, <1>5, <1>6, <1>7, <1>8

\* An inventory, in whatever order, has every machine of the pool that is not out.
LEMMA SeqsListAll ==
  ASSUME NEW S, IsFiniteSet(S), NEW q \in SetToSeqs(S)
  PROVE  q \in Seq(S) /\ \A x \in S : \E k \in DOMAIN q : q[k] = x
<1>1. Cardinality(S) \in Nat
  BY FS_CardinalityType
<1>2. PICK k \in Nat : k = Cardinality(S)
  BY <1>1
<1>3. q \in [1 .. k -> S] /\ \A i, j \in 1 .. k : i # j => q[i] # q[j]
  BY <1>2 DEF SetToSeqs
<1>4. q \in Injection(1 .. k, S)
  BY <1>3 DEF Injection, IsInjective
<1>5. IsFiniteSet(1 .. k) /\ Cardinality(1 .. k) = k
  BY Counted
<1>6. q \in Surjection(1 .. k, S)
  BY <1>2, <1>4, <1>5, FS_Injection
<1>7. \A x \in S : \E i \in 1 .. k : q[i] = x
  BY <1>6 DEF Surjection
<1> QED
  BY <1>3, <1>7

LEMMA OrdersListAll ==
  ASSUME SizedInv, NEW order \in Orders
  PROVE  /\ order \in Seq(Fleet)
         /\ \A m \in Fleet \ Out : \E k \in DOMAIN order : order[k] = m
<1>1. PICK r \in SetToSeqs(Ready), b \in SetToSeqs(Booting) : order = r \o b
  BY DEF Orders
<1>2. IsFiniteSet(Ids) /\ Ready \subseteq Ids /\ Booting \subseteq Ids
  <2>1. MaxMachines \in Int /\ 1 \in Int
    BY SizedFacts
  <2>2. IsFiniteSet(1 .. MaxMachines)
    BY <2>1, Counted
  <2> QED
    BY <2>2 DEF Ids, Ready, Booting
<1>3. IsFiniteSet(Ready) /\ IsFiniteSet(Booting)
  BY <1>2, FS_Subset
<1>4. /\ r \in Seq(Ready) /\ \A x \in Ready : \E k \in DOMAIN r : r[k] = x
      /\ b \in Seq(Booting) /\ \A x \in Booting : \E k \in DOMAIN b : b[k] = x
  BY <1>3, SeqsListAll
<1>5. r \in Seq(Fleet) /\ b \in Seq(Fleet)
  BY <1>4 DEF Fleet
<1>6. order \in Seq(Fleet)
  BY <1>1, <1>5
<1>7. ASSUME NEW m \in Fleet \ Out PROVE \E k \in DOMAIN order : order[k] = m
  <2>1. CASE m \in Ready
    <3>1. PICK k \in DOMAIN r : r[k] = m
      BY <1>4, <2>1
    <3>2. k \in DOMAIN order /\ order[k] = m
      BY <1>1, <1>5, <3>1
    <3> QED
      BY <3>2
  <2>2. CASE m \in Booting
    <3>1. PICK k \in DOMAIN b : b[k] = m
      BY <1>4, <2>2
    <3>2. Len(r) + k \in DOMAIN order /\ order[Len(r) + k] = m
      BY <1>1, <1>5, <3>1
    <3> QED
      BY <3>2
  <2> QED
    BY <2>1, <2>2 DEF Fleet
<1> QED
  BY <1>6, <1>7

\* A plan that starts with vectors of what is free is of its types, and empty.
LEMMA PlanStarts ==
  ASSUME PackingTypeOK, NEW S \in SUBSET Pods, NEW running \in Seq(Amounts),
         StartPlan(S, running), UNCHANGED <<want, shapes>>
  PROVE  PackingInv'
BY DEF StartPlan, PackingTypeOK, PackingInv, NoBinOverflows, NoneInVain

LEMMA SizedStart == SizingInit => SizedInv
<1> SUFFICES ASSUME SizingInit PROVE SizedInv
  OBVIOUS
<1>1. PICK c \in Catalogs : shapes = ShapesFor(c.reported) /\ real = c.real
  BY DEF SizingInit
<1>2. shapes \in ShapeLists /\ real \in Seq(Amounts)
  BY <1>1, SizingAssumption
<1>3. PackingInv
  BY <1>2 DEF SizingInit, PackingTypeOK, PackingInv, NoBinOverflows, NoneInVain
<1>4. NoMachine \in Machine
  BY <1>2 DEF Machine, NoMachine, NoFlavor, Nothing, Amounts
<1>5. SizingTypeOK
  BY <1>3, <1>4 DEF PackingInv, SizingInit, SizingTypeOK, NoWhere
<1> QED
  BY <1>1, <1>3, <1>5 DEF SizedInv

LEMMA SizedStep == ASSUME SizedInv, [SizingNext]_sizingVars PROVE SizedInv'
<1>0. /\ PackingInv /\ SizingTypeOK /\ want' = want /\ shapes' = shapes /\ real' = real
      /\ \E c \in Catalogs : shapes = ShapesFor(c.reported) /\ real = c.real
  <2>1. want' = want /\ shapes' = shapes /\ real' = real
    BY DEF SizingNext, Pass, ReadDemand, ReadFleet, PlanPod, PlanDone, Rent, EndPass, ScaleDown,
       ReapOut, Reap, Join, DropOut, ComeBack, Becomes, Scheduled, Bind, PodArrives, Delete,
       PodEnds, packingVars, sizingVars, PackingNext,
       ReportNeverFits, PlaceOnExisting, PlaceInBin, OpenBin, RentToMeasure, Handled
  <2> QED
    BY <2>1 DEF SizedInv
<1>1. ASSUME UNCHANGED packingVars PROVE PackingInv'
  BY <1>0, <1>1, StepKeeps
<1>2. machines \in [Ids -> Machine] /\ Machine' = Machine
  BY <1>0 DEF SizingTypeOK, Machine
<1>3. CASE Pass
  <2>1. CASE ReadDemand
    <3>1. PackingInv'
      BY <1>1, <2>1 DEF ReadDemand
    <3>2. Demand \subseteq Pods
      BY <1>0 DEF Demand, SizingTypeOK
    <3>3. seen' = Demand /\ stage' = "observe"
          /\ UNCHANGED <<real, machines, asked, bound, dying, slot, overlooked, promised>>
      BY <2>1 DEF ReadDemand, podVars, history
    <3>4. SizingTypeOK'
      BY <1>0, <1>2, <3>1, <3>2, <3>3 DEF SizingTypeOK, PackingInv, Ids
    <3> QED
      BY <1>0, <3>1, <3>4 DEF SizedInv
  <2>2. CASE ReadFleet
    <3>1. PICK order \in Orders : StartPlan(seen, [k \in DOMAIN order |-> RoomOn(order[k])])
      BY <2>2 DEF ReadFleet
    <3>2. order \in Seq(Fleet) /\ Fleet \subseteq Ids
      BY OrdersListAll DEF Fleet, Ready, Booting, Out
    <3>3. [k \in DOMAIN order |-> RoomOn(order[k])] \in Seq(Amounts)
      <4>1. \A k \in DOMAIN order : RoomOn(order[k]) \in Amounts
        BY <3>2, SizedFacts
      <4> QED
        BY <3>2, <4>1
    <3>4. PackingInv'
      BY <1>0, <3>1, <3>3, PlanStarts DEF SizingTypeOK
    <3>5. SizingTypeOK'
      BY <1>0, <1>2, <2>2, <3>4 DEF ReadFleet, podVars, SizingTypeOK, PackingInv
    <3> QED
      BY <1>0, <3>4, <3>5 DEF SizedInv
  <2>3. CASE PlanPod
    <3>1. PackingInv'
      BY <1>0, <2>3, StepKeeps DEF PlanPod
    <3>2. SizingTypeOK'
      BY <1>0, <1>2, <2>3, <3>1 DEF PlanPod, podVars, loop, history, SizingTypeOK, PackingInv
    <3> QED
      BY <1>0, <3>1, <3>2 DEF SizedInv
  <2>4. CASE PlanDone
    <3>1. PackingInv'
      BY <1>1, <2>4 DEF PlanDone
    <3>2. SizingTypeOK'
      BY <1>0, <1>2, <2>4, <3>1 DEF PlanDone, podVars, history, SizingTypeOK, PackingInv
    <3> QED
      BY <1>0, <3>1, <3>2 DEF SizedInv
  <2>5. CASE EndPass
    <3>1. PackingInv'
      <4>1. StartPlan({}, <<>>) /\ UNCHANGED <<want, shapes>>
        BY <2>5 DEF EndPass
      <4>2. {} \in SUBSET Pods /\ <<>> \in Seq(Amounts) /\ PackingTypeOK
        BY <1>0 DEF PackingInv
      <4> QED
        BY <4>1, <4>2, PlanStarts
    <3>2. SizingTypeOK'
      BY <1>0, <1>2, <2>5, <3>1 DEF EndPass, podVars, SizingTypeOK, PackingInv
    <3> QED
      BY <1>0, <3>1, <3>2 DEF SizedInv
  <2>6. ASSUME NEW f \in DOMAIN real, Rent(f) PROVE SizedInv'
    <3>1. PackingInv'
      BY <1>1, <2>6 DEF Rent
    <3>2. PICK m \in Ids, v \in Daemons :
            machines' = [machines EXCEPT ![m] = [flavor |-> f, has |-> real[f],
                                                 daemons |-> v, state |-> "booting"]]
      BY <2>6 DEF Rent, SetFlavor
    <3>3. [flavor |-> f, has |-> real[f], daemons |-> v, state |-> "booting"] \in Machine
      BY SizedFacts, SizingAssumption DEF Machine
    <3>4. machines' \in [Ids -> Machine]
      BY <1>2, <3>2, <3>3
    <3>5. slot' \in Nat
      BY <1>0, <2>6 DEF Rent, SizingTypeOK
    <3>6. SizingTypeOK'
      BY <1>0, <1>2, <2>6, <3>1, <3>4, <3>5 DEF Rent, podVars, history, SizingTypeOK, PackingInv
    <3> QED
      BY <1>0, <3>1, <3>6 DEF SizedInv
  <2> QED
    BY <1>3, <2>1, <2>2, <2>3, <2>4, <2>5, <2>6 DEF Pass
<1>4. ASSUME NEW m \in Ids, ScaleDown(m) \/ ReapOut(m) PROVE SizedInv'
  <2>0. Reap(m)
    BY <1>4 DEF ScaleDown, ReapOut
  <2>1. PackingInv'
    BY <1>1, <2>0 DEF Reap
  <2>2. NoMachine \in Machine
    BY SizedFacts DEF Machine, NoMachine, NoFlavor
  <2>3. machines' \in [Ids -> Machine]
    BY <1>2, <2>0, <2>2 DEF Reap
  <2>4. SizingTypeOK'
    BY <1>0, <1>2, <2>0, <2>1, <2>3 DEF Reap, loop, SizingTypeOK, PackingInv
  <2> QED
    BY <1>0, <2>1, <2>4 DEF SizedInv
<1>5. ASSUME NEW m \in Ids, NEW state \in {"ready", "out"}, Becomes(m, state) PROVE SizedInv'
  <2>1. PackingInv'
    BY <1>1, <1>5 DEF Becomes
  <2>2. [machines[m] EXCEPT !.state = state] \in Machine
    BY <1>2 DEF Machine
  <2>3. machines' \in [Ids -> Machine]
    BY <1>2, <1>5, <2>2 DEF Becomes
  <2>4. SizingTypeOK'
    BY <1>0, <1>2, <1>5, <2>1, <2>3 DEF Becomes, podVars, loop, history, SizingTypeOK, PackingInv
  <2> QED
    BY <1>0, <2>1, <2>4 DEF SizedInv
<1>6. ASSUME NEW i \in Pods, PodArrives(i) \/ Delete(i) \/ PodEnds(i) PROVE SizedInv'
  <2>1. PackingInv' /\ machines' = machines
    BY <1>1, <1>6 DEF PodArrives, Delete, PodEnds
  <2>2. SizingTypeOK'
    BY <1>0, <1>2, <1>6, <2>1 DEF PodArrives, Delete, PodEnds, loop, history, SizingTypeOK, PackingInv
  <2> QED
    BY <1>0, <2>1, <2>2 DEF SizedInv
<1>7. ASSUME NEW i \in Pods, NEW m \in Ids, Bind(i, m) PROVE SizedInv'
  <2>1. PackingInv' /\ machines' = machines
    BY <1>1, <1>7 DEF Bind
  <2>2. SizingTypeOK'
    BY <1>0, <1>2, <1>7, <2>1 DEF Bind, loop, SizingTypeOK, PackingInv
  <2> QED
    BY <1>0, <2>1, <2>2 DEF SizedInv
<1>8. CASE UNCHANGED sizingVars
  <2>1. PackingInv'
    BY <1>1, <1>8 DEF sizingVars
  <2>2. SizingTypeOK'
    BY <1>0, <1>2, <1>8, <2>1 DEF sizingVars, podVars, loop, history, SizingTypeOK, PackingInv
  <2> QED
    BY <1>0, <2>1, <2>2 DEF SizedInv
<1> QED
  BY <1>3, <1>4, <1>5, <1>6, <1>7, <1>8 DEF SizingNext, Scheduled, Join, DropOut, ComeBack

\* However pods come, go and are scheduled, whatever the cloud has in stock and in
\* whatever order it lists its machines, whatever becomes of nodes: no plan gives a
\* machine more than the pass counted as free on it, and every plan keeps its types.
THEOREM SizingTyped == SizingSpec => []SizingTypeOK
<1>1. SizingInit => SizedInv
  BY SizedStart
<1>2. SizedInv /\ [SizingNext]_sizingVars => SizedInv'
  BY SizedStep
<1>3. SizedInv => SizingTypeOK
  BY DEF SizedInv
<1> QED
  BY <1>1, <1>2, <1>3, PTL DEF SizingSpec

-----------------------------------------------------------------------------
(* Pass after pass: what is counted.                                       *)

\* A booting machine was rented as a flavor that is known, and no pod is bound to it.
CountedInv ==
  /\ \A m \in Booting : /\ machines[m].flavor \in DOMAIN shapes
                        /\ machines[m].has = real[machines[m].flavor]
  /\ \A i \in Pods : bound[i] # NoWhere => bound[i] \in Ready \cup Out
  /\ \A b \in DOMAIN bins : bins[b].flavor # NoFlavor

\* A machine of the fleet, as a pass will count it once it is not out, has room for
\* the pod.
Room(i) == \E m \in Fleet : FitsIn(want[i], RoomOn(m), FALSE)

\* Where a plan has put each pod it has handled, and what it started from.
PlannedInv ==
  /\ stage \in {"sleep", "observe"} => opener = <<>>
  /\ stage = "rent" => waiting = {}
  /\ stage \in {"plan", "rent"} =>
       \A i \in seen \ (waiting \cup neverFits \cup placed) :
         \E b \in DOMAIN bins : Within(want[i], bins[b].used)
  /\ slot >= 1
  /\ stage = "plan" =>
       /\ slot = 1 /\ waiting \subseteq seen
       /\ \A k \in DOMAIN free : \E m \in Fleet : Within(free[k], RoomOn(m))
       /\ placed = {} /\ ~overlooked => \A m \in Fleet : \E k \in DOMAIN free : free[k] = RoomOn(m)

\* Whom the fleet has room for, pod by pod.
RoomInv ==
  /\ \A i \in promised : Room(i)
  /\ stage \in {"plan", "rent"} => \A i \in placed : Room(i)
  /\ stage = "rent" =>
       \A b \in DOMAIN bins : b < slot =>
         \A i \in Pods : Within(want[i], bins[b].used) => Room(i)

CountInv == CountedInv /\ PlannedInv /\ RoomInv /\ NotRentedTwice

RentedInv == SizedInv /\ CountInv

\* What is known of the catalog the provider has.
LEMMA Known ==
  ASSUME SizedInv, AsReported
  PROVE  /\ shapes # <<>>
         /\ \A f \in DOMAIN shapes :
              /\ f \in DOMAIN real /\ Within(shapes[f], real[f])
              /\ \A i \in Pods : Keys(want[i]) \subseteq Keys(shapes[f])
<1>1. PICK c \in Catalogs : shapes = ShapesFor(c.reported) /\ real = c.real
  BY DEF SizedInv
<1>2. \A i \in Pods : want[i] \in Wants
  BY DEF SizedInv, PackingInv, PackingTypeOK
<1> QED
  BY <1>1, <1>2 DEF AsReported, Within

\* More room is room.
LEMMA FitsGrows ==
  ASSUME NEW v \in Amounts, NEW r \in Amounts, NEW s \in Amounts,
         FitsIn(v, r, FALSE), Within(r, s)
  PROVE  FitsIn(v, s, FALSE)
<1> SUFFICES ASSUME NEW d \in Keys(v) PROVE v[d] > 0 => d \in Keys(s) /\ v[d] <= s[d]
  BY DEF FitsIn
<1>1. d \in Dims /\ v[d] \in Nat /\ r[d] \in Nat /\ s[d] \in Nat
  BY DEF Amounts, Keys
<1>2. v[d] > 0 => v[d] <= r[d]
  BY <1>1 DEF FitsIn, Keys
<1>3. r[d] <= s[d]
  BY <1>1 DEF Within
<1> QED
  BY <1>1, <1>2, <1>3 DEF Keys

\* A flavor that holds a bin has room for each pod in it.
LEMMA HolderHasRoom ==
  ASSUME NEW v \in Amounts, NEW used \in Amounts, NEW whole \in Amounts,
         Within(v, used), Fits(used, whole, Keys(whole)), Keys(v) \subseteq Keys(whole)
  PROVE  FitsIn(v, whole, FALSE)
<1> SUFFICES ASSUME NEW d \in Keys(v) PROVE d \in Keys(whole) /\ v[d] <= whole[d]
  BY DEF FitsIn
<1>1. d \in Dims /\ v[d] \in Nat /\ used[d] \in Nat /\ whole[d] \in Nat
  BY DEF Amounts, Keys
<1>2. v[d] # 0 /\ v[d] <= used[d] /\ d \in Keys(whole)
  BY <1>1 DEF Keys, Within
<1>3. d \in Keys(used)
  BY <1>1, <1>2 DEF Keys
<1>4. used[d] <= whole[d]
  BY <1>2, <1>3 DEF Fits
<1> QED
  BY <1>1, <1>2, <1>4

LEMMA WithinSelf == ASSUME NEW v \in Amounts PROVE Within(v, v)
BY DEF Within, Amounts

\* A bin that takes a pod holds it, and whatever it held.
LEMMA WithinMore ==
  ASSUME NEW used \in Amounts, NEW w \in Amounts
  PROVE  /\ Within(w, Plus(used, w))
         /\ \A v \in Amounts : Within(v, used) => Within(v, Plus(used, w))
BY DEF Within, Plus, Amounts

\* The fleet and its room are read off the machines.
LEMMA SameFleet ==
  ASSUME UNCHANGED <<machines, shapes, want, bound, dying>>
  PROVE  /\ Booting' = Booting /\ Ready' = Ready /\ Out' = Out /\ Fleet' = Fleet
         /\ \A m : RoomOn(m)' = RoomOn(m)
         /\ \A i : Room(i)' = Room(i)
<1>1. Booting' = Booting /\ Ready' = Ready /\ Out' = Out /\ Fleet' = Fleet
  BY DEF Booting, Ready, Out, Fleet
<1>2. \A m : RoomOn(m)' = RoomOn(m)
  BY <1>1 DEF RoomOn, BootingShape, Reference, UsedOn, On, Requested, Asked
<1>3. \A i : Room(i)' = Room(i)
  BY <1>1, <1>2 DEF Room
<1> QED
  BY <1>1, <1>2, <1>3

\* While no machine leaves or has less, who had room has room.
LEMMA RoomKept ==
  ASSUME SizedInv, SizedInv', want' = want,
         \A m \in Fleet : m \in Fleet' /\ Within(RoomOn(m), RoomOn(m)'),
         NEW i \in Pods, Room(i)
  PROVE  Room(i)'
<1>1. PICK m \in Fleet : FitsIn(want[i], RoomOn(m), FALSE)
  BY DEF Room
<1>2. m \in Ids
  BY DEF Fleet, Ready, Booting, Out
<1>3. want[i] \in Amounts /\ RoomOn(m) \in Amounts
  BY <1>2, SizedFacts
<1>4. \A n \in Ids : RoomOn(n)' \in Amounts
  <2>1. shapes' \in Seq(Amounts)
    BY SizingAssumption, PackingAssumption DEF SizedInv
  <2>2. Reference' \in Amounts
    BY <2>1 DEF Reference, Nothing, Amounts
  <2>3. \A n \in Ids : machines'[n].has \in Amounts
    BY DEF SizedInv, SizingTypeOK, Machine, Ids
  <2>4. \A n \in Ids : UsedOn(n)' \in Amounts
    <3>1. \A S \in SUBSET Pods : Requested(S) \in Amounts
      BY SizedFacts, RequestedFacts
    <3> QED
      BY <3>1 DEF UsedOn, On, Requested, Asked
  <2> QED
    BY <2>1, <2>2, <2>3, <2>4, ClampedFacts DEF RoomOn, BootingShape
<1>5. FitsIn(want[i], RoomOn(m)', FALSE)
  BY <1>1, <1>2, <1>3, <1>4, FitsGrows
<1> QED
  BY <1>1, <1>5 DEF Room, FitsIn, Keys

-----------------------------------------------------------------------------
(* The steps.                                                              *)

\* Steps that leave the plan, the machines and the bound pods as they are.
LEMMA QuietKeeps ==
  ASSUME RentedInv,
         \/ ReadDemand \/ PlanDone \/ UNCHANGED sizingVars
         \/ \E i \in Pods : PodArrives(i)
  PROVE  CountInv'
<1>0. UNCHANGED <<packingVars, want, shapes, waiting, bins, placed, neverFits, opener, free,
                  real, machines, bound, dying, slot, overlooked, promised>>
  BY DEF ReadDemand, PlanDone, PodArrives, sizingVars, packingVars, plan, podVars, loop, history
<1>1. /\ Booting' = Booting /\ Ready' = Ready /\ Out' = Out /\ Fleet' = Fleet
      /\ \A m : RoomOn(m)' = RoomOn(m)
      /\ \A i : Room(i)' = Room(i)
  BY <1>0, SameFleet
<1>2. CountedInv /\ PlannedInv /\ RoomInv /\ NotRentedTwice /\ slot \in Nat
  BY DEF RentedInv, CountInv, SizedInv, SizingTypeOK
<1>3. CountedInv'
  BY <1>0, <1>1, <1>2 DEF CountedInv
<1>4. NotRentedTwice'
  BY <1>0, <1>2 DEF NotRentedTwice
<1>5. CASE ReadDemand
  <2>1. stage = "sleep" /\ stage' = "observe"
    BY <1>5 DEF ReadDemand
  <2>2. PlannedInv' /\ RoomInv'
    BY <1>0, <1>1, <1>2, <2>1 DEF PlannedInv, RoomInv
  <2> QED
    BY <1>3, <1>4, <2>2 DEF CountInv
<1>6. CASE PlanDone
  <2>1. stage = "plan" /\ stage' = "rent" /\ waiting = {} /\ seen' = seen
    BY <1>6 DEF PlanDone
  <2>2. \A b \in DOMAIN bins : ~(b < slot)
    BY <1>2, <2>1 DEF PlannedInv, RentedInv, SizedInv, PackingInv, PackingTypeOK
  <2>3. PlannedInv'
    BY <1>0, <1>2, <2>1 DEF PlannedInv
  <2>4. RoomInv'
    BY <1>0, <1>1, <1>2, <2>1, <2>2 DEF RoomInv
  <2> QED
    BY <1>3, <1>4, <2>3, <2>4 DEF CountInv
<1>7. CASE UNCHANGED <<stage, seen>>
  BY <1>0, <1>1, <1>2, <1>3, <1>4, <1>7 DEF PlannedInv, RoomInv, Within, CountInv
<1> QED
  BY <1>5, <1>6, <1>7 DEF PodArrives, sizingVars, loop

LEMMA ReadFleetKeeps ==
  ASSUME RentedInv, ReadFleet
  PROVE  CountInv'
<1>1. PICK order \in Orders : StartPlan(seen, [k \in DOMAIN order |-> RoomOn(order[k])])
  BY DEF ReadFleet
<1>2. /\ UNCHANGED <<want, shapes, real, machines, bound, dying, seen, promised>>
      /\ stage' = "plan" /\ slot' = 1 /\ overlooked' = (Out # {}) /\ waiting' = seen
      /\ bins' = <<>> /\ placed' = {} /\ neverFits' = {} /\ opener' = <<>>
      /\ free' = [k \in DOMAIN order |-> RoomOn(order[k])]
  BY <1>1 DEF ReadFleet, StartPlan, podVars
<1>3. /\ Booting' = Booting /\ Ready' = Ready /\ Out' = Out /\ Fleet' = Fleet
      /\ \A m : RoomOn(m)' = RoomOn(m)
      /\ \A i : Room(i)' = Room(i)
  BY <1>2, SameFleet
<1>4. order \in Seq(Fleet) /\ \A m \in Fleet \ Out : \E k \in DOMAIN order : order[k] = m
  BY OrdersListAll DEF RentedInv
<1>5. CountedInv /\ RoomInv
  BY DEF RentedInv, CountInv
<1>6. CountedInv'
  BY <1>2, <1>3, <1>5 DEF CountedInv
<1>7. PlannedInv'
  <2>1. ASSUME NEW k \in DOMAIN free' PROVE \E m \in Fleet : Within(free'[k], RoomOn(m))
    <3>1. order[k] \in Fleet /\ free'[k] = RoomOn(order[k])
      BY <1>2, <1>4
    <3>2. RoomOn(order[k]) \in Amounts
      BY <3>1, SizedFacts DEF RentedInv, Fleet, Booting, Ready, Out
    <3> QED
      BY <3>1, <3>2, WithinSelf
  <2>2. ASSUME Out = {}, NEW m \in Fleet PROVE \E k \in DOMAIN free' : free'[k] = RoomOn(m)
    BY <1>2, <1>4, <2>2
  <2>3. ~overlooked' => Out = {}
    BY <1>2
  <2>4. ~overlooked' => \A m \in Fleet : \E k \in DOMAIN free' : free'[k] = RoomOn(m)
    BY <2>2, <2>3
  <2>5. stage' = "plan" /\ slot' = 1 /\ waiting' = seen' /\ opener' = <<>> /\ seen' = seen
    BY <1>2
  <2> QED
    BY <1>3, <2>1, <2>4, <2>5 DEF PlannedInv, Within
<1>8. RoomInv' /\ NotRentedTwice'
  BY <1>2, <1>3, <1>5 DEF RoomInv, NotRentedTwice
<1> QED
  BY <1>6, <1>7, <1>8 DEF CountInv

LEMMA EndPassKeeps ==
  ASSUME RentedInv, EndPass
  PROVE  CountInv'
<1>1. /\ UNCHANGED <<want, shapes, real, machines, bound, dying>>
      /\ stage = "rent" /\ stage' = "sleep" /\ seen' = {} /\ slot' = 1 /\ waiting' = {}
      /\ bins' = <<>> /\ placed' = {} /\ neverFits' = {} /\ opener' = <<>>
      /\ promised' = IF slot > Len(bins) THEN seen \ neverFits ELSE {}
  BY DEF EndPass, StartPlan, podVars
<1>2. /\ Booting' = Booting /\ Ready' = Ready /\ Out' = Out /\ Fleet' = Fleet
      /\ \A m : RoomOn(m)' = RoomOn(m)
      /\ \A i : Room(i)' = Room(i)
  BY <1>1, SameFleet
<1>3. /\ CountedInv /\ PlannedInv /\ RoomInv
      /\ seen \subseteq Pods /\ slot \in Nat /\ bins \in Seq(Bins)
  BY DEF RentedInv, CountInv, SizedInv, SizingTypeOK, PackingTypeOK
<1>4. ASSUME NEW i \in promised' PROVE Room(i)
  <2>1. slot > Len(bins) /\ i \in seen \ neverFits /\ i \in Pods
    BY <1>1, <1>3
  <2>2. CASE i \in placed
    BY <1>1, <1>3, <2>1, <2>2 DEF RoomInv
  <2>3. CASE i \notin placed
    <3>1. PICK b \in DOMAIN bins : Within(want[i], bins[b].used)
      BY <1>1, <1>3, <2>1, <2>3 DEF PlannedInv
    <3>2. b < slot
      BY <1>3, <2>1
    <3> QED
      BY <1>1, <1>3, <2>1, <3>1, <3>2 DEF RoomInv
  <2> QED
    BY <2>2, <2>3
<1>5. CountedInv'
  BY <1>1, <1>2, <1>3 DEF CountedInv
<1>6. PlannedInv' /\ RoomInv' /\ NotRentedTwice'
  BY <1>1, <1>2, <1>4 DEF PlannedInv, RoomInv, NotRentedTwice
<1> QED
  BY <1>5, <1>6 DEF CountInv

\* More room and more machines: renting, joining, and pods that end.
LEMMA FleetGrows ==
  ASSUME RentedInv, SizedInv', UNCHANGED <<want, promised, placed, bins, stage>>,
         \A m \in Fleet : m \in Fleet' /\ Within(RoomOn(m), RoomOn(m)'),
         stage = "rent" =>
           \A b \in DOMAIN bins : b < slot' /\ ~(b < slot) =>
             \A i \in Pods : Within(want[i], bins[b].used) => Room(i)'
  PROVE  RoomInv'
<1>1. ASSUME NEW i \in Pods, Room(i) PROVE Room(i)'
  BY <1>1, RoomKept DEF RentedInv
<1>2. promised \subseteq Pods /\ placed \subseteq Pods /\ RoomInv
  BY DEF RentedInv, CountInv, SizedInv, SizingTypeOK, PackingTypeOK
<1>3. \A i \in promised' : Room(i)'
  BY <1>1, <1>2 DEF RoomInv
<1>4. stage' \in {"plan", "rent"} => \A i \in placed' : Room(i)'
  BY <1>1, <1>2 DEF RoomInv
<1>5. stage' = "rent" =>
        \A b \in DOMAIN bins' : b < slot' =>
          \A i \in Pods : Within(want'[i], bins'[b].used) => Room(i)'
  BY <1>1, <1>2 DEF RoomInv, Within
<1> QED
  BY <1>3, <1>4, <1>5 DEF RoomInv, Within

LEMMA RentKeeps ==
  ASSUME RentedInv, SizedInv', AsReported, NEW f \in DOMAIN real, Rent(f)
  PROVE  CountInv'
<1>1. PICK m \in Ids, v \in Daemons :
        /\ m \notin Fleet
        /\ machines' = [machines EXCEPT ![m] = [flavor |-> f, has |-> real[f], daemons |-> v,
                                                state |-> "booting"]]
  BY DEF Rent, IsFirst, SetFlavor
<1>2. /\ UNCHANGED <<want, shapes, waiting, free, bins, placed, neverFits, opener,
                     real, bound, dying, stage, seen, overlooked, promised>>
      /\ stage = "rent" /\ slot <= Len(bins) /\ f \in Candidates(slot) /\ slot' = slot + 1
  BY DEF Rent, packingVars, plan, podVars, history
<1>3. /\ CountedInv /\ PlannedInv /\ RoomInv /\ NotRentedTwice
      /\ slot \in Nat /\ slot >= 1 /\ bins \in Seq(Bins) /\ PackingTypeOK
      /\ machines \in [Ids -> Machine]
  BY DEF RentedInv, CountInv, SizedInv, SizingTypeOK, PackingTypeOK, PlannedInv
<1>4. slot \in DOMAIN bins /\ bins[slot].flavor # NoFlavor /\ bins[slot].used \in Amounts
  BY <1>2, <1>3, BinTypes DEF CountedInv
<1>5. f \in DOMAIN shapes /\ Fits(bins[slot].used, shapes[f], Keys(shapes[f]))
  BY <1>2, <1>4 DEF Candidates, Holding
<1>6. /\ Booting' = Booting \cup {m} /\ Ready' = Ready /\ Out' = Out
      /\ Fleet' = Fleet \cup {m}
  BY <1>1, <1>3 DEF Booting, Ready, Out, Fleet
<1>7. /\ \A n \in Ids \ {m} : machines'[n] = machines[n]
      /\ machines'[m].flavor = f /\ machines'[m].has = real[f]
  BY <1>1, <1>3
<1>8. RoomOn(m)' = shapes[f] /\ \A n \in Fleet : RoomOn(n)' = RoomOn(n)
  <2>1. \A n \in Fleet : n \in Ids \ {m}
    BY <1>1 DEF Fleet, Ready, Booting, Out
  <2>2. \A n : UsedOn(n)' = UsedOn(n)
    BY <1>2 DEF UsedOn, On, Requested, Asked
  <2> QED
    BY <1>2, <1>5, <1>6, <1>7, <2>1, <2>2 DEF RoomOn, BootingShape, Reference
<1>9. CountedInv'
  <2>1. \A n \in Booting' : /\ machines'[n].flavor \in DOMAIN shapes
                            /\ machines'[n].has = real[machines'[n].flavor]
    BY <1>1, <1>3, <1>5, <1>6, <1>7 DEF CountedInv, Fleet, Booting
  <2> QED
    BY <1>2, <1>3, <1>6, <2>1 DEF CountedInv
<1>10. PlannedInv' /\ NotRentedTwice'
  BY <1>2, <1>3 DEF PlannedInv, NotRentedTwice, Within
<1>11. ASSUME NEW i \in Pods, Within(want[i], bins[slot].used) PROVE Room(i)'
  <2>1. want[i] \in Amounts /\ shapes[f] \in Amounts
    BY <1>5, SizedFacts DEF RentedInv
  <2>2. Keys(want[i]) \subseteq Keys(shapes[f])
    BY <1>5, Known DEF RentedInv
  <2>3. FitsIn(want[i], shapes[f], FALSE)
    BY <1>4, <1>5, <1>11, <2>1, <2>2, HolderHasRoom
  <2> QED
    BY <1>2, <1>6, <1>8, <2>3 DEF Room
<1>12. ASSUME NEW n \in Fleet PROVE n \in Fleet' /\ Within(RoomOn(n), RoomOn(n)')
  <2>1. RoomOn(n) \in Amounts
    BY <1>12, SizedFacts DEF RentedInv, Fleet, Ready, Booting, Out
  <2> QED
    BY <1>6, <1>8, <2>1, WithinSelf
<1>13. \A b \in DOMAIN bins : b < slot' /\ ~(b < slot) => b = slot
  BY <1>2, <1>3
<1>14. RoomInv'
  BY <1>2, <1>11, <1>12, <1>13, FleetGrows
<1> QED
  BY <1>9, <1>10, <1>14 DEF CountInv

LEMMA BecomesKeeps ==
  ASSUME RentedInv, SizedInv', AsReported, NEW m \in Fleet, NEW state \in {"ready", "out"},
         Moves, Becomes(m, state)
  PROVE  CountInv'
<1>1. /\ stage \in {"sleep", "observe"}
      /\ machines' = [machines EXCEPT ![m].state = state]
      /\ UNCHANGED <<want, shapes, waiting, free, bins, placed, neverFits, opener, real,
                     bound, dying, stage, seen, slot, overlooked, promised>>
  BY DEF Moves, Becomes, packingVars, plan, podVars, loop, history
<1>2. /\ CountedInv /\ PlannedInv /\ RoomInv /\ NotRentedTwice /\ slot \in Nat
      /\ machines \in [Ids -> Machine] /\ m \in Ids
  BY DEF RentedInv, CountInv, SizedInv, SizingTypeOK, Fleet, Booting, Ready, Out
<1>3. /\ \A n \in Ids \ {m} : machines'[n] = machines[n]
      /\ machines'[m].state = state
      /\ machines'[m].has = machines[m].has /\ machines'[m].flavor = machines[m].flavor
  BY <1>1, <1>2 DEF Machine
<1>4. /\ Booting' = Booting \ {m} /\ Ready' \cup Out' = Ready \cup Out \cup {m}
      /\ Fleet' = Fleet /\ Booting \cap (Ready \cup Out) = {}
  BY <1>2, <1>3 DEF Booting, Ready, Out, Fleet
<1>5. CountedInv'
  <2>1. \A n \in Booting' : /\ machines'[n].flavor \in DOMAIN shapes
                            /\ machines'[n].has = real[machines'[n].flavor]
    BY <1>2, <1>3, <1>4 DEF CountedInv, Booting
  <2> QED
    BY <1>1, <1>2, <1>4, <2>1 DEF CountedInv
<1>6. PlannedInv' /\ NotRentedTwice'
  BY <1>1, <1>2 DEF PlannedInv, NotRentedTwice, Within
<1>7. \A n : UsedOn(n)' = UsedOn(n)
  BY <1>1 DEF UsedOn, On, Requested, Asked
<1>8. ASSUME NEW n \in Fleet PROVE n \in Fleet' /\ Within(RoomOn(n), RoomOn(n)')
  <2>1. n \in Ids /\ RoomOn(n) \in Amounts
    BY <1>8, SizedFacts DEF RentedInv, Fleet, Ready, Booting, Out
  <2>2. CASE n = m /\ m \in Booting
    <3>1. machines[m].flavor \in DOMAIN shapes /\ machines[m].has = real[machines[m].flavor]
      BY <1>2, <2>2 DEF CountedInv
    <3>2. UsedOn(m) = Nothing
      <4>1. On(m) \ dying = {}
        BY <1>2, <1>4, <2>2 DEF CountedInv, On, NoWhere, Ids
      <4> QED
        BY <4>1, SizedFacts, RequestedFacts DEF RentedInv, UsedOn
    <3>3. ClampZero(Minus(machines[m].has, Nothing)) = machines[m].has
      BY <1>2, SizedFacts, ClampedFacts DEF RentedInv
    <3>4. RoomOn(m) = shapes[machines[m].flavor] /\ RoomOn(m)' = machines[m].has
      BY <1>3, <1>4, <1>7, <2>2, <3>1, <3>2, <3>3 DEF RoomOn, BootingShape
    <3>5. Within(shapes[machines[m].flavor], real[machines[m].flavor])
      BY <3>1, Known DEF RentedInv
    <3> QED
      BY <1>4, <1>8, <2>2, <3>1, <3>4, <3>5
  <2>3. CASE ~(n = m /\ m \in Booting)
    <3>1. (n \in Booting') = (n \in Booting) /\ machines'[n].has = machines[n].has
          /\ machines'[n].flavor = machines[n].flavor
      BY <1>3, <1>4, <2>1, <2>3
    <3>2. RoomOn(n)' = RoomOn(n)
      BY <1>1, <1>7, <3>1 DEF RoomOn, BootingShape, Reference
    <3> QED
      BY <1>4, <1>8, <2>1, <3>2, WithinSelf
  <2> QED
    BY <2>2, <2>3
<1>9. RoomInv'
  BY <1>1, <1>8, FleetGrows
<1> QED
  BY <1>5, <1>6, <1>9 DEF CountInv

\* A pod that terminates, or is gone, gives room back.
LEMMA LeavingKeeps ==
  ASSUME RentedInv, SizedInv', NEW i \in Pods, Delete(i) \/ PodEnds(i)
  PROVE  CountInv'
<1>1. /\ stage \in {"sleep", "observe"}
      /\ UNCHANGED <<want, shapes, waiting, free, bins, placed, neverFits, opener, real,
                     machines, stage, seen, slot, overlooked, promised>>
  BY DEF Delete, PodEnds, Moves, packingVars, plan, loop, history
<1>2. /\ CountedInv /\ PlannedInv /\ RoomInv /\ NotRentedTwice /\ slot \in Nat
      /\ bound \in [Pods -> {NoWhere} \cup Ids]
  BY DEF RentedInv, CountInv, SizedInv, SizingTypeOK
<1>3. \A j \in Pods : bound'[j] # NoWhere =>
        bound'[j] = bound[j] /\ (j \in dying => j \in dying')
  BY <1>2 DEF Delete, PodEnds
<1>4. Booting' = Booting /\ Ready' = Ready /\ Out' = Out /\ Fleet' = Fleet
  BY <1>1 DEF Booting, Ready, Out, Fleet
<1>5. CountedInv'
  BY <1>1, <1>2, <1>3, <1>4 DEF CountedInv
<1>6. PlannedInv' /\ NotRentedTwice'
  BY <1>1, <1>2 DEF PlannedInv, NotRentedTwice, Within
<1>7. ASSUME NEW n \in Fleet PROVE n \in Fleet' /\ Within(RoomOn(n), RoomOn(n)')
  <2>1. n \in Ids /\ RoomOn(n) \in Amounts /\ machines[n].has \in Amounts
    BY <1>7, SizedFacts DEF RentedInv, Fleet, Ready, Booting, Out
  <2>2. On(n)' \ dying' \subseteq On(n) \ dying /\ On(n) \ dying \subseteq Pods
    BY <1>3, <2>1 DEF On, NoWhere, Ids
  <2>3. /\ Within(Requested(On(n)' \ dying'), UsedOn(n))
        /\ Requested(On(n)' \ dying') \in Amounts /\ UsedOn(n) \in Amounts
    BY <2>2, SizedFacts, RequestedFacts DEF RentedInv, UsedOn
  <2>4. UsedOn(n)' = Requested(On(n)' \ dying')
    BY <1>1 DEF UsedOn, Requested, Asked
  <2>5. Within(ClampZero(Minus(machines[n].has, UsedOn(n))),
               ClampZero(Minus(machines[n].has, UsedOn(n)')))
    BY <2>1, <2>3, <2>4, ClampedFacts
  <2>6. CASE n \in Booting
    <3>1. RoomOn(n)' = RoomOn(n)
      BY <1>1, <1>4, <2>6 DEF RoomOn, BootingShape, Reference
    <3> QED
      BY <1>4, <1>7, <2>1, <3>1, WithinSelf
  <2>7. CASE n \notin Booting
    BY <1>1, <1>4, <1>7, <2>5, <2>7 DEF RoomOn
  <2> QED
    BY <2>6, <2>7
<1>8. RoomInv'
  BY <1>1, <1>7, FleetGrows
<1> QED
  BY <1>5, <1>6, <1>8 DEF CountInv

\* A pod is bound, or a machine is released: nothing is promised any more.
LEMMA TakingKeeps ==
  ASSUME RentedInv, NEW m \in Ids,
         ScaleDown(m) \/ ReapOut(m) \/ \E i \in Pods : Bind(i, m)
  PROVE  CountInv'
<1>1. /\ stage \in {"sleep", "observe"} /\ m \in Ready \cup Out /\ promised' = {}
      /\ UNCHANGED <<want, shapes, waiting, free, bins, placed, neverFits, opener,
                     real, stage, seen, slot, overlooked>>
  BY DEF ScaleDown, ReapOut, Reap, Bind, Moves, packingVars, plan, loop
<1>2. /\ CountedInv /\ PlannedInv /\ slot \in Nat
      /\ bound \in [Pods -> {NoWhere} \cup Ids] /\ machines \in [Ids -> Machine]
  BY DEF RentedInv, CountInv, SizedInv, SizingTypeOK
<1>3. /\ \A n \in Booting : n \in Booting' /\ machines'[n] = machines[n]
      /\ Booting' \subseteq Booting
      /\ \A j \in Pods : bound'[j] # NoWhere => bound'[j] \in Ready' \cup Out'
  <2>1. CASE Reap(m)
    <3>1. /\ \A n \in Ids \ {m} : machines'[n] = machines[n]
          /\ machines'[m].state = "none"
      BY <1>2, <2>1 DEF Reap, NoMachine
    <3>2. \A j \in Pods : bound'[j] # NoWhere => bound'[j] = bound[j] /\ bound[j] # m
      BY <1>2, <2>1 DEF Reap
    <3> QED
      BY <1>1, <1>2, <3>1, <3>2 DEF CountedInv, Booting, Ready, Out
  <2>2. CASE \E i \in Pods : Bind(i, m)
    <3>1. PICK i \in Pods : Bind(i, m)
      BY <2>2
    <3>2. bound' = [bound EXCEPT ![i] = m] /\ machines' = machines
      BY <3>1 DEF Bind
    <3>3. \A j \in Pods : bound'[j] = m \/ bound'[j] = bound[j]
      BY <1>2, <3>2
    <3> QED
      BY <1>1, <1>2, <3>2, <3>3 DEF CountedInv, Booting, Ready, Out
  <2> QED
    BY <2>1, <2>2 DEF ScaleDown, ReapOut
<1>4. CountedInv'
  BY <1>1, <1>2, <1>3 DEF CountedInv
<1>5. PlannedInv' /\ RoomInv' /\ NotRentedTwice'
  BY <1>1, <1>2 DEF PlannedInv, RoomInv, NotRentedTwice, Within
<1> QED
  BY <1>4, <1>5 DEF CountInv

\* What a step of the plan leaves alone.
LEMMA PlanPodFrame ==
  ASSUME RentedInv, PlanPod
  PROVE  /\ stage = "plan" /\ PackingNext
         /\ UNCHANGED <<want, shapes, real, machines, bound, dying, stage, seen, slot,
                        overlooked, promised>>
         /\ Booting' = Booting /\ Ready' = Ready /\ Out' = Out /\ Fleet' = Fleet
         /\ \A m : RoomOn(m)' = RoomOn(m)
         /\ \A i : Room(i)' = Room(i)
<1>1. stage = "plan" /\ PackingNext
  BY DEF PlanPod
<1>2. UNCHANGED <<want, shapes>>
  BY <1>1 DEF PackingNext, ReportNeverFits, PlaceOnExisting, PlaceInBin, OpenBin,
              RentToMeasure, Handled
<1>3. UNCHANGED <<real, machines, bound, dying, stage, seen, slot, overlooked, promised>>
  BY DEF PlanPod, podVars, loop, history
<1> QED
  BY <1>1, <1>2, <1>3, SameFleet

\* Handling one pod keeps the count.
LEMMA PlanPodKeeps ==
  ASSUME RentedInv, AsReported, PlanPod
  PROVE  CountInv'
<1>1. /\ CountedInv /\ PlannedInv /\ RoomInv /\ NotRentedTwice
      /\ PackingTypeOK /\ SizedInv
  BY DEF RentedInv, CountInv, SizedInv, PackingInv
<1>2. /\ stage = "plan"
      /\ UNCHANGED <<want, shapes, real, machines, bound, dying, stage, seen, slot,
                     overlooked, promised>>
      /\ Booting' = Booting /\ Ready' = Ready /\ Out' = Out /\ Fleet' = Fleet
      /\ \A m : RoomOn(m)' = RoomOn(m)
      /\ \A i : Room(i)' = Room(i)
  BY PlanPodFrame
<1>3. PICK i \in MostAwkward : \/ ReportNeverFits(i) \/ PlaceOnExisting(i)
                               \/ PlaceInBin(i) \/ OpenBin(i) \/ RentToMeasure(i)
  BY PlanPodFrame DEF PackingNext
<1>4. i \in Pods /\ want[i] \in Amounts /\ i \in waiting /\ i \in seen
  BY <1>1, <1>2, HeadIsPod DEF MostAwkward, PlannedInv
\* It is enough to look at the bins, at the pods handled, and at what is left free.
<1>5. ASSUME \A b \in DOMAIN bins' : bins'[b].flavor # NoFlavor,
             waiting' \subseteq waiting,
             \A j \in seen \ (waiting' \cup neverFits' \cup placed') :
               \E b \in DOMAIN bins' : Within(want[j], bins'[b].used),
             \A k \in DOMAIN free' : \E m \in Fleet : Within(free'[k], RoomOn(m)),
             placed' = {} => placed = {} /\ free' = free,
             \A j \in placed' \ placed : Room(j),
             \A b \in DOMAIN opener' : opener'[b] \in promised =>
               placed' # {} \/ overlooked \/ \E c \in DOMAIN opener : opener'[b] = opener[c]
      PROVE  CountInv'
  <2>1. CountedInv'
    BY <1>1, <1>2, <1>5 DEF CountedInv
  <2>2. PlannedInv'
    BY <1>1, <1>2, <1>5 DEF PlannedInv, Within
  <2>3. RoomInv'
    BY <1>1, <1>2, <1>5 DEF RoomInv
  <2>4. NotRentedTwice'
    BY <1>1, <1>2, <1>5 DEF NotRentedTwice
  <2> QED
    BY <2>1, <2>2, <2>3, <2>4 DEF CountInv
<1>6. CASE ReportNeverFits(i)
  <2>1. /\ UNCHANGED <<free, bins, placed, opener>>
        /\ waiting' = waiting \ {i} /\ neverFits' = neverFits \cup {i}
    BY <1>6 DEF ReportNeverFits, Handled
  <2> QED
    BY <1>1, <1>2, <1>5, <2>1 DEF CountedInv, PlannedInv, NotRentedTwice
<1>7. CASE PlaceOnExisting(i)
  <2>1. PICK k \in DOMAIN free :
          k \in WithRoom(i) /\ free' = [free EXCEPT ![k] = Minus(@, want[i])]
    BY <1>7 DEF PlaceOnExisting, IsFirst
  <2>2. /\ UNCHANGED <<bins, neverFits, opener>>
        /\ waiting' = waiting \ {i} /\ placed' = placed \cup {i}
    BY <1>7 DEF PlaceOnExisting, Handled
  <2>3. FitsIn(want[i], free[k], FALSE) /\ free[k] \in Amounts
    <3>1. FitsIn(want[i], free[k], FALSE)
      BY <2>1 DEF WithRoom
    <3>2. free[k] \in Amounts
      BY <1>1, <2>1 DEF PackingTypeOK
    <3> QED
      BY <3>1, <3>2
  <2>4. PICK m \in Fleet : Within(free[k], RoomOn(m))
    BY <1>1, <1>2 DEF PlannedInv
  <2>5. RoomOn(m) \in Amounts
    BY <1>1, SizedFacts DEF Fleet, Ready, Booting, Out
  <2>6. Room(i)
    BY <1>4, <2>3, <2>4, <2>5, FitsGrows DEF Room
  <2>7. ASSUME NEW n \in DOMAIN free' PROVE \E q \in Fleet : Within(free'[n], RoomOn(q))
    <3>1. CASE n = k
      <4>1. free'[n] = Minus(free[k], want[i])
        BY <1>1, <2>1, <3>1 DEF PackingTypeOK
      <4>2. Within(free'[n], RoomOn(m))
        BY <1>4, <2>3, <2>4, <2>5, <4>1 DEF Within, Minus, Amounts
      <4> QED
        BY <4>2
    <3>2. CASE n # k
      BY <1>1, <1>2, <2>1, <2>7, <3>2 DEF PlannedInv
    <3> QED
      BY <3>1, <3>2
  <2> QED
    BY <1>1, <1>2, <1>5, <2>2, <2>6, <2>7 DEF CountedInv, PlannedInv, NotRentedTwice
<1>8. CASE PlaceInBin(i)
  <2>1. PICK b \in DOMAIN bins : bins' = [bins EXCEPT ![b].used = Plus(@, want[i])]
    BY <1>8 DEF PlaceInBin, IsFirst
  <2>2. UNCHANGED <<free, placed, neverFits, opener>> /\ waiting' = waiting \ {i}
    BY <1>8 DEF PlaceInBin, Handled
  <2>3. bins[b].used \in Amounts /\ bins \in Seq(Bins)
    BY <1>1, BinTypes DEF PackingTypeOK
  <2>4. /\ DOMAIN bins' = DOMAIN bins
        /\ \A c \in DOMAIN bins :
             /\ bins'[c].flavor = bins[c].flavor
             /\ bins'[c].used = IF c = b THEN Plus(bins[b].used, want[i]) ELSE bins[c].used
    BY <2>1, <2>3 DEF Bins
  <2>5. ASSUME NEW j \in Pods, NEW c \in DOMAIN bins, Within(want[j], bins[c].used)
        PROVE  Within(want[j], bins'[c].used)
    <3>1. want[j] \in Amounts
      BY <1>1, SizedFacts
    <3>2. CASE c = b
      BY <1>4, <2>3, <2>4, <2>5, <3>1, <3>2, WithinMore
    <3>3. CASE c # b
      BY <2>4, <2>5, <3>3
    <3> QED
      BY <3>2, <3>3
  <2>6. Within(want[i], bins'[b].used)
    BY <1>4, <2>3, <2>4, WithinMore
  <2>7. \A j \in seen \ (waiting' \cup neverFits' \cup placed') :
          \E c \in DOMAIN bins' : Within(want[j], bins'[c].used)
    <3>1. seen \subseteq Pods
      BY <1>1 DEF SizedInv, SizingTypeOK
    <3>2. ASSUME NEW j \in seen \ (waiting' \cup neverFits' \cup placed')
          PROVE  \E c \in DOMAIN bins' : Within(want[j], bins'[c].used)
      <4>1. CASE j = i
        BY <2>4, <2>6, <4>1
      <4>2. CASE j # i
        <5>1. PICK c \in DOMAIN bins : Within(want[j], bins[c].used)
          BY <1>1, <1>2, <2>2, <3>2, <4>2 DEF PlannedInv
        <5> QED
          BY <2>4, <2>5, <3>1, <3>2, <5>1
      <4> QED
        BY <4>1, <4>2
    <3> QED
      BY <3>2
  <2> QED
    BY <1>1, <1>2, <1>5, <2>2, <2>4, <2>7 DEF CountedInv, PlannedInv, NotRentedTwice
<1>9. CASE OpenBin(i)
  <2>1. PICK f \in DOMAIN shapes : bins' = Append(bins, [flavor |-> f, used |-> want[i]])
    BY <1>9 DEF OpenBin, IsFirst
  <2>2. /\ UNCHANGED <<free, placed, neverFits>> /\ opener' = Append(opener, i)
        /\ waiting' = waiting \ {i} /\ WithRoom(i) = {}
    BY <1>9 DEF OpenBin, Handled
  <2>3. PICK n \in Nat : n = Len(bins)
    BY <1>1 DEF PackingTypeOK
  <2>4. /\ bins \in Seq(Bins) /\ opener \in Seq(Pods) /\ Len(opener) = n /\ f # NoFlavor
        /\ [flavor |-> f, used |-> want[i]] \in Bins
    <3>1. shapes \in Seq(Amounts)
      BY <1>1, SizedFacts
    <3> QED
      BY <1>1, <1>4, <2>3, <3>1 DEF PackingTypeOK, Bins, NoFlavor
  <2>5. /\ DOMAIN bins' = DOMAIN bins \cup {n + 1} /\ n + 1 \notin DOMAIN bins
        /\ bins'[n + 1] = [flavor |-> f, used |-> want[i]]
        /\ \A b \in DOMAIN bins : bins'[b] = bins[b]
    BY <2>1, <2>3, <2>4
  <2>6. /\ DOMAIN opener' = DOMAIN opener \cup {n + 1} /\ opener'[n + 1] = i
        /\ \A b \in DOMAIN opener : opener'[b] = opener[b]
    BY <1>4, <2>2, <2>3, <2>4
  <2>7. i \in promised => placed # {} \/ overlooked
    <3> SUFFICES ASSUME i \in promised, placed = {}, ~overlooked PROVE FALSE
      OBVIOUS
    <3>1. PICK m \in Fleet : FitsIn(want[i], RoomOn(m), FALSE)
      BY <1>1 DEF RoomInv, Room
    <3>2. PICK k \in DOMAIN free : free[k] = RoomOn(m)
      BY <1>1, <1>2 DEF PlannedInv
    <3> QED
      BY <2>2, <3>1, <3>2 DEF WithRoom
  <2>8. Within(want[i], bins'[n + 1].used)
    BY <1>4, <2>5, WithinSelf
  <2>9. \A j \in seen \ (waiting' \cup neverFits' \cup placed') :
          \E b \in DOMAIN bins' : Within(want[j], bins'[b].used)
    BY <1>1, <1>2, <2>2, <2>5, <2>8 DEF PlannedInv
  <2>10. \A b \in DOMAIN bins' : bins'[b].flavor # NoFlavor
    BY <1>1, <2>4, <2>5 DEF CountedInv
  <2>11. \A b \in DOMAIN opener' : opener'[b] \in promised =>
           placed' # {} \/ overlooked \/ \E c \in DOMAIN opener : opener'[b] = opener[c]
    BY <2>2, <2>6, <2>7
  <2> QED
    BY <1>1, <1>2, <1>5, <2>2, <2>9, <2>10, <2>11 DEF PlannedInv
<1>10. CASE RentToMeasure(i)
  BY <1>1, <1>10, Known DEF RentToMeasure
<1> QED
  BY <1>3, <1>6, <1>7, <1>8, <1>9, <1>10

-----------------------------------------------------------------------------
LEMMA RentedStart == SizingInit => RentedInv
<1> SUFFICES ASSUME SizingInit PROVE RentedInv
  OBVIOUS
<1>1. CountedInv
  BY DEF SizingInit, CountedInv, Booting, NoMachine
<1>2. PlannedInv /\ RoomInv /\ NotRentedTwice
  BY DEF SizingInit, PlannedInv, RoomInv, NotRentedTwice
<1> QED
  BY <1>1, <1>2, SizedStart DEF RentedInv, CountInv

LEMMA RentedStep ==
  ASSUME AsReported, RentedInv, [SizingNext]_sizingVars PROVE RentedInv'
<1>1. SizedInv'
  BY SizedStep DEF RentedInv
<1>2. CountInv'
  <2>1. CASE Pass
    BY <1>1, <2>1, QuietKeeps, ReadFleetKeeps, PlanPodKeeps, EndPassKeeps, RentKeeps DEF Pass
  <2>2. CASE \E m \in Ids : ScaleDown(m) \/ ReapOut(m)
    BY <2>2, TakingKeeps
  <2>3. ASSUME NEW m \in Ids, Join(m) \/ DropOut(m) \/ ComeBack(m) PROVE CountInv'
    BY <1>1, <2>3, BecomesKeeps DEF Join, DropOut, ComeBack, Fleet
  <2>4. CASE \E i \in Pods : PodArrives(i) \/ Delete(i) \/ PodEnds(i) \/ Scheduled(i)
    BY <1>1, <2>4, QuietKeeps, LeavingKeeps, TakingKeeps DEF Scheduled
  <2>5. CASE UNCHANGED sizingVars
    BY <2>5, QuietKeeps
  <2> QED
    BY <2>1, <2>2, <2>3, <2>4, <2>5 DEF SizingNext
<1> QED
  BY <1>1, <1>2 DEF RentedInv

\* As long as the provider's flavors are what its machines turn out to have, a pod
\* an earlier pass has rented for is not rented for again, whatever nodes drop out and
\* come back between the passes: only a pod of the same plan that took the room first,
\* on a machine that runs or boots, makes it wait, or a machine that is out just then.
THEOREM RentedOnce == ASSUME AsReported PROVE SizingSpec => []NotRentedTwice
<1>1. SizingInit => RentedInv
  BY RentedStart
<1>2. RentedInv /\ [SizingNext]_sizingVars => RentedInv'
  BY RentedStep
<1>3. RentedInv => NotRentedTwice
  BY DEF RentedInv, CountInv
<1> QED
  BY <1>1, <1>2, <1>3, PTL DEF SizingSpec
=============================================================================
