----------------------------- MODULE FoldProofs -----------------------------
(***************************************************************************)
(* What the folds of the community modules compute.  A fold goes through a *)
(* set in an order of its own, by a function that is defined recursively   *)
(* over the subsets of it.  That there is such a function takes a proof    *)
(* (FoldExists); what it computes is then shown by looking at a smallest   *)
(* set for which it would not be so.                                       *)
(***************************************************************************)
EXTENDS Functions, FiniteSetTheorems, WellFoundedInduction, TLAPS

\* The numbers from one to k are k.
LEMMA Counted == \A k \in Nat : IsFiniteSet(1 .. k) /\ Cardinality(1 .. k) = k
<1> SUFFICES ASSUME NEW k \in Nat PROVE IsFiniteSet(1 .. k) /\ Cardinality(1 .. k) = k
  OBVIOUS
<1>1. k \in Int /\ 1 \in Int
  OBVIOUS
<1>2. /\ IsFiniteSet(1 .. k)
      /\ Cardinality(1 .. k) = IF 1 > k THEN 0 ELSE k - 1 + 1
  BY <1>1, FS_Interval
<1> QED
  BY <1>2

\* Of finite sets there is one without a smaller one among them.
LEMMA SmallestSet ==
  ASSUME NEW D, IsFiniteSet(D), NEW C \in SUBSET SUBSET D, C # {}
  PROVE  \E T \in C : \A U \in C : ~(U \subseteq T /\ U # T)
<1> DEFINE Less == StrictSubsetOrdering(D)
<1>1. IsWellFoundedOn(Less, FiniteSubsetsOf(D))
  BY FS_StrictSubsetOrderingWellFounded
<1>2. C \subseteq FiniteSubsetsOf(D)
  BY FS_Subset DEF FiniteSubsetsOf
<1>3. C \in SUBSET FiniteSubsetsOf(D)
  BY <1>2
<1> HIDE DEF Less
<1>4. PICK T \in C : \A U \in C : <<U, T>> \notin Less
  BY <1>1, <1>3, WFMin, Zenon
<1>5. ASSUME NEW U \in C, U \subseteq T, U # T PROVE FALSE
  BY <1>2, <1>4, <1>5 DEF Less, StrictSubsetOrdering
<1> QED
  BY <1>5

Pick(s) == CHOOSE x \in s : TRUE

\* h folds G over the subsets of T.
Folds(h, T, b, G) ==
  h = [s \in SUBSET T |-> IF s = {} THEN b ELSE G[<<Pick(s), h[s \ {Pick(s)}]>>]]

LEMMA PickIn == ASSUME NEW s, s # {} PROVE Pick(s) \in s
BY DEF Pick

LEMMA FoldsAgree ==
  ASSUME NEW D, IsFiniteSet(D), NEW T \in SUBSET D, NEW U \in SUBSET D, NEW b, NEW G, NEW f, NEW g,
         Folds(f, T, b, G), Folds(g, U, b, G)
  PROVE  \A s \in SUBSET (T \cap U) : f[s] = g[s]
<1> DEFINE C == {s \in SUBSET (T \cap U) : f[s] # g[s]}
<1> SUFFICES ASSUME C # {} PROVE FALSE
  OBVIOUS
<1>1. C \in SUBSET SUBSET D
  OBVIOUS
<1> HIDE DEF C
<1>2. PICK s \in C : \A r \in C : ~(r \subseteq s /\ r # s)
  BY <1>1, SmallestSet
<1> USE DEF C
<1>3. /\ \A r \in SUBSET T : f[r] = IF r = {} THEN b ELSE G[<<Pick(r), f[r \ {Pick(r)}]>>]
      /\ \A r \in SUBSET U : g[r] = IF r = {} THEN b ELSE G[<<Pick(r), g[r \ {Pick(r)}]>>]
  BY Zenon DEF Folds
<1>4. s # {}
  BY <1>3
<1>5. s \ {Pick(s)} \in SUBSET (T \cap U) /\ s \ {Pick(s)} # s
  BY <1>4, PickIn
<1>6. f[s \ {Pick(s)}] = g[s \ {Pick(s)}]
  BY <1>2, <1>5
<1> QED
  BY <1>3, <1>4, <1>6

LEMMA FoldExists ==
  ASSUME NEW D, IsFiniteSet(D), NEW V, NEW b \in V, NEW G \in [D \X V -> V]
  PROVE  \E h \in [SUBSET D -> V] : Folds(h, D, b, G)
<1> DEFINE Ok(T) == \E h \in [SUBSET T -> V] : Folds(h, T, b, G)
           C == {T \in SUBSET D : ~Ok(T)}
<1> SUFFICES ASSUME C # {} PROVE FALSE
  OBVIOUS
<1>1. PICK T \in C : \A U \in C : ~(U \subseteq T /\ U # T)
  <2>1. C \in SUBSET SUBSET D
    OBVIOUS
  <2> HIDE DEF C
  <2> QED
    BY <2>1, SmallestSet
<1> DEFINE F(U) == CHOOSE h \in [SUBSET U -> V] : Folds(h, U, b, G)
           Less(s) == s \ {Pick(s)}
           h == [s \in SUBSET T |-> IF s = {} THEN b ELSE G[<<Pick(s), F(Less(s))[Less(s)]>>]]
<1>2. ASSUME NEW U \in SUBSET T, U # T PROVE F(U) \in [SUBSET U -> V] /\ Folds(F(U), U, b, G)
  <2>1. Ok(U)
    BY <1>1, <1>2
  <2> QED
    BY <2>1
<1>3. ASSUME NEW s \in SUBSET T, s # {}
      PROVE  Pick(s) \in D /\ Less(s) \in SUBSET T /\ Less(s) # T /\ Less(s) # s
  BY <1>3, PickIn
<1> HIDE DEF F, Less, Ok
<1>4. h \in [SUBSET T -> V]
  <2> SUFFICES ASSUME NEW s \in SUBSET T, s # {} PROVE G[<<Pick(s), F(Less(s))[Less(s)]>>] \in V
    OBVIOUS
  <2>1. F(Less(s)) \in [SUBSET Less(s) -> V]
    BY <1>2, <1>3
  <2>2. F(Less(s))[Less(s)] \in V
    BY <2>1
  <2> QED
    BY <1>3, <2>2
<1>5. ASSUME NEW s \in SUBSET T, s # T PROVE h[s] = F(s)[s]
  <2>1. Folds(F(s), s, b, G)
    BY <1>2, <1>5
  <2>2. F(s)[s] = IF s = {} THEN b ELSE G[<<Pick(s), F(s)[s \ {Pick(s)}]>>]
    BY <2>1, Zenon DEF Folds
  <2>3. CASE s = {}
    BY <2>2, <2>3
  <2>4. CASE s # {}
    <3>1. Folds(F(Less(s)), Less(s), b, G)
      BY <1>2, <1>3, <2>4
    <3>2. Less(s) \in SUBSET (s \cap Less(s)) /\ Less(s) \in SUBSET D /\ s \in SUBSET D
      BY <1>3, <2>4 DEF Less
    <3>3. F(s)[Less(s)] = F(Less(s))[Less(s)]
      BY <2>1, <3>1, <3>2, FoldsAgree
    <3> QED
      BY <2>2, <2>4, <3>3 DEF Less
  <2> QED
    BY <2>3, <2>4
<1>6. h = [s \in SUBSET T |-> IF s = {} THEN b ELSE G[<<Pick(s), h[s \ {Pick(s)}]>>]]
  <2>1. ASSUME NEW s \in SUBSET T, s # {} PROVE F(Less(s))[Less(s)] = h[s \ {Pick(s)}]
    <3>1. h[Less(s)] = F(Less(s))[Less(s)]
      BY <1>3, <1>5, <2>1
    <3> QED
      BY <3>1 DEF Less
  <2> QED
    BY <2>1
<1> QED
  BY <1>1, <1>4, <1>6 DEF Ok, Folds

-----------------------------------------------------------------------------
(* Sums.                                                                   *)

Sum(w, S) == SumFunctionOnSet(w, S)

\* f has the sum of every subset.
SumsUp(f, w, S) ==
  \A s \in SUBSET S : f[s] = IF s = {} THEN 0 ELSE w[Pick(s)] + f[s \ {Pick(s)}]

LEMMA SumUnfolds ==
  ASSUME NEW S, IsFiniteSet(S), NEW w, \A x \in S : w[x] \in Nat
  PROVE  \E f : Sum(w, S) = f[S] /\ SumsUp(f, w, S)
<1> DEFINE G == [p \in S \X Nat |-> w[p[1]] + p[2]]
           Eq(f) == f = [s \in SUBSET S |-> IF s = {} THEN 0 ELSE w[Pick(s)] + f[s \ {Pick(s)}]]
<1>1. G \in [S \X Nat -> Nat]
  OBVIOUS
<1>2. PICK h \in [SUBSET S -> Nat] : Folds(h, S, 0, G)
  <2> HIDE DEF G
  <2> QED
    BY <1>1, FoldExists
<1>3. \A s \in SUBSET S : s # {} =>
        G[<<Pick(s), h[s \ {Pick(s)}]>>] = w[Pick(s)] + h[s \ {Pick(s)}]
  <2> SUFFICES ASSUME NEW s \in SUBSET S, s # {}
               PROVE G[<<Pick(s), h[s \ {Pick(s)}]>>] = w[Pick(s)] + h[s \ {Pick(s)}]
    OBVIOUS
  <2>1. <<Pick(s), h[s \ {Pick(s)}]>> \in S \X Nat
    BY PickIn
  <2> QED
    BY <2>1
<1>4. Eq(h)
  <2> HIDE DEF G
  <2> QED
    BY <1>2, <1>3 DEF Folds
<1> DEFINE f == CHOOSE g : Eq(g)
<1>5. Eq(f)
  BY <1>4, Zenon
<1>6. Sum(w, S) = f[S]
  BY Zenon DEF Sum, SumFunctionOnSet, FoldFunctionOnSet, MapThenFoldSet, Pick
<1> HIDE DEF f
<1>7. SumsUp(f, w, S)
  BY <1>5 DEF SumsUp
<1> QED
  BY <1>6, <1>7, Zenon

\* An element can be taken out of a sum.
LEMMA SumTakesOut ==
  ASSUME NEW S, IsFiniteSet(S), NEW w, \A x \in S : w[x] \in Nat
  PROVE  /\ Sum(w, S) \in Nat
         /\ S = {} => Sum(w, S) = 0
         /\ \A x \in S : Sum(w, S) = w[x] + Sum(w, S \ {x})
<1>0. PICK f : Sum(w, S) = f[S] /\ SumsUp(f, w, S)
  BY SumUnfolds, Zenon
<1>1. /\ Sum(w, S) = f[S]
      /\ \A s \in SUBSET S : f[s] = IF s = {} THEN 0 ELSE w[Pick(s)] + f[s \ {Pick(s)}]
  BY <1>0 DEF SumsUp
<1> DEFINE Ok(s) == f[s] \in Nat /\ \A x \in s : f[s] = w[x] + f[s \ {x}]
           C == {s \in SUBSET S : ~Ok(s)}
<1>2. C = {}
  <2> SUFFICES ASSUME C # {} PROVE FALSE
    OBVIOUS
  <2>1. C \in SUBSET SUBSET S
    OBVIOUS
  <2>2. PICK s \in C : \A r \in C : ~(r \subseteq s /\ r # s)
    <3> HIDE DEF C
    <3> QED
      BY <2>1, SmallestSet
  <2>3. s \in SUBSET S /\ ~Ok(s)
    OBVIOUS
  <2>4. \A r \in SUBSET s : r # s => Ok(r)
    BY <2>2, <2>3
  <2> HIDE DEF C
  <2>5. s # {}
    BY <1>1, <2>3
  <2> DEFINE y == Pick(s)
  <2>6. y \in s /\ w[y] \in Nat /\ f[s] = w[y] + f[s \ {y}] /\ f[s \ {y}] \in Nat
    <3>1. y \in s
      BY <2>5, PickIn
    <3>2. Ok(s \ {y})
      BY <2>4, <3>1
    <3> QED
      BY <1>1, <2>3, <2>5, <3>1, <3>2
  <2> HIDE DEF y
  <2>7. ASSUME NEW x \in s PROVE f[s] = w[x] + f[s \ {x}]
    <3>1. CASE x = y
      BY <2>6, <3>1
    <3>2. CASE x # y
      <4>1. Ok(s \ {y}) /\ x \in s \ {y} /\ Ok(s \ {x}) /\ y \in s \ {x} /\ Ok(s \ {x, y})
        BY <2>4, <2>6, <2>7, <3>2
      <4>2. (s \ {y}) \ {x} = s \ {x, y} /\ (s \ {x}) \ {y} = s \ {x, y}
        OBVIOUS
      <4>3. f[s \ {y}] = w[x] + f[s \ {x, y}] /\ f[s \ {x}] = w[y] + f[s \ {x, y}]
        BY <4>1, <4>2
      <4>4. w[x] \in Nat /\ f[s \ {x, y}] \in Nat
        BY <2>3, <2>7, <4>1
      <4> QED
        BY <2>6, <4>3, <4>4
    <3> QED
      BY <3>1, <3>2
  <2>8. f[s] \in Nat
    BY <2>6
  <2> QED
    BY <2>3, <2>7, <2>8
<1>3. \A s \in SUBSET S : Ok(s)
  BY <1>2
<1> HIDE DEF Ok, C
<1>4. Sum(w, S) \in Nat /\ (S = {} => Sum(w, S) = 0)
  BY <1>1, <1>3 DEF Ok
<1>5. ASSUME NEW x \in S PROVE Sum(w, S) = w[x] + Sum(w, S \ {x})
  <2> DEFINE T == S \ {x}
  <2>1. IsFiniteSet(T)
    BY FS_Subset
  <2>2. PICK g : Sum(w, T) = g[T] /\ SumsUp(g, w, T)
    <3>1. \A z \in T : w[z] \in Nat
      OBVIOUS
    <3> HIDE DEF T
    <3> QED
      BY <2>1, <3>1, SumUnfolds, Zenon
  <2> USE DEF SumsUp
  <2> DEFINE B == {s \in SUBSET T : f[s] # g[s]}
  <2>3. B = {}
    <3> SUFFICES ASSUME B # {} PROVE FALSE
      OBVIOUS
    <3>1. B \in SUBSET SUBSET T
      OBVIOUS
    <3>2. PICK s \in B : \A r \in B : ~(r \subseteq s /\ r # s)
      <4> HIDE DEF B, T
      <4> QED
        BY <2>1, <3>1, SmallestSet
    <3>3. s \in SUBSET T /\ f[s] # g[s]
      OBVIOUS
    <3>4. s # {}
      BY <1>1, <2>2, <3>3
    <3>5. Pick(s) \in s
      BY <3>4, PickIn
    <3>6. f[s \ {Pick(s)}] = g[s \ {Pick(s)}]
      BY <3>2, <3>5
    <3> QED
      BY <1>1, <2>2, <3>3, <3>4, <3>6
  <2>4. f[T] = g[T]
    BY <2>3
  <2>5. f[S] = w[x] + f[T]
    BY <1>3 DEF Ok
  <2> QED
    BY <1>1, <2>2, <2>4, <2>5
<1> QED
  BY <1>4, <1>5

\* The sum of sums.
LEMMA SumAdds ==
  ASSUME NEW S, IsFiniteSet(S), NEW u, NEW v, NEW w,
         \A x \in S : u[x] \in Nat /\ v[x] \in Nat /\ w[x] = u[x] + v[x]
  PROVE  Sum(w, S) = Sum(u, S) + Sum(v, S)
<1> DEFINE Ok(s) == Sum(w, s) = Sum(u, s) + Sum(v, s)
           C == {s \in SUBSET S : ~Ok(s)}
<1> SUFFICES ASSUME C # {} PROVE FALSE
  OBVIOUS
<1>1. C \in SUBSET SUBSET S
  OBVIOUS
<1>2. PICK s \in C : \A r \in C : ~(r \subseteq s /\ r # s)
  <2> HIDE DEF C
  <2> QED
    BY <1>1, SmallestSet
<1>3. s \in SUBSET S /\ ~Ok(s) /\ \A x \in s : Ok(s \ {x})
  BY <1>2
<1>4. /\ IsFiniteSet(s)
      /\ \A x \in s : u[x] \in Nat /\ v[x] \in Nat /\ w[x] \in Nat /\ w[x] = u[x] + v[x]
  BY <1>3, FS_Subset
<1> HIDE DEF C
<1>5. CASE s = {}
  BY <1>3, <1>4, <1>5, SumTakesOut
<1>6. CASE s # {}
  <2>1. PICK x \in s : TRUE
    BY <1>6
  <2>2. /\ Sum(u, s) = u[x] + Sum(u, s \ {x}) /\ Sum(v, s) = v[x] + Sum(v, s \ {x})
        /\ Sum(w, s) = w[x] + Sum(w, s \ {x})
    BY <1>4, <2>1, SumTakesOut
  <2>3. IsFiniteSet(s \ {x}) /\ Sum(u, s \ {x}) \in Nat /\ Sum(v, s \ {x}) \in Nat
    <3>1. IsFiniteSet(s \ {x})
      BY <1>4, FS_Subset
    <3> QED
      BY <1>4, <3>1, SumTakesOut
  <2> QED
    BY <1>3, <1>4, <2>1, <2>2, <2>3
<1> QED
  BY <1>5, <1>6

\* The larger the parts, the larger the sum.
LEMMA SumGrows ==
  ASSUME NEW S, IsFiniteSet(S), NEW v, NEW w,
         \A x \in S : v[x] \in Nat /\ w[x] \in Nat /\ v[x] <= w[x]
  PROVE  Sum(v, S) <= Sum(w, S)
<1> DEFINE rest == [x \in S |-> w[x] - v[x]]
<1>1. \A x \in S : v[x] \in Nat /\ rest[x] \in Nat /\ w[x] = v[x] + rest[x]
  OBVIOUS
<1> HIDE DEF rest
<1>2. Sum(w, S) = Sum(v, S) + Sum(rest, S)
  BY <1>1, SumAdds
<1>3. Sum(v, S) \in Nat /\ Sum(rest, S) \in Nat
  BY <1>1, SumTakesOut
<1> QED
  BY <1>2, <1>3

\* The sum does not look beyond its set.
LEMMA SumSame ==
  ASSUME NEW S, IsFiniteSet(S), NEW v, NEW w,
         \A x \in S : v[x] \in Nat /\ w[x] = v[x]
  PROVE  Sum(v, S) = Sum(w, S)
<1>1. Sum(v, S) <= Sum(w, S) /\ Sum(w, S) <= Sum(v, S)
  BY SumGrows
<1>2. Sum(v, S) \in Nat /\ Sum(w, S) \in Nat
  BY SumTakesOut
<1> QED
  BY <1>1, <1>2

LEMMA SumOfTwo ==
  ASSUME NEW x, NEW y, x # y, NEW w, w[x] \in Nat, w[y] \in Nat
  PROVE  IsFiniteSet({x, y}) /\ Sum(w, {x, y}) = w[x] + w[y]
<1>1. IsFiniteSet({}) /\ IsFiniteSet({y}) /\ IsFiniteSet({x, y})
  <2>1. IsFiniteSet({})
    BY FS_EmptySet
  <2>2. {y} = {} \cup {y} /\ {x, y} = {y} \cup {x}
    OBVIOUS
  <2> QED
    BY <2>1, <2>2, FS_AddElement
<1>2. Sum(w, {}) = 0
  BY <1>1, SumTakesOut
<1>3. Sum(w, {y}) = w[y] + Sum(w, {y} \ {y}) /\ {y} \ {y} = {}
  BY <1>1, SumTakesOut
<1>4. Sum(w, {x, y}) = w[x] + Sum(w, {x, y} \ {x}) /\ {x, y} \ {x} = {y}
  BY <1>1, SumTakesOut
<1>5. Sum(w, {y}) = w[y]
  BY <1>2, <1>3
<1>6. Sum(w, {x, y}) = w[x] + Sum(w, {y})
  BY <1>4
<1> QED
  BY <1>1, <1>5, <1>6

\* Sums over sets that have nothing in common.
LEMMA SumUnion ==
  ASSUME NEW S, NEW T, IsFiniteSet(S), IsFiniteSet(T), S \cap T = {}, NEW w,
         \A x \in S \cup T : w[x] \in Nat
  PROVE  Sum(w, S \cup T) = Sum(w, S) + Sum(w, T)
<1> DEFINE Ok(s) == Sum(w, s \cup T) = Sum(w, s) + Sum(w, T)
           C == {s \in SUBSET S : ~Ok(s)}
<1> SUFFICES ASSUME C # {} PROVE FALSE
  OBVIOUS
<1>1. C \in SUBSET SUBSET S
  OBVIOUS
<1>2. PICK s \in C : \A r \in C : ~(r \subseteq s /\ r # s)
  <2> HIDE DEF C
  <2> QED
    BY <1>1, SmallestSet
<1>3. s \in SUBSET S /\ ~Ok(s) /\ \A x \in s : Ok(s \ {x})
  BY <1>2
<1>4. IsFiniteSet(s) /\ IsFiniteSet(s \cup T) /\ \A x \in s \cup T : w[x] \in Nat
  BY <1>3, FS_Subset, FS_Union
<1> HIDE DEF C
<1>5. CASE s = {}
  <2>1. s \cup T = T /\ Sum(w, s) = 0 /\ Sum(w, T) \in Nat
    BY <1>4, <1>5, SumTakesOut
  <2> QED
    BY <1>3, <2>1
<1>6. CASE s # {}
  <2>1. PICK x \in s : TRUE
    BY <1>6
  <2>2. Sum(w, s) = w[x] + Sum(w, s \ {x}) /\ w[x] \in Nat
    BY <1>4, <2>1, SumTakesOut
  <2>3. Sum(w, s \cup T) = w[x] + Sum(w, (s \cup T) \ {x})
    BY <1>4, <2>1, SumTakesOut
  <2>4. (s \cup T) \ {x} = (s \ {x}) \cup T
    BY <1>3, <2>1
  <2>5. Sum(w, s \ {x}) \in Nat /\ Sum(w, T) \in Nat
    <3>1. IsFiniteSet(s \ {x})
      BY <1>4, FS_Subset
    <3> QED
      BY <1>4, <3>1, SumTakesOut
  <2> QED
    BY <1>3, <2>1, <2>2, <2>3, <2>4, <2>5
<1> QED
  BY <1>5, <1>6

\* A part of the set has a part of the sum.
LEMMA SumOfPart ==
  ASSUME NEW S, IsFiniteSet(S), NEW T \in SUBSET S, NEW w, \A x \in S : w[x] \in Nat
  PROVE  Sum(w, T) <= Sum(w, S)
<1>1. IsFiniteSet(T) /\ IsFiniteSet(S \ T) /\ T \cap (S \ T) = {} /\ T \cup (S \ T) = S
  BY FS_Subset
<1>2. Sum(w, S) = Sum(w, T) + Sum(w, S \ T)
  BY <1>1, SumUnion
<1>3. Sum(w, T) \in Nat /\ Sum(w, S \ T) \in Nat
  BY <1>1, SumTakesOut
<1> QED
  BY <1>2, <1>3

\* As many times as there are elements.
LEMMA SumOfMany ==
  ASSUME NEW S, IsFiniteSet(S), NEW c \in Nat, NEW w, \A x \in S : w[x] \in Nat /\ c <= w[x]
  PROVE  c * Cardinality(S) <= Sum(w, S)
<1> DEFINE Ok(s) == c * Cardinality(s) <= Sum(w, s)
           C == {s \in SUBSET S : ~Ok(s)}
<1> SUFFICES ASSUME C # {} PROVE FALSE
  OBVIOUS
<1>1. C \in SUBSET SUBSET S
  OBVIOUS
<1>2. PICK s \in C : \A r \in C : ~(r \subseteq s /\ r # s)
  <2> HIDE DEF C
  <2> QED
    BY <1>1, SmallestSet
<1>3. s \in SUBSET S /\ ~Ok(s) /\ \A x \in s : Ok(s \ {x})
  BY <1>2
<1>4. IsFiniteSet(s) /\ \A x \in s : w[x] \in Nat /\ c <= w[x]
  BY <1>3, FS_Subset
<1> HIDE DEF C
<1>5. CASE s = {}
  BY <1>3, <1>4, <1>5, SumTakesOut, FS_EmptySet
<1>6. CASE s # {}
  <2>1. PICK x \in s : TRUE
    BY <1>6
  <2>2. Sum(w, s) = w[x] + Sum(w, s \ {x}) /\ w[x] \in Nat /\ c <= w[x]
    BY <1>4, <2>1, SumTakesOut
  <2>3. PICK n \in Nat : n = Cardinality(s \ {x}) /\ Cardinality(s) = n + 1
    <3>1. IsFiniteSet(s \ {x}) /\ Cardinality(s \ {x}) = Cardinality(s) - 1
      BY <1>4, <2>1, FS_RemoveElement
    <3>2. Cardinality(s \ {x}) \in Nat /\ Cardinality(s) \in Nat
      BY <1>4, <3>1, FS_CardinalityType
    <3> QED
      BY <3>1, <3>2
  <2>4. Sum(w, s \ {x}) \in Nat
    <3>1. IsFiniteSet(s \ {x})
      BY <1>4, FS_Subset
    <3> QED
      BY <1>4, <3>1, SumTakesOut
  <2>5. c * n <= Sum(w, s \ {x})
    BY <1>3, <2>1, <2>3
  <2>6. c * (n + 1) = c * n + c /\ c * n \in Nat
    BY <2>3
  <2> QED
    BY <1>3, <2>2, <2>3, <2>4, <2>5, <2>6
<1> QED
  BY <1>5, <1>6

LEMMA SumOfFew ==
  ASSUME NEW S, IsFiniteSet(S), NEW c \in Nat, NEW w, \A x \in S : w[x] \in Nat /\ w[x] <= c
  PROVE  Sum(w, S) <= c * Cardinality(S)
<1> DEFINE Ok(s) == Sum(w, s) <= c * Cardinality(s)
           C == {s \in SUBSET S : ~Ok(s)}
<1> SUFFICES ASSUME C # {} PROVE FALSE
  OBVIOUS
<1>1. C \in SUBSET SUBSET S
  OBVIOUS
<1>2. PICK s \in C : \A r \in C : ~(r \subseteq s /\ r # s)
  <2> HIDE DEF C
  <2> QED
    BY <1>1, SmallestSet
<1>3. s \in SUBSET S /\ ~Ok(s) /\ \A x \in s : Ok(s \ {x})
  BY <1>2
<1>4. IsFiniteSet(s) /\ \A x \in s : w[x] \in Nat /\ w[x] <= c
  BY <1>3, FS_Subset
<1> HIDE DEF C
<1>5. CASE s = {}
  BY <1>3, <1>4, <1>5, SumTakesOut, FS_EmptySet
<1>6. CASE s # {}
  <2>1. PICK x \in s : TRUE
    BY <1>6
  <2>2. Sum(w, s) = w[x] + Sum(w, s \ {x}) /\ w[x] \in Nat /\ w[x] <= c
    BY <1>4, <2>1, SumTakesOut
  <2>3. PICK n \in Nat : n = Cardinality(s \ {x}) /\ Cardinality(s) = n + 1
    <3>1. IsFiniteSet(s \ {x}) /\ Cardinality(s \ {x}) = Cardinality(s) - 1
      BY <1>4, <2>1, FS_RemoveElement
    <3>2. Cardinality(s \ {x}) \in Nat /\ Cardinality(s) \in Nat
      BY <1>4, <3>1, FS_CardinalityType
    <3> QED
      BY <3>1, <3>2
  <2>4. Sum(w, s \ {x}) \in Nat
    <3>1. IsFiniteSet(s \ {x})
      BY <1>4, FS_Subset
    <3> QED
      BY <1>4, <3>1, SumTakesOut
  <2>5. Sum(w, s \ {x}) <= c * n
    BY <1>3, <2>1, <2>3
  <2>6. c * (n + 1) = c * n + c /\ c * n \in Nat
    BY <2>3
  <2> QED
    BY <1>3, <2>2, <2>3, <2>4, <2>5, <2>6
<1> QED
  BY <1>5, <1>6

\* What two, and three, of a set have between them is no more than the set has.
LEMMA TwoOfMany ==
  ASSUME NEW S, IsFiniteSet(S), NEW w, \A x \in S : w[x] \in Nat,
         NEW x \in S, NEW y \in S, x # y
  PROVE  w[x] + w[y] <= Sum(w, S)
<1>1. IsFiniteSet({x, y}) /\ Sum(w, {x, y}) = w[x] + w[y]
  BY SumOfTwo
<1>2. {x, y} \in SUBSET S
  OBVIOUS
<1>3. Sum(w, {x, y}) <= Sum(w, S)
  BY <1>2, SumOfPart
<1> QED
  BY <1>1, <1>3

LEMMA ThreeOfMany ==
  ASSUME NEW S, IsFiniteSet(S), NEW w, \A x \in S : w[x] \in Nat,
         NEW x \in S, NEW y \in S, NEW z \in S, x # y, x # z, y # z
  PROVE  w[x] + w[y] + w[z] <= Sum(w, S)
<1>1. IsFiniteSet(S \ {x}) /\ y \in S \ {x} /\ z \in S \ {x}
  BY FS_Subset
<1>2. w[y] + w[z] <= Sum(w, S \ {x})
  BY <1>1, TwoOfMany
<1>3. Sum(w, S) = w[x] + Sum(w, S \ {x}) /\ Sum(w, S \ {x}) \in Nat
  BY <1>1, SumTakesOut
<1> QED
  BY <1>2, <1>3

\* g divides S into groups, one for each of H; v has the sum of each.
Divides(g, S, H) ==
  /\ \A m \in H : g[m] \subseteq S
  /\ \A x \in S : \E m \in H : x \in g[m]
  /\ \A m, k \in H : m # k => g[m] \cap g[k] = {}

GroupSums(v, w, g, H) == \A m \in H : v[m] = Sum(w, g[m])

\* A sum can be taken group by group.
LEMMA SumByGroup ==
  ASSUME NEW S, IsFiniteSet(S), NEW H, IsFiniteSet(H), NEW w, \A x \in S : w[x] \in Nat,
         NEW g, Divides(g, S, H), NEW v, GroupSums(v, w, g, H)
  PROVE  Sum(w, S) = Sum(v, H)
<1> DEFINE In(s) == {x \in S : \E m \in s : x \in g[m]}
           Ok(s) == Sum(w, In(s)) = Sum(v, s)
           C == {s \in SUBSET H : ~Ok(s)}
<1>0. /\ \A m \in H : g[m] \subseteq S /\ v[m] = Sum(w, g[m])
      /\ \A x \in S : \E m \in H : x \in g[m]
      /\ \A m, k \in H : m # k => g[m] \cap g[k] = {}
  BY DEF Divides, GroupSums
<1>1. C = {}
  <2> SUFFICES ASSUME C # {} PROVE FALSE
    OBVIOUS
  <2>1. C \in SUBSET SUBSET H
    OBVIOUS
  <2>2. PICK s \in C : \A r \in C : ~(r \subseteq s /\ r # s)
    <3> HIDE DEF C
    <3> QED
      BY <2>1, SmallestSet
  <2>3. s \in SUBSET H /\ ~Ok(s) /\ \A m \in s : Ok(s \ {m})
    BY <2>2
  <2> HIDE DEF C
  <2>4. \A T \in SUBSET S : IsFiniteSet(T) /\ Sum(w, T) \in Nat
    <3> SUFFICES ASSUME NEW T \in SUBSET S PROVE IsFiniteSet(T) /\ Sum(w, T) \in Nat
      OBVIOUS
    <3>1. IsFiniteSet(T) /\ \A x \in T : w[x] \in Nat
      BY FS_Subset
    <3> QED
      BY <3>1, SumTakesOut
  <2>5. IsFiniteSet(s) /\ \A m \in s : v[m] \in Nat
    BY <1>0, <2>3, <2>4, FS_Subset
  <2>6. CASE s = {}
    <3>1. In(s) = {} /\ IsFiniteSet({})
      BY <2>6, FS_EmptySet
    <3>2. Sum(w, {}) = 0 /\ Sum(v, {}) = 0
      BY <3>1, SumTakesOut
    <3> QED
      BY <2>3, <2>6, <3>1, <3>2
  <2>7. CASE s # {}
    <3>1. PICK m \in s : TRUE
      BY <2>7
    <3> DEFINE G == g[m]
    <3>2. Sum(v, s) = v[m] + Sum(v, s \ {m})
      BY <2>5, <3>1, SumTakesOut
    <3>3. In(s) = In(s \ {m}) \cup G /\ In(s \ {m}) \cap G = {}
      <4>1. G \subseteq S /\ \A k \in s \ {m} : g[k] \cap G = {}
        BY <1>0, <2>3, <3>1
      <4> QED
        BY <3>1, <4>1
    <3>4. In(s \ {m}) \in SUBSET S /\ G \in SUBSET S /\ v[m] = Sum(w, G) /\ Ok(s \ {m})
      BY <1>0, <2>3, <3>1
    <3> HIDE DEF In, G
    <3>5. Sum(w, In(s)) = Sum(w, In(s \ {m})) + Sum(w, G)
      <4>1. IsFiniteSet(In(s \ {m})) /\ IsFiniteSet(G)
        BY <2>4, <3>4
      <4>2. \A x \in In(s \ {m}) \cup G : w[x] \in Nat
        BY <3>4
      <4>3. Sum(w, In(s \ {m}) \cup G) = Sum(w, In(s \ {m})) + Sum(w, G)
        BY <3>3, <4>1, <4>2, SumUnion
      <4> QED
        BY <3>3, <4>3
    <3>6. Sum(w, In(s \ {m})) \in Nat /\ Sum(w, G) \in Nat
      BY <2>4, <3>4
    <3> QED
      BY <2>3, <3>2, <3>4, <3>5, <3>6
  <2> QED
    BY <2>6, <2>7
<1>2. In(H) = S /\ Ok(H)
  BY <1>0, <1>1
<1> QED
  BY <1>2

\* Of pairs that each have c between them a sequence has no more than it has in all.
LEMMA SumOfPairs ==
  ASSUME NEW N \in Nat, NEW w, \A b \in 1 .. N : w[b] \in Nat, NEW c \in Nat,
         NEW P \in SUBSET (Nat \ {0}), IsFiniteSet(P)
  PROVE  (\A p \in P : 2 * p <= N /\ c <= w[2 * p - 1] + w[2 * p])
           => c * Cardinality(P) <= Sum(w, 1 .. N)
<1>0. SUFFICES ASSUME \A p \in P : 2 * p <= N /\ c <= w[2 * p - 1] + w[2 * p]
               PROVE  c * Cardinality(P) <= Sum(w, 1 .. N)
  OBVIOUS
<1> DEFINE pair == [p \in P |-> {2 * p - 1, 2 * p}]
           Both == {b \in 1 .. N : \E p \in P : b \in pair[p]}
           sums == [p \in P |-> Sum(w, pair[p])]
<1>1. ASSUME NEW p \in P
      PROVE  pair[p] = {2 * p - 1, 2 * p} /\ 2 * p - 1 # 2 * p /\ 2 * p - 1 \in 1 .. N /\ 2 * p \in 1 .. N
  <2>1. p \in Nat \ {0} /\ 2 * p <= N
    BY <1>0
  <2> QED
    BY <2>1
<1>2. \A p, k \in P : p # k => pair[p] \cap pair[k] = {}
  <2> SUFFICES ASSUME NEW p \in P, NEW k \in P, p # k PROVE {2 * p - 1, 2 * p} \cap {2 * k - 1, 2 * k} = {}
    OBVIOUS
  <2>1. p \in Nat /\ k \in Nat
    OBVIOUS
  <2> QED
    BY <2>1
<1>3. IsFiniteSet(1 .. N)
  BY FS_Interval
<1>4. IsFiniteSet(Both) /\ Both \in SUBSET (1 .. N) /\ \A b \in Both : w[b] \in Nat
  BY <1>3, FS_Subset
<1>5. ASSUME NEW p \in P PROVE sums[p] \in Nat /\ c <= sums[p]
  <2>1. PICK x \in 1 .. N, y \in 1 .. N : x = 2 * p - 1 /\ y = 2 * p /\ x # y
    BY <1>1
  <2>2. w[x] \in Nat /\ w[y] \in Nat /\ c <= w[x] + w[y]
    BY <1>0, <2>1
  <2>3. Sum(w, {x, y}) = w[x] + w[y]
    BY <2>1, <2>2, SumOfTwo
  <2>4. sums[p] = Sum(w, {x, y})
    BY <2>1
  <2> HIDE DEF sums
  <2> QED
    BY <2>2, <2>3, <2>4
<1>6. Divides(pair, Both, P) /\ GroupSums(sums, w, pair, P)
  <2>1. \A p \in P : pair[p] \subseteq Both
    BY <1>1
  <2> QED
    BY <1>2, <2>1 DEF Divides, GroupSums
<1> HIDE DEF sums, Both, pair
<1>7. Sum(w, Both) = Sum(sums, P)
  <2>1. IsFiniteSet(Both) /\ \A b \in Both : w[b] \in Nat
    BY <1>4
  <2> QED
    BY <1>6, <2>1, SumByGroup
<1>8. c * Cardinality(P) <= Sum(sums, P)
  BY <1>5, SumOfMany
<1>9. Sum(w, Both) <= Sum(w, 1 .. N)
  BY <1>3, <1>4, SumOfPart
<1>10. Sum(w, Both) \in Nat /\ Sum(w, 1 .. N) \in Nat
  BY <1>3, <1>4, SumTakesOut
<1>11. c * Cardinality(P) \in Nat
  <2>1. Cardinality(P) \in Nat
    BY FS_CardinalityType
  <2> QED
    BY <2>1
<1> QED
  BY <1>7, <1>8, <1>9, <1>10, <1>11

\* What few sets of a few each have between them.
LEMMA FewInUnion ==
  ASSUME NEW K, IsFiniteSet(K), NEW P, NEW m \in Nat,
         \A e \in K : IsFiniteSet(P[e]) /\ Cardinality(P[e]) <= m
  PROVE  /\ IsFiniteSet(UNION {P[e] : e \in K})
         /\ Cardinality(UNION {P[e] : e \in K}) <= m * Cardinality(K)
<1> DEFINE All(s) == UNION {P[e] : e \in s}
           Ok(s) == IsFiniteSet(All(s)) /\ Cardinality(All(s)) <= m * Cardinality(s)
           C == {s \in SUBSET K : ~Ok(s)}
<1> HIDE DEF All
<1>1. C = {}
  <2> SUFFICES ASSUME C # {} PROVE FALSE
    OBVIOUS
  <2>1. C \in SUBSET SUBSET K
    OBVIOUS
  <2>2. PICK s \in C : \A r \in C : ~(r \subseteq s /\ r # s)
    <3> HIDE DEF C
    <3> QED
      BY <2>1, SmallestSet
  <2>3. s \in SUBSET K /\ ~Ok(s) /\ \A e \in s : Ok(s \ {e})
    BY <2>2
  <2> HIDE DEF C
  <2>4. IsFiniteSet(s)
    BY <2>3, FS_Subset
  <2>5. CASE s = {}
    <3>1. All(s) = {} /\ IsFiniteSet({}) /\ Cardinality({}) = 0 /\ m * 0 = 0
      BY <2>5, FS_EmptySet DEF All
    <3> QED
      BY <2>3, <2>5, <3>1
  <2>6. CASE s # {}
    <3>1. PICK e \in s : TRUE
      BY <2>6
    <3>2. All(s) = All(s \ {e}) \cup P[e]
      BY <3>1 DEF All
    <3>3. Ok(s \ {e}) /\ IsFiniteSet(P[e]) /\ Cardinality(P[e]) <= m
      BY <2>3, <3>1
    <3>4. PICK n \in Nat : n = Cardinality(s \ {e}) /\ Cardinality(s) = n + 1
      <4>1. IsFiniteSet(s \ {e}) /\ Cardinality(s \ {e}) = Cardinality(s) - 1
        BY <2>4, <3>1, FS_RemoveElement
      <4>2. Cardinality(s \ {e}) \in Nat /\ Cardinality(s) \in Nat
        BY <2>4, <4>1, FS_CardinalityType
      <4> QED
        BY <4>1, <4>2
    <3>5. /\ IsFiniteSet(All(s))
          /\ Cardinality(All(s)) = Cardinality(All(s \ {e})) + Cardinality(P[e])
                                   - Cardinality(All(s \ {e}) \cap P[e])
      BY <3>2, <3>3, FS_Union
    <3>6. /\ Cardinality(All(s \ {e})) \in Nat /\ Cardinality(P[e]) \in Nat
          /\ Cardinality(All(s \ {e}) \cap P[e]) \in Nat
      <4>1. IsFiniteSet(All(s \ {e}) \cap P[e])
        BY <3>3, FS_Subset
      <4> QED
        BY <3>3, <4>1, FS_CardinalityType
    <3>7. m * (n + 1) = m * n + m /\ m * n \in Nat
      BY <3>4
    <3> QED
      BY <2>3, <3>3, <3>4, <3>5, <3>6, <3>7
  <2> QED
    BY <2>5, <2>6
<1>2. Ok(K)
  BY <1>1
<1> QED
  BY <1>2 DEF All
=============================================================================
