------------------------------ MODULE Resources ------------------------------
(***************************************************************************)
(* Capacity and demand as vectors.  The code keeps a vector as a dict      *)
(* without its zeroes; here it is a function that is 0 wherever the dict   *)
(* has no key, so "absent" and "zero" are one and the same.  What absent   *)
(* means is the reader's decision: nothing for a demand, and for a         *)
(* capacity either "none" or "never measured".                             *)
(***************************************************************************)
EXTENDS Integers

CONSTANT Dims                   \* cpu, memory, pods, GPUs

Vector == [Dims -> Int]
Amounts == [Dims -> Nat]

Nothing == [d \in Dims |-> 0]

\* The keys of the dict.
Keys(v) == {d \in Dims : v[d] # 0}

Plus(v, w) == [d \in Dims |-> v[d] + w[d]]
Minus(v, w) == [d \in Dims |-> v[d] - w[d]]
ClampZero(v) == [d \in Dims |-> IF v[d] > 0 THEN v[d] ELSE 0]

\* An absent dimension of the capacity is unmeasured, and lets the demand
\* through, when knownOnly holds; otherwise there is none of it.
FitsIn(demand, capacity, knownOnly) ==
  \A d \in Keys(demand) :
    demand[d] > 0 => IF d \in Keys(capacity) THEN demand[d] <= capacity[d]
                     ELSE knownOnly

\* The fractions of a capacity a demand takes, as numerator and denominator;
\* what the capacity has none of counts as the whole of it.
Fractions(demand, capacity) ==
  {<<0, 1>>} \cup {IF capacity[d] > 0 THEN <<demand[d], capacity[d]>> ELSE <<1, 1>> :
                     d \in {e \in Dims : demand[e] > 0}}

\* v's dominant_ratio of the capacity is at least w's.
AsAwkward(v, w, capacity) ==
  \A f \in Fractions(w, capacity) :
    \E g \in Fractions(v, capacity) : f[1] * g[2] <= g[1] * f[2]
=============================================================================
