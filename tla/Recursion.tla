----------------------------- MODULE Recursion ------------------------------
(***************************************************************************)
(* Facts about recursive functions over 0 .. n, from the well-founded      *)
(* order of the numbers: what stands for induction in the other proofs.    *)
(* A set of places is a parameter where an induction rule would have a     *)
(* formula.                                                                *)
(***************************************************************************)
EXTENDS Naturals, TLAPS, WellFoundedInduction

\* A set of numbers has a lowest member.
LEMMA LowestExists ==
  ASSUME NEW S \in SUBSET Nat, S # {}
  PROVE  \E n \in S : \A m \in S : n <= m
<1>1. IsWellFoundedOn(OpToRel(<, Nat), Nat)
  BY NatLessThanWellFounded
<1>2. PICK n \in S : \A m \in S : ~ (<<m, n>> \in OpToRel(<, Nat))
  BY <1>1, WFMin
<1>3. \A m \in S : ~ (m < n)
  BY <1>2 DEF OpToRel
<1> QED
  BY <1>3

\* What holds of 0 and is handed on by every step holds up to n.
LEMMA Reaches ==
  ASSUME NEW n \in Nat, NEW T, 0 \in T,
         \A k \in 1 .. n : k - 1 \in T => k \in T
  PROVE  \A k \in 0 .. n : k \in T
<1> SUFFICES ASSUME NEW k \in 0 .. n, k \notin T
             PROVE  FALSE
  OBVIOUS
<1> DEFINE Out == {j \in 0 .. n : j \notin T}
<1>1. Out \in SUBSET Nat /\ Out # {}
  OBVIOUS
<1>2. PICK j \in Out : \A m \in Out : j <= m
  <2> HIDE DEF Out
  <2> QED
    BY <1>1, LowestExists
<1>3. j \in 1 .. n
  BY <1>2
<1>4. j - 1 \in T
  BY <1>2, <1>3
<1> QED
  BY <1>2, <1>3, <1>4

\* f is what a recursion over 0 .. n computes.
Follows(f, n, base, step) ==
  f[0] = base /\ \A k \in 1 .. n : f[k] = step[k][f[k - 1]]

\* Every such recursion has a result.
LEMMA RecursionExists ==
  ASSUME NEW S, NEW base \in S, NEW n \in Nat, NEW step \in [1 .. n -> [S -> S]]
  PROVE  \E f \in [0 .. n -> S] : Follows(f, n, base, step)
<1> DEFINE T == {m \in 0 .. n : \E f \in [0 .. m -> S] : Follows(f, m, base, step)}
<1>1. 0 \in T
  <2>1. [k \in 0 .. 0 |-> base] \in [0 .. 0 -> S]
    OBVIOUS
  <2>2. Follows([k \in 0 .. 0 |-> base], 0, base, step)
    BY DEF Follows
  <2> QED
    BY <2>1, <2>2
<1>2. ASSUME NEW m \in 1 .. n, m - 1 \in T
      PROVE  m \in T
  <2>1. PICK f \in [0 .. m - 1 -> S] : Follows(f, m - 1, base, step)
    BY <1>2
  <2> DEFINE g == [k \in 0 .. m |-> IF k = m THEN step[m][f[m - 1]] ELSE f[k]]
  <2>2. f[0] = base /\ \A k \in 1 .. m - 1 : f[k] = step[k][f[k - 1]]
    BY <2>1 DEF Follows
  <2>3. f[m - 1] \in S
    OBVIOUS
  <2>4. step[m][f[m - 1]] \in S
    BY <2>3
  <2>5. g \in [0 .. m -> S]
    BY <2>4
  <2>6. g[0] = base
    BY <2>2
  <2>7. ASSUME NEW k \in 1 .. m
        PROVE  g[k] = step[k][g[k - 1]]
    <3>1. g[k - 1] = f[k - 1]
      OBVIOUS
    <3>2. CASE k = m
      BY <3>1, <3>2
    <3>3. CASE k # m
      BY <2>2, <3>1, <3>3
    <3> QED
      BY <3>2, <3>3
  <2> HIDE DEF g
  <2>8. Follows(g, m, base, step)
    BY <2>6, <2>7 DEF Follows
  <2> QED
    BY <2>5, <2>8
<1>3. n \in T
  <2> HIDE DEF T
  <2>1. \A k \in 0 .. n : k \in T
    BY <1>1, <1>2, Reaches
  <2> QED
    BY <2>1
<1> QED
  BY <1>3

\* The sums of the first values of a function.
LEMMA SumsExist ==
  ASSUME NEW n \in Nat, NEW val \in [1 .. n -> Nat]
  PROVE  \E w \in [0 .. n -> Nat] :
           w[0] = 0 /\ \A k \in 1 .. n : w[k] = w[k - 1] + val[k]
<1> DEFINE add == [k \in 1 .. n |-> [x \in Nat |-> x + val[k]]]
<1>1. add \in [1 .. n -> [Nat -> Nat]]
  OBVIOUS
<1>2. 0 \in Nat
  OBVIOUS
<1>3. PICK w \in [0 .. n -> Nat] : Follows(w, n, 0, add)
  <2> HIDE DEF add
  <2> QED
    BY <1>1, <1>2, RecursionExists, Zenon
<1>4. w[0] = 0 /\ \A k \in 1 .. n : w[k] = add[k][w[k - 1]]
  BY <1>3 DEF Follows
<1>5. ASSUME NEW k \in 1 .. n
      PROVE  w[k] = w[k - 1] + val[k]
  <2>1. k - 1 \in 0 .. n
    OBVIOUS
  <2>2. w[k - 1] \in Nat
    BY <2>1
  <2>4. add[k][w[k - 1]] = w[k - 1] + val[k]
    BY <2>2
  <2> QED
    BY <1>4, <2>4
<1> QED
  BY <1>4, <1>5
=============================================================================
