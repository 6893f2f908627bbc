------------------------------ MODULE FoldLaws -------------------------------
(***************************************************************************)
(* What the proofs use of folds: that the recursion behind FoldLeft has a  *)
(* solution, so that what each turn keeps the whole fold keeps.  The       *)
(* library states its induction theorems with an operator for a parameter, *)
(* which the provers cannot instantiate; a module whose constants are      *)
(* operators can be instantiated instead, once for each fold of the model. *)
(***************************************************************************)
EXTENDS Integers, SequencesExt, FiniteSetTheorems, WellFoundedInduction, TLAPS

CONSTANTS
  Op(_, _, _),   \* one turn of the fold: its parameter, what was made so far, the next element
  Kept(_, _, _)  \* what holds of what was made of so many elements

Fold(p, b, s) == FoldLeft(LAMBDA a, x : Op(p, a, x), b, s)

-----------------------------------------------------------------------------
\* A set of numbers up to n with 0 in it has a last one before a gap, or reaches n.
LEMMA LastOfThem ==
  ASSUME NEW n \in Nat, NEW K \in SUBSET (0 .. n), 0 \in K
  PROVE  \E k \in K : k = n \/ k + 1 \notin K
<1> DEFINE S == 1 .. n
           T == {(k + 1) .. n : k \in K}
<1>1. IsFiniteSet(S) BY FS_Interval
<1>2. IsWellFoundedOn(StrictSubsetOrdering(S), SUBSET S)
  BY <1>1, FS_StrictSubsetOrderingWellFounded, FS_FiniteSubsetsOfFinite
<1>3. T \subseteq SUBSET S /\ T # {} BY DEF S
<1>4. PICK x \in T : \A y \in T : ~ (<<y, x>> \in StrictSubsetOrdering(S))
  BY <1>2, <1>3, WFMin
<1>5. PICK k \in K : x = (k + 1) .. n BY <1>4
<1>6. k \in 0 .. n OBVIOUS
<1>7. ASSUME k # n, k + 1 \in K PROVE FALSE
  <2>1. k < n BY <1>6, <1>7
  <2> DEFINE y == (k + 2) .. n
  <2>2. y = ((k + 1) + 1) .. n BY <1>6
  <2>3. y \in T BY <1>7, <2>2
  <2>4. y \subseteq x /\ k + 1 \in x /\ k + 1 \notin y BY <1>5, <1>6, <2>1
  <2>5. y \subseteq S /\ x \subseteq S BY <1>5, <1>6 DEF S
  <2> HIDE DEF y, S, T
  <2>6. <<y, x>> \in StrictSubsetOrdering(S) BY <2>4, <2>5 DEF StrictSubsetOrdering
  <2> QED BY <1>4, <2>3, <2>6
<1> QED BY <1>6, <1>7

\* A set of some of the first numbers has a largest one.
LEMMA LargestOf ==
  ASSUME NEW n \in Nat, NEW t \in SUBSET (1 .. n), t # {}
  PROVE  Max(t) \in t /\ \A y \in t : Max(t) >= y
<1> DEFINE K == {k \in 0 .. n : \A j \in t : j <= n - k}
<1>1. 0 \in K
  OBVIOUS
<1>2. PICK k \in 0 .. n : k \in K /\ (k = n \/ k + 1 \notin K)
  BY <1>1, LastOfThem
<1>3. k # n
  <2>1. PICK j \in t : TRUE
    OBVIOUS
  <2>2. j \in 1 .. n /\ j <= n - k
    BY <1>2, <2>1
  <2> QED
    BY <2>2
<1>4. k + 1 \in 0 .. n /\ ~ (\A j \in t : j <= n - (k + 1))
  BY <1>2, <1>3
<1>5. PICK j \in t : j > n - (k + 1)
  BY <1>4
<1>6. j \in t /\ \A y \in t : j >= y
  BY <1>2, <1>5
<1> QED
  BY <1>6 DEF Max

\* The recursion of FoldLeft, over the sets of places.
Turn(p, b, s, f, t) == IF t = {} THEN b ELSE Op(p, f[t \ {Max(t)}], s[Max(t)])
Solves(p, b, s, n, f) == f = [t \in SUBSET (1 .. n) |-> Turn(p, b, s, f, t)]

LEMMA SolutionGrows ==
  ASSUME NEW p, NEW b, NEW s, NEW n \in Nat, \E f : Solves(p, b, s, n, f)
  PROVE  \E f : Solves(p, b, s, n + 1, f)
<1> DEFINE m == n + 1
<1>1. PICK f : Solves(p, b, s, n, f)
  OBVIOUS
<1> DEFINE g == [t \in SUBSET (1 .. m) |-> IF m \in t THEN Op(p, f[t \ {m}], s[m]) ELSE f[t]]
<1>2. ASSUME NEW t \in SUBSET (1 .. m) PROVE g[t] = Turn(p, b, s, g, t)
  <2>1. CASE m \in t
    <3>1. Max(t) = m
      <4>1. m \in Nat /\ t # {}
        BY <2>1
      <4>2. Max(t) \in t /\ \A y \in t : Max(t) >= y
        BY <4>1, LargestOf
      <4>3. Max(t) \in 1 .. m /\ Max(t) >= m
        BY <2>1, <4>2
      <4> QED
        BY <4>1, <4>3
    <3>2. t \ {m} \in SUBSET (1 .. n) /\ t \ {m} \in SUBSET (1 .. m) /\ m \notin t \ {m} /\ t # {}
      BY <2>1
    <3>3. g[t \ {m}] = f[t \ {m}]
      BY <3>2
    <3> QED
      BY <2>1, <3>1, <3>2, <3>3 DEF Turn
  <2>2. CASE m \notin t /\ t # {}
    <3>1. t \in SUBSET (1 .. n)
      BY <2>2
    <3>2. Max(t) \in t
      BY <2>2, <3>1, LargestOf
    <3>3. t \ {Max(t)} \in SUBSET (1 .. n) /\ t \ {Max(t)} \in SUBSET (1 .. m) /\ m \notin t \ {Max(t)}
      BY <2>2, <3>1
    <3>4. g[t \ {Max(t)}] = f[t \ {Max(t)}]
      BY <3>3
    <3>5. f[t] = Turn(p, b, s, f, t)
      BY <1>1, <3>1 DEF Solves
    <3> QED
      BY <2>2, <3>4, <3>5 DEF Turn
  <2>3. CASE t = {}
    <3>1. t \in SUBSET (1 .. n) /\ m \notin t
      BY <2>3
    <3>2. f[t] = Turn(p, b, s, f, t)
      BY <1>1, <3>1 DEF Solves
    <3> QED
      BY <2>3, <3>1, <3>2 DEF Turn
  <2> QED
    BY <2>1, <2>2, <2>3
<1>3. g = [t \in SUBSET (1 .. m) |-> g[t]]
  OBVIOUS
<1> HIDE DEF g
<1>4. g = [t \in SUBSET (1 .. m) |-> Turn(p, b, s, g, t)]
  BY <1>2, <1>3
<1> QED
  BY <1>4 DEF Solves

LEMMA Solvable ==
  ASSUME NEW p, NEW b, NEW s, NEW n \in Nat
  PROVE  \E f : Solves(p, b, s, n, f)
<1> DEFINE K == {k \in 0 .. n : \E f : Solves(p, b, s, k, f)}
<1>1. 0 \in K
  <2> DEFINE f == [t \in SUBSET (1 .. 0) |-> b]
  <2>1. \A t \in SUBSET (1 .. 0) : t = {} /\ f[t] = b
    OBVIOUS
  <2> HIDE DEF f
  <2>2. f = [t \in SUBSET (1 .. 0) |-> f[t]]
    BY DEF f
  <2>3. Solves(p, b, s, 0, f)
    BY <2>1, <2>2 DEF Solves, Turn
  <2> QED
    BY <2>3
<1>2. PICK k \in 0 .. n : k \in K /\ (k = n \/ k + 1 \notin K)
  BY <1>1, LastOfThem
<1>3. CASE k < n
  <2>1. k + 1 \in 0 .. n /\ \E f : Solves(p, b, s, k + 1, f)
    BY <1>2, <1>3, SolutionGrows
  <2> QED
    BY <1>2, <1>3, <2>1
<1> QED
  BY <1>2, <1>3

LEMMA FoldIsSolution ==
  ASSUME NEW p, NEW b, NEW s, NEW n \in Nat, DOMAIN s = 1 .. n
  PROVE  \E f : Solves(p, b, s, n, f) /\ Fold(p, b, s) = f[1 .. n]
<1> DEFINE F == CHOOSE f : f = [t \in SUBSET (1 .. n) |-> Turn(p, b, s, f, t)]
<1>0. \E f : Solves(p, b, s, n, f)
  BY Solvable
<1>1. \E f : f = [t \in SUBSET (1 .. n) |-> Turn(p, b, s, f, t)]
  BY <1>0 DEF Solves
<1>2. F = [t \in SUBSET (1 .. n) |-> Turn(p, b, s, F, t)]
  BY <1>1
<1>3. Fold(p, b, s) = F[1 .. n]
  BY DEF Fold, FoldLeft, MapThenFoldSet, Turn
<1> HIDE DEF F
<1> QED
  BY <1>2, <1>3 DEF Solves

\* A fold is run turn by turn: f[k] is what was made of the first k elements.
THEOREM FoldRuns ==
  ASSUME NEW p, NEW b, NEW s, NEW n \in Nat, DOMAIN s = 1 .. n
  PROVE  \E f : /\ f[0] = b /\ Fold(p, b, s) = f[n]
                /\ \A k \in 0 .. (n - 1) : f[k + 1] = Op(p, f[k], s[k + 1])
<1>1. PICK g : Solves(p, b, s, n, g) /\ Fold(p, b, s) = g[1 .. n]
  BY FoldIsSolution
<1> DEFINE f == [k \in 0 .. n |-> g[1 .. k]]
<1>2. f[0] = b
  <2>1. 1 .. 0 \in SUBSET (1 .. n) /\ 1 .. 0 = {} /\ 0 \in 0 .. n
    OBVIOUS
  <2>2. g[1 .. 0] = b
    BY <1>1, <2>1 DEF Solves, Turn
  <2> QED
    BY <2>1, <2>2
<1>3. ASSUME NEW k \in 0 .. (n - 1) PROVE f[k + 1] = Op(p, f[k], s[k + 1])
  <2>1. 1 .. (k + 1) \in SUBSET (1 .. n) /\ 1 .. (k + 1) # {} /\ k + 1 \in 0 .. n /\ k \in 0 .. n
    <3>1. k \in Nat /\ k + 1 <= n /\ k + 1 \in 1 .. (k + 1)
      OBVIOUS
    <3>2. ASSUME NEW j \in 1 .. (k + 1) PROVE j \in 1 .. n
      BY <3>1
    <3>3. 1 .. (k + 1) \in SUBSET (1 .. n)
      BY <3>2
    <3> QED
      BY <3>1, <3>3
  <2>2. Max(1 .. (k + 1)) = k + 1
    <3>1. Max(1 .. (k + 1)) \in 1 .. (k + 1) /\ \A y \in 1 .. (k + 1) : Max(1 .. (k + 1)) >= y
      BY <2>1, LargestOf
    <3> QED
      BY <3>1
  <2>3. (1 .. (k + 1)) \ {k + 1} = 1 .. k
    OBVIOUS
  <2>4. g[1 .. (k + 1)] = Op(p, g[1 .. k], s[k + 1])
    BY <1>1, <2>1, <2>2, <2>3 DEF Solves, Turn
  <2> QED
    BY <2>1, <2>4
<1>4. Fold(p, b, s) = f[n]
  BY <1>1
<1> HIDE DEF f
<1> QED
  BY <1>2, <1>3, <1>4

\* What the first turn finds and every turn keeps holds after each of them.
THEOREM RunKeeps ==
  ASSUME NEW q, NEW n \in Nat, NEW f, Kept(q, 0, f[0]),
         \A k \in 0 .. (n - 1) : Kept(q, k, f[k]) => Kept(q, k + 1, f[k + 1])
  PROVE  \A k \in 0 .. n : Kept(q, k, f[k])
<1> SUFFICES ASSUME NEW m \in 0 .. n PROVE Kept(q, m, f[m])
  OBVIOUS
<1> DEFINE K == {k \in 0 .. m : Kept(q, k, f[k])}
<1>1. 0 \in K /\ K \in SUBSET (0 .. m) /\ m \in Nat
  OBVIOUS
<1>2. PICK k \in 0 .. m : k \in K /\ (k = m \/ k + 1 \notin K)
  <2> HIDE DEF K
  <2> QED
    BY <1>1, LastOfThem
<1>3. CASE k < m
  <2>1. k \in 0 .. (n - 1) /\ k + 1 \in 0 .. m
    BY <1>3
  <2>2. Kept(q, k, f[k])
    BY <1>2
  <2>3. Kept(q, k + 1, f[k + 1])
    BY <2>1, <2>2
  <2> QED
    BY <1>2, <1>3, <2>1, <2>3
<1>4. CASE k = m
  <2>1. Kept(q, k, f[k])
    BY <1>2
  <2> QED
    BY <1>4, <2>1
<1> QED
  BY <1>2, <1>3, <1>4

\* What the base has and every turn keeps, the fold has.
THEOREM FoldKeeps ==
  ASSUME NEW p, NEW q, NEW b, NEW s, NEW n \in Nat, DOMAIN s = 1 .. n,
         Kept(q, 0, b),
         \A k \in 0 .. (n - 1) : \A a : Kept(q, k, a) => Kept(q, k + 1, Op(p, a, s[k + 1]))
  PROVE  Kept(q, n, Fold(p, b, s))
<1>1. PICK f : /\ f[0] = b /\ Fold(p, b, s) = f[n]
               /\ \A k \in 0 .. (n - 1) : f[k + 1] = Op(p, f[k], s[k + 1])
  BY FoldRuns
<1>2. \A k \in 0 .. (n - 1) : Kept(q, k, f[k]) => Kept(q, k + 1, f[k + 1])
  BY <1>1
<1>3. Kept(q, 0, f[0])
  BY <1>1
<1>4. \A k \in 0 .. n : Kept(q, k, f[k])
  BY <1>2, <1>3, RunKeeps
<1>5. n \in 0 .. n
  OBVIOUS
<1> QED
  BY <1>1, <1>4, <1>5

-----------------------------------------------------------------------------
\* A set of some of the first numbers has a least one.
LEMMA LeastOf ==
  ASSUME NEW n \in Nat, NEW t \in SUBSET (1 .. n), t # {}
  PROVE  Min(t) \in t /\ \A y \in t : Min(t) <= y
<1> DEFINE K == {k \in 0 .. n : \A j \in t : j > k}
<1>1. 0 \in K /\ K \in SUBSET (0 .. n)
  OBVIOUS
<1>2. PICK k \in 0 .. n : k \in K /\ (k = n \/ k + 1 \notin K)
  <2> HIDE DEF K
  <2> QED
    BY <1>1, LastOfThem
<1>3. k # n
  <2>1. PICK j \in t : TRUE
    OBVIOUS
  <2>2. j \in 1 .. n /\ j > k
    BY <1>2, <2>1
  <2> QED
    BY <2>2
<1>4. k + 1 \in 0 .. n /\ ~ (\A j \in t : j > k + 1)
  BY <1>2, <1>3
<1>5. PICK j \in t : ~ (j > k + 1)
  BY <1>4
<1>6. j \in t /\ \A y \in t : j <= y
  BY <1>2, <1>5
<1> QED
  BY <1>6 DEF Min
=============================================================================
