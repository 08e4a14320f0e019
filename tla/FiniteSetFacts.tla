---------------------------- MODULE FiniteSetFacts ----------------------------
(***************************************************************************)
(* What the reports of Insights and the measure of ReceiptWork need of     *)
(* finite sets: sums, maxima, and the cut of an ordered list.  A sum is a  *)
(* fold, a function defined by recursion over the subsets of a set.       *)
(* Induction takes a set of sets for its hypothesis, so that it can be     *)
(* cited like any other fact.                                              *)
(***************************************************************************)
EXTENDS FiniteSetsExt, FiniteSetTheorems, TLAPS

\* A set of sets that holds a set when it holds its strict subsets holds every
\* finite set.
LEMMA FiniteInduction ==
  ASSUME NEW S, IsFiniteSet(S), NEW G,
         \A T \in SUBSET S : (\A U \in SUBSET T : U # T => U \in G) => T \in G
  PROVE  S \in G
PROOF
<1> DEFINE Bad == (SUBSET S) \ G
<1>1. SUFFICES ASSUME S \notin G PROVE FALSE
  OBVIOUS
<1>2. IsWellFoundedOn(StrictSubsetOrdering(S), SUBSET S)
  BY FS_StrictSubsetOrderingWellFounded, FS_FiniteSubsetsOfFinite
<1>3. Bad \subseteq SUBSET S /\ Bad # {}
  BY <1>1
<1> HIDE DEF Bad
<1>4. PICK T \in Bad : \A U \in Bad : ~(<<U, T>> \in StrictSubsetOrdering(S))
  BY <1>2, <1>3, WFMin
<1>5. \A U \in SUBSET T : U # T => U \in G
  BY <1>3, <1>4 DEF StrictSubsetOrdering, Bad
<1>6. T \in SUBSET S /\ T \notin G
  BY <1>4 DEF Bad
<1> QED
  BY <1>5, <1>6

Some(T) == CHOOSE x \in T : TRUE

\* f has the sums of w over the subsets of S, taking the elements as a fold does.
SumsUp(f, w, S) ==
  f = [T \in SUBSET S |-> IF T = {} THEN 0 ELSE w[Some(T)] + f[T \ {Some(T)}]]

\* The sum of w over S.
Sum(w, S) == (CHOOSE f : SumsUp(f, w, S))[S]

\* What a fold takes out of a set is in it.
LEMMA SomeIsElement ==
  ASSUME NEW T, T # {}
  PROVE  Some(T) \in T
PROOF
  BY DEF Some

\* A set has one sum, wherever it is taken.
LEMMA SumsAgree ==
  ASSUME NEW S, IsFiniteSet(S), NEW A, NEW B, S \subseteq A, S \subseteq B,
         NEW w, NEW v, \A x \in S : w[x] = v[x],
         NEW f, NEW g, SumsUp(f, w, A), SumsUp(g, v, B)
  PROVE  f[S] = g[S]
PROOF
<1> DEFINE G == {T \in SUBSET S : f[T] = g[T]}
<1>1. ASSUME NEW T \in SUBSET S, \A U \in SUBSET T : U # T => U \in G PROVE T \in G
  <2>1. CASE T = {}
    <3>1. T \in SUBSET A /\ T \in SUBSET B
      OBVIOUS
    <3> QED
      BY <2>1, <3>1 DEF SumsUp
  <2>2. CASE T # {}
    <3>1. Some(T) \in T
      BY <2>2, SomeIsElement
    <3>2. f[T] = w[Some(T)] + f[T \ {Some(T)}] /\ g[T] = v[Some(T)] + g[T \ {Some(T)}]
      BY <1>1, <2>2 DEF SumsUp
    <3>3. T \ {Some(T)} \in G
      BY <1>1, <3>1
    <3> QED
      BY <1>1, <3>1, <3>2, <3>3
  <2> QED
    BY <2>1, <2>2
<1>2. S \in G
  <2> HIDE DEF G
  <2> QED
    BY <1>1, FiniteInduction
<1> QED
  BY <1>2

\* The recursion has a solution.
LEMMA SumsExist ==
  ASSUME NEW S, IsFiniteSet(S), NEW w
  PROVE  \E f : SumsUp(f, w, S)
PROOF
<1> DEFINE Fold(T) == CHOOSE f : SumsUp(f, w, T)
           G == {T \in SUBSET S : SumsUp(Fold(T), w, T)}
<1>1. ASSUME NEW T \in SUBSET S, \A U \in SUBSET T : U # T => U \in G PROVE T \in G
  <2> DEFINE below(U) == IF U = {} THEN 0 ELSE w[Some(U)] + Fold(U \ {Some(U)})[U \ {Some(U)}]
             f == [U \in SUBSET T |-> below(U)]
  <2>1. ASSUME NEW U \in SUBSET T, U # T PROVE Fold(U)[U] = below(U)
    <3>1. SumsUp(Fold(U), w, U)
      BY <1>1, <2>1
    <3> HIDE DEF Fold
    <3>2. CASE U = {}
      BY <3>1, <3>2 DEF SumsUp
    <3>3. CASE U # {}
      <4> DEFINE V == U \ {Some(U)}
      <4>1. Some(U) \in U
        BY <3>3, SomeIsElement
      <4>2. V \in SUBSET T /\ V # T /\ V \subseteq U /\ IsFiniteSet(V)
        BY <4>1, <2>1, <1>1, FS_Subset
      <4>3. SumsUp(Fold(V), w, V)
        BY <1>1, <4>2
      <4>4. Fold(U)[U] = w[Some(U)] + Fold(U)[V]
        BY <3>1, <3>3 DEF SumsUp
      <4> HIDE DEF V
      <4>5. Fold(U)[V] = Fold(V)[V]
        BY <3>1, <4>2, <4>3, SumsAgree
      <4> QED
        BY <3>3, <4>4, <4>5 DEF V
    <3> QED
      BY <3>2, <3>3
  <2>2. ASSUME NEW U \in SUBSET T
        PROVE  f[U] = IF U = {} THEN 0 ELSE w[Some(U)] + f[U \ {Some(U)}]
    <3> HIDE DEF Fold
    <3>1. CASE U = {}
      BY <3>1
    <3>2. CASE U # {}
      <4>1. Some(U) \in U
        BY <3>2, SomeIsElement
      <4>2. U \ {Some(U)} \in SUBSET T /\ U \ {Some(U)} # T
        BY <4>1
      <4>3. f[U \ {Some(U)}] = Fold(U \ {Some(U)})[U \ {Some(U)}]
        BY <4>2, <2>1
      <4> QED
        BY <3>2, <4>3
    <3> QED
      BY <3>1, <3>2
  <2>3. SumsUp(f, w, T)
    <3> HIDE DEF below
    <3> QED
      BY <2>2 DEF SumsUp
  <2> HIDE DEF f
  <2> QED
    BY <2>3
<1>2. S \in G
  <2> HIDE DEF G
  <2> QED
    BY <1>1, FiniteInduction
<1> QED
  BY <1>2

\* Sum is such a function's value, whichever set it was defined over.
LEMMA SumIsSum ==
  ASSUME NEW A, NEW S \in SUBSET A, IsFiniteSet(S), NEW f, NEW w, SumsUp(f, w, A)
  PROVE  f[S] = Sum(w, S)
PROOF
<1> DEFINE g == CHOOSE h : SumsUp(h, w, S)
<1>1. SumsUp(g, w, S)
  BY SumsExist
<1> HIDE DEF g
<1>2. f[S] = g[S]
  BY <1>1, SumsAgree
<1> QED
  BY <1>2 DEF Sum, g

\* The sum over no element is zero, whatever the weights.
LEMMA SumOfNothing ==
  ASSUME NEW w
  PROVE  Sum(w, {}) = 0
PROOF
<1> DEFINE g == CHOOSE h : SumsUp(h, w, {})
<1>1. SumsUp(g, w, {})
  BY SumsExist, FS_EmptySet
<1> HIDE DEF g
<1>2. g[{}] = 0
  BY <1>1 DEF SumsUp
<1> QED
  BY <1>2 DEF Sum, g

\* A fold takes some element first.
LEMMA SumTakesSome ==
  ASSUME NEW S, IsFiniteSet(S), S # {}, NEW w
  PROVE  Sum(w, S) = w[Some(S)] + Sum(w, S \ {Some(S)})
PROOF
<1> DEFINE g == CHOOSE h : SumsUp(h, w, S)
<1>1. SumsUp(g, w, S)
  BY SumsExist
<1>2. Sum(w, S) = g[S]
  BY DEF Sum
<1> HIDE DEF g
<1>3. g[S] = w[Some(S)] + g[S \ {Some(S)}]
  BY <1>1 DEF SumsUp
<1>4. IsFiniteSet(S \ {Some(S)})
  BY FS_Subset
<1>5. g[S \ {Some(S)}] = Sum(w, S \ {Some(S)})
  BY <1>1, <1>4, SumIsSum
<1> QED
  BY <1>2, <1>3, <1>5

\* A sum of integers is one, and any element may be taken first.
LEMMA SumTakesAny ==
  ASSUME NEW S, IsFiniteSet(S), NEW w, \A x \in S : w[x] \in Int
  PROVE  /\ Sum(w, S) \in Int
         /\ \A x \in S : Sum(w, S) = w[x] + Sum(w, S \ {x})
PROOF
<1> DEFINE G == {T \in SUBSET S : /\ Sum(w, T) \in Int
                                  /\ \A x \in T : Sum(w, T) = w[x] + Sum(w, T \ {x})}
<1>1. ASSUME NEW T \in SUBSET S, \A U \in SUBSET T : U # T => U \in G PROVE T \in G
  <2>1. CASE T = {}
    BY <2>1, SumOfNothing
  <2>2. CASE T # {}
    <3> DEFINE c == Some(T)
    <3>1. c \in T /\ IsFiniteSet(T) /\ w[c] \in Int
      BY <2>2, SomeIsElement, FS_Subset
    <3>2. Sum(w, T) = w[c] + Sum(w, T \ {c})
      BY <2>2, <3>1, SumTakesSome
    <3> HIDE DEF c
    <3>3. T \ {c} \in G
      BY <1>1, <3>1
    <3>4. ASSUME NEW x \in T, x # c PROVE Sum(w, T) = w[x] + Sum(w, T \ {x})
      <4>1. T \ {x} \in G /\ w[x] \in Int
        BY <1>1, <3>4
      <4>2. (T \ {c}) \ {x} = (T \ {x}) \ {c} /\ x \in T \ {c} /\ c \in T \ {x}
        BY <3>1, <3>4
      <4> DEFINE rest == (T \ {x}) \ {c}
      <4>3. Sum(w, T \ {c}) = w[x] + Sum(w, rest) /\ Sum(w, T \ {x}) = w[c] + Sum(w, rest)
        BY <3>3, <4>1, <4>2
      <4>4. rest \in G
        BY <1>1, <3>1
      <4>5. Sum(w, rest) \in Int
        BY <4>4
      <4> HIDE DEF rest, G
      <4> QED
        BY <3>1, <3>2, <4>1, <4>3, <4>5
    <3>5. Sum(w, T \ {c}) \in Int
      BY <3>3
    <3>6. Sum(w, T) \in Int
      BY <3>1, <3>2, <3>5
    <3> QED
      BY <3>2, <3>4, <3>6
  <2> QED
    BY <2>1, <2>2
<1>2. S \in G
  <2> HIDE DEF G
  <2> QED
    BY <1>1, FiniteInduction
<1> QED
  BY <1>2

\* The sum of one.
LEMMA SumOfOne ==
  ASSUME NEW w, NEW x, w[x] \in Int
  PROVE  Sum(w, {x}) = w[x]
PROOF
<1>1. Sum(w, {x}) = w[x] + Sum(w, {x} \ {x})
  BY SumTakesAny, FS_Singleton
<1>2. {x} \ {x} = {}
  OBVIOUS
<1> QED
  BY <1>1, <1>2, SumOfNothing

\* The sum over two sets that are apart.
LEMMA SumOfUnion ==
  ASSUME NEW S, IsFiniteSet(S), NEW T, IsFiniteSet(T), S \cap T = {},
         NEW w, \A x \in S \cup T : w[x] \in Int
  PROVE  Sum(w, S \cup T) = Sum(w, S) + Sum(w, T)
PROOF
<1> DEFINE G == {U \in SUBSET S : Sum(w, U \cup T) = Sum(w, U) + Sum(w, T)}
<1>1. Sum(w, T) \in Int
  BY SumTakesAny
<1>2. ASSUME NEW U \in SUBSET S, \A V \in SUBSET U : V # U => V \in G PROVE U \in G
  <2>1. CASE U = {}
    <3>1. U \cup T = T
      BY <2>1
    <3> QED
      BY <1>1, <2>1, <3>1, SumOfNothing
  <2>2. CASE U # {}
    <3>1. PICK x \in U : TRUE
      BY <2>2
    <3>2. /\ IsFiniteSet(U) /\ IsFiniteSet(U \ {x}) /\ IsFiniteSet(U \cup T)
          /\ (U \cup T) \ {x} = (U \ {x}) \cup T
      BY FS_Subset, FS_Union, <3>1
    <3>3. Sum(w, U) = w[x] + Sum(w, U \ {x}) /\ Sum(w, U \ {x}) \in Int
      BY <3>1, <3>2, SumTakesAny
    <3>4. Sum(w, U \cup T) = w[x] + Sum(w, (U \ {x}) \cup T)
      BY <3>1, <3>2, SumTakesAny
    <3>5. U \ {x} \in G
      BY <1>2, <3>1
    <3>6. w[x] \in Int /\ Sum(w, (U \ {x}) \cup T) = Sum(w, U \ {x}) + Sum(w, T)
      BY <3>1, <3>5
    <3>7. Sum(w, U \cup T) = Sum(w, U) + Sum(w, T)
      BY <1>1, <3>3, <3>4, <3>6
    <3> QED
      BY <3>7
  <2> QED
    BY <2>1, <2>2
<1>3. S \in G
  <2> HIDE DEF G
  <2> QED
    BY <1>2, FiniteInduction
<1> QED
  BY <1>3

\* Grouping loses nothing: the sums of the groups add up to the whole.
LEMMA SumOfGroups ==
  ASSUME NEW S, IsFiniteSet(S), NEW w, \A x \in S : w[x] \in Int,
         NEW I, IsFiniteSet(I), NEW group, \A x \in S : group[x] \in I,
         NEW v, \A i \in I : v[i] = Sum(w, {x \in S : group[x] = i})
  PROVE  Sum(v, I) = Sum(w, S)
PROOF
<1> DEFINE Of(J) == {x \in S : group[x] \in J}
           G == {J \in SUBSET I : Sum(v, J) = Sum(w, Of(J))}
<1>1. \A i \in I : v[i] \in Int
  <2> TAKE i \in I
  <2>1. IsFiniteSet({x \in S : group[x] = i})
    BY FS_Subset
  <2> QED
    BY <2>1, SumTakesAny
<1>2. ASSUME NEW J \in SUBSET I, \A K \in SUBSET J : K # J => K \in G PROVE J \in G
  <2>1. CASE J = {}
    <3>1. Of(J) = {}
      BY <2>1
    <3> QED
      BY <2>1, <3>1, SumOfNothing
  <2>2. CASE J # {}
    <3>1. PICK i \in J : TRUE
      BY <2>2
    <3> DEFINE rest == Of(J \ {i})
               mine == {x \in S : group[x] = i}
    <3>2. IsFiniteSet(rest) /\ IsFiniteSet(mine) /\ rest \cap mine = {} /\ Of(J) = rest \cup mine
      BY <3>1, FS_Subset
    <3>3. rest \subseteq S /\ mine \subseteq S
      OBVIOUS
    <3>4. J \ {i} \in G
      BY <1>2, <3>1
    <3>5. Sum(v, J \ {i}) = Sum(w, rest)
      BY <3>4
    <3>6. v[i] = Sum(w, mine)
      BY <3>1
    <3> HIDE DEF rest, mine, Of
    <3>7. Sum(w, Of(J)) = Sum(w, rest) + Sum(w, mine)
      <4>1. \A x \in rest \cup mine : w[x] \in Int
        BY <3>3
      <4> QED
        BY <3>2, <4>1, SumOfUnion
    <3>8. Sum(v, J) = v[i] + Sum(v, J \ {i})
      <4>1. IsFiniteSet(J) /\ \A j \in J : v[j] \in Int
        BY <1>1, FS_Subset
      <4> QED
        BY <3>1, <4>1, SumTakesAny
    <3>9. Sum(w, rest) \in Int /\ Sum(w, mine) \in Int
      BY <3>2, <3>3, SumTakesAny
    <3>10. Sum(v, J) = Sum(w, Of(J))
      BY <3>5, <3>6, <3>7, <3>8, <3>9
    <3> QED
      BY <3>10
  <2> QED
    BY <2>1, <2>2
<1>3. I \in G
  <2> HIDE DEF G
  <2> QED
    BY <1>2, FiniteInduction
<1>4. Of(I) = S
  OBVIOUS
<1> QED
  BY <1>3, <1>4

\* The sums of two functions that differ in one place.
LEMMA SumChanges ==
  ASSUME NEW S, IsFiniteSet(S), NEW f, NEW g, \A x \in S : f[x] \in Int /\ g[x] \in Int,
         NEW c \in S, \A x \in S : x # c => g[x] = f[x]
  PROVE  /\ Sum(f, S) \in Int /\ Sum(g, S) \in Int
         /\ Sum(g, S) = Sum(f, S) - f[c] + g[c]
PROOF
<1> DEFINE rest == S \ {c}
<1>1. IsFiniteSet(rest) /\ \A x \in rest : f[x] = g[x]
  BY FS_Subset
<1>2. Sum(f, rest) = Sum(g, rest)
  <2> DEFINE F == CHOOSE h : SumsUp(h, f, rest)
             G == CHOOSE h : SumsUp(h, g, rest)
  <2>1. SumsUp(F, f, rest) /\ SumsUp(G, g, rest)
    BY <1>1, SumsExist
  <2>2. Sum(f, rest) = F[rest] /\ Sum(g, rest) = G[rest]
    BY DEF Sum
  <2> HIDE DEF F, G, rest
  <2>3. F[rest] = G[rest]
    BY <1>1, <2>1, SumsAgree
  <2> QED
    BY <2>2, <2>3
<1>3. /\ Sum(f, S) \in Int /\ Sum(g, S) \in Int
      /\ Sum(f, S) = f[c] + Sum(f, rest) /\ Sum(g, S) = g[c] + Sum(g, rest)
  BY SumTakesAny
<1>4. Sum(f, rest) \in Int /\ Sum(g, rest) \in Int
  <2>1. \A x \in rest : f[x] \in Int /\ g[x] \in Int
    OBVIOUS
  <2> HIDE DEF rest
  <2> QED
    BY <1>1, <2>1, SumTakesAny
<1> HIDE DEF rest
<1> QED
  BY <1>2, <1>3, <1>4

\* A sum of natural numbers is one, and no smaller than any of them.
LEMMA SumOfNaturals ==
  ASSUME NEW S, IsFiniteSet(S), NEW w, \A x \in S : w[x] \in Nat
  PROVE  Sum(w, S) \in Nat /\ \A x \in S : w[x] <= Sum(w, S)
PROOF
<1> DEFINE G == {T \in SUBSET S : Sum(w, T) \in Nat}
<1>1. ASSUME NEW T \in SUBSET S, \A U \in SUBSET T : U # T => U \in G PROVE T \in G
  <2>1. CASE T = {}
    BY <2>1, SumOfNothing
  <2>2. CASE T # {}
    <3>1. PICK x \in T : TRUE
      BY <2>2
    <3>2. IsFiniteSet(T) /\ \A y \in T : w[y] \in Int
      BY FS_Subset
    <3>3. Sum(w, T) = w[x] + Sum(w, T \ {x})
      BY <3>1, <3>2, SumTakesAny
    <3>4. T \ {x} \in G
      BY <1>1, <3>1
    <3>5. w[x] \in Nat /\ Sum(w, T \ {x}) \in Nat
      BY <3>1, <3>4
    <3>6. Sum(w, T) \in Nat
      BY <3>3, <3>5
    <3> QED
      BY <3>6
  <2> QED
    BY <2>1, <2>2
<1>2. \A T \in SUBSET S : T \in G
  <2> TAKE T \in SUBSET S
  <2>1. \A U \in SUBSET T : (\A V \in SUBSET U : V # U => V \in G) => U \in G
    BY <1>1
  <2>2. IsFiniteSet(T)
    BY FS_Subset
  <2> HIDE DEF G
  <2> QED
    BY <2>1, <2>2, FiniteInduction
<1>3. ASSUME NEW x \in S PROVE w[x] <= Sum(w, S)
  <2>1. Sum(w, S \ {x}) \in Nat
    BY <1>2
  <2>2. Sum(w, S) = w[x] + Sum(w, S \ {x})
    BY SumTakesAny
  <2> QED
    BY <2>1, <2>2
<1> QED
  BY <1>2, <1>3

\* What the Functions module folds over a set is its sum.
LEMMA SumFunctionIsSum ==
  ASSUME NEW f, NEW S
  PROVE  SumFunctionOnSet(f, S) = Sum(f, S)
PROOF
  BY DEF SumFunctionOnSet, FoldFunctionOnSet, MapThenFoldSet, Sum, SumsUp, Some

-----------------------------------------------------------------------------
(* Sums of squares. *)

\* n numbers up to top, and their squares.
LEMMA SquaresAreBounded ==
  ASSUME NEW S, IsFiniteSet(S), NEW top \in Nat,
         NEW w, \A x \in S : w[x] \in 0..top,
         NEW q, \A x \in S : q[x] = w[x] * w[x]
  PROVE  /\ Sum(w, S) \in Nat /\ Sum(q, S) \in Nat
         /\ Sum(q, S) <= Sum(w, S) * Sum(w, S)
         /\ Sum(q, S) <= Cardinality(S) * (top * top)
PROOF
<1> DEFINE Holds(T) == /\ Sum(w, T) \in Nat /\ Sum(q, T) \in Nat
                       /\ Sum(q, T) <= Sum(w, T) * Sum(w, T)
                       /\ Sum(q, T) <= Cardinality(T) * (top * top)
           G == {T \in SUBSET S : Holds(T)}
<1>1. ASSUME NEW a \in Nat, NEW A \in Nat, NEW Q \in Nat, NEW n \in Nat, NEW t \in Nat,
             a <= t, Q <= A * A, Q <= n * (t * t)
      PROVE  /\ a * a + Q \in Nat
             /\ a * a + Q <= (a + A) * (a + A)
             /\ a * a + Q <= (n + 1) * (t * t)
  <2>1. a * a \in Nat /\ a * A \in Nat /\ A * A \in Nat
    OBVIOUS
  <2>2. (a + A) * (a + A) = a * a + 2 * (a * A) + A * A
    OBVIOUS
  <2>3. a * a <= t * t
    <3>1. a * a <= a * t /\ a * t <= t * t
      BY <1>1
    <3>2. a * t \in Nat /\ t * t \in Nat
      OBVIOUS
    <3> QED
      BY <2>1, <3>1, <3>2
  <2>4. (n + 1) * (t * t) = n * (t * t) + t * t /\ n * (t * t) \in Nat /\ t * t \in Nat
    OBVIOUS
  <2>5. a * a + Q <= (a + A) * (a + A)
    BY <1>1, <2>1, <2>2
  <2>6. a * a + Q <= (n + 1) * (t * t)
    BY <1>1, <2>1, <2>3, <2>4
  <2> QED
    BY <2>1, <2>5, <2>6
<1>2. ASSUME NEW T \in SUBSET S, \A U \in SUBSET T : U # T => U \in G PROVE T \in G
  <2>1. CASE T = {}
    <3>1. Sum(w, T) = 0 /\ Sum(q, T) = 0 /\ Cardinality(T) = 0
      BY <2>1, SumOfNothing, FS_EmptySet
    <3>2. 0 * (top * top) = 0
      OBVIOUS
    <3> QED
      BY <3>1, <3>2
  <2>2. CASE T # {}
    <3>1. PICK x \in T : TRUE
      BY <2>2
    <3> DEFINE U == T \ {x}
    <3>2. w[x] \in Nat /\ w[x] <= top /\ q[x] = w[x] * w[x]
      BY <3>1
    <3>3. \A y \in T : w[y] \in Int /\ q[y] \in Int
      <4> TAKE y \in T
      <4>1. w[y] \in Int /\ q[y] = w[y] * w[y]
        OBVIOUS
      <4> QED
        BY <4>1
    <3>4. IsFiniteSet(T)
      BY FS_Subset
    <3>5. Sum(w, T) = w[x] + Sum(w, U) /\ Sum(q, T) = q[x] + Sum(q, U)
      BY <3>1, <3>3, <3>4, SumTakesAny
    <3>6. Cardinality(U) \in Nat /\ Cardinality(T) = Cardinality(U) + 1
      <4>1. IsFiniteSet(U) /\ Cardinality(U) = Cardinality(T) - 1
        BY <3>1, <3>4, FS_RemoveElement
      <4>2. Cardinality(U) \in Nat /\ Cardinality(T) \in Nat
        BY <3>4, <4>1, FS_CardinalityType
      <4> QED
        BY <4>1, <4>2
    <3>7. Holds(U)
      <4>1. U \in G
        BY <1>2, <3>1
      <4> QED
        BY <4>1
    <3> HIDE DEF U
    <3>8. /\ w[x] * w[x] + Sum(q, U) \in Nat
          /\ w[x] * w[x] + Sum(q, U) <= (w[x] + Sum(w, U)) * (w[x] + Sum(w, U))
          /\ w[x] * w[x] + Sum(q, U) <= (Cardinality(U) + 1) * (top * top)
      BY <1>1, <3>2, <3>6, <3>7
    <3>9. w[x] + Sum(w, U) \in Nat
      BY <3>2, <3>7
    <3>10. Holds(T)
      BY <3>2, <3>5, <3>6, <3>8, <3>9
    <3> QED
      BY <3>10
  <2> QED
    BY <2>1, <2>2
<1>3. S \in G
  <2> HIDE DEF G
  <2> QED
    BY <1>2, FiniteInduction
<1> QED
  BY <1>3

-----------------------------------------------------------------------------
(* Maxima and limits. *)

\* A finite set of numbers has a greatest one, and Max finds it.
LEMMA MaxIsGreatest ==
  ASSUME NEW S, IsFiniteSet(S), S # {}, S \subseteq Int
  PROVE  Max(S) \in S /\ \A y \in S : y <= Max(S)
PROOF
<1> DEFINE G == {T \in SUBSET S : T # {} => \E x \in T : \A y \in T : x >= y}
<1>1. ASSUME NEW T \in SUBSET S, \A U \in SUBSET T : U # T => U \in G PROVE T \in G
  <2>1. SUFFICES ASSUME T # {} PROVE \E x \in T : \A y \in T : x >= y
    OBVIOUS
  <2>2. PICK a \in T : TRUE
    BY <2>1
  <2>3. CASE T \ {a} = {}
    BY <2>2, <2>3
  <2>4. CASE T \ {a} # {}
    <3>1. T \ {a} \in G
      BY <1>1, <2>2
    <3>2. PICK b \in T \ {a} : \A y \in T \ {a} : b >= y
      BY <2>4, <3>1
    <3>3. a \in Int /\ b \in Int /\ \A y \in T : y \in Int
      OBVIOUS
    <3>4. CASE a >= b
      <4>1. \A y \in T : a >= y
        BY <3>2, <3>3, <3>4
      <4> QED
        BY <4>1
    <3>5. CASE ~(a >= b)
      <4>1. \A y \in T : b >= y
        BY <3>2, <3>3, <3>5
      <4> QED
        BY <4>1
    <3> QED
      BY <3>4, <3>5
  <2> QED
    BY <2>3, <2>4
<1>2. S \in G
  <2> HIDE DEF G
  <2> QED
    BY <1>1, FiniteInduction
<1>3. \E x \in S : \A y \in S : x >= y
  BY <1>2
<1>4. Max(S) \in S /\ \A y \in S : Max(S) >= y
  BY <1>3 DEF Max
<1> QED
  BY <1>4

\* The cut of a partly ordered list at M members: if a member is cut because M
\* others are ahead of it, then M members are left.
LEMMA CutLeavesEnough ==
  ASSUME NEW F, IsFiniteSet(F), NEW M \in Nat, NEW ahead,
         \A x \in F : ahead[x] \subseteq F /\ x \notin ahead[x],
         \A x \in F : \A y \in ahead[x] : ahead[y] \subseteq ahead[x],
         NEW x \in F, Cardinality(ahead[x]) >= M
  PROVE  Cardinality({y \in F : Cardinality(ahead[y]) < M}) >= M
PROOF
<1> DEFINE Left == {y \in F : Cardinality(ahead[y]) < M}
           FirstCut(y) == y \in F /\ y \notin Left /\ ahead[y] \subseteq Left
           G == {T \in SUBSET F : \A y \in F \ Left : ahead[y] = T => \E z : FirstCut(z)}
<1>1. \A y \in F : Cardinality(ahead[y]) \in Nat
  BY FS_Subset, FS_CardinalityType
<1>2. x \notin Left
  BY <1>1
<1>3. ASSUME NEW T \in SUBSET F, \A U \in SUBSET T : U # T => U \in G PROVE T \in G
  <2>1. SUFFICES ASSUME NEW y \in F \ Left, ahead[y] = T PROVE \E z : FirstCut(z)
    OBVIOUS
  <2> HIDE DEF Left
  <2>2. CASE T \subseteq Left
    BY <2>1, <2>2
  <2>3. ASSUME NEW u \in T, u \notin Left PROVE \E z : FirstCut(z)
    <3>1. u \in F \ Left /\ ahead[u] \in SUBSET T /\ u \notin ahead[u]
      BY <2>1, <2>3
    <3>2. ahead[u] \in G
      BY <1>3, <3>1
    <3> QED
      BY <3>1, <3>2
  <2> QED
    BY <2>2, <2>3
<1>4. ahead[x] \in G
  <2>1. ahead[x] \in SUBSET F /\ IsFiniteSet(ahead[x])
    BY FS_Subset
  <2>2. \A T \in SUBSET ahead[x] : (\A U \in SUBSET T : U # T => U \in G) => T \in G
    <3> HIDE DEF G
    <3> QED
      BY <1>3, <2>1
  <2> HIDE DEF G
  <2> QED
    BY <2>1, <2>2, FiniteInduction
<1>5. PICK z : FirstCut(z)
  <2> HIDE DEF Left, FirstCut
  <2> QED
    BY <1>2, <1>4
<1>6. Cardinality(ahead[z]) >= M
  BY <1>1, <1>5
<1>7. IsFiniteSet(Left) /\ Cardinality(Left) \in Nat
  BY FS_Subset, FS_CardinalityType
<1>8. Cardinality(ahead[z]) <= Cardinality(Left) /\ Cardinality(ahead[z]) \in Nat
  <2>1. ahead[z] \in SUBSET Left /\ z \in F
    BY <1>5
  <2> HIDE DEF Left
  <2> QED
    BY <1>1, <1>7, <2>1, FS_Subset
<1> QED
  BY <1>6, <1>7, <1>8
=============================================================================
