----------------------------- MODULE SumTheorems -----------------------------
(***************************************************************************)
(* Facts about the sum of a function over a finite set, the operator       *)
(* SumFunctionOnSet of the community modules.  The library's induction     *)
(* theorem takes the predicate as an operator; here a set of               *)
(* counterexamples takes its place, which has a smallest member.           *)
(***************************************************************************)
EXTENDS Integers, FiniteSets, Functions, FiniteSetTheorems, TLAPS

\* The next element a fold takes, and the function that a fold defines.
NextOf(s) == CHOOSE x \in s : TRUE
Adds(g, f, S) ==
    g = [s \in SUBSET S |-> IF s = {} THEN 0 ELSE f[NextOf(s)] + g[s \ {NextOf(s)}]]
Numeric(f, S) == IsFiniteSet(S) /\ \A x \in S : f[x] \in Int

\* A collection of subsets of a finite set has a smallest member.
LEMMA SmallestSubset ==
    ASSUME NEW S, IsFiniteSet(S), NEW T, T \subseteq SUBSET S, T # {}
    PROVE  \E x \in T : \A y \in T : ~(y \subseteq x /\ y # x)
<1>1. FiniteSubsetsOf(S) = SUBSET S
  BY FS_FiniteSubsetsOfFinite
<1>2. IsWellFoundedOn(StrictSubsetOrdering(S), SUBSET S)
  BY <1>1, FS_StrictSubsetOrderingWellFounded
<1>3. PICK x \in T : \A y \in T : <<y, x>> \notin StrictSubsetOrdering(S)
  BY <1>2, WFMin
<1> QED BY <1>3 DEF StrictSubsetOrdering

\* A finite set of integers that is not empty has a largest member.
LEMMA HasLargest ==
    ASSUME NEW S, IsFiniteSet(S), \A x \in S : x \in Int, S # {}
    PROVE  \E x \in S : \A y \in S : x >= y
<1> DEFINE Top(s) == \E x \in s : \A y \in s : x >= y
           T == {s \in SUBSET S : s # {} /\ ~Top(s)}
<1> SUFFICES ASSUME T # {} PROVE FALSE
  OBVIOUS
<1>1. PICK m \in T : \A y \in T : ~(y \subseteq m /\ y # m)
  <2>1. T \subseteq SUBSET S /\ T # {} /\ IsFiniteSet(S)
    OBVIOUS
  <2> HIDE DEF T, Top
  <2> QED BY <2>1, SmallestSubset
<1>2. m \in SUBSET S /\ m # {} /\ ~Top(m)
  OBVIOUS
<1>3. PICK x \in m : TRUE
  BY <1>2
<1>4. CASE m \ {x} = {}
  <2>1. m = {x} /\ x \in Int
    BY <1>2, <1>3, <1>4
  <2> QED BY <1>2, <2>1
<1>5. CASE m \ {x} # {}
  <2>1. m \ {x} \notin T
    BY <1>1, <1>3
  <2>2. Top(m \ {x})
    BY <1>2, <1>5, <2>1
  <2>3. PICK z \in m \ {x} : \A y \in m \ {x} : z >= y
    BY <2>2
  <2>4. x \in Int /\ z \in Int /\ \A y \in m : y \in Int
    BY <1>2, <1>3, <2>3
  <2>5. CASE z >= x
    BY <1>2, <2>3, <2>4, <2>5
  <2>6. CASE ~(z >= x)
    <3>1. \A y \in m : x >= y
      BY <2>3, <2>4, <2>6
    <3> QED BY <1>2, <1>3, <3>1
  <2> QED BY <2>5, <2>6
<1> QED BY <1>4, <1>5

LEMMA SumUnfolds ==
    ASSUME NEW f, NEW S
    PROVE  SumFunctionOnSet(f, S) = (CHOOSE g : Adds(g, f, S))[S]
BY DEF SumFunctionOnSet, FoldFunctionOnSet, MapThenFoldSet, Adds, NextOf

\* What two folds say of a set they share is the same.
LEMMA SumsAgree ==
    ASSUME NEW f, NEW A, NEW B, NEW g, NEW h, IsFiniteSet(A), Adds(g, f, A), Adds(h, f, B)
    PROVE  \A s \in SUBSET (A \cap B) : g[s] = h[s]
<1> DEFINE T == {s \in SUBSET (A \cap B) : g[s] # h[s]}
<1> SUFFICES ASSUME T # {} PROVE FALSE
  OBVIOUS
<1>1. PICK x \in T : \A y \in T : ~(y \subseteq x /\ y # x)
  <2>1. T \subseteq SUBSET A /\ T # {}
    OBVIOUS
  <2> HIDE DEF T
  <2> QED BY <2>1, SmallestSubset
<1>2. x \in SUBSET A /\ x \in SUBSET B /\ g[x] # h[x]
  OBVIOUS
<1>3. g[x] = IF x = {} THEN 0 ELSE f[NextOf(x)] + g[x \ {NextOf(x)}]
  BY <1>2 DEF Adds
<1>4. h[x] = IF x = {} THEN 0 ELSE f[NextOf(x)] + h[x \ {NextOf(x)}]
  BY <1>2 DEF Adds
<1>5. x # {}
  BY <1>2, <1>3, <1>4
<1>6. NextOf(x) \in x
  BY <1>5 DEF NextOf
<1>7. g[x \ {NextOf(x)}] = h[x \ {NextOf(x)}]
  BY <1>1, <1>2, <1>6
<1> QED BY <1>2, <1>3, <1>4, <1>5, <1>7

\* The fold over a finite set is defined.
LEMMA SumsExist ==
    ASSUME NEW f, NEW S, IsFiniteSet(S)
    PROVE  \E g : Adds(g, f, S)
<1> DEFINE T == {s \in SUBSET S : ~ \E g : Adds(g, f, s)}
           V(s) == SumFunctionOnSet(f, s)
<1> SUFFICES ASSUME T # {} PROVE FALSE
  OBVIOUS
<1>1. PICK m \in T : \A y \in T : ~(y \subseteq m /\ y # m)
  <2>1. T \subseteq SUBSET S /\ T # {}
    OBVIOUS
  <2> HIDE DEF T
  <2> QED BY <2>1, SmallestSubset
<1>2. m \in SUBSET S /\ (\A g : ~Adds(g, f, m)) /\ IsFiniteSet(m)
  BY FS_Subset
<1>3. ASSUME NEW s \in SUBSET m, s # m, s # {}
      PROVE  V(s) = f[NextOf(s)] + V(s \ {NextOf(s)})
  <2>1. s \in SUBSET S /\ s \ {NextOf(s)} \in SUBSET S /\ s \ {NextOf(s)} # m /\ s \ {NextOf(s)} \subseteq m
    BY <1>2, <1>3
  <2>2. (\E g : Adds(g, f, s)) /\ (\E g : Adds(g, f, s \ {NextOf(s)}))
    BY <1>1, <1>3, <2>1
  <2> DEFINE G == CHOOSE g : Adds(g, f, s)
             H == CHOOSE g : Adds(g, f, s \ {NextOf(s)})
  <2>3. Adds(G, f, s) /\ Adds(H, f, s \ {NextOf(s)})
    BY <2>2
  <2>4. V(s) = G[s] /\ V(s \ {NextOf(s)}) = H[s \ {NextOf(s)}]
    BY SumUnfolds
  <2> HIDE DEF G, H, V
  <2>5. G[s] = f[NextOf(s)] + G[s \ {NextOf(s)}]
    BY <1>3, <2>3 DEF Adds
  <2>6. IsFiniteSet(s)
    BY <1>2, FS_Subset
  <2>7. \A t \in SUBSET (s \cap (s \ {NextOf(s)})) : G[t] = H[t]
    BY <2>3, <2>6, SumsAgree
  <2>8. G[s \ {NextOf(s)}] = H[s \ {NextOf(s)}]
    BY <2>7
  <2> QED BY <2>4, <2>5, <2>8
<1> DEFINE last == IF m = {} THEN 0 ELSE f[NextOf(m)] + V(m \ {NextOf(m)})
           g == [s \in SUBSET m |-> IF s = {} THEN 0 ELSE IF s = m THEN last ELSE V(s)]
<1>4. V({}) = 0
  <2>1. Adds([s \in SUBSET {} |-> 0], f, {})
    BY DEF Adds
  <2> DEFINE G == CHOOSE h : Adds(h, f, {})
  <2>2. Adds(G, f, {})
    BY <2>1
  <2>3. V({}) = G[{}]
    BY SumUnfolds
  <2> HIDE DEF G, V
  <2> QED BY <2>2, <2>3 DEF Adds
<1>5. ASSUME NEW s \in SUBSET m, s # {}
      PROVE  g[s] = f[NextOf(s)] + g[s \ {NextOf(s)}]
  <2>1. NextOf(s) \in s
    BY <1>5 DEF NextOf
  <2>2. s \ {NextOf(s)} \in SUBSET m /\ s \ {NextOf(s)} # m
    BY <1>5, <2>1
  <2>3. g[s \ {NextOf(s)}] = V(s \ {NextOf(s)})
    <3> HIDE DEF V
    <3> QED BY <1>4, <2>2
  <2>4. g[s] = IF s = m THEN last ELSE V(s)
    BY <1>5
  <2> HIDE DEF V, g
  <2> QED BY <1>3, <1>5, <2>3, <2>4
<1>6. Adds(g, f, m)
  <2> HIDE DEF V, last
  <2>1. g = [s \in SUBSET m |-> IF s = {} THEN 0 ELSE g[s]]
    OBVIOUS
  <2>2. g = [s \in SUBSET m |-> IF s = {} THEN 0 ELSE f[NextOf(s)] + g[s \ {NextOf(s)}]]
    <3> DEFINE body(s) == IF s = {} THEN 0 ELSE f[NextOf(s)] + g[s \ {NextOf(s)}]
    <3>1. \A s \in SUBSET m : (IF s = {} THEN 0 ELSE g[s]) = body(s)
      <4> HIDE DEF g
      <4> QED BY <1>5
    <3> HIDE DEF g, body
    <3>2. g = [s \in SUBSET m |-> body(s)]
      BY <2>1, <3>1, Zenon
    <3> QED BY <3>2 DEF body
  <2> HIDE DEF g
  <2> QED BY <2>2 DEF Adds
<1> QED BY <1>2, <1>6

LEMMA SumIsFold ==
    ASSUME NEW f, NEW S, IsFiniteSet(S)
    PROVE  SumFunctionOnSet(f, S) =
             IF S = {} THEN 0 ELSE f[NextOf(S)] + SumFunctionOnSet(f, S \ {NextOf(S)})
<1> DEFINE R == S \ {NextOf(S)}
           G == CHOOSE g : Adds(g, f, S)
           H == CHOOSE g : Adds(g, f, R)
<1>1. IsFiniteSet(R)
  BY FS_RemoveElement
<1>2. Adds(G, f, S) /\ Adds(H, f, R)
  BY <1>1, SumsExist
<1>3. SumFunctionOnSet(f, S) = G[S] /\ SumFunctionOnSet(f, R) = H[R]
  BY SumUnfolds
<1> HIDE DEF G, H
<1>4. G[R] = H[R]
  <2>1. \A s \in SUBSET (S \cap R) : G[s] = H[s]
    BY <1>2, SumsAgree
  <2> QED BY <2>1
<1>5. G[S] = IF S = {} THEN 0 ELSE f[NextOf(S)] + G[R]
  BY <1>2 DEF Adds
<1> QED BY <1>3, <1>4, <1>5

LEMMA SumEmpty ==
    ASSUME NEW f
    PROVE  SumFunctionOnSet(f, {}) = 0
BY SumIsFold, FS_EmptySet

\* A sum of integers is an integer, whichever of them is added last.
LEMMA SumTakes ==
    ASSUME NEW f, NEW S, Numeric(f, S)
    PROVE  /\ SumFunctionOnSet(f, S) \in Int
           /\ \A x \in S : SumFunctionOnSet(f, S) = f[x] + SumFunctionOnSet(f, S \ {x})
<1> DEFINE V(s) == SumFunctionOnSet(f, s)
           Good(s) == V(s) \in Int /\ \A x \in s : V(s) = f[x] + V(s \ {x})
           T == {s \in SUBSET S : ~Good(s)}
<1> SUFFICES ASSUME T # {} PROVE FALSE
  OBVIOUS
<1>1. PICK m \in T : \A y \in T : ~(y \subseteq m /\ y # m)
  <2>1. T \subseteq SUBSET S /\ T # {} /\ IsFiniteSet(S)
    BY DEF Numeric
  <2> HIDE DEF T
  <2> QED BY <2>1, SmallestSubset
<1> DEFINE p == NextOf(m)
<1>2. m \in SUBSET S /\ ~Good(m) /\ IsFiniteSet(m)
  BY FS_Subset DEF Numeric
<1>3. \A s \in SUBSET m : s # m => Good(s)
  <2> HIDE DEF Good
  <2> QED BY <1>1, <1>2
<1>4. V(m) = IF m = {} THEN 0 ELSE f[p] + V(m \ {p})
  BY <1>2, SumIsFold
<1>5. m # {}
  BY <1>2, <1>4
<1>6. p \in m
  BY <1>5 DEF NextOf
<1>7. \A x \in m : f[x] \in Int
  BY <1>2 DEF Numeric
<1>8. Good(m \ {p})
  <2> HIDE DEF Good
  <2> QED BY <1>3, <1>6
<1>9. V(m) \in Int
  <2>1. V(m \ {p}) \in Int
    BY <1>8
  <2> HIDE DEF V
  <2> QED BY <2>1, <1>4, <1>5, <1>6, <1>7
<1>10. ASSUME NEW x \in m
       PROVE  V(m) = f[x] + V(m \ {x})
  <2>1. CASE x = p
    BY <2>1, <1>4, <1>5
  <2>2. CASE x # p
    <3>1. Good(m \ {x})
      <4> HIDE DEF Good
      <4> QED BY <1>3
    <3>2. V(m \ {p}) = f[x] + V((m \ {p}) \ {x}) /\ V(m \ {x}) = f[p] + V((m \ {x}) \ {p})
      BY <1>6, <1>8, <2>2, <3>1
    <3>3. (m \ {p}) \ {x} = (m \ {x}) \ {p}
      OBVIOUS
    <3>4. Good((m \ {p}) \ {x})
      <4>1. (m \ {p}) \ {x} \in SUBSET m /\ (m \ {p}) \ {x} # m
        BY <1>6
      <4> HIDE DEF Good
      <4> QED BY <1>3, <4>1
    <3>5. V((m \ {p}) \ {x}) \in Int
      BY <3>4
    <3>6. f[x] \in Int /\ f[p] \in Int
      BY <1>6, <1>7
    <3>7. V(m) = f[p] + V(m \ {p})
      BY <1>4, <1>5
    <3>8. PICK rest \in Int : V(m \ {p}) = f[x] + rest /\ V(m \ {x}) = f[p] + rest
      <4> HIDE DEF V, p
      <4> QED BY <3>2, <3>3, <3>5
    <3> HIDE DEF V, p
    <3> QED BY <3>6, <3>7, <3>8
  <2> QED BY <2>1, <2>2
<1> QED BY <1>2, <1>9, <1>10

LEMMA SumAdds ==
    ASSUME NEW f, NEW S, Numeric(f, S), NEW x, x \notin S, f[x] \in Int
    PROVE  SumFunctionOnSet(f, S \cup {x}) = SumFunctionOnSet(f, S) + f[x]
<1>1. Numeric(f, S \cup {x}) /\ (S \cup {x}) \ {x} = S
  BY FS_AddElement DEF Numeric
<1>2. SumFunctionOnSet(f, S \cup {x}) = f[x] + SumFunctionOnSet(f, S)
  BY <1>1, SumTakes
<1>3. SumFunctionOnSet(f, S) \in Int
  BY SumTakes
<1> QED BY <1>2, <1>3

LEMMA SumOfOne ==
    ASSUME NEW f, NEW x, f[x] \in Int
    PROVE  SumFunctionOnSet(f, {x}) = f[x]
<1>1. Numeric(f, {x}) /\ {x} \ {x} = {}
  BY FS_Singleton DEF Numeric
<1>2. SumFunctionOnSet(f, {x}) = f[x] + SumFunctionOnSet(f, {})
  BY <1>1, SumTakes
<1> QED BY <1>2, SumEmpty

\* A sum grows with what is summed.
LEMMA SumAtMost ==
    ASSUME NEW f, NEW g, NEW S, Numeric(f, S), Numeric(g, S), \A x \in S : f[x] <= g[x]
    PROVE  SumFunctionOnSet(f, S) <= SumFunctionOnSet(g, S)
<1> DEFINE V(s) == SumFunctionOnSet(f, s)
           W(s) == SumFunctionOnSet(g, s)
           T == {s \in SUBSET S : ~(V(s) <= W(s))}
<1> SUFFICES ASSUME T # {} PROVE FALSE
  OBVIOUS
<1>1. PICK m \in T : \A y \in T : ~(y \subseteq m /\ y # m)
  <2>1. T \subseteq SUBSET S /\ T # {} /\ IsFiniteSet(S)
    BY DEF Numeric
  <2> HIDE DEF T
  <2> QED BY <2>1, SmallestSubset
<1>2. m \in SUBSET S /\ ~(V(m) <= W(m)) /\ Numeric(f, m) /\ Numeric(g, m)
  BY FS_Subset DEF Numeric
<1>3. m # {}
  BY <1>2, SumEmpty
<1>4. PICK x : x \in m
  BY <1>3
<1>5. V(m) = f[x] + V(m \ {x}) /\ W(m) = g[x] + W(m \ {x})
  BY <1>2, <1>4, SumTakes
<1>6. Numeric(f, m \ {x}) /\ Numeric(g, m \ {x})
  BY <1>2, FS_RemoveElement DEF Numeric
<1>7. V(m \ {x}) \in Int /\ W(m \ {x}) \in Int
  BY <1>6, SumTakes
<1>8. V(m \ {x}) <= W(m \ {x})
  <2> HIDE DEF V, W
  <2> QED BY <1>1, <1>2, <1>4
<1>9. f[x] \in Int /\ g[x] \in Int /\ f[x] <= g[x]
  BY <1>2, <1>4 DEF Numeric
<1> HIDE DEF V, W
<1> QED BY <1>2, <1>5, <1>7, <1>8, <1>9

LEMMA SumSame ==
    ASSUME NEW f, NEW g, NEW S, Numeric(f, S), \A x \in S : f[x] = g[x]
    PROVE  SumFunctionOnSet(f, S) = SumFunctionOnSet(g, S)
<1>1. Numeric(g, S) /\ (\A x \in S : f[x] <= g[x]) /\ (\A x \in S : g[x] <= f[x])
  BY DEF Numeric
<1>2. /\ SumFunctionOnSet(f, S) <= SumFunctionOnSet(g, S)
      /\ SumFunctionOnSet(g, S) <= SumFunctionOnSet(f, S)
  BY <1>1, SumAtMost
<1>3. SumFunctionOnSet(f, S) \in Int /\ SumFunctionOnSet(g, S) \in Int
  BY <1>1, SumTakes
<1> QED BY <1>2, <1>3

\* When one of the numbers changes, the sum changes by the difference.
LEMMA SumChanges ==
    ASSUME NEW f, NEW g, NEW S, Numeric(f, S), NEW x \in S, g[x] \in Int,
           \A y \in S \ {x} : f[y] = g[y]
    PROVE  SumFunctionOnSet(g, S) = SumFunctionOnSet(f, S) - f[x] + g[x]
<1>1. Numeric(g, S) /\ Numeric(f, S \ {x})
  BY FS_RemoveElement DEF Numeric
<1>2. SumFunctionOnSet(f, S \ {x}) = SumFunctionOnSet(g, S \ {x})
  BY <1>1, SumSame
<1>3. /\ SumFunctionOnSet(f, S) = f[x] + SumFunctionOnSet(f, S \ {x})
      /\ SumFunctionOnSet(g, S) = g[x] + SumFunctionOnSet(g, S \ {x})
  BY <1>1, SumTakes
<1>4. SumFunctionOnSet(f, S \ {x}) \in Int /\ f[x] \in Int
  BY <1>1, SumTakes DEF Numeric
<1> QED BY <1>2, <1>3, <1>4

LEMMA SumOfNone ==
    ASSUME NEW f, NEW S, IsFiniteSet(S), \A x \in S : f[x] = 0
    PROVE  SumFunctionOnSet(f, S) = 0
<1> DEFINE T == {s \in SUBSET S : SumFunctionOnSet(f, s) # 0}
<1> SUFFICES ASSUME T # {} PROVE FALSE
  OBVIOUS
<1>1. PICK m \in T : \A y \in T : ~(y \subseteq m /\ y # m)
  <2>1. T \subseteq SUBSET S /\ T # {}
    OBVIOUS
  <2> HIDE DEF T
  <2> QED BY <2>1, SmallestSubset
<1>2. m \in SUBSET S /\ SumFunctionOnSet(f, m) # 0 /\ Numeric(f, m)
  BY FS_Subset DEF Numeric
<1>3. PICK x : x \in m
  BY <1>2, SumEmpty
<1>4. SumFunctionOnSet(f, m) = f[x] + SumFunctionOnSet(f, m \ {x})
  BY <1>2, <1>3, SumTakes
<1>5. SumFunctionOnSet(f, m \ {x}) = 0
  BY <1>1, <1>2, <1>3
<1> QED BY <1>2, <1>3, <1>4, <1>5

\* Of numbers that are not negative, each is at most the sum, and fewer of them
\* make no more.
LEMMA SumOfFewer ==
    ASSUME NEW f, NEW S, Numeric(f, S), \A x \in S : f[x] >= 0, NEW R \in SUBSET S
    PROVE  SumFunctionOnSet(f, R) <= SumFunctionOnSet(f, S)
<1> DEFINE V(s) == SumFunctionOnSet(f, s)
           T == {s \in SUBSET S : R \subseteq s /\ ~(V(R) <= V(s))}
<1> SUFFICES ASSUME T # {} PROVE FALSE
  OBVIOUS
<1>1. PICK m \in T : \A y \in T : ~(y \subseteq m /\ y # m)
  <2>1. T \subseteq SUBSET S /\ T # {} /\ IsFiniteSet(S)
    BY DEF Numeric
  <2> HIDE DEF T
  <2> QED BY <2>1, SmallestSubset
<1>2. m \in SUBSET S /\ R \subseteq m /\ ~(V(R) <= V(m)) /\ Numeric(f, m) /\ Numeric(f, R)
  BY FS_Subset DEF Numeric
<1>3. V(R) \in Int
  BY <1>2, SumTakes
<1>4. m # R
  BY <1>2, <1>3
<1>5. PICK x : x \in m /\ x \notin R
  BY <1>2, <1>4
<1>6. V(m) = f[x] + V(m \ {x})
  BY <1>2, <1>5, SumTakes
<1>7. Numeric(f, m \ {x})
  BY <1>2, FS_RemoveElement DEF Numeric
<1>8. V(m \ {x}) \in Int
  BY <1>7, SumTakes
<1>9. V(R) <= V(m \ {x})
  <2> HIDE DEF V
  <2> QED BY <1>1, <1>2, <1>5
<1>10. f[x] \in Int /\ f[x] >= 0
  BY <1>2, <1>5 DEF Numeric
<1> HIDE DEF V
<1> QED BY <1>2, <1>3, <1>6, <1>8, <1>9, <1>10

\* What adds nothing may be left out.
LEMMA SumOfRest ==
    ASSUME NEW f, NEW S, Numeric(f, S), NEW R \in SUBSET S, \A x \in S \ R : f[x] = 0
    PROVE  SumFunctionOnSet(f, R) = SumFunctionOnSet(f, S)
<1> DEFINE V(s) == SumFunctionOnSet(f, s)
           T == {s \in SUBSET S : R \subseteq s /\ V(s) # V(R)}
<1> SUFFICES ASSUME T # {} PROVE FALSE
  OBVIOUS
<1>1. PICK m \in T : \A y \in T : ~(y \subseteq m /\ y # m)
  <2>1. T \subseteq SUBSET S /\ T # {} /\ IsFiniteSet(S)
    BY DEF Numeric
  <2> HIDE DEF T
  <2> QED BY <2>1, SmallestSubset
<1>2. m \in SUBSET S /\ R \subseteq m /\ V(m) # V(R) /\ Numeric(f, m)
  BY FS_Subset DEF Numeric
<1>3. PICK x : x \in m /\ x \notin R
  BY <1>2
<1>4. V(m) = f[x] + V(m \ {x}) /\ f[x] = 0
  BY <1>2, <1>3, SumTakes
<1>5. Numeric(f, m \ {x})
  BY <1>2, FS_RemoveElement DEF Numeric
<1>6. V(m \ {x}) \in Int
  BY <1>5, SumTakes
<1>7. V(m \ {x}) = V(R)
  BY <1>1, <1>2, <1>3
<1> QED BY <1>2, <1>4, <1>6, <1>7

LEMMA SumNotNegative ==
    ASSUME NEW f, NEW S, IsFiniteSet(S), \A x \in S : f[x] \in Nat
    PROVE  /\ SumFunctionOnSet(f, S) \in Nat
           /\ \A x \in S : f[x] <= SumFunctionOnSet(f, S)
<1>1. Numeric(f, S) /\ (\A x \in S : f[x] >= 0)
  BY DEF Numeric
<1>2. ASSUME NEW R \in SUBSET S PROVE SumFunctionOnSet(f, R) <= SumFunctionOnSet(f, S)
  BY <1>1, SumOfFewer
<1>3. SumFunctionOnSet(f, {}) <= SumFunctionOnSet(f, S)
  BY <1>2
<1>4. SumFunctionOnSet(f, S) \in Int
  BY <1>1, SumTakes
<1>5. ASSUME NEW x \in S PROVE f[x] <= SumFunctionOnSet(f, S)
  <2>1. SumFunctionOnSet(f, {x}) = f[x]
    BY <1>1, SumOfOne DEF Numeric
  <2>2. SumFunctionOnSet(f, {x}) <= SumFunctionOnSet(f, S)
    BY <1>2
  <2> QED BY <2>1, <2>2
<1> QED BY <1>3, <1>4, <1>5, SumEmpty

\* A sum does not depend on the names of what is summed.
LEMMA SumRenamed ==
    ASSUME NEW f, NEW g, NEW S, NEW b, Numeric(f, S),
           \A x \in S : g[b[x]] = f[x], \A x, y \in S : b[x] = b[y] => x = y
    PROVE  SumFunctionOnSet(g, {b[x] : x \in S}) = SumFunctionOnSet(f, S)
<1> DEFINE Image(s) == {b[x] : x \in s}
           T == {s \in SUBSET S : SumFunctionOnSet(g, Image(s)) # SumFunctionOnSet(f, s)}
<1> SUFFICES ASSUME T # {} PROVE FALSE
  OBVIOUS
<1>1. PICK m \in T : \A y \in T : ~(y \subseteq m /\ y # m)
  <2>1. T \subseteq SUBSET S /\ T # {} /\ IsFiniteSet(S)
    BY DEF Numeric
  <2> HIDE DEF T
  <2> QED BY <2>1, SmallestSubset
<1>2. /\ m \in SUBSET S /\ Numeric(f, m)
      /\ SumFunctionOnSet(g, Image(m)) # SumFunctionOnSet(f, m)
  BY FS_Subset DEF Numeric
<1>3. m # {}
  <2>1. Image({}) = {}
    OBVIOUS
  <2> QED BY <1>2, <2>1, SumEmpty
<1>4. PICK x : x \in m
  BY <1>3
<1>5. SumFunctionOnSet(g, Image(m \ {x})) = SumFunctionOnSet(f, m \ {x})
  BY <1>1, <1>2, <1>4
<1>6. SumFunctionOnSet(f, m) = f[x] + SumFunctionOnSet(f, m \ {x})
  BY <1>2, <1>4, SumTakes
<1>7. Numeric(g, Image(m))
  <2>1. IsFiniteSet(Image(m))
    <3>1. [z \in m |-> b[z]] \in Surjection(m, Image(m))
      BY DEF Surjection
    <3> QED BY <1>2, <3>1, FS_Surjection DEF Numeric
  <2>2. \A z \in Image(m) : g[z] \in Int
    BY <1>2 DEF Numeric
  <2> QED BY <2>1, <2>2 DEF Numeric
<1>8. b[x] \in Image(m) /\ g[b[x]] = f[x]
  BY <1>2, <1>4
<1>9. Image(m) \ {b[x]} = Image(m \ {x})
  BY <1>2, <1>4
<1>10. SumFunctionOnSet(g, Image(m)) = f[x] + SumFunctionOnSet(g, Image(m \ {x}))
  <2> HIDE DEF Image
  <2>1. \A z \in Image(m) : SumFunctionOnSet(g, Image(m)) = g[z] + SumFunctionOnSet(g, Image(m) \ {z})
    BY <1>7, SumTakes
  <2>2. SumFunctionOnSet(g, Image(m)) = g[b[x]] + SumFunctionOnSet(g, Image(m) \ {b[x]})
    BY <1>8, <2>1
  <2> QED BY <1>8, <1>9, <2>2
<1> QED BY <1>2, <1>5, <1>6, <1>10
=============================================================================
