--------------------------- MODULE SubAgentsProofs ---------------------------
(***************************************************************************)
(* What holds of SubAgents for any calls, tasks and limit.                 *)
(***************************************************************************)
EXTENDS SubAgents, FiniteSetTheorems, WellFoundedInduction, TLAPS

-----------------------------------------------------------------------------
\* Finite sets are well founded under inclusion.
LEMMA LeastSubset ==
  ASSUME NEW D, IsFiniteSet(D), NEW U \in SUBSET SUBSET D, U # {}
  PROVE  \E s \in U : \A t \in U : t \subseteq s => t = s
<1>1. IsWellFoundedOn(StrictSubsetOrdering(D), SUBSET D)
  BY FS_StrictSubsetOrderingWellFounded, FS_FiniteSubsetsOfFinite
<1>2. PICK s \in U : \A t \in U : <<t, s>> \notin StrictSubsetOrdering(D)
  BY <1>1, WFMin
<1>. QED  BY <1>2 DEF StrictSubsetOrdering

\* Folds over the subsets of D: g gives base for {} and else what comb makes of
\* the element that pick names and of the rest.
Picks(pick, D) == \A s \in SUBSET D : s # {} => pick[s] \in s
Folds(g, D, base, pick, comb) ==
  \A s \in SUBSET D : g[s] = IF s = {} THEN base ELSE comb[<<pick[s], g[s \ {pick[s]}]>>]

\* There is such a fold over every finite set.
LEMMA FoldExists ==
  ASSUME NEW D, IsFiniteSet(D), NEW V, NEW base \in V,
         NEW pick, Picks(pick, D), NEW comb \in [D \X V -> V]
  PROVE  \E g \in [SUBSET D -> V] : Folds(g, D, base, pick, comb)
<1>. USE DEF Picks
<1>. DEFINE Level(n) == {s \in SUBSET D : Cardinality(s) <= n}
            Fold(n) == \E g \in [Level(n) -> V] : \A s \in Level(n) :
                         g[s] = IF s = {} THEN base ELSE comb[<<pick[s], g[s \ {pick[s]}]>>]
<1>1. \A s \in SUBSET D : IsFiniteSet(s) /\ Cardinality(s) \in Nat
  BY FS_Subset, FS_CardinalityType
<1>2. \A n \in Nat : \A s \in Level(n + 1) : s # {} => s \ {pick[s]} \in Level(n)
  <2>. SUFFICES ASSUME NEW n \in Nat, NEW s \in SUBSET D, Cardinality(s) <= n + 1, s # {}
                PROVE  s \ {pick[s]} \in Level(n)
    OBVIOUS
  <2>1. pick[s] \in s /\ IsFiniteSet(s) /\ Cardinality(s) \in Nat
    BY <1>1
  <2>2. Cardinality(s \ {pick[s]}) = Cardinality(s) - 1
    BY <2>1, FS_RemoveElement
  <2>. QED  BY <2>1, <2>2
<1>3. Fold(0)
  <2>1. Level(0) = {{}}
    BY <1>1, FS_EmptySet
  <2>2. [s \in Level(0) |-> base] \in [Level(0) -> V]
    OBVIOUS
  <2>. QED  BY <2>1, <2>2
<1>4. ASSUME NEW n \in Nat, Fold(n)
      PROVE  Fold(n + 1)
  <2>1. PICK g \in [Level(n) -> V] : \A s \in Level(n) :
          g[s] = IF s = {} THEN base ELSE comb[<<pick[s], g[s \ {pick[s]}]>>]
    BY <1>4
  <2>. DEFINE h == [s \in Level(n + 1) |->
                      IF s = {} THEN base ELSE comb[<<pick[s], g[s \ {pick[s]}]>>]]
  <2>2. h \in [Level(n + 1) -> V]
    BY <1>2, <2>1
  <2>3. \A s \in Level(n) : s \in Level(n + 1) /\ h[s] = g[s]
    <3>1. \A s \in Level(n) : s \in Level(n + 1)
      BY <1>1
    <3>. QED  BY <2>1, <3>1
  <2>4. \A s \in Level(n + 1) :
          h[s] = IF s = {} THEN base ELSE comb[<<pick[s], h[s \ {pick[s]}]>>]
    BY <1>2, <2>3
  <2>. QED  BY <2>2, <2>4
<1>. HIDE DEF Fold
<1>5. \A s \in SUBSET D : Fold(Cardinality(s))
  <2>. DEFINE U == {s \in SUBSET D : ~Fold(Cardinality(s))}
  <2>. SUFFICES ASSUME U # {}
                PROVE  FALSE
    OBVIOUS
  <2>0. U \in SUBSET SUBSET D
    OBVIOUS
  <2>1. PICK s \in U : \A t \in U : t \subseteq s => t = s
    <3>. HIDE DEF U
    <3>. QED  BY <2>0, LeastSubset
  <2>2. PICK x : x \in s
    BY <1>3, <2>1, FS_EmptySet
  <2>3. /\ s \ {x} \notin U
        /\ Cardinality(s \ {x}) \in Nat /\ Cardinality(s) = Cardinality(s \ {x}) + 1
    BY <1>1, <2>1, <2>2, FS_RemoveElement
  <2>. QED  BY <1>4, <2>1, <2>3
<1>6. Level(Cardinality(D)) = SUBSET D
  BY FS_Subset, FS_CardinalityType
<1>7. Fold(Cardinality(D))
  BY <1>5
<1>8. PICK g \in [Level(Cardinality(D)) -> V] : \A s \in Level(Cardinality(D)) :
        g[s] = IF s = {} THEN base ELSE comb[<<pick[s], g[s \ {pick[s]}]>>]
  BY <1>7 DEF Fold
<1>. HIDE DEF Level
<1>. QED  BY <1>6, <1>8 DEF Folds

-----------------------------------------------------------------------------
(* Sums of natural numbers over finite sets.                               *)

\* The fold that SumFunctionOnSet is: one member at a time, whichever is chosen.
Total(g, f, D) ==
  \A s \in SUBSET D :
    g[s] = IF s = {} THEN 0
           ELSE f[CHOOSE x \in s : TRUE] + g[s \ {CHOOSE x \in s : TRUE}]

\* Each part of D has its sum in one function.
LEMMA TotalExists ==
  ASSUME NEW D, IsFiniteSet(D), NEW f \in [D -> Nat]
  PROVE  \E g \in [SUBSET D -> Nat] : Total(g, f, D)
<1>. DEFINE pick == [s \in SUBSET D |-> CHOOSE x \in s : TRUE]
            comb == [e \in D \X Nat |-> f[e[1]] + e[2]]
<1>1. Picks(pick, D)
  BY DEF Picks
<1>2. comb \in [D \X Nat -> Nat]
  OBVIOUS
<1>3. PICK g \in [SUBSET D -> Nat] : Folds(g, D, 0, pick, comb)
  <2>. HIDE DEF pick, comb
  <2>1. PICK V, base : V = Nat /\ base = 0
    OBVIOUS
  <2>2. base \in V /\ comb \in [D \X V -> V]
    BY <1>2, <2>1
  <2>3. \E g \in [SUBSET D -> V] : Folds(g, D, base, pick, comb)
    BY ONLY IsFiniteSet(D), <1>1, <2>2, FoldExists
  <2>. QED  BY <2>1, <2>3
<1>4. ASSUME NEW s \in SUBSET D
      PROVE  g[s] = IF s = {} THEN 0
                    ELSE f[CHOOSE x \in s : TRUE] + g[s \ {CHOOSE x \in s : TRUE}]
  <2>1. CASE s = {}
    BY <1>3, <2>1 DEF Folds
  <2>2. CASE s # {}
    <3>1. PICK p : p = pick[s]
      OBVIOUS
    <3>2. p \in D /\ p = (CHOOSE x \in s : TRUE) /\ s \ {p} \in SUBSET D
      BY <2>2, <3>1
    <3>3. g[s] = comb[<<p, g[s \ {p}]>>] /\ g[s \ {p}] \in Nat
      BY <1>3, <2>2, <3>1, <3>2 DEF Folds
    <3>4. comb[<<p, g[s \ {p}]>>] = f[p] + g[s \ {p}]
      <4>1. \A q \in D, r \in Nat : comb[<<q, r>>] = f[q] + r
        OBVIOUS
      <4>. HIDE DEF comb
      <4>. QED  BY <3>2, <3>3, <4>1
    <3>. QED  BY <2>2, <3>2, <3>3, <3>4
  <2>. QED  BY <2>1, <2>2
<1>. QED  BY <1>4 DEF Total

\* It is the sum of each of them.
LEMMA SumIsTotal ==
  ASSUME NEW D, IsFiniteSet(D), NEW f \in [D -> Nat],
         NEW g \in [SUBSET D -> Nat], Total(g, f, D), NEW S \in SUBSET D
  PROVE  SumFunctionOnSet(f, S) = g[S]
<1>. DEFINE Is(h) == h = [s \in SUBSET S |->
                            IF s = {} THEN 0
                            ELSE f[CHOOSE x \in s : TRUE] + h[s \ {CHOOSE x \in s : TRUE}]]
<1>1. SumFunctionOnSet(f, S) = (CHOOSE h : Is(h))[S]
  BY DEF SumFunctionOnSet, FoldFunctionOnSet, MapThenFoldSet
<1>2. \A s \in SUBSET S : s # {} =>
        (CHOOSE x \in s : TRUE) \in s /\ s \ {CHOOSE x \in s : TRUE} \in SUBSET S
  OBVIOUS
<1>3. \E h : Is(h)
  <2>. DEFINE h == [s \in SUBSET S |-> g[s]]
  <2>1. \A s \in SUBSET S :
          g[s] = IF s = {} THEN 0
                 ELSE f[CHOOSE x \in s : TRUE] + h[s \ {CHOOSE x \in s : TRUE}]
    BY <1>2 DEF Total
  <2>2. Is(h)
    BY <2>1
  <2>. QED  BY <2>2
<1>4. PICK h : Is(h) /\ SumFunctionOnSet(f, S) = h[S]
  <2>. HIDE DEF Is
  <2>. QED  BY <1>1, <1>3
<1>5. \A s \in SUBSET S :
        h[s] = IF s = {} THEN 0
               ELSE f[CHOOSE x \in s : TRUE] + h[s \ {CHOOSE x \in s : TRUE}]
  BY <1>4
<1>6. \A s \in SUBSET S : h[s] = g[s]
  <2>. DEFINE U == {s \in SUBSET S : h[s] # g[s]}
  <2>. SUFFICES ASSUME U # {}
                PROVE  FALSE
    OBVIOUS
  <2>1. IsFiniteSet(S) /\ U \in SUBSET SUBSET S /\ U # {}
    BY FS_Subset
  <2>2. PICK s \in U : \A t \in U : t \subseteq s => t = s
    <3>. HIDE DEF U
    <3>. QED  BY ONLY <2>1, LeastSubset
  <2>3. s # {}
    BY <1>5 DEF Total
  <2>4. s \ {CHOOSE x \in s : TRUE} \notin U
    BY <1>2, <2>2, <2>3
  <2>5. h[s \ {CHOOSE x \in s : TRUE}] = g[s \ {CHOOSE x \in s : TRUE}]
    BY <1>2, <2>3, <2>4
  <2>6. h[s] = f[CHOOSE x \in s : TRUE] + g[s \ {CHOOSE x \in s : TRUE}]
    BY <1>5, <2>3, <2>5
  <2>7. g[s] = f[CHOOSE x \in s : TRUE] + g[s \ {CHOOSE x \in s : TRUE}]
    BY <2>3 DEF Total
  <2>. QED  BY <2>6, <2>7
<1>. QED  BY <1>4, <1>6

\* The order does not matter: any member can be taken out.
AnyFirst(g, f, D) == \A s \in SUBSET D : \A x \in s : g[s] = f[x] + g[s \ {x}]

\* Taking one more call into a sum of slots.
LEMMA TotalStep ==
  ASSUME NEW D, IsFiniteSet(D), NEW f \in [D -> Nat],
         NEW g \in [SUBSET D -> Nat], Total(g, f, D)
  PROVE  AnyFirst(g, f, D)
<1>. USE DEF AnyFirst
<1>. DEFINE U == {s \in SUBSET D : \E x \in s : g[s] # f[x] + g[s \ {x}]}
<1>. SUFFICES ASSUME U # {}
              PROVE  FALSE
  OBVIOUS
<1>1. IsFiniteSet(D) /\ U \in SUBSET SUBSET D /\ U # {}
  OBVIOUS
<1>2. PICK s \in U : \A t \in U : t \subseteq s => t = s
  <2>. HIDE DEF U
  <2>. QED  BY ONLY <1>1, LeastSubset
<1>3. PICK x \in s : g[s] # f[x] + g[s \ {x}]
  OBVIOUS
<1>4. PICK p : p = CHOOSE y \in s : TRUE
  OBVIOUS
<1>5. p \in s /\ s \in SUBSET D /\ g[s] = f[p] + g[s \ {p}]
  BY <1>3, <1>4 DEF Total
<1>6. p # x
  BY <1>3, <1>5
<1>7. s \ {p} \notin U /\ s \ {x} \notin U
  BY <1>2, <1>3, <1>5
<1>8. g[s \ {p}] = f[x] + g[(s \ {p}) \ {x}] /\ g[s \ {x}] = f[p] + g[(s \ {x}) \ {p}]
  BY <1>3, <1>5, <1>6, <1>7
<1>9. (s \ {p}) \ {x} = (s \ {x}) \ {p} /\ (s \ {p}) \ {x} \in SUBSET D
  BY <1>5
<1>10. PICK a \in Nat, b \in Nat, r \in Nat : a = f[p] /\ b = f[x] /\ r = g[(s \ {p}) \ {x}]
  BY <1>3, <1>5, <1>9
<1>11. g[s] = a + (b + r) /\ g[s \ {x}] = a + r
  BY <1>5, <1>8, <1>9, <1>10
<1>. QED  BY <1>3, <1>10, <1>11

\* What a sum is, without its order.
LEMMA SumLaws ==
  ASSUME NEW D, IsFiniteSet(D), NEW f \in [D -> Nat]
  PROVE  /\ \A S \in SUBSET D : SumFunctionOnSet(f, S) \in Nat
         /\ SumFunctionOnSet(f, {}) = 0
         /\ \A S \in SUBSET D : \A x \in S :
              SumFunctionOnSet(f, S) = f[x] + SumFunctionOnSet(f, S \ {x})
<1>1. PICK g \in [SUBSET D -> Nat] : Total(g, f, D)
  BY TotalExists
<1>2. \A S \in SUBSET D : SumFunctionOnSet(f, S) = g[S]
  BY <1>1, SumIsTotal
<1>3. \A S \in SUBSET D : \A x \in S : g[S] = f[x] + g[S \ {x}]
  <2>1. AnyFirst(g, f, D)
    BY <1>1, TotalStep
  <2>. QED  BY <2>1 DEF AnyFirst
<1>4. {} \in SUBSET D /\ g[{}] = 0
  BY <1>1 DEF Total
<1>. QED  BY <1>2, <1>3, <1>4

\* The sum of a set depends on the summands of that set only.
LEMMA SumSame ==
  ASSUME NEW D, IsFiniteSet(D), NEW f \in [D -> Nat], NEW h \in [D -> Nat],
         NEW S \in SUBSET D, \A x \in S : f[x] = h[x]
  PROVE  SumFunctionOnSet(f, S) = SumFunctionOnSet(h, S)
<1>. DEFINE U == {s \in SUBSET S : SumFunctionOnSet(f, s) # SumFunctionOnSet(h, s)}
<1>. SUFFICES ASSUME U # {}
              PROVE  FALSE
  OBVIOUS
<1>1. IsFiniteSet(S) /\ U \in SUBSET SUBSET S /\ U # {}
  BY FS_Subset
<1>2. PICK s \in U : \A t \in U : t \subseteq s => t = s
  <2>. HIDE DEF U
  <2>. QED  BY ONLY <1>1, LeastSubset
<1>3. s # {}
  BY SumLaws
<1>4. PICK x \in s : TRUE
  BY <1>3
<1>5. s \ {x} \notin U
  BY <1>2, <1>4
<1>6. SumFunctionOnSet(f, s \ {x}) = SumFunctionOnSet(h, s \ {x}) /\ f[x] = h[x]
  BY <1>4, <1>5
<1>7. s \in SUBSET D
  OBVIOUS
<1>8. /\ SumFunctionOnSet(f, s) = f[x] + SumFunctionOnSet(f, s \ {x})
      /\ SumFunctionOnSet(h, s) = h[x] + SumFunctionOnSet(h, s \ {x})
  BY <1>4, <1>7, SumLaws
<1>. QED  BY <1>6, <1>8

\* A set that adds nothing has the sum zero.
LEMMA SumZero ==
  ASSUME NEW D, IsFiniteSet(D), NEW f \in [D -> Nat],
         NEW S \in SUBSET D, \A x \in S : f[x] = 0
  PROVE  SumFunctionOnSet(f, S) = 0
<1>. DEFINE U == {s \in SUBSET S : SumFunctionOnSet(f, s) # 0}
<1>. SUFFICES ASSUME U # {}
              PROVE  FALSE
  OBVIOUS
<1>1. IsFiniteSet(S) /\ U \in SUBSET SUBSET S /\ U # {}
  BY FS_Subset
<1>2. PICK s \in U : \A t \in U : t \subseteq s => t = s
  <2>. HIDE DEF U
  <2>. QED  BY ONLY <1>1, LeastSubset
<1>3. s # {}
  BY SumLaws
<1>4. PICK x \in s : TRUE
  BY <1>3
<1>5. s \ {x} \notin U
  BY <1>2, <1>4
<1>6. SumFunctionOnSet(f, s \ {x}) = 0 /\ f[x] = 0 /\ s \in SUBSET D
  BY <1>4, <1>5
<1>7. SumFunctionOnSet(f, s) = f[x] + SumFunctionOnSet(f, s \ {x})
  BY <1>4, <1>6, SumLaws
<1>. QED  BY <1>6, <1>7

\* A sum over two parts.
LEMMA SumParts ==
  ASSUME NEW D, IsFiniteSet(D), NEW f \in [D -> Nat], NEW B \in SUBSET D
  PROVE  SumFunctionOnSet(f, D) = SumFunctionOnSet(f, B) + SumFunctionOnSet(f, D \ B)
<1>. DEFINE U == {s \in SUBSET B : SumFunctionOnSet(f, D)
                                     # SumFunctionOnSet(f, s) + SumFunctionOnSet(f, D \ s)}
<1>. SUFFICES ASSUME U # {}
              PROVE  FALSE
  OBVIOUS
<1>1. IsFiniteSet(B) /\ U \in SUBSET SUBSET B /\ U # {}
  BY FS_Subset
<1>2. PICK s \in U : \A t \in U : t \subseteq s => t = s
  <2>. HIDE DEF U
  <2>. QED  BY ONLY <1>1, LeastSubset
<1>3. s # {}
  <2>1. SumFunctionOnSet(f, D) \in Nat /\ SumFunctionOnSet(f, {}) = 0
    BY SumLaws
  <2>2. D \ {} = D
    OBVIOUS
  <2>3. SumFunctionOnSet(f, D) = SumFunctionOnSet(f, {}) + SumFunctionOnSet(f, D \ {})
    BY <2>1, <2>2
  <2>. QED  BY <2>3
<1>4. PICK x \in s : TRUE
  BY <1>3
<1>5. s \ {x} \notin U /\ s \in SUBSET D /\ D \ (s \ {x}) \in SUBSET D
  BY <1>2, <1>4
<1>6. SumFunctionOnSet(f, D) = SumFunctionOnSet(f, s \ {x}) + SumFunctionOnSet(f, D \ (s \ {x}))
  BY <1>5
<1>7. x \in D \ (s \ {x}) /\ (D \ (s \ {x})) \ {x} = D \ s
  BY <1>4
<1>8. /\ SumFunctionOnSet(f, s) = f[x] + SumFunctionOnSet(f, s \ {x})
      /\ SumFunctionOnSet(f, D \ (s \ {x})) = f[x] + SumFunctionOnSet(f, D \ s)
  BY <1>4, <1>5, <1>7, SumLaws
<1>9. PICK a \in Nat, b \in Nat, c \in Nat :
        a = f[x] /\ b = SumFunctionOnSet(f, s \ {x}) /\ c = SumFunctionOnSet(f, D \ s)
  <2>1. s \ {x} \in SUBSET D /\ D \ s \in SUBSET D
    OBVIOUS
  <2>2. SumFunctionOnSet(f, s \ {x}) \in Nat /\ SumFunctionOnSet(f, D \ s) \in Nat /\ f[x] \in Nat
    BY <1>4, <2>1, SumLaws
  <2>. QED  BY <2>2
<1>10. SumFunctionOnSet(f, D) = SumFunctionOnSet(f, s) + SumFunctionOnSet(f, D \ s)
  BY <1>6, <1>8, <1>9
<1>. QED  BY <1>10

\* The sum after one summand changed.
LEMMA SumChanged ==
  ASSUME NEW D, IsFiniteSet(D), NEW f \in [D -> Nat], NEW h \in [D -> Nat],
         NEW x \in D, \A y \in D \ {x} : h[y] = f[y]
  PROVE  SumFunctionOnSet(h, D) = SumFunctionOnSet(f, D) - f[x] + h[x]
<1>1. SumFunctionOnSet(f, D \ {x}) = SumFunctionOnSet(h, D \ {x})
  BY SumSame
<1>2. /\ SumFunctionOnSet(f, D) = f[x] + SumFunctionOnSet(f, D \ {x})
      /\ SumFunctionOnSet(h, D) = h[x] + SumFunctionOnSet(h, D \ {x})
      /\ SumFunctionOnSet(f, D \ {x}) \in Nat
  BY SumLaws
<1>3. f[x] \in Nat /\ h[x] \in Nat
  OBVIOUS
<1>. QED  BY <1>1, <1>2, <1>3

\* The sum after the summands of B were cleared.
LEMMA SumCleared ==
  ASSUME NEW D, IsFiniteSet(D), NEW f \in [D -> Nat], NEW h \in [D -> Nat],
         NEW B \in SUBSET D, \A y \in D : h[y] = IF y \in B THEN 0 ELSE f[y]
  PROVE  /\ SumFunctionOnSet(h, D) = SumFunctionOnSet(f, D) - SumFunctionOnSet(f, B)
         /\ SumFunctionOnSet(f, B) <= SumFunctionOnSet(f, D)
<1>1. D \ B \in SUBSET D /\ (\A y \in B : h[y] = 0) /\ (\A y \in D \ B : h[y] = f[y])
  OBVIOUS
<1>2. SumFunctionOnSet(h, B) = 0
  BY <1>1, SumZero
<1>3. SumFunctionOnSet(h, D \ B) = SumFunctionOnSet(f, D \ B)
  BY <1>1, SumSame
<1>4. /\ SumFunctionOnSet(f, D) = SumFunctionOnSet(f, B) + SumFunctionOnSet(f, D \ B)
      /\ SumFunctionOnSet(h, D) = SumFunctionOnSet(h, B) + SumFunctionOnSet(h, D \ B)
  BY SumParts
<1>5. SumFunctionOnSet(f, B) \in Nat /\ SumFunctionOnSet(f, D \ B) \in Nat
  BY <1>1, SumLaws
<1>. QED  BY <1>2, <1>3, <1>4, <1>5

\* A summand is no more than the sum.
LEMMA SumBounds ==
  ASSUME NEW D, IsFiniteSet(D), NEW f \in [D -> Nat], NEW x \in D
  PROVE  f[x] <= SumFunctionOnSet(f, D)
<1>1. SumFunctionOnSet(f, D) = f[x] + SumFunctionOnSet(f, D \ {x})
  BY SumLaws
<1>2. SumFunctionOnSet(f, D \ {x}) \in Nat /\ f[x] \in Nat
  BY SumLaws
<1>. QED  BY <1>1, <1>2

\* There are finitely many children.
LEMMA ChildrenFinite ==
  ASSUME NEW A \in SUBSET Child
  PROVE  IsFiniteSet(A) /\ Cardinality(A) \in Nat
<1>1. IsFiniteSet(1..MaxItems) /\ IsFiniteSet(Call)
  BY SubAgentsAssumption, FS_Interval
<1>2. IsFiniteSet(Call \X (1..MaxItems))
  BY <1>1, FS_Product
<1>3. A \in SUBSET (Call \X (1..MaxItems))
  BY DEF Child
<1>. QED  BY <1>2, <1>3, FS_Subset, FS_CardinalityType

\* If no call has more children of A than f allows it, A has no more than f
\* allows all of them.
LEMMA ChildrenCounted ==
  ASSUME NEW A \in SUBSET Child, NEW f \in [Call -> Nat],
         \A c \in Call : Cardinality(A \cap ChildrenOf({c})) <= f[c]
  PROVE  Cardinality(A) <= SumFunctionOnSet(f, Call)
<1>. DEFINE U == {s \in SUBSET Call : ~ (Cardinality(A \cap ChildrenOf(s)) <= SumFunctionOnSet(f, s))}
<1>0. IsFiniteSet(Call)
  BY SubAgentsAssumption
<1>1. U = {}
  <2>. SUFFICES ASSUME U # {}
                PROVE  FALSE
    OBVIOUS
  <2>1. IsFiniteSet(Call) /\ U \in SUBSET SUBSET Call /\ U # {}
    BY <1>0
  <2>2. PICK s \in U : \A t \in U : t \subseteq s => t = s
    <3>. HIDE DEF U
    <3>. QED  BY ONLY <2>1, LeastSubset
  <2>3. s # {}
    <3>1. A \cap ChildrenOf({}) = {}
      BY DEF ChildrenOf
    <3>2. Cardinality(A \cap ChildrenOf({})) = 0
      BY <3>1, FS_EmptySet
    <3>3. SumFunctionOnSet(f, {}) = 0
      BY <1>0, SumLaws
    <3>. QED  BY <3>2, <3>3
  <2>4. PICK c \in s : TRUE
    BY <2>3
  <2>5. s \ {c} \notin U /\ c \in Call
    BY <2>2, <2>4
  <2>. DEFINE X == A \cap ChildrenOf({c})
              Y == A \cap ChildrenOf(s \ {c})
  <2>6. /\ Cardinality(Y) <= SumFunctionOnSet(f, s \ {c})
        /\ Cardinality(X) <= f[c]
    BY <2>5
  <2>7. SumFunctionOnSet(f, s) = f[c] + SumFunctionOnSet(f, s \ {c})
        /\ SumFunctionOnSet(f, s \ {c}) \in Nat /\ f[c] \in Nat
    BY <1>0, <2>4, <2>5, SumLaws
  <2>8. A \cap ChildrenOf(s) = X \cup Y
    BY <2>4 DEF ChildrenOf
  <2>9. X \cap Y = {}
    BY DEF ChildrenOf
  <2>10. /\ IsFiniteSet(X) /\ IsFiniteSet(Y) /\ Cardinality(X) \in Nat /\ Cardinality(Y) \in Nat
    BY ChildrenFinite
  <2>. HIDE DEF X, Y
  <2>11. Cardinality(X \cup Y) = Cardinality(X) + Cardinality(Y)
    <3>1. Cardinality(X \cup Y) = Cardinality(X) + Cardinality(Y) - Cardinality(X \cap Y)
      BY ONLY <2>10, FS_Union
    <3>2. Cardinality(X \cap Y) = 0
      BY <2>9, FS_EmptySet
    <3>. QED  BY ONLY <2>10, <3>1, <3>2
  <2>12. Cardinality(A \cap ChildrenOf(s)) <= SumFunctionOnSet(f, s)
    <3>1. PICK x \in Nat, y \in Nat, a \in Nat, b \in Nat :
            /\ x = Cardinality(X) /\ y = Cardinality(Y)
            /\ a = f[c] /\ b = SumFunctionOnSet(f, s \ {c})
      BY <2>7, <2>10
    <3>2. y <= b /\ x <= a
      BY <2>6, <3>1 DEF X, Y
    <3>3. x + y <= a + b
      BY <3>2
    <3>4. Cardinality(A \cap ChildrenOf(s)) = x + y /\ SumFunctionOnSet(f, s) = a + b
      BY <2>7, <2>8, <2>11, <3>1
    <3>. QED  BY <3>3, <3>4
  <2>. QED  BY <2>12
<1>2. A \cap ChildrenOf(Call) = A
  BY DEF ChildrenOf, Child
<1>. QED  BY <1>1, <1>2

-----------------------------------------------------------------------------
\* The tasks among the first n of f that start a process, and the children that
\* come of them when tasks were left.
StartsOf(f, n) == {i \in 1..n : f[i] \in Starts}
Beginning(c, f, tasks) ==
  {k \in ChildrenOf({c}) : tasks - k[2] + 1 \in DOMAIN f /\ f[tasks - k[2] + 1] \in Starts}

\* A prefix of tasks starts a number of processes, at most one for each task.
LEMMA StartsCounted ==
  ASSUME NEW f, NEW n \in Nat
  PROVE  /\ Cardinality(StartsOf(f, n)) \in Nat /\ IsFiniteSet(StartsOf(f, n))
         /\ n = 0 => Cardinality(StartsOf(f, n)) = 0
         /\ n > 0 => Cardinality(StartsOf(f, n)) <= Cardinality(StartsOf(f, n - 1)) + 1
<1>1. \A m \in Nat : IsFiniteSet(StartsOf(f, m)) /\ Cardinality(StartsOf(f, m)) \in Nat
  <2>. TAKE m \in Nat
  <2>1. IsFiniteSet(1..m) /\ StartsOf(f, m) \in SUBSET (1..m)
    BY FS_Interval DEF StartsOf
  <2>. QED  BY <2>1, FS_Subset, FS_CardinalityType
<1>2. n = 0 => StartsOf(f, n) = {}
  BY DEF StartsOf
<1>3. ASSUME n > 0
      PROVE  Cardinality(StartsOf(f, n)) <= Cardinality(StartsOf(f, n - 1)) + 1
  <2>1. n - 1 \in Nat
    BY <1>3
  <2>2. PICK S, T : S = StartsOf(f, n) /\ T = StartsOf(f, n - 1)
    OBVIOUS
  <2>3. S \in SUBSET (T \cup {n})
    BY <1>3, <2>2 DEF StartsOf
  <2>4. IsFiniteSet(T) /\ Cardinality(T) \in Nat /\ IsFiniteSet(S) /\ Cardinality(S) \in Nat
    BY <1>1, <2>1, <2>2
  <2>5. IsFiniteSet(T \cup {n}) /\ Cardinality(T \cup {n}) = IF n \in T THEN Cardinality(T) ELSE Cardinality(T) + 1
    BY ONLY <2>4, FS_AddElement
  <2>6. Cardinality(S) <= Cardinality(T \cup {n})
    BY ONLY <2>3, <2>5, FS_Subset
  <2>7. Cardinality(S) <= Cardinality(T) + 1
    BY <2>4, <2>5, <2>6
  <2>. QED  BY <2>2, <2>7
<1>. QED  BY <1>1, <1>2, <1>3, FS_EmptySet

\* What the first n of the tasks, as f has them, are to the lanes.
Filled(f, n, tasks, busy, lanes) ==
  /\ f \in [1..n -> Starts \cup {"ok", "throws", "unconfirmed"}]
  /\ busy + Cardinality(StartsOf(f, n)) <= lanes
  /\ n = tasks \/ busy + Cardinality(StartsOf(f, n)) = lanes
  /\ n = 0 \/ busy < lanes

\* Of the tasks that are left, the free lanes take a prefix that does not start
\* more processes than there are lanes free; they take all, or are busy then.
LEMMA FillsFacts ==
  ASSUME NEW c, NEW tasks \in Nat, NEW busy \in Nat, NEW runs \in Nat, NEW lanes \in Nat,
         busy <= lanes, NEW f \in Fills(c, tasks, busy, runs, lanes)
  PROVE  \E n \in 0..tasks : Filled(f, n, tasks, busy, lanes)
<1>1. PICK n \in 0..tasks :
        /\ f \in [1..n -> Starts \cup {"ok", "throws", "unconfirmed"}]
        /\ \A j \in 1..n : busy + Cardinality({i \in 1..j - 1 : f[i] \in Starts}) < lanes
        /\ n = tasks \/ busy + Cardinality({i \in 1..n : f[i] \in Starts}) = lanes
  BY DEF Fills
<1>2. n \in Nat
  OBVIOUS
<1>3. /\ \A j \in 1..n : busy + Cardinality(StartsOf(f, j - 1)) < lanes
      /\ n = tasks \/ busy + Cardinality(StartsOf(f, n)) = lanes
  BY <1>1 DEF StartsOf
<1>4. busy + Cardinality(StartsOf(f, n)) <= lanes
  <2>1. CASE n = 0
    BY <2>1, StartsCounted
  <2>2. CASE n > 0
    <3>1. n \in 1..n /\ n - 1 \in Nat
      BY <1>2, <2>2
    <3>2. busy + Cardinality(StartsOf(f, n - 1)) < lanes
      BY <1>3, <3>1
    <3>3. PICK x \in Nat, y \in Nat : x = Cardinality(StartsOf(f, n)) /\ y = Cardinality(StartsOf(f, n - 1))
      BY <1>2, <3>1, StartsCounted
    <3>4. x <= y + 1
      BY <1>2, <2>2, <3>3, StartsCounted
    <3>5. busy + y < lanes
      BY <3>2, <3>3
    <3>6. busy + x <= lanes
      BY <3>4, <3>5
    <3>. QED  BY <3>3, <3>6
  <2>. QED  BY <1>2, <2>1, <2>2
<1>5. n = 0 \/ busy < lanes
  <2>1. CASE n > 0
    <3>1. 1 \in 1..n /\ 1 - 1 = 0
      BY <1>2, <2>1
    <3>2. busy + Cardinality(StartsOf(f, 0)) < lanes
      BY <1>3, <3>1
    <3>3. Cardinality(StartsOf(f, 0)) = 0
      BY StartsCounted
    <3>. QED  BY <3>2, <3>3
  <2>. QED  BY <1>2, <2>1
<1>. QED  BY <1>1, <1>3, <1>4, <1>5 DEF Filled

\* They become no more children than that.
LEMMA BeginningCounted ==
  ASSUME NEW c \in Call, NEW tasks \in Nat, NEW n \in Nat, NEW X, NEW f \in [1..n -> X]
  PROVE  Cardinality(Beginning(c, f, tasks)) <= Cardinality(StartsOf(f, n))
<1>. DEFINE B == Beginning(c, f, tasks)
            S == StartsOf(f, n)
            at == [k \in B |-> tasks - k[2] + 1]
<1>1. \A k \in B : k[1] = c /\ k[2] \in 1..MaxItems /\ k = <<k[1], k[2]>>
  BY DEF Beginning, ChildrenOf, Child
<1>2. at \in [B -> S]
  BY DEF Beginning, StartsOf
<1>3. \A x, y \in B : at[x] = at[y] => x = y
  <2>. SUFFICES ASSUME NEW x \in B, NEW y \in B, at[x] = at[y]
                PROVE  x = y
    OBVIOUS
  <2>1. x[2] \in Int /\ y[2] \in Int
    BY <1>1, SubAgentsAssumption
  <2>2. tasks - x[2] + 1 = tasks - y[2] + 1
    OBVIOUS
  <2>. HIDE DEF B
  <2>3. x[2] = y[2]
    BY ONLY <2>1, <2>2, tasks \in Nat
  <2>. QED  BY <1>1, <2>3
<1>4. IsFiniteSet(B) /\ Cardinality(B) \in Nat
  <2>1. B \in SUBSET Child
    BY DEF Beginning, ChildrenOf
  <2>. QED  BY <2>1, ChildrenFinite
<1>5. IsFiniteSet(S) /\ Cardinality(S) \in Nat
  BY StartsCounted
<1>. HIDE DEF B, S, at
<1>6. ~ (Cardinality(S) < Cardinality(B))
  BY <1>2, <1>3, <1>4, <1>5, FS_PigeonHole
<1>7. Cardinality(B) <= Cardinality(S)
  BY <1>4, <1>5, <1>6
<1>. QED  BY <1>7 DEF B, S

\* If a task starts a process there is a child of it.
LEMMA BeginningFound ==
  ASSUME NEW c \in Call, NEW tasks \in Nat, tasks = 0 \/ tasks \in Tasks(c),
         NEW n \in 0..tasks, NEW X, NEW f \in [1..n -> X], NEW i \in 1..n, f[i] \in Starts
  PROVE  Beginning(c, f, tasks) # {}
<1>. DEFINE k == <<c, tasks - i + 1>>
<1>1. tasks \in Tasks(c) /\ i \in 1..tasks
  OBVIOUS
<1>2. tasks - i + 1 \in 1..tasks /\ tasks - (tasks - i + 1) + 1 = i
  BY <1>1
<1>3. 1..tasks \subseteq Tasks(c) /\ Tasks(c) \subseteq 1..MaxItems
  BY <1>1, SubAgentsAssumption DEF Tasks
<1>4. k \in ChildrenOf({c})
  BY <1>2, <1>3 DEF Child, ChildrenOf
<1>5. k \in Beginning(c, f, tasks)
  BY <1>2, <1>4 DEF Beginning
<1>. QED  BY <1>5

-----------------------------------------------------------------------------
\* The children of c that the stages st have as active.
ActiveAt(st, c) == {k \in ChildrenOf({c}) : st[k] \in Unsettled}

\* The slots: the counter, the limit, and what a reservation is.
SlotsKept ==
  /\ activeChildren = SumFunctionOnSet(held, Call)
  /\ SumFunctionOnSet(held, Call) + SumFunctionOnSet(reserved, Call) <= MaxChildren
  /\ \A c \in Call : reserved[c] \in {0, Reservable(c)}

\* A call: it holds slots, is on record as active and has an active child as
\* long as it runs; once aborted it has nothing left to start, and no child that
\* did not hear of it; once cancelled it is no more on record as a success.
CallSound(c) ==
  /\ held[c] > 0 <=> call[c] = "running"
  /\ run[c] \in Active <=> call[c] = "running"
  /\ call[c] = "running" => ActiveAt(stage, c) # {}
  /\ Cardinality(ActiveAt(stage, c)) <= held[c]
  /\ call[c] = "idle" => left[c] = 0
  /\ c \in aborted => left[c] = 0 /\ \A k \in ChildrenOf({c}) : stage[k] # "running"
  /\ c \in accepted => c \in aborted /\ run[c] \notin {"none", "running", "completed"}

\* A child: it is signalled for a cause, and not settled while it is alive.
ChildSound(k) ==
  /\ stage[k] \in {"terming", "killing"} => cause[k] # "none"
  /\ stage[k] \in Over /\ os[k] = "alive" =>
       stage[k] # "settled" /\ handle[k] \in {"none", "unconfirmed"}

IInv ==
  /\ TypeOK
  /\ SlotsKept
  /\ \A c \in Call : CallSound(c)
  /\ \A k \in Child : ChildSound(k)

\* A set of active children has a size, a part of it no larger one.
LEMMA ActiveCounted ==
  ASSUME NEW st, NEW c
  PROVE  /\ IsFiniteSet(ActiveAt(st, c)) /\ Cardinality(ActiveAt(st, c)) \in Nat
         /\ Cardinality(ActiveAt(st, c)) = 0 <=> ActiveAt(st, c) = {}
         /\ \A A \in SUBSET ActiveAt(st, c) :
              IsFiniteSet(A) /\ Cardinality(A) \in Nat /\ Cardinality(A) <= Cardinality(ActiveAt(st, c))
<1>1. ActiveAt(st, c) \in SUBSET Child
  BY DEF ActiveAt, ChildrenOf
<1>2. IsFiniteSet(ActiveAt(st, c)) /\ Cardinality(ActiveAt(st, c)) \in Nat
  BY <1>1, ChildrenFinite
<1>3. \A A \in SUBSET ActiveAt(st, c) :
         IsFiniteSet(A) /\ Cardinality(A) \in Nat /\ Cardinality(A) <= Cardinality(ActiveAt(st, c))
  BY <1>2, FS_Subset, FS_CardinalityType
<1>. QED  BY <1>2, <1>3, FS_EmptySet

\* The number of slots held and reserved, and the functions summed.
LEMMA SumsTyped ==
  ASSUME TypeOK
  PROVE  /\ held \in [Call -> Nat] /\ reserved \in [Call -> Nat]
         /\ SumFunctionOnSet(held, Call) \in Nat /\ SumFunctionOnSet(reserved, Call) \in Nat
         /\ SumFunction(held) = SumFunctionOnSet(held, Call)
         /\ SumFunction(reserved) = SumFunctionOnSet(reserved, Call)
<1>1. held \in [Call -> Nat] /\ reserved \in [Call -> Nat]
  BY SubAgentsAssumption DEF TypeOK
<1>2. SumFunctionOnSet(held, Call) \in Nat /\ SumFunctionOnSet(reserved, Call) \in Nat
  BY <1>1, SubAgentsAssumption, SumLaws
<1>3. DOMAIN held = Call /\ DOMAIN reserved = Call
  BY <1>1
<1>. QED  BY <1>1, <1>2, <1>3 DEF SumFunction

\* The children do not count for more than the slots held for them.
LEMMA Occupied ==
  ASSUME IInv
  PROVE  /\ Cardinality(ActiveRuns) \in Nat
         /\ Cardinality(ActiveRuns) <= SumFunctionOnSet(held, Call)
         /\ OccupiedChildren = SumFunctionOnSet(held, Call)
         /\ ReservedChildren = SumFunctionOnSet(reserved, Call)
         /\ Available = MaxChildren - SumFunctionOnSet(held, Call) - SumFunctionOnSet(reserved, Call)
         /\ Available \in Nat /\ Available <= MaxChildren
<1>1. /\ held \in [Call -> Nat] /\ reserved \in [Call -> Nat]
      /\ SumFunctionOnSet(held, Call) \in Nat /\ SumFunctionOnSet(reserved, Call) \in Nat
      /\ SumFunction(reserved) = SumFunctionOnSet(reserved, Call)
  BY SumsTyped DEF IInv
<1>2. ActiveRuns \in SUBSET Child
  BY DEF ActiveRuns
<1>3. \A c \in Call : ActiveRuns \cap ChildrenOf({c}) = ActiveAt(stage, c)
  BY DEF ActiveRuns, ActiveAt, ChildrenOf
<1>4. \A c \in Call : Cardinality(ActiveRuns \cap ChildrenOf({c})) <= held[c]
  BY <1>3 DEF IInv, CallSound
<1>5. Cardinality(ActiveRuns) \in Nat
  BY <1>2, ChildrenFinite
<1>6. Cardinality(ActiveRuns) <= SumFunctionOnSet(held, Call)
  BY <1>1, <1>2, <1>4, ChildrenCounted
<1>7. PICK x \in Nat, y \in Nat, z \in Nat :
        /\ x = Cardinality(ActiveRuns)
        /\ y = SumFunctionOnSet(held, Call) /\ z = SumFunctionOnSet(reserved, Call)
  BY <1>1, <1>5
<1>8. activeChildren = y /\ y + z <= MaxChildren /\ x <= y
  BY <1>6, <1>7 DEF IInv, SlotsKept
<1>9. OccupiedChildren = y /\ ReservedChildren = z
  BY <1>1, <1>7, <1>8 DEF OccupiedChildren, ReservedChildren, LargerOf
<1>10. Available = MaxChildren - y - z /\ Available \in Nat /\ Available <= MaxChildren
  BY <1>8, <1>9, SubAgentsAssumption DEF Available, LargerOf
<1>. QED  BY <1>7, <1>8, <1>9, <1>10

\* What the inductive invariant says of the properties the runs check.
LEMMA Meaning ==
  ASSUME IInv
  PROVE  CapacityKept /\ LiveChildReported /\ CancelHolds
<1>1. SumFunction(held) = SumFunctionOnSet(held, Call)
  BY SumsTyped DEF IInv
<1>2. activeChildren = SumFunction(held)
  BY <1>1 DEF IInv, SlotsKept
<1>3. OccupiedChildren + ReservedChildren <= MaxChildren
  BY Occupied DEF IInv, SlotsKept
<1>4. \A c \in Call : ActiveRuns \cap ChildrenOf({c}) = ActiveAt(stage, c)
  BY DEF ActiveRuns, ActiveAt, ChildrenOf
<1>5. \A c \in Call : /\ held[c] > 0 <=> call[c] = "running"
                      /\ Cardinality(ActiveRuns \cap ChildrenOf({c})) <= held[c]
  BY <1>4 DEF IInv, CallSound
<1>6. LiveChildReported
  BY DEF IInv, ChildSound, LiveChildReported
<1>7. CancelHolds
  BY DEF IInv, CallSound, CancelHolds, TypeOK
<1>. QED  BY <1>2, <1>3, <1>5, <1>6, <1>7 DEF CapacityKept

\* In the beginning nothing is reserved, held or running.
LEMMA Initially == Init => IInv
<1>. SUFFICES ASSUME Init
              PROVE  IInv
  OBVIOUS
<1>1. TypeOK
  <2>1. MaxItems \in Nat \ {0} /\ MaxChildren \in Nat \ {0}
    BY SubAgentsAssumption
  <2>. QED  BY <2>1 DEF Init, TypeOK, Terminal, Active, Process, Stage, Cause, Handle
<1>2. SlotsKept
  <2>1. SumFunctionOnSet(held, Call) = 0 /\ SumFunctionOnSet(reserved, Call) = 0
    <3>1. held \in [Call -> Nat] /\ reserved \in [Call -> Nat]
          /\ (\A c \in Call : held[c] = 0) /\ (\A c \in Call : reserved[c] = 0)
      BY DEF Init
    <3>. QED  BY <3>1, SubAgentsAssumption, SumZero
  <2>. QED  BY <2>1, SubAgentsAssumption DEF SlotsKept, Init
<1>3. ASSUME NEW c \in Call
      PROVE  CallSound(c)
  <2>1. ActiveAt(stage, c) = {}
    BY DEF Init, ActiveAt, ChildrenOf, Unsettled
  <2>2. Cardinality(ActiveAt(stage, c)) = 0
    BY <2>1, ActiveCounted
  <2>. QED  BY <2>2 DEF Init, CallSound, Active
<1>4. ASSUME NEW k \in Child
      PROVE  ChildSound(k)
  BY DEF Init, ChildSound, Over
<1>. QED  BY <1>1, <1>2, <1>3, <1>4 DEF IInv

-----------------------------------------------------------------------------
\* The calls of cs that return when Finish finds no child of them active.
Back(cs) == {c \in cs : ActiveAt(stage', c) = {}}

\* Finish, call by call.
LEMMA FinishCalls ==
  ASSUME NEW cs \in SUBSET Call, NEW runs, NEW results, Finish(cs, runs, results)
  PROVE  /\ call' = [c \in Call |-> IF c \in Back(cs) THEN "returned" ELSE call[c]]
         /\ run' = [c \in Call |-> IF c \in Back(cs) THEN FinalState(c, results[c]) ELSE runs[c]]
         /\ result' = [c \in Call |-> IF c \in Back(cs) THEN "completed" ELSE results[c]]
         /\ held' = [c \in Call |-> IF c \in Back(cs) THEN 0 ELSE held[c]]
         /\ activeChildren' = LargerOf(0, activeChildren - SumFunctionOnSet(held, Back(cs)))
<1>1. {c \in cs : \A k \in ChildrenOf({c}) : stage'[k] \notin Unsettled} = Back(cs)
  BY DEF Back, ActiveAt
<1>. QED  BY <1>1 DEF Finish

\* The slots of the calls that return are given back, and the counter with them.
LEMMA FinishSlots ==
  ASSUME TypeOK, SlotsKept,
         NEW cs \in SUBSET Call, NEW runs, NEW results, Finish(cs, runs, results)
  PROVE  /\ held' \in [Call -> 0..MaxChildren]
         /\ activeChildren' = SumFunctionOnSet(held', Call)
         /\ activeChildren' \in 0..MaxChildren
         /\ SumFunctionOnSet(held', Call) \in Nat
         /\ SumFunctionOnSet(held', Call) <= SumFunctionOnSet(held, Call)
<1>1. /\ held' = [c \in Call |-> IF c \in Back(cs) THEN 0 ELSE held[c]]
      /\ activeChildren' = LargerOf(0, activeChildren - SumFunctionOnSet(held, Back(cs)))
  BY FinishCalls
<1>2. /\ held \in [Call -> Nat] /\ held' \in [Call -> 0..MaxChildren] /\ held' \in [Call -> Nat]
      /\ Back(cs) \in SUBSET Call
  BY <1>1, SubAgentsAssumption DEF TypeOK, Back
<1>3. \A c \in Call : held'[c] = IF c \in Back(cs) THEN 0 ELSE held[c]
  BY <1>1
<1>4. /\ SumFunctionOnSet(held', Call) = SumFunctionOnSet(held, Call) - SumFunctionOnSet(held, Back(cs))
      /\ SumFunctionOnSet(held, Back(cs)) <= SumFunctionOnSet(held, Call)
  <2>1. PICK h : h = held'
    OBVIOUS
  <2>2. h \in [Call -> Nat] /\ \A c \in Call : h[c] = IF c \in Back(cs) THEN 0 ELSE held[c]
    BY <1>2, <1>3, <2>1
  <2>3. /\ SumFunctionOnSet(h, Call) = SumFunctionOnSet(held, Call) - SumFunctionOnSet(held, Back(cs))
        /\ SumFunctionOnSet(held, Back(cs)) <= SumFunctionOnSet(held, Call)
    BY <1>2, <2>2, SubAgentsAssumption, SumCleared
  <2>. QED  BY <2>1, <2>3
<1>5. PICK x \in Nat, y \in Nat, r \in Nat :
        /\ x = SumFunctionOnSet(held, Call) /\ y = SumFunctionOnSet(held, Back(cs))
        /\ r = SumFunctionOnSet(reserved, Call)
  BY <1>2, SumsTyped, SubAgentsAssumption, SumLaws
<1>6. activeChildren = x /\ x + r <= MaxChildren /\ y <= x /\ MaxChildren \in Nat
  BY <1>4, <1>5, SubAgentsAssumption DEF SlotsKept
<1>7. activeChildren' = x - y /\ x - y \in Nat /\ x - y <= x /\ x - y <= MaxChildren
  BY <1>1, <1>5, <1>6 DEF LargerOf
<1>. QED  BY <1>2, <1>4, <1>5, <1>6, <1>7

\* A call of cs afterwards: it has returned, or still has an active child.
LEMMA FinishedCall ==
  ASSUME IInv, NEW cs \in SUBSET Call, NEW runs, NEW results, Finish(cs, runs, results),
         NEW c \in cs, call[c] = "running", runs[c] \in Active, results[c] \in Terminal,
         Cardinality(ActiveAt(stage', c)) <= held[c],
         c \in aborted' => left'[c] = 0 /\ \A k \in ChildrenOf({c}) : stage'[k] # "running",
         c \in accepted' =>
           /\ c \in aborted' /\ runs[c] # "running"
           /\ ActiveAt(stage', c) = {} => results[c] # "completed"
  PROVE  CallSound(c)'
<1>1. /\ call'[c] = IF c \in Back(cs) THEN "returned" ELSE call[c]
      /\ run'[c] = IF c \in Back(cs) THEN FinalState(c, results[c]) ELSE runs[c]
      /\ held'[c] = IF c \in Back(cs) THEN 0 ELSE held[c]
  BY FinishCalls
<1>2. held[c] > 0 /\ held[c] \in Nat
  BY SumsTyped DEF IInv, CallSound
<1>3. Cardinality(ActiveAt(stage', c)) = 0 <=> ActiveAt(stage', c) = {}
  BY ActiveCounted
<1>4. CASE ActiveAt(stage', c) = {}
  <2>1. c \in Back(cs)
    BY <1>4 DEF Back
  <2>2. call'[c] = "returned" /\ held'[c] = 0 /\ run'[c] = FinalState(c, results[c])
    BY <1>1, <2>1
  <2>3. run'[c] \in Terminal /\ (results[c] # "completed" => run'[c] # "completed")
    BY <2>2 DEF FinalState, Terminal
  <2>4. Cardinality(ActiveAt(stage', c)) = 0
    BY <1>3, <1>4
  <2>5. c \in accepted' => c \in aborted' /\ run'[c] \notin {"none", "running", "completed"}
    BY <1>4, <2>3 DEF Terminal
  <2>6. run'[c] \notin Active
    BY <2>3 DEF Terminal, Active
  <2>. QED  BY <2>2, <2>4, <2>5, <2>6 DEF CallSound
<1>5. CASE ActiveAt(stage', c) # {}
  <2>1. c \notin Back(cs)
    BY <1>5 DEF Back
  <2>2. call'[c] = "running" /\ held'[c] = held[c] /\ run'[c] = runs[c]
    BY <1>1, <2>1
  <2>3. c \in accepted' => c \in aborted' /\ run'[c] \notin {"none", "running", "completed"}
    BY <2>2 DEF Active
  <2>. QED  BY <1>2, <1>5, <2>2, <2>3 DEF CallSound
<1>. QED  BY <1>4, <1>5

\* A call that a step does not touch.
LEMMA CallUntouched ==
  ASSUME NEW c \in Call, CallSound(c),
         held'[c] = held[c], call'[c] = call[c], run'[c] = run[c], left'[c] = left[c],
         \A k \in ChildrenOf({c}) : stage'[k] = stage[k],
         c \in aborted' <=> c \in aborted, c \in accepted' <=> c \in accepted
  PROVE  CallSound(c)'
<1>1. ActiveAt(stage', c) = ActiveAt(stage, c)
  BY DEF ActiveAt
<1>2. ActiveAt(stage, c)' = ActiveAt(stage', c)
  BY DEF ActiveAt
<1>. QED  BY <1>1, <1>2 DEF CallSound

\* A child that a step does not touch.
LEMMA ChildUntouched ==
  ASSUME NEW k \in Child, ChildSound(k), stage'[k] = stage[k], os'[k] = os[k],
         cause'[k] = cause[k], handle'[k] = handle[k]
  PROVE  ChildSound(k)'
BY DEF ChildSound

-----------------------------------------------------------------------------
\* The steps that change reservations only, and the calls that never begin.

\* A reservation that changes changes the sum by as much.
LEMMA ReservedChanged ==
  ASSUME TypeOK, NEW c \in Call, NEW n \in 0..2, reserved' = [reserved EXCEPT ![c] = n]
  PROVE  /\ reserved' \in [Call -> 0..2]
         /\ SumFunctionOnSet(reserved', Call) = SumFunctionOnSet(reserved, Call) - reserved[c] + n
<1>1. PICK h : h = reserved'
  OBVIOUS
<1>2. h \in [Call -> 0..2] /\ h \in [Call -> Nat] /\ h[c] = n /\ \A d \in Call \ {c} : h[d] = reserved[d]
  BY <1>1 DEF TypeOK
<1>3. reserved \in [Call -> Nat]
  BY SumsTyped
<1>4. SumFunctionOnSet(h, Call) = SumFunctionOnSet(reserved, Call) - reserved[c] + h[c]
  <2>1. IsFiniteSet(Call)
    BY SubAgentsAssumption
  <2>. QED  BY ONLY <1>2, <1>3, <2>1, c \in Call, SumChanged
<1>. QED  BY <1>1, <1>2, <1>4

\* A reservation that is taken back leaves more room.
LEMMA ReservationDropped ==
  ASSUME TypeOK, SlotsKept, NEW c \in Call, reserved' = [reserved EXCEPT ![c] = 0],
         UNCHANGED <<held, activeChildren>>
  PROVE  SlotsKept' /\ reserved' \in [Call -> 0..2]
<1>1. /\ reserved' \in [Call -> 0..2]
      /\ SumFunctionOnSet(reserved', Call) = SumFunctionOnSet(reserved, Call) - reserved[c] + 0
  <2>1. 0 \in 0..2
    OBVIOUS
  <2>. QED  BY ONLY <2>1, TypeOK, c \in Call, reserved' = [reserved EXCEPT ![c] = 0], ReservedChanged
<1>2. PICK x \in Nat, r \in Nat, m \in Nat :
        x = SumFunctionOnSet(held, Call) /\ r = SumFunctionOnSet(reserved, Call) /\ m = reserved[c]
  BY SumsTyped
<1>3. x + r <= MaxChildren /\ MaxChildren \in Nat
  BY <1>2, SubAgentsAssumption DEF SlotsKept
<1>4. x + (r - m + 0) <= MaxChildren
  BY <1>3
<1>5. SumFunctionOnSet(held', Call) + SumFunctionOnSet(reserved', Call) <= MaxChildren
  BY <1>1, <1>2, <1>4
<1>6. \A d \in Call : reserved'[d] \in {0, Reservable(d)}
  BY DEF SlotsKept, TypeOK
<1>. QED  BY <1>1, <1>5, <1>6 DEF SlotsKept

\* A call reserves slots for all its branches at once, or none.
LEMMA TryReserveKeeps ==
  ASSUME IInv, NEW c \in Call, TryReserve(c)
  PROVE  IInv'
<1>. USE DEF IInv, TryReserve, calls, children
<1>1. Reservable(c) \in 0..2
  BY DEF Reservable
<1>2. /\ reserved' \in [Call -> 0..2]
      /\ SumFunctionOnSet(reserved', Call) = SumFunctionOnSet(reserved, Call) - reserved[c] + Reservable(c)
  BY <1>1, ReservedChanged
<1>3. SlotsKept'
  <2>1. PICK x \in Nat, r \in Nat, n \in Nat :
          x = SumFunctionOnSet(held, Call) /\ r = SumFunctionOnSet(reserved, Call) /\ n = Reservable(c)
    BY <1>1, SumsTyped
  <2>2. Available = MaxChildren - x - r /\ n <= Available /\ MaxChildren \in Nat
    BY <2>1, Occupied, SubAgentsAssumption
  <2>3. x + (r - 0 + n) <= MaxChildren
    BY <2>2
  <2>4. SumFunctionOnSet(held', Call) + SumFunctionOnSet(reserved', Call) <= MaxChildren
    BY <1>2, <2>1, <2>3
  <2>5. \A d \in Call : reserved'[d] \in {0, Reservable(d)}
    BY DEF SlotsKept, TypeOK
  <2>. QED  BY <2>4, <2>5 DEF SlotsKept
<1>4. TypeOK'
  BY <1>2 DEF TypeOK
<1>5. \A d \in Call : CallSound(d)'
  BY CallUntouched
<1>6. \A k \in Child : ChildSound(k)'
  BY ChildUntouched
<1>. QED  BY <1>3, <1>4, <1>5, <1>6

\* A reservation is given back before any child was begun.
LEMMA ReleaseKeeps ==
  ASSUME IInv, NEW c \in Call, ReleaseReservation(c)
  PROVE  IInv'
<1>. USE DEF IInv, ReleaseReservation, calls, children
<1>1. SlotsKept' /\ reserved' \in [Call -> 0..2]
  BY ReservationDropped
<1>2. TypeOK'
  BY <1>1 DEF TypeOK
<1>3. \A d \in Call : CallSound(d)'
  BY CallUntouched
<1>4. \A k \in Child : ChildSound(k)'
  BY ChildUntouched
<1>. QED  BY <1>1, <1>2, <1>3, <1>4

\* An idle call that returns has held nothing and left nothing.
LEMMA NeverBegun ==
  ASSUME IInv, NEW c \in Call, call[c] = "idle", call' = [call EXCEPT ![c] = "returned"],
         UNCHANGED <<held, left, aborted, run, accepted, stage>>
  PROVE  \A d \in Call : CallSound(d)'
<1>1. ASSUME NEW d \in Call, d # c
      PROVE  CallSound(d)'
  <2>1. call'[d] = call[d]
    BY <1>1 DEF IInv, TypeOK
  <2>. QED  BY <2>1, CallUntouched DEF IInv
<1>2. CallSound(c)'
  <2>1. CallSound(c) /\ call'[c] = "returned"
    BY DEF IInv, TypeOK
  <2>. QED  BY <2>1 DEF CallSound, ActiveAt
<1>. QED  BY <1>1, <1>2

\* A call that gets no slot returns and uses up its reservation.
LEMMA RefuseKeeps ==
  ASSUME IInv, NEW c \in Call, Refuse(c)
  PROVE  IInv'
<1>. USE DEF IInv, Refuse, children
<1>1. SlotsKept' /\ reserved' \in [Call -> 0..2]
  BY ReservationDropped
<1>2. TypeOK'
  BY <1>1 DEF TypeOK
<1>3. \A d \in Call : CallSound(d)'
  BY NeverBegun
<1>4. \A k \in Child : ChildSound(k)'
  BY ChildUntouched
<1>. QED  BY <1>1, <1>2, <1>3, <1>4

\* A call that is refused before its begin: the reservation stays.
LEMMA RejectKeeps ==
  ASSUME IInv, NEW c \in Call, Reject(c)
  PROVE  IInv'
<1>. USE DEF IInv, Reject, slots, children
<1>1. SlotsKept' /\ TypeOK'
  BY DEF SlotsKept, TypeOK
<1>2. \A d \in Call : CallSound(d)'
  BY NeverBegun
<1>3. \A k \in Child : ChildSound(k)'
  BY ChildUntouched
<1>. QED  BY <1>1, <1>2, <1>3

-----------------------------------------------------------------------------
\* Begin, child by child: what the children of c that begin are, and that the
\* others are as in seen, at, why and owned.
BegunAs(c, f, tasks, seen, at, why, owned) ==
  /\ os' \in [Child -> Process] /\ stage' \in [Child -> Stage]
  /\ cause' \in [Child -> Cause] /\ handle' \in [Child -> Handle]
  /\ \A k \in Beginning(c, f, tasks) : k \in ChildrenOf({c}) /\ stage'[k] = "running"
  /\ \A k \in Child \ Beginning(c, f, tasks) :
       /\ os'[k] = seen[k] /\ stage'[k] = at[k]
       /\ cause'[k] = why[k] /\ handle'[k] = owned[k]

\* What beginning a call makes of its children.
LEMMA BegunChildren ==
  ASSUME NEW c \in Call, NEW f, NEW tasks, NEW seen \in [Child -> Process],
         NEW at \in [Child -> Stage], NEW why \in [Child -> Cause],
         NEW owned \in [Child -> Handle], Begin(c, f, tasks, seen, at, why, owned)
  PROVE  BegunAs(c, f, tasks, seen, at, why, owned)
<1>. DEFINE How(k) == f[tasks - k[2] + 1]
            B == Beginning(c, f, tasks)
<1>1. /\ os' = [k \in Child |-> IF k \in B THEN IF How(k) = "nopid" THEN "failed" ELSE "alive" ELSE seen[k]]
      /\ stage' = [k \in Child |-> IF k \in B THEN "running" ELSE at[k]]
      /\ cause' = [k \in Child |-> IF k \in B THEN "none" ELSE why[k]]
      /\ handle' = [k \in Child |-> IF k \in B
             THEN IF How(k) = "nopid" \/ c \in Unread THEN "none" ELSE "active" ELSE owned[k]]
  BY DEF Begin, Beginning
<1>2. B \subseteq ChildrenOf({c}) /\ B \subseteq Child
  BY DEF Beginning, ChildrenOf
<1>. HIDE DEF B, How
<1>3. os' \in [Child -> Process]
  <2>1. {"failed", "alive"} \subseteq Process
    BY DEF Process
  <2>. QED  BY <1>1, <2>1
<1>4. stage' \in [Child -> Stage]
  <2>1. "running" \in Stage
    BY DEF Stage, Unsettled
  <2>. QED  BY <1>1, <2>1
<1>5. cause' \in [Child -> Cause]
  <2>1. "none" \in Cause
    BY DEF Cause
  <2>. QED  BY <1>1, <2>1
<1>6. handle' \in [Child -> Handle]
  <2>1. {"none", "active"} \subseteq Handle
    BY DEF Handle
  <2>. QED  BY <1>1, <2>1
<1>7. \A k \in B : k \in ChildrenOf({c}) /\ stage'[k] = "running"
  BY <1>1, <1>2
<1>8. \A k \in Child \ B : /\ os'[k] = seen[k] /\ stage'[k] = at[k]
                           /\ cause'[k] = why[k] /\ handle'[k] = owned[k]
  BY <1>1
<1>. QED  BY <1>3, <1>4, <1>5, <1>6, <1>7, <1>8 DEF B, BegunAs

\* The active children of c after it began some: those it had, and no more of
\* them than processes were started.
LEMMA BegunActive ==
  ASSUME NEW c \in Call, NEW tasks \in Nat, NEW n \in Nat, NEW X, NEW f \in [1..n -> X],
         NEW st, NEW at,
         \A k \in Beginning(c, f, tasks) : k \in ChildrenOf({c}) /\ st[k] = "running",
         \A k \in Child \ Beginning(c, f, tasks) : st[k] = at[k]
  PROVE  /\ Beginning(c, f, tasks) \subseteq ActiveAt(st, c)
         /\ Cardinality(ActiveAt(st, c)) <= Cardinality(ActiveAt(at, c)) + Cardinality(StartsOf(f, n))
<1>. DEFINE B == Beginning(c, f, tasks)
            A == ActiveAt(at, c)
<1>1. Cardinality(B) <= Cardinality(StartsOf(f, n))
  BY BeginningCounted
<1>2. B \subseteq ActiveAt(st, c)
  BY DEF ActiveAt, Unsettled
<1>3. ActiveAt(st, c) \subseteq A \cup B
  BY DEF ActiveAt, ChildrenOf
<1>4. IsFiniteSet(A) /\ Cardinality(A) \in Nat /\ Cardinality(ActiveAt(st, c)) \in Nat
  BY ActiveCounted
<1>5. IsFiniteSet(B) /\ Cardinality(B) \in Nat
  BY <1>2, ActiveCounted
<1>6. Cardinality(StartsOf(f, n)) \in Nat
  BY StartsCounted
<1>. HIDE DEF A, B
<1>7. IsFiniteSet(A \cup B) /\ Cardinality(A \cup B) = Cardinality(A) + Cardinality(B) - Cardinality(A \cap B)
  BY ONLY <1>4, <1>5, FS_Union
<1>8. Cardinality(A \cap B) \in Nat
  <2>1. IsFiniteSet(A \cap B)
    BY ONLY <1>4, FS_Intersection
  <2>. QED  BY <2>1, FS_CardinalityType
<1>9. Cardinality(A \cup B) \in Nat /\ Cardinality(ActiveAt(st, c)) <= Cardinality(A \cup B)
  BY ONLY <1>3, <1>7, FS_Subset, FS_CardinalityType
<1>10. PICK a \in Nat, b \in Nat, i \in Nat, u \in Nat, s \in Nat, w \in Nat :
         /\ a = Cardinality(A) /\ b = Cardinality(B) /\ i = Cardinality(A \cap B)
         /\ u = Cardinality(A \cup B) /\ s = Cardinality(ActiveAt(st, c))
         /\ w = Cardinality(StartsOf(f, n))
  BY <1>4, <1>5, <1>6, <1>8, <1>9
<1>11. u = a + b - i /\ s <= u /\ b <= w
  BY <1>1, <1>7, <1>9, <1>10 DEF B
<1>12. s <= a + w
  BY <1>11
<1>. QED  BY <1>2, <1>10, <1>12 DEF A, B

\* The worst of some results is a result, and no success unless all are.
LEMMA WorstIs ==
  ASSUME NEW R
  PROVE  /\ Worst(R) \in Terminal
         /\ R \cap {"cancelled", "failed"} # {} => Worst(R) # "completed"
BY DEF Worst, Terminal

-----------------------------------------------------------------------------
\* Stages and processes that the end of a child or a signal to it lead to.
Outcome == {<<"settled", "failed">>, <<"settled", "gone">>, <<"settled", "closed">>,
            <<"unknown", "alive">>, <<"terming", "alive">>, <<"killing", "alive">>}

\* What a signal finds is one of them.
LEMMA SignalledOutcome ==
  ASSUME NEW k, NEW next \in {"terming", "killing"}, NEW found \in Signalled(k, next)
  PROVE  found \in Outcome
BY DEF Signalled, Outcome

\* What an outcome leaves of a child.
LEMMA OutcomeFacts ==
  ASSUME NEW found \in Outcome
  PROVE  /\ found[1] \in Stage \ {"none", "running"} /\ found[2] \in Process
         /\ found[1] \in Over <=> found[1] \notin Unsettled
         /\ found[1] \in Over => found[1] \in {"settled", "unknown"}
         /\ found[2] = "alive" => found[1] # "settled"
BY DEF Outcome, Stage, Process, Over, Unsettled

\* The handle of a child that is not settled, or is settled as unknown.
LEMMA HandleFacts ==
  ASSUME NEW h \in Handle, NEW s
  PROVE  /\ HandleAt(h, s) \in Handle
         /\ s \in {"unknown", "detached"} => HandleAt(h, s) \in {"none", "unconfirmed"}
<1>1. CASE h = "none"
  BY <1>1 DEF HandleAt, Handle
<1>2. CASE h # "none"
  <2>1. CASE s \in {"unknown", "detached"}
    <3>1. HandleAt(h, s) = "unconfirmed"
      BY <1>2, <2>1 DEF HandleAt
    <3>. QED  BY <3>1 DEF Handle
  <2>2. CASE s = "settled"
    <3>1. HandleAt(h, s) = "released"
      BY <1>2, <2>2 DEF HandleAt
    <3>. QED  BY <2>2, <3>1 DEF Handle
  <2>3. CASE s \notin {"unknown", "detached", "settled"}
    <3>1. HandleAt(h, s) = "settling"
      BY <1>2, <2>3 DEF HandleAt
    <3>. QED  BY <2>3, <3>1 DEF Handle
  <2>. QED  BY <2>1, <2>2, <2>3
<1>. QED  BY <1>1, <1>2

-----------------------------------------------------------------------------
\* An active child belongs to a call that runs.
LEMMA ActiveChild ==
  ASSUME IInv, NEW k \in Child, stage[k] \in Unsettled
  PROVE  /\ k[1] \in Call /\ k \in ChildrenOf({k[1]})
         /\ call[k[1]] = "running" /\ run[k[1]] \in Active
<1>1. k[1] \in Call /\ k \in ChildrenOf({k[1]})
  BY DEF Child, ChildrenOf
<1>2. ActiveAt(stage, k[1]) # {}
  BY <1>1 DEF ActiveAt
<1>3. Cardinality(ActiveAt(stage, k[1])) \in Nat /\ Cardinality(ActiveAt(stage, k[1])) # 0
  BY <1>2, ActiveCounted
<1>4. CallSound(k[1]) /\ held[k[1]] \in Nat
  BY <1>1, SumsTyped DEF IInv
<1>. QED  BY <1>1, <1>3, <1>4 DEF CallSound

\* A step that goes through Finish keeps the slots.
LEMMA FinishKeepsSlots ==
  ASSUME IInv, NEW cs \in SUBSET Call, NEW runs, NEW results, Finish(cs, runs, results),
         UNCHANGED reserved \/ reserved' = [c \in Call |-> 0]
  PROVE  SlotsKept' /\ reserved' \in [Call -> 0..2]
<1>. USE DEF IInv
<1>1. /\ activeChildren' = SumFunctionOnSet(held', Call)
      /\ SumFunctionOnSet(held', Call) \in Nat
      /\ SumFunctionOnSet(held', Call) <= SumFunctionOnSet(held, Call)
  BY FinishSlots
<1>2. /\ SumFunctionOnSet(reserved', Call) \in Nat
      /\ SumFunctionOnSet(reserved', Call) <= SumFunctionOnSet(reserved, Call)
  <2>1. CASE UNCHANGED reserved
    BY <2>1, SumsTyped
  <2>2. CASE reserved' = [c \in Call |-> 0]
    <3>1. PICK z : z = [c \in Call |-> 0]
      OBVIOUS
    <3>2. z \in [Call -> Nat] /\ \A c \in Call : z[c] = 0
      BY <3>1
    <3>3. SumFunctionOnSet(z, Call) = 0
      BY <3>2, SubAgentsAssumption, SumZero
    <3>4. SumFunctionOnSet(reserved', Call) = 0
      BY <2>2, <3>1, <3>3
    <3>. QED  BY <3>4, SumsTyped
  <2>. QED  BY <2>1, <2>2
<1>3. PICK x \in Nat, y \in Nat, r \in Nat, q \in Nat :
        /\ x = SumFunctionOnSet(held, Call) /\ y = SumFunctionOnSet(held', Call)
        /\ r = SumFunctionOnSet(reserved, Call) /\ q = SumFunctionOnSet(reserved', Call)
  BY <1>1, <1>2, SumsTyped
<1>4. x + r <= MaxChildren /\ y <= x /\ q <= r /\ MaxChildren \in Nat
  BY <1>1, <1>2, <1>3, SubAgentsAssumption DEF SlotsKept
<1>5. y + q <= MaxChildren
  BY <1>4
<1>6. \A c \in Call : reserved'[c] \in {0, Reservable(c)}
  BY DEF SlotsKept, TypeOK
<1>7. reserved' \in [Call -> 0..2]
  BY DEF TypeOK
<1>. QED  BY <1>1, <1>3, <1>5, <1>6, <1>7 DEF SlotsKept

\* And the types of what it sets.
LEMMA FinishTyped ==
  ASSUME IInv, NEW cs \in SUBSET Call, NEW runs \in [Call -> {"none"} \cup Active \cup Terminal],
         NEW results \in [Call -> Terminal], Finish(cs, runs, results)
  PROVE  /\ call' \in [Call -> {"idle", "running", "returned"}]
         /\ run' \in [Call -> {"none"} \cup Active \cup Terminal]
         /\ result' \in [Call -> Terminal]
         /\ held' \in [Call -> 0..MaxChildren] /\ activeChildren' \in 0..MaxChildren
<1>1. /\ call' = [c \in Call |-> IF c \in Back(cs) THEN "returned" ELSE call[c]]
      /\ run' = [c \in Call |-> IF c \in Back(cs) THEN FinalState(c, results[c]) ELSE runs[c]]
      /\ result' = [c \in Call |-> IF c \in Back(cs) THEN "completed" ELSE results[c]]
  BY FinishCalls
<1>2. \A c \in Call : FinalState(c, results[c]) \in Terminal
  BY DEF FinalState, Terminal
<1>3. "completed" \in Terminal
  BY DEF Terminal
<1>4. held' \in [Call -> 0..MaxChildren] /\ activeChildren' \in 0..MaxChildren
  BY FinishSlots DEF IInv
<1>5. call \in [Call -> {"idle", "running", "returned"}]
  BY DEF IInv, TypeOK
<1>. QED  BY <1>1, <1>2, <1>3, <1>4, <1>5

\* A call that Finish is not about keeps what it has.
LEMMA FinishOthers ==
  ASSUME IInv, NEW cs \in SUBSET Call, NEW runs, NEW results, Finish(cs, runs, results),
         NEW c \in Call \ cs, runs[c] = run[c]
  PROVE  held'[c] = held[c] /\ call'[c] = call[c] /\ run'[c] = run[c]
<1>1. c \notin Back(cs)
  BY DEF Back
<1>. QED  BY <1>1, FinishCalls

\* The shutdown stays in its phases.
LEMMA DrainTyped ==
  ASSUME NEW phase \in {"open", "draining", "closed"}, Drain(phase)
  PROVE  shutdown' \in {"open", "draining", "closed"}
BY DEF Drain

\* A child that hears a signal, and whose run goes on.
LEMMA MoveStays ==
  ASSUME IInv, NEW k \in Child, stage[k] \in Unsettled, NEW found \in Outcome,
         NEW why \in Cause, why # "none", found[1] \notin Over, Move(k, found, why)
  PROVE  IInv'
<1>. DEFINE c == k[1]
<1>. USE DEF IInv
<1>1. c \in Call /\ k \in ChildrenOf({c}) /\ call[c] = "running" /\ run[c] \in Active
  BY ActiveChild
<1>2. /\ os' = [os EXCEPT ![k] = found[2]] /\ stage' = [stage EXCEPT ![k] = found[1]]
      /\ cause' = [cause EXCEPT ![k] = why] /\ handle' = [handle EXCEPT ![k] = HandleAt(@, found[1])]
      /\ UNCHANGED <<left, reserved, aborted, accepted>>
      /\ Finish({c}, run, result)
      /\ Drain(shutdown)
  BY DEF Move
<1>3. {c} \in SUBSET Call
  BY <1>1
<1>4. found[1] \in Stage \ {"none", "running"} /\ found[2] \in Process /\ found[1] \in Unsettled
  BY OutcomeFacts
<1>5. SlotsKept' /\ reserved' \in [Call -> 0..2]
  BY <1>2, <1>3, FinishKeepsSlots
<1>6. TypeOK'
  <2>1. /\ call' \in [Call -> {"idle", "running", "returned"}]
        /\ run' \in [Call -> {"none"} \cup Active \cup Terminal]
        /\ result' \in [Call -> Terminal]
        /\ held' \in [Call -> 0..MaxChildren] /\ activeChildren' \in 0..MaxChildren
    <3>1. run \in [Call -> {"none"} \cup Active \cup Terminal] /\ result \in [Call -> Terminal]
      BY DEF TypeOK
    <3>. QED  BY <1>2, <1>3, <3>1, FinishTyped
  <2>2. shutdown' \in {"open", "draining", "closed"}
    BY <1>2, DrainTyped DEF TypeOK
  <2>3. handle' \in [Child -> Handle]
    <3>1. handle \in [Child -> Handle]
      BY DEF TypeOK
    <3>2. HandleAt(handle[k], found[1]) \in Handle
      BY <3>1, HandleFacts
    <3>. QED  BY <1>2, <3>1, <3>2
  <2>4. os' \in [Child -> Process] /\ stage' \in [Child -> Stage] /\ cause' \in [Child -> Cause]
    BY <1>2, <1>4 DEF TypeOK
  <2>. QED  BY <1>2, <1>5, <2>1, <2>2, <2>3, <2>4 DEF TypeOK
<1>7. stage'[k] = found[1] /\ \A j \in Child \ {k} : stage'[j] = stage[j]
  BY <1>2 DEF TypeOK
<1>8. CallSound(c)'
  <2>1. ActiveAt(stage', c) = ActiveAt(stage, c) /\ ActiveAt(stage, c) # {}
    BY <1>1, <1>4, <1>7 DEF ActiveAt, ChildrenOf
  <2>2. CallSound(c)
    BY <1>1
  <2>3. Cardinality(ActiveAt(stage', c)) <= held[c]
    BY <2>1, <2>2 DEF CallSound
  <2>4. c \in aborted' => left'[c] = 0 /\ \A j \in ChildrenOf({c}) : stage'[j] # "running"
    BY <1>2, <1>4, <1>7, <2>2 DEF CallSound, ChildrenOf
  <2>5. c \in accepted' => c \in aborted' /\ run[c] # "running"
    BY <1>2, <2>2 DEF CallSound
  <2>6. result[c] \in Terminal /\ c \in {c}
    BY <1>1 DEF TypeOK
  <2>7. Finish({c}, run, result)
    BY <1>2
  <2>. QED  BY <1>1, <1>3, <2>1, <2>3, <2>4, <2>5, <2>6, <2>7, FinishedCall
<1>9. ASSUME NEW d \in Call, d # c
      PROVE  CallSound(d)'
  <2>1. held'[d] = held[d] /\ call'[d] = call[d] /\ run'[d] = run[d]
    <3>1. Finish({c}, run, result) /\ d \in Call \ {c} /\ run[d] = run[d]
      BY <1>2, <1>9
    <3>. QED  BY <1>3, <3>1, FinishOthers
  <2>2. \A j \in ChildrenOf({d}) : stage'[j] = stage[j]
    BY <1>7, <1>9 DEF ChildrenOf
  <2>. QED  BY <1>2, <2>1, <2>2, CallUntouched
<1>10. ASSUME NEW j \in Child
       PROVE  ChildSound(j)'
  <2>1. CASE j = k
    BY <1>2, <1>4, <2>1, OutcomeFacts DEF ChildSound, TypeOK
  <2>2. CASE j # k
    BY <1>2, <2>2, ChildUntouched DEF TypeOK
  <2>. QED  BY <2>1, <2>2
<1>. QED  BY <1>5, <1>6, <1>8, <1>9, <1>10

\* A child whose run is over, and the tasks its lane goes on with.
LEMMA MoveEnds ==
  ASSUME IInv, NEW k \in Child, stage[k] \in Unsettled, NEW found \in Outcome,
         NEW why \in Cause, k[1] \in accepted => why # "none",
         found[1] \in Over, Move(k, found, why)
  PROVE  IInv'
<1>. DEFINE c == k[1]
            others == ActiveRuns \ {k}
            busy == Cardinality(others \cap ChildrenOf({c}))
            seen == [os EXCEPT ![k] = found[2]]
            at == [stage EXCEPT ![k] = found[1]]
            causes == [cause EXCEPT ![k] = "none"]
            owned == [handle EXCEPT ![k] = HandleAt(@, found[1])]
<1>. USE DEF IInv
<1>1. c \in Call /\ k \in ChildrenOf({c}) /\ call[c] = "running" /\ run[c] \in Active
  BY ActiveChild
<1>2. PICK f \in Fills(c, left[c], busy, Cardinality(others), held[c]) :
        /\ Begin(c, f, left[c], seen, at, causes, owned)
        /\ left' = [left EXCEPT ![c] = @ - Cardinality(DOMAIN f)]
        /\ Finish({c}, run, [result EXCEPT ![c] = Worst({@, ResultOf(why)} \cup ResultsOf(f))])
        /\ UNCHANGED <<reserved, aborted, accepted>>
        /\ Drain(shutdown)
  BY DEF Move
<1>. DEFINE worst == Worst({result[c], ResultOf(why)} \cup ResultsOf(f))
            results == [result EXCEPT ![c] = worst]
            B == Beginning(c, f, left[c])
<1>3. {c} \in SUBSET Call
  BY <1>1
<1>4. /\ found[1] \in Stage \ {"none", "running"} /\ found[2] \in Process /\ found[1] \notin Unsettled
      /\ found[1] \in {"settled", "unknown"} /\ (found[2] = "alive" => found[1] # "settled")
  BY OutcomeFacts
<1>5. results \in [Call -> Terminal] /\ results[c] = worst
      /\ (why # "none" => results[c] # "completed") /\ Finish({c}, run, results)
  <2>1. worst \in Terminal /\ (ResultOf(why) # "completed" => worst # "completed")
    <3>1. ResultOf(why) \in {"completed", "cancelled", "failed"}
      BY DEF ResultOf, Cause
    <3>. QED  BY <3>1, WorstIs
  <2>2. why # "none" => ResultOf(why) # "completed"
    BY DEF ResultOf, Cause
  <2>3. result \in [Call -> Terminal]
    BY DEF TypeOK
  <2>. HIDE DEF worst
  <2>4. results \in [Call -> Terminal] /\ results[c] = worst
    BY <1>1, <2>1, <2>3
  <2>. QED  BY <1>2, <2>1, <2>2, <2>4 DEF worst
<1>6. /\ seen \in [Child -> Process] /\ at \in [Child -> Stage]
      /\ causes \in [Child -> Cause] /\ owned \in [Child -> Handle]
  <2>1. handle \in [Child -> Handle] /\ HandleAt(handle[k], found[1]) \in Handle
    BY HandleFacts DEF TypeOK
  <2>2. "none" \in Cause
    BY DEF Cause
  <2>. QED  BY <1>4, <2>1, <2>2 DEF TypeOK
<1>7. /\ at[k] = found[1] /\ \A j \in Child \ {k} : at[j] = stage[j]
      /\ seen[k] = found[2] /\ \A j \in Child \ {k} : seen[j] = os[j]
      /\ causes[k] = "none" /\ \A j \in Child \ {k} : causes[j] = cause[j]
      /\ owned[k] = HandleAt(handle[k], found[1]) /\ \A j \in Child \ {k} : owned[j] = handle[j]
  BY DEF TypeOK
<1>8. /\ os' \in [Child -> Process] /\ stage' \in [Child -> Stage]
      /\ cause' \in [Child -> Cause] /\ handle' \in [Child -> Handle]
      /\ \A j \in B : j \in ChildrenOf({c}) /\ stage'[j] = "running"
      /\ \A j \in Child \ B : /\ os'[j] = seen[j] /\ stage'[j] = at[j]
                              /\ cause'[j] = causes[j] /\ handle'[j] = owned[j]
  <2>1. Begin(c, f, left[c], seen, at, causes, owned)
    BY <1>2
  <2>2. PICK t, s, a, w, o : t = left[c] /\ s = seen /\ a = at /\ w = causes /\ o = owned
    OBVIOUS
  <2>3. Begin(c, f, t, s, a, w, o) /\ c \in Call
    BY <1>1, <2>1, <2>2
  <2>. HIDE DEF seen, at, causes, owned, c, B
  <2>4. s \in [Child -> Process] /\ a \in [Child -> Stage] /\ w \in [Child -> Cause] /\ o \in [Child -> Handle]
    BY <1>6, <2>2
  <2>5. BegunAs(c, f, t, s, a, w, o)
    BY ONLY <2>3, <2>4, BegunChildren
  <2>6. B = Beginning(c, f, t)
    BY <2>2 DEF B
  <2>. QED  BY <2>2, <2>5, <2>6 DEF BegunAs
<1>9. left[c] \in Nat /\ left[c] \in 0..MaxItems - 1 /\ held[c] \in Nat
  BY <1>1, SumsTyped, SubAgentsAssumption DEF TypeOK
<1>10. others \cap ChildrenOf({c}) = ActiveAt(at, c) /\ ActiveAt(at, c) \subseteq ActiveAt(stage, c)
  BY <1>4, <1>7 DEF ActiveAt, ActiveRuns, ChildrenOf
<1>11. busy \in Nat /\ busy <= held[c] /\ busy = Cardinality(ActiveAt(at, c)) /\ Cardinality(others) \in Nat
  <2>1. busy = Cardinality(ActiveAt(at, c))
    BY <1>10
  <2>2. Cardinality(ActiveAt(at, c)) \in Nat /\ Cardinality(ActiveAt(at, c)) <= Cardinality(ActiveAt(stage, c))
        /\ Cardinality(ActiveAt(stage, c)) \in Nat
    BY <1>10, ActiveCounted
  <2>3. Cardinality(ActiveAt(stage, c)) <= held[c]
    BY <1>1 DEF CallSound
  <2>4. Cardinality(others) \in Nat
    <3>1. others \in SUBSET Child
      BY DEF ActiveRuns
    <3>. QED  BY <3>1, ChildrenFinite
  <2>5. Cardinality(ActiveAt(at, c)) <= held[c]
    BY <1>9, <2>2, <2>3
  <2>. QED  BY <2>1, <2>2, <2>4, <2>5
<1>. HIDE DEF busy, others, seen, at, causes, owned, worst, results
<1>12. PICK n \in 0..left[c] :
         /\ f \in [1..n -> Starts \cup {"ok", "throws", "unconfirmed"}]
         /\ busy + Cardinality(StartsOf(f, n)) <= held[c]
  <2>1. PICK n \in 0..left[c] : Filled(f, n, left[c], busy, held[c])
    <3>. HIDE DEF c
    <3>. QED  BY <1>2, <1>9, <1>11, FillsFacts
  <2>. QED  BY <2>1 DEF Filled
<1>13. n \in Nat /\ Cardinality(DOMAIN f) = n
  <2>1. n \in Nat /\ DOMAIN f = 1..n
    BY <1>9, <1>12
  <2>. QED  BY <2>1, FS_Interval
<1>14. left' \in [Call -> 0..MaxItems - 1] /\ left'[c] = left[c] - n
       /\ \A d \in Call \ {c} : left'[d] = left[d]
  <2>1. left[c] - n \in 0..MaxItems - 1
    BY <1>9, <1>12, <1>13, SubAgentsAssumption
  <2>2. left' = [left EXCEPT ![c] = left[c] - n]
    BY <1>2, <1>13
  <2>3. left \in [Call -> 0..MaxItems - 1]
    BY DEF TypeOK
  <2>. QED  BY <1>1, <2>1, <2>2, <2>3
<1>15. Cardinality(ActiveAt(stage', c)) <= held[c]
  <2>1. Cardinality(ActiveAt(stage', c)) <= Cardinality(ActiveAt(at, c)) + Cardinality(StartsOf(f, n))
    <3>1. PICK st, X : st = stage' /\ X = Starts \cup {"ok", "throws", "unconfirmed"}
      OBVIOUS
    <3>2. /\ f \in [1..n -> X]
          /\ \A j \in Beginning(c, f, left[c]) : j \in ChildrenOf({c}) /\ st[j] = "running"
          /\ \A j \in Child \ Beginning(c, f, left[c]) : st[j] = at[j]
      BY <1>8, <1>12, <3>1
    <3>. HIDE DEF c, B
    <3>3. Cardinality(ActiveAt(st, c)) <= Cardinality(ActiveAt(at, c)) + Cardinality(StartsOf(f, n))
      BY ONLY <1>1, <1>9, <1>13, <3>2, BegunActive
    <3>. QED  BY <3>1, <3>3
  <2>2. Cardinality(ActiveAt(stage', c)) \in Nat /\ Cardinality(StartsOf(f, n)) \in Nat
    BY <1>13, ActiveCounted, StartsCounted
  <2>. QED  BY <1>9, <1>11, <1>12, <2>1, <2>2
<1>16. SlotsKept' /\ reserved' \in [Call -> 0..2]
  BY <1>2, <1>3, <1>5, FinishKeepsSlots
<1>17. TypeOK'
  <2>1. /\ call' \in [Call -> {"idle", "running", "returned"}]
        /\ run' \in [Call -> {"none"} \cup Active \cup Terminal]
        /\ result' \in [Call -> Terminal]
        /\ held' \in [Call -> 0..MaxChildren] /\ activeChildren' \in 0..MaxChildren
    <3>1. run \in [Call -> {"none"} \cup Active \cup Terminal]
      BY DEF TypeOK
    <3>. QED  BY <1>3, <1>5, <3>1, FinishTyped
  <2>2. shutdown' \in {"open", "draining", "closed"}
    BY <1>2, DrainTyped DEF TypeOK
  <2>. QED  BY <1>2, <1>8, <1>14, <1>16, <2>1, <2>2 DEF TypeOK
<1>18. CallSound(c)'
  <2>1. CallSound(c)
    BY <1>1
  <2>2. c \in aborted' => left'[c] = 0 /\ \A j \in ChildrenOf({c}) : stage'[j] # "running"
    <3>. SUFFICES ASSUME c \in aborted
                  PROVE  left'[c] = 0 /\ \A j \in ChildrenOf({c}) : stage'[j] # "running"
      BY <1>2
    <3>1. left[c] = 0 /\ \A j \in ChildrenOf({c}) : stage[j] # "running"
      BY <2>1 DEF CallSound
    <3>2. n = 0
      BY <1>12, <3>1
    <3>3. DOMAIN f = {}
      BY <1>12, <3>2
    <3>4. B = {}
      BY <3>3 DEF Beginning
    <3>5. left'[c] = 0
      BY <1>14, <3>1, <3>2
    <3>6. \A j \in ChildrenOf({c}) : stage'[j] = at[j]
      BY <1>8, <3>4 DEF ChildrenOf
    <3>7. \A j \in ChildrenOf({c}) : at[j] # "running"
      BY <1>4, <1>7, <3>1 DEF ChildrenOf
    <3>. QED  BY <3>5, <3>6, <3>7
  <2>3. c \in accepted' => c \in aborted' /\ run[c] # "running" /\ results[c] # "completed"
    BY <1>2, <1>5, <2>1 DEF CallSound
  <2>4. results[c] \in Terminal /\ c \in {c}
    BY <1>1, <1>5
  <2>. HIDE DEF c
  <2>. QED  BY <1>1, <1>3, <1>5, <1>15, <2>2, <2>3, <2>4, FinishedCall
<1>19. ASSUME NEW d \in Call, d # c
       PROVE  CallSound(d)'
  <2>1. held'[d] = held[d] /\ call'[d] = call[d] /\ run'[d] = run[d]
    <3>1. d \in Call \ {c} /\ run[d] = run[d]
      BY <1>19
    <3>. QED  BY <1>3, <1>5, <3>1, FinishOthers
  <2>2. \A j \in ChildrenOf({d}) : j \in Child \ B /\ j # k
    BY <1>8, <1>19 DEF ChildrenOf
  <2>3. \A j \in ChildrenOf({d}) : stage'[j] = stage[j]
    BY <1>7, <1>8, <2>2
  <2>4. left'[d] = left[d]
    BY <1>14, <1>19
  <2>. QED  BY <1>2, <2>1, <2>3, <2>4, CallUntouched
<1>20. ASSUME NEW j \in Child
       PROVE  ChildSound(j)'
  <2>1. CASE j \in B
    <3>1. stage'[j] = "running"
      BY <1>8, <2>1
    <3>. QED  BY <3>1 DEF ChildSound, Over
  <2>2. CASE j \notin B /\ j = k
    <3>1. /\ stage'[j] = found[1] /\ os'[j] = found[2]
          /\ handle'[j] = HandleAt(handle[k], found[1])
      BY <1>7, <1>8, <2>2
    <3>2. found[1] = "unknown" => HandleAt(handle[k], found[1]) \in {"none", "unconfirmed"}
      BY HandleFacts DEF TypeOK
    <3>. QED  BY <1>4, <3>1, <3>2 DEF ChildSound
  <2>3. CASE j \notin B /\ j # k
    <3>1. /\ stage'[j] = stage[j] /\ os'[j] = os[j]
          /\ cause'[j] = cause[j] /\ handle'[j] = handle[j]
      BY <1>7, <1>8, <2>3
    <3>. QED  BY <3>1, ChildUntouched
  <2>. QED  BY <2>1, <2>2, <2>3
<1>. QED  BY <1>16, <1>17, <1>18, <1>19, <1>20

-----------------------------------------------------------------------------
\* Running calls cs are aborted, and for those of them in took a cancellation is
\* accepted.
LEMMA AbortKeeps ==
  ASSUME IInv, NEW cs \in SUBSET Call, NEW took \in SUBSET cs,
         NEW runs \in [Call -> {"none"} \cup Active \cup Terminal],
         \A c \in cs : call[c] = "running" /\ c \notin aborted /\ runs[c] \in Active,
         \A c \in took : runs[c] = "cancelling",
         \A c \in Call \ cs : runs[c] = run[c],
         AbortCalls(cs, runs), accepted' = accepted \cup took,
         UNCHANGED reserved \/ reserved' = [c \in Call |-> 0],
         shutdown' \in {"open", "draining", "closed"}
  PROVE  IInv'
<1>. DEFINE hit == {k \in ChildrenOf(cs) : stage[k] = "running"}
            answers == UNION {Signalled(k, "terming") : k \in hit}
<1>. USE DEF IInv
<1>1. PICK found \in [hit -> answers] :
        LET over == {k \in hit : found[k][1] \in Over} IN
        /\ \A k \in hit : found[k] \in Signalled(k, "terming")
        /\ os' = [k \in Child |-> IF k \in hit THEN found[k][2] ELSE os[k]]
        /\ stage' = [k \in Child |-> IF k \in hit THEN found[k][1] ELSE stage[k]]
        /\ cause' = [k \in Child |-> IF k \in hit \ over THEN Latch(k, "cancelled") ELSE cause[k]]
        /\ handle' = [k \in Child |->
             IF k \in hit THEN HandleAt(handle[k], found[k][1]) ELSE handle[k]]
        /\ Finish(cs, runs, [c \in Call |->
             IF over \cap ChildrenOf({c}) = {} THEN result[c] ELSE "cancelled"])
  BY DEF AbortCalls
<1>2. /\ aborted' = aborted \cup cs
      /\ left' = [c \in Call |-> IF c \in cs THEN 0 ELSE left[c]]
  BY DEF AbortCalls
<1>. DEFINE over == {k \in hit : found[k][1] \in Over}
            results == [c \in Call |-> IF over \cap ChildrenOf({c}) = {} THEN result[c] ELSE "cancelled"]
<1>3. \A k \in hit : /\ found[k][1] \in Stage \ {"none", "running"} /\ found[k][2] \in Process
                     /\ found[k][1] \in Over <=> found[k][1] \notin Unsettled
                     /\ found[k][1] \in Over => found[k][1] \in {"settled", "unknown"}
                     /\ found[k][2] = "alive" => found[k][1] # "settled"
  <2>. SUFFICES ASSUME NEW k \in hit
                PROVE  /\ found[k][1] \in Stage \ {"none", "running"} /\ found[k][2] \in Process
                       /\ found[k][1] \in Over <=> found[k][1] \notin Unsettled
                       /\ found[k][1] \in Over => found[k][1] \in {"settled", "unknown"}
                       /\ found[k][2] = "alive" => found[k][1] # "settled"
    OBVIOUS
  <2>1. found[k] \in Signalled(k, "terming")
    BY <1>1
  <2>2. found[k] \in Outcome
    BY <2>1, SignalledOutcome
  <2>. HIDE DEF hit
  <2>. QED  BY <2>2, OutcomeFacts
<1>4. /\ \A k \in Child : os'[k] = IF k \in hit THEN found[k][2] ELSE os[k]
      /\ \A k \in Child : stage'[k] = IF k \in hit THEN found[k][1] ELSE stage[k]
      /\ \A k \in Child : cause'[k] = IF k \in hit \ over THEN Latch(k, "cancelled") ELSE cause[k]
      /\ \A k \in Child : handle'[k] = IF k \in hit THEN HandleAt(handle[k], found[k][1]) ELSE handle[k]
  BY <1>1
<1>5. Finish(cs, runs, results)
  BY <1>1
<1>6. results \in [Call -> Terminal]
  BY DEF TypeOK, Terminal
<1>7. \A k \in hit : k \in Child /\ k[1] \in cs
  BY DEF ChildrenOf
<1>8. SlotsKept' /\ reserved' \in [Call -> 0..2]
  BY <1>5, FinishKeepsSlots
<1>9. TypeOK'
  <2>1. /\ call' \in [Call -> {"idle", "running", "returned"}]
        /\ run' \in [Call -> {"none"} \cup Active \cup Terminal]
        /\ result' \in [Call -> Terminal]
        /\ held' \in [Call -> 0..MaxChildren] /\ activeChildren' \in 0..MaxChildren
    <3>. HIDE DEF results
    <3>. QED  BY <1>5, <1>6, FinishTyped
  <2>2. os' \in [Child -> Process] /\ stage' \in [Child -> Stage]
    <3>1. /\ os' = [k \in Child |-> IF k \in hit THEN found[k][2] ELSE os[k]]
          /\ stage' = [k \in Child |-> IF k \in hit THEN found[k][1] ELSE stage[k]]
      BY <1>1
    <3>2. os \in [Child -> Process] /\ stage \in [Child -> Stage]
      BY DEF TypeOK
    <3>. HIDE DEF hit
    <3>. QED  BY <1>3, <3>1, <3>2
  <2>3. cause' \in [Child -> Cause]
    <3>1. cause' = [k \in Child |-> IF k \in hit \ over THEN Latch(k, "cancelled") ELSE cause[k]]
      BY <1>1
    <3>2. \A k \in Child : Latch(k, "cancelled") \in Cause /\ cause[k] \in Cause
      BY DEF TypeOK, Latch, Cause
    <3>. HIDE DEF hit, over
    <3>. QED  BY <3>1, <3>2
  <2>4. handle' \in [Child -> Handle]
    <3>1. handle' = [k \in Child |-> IF k \in hit THEN HandleAt(handle[k], found[k][1]) ELSE handle[k]]
      BY <1>1
    <3>2. \A k \in Child : handle[k] \in Handle
      BY DEF TypeOK
    <3>3. \A k \in Child : HandleAt(handle[k], found[k][1]) \in Handle
      BY <3>2, HandleFacts
    <3>. HIDE DEF hit
    <3>. QED  BY <3>1, <3>2, <3>3
  <2>5. left' \in [Call -> 0..MaxItems - 1]
    BY <1>2, SubAgentsAssumption DEF TypeOK
  <2>6. aborted' \subseteq Call /\ accepted' \subseteq Call
    BY <1>2 DEF TypeOK
  <2>. QED  BY <1>8, <2>1, <2>2, <2>3, <2>4, <2>5, <2>6 DEF TypeOK
<1>10. ASSUME NEW c \in cs
       PROVE  CallSound(c)'
  <2>1. c \in Call /\ CallSound(c) /\ call[c] = "running" /\ c \notin aborted /\ runs[c] \in Active
    BY <1>10
  <2>2. ActiveAt(stage', c) \subseteq ActiveAt(stage, c)
    BY <1>4 DEF ActiveAt, ChildrenOf, Unsettled
  <2>3. Cardinality(ActiveAt(stage', c)) <= held[c]
    <3>1. Cardinality(ActiveAt(stage', c)) <= Cardinality(ActiveAt(stage, c))
          /\ Cardinality(ActiveAt(stage', c)) \in Nat /\ Cardinality(ActiveAt(stage, c)) \in Nat
      BY <2>2, ActiveCounted
    <3>2. Cardinality(ActiveAt(stage, c)) <= held[c] /\ held[c] \in Nat
      BY <2>1, SumsTyped DEF CallSound
    <3>. QED  BY <3>1, <3>2
  <2>4. left'[c] = 0
    BY <1>2, <2>1
  <2>5. \A k \in ChildrenOf({c}) : stage'[k] # "running"
    <3>. SUFFICES ASSUME NEW k \in ChildrenOf({c})
                  PROVE  stage'[k] # "running"
      OBVIOUS
    <3>1. k \in ChildrenOf(cs) /\ k \in Child
      BY <1>10 DEF ChildrenOf
    <3>2. CASE k \in hit
      <4>1. stage'[k] = found[k][1] /\ found[k][1] \in Stage \ {"none", "running"}
        BY <1>3, <1>4, <3>1, <3>2
      <4>. QED  BY <4>1
    <3>3. CASE k \notin hit
      BY <1>4, <3>1, <3>3
    <3>. QED  BY <3>2, <3>3
  <2>6. ASSUME c \in accepted'
        PROVE  /\ c \in aborted' /\ runs[c] # "running"
               /\ ActiveAt(stage', c) = {} => results[c] # "completed"
    <3>1. c \in took
      BY <2>1, <2>6 DEF CallSound
    <3>2. c \in aborted' /\ runs[c] = "cancelling"
      BY <1>2, <3>1
    <3>3. ASSUME ActiveAt(stage', c) = {}
          PROVE  results[c] # "completed"
      <4>1. PICK k \in ChildrenOf({c}) : stage[k] \in Unsettled
        BY <2>1 DEF CallSound, ActiveAt
      <4>2. k \in Child /\ stage'[k] \notin Unsettled
        BY <3>3 DEF ActiveAt, ChildrenOf
      <4>3. k \in hit
        BY <1>4, <4>1, <4>2
      <4>4. found[k][1] \in Over
        BY <1>3, <1>4, <4>2, <4>3
      <4>5. k \in over \cap ChildrenOf({c})
        BY <4>1, <4>3, <4>4
      <4>. QED  BY <2>1, <4>5
    <3>. QED  BY <3>2, <3>3
  <2>7. results[c] \in Terminal
    BY <1>6, <2>1
  <2>. HIDE DEF results
  <2>. QED  BY <1>5, <2>1, <2>3, <2>4, <2>5, <2>6, <2>7, FinishedCall
<1>11. ASSUME NEW c \in Call \ cs
       PROVE  CallSound(c)'
  <2>1. held'[c] = held[c] /\ call'[c] = call[c] /\ run'[c] = run[c]
    <3>1. runs[c] = run[c]
      OBVIOUS
    <3>. HIDE DEF results
    <3>. QED  BY <1>5, <3>1, FinishOthers
  <2>2. \A k \in ChildrenOf({c}) : stage'[k] = stage[k]
    BY <1>4, <1>7 DEF ChildrenOf
  <2>3. left'[c] = left[c] /\ (c \in aborted' <=> c \in aborted) /\ (c \in accepted' <=> c \in accepted)
    BY <1>2
  <2>. QED  BY <2>1, <2>2, <2>3, CallUntouched
<1>12. ASSUME NEW k \in Child
       PROVE  ChildSound(k)'
  <2>1. CASE k \in hit
    <3>1. /\ stage'[k] = found[k][1] /\ os'[k] = found[k][2]
          /\ handle'[k] = HandleAt(handle[k], found[k][1])
      BY <1>4, <2>1
    <3>2. found[k][1] = "unknown" => HandleAt(handle[k], found[k][1]) \in {"none", "unconfirmed"}
      BY HandleFacts DEF TypeOK
    <3>3. stage'[k] \in {"terming", "killing"} => cause'[k] # "none"
      <4>. SUFFICES ASSUME stage'[k] \in {"terming", "killing"}
                    PROVE  cause'[k] # "none"
        OBVIOUS
      <4>1. k \in hit \ over
        BY <2>1, <3>1 DEF Over
      <4>2. cause'[k] = Latch(k, "cancelled")
        BY <1>4, <4>1
      <4>. QED  BY <4>2 DEF Latch
    <3>4. stage'[k] \in Over /\ os'[k] = "alive" =>
            stage'[k] # "settled" /\ handle'[k] \in {"none", "unconfirmed"}
      BY <1>3, <2>1, <3>1, <3>2
    <3>. QED  BY <3>3, <3>4 DEF ChildSound
  <2>2. CASE k \notin hit
    <3>1. /\ stage'[k] = stage[k] /\ os'[k] = os[k]
          /\ cause'[k] = cause[k] /\ handle'[k] = handle[k]
      BY <1>4, <2>2
    <3>. QED  BY <3>1, ChildUntouched
  <2>. QED  BY <2>1, <2>2
<1>. QED  BY <1>8, <1>9, <1>10, <1>11, <1>12

-----------------------------------------------------------------------------
\* The lanes of a call fit into what nobody holds and what is reserved for it.
LEMMA LanesBounded ==
  ASSUME IInv, NEW c \in Call
  PROVE  /\ Lanes(c) \in Nat /\ Lanes(c) <= MaxChildren
         /\ Lanes(c) <= Available + reserved[c]
<1>1. /\ OccupiedChildren \in Nat /\ Available \in Nat /\ Available <= MaxChildren
      /\ OccupiedChildren <= MaxChildren /\ MaxChildren \in Nat
  <2>1. PICK x \in Nat, r \in Nat :
          x = SumFunctionOnSet(held, Call) /\ r = SumFunctionOnSet(reserved, Call)
    BY SumsTyped DEF IInv
  <2>2. OccupiedChildren = x /\ Available \in Nat /\ Available <= MaxChildren /\ x + r <= MaxChildren
    BY <2>1, Occupied DEF IInv, SlotsKept
  <2>. QED  BY <2>1, <2>2, SubAgentsAssumption
<1>2. reserved[c] \in {0, Reservable(c)} /\ Reservable(c) \in {1, 2}
  BY DEF IInv, SlotsKept, Reservable
<1>3. CASE reserved[c] > 0
  <2>1. Lanes(c) = LargerOf(0, SmallerOf(Reservable(c), MaxChildren - OccupiedChildren))
    BY <1>3 DEF Lanes
  <2>2. reserved[c] = Reservable(c)
    BY <1>2, <1>3
  <2>. QED  BY <1>1, <1>2, <2>1, <2>2 DEF LargerOf, SmallerOf
<1>4. CASE reserved[c] = 0
  <2>1. Lanes(c) = Available \/ Lanes(c) = SmallerOf(1, Available)
    BY <1>4 DEF Lanes
  <2>. QED  BY <1>1, <1>4, <2>1 DEF SmallerOf
<1>. QED  BY <1>2, <1>3, <1>4

\* The slots of a call that begins to run.
LEMMA SlotsTaken ==
  ASSUME IInv, NEW c \in Call, held[c] = 0, NEW w \in Nat, w <= Lanes(c),
         reserved' = [reserved EXCEPT ![c] = 0], held' = [held EXCEPT ![c] = w],
         activeChildren' = activeChildren + w
  PROVE  /\ SlotsKept'
         /\ reserved' \in [Call -> 0..2] /\ held' \in [Call -> 0..MaxChildren]
         /\ activeChildren' \in 0..MaxChildren
<1>. USE DEF IInv
<1>1. Lanes(c) \in Nat /\ Lanes(c) <= MaxChildren /\ Lanes(c) <= Available + reserved[c]
  BY LanesBounded
<1>2. /\ reserved' \in [Call -> 0..2]
      /\ SumFunctionOnSet(reserved', Call) = SumFunctionOnSet(reserved, Call) - reserved[c] + 0
  <2>1. 0 \in 0..2 /\ TypeOK
    OBVIOUS
  <2>. QED  BY ONLY <2>1, c \in Call, reserved' = [reserved EXCEPT ![c] = 0], ReservedChanged
<1>3. held' \in [Call -> 0..MaxChildren] /\ held' \in [Call -> Nat]
      /\ held'[c] = w /\ \A d \in Call \ {c} : held'[d] = held[d]
  <2>1. w \in 0..MaxChildren
    BY <1>1, SubAgentsAssumption
  <2>2. held \in [Call -> 0..MaxChildren] /\ held \in [Call -> Nat]
    BY SumsTyped DEF TypeOK
  <2>. QED  BY <2>1, <2>2
<1>4. SumFunctionOnSet(held', Call) = SumFunctionOnSet(held, Call) - held[c] + w
  <2>1. PICK h : h = held'
    OBVIOUS
  <2>2. h \in [Call -> Nat] /\ h[c] = w /\ \A d \in Call \ {c} : h[d] = held[d]
    BY <1>3, <2>1
  <2>3. held \in [Call -> Nat] /\ IsFiniteSet(Call)
    BY SumsTyped, SubAgentsAssumption
  <2>4. SumFunctionOnSet(h, Call) = SumFunctionOnSet(held, Call) - held[c] + h[c]
    BY ONLY <2>2, <2>3, c \in Call, SumChanged
  <2>. QED  BY <2>1, <2>2, <2>4
<1>5. PICK x \in Nat, r \in Nat, m \in Nat :
        x = SumFunctionOnSet(held, Call) /\ r = SumFunctionOnSet(reserved, Call) /\ m = reserved[c]
  BY SumsTyped
<1>6. /\ activeChildren = x /\ Available = MaxChildren - x - r /\ MaxChildren \in Nat
      /\ x + r <= MaxChildren
  BY <1>5, Occupied, SubAgentsAssumption DEF SlotsKept
<1>7. w <= MaxChildren - x - r + m
  BY <1>1, <1>5, <1>6
<1>8. m <= r
  <2>1. reserved \in [Call -> Nat] /\ IsFiniteSet(Call)
    BY SumsTyped, SubAgentsAssumption
  <2>2. reserved[c] <= SumFunctionOnSet(reserved, Call)
    BY ONLY <2>1, c \in Call, SumBounds
  <2>. QED  BY <1>5, <2>2
<1>9. SumFunctionOnSet(held', Call) = x + w /\ SumFunctionOnSet(reserved', Call) = r - m
  BY <1>2, <1>4, <1>5
<1>10. x + w + (r - m) <= MaxChildren /\ x + w <= MaxChildren /\ x + w \in Nat
  BY <1>6, <1>7, <1>8
<1>11. \A d \in Call : reserved'[d] \in {0, Reservable(d)}
  BY DEF SlotsKept, TypeOK
<1>12. activeChildren' = x + w
  BY <1>6
<1>. QED  BY <1>2, <1>3, <1>9, <1>10, <1>11, <1>12 DEF SlotsKept

\* A call that starts: it runs with a child, or all its tasks were worked off.
LEMMA StartKeeps ==
  ASSUME IInv, NEW c \in Call, Start(c)
  PROVE  IInv'
<1>. USE DEF IInv
<1>1. /\ call[c] = "idle" /\ c \notin aborted /\ Lanes(c) > 0 /\ c \notin accepted
      /\ reserved' = [reserved EXCEPT ![c] = 0]
      /\ UNCHANGED <<aborted, accepted, shutdown>>
  BY DEF Start, CallSound
<1>2. PICK n \in Tasks(c) : \E g \in Fills(c, n, 0, Cardinality(ActiveRuns), SmallerOf(Lanes(c), n)) :
        /\ Begin(c, g, n, os, stage, cause, handle)
        /\ left' = [left EXCEPT ![c] = n - Cardinality(DOMAIN g)]
        /\ IF \E i \in DOMAIN g : g[i] \in Starts
           THEN /\ call' = [call EXCEPT ![c] = "running"]
                /\ run' = [run EXCEPT ![c] = "running"]
                /\ result' = [result EXCEPT ![c] = Worst(ResultsOf(g))]
                /\ held' = [held EXCEPT ![c] = SmallerOf(Lanes(c), n)]
                /\ activeChildren' = activeChildren + SmallerOf(Lanes(c), n)
           ELSE /\ call' = [call EXCEPT ![c] = "returned"]
                /\ run' = [run EXCEPT ![c] = Worst(ResultsOf(g))]
                /\ UNCHANGED <<result, held, activeChildren>>
  BY DEF Start
<1>3. PICK w : w = SmallerOf(Lanes(c), n)
  OBVIOUS
<1>4. n \in Nat /\ n >= 1 /\ n <= MaxItems /\ w \in Nat /\ w >= 1 /\ w <= Lanes(c)
  <2>1. n \in 1..MaxItems
    BY SubAgentsAssumption DEF Tasks
  <2>2. Lanes(c) \in Nat
    BY LanesBounded
  <2>. QED  BY <1>1, <1>3, <2>1, <2>2, SubAgentsAssumption DEF SmallerOf
<1>5. PICK f \in Fills(c, n, 0, Cardinality(ActiveRuns), w) :
        /\ Begin(c, f, n, os, stage, cause, handle)
        /\ left' = [left EXCEPT ![c] = n - Cardinality(DOMAIN f)]
        /\ (\E i \in DOMAIN f : f[i] \in Starts) =>
             /\ call' = [call EXCEPT ![c] = "running"]
             /\ run' = [run EXCEPT ![c] = "running"]
             /\ result' = [result EXCEPT ![c] = Worst(ResultsOf(f))]
             /\ held' = [held EXCEPT ![c] = w]
             /\ activeChildren' = activeChildren + w
        /\ ~ (\E i \in DOMAIN f : f[i] \in Starts) =>
             /\ call' = [call EXCEPT ![c] = "returned"]
             /\ run' = [run EXCEPT ![c] = Worst(ResultsOf(f))]
             /\ UNCHANGED <<result, held, activeChildren>>
  BY <1>2, <1>3
<1>6. PICK m \in 0..n :
        /\ f \in [1..m -> Starts \cup {"ok", "throws", "unconfirmed"}]
        /\ 0 + Cardinality(StartsOf(f, m)) <= w
        /\ m = n \/ 0 + Cardinality(StartsOf(f, m)) = w
  <2>1. PICK r, z : r = Cardinality(ActiveRuns) /\ z = 0
    OBVIOUS
  <2>2. r \in Nat /\ z \in Nat /\ z <= w /\ w \in Nat /\ n \in Nat
    BY <1>4, <2>1, Occupied
  <2>3. f \in Fills(c, n, z, r, w)
    BY <1>5, <2>1
  <2>4. \E m \in 0..n : Filled(f, m, n, z, w)
    BY ONLY <2>2, <2>3, FillsFacts
  <2>. QED  BY <2>1, <2>4 DEF Filled
<1>7. m \in Nat /\ m >= 1 /\ Cardinality(DOMAIN f) = m
  <2>1. m \in Nat /\ DOMAIN f = 1..m
    BY <1>4, <1>6
  <2>2. m # 0
    <3>1. Cardinality(StartsOf(f, 0)) = 0
      BY StartsCounted
    <3>. QED  BY <1>4, <1>6, <3>1
  <2>. QED  BY <2>1, <2>2, FS_Interval
<1>8. left' \in [Call -> 0..MaxItems - 1] /\ \A d \in Call \ {c} : left'[d] = left[d]
  <2>1. n - m \in 0..MaxItems - 1
    BY <1>4, <1>6, <1>7, SubAgentsAssumption
  <2>2. left' = [left EXCEPT ![c] = n - m] /\ left \in [Call -> 0..MaxItems - 1]
    BY <1>5, <1>7 DEF TypeOK
  <2>. QED  BY <2>1, <2>2
<1>. DEFINE B == Beginning(c, f, n)
<1>9. /\ os' \in [Child -> Process] /\ stage' \in [Child -> Stage]
      /\ cause' \in [Child -> Cause] /\ handle' \in [Child -> Handle]
      /\ \A k \in B : k \in ChildrenOf({c}) /\ stage'[k] = "running"
      /\ \A k \in Child \ B : /\ os'[k] = os[k] /\ stage'[k] = stage[k]
                              /\ cause'[k] = cause[k] /\ handle'[k] = handle[k]
  <2>1. PICK s, a, y, o : s = os /\ a = stage /\ y = cause /\ o = handle
    OBVIOUS
  <2>2. /\ s \in [Child -> Process] /\ a \in [Child -> Stage]
        /\ y \in [Child -> Cause] /\ o \in [Child -> Handle]
    BY <2>1 DEF TypeOK
  <2>3. Begin(c, f, n, s, a, y, o)
    BY <1>5, <2>1
  <2>. HIDE DEF B
  <2>4. BegunAs(c, f, n, s, a, y, o)
    BY ONLY <2>2, <2>3, c \in Call, BegunChildren
  <2>5. B = Beginning(c, f, n)
    BY DEF B
  <2>. QED  BY <2>1, <2>4, <2>5 DEF BegunAs
<1>10. CallSound(c) /\ held[c] = 0 /\ ActiveAt(stage, c) = {} /\ Cardinality(ActiveAt(stage, c)) = 0
  <2>1. CallSound(c) /\ held[c] \in Nat
    BY SumsTyped
  <2>2. held[c] = 0
    BY <1>1, <2>1 DEF CallSound
  <2>3. Cardinality(ActiveAt(stage, c)) = 0 /\ ActiveAt(stage, c) = {}
    BY <2>1, <2>2, ActiveCounted DEF CallSound
  <2>. QED  BY <2>1, <2>2, <2>3
<1>11. ASSUME NEW d \in Call, d # c,
              held'[d] = held[d], call'[d] = call[d], run'[d] = run[d]
       PROVE  CallSound(d)'
  <2>1. \A k \in ChildrenOf({d}) : k \in Child \ B
    BY <1>9, <1>11 DEF ChildrenOf
  <2>2. \A k \in ChildrenOf({d}) : stage'[k] = stage[k]
    BY <1>9, <2>1
  <2>3. left'[d] = left[d]
    BY <1>8, <1>11
  <2>. QED  BY <1>1, <1>11, <2>2, <2>3, CallUntouched
<1>12. ASSUME NEW k \in Child
       PROVE  ChildSound(k)'
  <2>1. CASE k \in B
    <3>1. stage'[k] = "running"
      BY <1>9, <2>1
    <3>. QED  BY <3>1 DEF ChildSound, Over
  <2>2. CASE k \notin B
    <3>1. /\ stage'[k] = stage[k] /\ os'[k] = os[k]
          /\ cause'[k] = cause[k] /\ handle'[k] = handle[k]
      BY <1>9, <2>2
    <3>. QED  BY <3>1, ChildUntouched
  <2>. QED  BY <2>1, <2>2
<1>13. Worst(ResultsOf(f)) \in Terminal
  BY WorstIs
<1>14. CASE \E i \in DOMAIN f : f[i] \in Starts
  <2>1. /\ call' = [call EXCEPT ![c] = "running"]
        /\ run' = [run EXCEPT ![c] = "running"]
        /\ result' = [result EXCEPT ![c] = Worst(ResultsOf(f))]
        /\ held' = [held EXCEPT ![c] = w]
        /\ activeChildren' = activeChildren + w
    BY <1>5, <1>14
  <2>2. /\ SlotsKept'
        /\ reserved' \in [Call -> 0..2] /\ held' \in [Call -> 0..MaxChildren]
        /\ activeChildren' \in 0..MaxChildren
    BY <1>1, <1>4, <1>10, <2>1, SlotsTaken
  <2>3. TypeOK'
    BY <1>1, <1>8, <1>9, <1>13, <2>1, <2>2 DEF TypeOK, Active
  <2>4. CallSound(c)'
    <3>1. ActiveAt(stage', c) # {}
      <4>1. B # {}
        <5>1. n \in Tasks(c) /\ m \in 0..n /\ \E i \in 1..m : f[i] \in Starts
          BY <1>2, <1>6, <1>14
        <5>. QED  BY <1>4, <1>6, <5>1, BeginningFound
      <4>2. PICK k \in B : TRUE
        BY <4>1
      <4>3. k \in ChildrenOf({c}) /\ stage'[k] = "running"
        BY <1>9
      <4>. QED  BY <4>3 DEF ActiveAt, Unsettled
    <3>2. Cardinality(ActiveAt(stage', c)) <= w
      <4>1. PICK st, X : st = stage' /\ X = Starts \cup {"ok", "throws", "unconfirmed"}
        OBVIOUS
      <4>2. PICK a : a = stage
        OBVIOUS
      <4>3. /\ f \in [1..m -> X]
            /\ \A k \in Beginning(c, f, n) : k \in ChildrenOf({c}) /\ st[k] = "running"
            /\ \A k \in Child \ Beginning(c, f, n) : st[k] = a[k]
        BY <1>6, <1>9, <4>1, <4>2
      <4>4. Cardinality(ActiveAt(st, c)) <= Cardinality(ActiveAt(a, c)) + Cardinality(StartsOf(f, m))
        BY ONLY <1>4, <1>7, <4>3, c \in Call, BegunActive
      <4>5. Cardinality(ActiveAt(st, c)) \in Nat /\ Cardinality(StartsOf(f, m)) \in Nat
        BY <1>7, ActiveCounted, StartsCounted
      <4>6. Cardinality(ActiveAt(a, c)) = 0
        BY <1>10, <4>2
      <4>7. Cardinality(ActiveAt(st, c)) <= w
        BY <1>4, <1>6, <4>4, <4>5, <4>6
      <4>. QED  BY <4>1, <4>7
    <3>3. call'[c] = "running" /\ run'[c] = "running" /\ held'[c] = w
      BY <2>1 DEF TypeOK
    <3>. QED  BY <1>1, <1>4, <3>1, <3>2, <3>3 DEF CallSound, Active
  <2>5. ASSUME NEW d \in Call, d # c
        PROVE  CallSound(d)'
    <3>1. held'[d] = held[d] /\ call'[d] = call[d] /\ run'[d] = run[d]
      BY <2>1, <2>5 DEF TypeOK
    <3>. QED  BY <1>11, <2>5, <3>1
  <2>. QED  BY <1>12, <2>2, <2>3, <2>4, <2>5
<1>15. CASE ~ \E i \in DOMAIN f : f[i] \in Starts
  <2>1. /\ call' = [call EXCEPT ![c] = "returned"]
        /\ run' = [run EXCEPT ![c] = Worst(ResultsOf(f))]
        /\ UNCHANGED <<result, held, activeChildren>>
    BY <1>5, <1>15
  <2>2. SlotsKept' /\ reserved' \in [Call -> 0..2]
    BY <1>1, <2>1, ReservationDropped
  <2>3. TypeOK'
    BY <1>1, <1>8, <1>9, <1>13, <2>1, <2>2 DEF TypeOK
  <2>4. CallSound(c)'
    <3>1. B = {}
      BY <1>15 DEF Beginning
    <3>2. ActiveAt(stage', c) = {}
      BY <1>9, <1>10, <3>1 DEF ActiveAt, ChildrenOf
    <3>3. Cardinality(ActiveAt(stage', c)) = 0
      BY <3>2, ActiveCounted
    <3>4. call'[c] = "returned" /\ run'[c] \in Terminal /\ held'[c] = 0
      BY <1>10, <1>13, <2>1 DEF TypeOK
    <3>. QED  BY <1>1, <3>3, <3>4 DEF CallSound, Active, Terminal
  <2>5. ASSUME NEW d \in Call, d # c
        PROVE  CallSound(d)'
    <3>1. held'[d] = held[d] /\ call'[d] = call[d] /\ run'[d] = run[d]
      BY <2>1, <2>5 DEF TypeOK
    <3>. QED  BY <1>11, <2>5, <3>1
  <2>. QED  BY <1>12, <2>2, <2>3, <2>4, <2>5
<1>. QED  BY <1>14, <1>15

-----------------------------------------------------------------------------
\* The callbacks of the children are moves.
LEMMA MoveKeeps ==
  ASSUME IInv, NEW k \in Child, stage[k] \in Unsettled, NEW found \in Outcome,
         NEW why \in Cause, k[1] \in accepted \/ found[1] \notin Over => why # "none",
         Move(k, found, why)
  PROVE  IInv'
<1>1. CASE found[1] \in Over
  BY <1>1, MoveEnds
<1>2. CASE found[1] \notin Over
  BY <1>2, MoveStays
<1>. QED  BY <1>1, <1>2

\* The steps of one child: start, timeout, signals, close and watchdog.
LEMMA ChildKeeps ==
  ASSUME IInv, NEW k \in Child,
         SpawnError(k) \/ Close(k) \/ Timeout(k) \/ KillTimer(k) \/ Watchdog(k)
  PROVE  IInv'
<1>. USE DEF IInv
<1>1. cause[k] \in Cause /\ ChildSound(k) /\ k[1] \in Call /\ k \in ChildrenOf({k[1]})
  BY DEF TypeOK, Child, ChildrenOf
<1>2. \A why \in Cause : Latch(k, why) \in Cause /\ (why # "none" => Latch(k, why) # "none")
  BY <1>1 DEF Latch
<1>3. {"none", "timeout", "failed"} \subseteq Cause
  BY DEF Cause
<1>4. k[1] \in accepted => stage[k] # "running"
  BY <1>1 DEF CallSound
<1>5. \A found \in {<<"settled", "failed">>, <<"settled", "closed">>, <<"settled", "gone">>, <<"unknown", "alive">>} :
         found \in Outcome /\ found[1] \in Over
  BY DEF Outcome, Over
<1>6. CASE SpawnError(k)
  <2>1. stage[k] \in Unsettled /\ Move(k, <<"settled", "failed">>, Latch(k, "failed"))
    BY <1>6 DEF SpawnError
  <2>2. Latch(k, "failed") \in Cause /\ Latch(k, "failed") # "none"
    BY <1>2, <1>3
  <2>3. <<"settled", "failed">> \in Outcome
    BY <1>5
  <2>. QED  BY <2>1, <2>2, <2>3, MoveKeeps
<1>7. CASE Close(k)
  <2>1. PICK outcome \in {"none", "failed"} : Move(k, <<"settled", "closed">>, Latch(k, outcome))
    BY <1>7 DEF Close
  <2>2. stage[k] \in Unsettled
    BY <1>7 DEF Close
  <2>3. Latch(k, outcome) \in Cause
    BY <1>2, <1>3
  <2>4. k[1] \in accepted => Latch(k, outcome) # "none"
    <3>1. k[1] \in accepted => cause[k] # "none"
      BY <1>1, <1>4, <2>2 DEF ChildSound, Unsettled
    <3>. QED  BY <3>1 DEF Latch
  <2>5. PICK found : found = <<"settled", "closed">>
    OBVIOUS
  <2>6. found \in Outcome /\ found[1] \in Over /\ Move(k, found, Latch(k, outcome))
    BY <1>5, <2>1, <2>5
  <2>. QED  BY <2>2, <2>3, <2>4, <2>6, MoveKeeps
<1>8. CASE Timeout(k)
  <2>1. PICK found \in Signalled(k, "terming") : Move(k, found, Latch(k, "timeout"))
    BY <1>8 DEF Timeout
  <2>2. stage[k] \in Unsettled /\ found \in Outcome
    BY <1>8, SignalledOutcome DEF Timeout, Unsettled
  <2>3. Latch(k, "timeout") \in Cause /\ Latch(k, "timeout") # "none"
    BY <1>2, <1>3
  <2>. QED  BY <2>1, <2>2, <2>3, MoveKeeps
<1>9. CASE KillTimer(k)
  <2>1. PICK found \in Signalled(k, "killing") : Move(k, found, cause[k])
    BY <1>9 DEF KillTimer
  <2>2. stage[k] \in Unsettled /\ found \in Outcome /\ cause[k] # "none"
    BY <1>1, <1>9, SignalledOutcome DEF KillTimer, Unsettled, ChildSound
  <2>. QED  BY <1>1, <2>1, <2>2, MoveKeeps
<1>10. CASE Watchdog(k)
  <2>1. PICK found \in {<<"settled", "gone">>, <<"unknown", "alive">>} : Move(k, found, cause[k])
    BY <1>10 DEF Watchdog
  <2>2. stage[k] \in Unsettled /\ found \in Outcome /\ cause[k] # "none"
    BY <1>1, <1>5, <1>10 DEF Watchdog, Unsettled, ChildSound
  <2>. QED  BY <1>1, <2>1, <2>2, MoveKeeps
<1>. QED  BY <1>6, <1>7, <1>8, <1>9, <1>10

\* The record of a call is one of an active run as long as the call runs.
LEMMA RunningCalls ==
  ASSUME IInv, NEW c \in Call
  PROVE  /\ run[c] = "running" => call[c] = "running"
         /\ call[c] = "running" => run[c] \in Active
BY DEF IInv, CallSound, Active

\* An abort of the parent turn reaches every call that runs.
LEMMA ParentAbortKeeps ==
  ASSUME IInv, NEW c \in Call, ParentAbort(c)
  PROVE  IInv'
<1>. USE DEF IInv
<1>1. CASE call[c] = "idle"
  <2>1. /\ c \notin aborted /\ aborted' = aborted \cup {c}
        /\ UNCHANGED <<reserved, held, activeChildren, call, left, result, run, accepted,
                       shutdown, os, stage, cause, handle>>
    BY <1>1 DEF ParentAbort, children
  <2>2. TypeOK' /\ SlotsKept'
    BY <2>1 DEF TypeOK, SlotsKept
  <2>3. ASSUME NEW d \in Call
        PROVE  CallSound(d)'
    <3>1. CASE d # c
      BY <2>1, <3>1, CallUntouched
    <3>2. CASE d = c
      <4>1. CallSound(c) /\ held[c] \in Nat
        BY SumsTyped
      <4>2. held[c] = 0
        BY <1>1, <4>1 DEF CallSound
      <4>3. ActiveAt(stage, c) = {}
        BY <4>1, <4>2, ActiveCounted DEF CallSound
      <4>4. \A k \in ChildrenOf({c}) : stage[k] # "running"
        BY <4>3 DEF ActiveAt, Unsettled
      <4>5. ActiveAt(stage, c)' = ActiveAt(stage, c)
        BY <2>1 DEF ActiveAt
      <4>. QED  BY <1>1, <2>1, <3>2, <4>1, <4>4, <4>5 DEF CallSound
    <3>. QED  BY <3>1, <3>2
  <2>4. ASSUME NEW k \in Child
        PROVE  ChildSound(k)'
    BY <2>1, ChildUntouched
  <2>. QED  BY <2>2, <2>3, <2>4
<1>2. CASE call[c] = "running"
  <2>1. c \notin aborted /\ AbortCalls({c}, run) /\ Drain(shutdown) /\ UNCHANGED <<reserved, accepted>>
    BY <1>2 DEF ParentAbort
  <2>2. shutdown' \in {"open", "draining", "closed"}
    BY <2>1, DrainTyped DEF TypeOK
  <2>3. run \in [Call -> {"none"} \cup Active \cup Terminal] /\ run[c] \in Active
    BY <1>2, RunningCalls DEF TypeOK
  <2>4. PICK cs, took : cs = {c} /\ took = {}
    OBVIOUS
  <2>5. /\ cs \in SUBSET Call /\ took \in SUBSET cs
        /\ \A d \in cs : call[d] = "running" /\ d \notin aborted /\ run[d] \in Active
        /\ \A d \in took : run[d] = "cancelling"
        /\ AbortCalls(cs, run) /\ accepted' = accepted \cup took
    BY <1>2, <2>1, <2>3, <2>4
  <2>. QED  BY <2>1, <2>2, <2>3, <2>5, AbortKeeps
<1>3. call[c] \in {"idle", "running"}
  BY DEF ParentAbort
<1>. QED  BY <1>1, <1>2, <1>3

\* A cancel that is taken aborts its call.
LEMMA CancelKeeps ==
  ASSUME IInv, NEW c \in Call, Cancel(c)
  PROVE  IInv'
<1>. USE DEF IInv
<1>1. /\ run[c] = "running" /\ c \notin aborted /\ AbortCalls({c}, [run EXCEPT ![c] = "cancelling"])
      /\ accepted' = accepted \cup {c} /\ UNCHANGED reserved /\ Drain(shutdown)
  BY DEF Cancel
<1>2. shutdown' \in {"open", "draining", "closed"}
  BY <1>1, DrainTyped DEF TypeOK
<1>3. PICK cs, runs : cs = {c} /\ runs = [run EXCEPT ![c] = "cancelling"]
  OBVIOUS
<1>4. run \in [Call -> {"none"} \cup Active \cup Terminal] /\ call[c] = "running"
  BY <1>1, RunningCalls DEF TypeOK
<1>5. /\ runs \in [Call -> {"none"} \cup Active \cup Terminal]
      /\ runs[c] = "cancelling" /\ \A d \in Call \ cs : runs[d] = run[d]
  BY <1>3, <1>4 DEF Active
<1>6. /\ cs \in SUBSET Call /\ cs \in SUBSET cs
      /\ \A d \in cs : call[d] = "running" /\ d \notin aborted /\ runs[d] \in Active
      /\ \A d \in cs : runs[d] = "cancelling"
      /\ AbortCalls(cs, runs) /\ accepted' = accepted \cup cs
  BY <1>1, <1>3, <1>4, <1>5 DEF Active
<1>. QED  BY <1>1, <1>2, <1>5, <1>6, AbortKeeps

\* A shutdown stops every call and gives back what is reserved.
LEMMA ShutdownKeeps ==
  ASSUME IInv, Shutdown
  PROVE  IInv'
<1>. USE DEF IInv
<1>1. PICK cs, took : cs = {c \in Call : call[c] = "running"} \ aborted /\ took = {}
  OBVIOUS
<1>2. /\ reserved' = [c \in Call |-> 0] /\ AbortCalls(cs, run) /\ UNCHANGED accepted
      /\ Drain("draining")
  BY <1>1 DEF Shutdown
<1>3. shutdown' \in {"open", "draining", "closed"}
  BY <1>2, DrainTyped
<1>4. run \in [Call -> {"none"} \cup Active \cup Terminal]
  BY DEF TypeOK
<1>5. /\ cs \in SUBSET Call /\ took \in SUBSET cs
      /\ \A d \in cs : call[d] = "running" /\ d \notin aborted /\ run[d] \in Active
      /\ \A d \in took : run[d] = "cancelling"
      /\ accepted' = accepted \cup took
  BY <1>1, <1>2, RunningCalls
<1>. QED  BY <1>2, <1>3, <1>4, <1>5, AbortKeeps

\* The deadline: every call returns, and nothing is active any more.
LEMMA ExpireKeeps ==
  ASSUME IInv, Expire
  PROVE  IInv'
<1>. USE DEF IInv
<1>1. /\ stage' = [k \in Child |-> IF k \in ActiveRuns THEN "detached" ELSE stage[k]]
      /\ cause' = [k \in Child |-> IF k \in ActiveRuns THEN "none" ELSE cause[k]]
      /\ handle' = [k \in Child |-> IF k \in ActiveRuns THEN HandleAt(handle[k], "detached") ELSE handle[k]]
      /\ call' = [c \in Call |-> IF call[c] = "running" THEN "returned" ELSE call[c]]
      /\ run' = [c \in Call |->
           IF run[c] \in Active THEN IF c \in aborted THEN "cancelled" ELSE "failed" ELSE run[c]]
      /\ held' = [c \in Call |-> 0]
      /\ activeChildren' = LargerOf(0, activeChildren - SumFunction(held))
      /\ result' = [c \in Call |-> "completed"] /\ shutdown' = "closed"
      /\ UNCHANGED <<reserved, left, aborted, accepted, os>>
  BY DEF Expire
<1>2. activeChildren' = 0 /\ SumFunctionOnSet(held', Call) = 0
  <2>1. SumFunction(held) = SumFunctionOnSet(held, Call) /\ SumFunctionOnSet(held, Call) \in Nat
    BY SumsTyped
  <2>2. activeChildren' = 0
    BY <1>1, <2>1 DEF SlotsKept, LargerOf
  <2>3. PICK z : z = [c \in Call |-> 0]
    OBVIOUS
  <2>4. z \in [Call -> Nat] /\ \A c \in Call : z[c] = 0
    BY <2>3
  <2>5. SumFunctionOnSet(z, Call) = 0
    BY <2>4, SubAgentsAssumption, SumZero
  <2>6. SumFunctionOnSet(held', Call) = 0
    BY <1>1, <2>3, <2>5
  <2>. QED  BY <2>2, <2>6
<1>3. SlotsKept'
  <2>1. PICK x \in Nat, r \in Nat :
          x = SumFunctionOnSet(held, Call) /\ r = SumFunctionOnSet(reserved, Call)
    BY SumsTyped
  <2>2. 0 + r <= MaxChildren
    BY <2>1, SubAgentsAssumption DEF SlotsKept
  <2>3. SumFunctionOnSet(held', Call) + SumFunctionOnSet(reserved', Call) <= MaxChildren
    BY <1>1, <1>2, <2>1, <2>2
  <2>4. \A c \in Call : reserved'[c] \in {0, Reservable(c)}
    BY <1>1 DEF SlotsKept
  <2>. QED  BY <1>2, <2>3, <2>4 DEF SlotsKept
<1>4. TypeOK'
  <2>1. handle' \in [Child -> Handle]
    <3>1. \A k \in Child : handle[k] \in Handle /\ HandleAt(handle[k], "detached") \in Handle
      BY HandleFacts DEF TypeOK
    <3>. QED  BY <1>1, <3>1
  <2>2. stage' \in [Child -> Stage] /\ cause' \in [Child -> Cause]
    BY <1>1 DEF TypeOK, Stage, Over, Cause
  <2>3. /\ call' \in [Call -> {"idle", "running", "returned"}]
        /\ run' \in [Call -> {"none"} \cup Active \cup Terminal]
        /\ result' \in [Call -> Terminal]
    BY <1>1 DEF TypeOK, Terminal
  <2>4. held' \in [Call -> 0..MaxChildren] /\ activeChildren' \in 0..MaxChildren
    BY <1>1, <1>2, SubAgentsAssumption
  <2>. QED  BY <1>1, <2>1, <2>2, <2>3, <2>4 DEF TypeOK
<1>5. \A k \in Child : stage'[k] = IF stage[k] \in Unsettled THEN "detached" ELSE stage[k]
  BY <1>1 DEF ActiveRuns
<1>6. ASSUME NEW c \in Call
      PROVE  CallSound(c)'
  <2>1. CallSound(c)
    OBVIOUS
  <2>2. ActiveAt(stage', c) = {}
    BY <1>5 DEF ActiveAt, ChildrenOf, Unsettled
  <2>3. Cardinality(ActiveAt(stage', c)) = 0
    BY <2>2, ActiveCounted
  <2>4. held'[c] = 0 /\ call'[c] # "running" /\ run'[c] \notin Active /\ left'[c] = left[c]
    BY <1>1 DEF Active
  <2>5. call'[c] = "idle" => left'[c] = 0
    BY <1>1, <2>1 DEF CallSound
  <2>6. \A k \in ChildrenOf({c}) : stage'[k] # "running"
    BY <2>2 DEF ActiveAt, Unsettled
  <2>7. c \in accepted' => c \in aborted' /\ run'[c] \notin {"none", "running", "completed"}
    BY <1>1, <2>1 DEF CallSound
  <2>8. c \in aborted' => left'[c] = 0
    BY <1>1, <2>1 DEF CallSound
  <2>9. /\ held'[c] > 0 <=> call'[c] = "running"
        /\ run'[c] \in Active <=> call'[c] = "running"
        /\ call'[c] = "running" => ActiveAt(stage', c) # {}
        /\ Cardinality(ActiveAt(stage', c)) <= held'[c]
    BY <2>3, <2>4
  <2>10. c \in aborted' => left'[c] = 0 /\ \A k \in ChildrenOf({c}) : stage'[k] # "running"
    BY <2>6, <2>8
  <2>11. ActiveAt(stage, c)' = ActiveAt(stage', c)
    BY DEF ActiveAt
  <2>. QED  BY ONLY <2>5, <2>7, <2>9, <2>10, <2>11 DEF CallSound
<1>7. ASSUME NEW k \in Child
      PROVE  ChildSound(k)'
  <2>1. CASE k \in ActiveRuns
    <3>1. stage'[k] = "detached" /\ handle'[k] = HandleAt(handle[k], "detached")
      BY <1>1, <2>1
    <3>2. handle'[k] \in {"none", "unconfirmed"}
      BY <3>1, HandleFacts DEF TypeOK
    <3>. QED  BY <3>1, <3>2 DEF ChildSound
  <2>2. CASE k \notin ActiveRuns
    BY <1>1, <2>2, ChildUntouched
  <2>. QED  BY <2>1, <2>2
<1>. QED  BY <1>3, <1>4, <1>6, <1>7

-----------------------------------------------------------------------------
\* Every step keeps the invariant.
LEMMA Preserved == IInv /\ [Next]_vars => IInv'
<1>. SUFFICES ASSUME IInv, [Next]_vars
              PROVE  IInv'
  OBVIOUS
<1>1. CASE UNCHANGED vars
  <2>1. TypeOK' /\ SlotsKept'
    BY <1>1 DEF vars, slots, calls, children, IInv, TypeOK, SlotsKept
  <2>2. \A c \in Call : CallSound(c)'
    BY <1>1, CallUntouched DEF vars, slots, calls, children, IInv
  <2>3. \A k \in Child : ChildSound(k)'
    BY <1>1, ChildUntouched DEF vars, slots, calls, children, IInv
  <2>. QED  BY <2>1, <2>2, <2>3 DEF IInv
<1>2. ASSUME NEW c \in Call, TryReserve(c) \/ ReleaseReservation(c)
      PROVE  IInv'
  BY <1>2, TryReserveKeeps, ReleaseKeeps
<1>3. ASSUME NEW c \in Call, Start(c) \/ Refuse(c) \/ Reject(c)
      PROVE  IInv'
  BY <1>3, StartKeeps, RefuseKeeps, RejectKeeps
<1>4. ASSUME NEW c \in Call, ParentAbort(c) \/ Cancel(c)
      PROVE  IInv'
  BY <1>4, ParentAbortKeeps, CancelKeeps
<1>5. ASSUME NEW k \in Child,
             SpawnError(k) \/ Close(k) \/ Timeout(k) \/ KillTimer(k) \/ Watchdog(k)
      PROVE  IInv'
  BY <1>5, ChildKeeps
<1>6. CASE Shutdown
  BY <1>6, ShutdownKeeps
<1>7. CASE Expire
  BY <1>7, ExpireKeeps
<1>. QED  BY <1>1, <1>2, <1>3, <1>4, <1>5, <1>6, <1>7 DEF Next

\* The inductive invariant holds of any calls, tasks and limit.
THEOREM Invariance == Spec => []IInv
<1>1. Init => IInv
  BY Initially
<1>2. IInv /\ [Next]_vars => IInv'
  BY Preserved
<1>. QED  BY <1>1, <1>2, PTL DEF Spec

\* Every variable stays within its type (extensions/sub-agent.ts:550-600).
THEOREM TypeCorrect == Spec => []TypeOK
<1>1. IInv => TypeOK
  BY DEF IInv
<1>. QED  BY <1>1, Invariance, PTL

\* However many calls run, start, settle and are aborted: the counter is the sum
\* of what they hold, no call has more children than slots, and children and
\* reservations together stay within MAX_CHILDREN (extensions/sub-agent.ts:573-594).
THEOREM CapacityHolds == Spec => []CapacityKept
<1>1. IInv => CapacityKept
  BY Meaning
<1>. QED  BY <1>1, Invariance, PTL

\* No run is reported as settled while its process was last seen alive, and its
\* handle says so (sub-agent-runtime.ts:235, sub-agent-shutdown.ts:113).
THEOREM LiveChildrenReported == Spec => []LiveChildReported
<1>1. IInv => LiveChildReported
  BY Meaning
<1>. QED  BY <1>1, Invariance, PTL

\* A cancellation that was accepted is never answered with success
\* (orchestration-control.ts:185-216, sub-agent-runtime.ts:355-372).
THEOREM CancellationHolds == Spec => []CancelHolds
<1>1. IInv => CancelHolds
  BY Meaning
<1>. QED  BY <1>1, Invariance, PTL

-----------------------------------------------------------------------------
\* What nobody has claimed in the pool is what is available here.
LEMMA UnclaimedIsAvailable ==
  ASSUME IInv
  PROVE  Pool!Unclaimed = Available
<1>1. /\ SumFunction(held) = SumFunctionOnSet(held, Call)
      /\ SumFunction(reserved) = SumFunctionOnSet(reserved, Call)
      /\ SumFunctionOnSet(held, Call) \in Nat /\ SumFunctionOnSet(reserved, Call) \in Nat
  BY SumsTyped DEF IInv
<1>2. Available = MaxChildren - SumFunctionOnSet(held, Call) - SumFunctionOnSet(reserved, Call)
  BY Occupied
<1>3. Pool!Unclaimed = MaxChildren - SumFunction(reserved) - SumFunction(held)
  <2>1. Pool!Unclaimed = MaxChildren - Pool!SumFunction(reserved) - Pool!SumFunction(held)
    BY DEF Pool!Unclaimed
  <2>2. \A f : Pool!SumFunction(f) = Pool!SumFunctionOnSet(f, DOMAIN f)
    BY DEF Pool!SumFunction
  <2>3. \A f, S : Pool!SumFunctionOnSet(f, S) = SumFunctionOnSet(f, S)
    BY DEF SumFunctionOnSet, Pool!SumFunctionOnSet, FoldFunctionOnSet, Pool!FoldFunctionOnSet,
           MapThenFoldSet, Pool!MapThenFoldSet
  <2>. QED  BY <2>1, <2>2, <2>3 DEF SumFunction
<1>. QED  BY <1>1, <1>2, <1>3, SubAgentsAssumption

\* Calls that return give back what they hold, and reservations are withdrawn,
\* only as a whole.
LEMMA GivenBack ==
  ASSUME TypeOK, NEW withdrawn \in SUBSET Call, NEW given \in SUBSET Call,
         reserved' = [c \in Call |-> IF c \in withdrawn THEN 0 ELSE reserved[c]],
         held' = [c \in Call |-> IF c \in given THEN 0 ELSE held[c]]
  PROVE  Pool!GiveBack
BY DEF Pool!GiveBack

\* Finish gives back, whatever was withdrawn in the same step.
LEMMA FinishGivesBack ==
  ASSUME TypeOK, NEW cs \in SUBSET Call, NEW runs, NEW results, Finish(cs, runs, results),
         UNCHANGED reserved \/ reserved' = [c \in Call |-> 0]
  PROVE  Pool!GiveBack
<1>1. held' = [c \in Call |-> IF c \in Back(cs) THEN 0 ELSE held[c]] /\ Back(cs) \in SUBSET Call
  BY FinishCalls DEF Back
<1>2. \E withdrawn \in SUBSET Call :
        reserved' = [c \in Call |-> IF c \in withdrawn THEN 0 ELSE reserved[c]]
  <2>1. CASE UNCHANGED reserved
    <3>1. PICK withdrawn : withdrawn = {}
      OBVIOUS
    <3>2. reserved' = [c \in Call |-> IF c \in withdrawn THEN 0 ELSE reserved[c]]
      BY <2>1, <3>1 DEF TypeOK
    <3>3. withdrawn \in SUBSET Call
      BY <3>1
    <3>. QED  BY <3>2, <3>3
  <2>2. CASE reserved' = [c \in Call |-> 0]
    <3>1. PICK withdrawn : withdrawn = Call
      OBVIOUS
    <3>2. reserved' = [c \in Call |-> IF c \in withdrawn THEN 0 ELSE reserved[c]]
      BY <2>2, <3>1
    <3>3. withdrawn \in SUBSET Call
      BY <3>1
    <3>. QED  BY <3>2, <3>3
  <2>. QED  BY <2>1, <2>2
<1>. QED  BY <1>1, <1>2, GivenBack

\* A reservation given back alone is a step of the pool.
LEMMA OneReturned ==
  ASSUME TypeOK, NEW c \in Call, reserved' = [reserved EXCEPT ![c] = 0], UNCHANGED held
  PROVE  Pool!GiveBack
<1>1. PICK withdrawn, given : withdrawn = {c} /\ given = {}
  OBVIOUS
<1>2. reserved' = [d \in Call |-> IF d \in withdrawn THEN 0 ELSE reserved[d]]
  BY <1>1 DEF TypeOK
<1>3. held' = [d \in Call |-> IF d \in given THEN 0 ELSE held[d]]
  BY <1>1 DEF TypeOK
<1>4. withdrawn \in SUBSET Call /\ given \in SUBSET Call
  BY <1>1
<1>. QED  BY <1>2, <1>3, <1>4, GivenBack

\* Every move of a child goes through Finish and leaves the reservations alone.
LEMMA MoveGivesBack ==
  ASSUME IInv, NEW k \in Child, NEW found, NEW why, Move(k, found, why)
  PROVE  Pool!GiveBack
<1>1. {k[1]} \in SUBSET Call
  BY DEF Child
<1>2. UNCHANGED reserved /\ \E results : Finish({k[1]}, run, results)
  BY DEF Move
<1>3. PICK results : Finish({k[1]}, run, results)
  BY <1>2
<1>. QED  BY <1>1, <1>2, <1>3, FinishGivesBack DEF IInv

\* An abort goes through Finish too.
LEMMA AbortGivesBack ==
  ASSUME TypeOK, NEW cs \in SUBSET Call, NEW runs, AbortCalls(cs, runs),
         UNCHANGED reserved \/ reserved' = [c \in Call |-> 0]
  PROVE  Pool!GiveBack
<1>1. \E results : Finish(cs, runs, results)
  BY DEF AbortCalls
<1>2. PICK results : Finish(cs, runs, results)
  BY <1>1
<1>. QED  BY <1>2, FinishGivesBack

\* A call that starts takes its lanes, or gives its reservation back at once.
LEMMA StartTakes ==
  ASSUME IInv, NEW c \in Call, Start(c)
  PROVE  Pool!PoolNext
<1>. USE DEF IInv
<1>1. PICK n \in Tasks(c) :
        /\ call[c] = "idle" /\ Lanes(c) > 0 /\ reserved' = [reserved EXCEPT ![c] = 0]
        /\ \/ held' = [held EXCEPT ![c] = SmallerOf(Lanes(c), n)]
           \/ UNCHANGED held
  BY DEF Start
<1>2. CASE UNCHANGED held
  BY <1>1, <1>2, OneReturned DEF Pool!PoolNext
<1>3. CASE held' = [held EXCEPT ![c] = SmallerOf(Lanes(c), n)]
  <2>1. PICK w : w = SmallerOf(Lanes(c), n)
    OBVIOUS
  <2>2. n \in 1..MaxItems
    BY SubAgentsAssumption DEF Tasks
  <2>3. Lanes(c) \in Nat /\ Lanes(c) <= MaxChildren /\ Lanes(c) <= Available + reserved[c]
    BY LanesBounded
  <2>4. w \in 1..MaxChildren /\ w <= Lanes(c)
    BY <1>1, <2>1, <2>2, <2>3, SubAgentsAssumption DEF SmallerOf
  <2>5. held[c] = 0
    <3>1. CallSound(c) /\ held[c] \in Nat
      BY SumsTyped
    <3>. QED  BY <1>1, <3>1 DEF CallSound
  <2>6. w <= Pool!Unclaimed + reserved[c]
    <3>1. Pool!Unclaimed = Available /\ Available \in Nat /\ reserved[c] \in Nat
      BY UnclaimedIsAvailable, Occupied, SumsTyped
    <3>. QED  BY <2>3, <2>4, <3>1
  <2>7. Pool!Take(c, w)
    BY <1>1, <1>3, <2>1, <2>5, <2>6 DEF Pool!Take
  <2>. QED  BY <2>4, <2>7 DEF Pool!PoolNext
<1>. QED  BY <1>1, <1>2, <1>3

\* A step of the sub-agents is a step of the pool or leaves the slots alone.
LEMMA PoolStep == IInv /\ [Next]_vars => [Pool!PoolNext]_<<reserved, held>>
<1>. SUFFICES ASSUME IInv, [Next]_vars
              PROVE  Pool!PoolNext \/ UNCHANGED <<reserved, held>>
  OBVIOUS
<1>. USE DEF IInv
<1>1. CASE UNCHANGED vars
  BY <1>1 DEF vars, slots
<1>2. ASSUME NEW c \in Call, TryReserve(c)
      PROVE  Pool!PoolNext
  <2>1. reserved[c] = 0 /\ Reservable(c) <= Available /\ reserved' = [reserved EXCEPT ![c] = Reservable(c)]
        /\ UNCHANGED held
    BY <1>2 DEF TryReserve
  <2>2. Pool!Unclaimed = Available /\ Available \in Nat /\ Available <= MaxChildren
    BY UnclaimedIsAvailable, Occupied
  <2>3. Reservable(c) \in 1..MaxChildren
    BY <2>1, <2>2, SubAgentsAssumption DEF Reservable
  <2>4. Pool!Reserve(c, Reservable(c))
    BY <2>1, <2>2 DEF Pool!Reserve
  <2>. QED  BY <2>3, <2>4 DEF Pool!PoolNext
<1>3. ASSUME NEW c \in Call, ReleaseReservation(c) \/ Refuse(c)
      PROVE  Pool!PoolNext
  <2>1. reserved' = [reserved EXCEPT ![c] = 0] /\ UNCHANGED held
    BY <1>3 DEF ReleaseReservation, Refuse
  <2>. QED  BY <2>1, OneReturned DEF Pool!PoolNext
<1>4. ASSUME NEW c \in Call, Reject(c)
      PROVE  UNCHANGED <<reserved, held>>
  BY <1>4 DEF Reject, slots
<1>5. ASSUME NEW c \in Call, Start(c)
      PROVE  Pool!PoolNext
  BY <1>5, StartTakes
<1>6. ASSUME NEW c \in Call, ParentAbort(c) \/ Cancel(c)
      PROVE  Pool!PoolNext \/ UNCHANGED <<reserved, held>>
  <2>1. UNCHANGED reserved /\ (UNCHANGED held \/ \E runs : AbortCalls({c}, runs))
    BY <1>6 DEF ParentAbort, Cancel
  <2>2. CASE \E runs : AbortCalls({c}, runs)
    <3>1. PICK runs : AbortCalls({c}, runs)
      BY <2>2
    <3>2. {c} \in SUBSET Call
      OBVIOUS
    <3>. QED  BY <2>1, <3>1, <3>2, AbortGivesBack DEF Pool!PoolNext
  <2>. QED  BY <2>1, <2>2
<1>7. ASSUME NEW k \in Child,
             SpawnError(k) \/ Close(k) \/ Timeout(k) \/ KillTimer(k) \/ Watchdog(k)
      PROVE  Pool!PoolNext
  <2>1. \E found, why : Move(k, found, why)
    BY <1>7 DEF SpawnError, Close, Timeout, KillTimer, Watchdog
  <2>2. PICK found, why : Move(k, found, why)
    BY <2>1
  <2>. QED  BY <2>2, MoveGivesBack DEF Pool!PoolNext
<1>8. CASE Shutdown
  <2>1. PICK cs : cs = {c \in Call : call[c] = "running"} \ aborted
    OBVIOUS
  <2>2. cs \in SUBSET Call /\ AbortCalls(cs, run) /\ reserved' = [c \in Call |-> 0]
    BY <1>8, <2>1 DEF Shutdown
  <2>. QED  BY <2>2, AbortGivesBack DEF Pool!PoolNext
<1>9. CASE Expire
  <2>1. held' = [c \in Call |-> 0] /\ UNCHANGED reserved
    BY <1>9 DEF Expire
  <2>2. PICK withdrawn, given : withdrawn = {} /\ given = Call
    OBVIOUS
  <2>3. reserved' = [c \in Call |-> IF c \in withdrawn THEN 0 ELSE reserved[c]]
    BY <2>1, <2>2 DEF TypeOK
  <2>4. held' = [c \in Call |-> IF c \in given THEN 0 ELSE held[c]]
    BY <2>1, <2>2
  <2>. QED  BY <2>2, <2>3, <2>4, GivenBack DEF Pool!PoolNext
<1>. QED  BY <1>1, <1>2, <1>3, <1>4, <1>5, <1>6, <1>7, <1>8, <1>9 DEF Next

\* The sub-agents implement the pool of slots: whoever starts takes what is free
\* and what was reserved for it, never what is reserved for another
\* (extensions/sub-agent.ts:573-594).
THEOREM PoolRefined == Spec => PoolImplemented
<1>1. Init => Pool!PoolInit
  BY DEF Init, Pool!PoolInit
<1>2. IInv /\ [Next]_vars => [Pool!PoolNext]_Pool!poolVars
  BY PoolStep DEF Pool!poolVars
<1>. QED  BY <1>1, <1>2, Invariance, PTL DEF Spec, PoolImplemented, Pool!PoolSpec
=============================================================================
