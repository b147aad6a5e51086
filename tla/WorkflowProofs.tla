---------------------------- MODULE WorkflowProofs ----------------------------
(***************************************************************************)
(* What holds of Workflow for any calls, plans and number of slots.        *)
(***************************************************************************)
EXTENDS Workflow, FiniteSetTheorems, SequenceTheorems, WellFoundedInduction, TLAPS

-----------------------------------------------------------------------------
\* Finite sets are well founded under inclusion.
LEMMA LeastSubset ==
  ASSUME NEW D, IsFiniteSet(D), NEW U \in SUBSET SUBSET D, U # {}
  PROVE  \E s \in U : \A t \in U : t \subseteq s => t = s
<1>1. IsWellFoundedOn(StrictSubsetOrdering(D), SUBSET D)
  BY FS_StrictSubsetOrderingWellFounded, FS_FiniteSubsetsOfFinite
<1>2. PICK s \in U : \A t \in U : <<t, s>> \notin StrictSubsetOrdering(D)
  BY <1>1, WFMin
<1>. QED  BY <1>2 DEF StrictSubsetOrdering

\* Folds over the subsets of D: g gives base for {} and else what comb makes of
\* the element that pick names and of the rest.
Picks(pick, D) == \A s \in SUBSET D : s # {} => pick[s] \in s
Folds(g, D, base, pick, comb) ==
  \A s \in SUBSET D : g[s] = IF s = {} THEN base ELSE comb[<<pick[s], g[s \ {pick[s]}]>>]

\* There is such a fold over every finite set.
LEMMA FoldExists ==
  ASSUME NEW D, IsFiniteSet(D), NEW V, NEW base \in V,
         NEW pick, Picks(pick, D), NEW comb \in [D \X V -> V]
  PROVE  \E g \in [SUBSET D -> V] : Folds(g, D, base, pick, comb)
<1>. USE DEF Picks
<1>. DEFINE Level(n) == {s \in SUBSET D : Cardinality(s) <= n}
            Fold(n) == \E g \in [Level(n) -> V] : \A s \in Level(n) :
                         g[s] = IF s = {} THEN base ELSE comb[<<pick[s], g[s \ {pick[s]}]>>]
<1>1. \A s \in SUBSET D : IsFiniteSet(s) /\ Cardinality(s) \in Nat
  BY FS_Subset, FS_CardinalityType
<1>2. \A n \in Nat : \A s \in Level(n + 1) : s # {} => s \ {pick[s]} \in Level(n)
  <2>. SUFFICES ASSUME NEW n \in Nat, NEW s \in SUBSET D, Cardinality(s) <= n + 1, s # {}
                PROVE  s \ {pick[s]} \in Level(n)
    OBVIOUS
  <2>1. pick[s] \in s /\ IsFiniteSet(s) /\ Cardinality(s) \in Nat
    BY <1>1
  <2>2. Cardinality(s \ {pick[s]}) = Cardinality(s) - 1
    BY <2>1, FS_RemoveElement
  <2>. QED  BY <2>1, <2>2
<1>3. Fold(0)
  <2>1. Level(0) = {{}}
    BY <1>1, FS_EmptySet
  <2>2. [s \in Level(0) |-> base] \in [Level(0) -> V]
    OBVIOUS
  <2>. QED  BY <2>1, <2>2
<1>4. ASSUME NEW n \in Nat, Fold(n)
      PROVE  Fold(n + 1)
  <2>1. PICK g \in [Level(n) -> V] : \A s \in Level(n) :
          g[s] = IF s = {} THEN base ELSE comb[<<pick[s], g[s \ {pick[s]}]>>]
    BY <1>4
  <2>. DEFINE h == [s \in Level(n + 1) |->
                      IF s = {} THEN base ELSE comb[<<pick[s], g[s \ {pick[s]}]>>]]
  <2>2. h \in [Level(n + 1) -> V]
    BY <1>2, <2>1
  <2>3. \A s \in Level(n) : s \in Level(n + 1) /\ h[s] = g[s]
    <3>1. \A s \in Level(n) : s \in Level(n + 1)
      BY <1>1
    <3>. QED  BY <2>1, <3>1
  <2>4. \A s \in Level(n + 1) :
          h[s] = IF s = {} THEN base ELSE comb[<<pick[s], h[s \ {pick[s]}]>>]
    BY <1>2, <2>3
  <2>. QED  BY <2>2, <2>4
<1>. HIDE DEF Fold
<1>5. \A s \in SUBSET D : Fold(Cardinality(s))
  <2>. DEFINE U == {s \in SUBSET D : ~Fold(Cardinality(s))}
  <2>. SUFFICES ASSUME U # {}
                PROVE  FALSE
    OBVIOUS
  <2>0. U \in SUBSET SUBSET D
    OBVIOUS
  <2>1. PICK s \in U : \A t \in U : t \subseteq s => t = s
    <3>. HIDE DEF U
    <3>. QED  BY <2>0, LeastSubset
  <2>2. PICK x : x \in s
    BY <1>3, <2>1, FS_EmptySet
  <2>3. /\ s \ {x} \notin U
        /\ Cardinality(s \ {x}) \in Nat /\ Cardinality(s) = Cardinality(s \ {x}) + 1
    BY <1>1, <2>1, <2>2, FS_RemoveElement
  <2>. QED  BY <1>4, <2>1, <2>3
<1>6. Level(Cardinality(D)) = SUBSET D
  BY FS_Subset, FS_CardinalityType
<1>7. Fold(Cardinality(D))
  BY <1>5
<1>8. PICK g \in [Level(Cardinality(D)) -> V] : \A s \in Level(Cardinality(D)) :
        g[s] = IF s = {} THEN base ELSE comb[<<pick[s], g[s \ {pick[s]}]>>]
  BY <1>7 DEF Fold
<1>. HIDE DEF Level
<1>. QED  BY <1>6, <1>8 DEF Folds

\* A finite set of integers has a greatest member.
LEMMA MaxOfFinite ==
  ASSUME NEW D, IsFiniteSet(D), D \subseteq Int, D # {}
  PROVE  Max(D) \in D /\ \A i \in D : i <= Max(D)
<1>. DEFINE U == {t \in SUBSET D : t # {} /\ ~ \E x \in t : \A y \in t : x >= y}
<1>1. U = {}
  <2>. SUFFICES ASSUME U # {}
                PROVE  FALSE
    OBVIOUS
  <2>1. U \in SUBSET SUBSET D
    OBVIOUS
  <2>2. PICK t \in U : \A r \in U : r \subseteq t => r = t
    <3>1. U # {} /\ IsFiniteSet(D)
      OBVIOUS
    <3>. HIDE DEF U
    <3>. QED  BY ONLY <2>1, <3>1, LeastSubset
  <2>3. PICK x : x \in t
    OBVIOUS
  <2>4. t \ {x} \notin U
    BY <2>2, <2>3
  <2>5. CASE t \ {x} = {}
    BY <2>3, <2>5
  <2>6. CASE t \ {x} # {}
    <3>1. PICK m \in t \ {x} : \A y \in t \ {x} : m >= y
      BY <2>4, <2>6
    <3>2. m \in Int /\ x \in Int /\ \A y \in t : y \in Int
      BY <2>3
    <3>3. \A y \in t : m >= y \/ y = x
      BY <3>1
    <3>4. (\A y \in t : m >= y) \/ (\A y \in t : x >= y)
      BY <3>2, <3>3
    <3>. QED  BY <2>3, <3>4
  <2>. QED  BY <2>5, <2>6
<1>2. \E x \in D : \A y \in D : x >= y
  BY <1>1
<1>3. Max(D) \in D /\ \A y \in D : Max(D) >= y
  BY <1>2 DEF Max
<1>. QED  BY <1>3

\* A set of indices has a least member.
LEMMA LeastIndex ==
  ASSUME NEW n \in Nat, NEW U \in SUBSET (0..n), U # {}
  PROVE  \E i \in U : \A j \in U : i <= j
<1>1. PICK D : D = 0..n
  OBVIOUS
<1>2. PICK W : W = {0..i : i \in U}
  OBVIOUS
<1>3. IsFiniteSet(D) /\ W \in SUBSET SUBSET D /\ W # {}
  <2>1. IsFiniteSet(D)
    BY <1>1, FS_Interval
  <2>2. W \in SUBSET SUBSET D
    BY <1>1, <1>2
  <2>. QED  BY <1>2, <2>1, <2>2
<1>4. PICK s \in W : \A t \in W : t \subseteq s => t = s
  BY ONLY <1>3, LeastSubset
<1>5. PICK i \in U : s = 0..i
  BY <1>2
<1>6. ASSUME NEW j \in U, j < i
      PROVE  FALSE
  <2>1. 0..j \in W /\ 0..j \subseteq s
    BY <1>2, <1>5, <1>6
  <2>2. i \in s /\ i \notin 0..j
    BY <1>5, <1>6
  <2>. QED  BY <1>4, <2>1, <2>2
<1>. QED  BY <1>6

\* What Among keeps, step by step: of the first n entries it takes those in S.
Keeps(kept, q, S) ==
  /\ kept[0] = <<>>
  /\ \A n \in 1..Len(q) :
       kept[n] = IF q[n] \in S THEN Append(kept[n - 1], q[n]) ELSE kept[n - 1]
  /\ Among(q, S) = kept[Len(q)]

\* Among is the last of such steps.
LEMMA AmongSteps ==
  ASSUME NEW T, NEW q \in Seq(T), NEW S
  PROVE  \E kept \in [0..Len(q) -> Seq(T)] : Keeps(kept, q, S)
<1>. DEFINE D == DOMAIN q
            comb == [e \in D \X Seq(T) |-> IF q[e[1]] \in S THEN Append(e[2], q[e[1]]) ELSE e[2]]
            pick == [s \in SUBSET D |-> Max(s)]
            Is(g) == g = [s \in SUBSET D |->
                            IF s = {} THEN <<>>
                            ELSE IF q[Max(s)] \in S
                                 THEN Append(g[s \ {Max(s)}], q[Max(s)]) ELSE g[s \ {Max(s)}]]
<1>0. Len(q) \in Nat /\ D = 1..Len(q) /\ IsFiniteSet(D) /\ D \subseteq Int
  BY FS_Interval
<1>1. ASSUME NEW s \in SUBSET D, s # {}
      PROVE  Max(s) \in s /\ \A i \in s : i <= Max(s)
  <2>1. IsFiniteSet(s) /\ s \subseteq Int
    BY <1>0, FS_Subset
  <2>. QED  BY ONLY <1>1, <2>1, MaxOfFinite
<1>2. Among(q, S) = (CHOOSE g : Is(g))[D]
  BY DEF Among, FoldLeft, MapThenFoldSet
<1>3. comb \in [D \X Seq(T) -> Seq(T)]
  OBVIOUS
<1>4. PICK g \in [SUBSET D -> Seq(T)] : Folds(g, D, <<>>, pick, comb)
  <2>1. PICK V, base : V = Seq(T) /\ base = <<>>
    OBVIOUS
  <2>2. /\ IsFiniteSet(D) /\ base \in V /\ comb \in [D \X V -> V]
        /\ Picks(pick, D)
    BY <1>0, <1>1, <1>3, <2>1 DEF Picks
  <2>. HIDE DEF D, pick, comb
  <2>3. \E g \in [SUBSET D -> V] : Folds(g, D, base, pick, comb)
    BY ONLY <2>2, FoldExists
  <2>. QED  BY <2>1, <2>3
<1>5. Is(g)
  <2>1. \A s \in SUBSET D : s # {} =>
          /\ pick[s] = Max(s) /\ Max(s) \in D /\ s \ {Max(s)} \in SUBSET D
          /\ comb[<<pick[s], g[s \ {pick[s]}]>>] =
               IF q[Max(s)] \in S
               THEN Append(g[s \ {Max(s)}], q[Max(s)]) ELSE g[s \ {Max(s)}]
    BY <1>1, <1>4
  <2>. QED  BY <1>4, <2>1 DEF Folds
<1>6. PICK h : Is(h) /\ Among(q, S) = h[D]
  <2>. HIDE DEF Is
  <2>. QED  BY <1>2, <1>5
<1>7. /\ h[{}] = <<>>
      /\ \A s \in SUBSET D : s # {} =>
           h[s] = IF q[Max(s)] \in S
                  THEN Append(h[s \ {Max(s)}], q[Max(s)]) ELSE h[s \ {Max(s)}]
  BY <1>6
<1>8. \A s \in SUBSET D : h[s] \in Seq(T)
  <2>. DEFINE U == {s \in SUBSET D : h[s] \notin Seq(T)}
  <2>. SUFFICES ASSUME U # {}
                PROVE  FALSE
    OBVIOUS
  <2>1. IsFiniteSet(D) /\ U \in SUBSET SUBSET D /\ U # {}
    BY <1>0
  <2>2. PICK s \in U : \A t \in U : t \subseteq s => t = s
    <3>. HIDE DEF D, U
    <3>. QED  BY ONLY <2>1, LeastSubset
  <2>3. s # {}
    <3>1. <<>> \in Seq(T)
      OBVIOUS
    <3>. QED  BY <1>7, <3>1
  <2>4. Max(s) \in s /\ s \ {Max(s)} \in SUBSET D
    BY <1>1, <2>3
  <2>5. s \ {Max(s)} \notin U
    BY <2>2, <2>4
  <2>6. h[s \ {Max(s)}] \in Seq(T)
    BY <2>4, <2>5
  <2>7. q[Max(s)] \in T
    BY <1>0, <2>4
  <2>8. h[s] \in Seq(T)
    <3>1. PICK k \in Seq(T), x \in T : k = h[s \ {Max(s)}] /\ x = q[Max(s)]
      BY <2>6, <2>7
    <3>2. h[s] = Append(k, x) \/ h[s] = k
      BY <1>7, <2>3, <3>1
    <3>3. Append(k, x) \in Seq(T)
      OBVIOUS
    <3>. QED  BY <3>2, <3>3
  <2>. QED  BY <2>8
<1>9. ASSUME NEW n \in 1..Len(q)
      PROVE  Max(1..n) = n /\ 1..n \in SUBSET D /\ (1..n) \ {n} = 1..(n - 1)
  <2>1. 1..n \in SUBSET D /\ 1..n # {} /\ n \in 1..n
    BY <1>0
  <2>2. Max(1..n) \in 1..n /\ n <= Max(1..n)
    BY <1>1, <2>1
  <2>. QED  BY <1>0, <2>1, <2>2
<1>. DEFINE kept == [n \in 0..Len(q) |-> h[1..n]]
<1>10. kept \in [0..Len(q) -> Seq(T)]
  BY <1>0, <1>8
<1>11. kept[0] = <<>> /\ kept[Len(q)] = Among(q, S)
  BY <1>0, <1>6, <1>7
<1>12. ASSUME NEW n \in 1..Len(q)
       PROVE  kept[n] = IF q[n] \in S THEN Append(kept[n - 1], q[n]) ELSE kept[n - 1]
  <2>1. 1..n # {} /\ n \in 0..Len(q) /\ n - 1 \in 0..Len(q)
    BY <1>0
  <2>2. h[1..n] = IF q[n] \in S THEN Append(h[1..(n - 1)], q[n]) ELSE h[1..(n - 1)]
    BY <1>7, <1>9, <2>1
  <2>. QED  BY <2>1, <2>2
<1>. HIDE DEF kept
<1>. QED  BY <1>10, <1>11, <1>12 DEF Keeps

\* Among keeps exactly the entries that are in S, and each once if q has no two.
LEMMA AmongKeeps ==
  ASSUME NEW T, NEW q \in Seq(T), NEW S
  PROVE  /\ Among(q, S) \in Seq(T)
         /\ Range(Among(q, S)) = Range(q) \cap S
         /\ IsInjective(q) => IsInjective(Among(q, S))
<1>1. PICK kept \in [0..Len(q) -> Seq(T)] : Keeps(kept, q, S)
  BY AmongSteps
<1>. DEFINE Good(n) == /\ Range(kept[n]) = {q[i] : i \in 1..n} \cap S
                       /\ IsInjective(q) => IsInjective(kept[n])
            U == {n \in 0..Len(q) : ~Good(n)}
<1>2. Len(q) \in Nat /\ DOMAIN q = 1..Len(q) /\ \A n \in 0..Len(q) : kept[n] \in Seq(T)
  OBVIOUS
<1>3. Good(0)
  BY <1>1 DEF Range, IsInjective, Keeps
<1>4. ASSUME NEW n \in 1..Len(q), Good(n - 1)
      PROVE  Good(n)
  <2>1. n - 1 \in 0..Len(q) /\ 1..n = (1..(n - 1)) \cup {n}
    BY <1>2
  <2>2. CASE q[n] \in S
    <3>1. PICK k \in Seq(T) : k = kept[n - 1]
      BY <1>2, <2>1
    <3>2. kept[n] = Append(k, q[n])
      BY <1>1, <2>2, <3>1 DEF Keeps
    <3>3. q[n] \in T
      BY <1>2
    <3>4. /\ DOMAIN kept[n] = 1..(Len(k) + 1) /\ Len(k) \in Nat /\ DOMAIN k = 1..Len(k)
          /\ \A i \in 1..Len(k) : kept[n][i] = k[i]
          /\ kept[n][Len(k) + 1] = q[n]
      BY <3>2, <3>3
    <3>5. Range(kept[n]) = Range(k) \cup {q[n]}
      <4>1. \A x \in Range(k) \cup {q[n]} : \E i \in 1..(Len(k) + 1) : kept[n][i] = x
        BY <3>4 DEF Range
      <4>2. \A i \in 1..(Len(k) + 1) : kept[n][i] \in Range(k) \cup {q[n]}
        <5>1. \A i \in 1..(Len(k) + 1) : i \in 1..Len(k) \/ i = Len(k) + 1
          BY <3>4
        <5>2. \A i \in 1..Len(k) : kept[n][i] \in Range(k)
          BY <3>4 DEF Range
        <5>. QED  BY <3>4, <5>1, <5>2
      <4>3. \A x \in Range(kept[n]) : \E i \in 1..(Len(k) + 1) : kept[n][i] = x
        BY <3>4 DEF Range
      <4>4. \A i \in 1..(Len(k) + 1) : kept[n][i] \in Range(kept[n])
        BY <3>4 DEF Range
      <4>. QED  BY ONLY <4>1, <4>2, <4>3, <4>4
    <3>6. IsInjective(q) => IsInjective(kept[n])
      <4>. SUFFICES ASSUME IsInjective(q)
                    PROVE  IsInjective(kept[n])
        OBVIOUS
      <4>1. q[n] \notin Range(k)
        <5>1. Range(k) = {q[i] : i \in 1..(n - 1)} \cap S
          BY <1>4, <3>1
        <5>2. ASSUME NEW i \in 1..(n - 1)
              PROVE  q[i] # q[n]
          <6>1. i \in DOMAIN q /\ n \in DOMAIN q /\ i # n
            BY <1>2
          <6>. QED  BY <6>1 DEF IsInjective
        <5>. QED  BY <5>1, <5>2
      <4>2. IsInjective(k)
        BY <1>4, <3>1
      <4>3. \A i \in 1..Len(k) : kept[n][i] # q[n]
        BY <3>4, <4>1 DEF Range
      <4>4. \A i, m \in 1..Len(k) : kept[n][i] = kept[n][m] => i = m
        BY <3>4, <4>2 DEF IsInjective
      <4>5. \A i \in 1..(Len(k) + 1) : i \in 1..Len(k) \/ i = Len(k) + 1
        BY <3>4
      <4>6. \A i, m \in 1..(Len(k) + 1) : kept[n][i] = kept[n][m] => i = m
        BY <3>4, <4>3, <4>4, <4>5
      <4>. QED  BY <3>4, <4>6 DEF IsInjective
    <3>. QED  BY <1>4, <2>1, <2>2, <3>1, <3>5, <3>6
  <2>3. CASE q[n] \notin S
    BY <1>1, <1>4, <2>1, <2>3 DEF Keeps
  <2>. QED  BY <2>2, <2>3
<1>. HIDE DEF Good
<1>5. U = {}
  <2>. SUFFICES ASSUME U # {}
                PROVE  FALSE
    OBVIOUS
  <2>1. U \in SUBSET (0..Len(q)) /\ U # {}
    OBVIOUS
  <2>2. PICK n \in U : \A j \in U : n <= j
    <3>. HIDE DEF U
    <3>. QED  BY ONLY <1>2, <2>1, LeastIndex
  <2>3. n # 0
    BY <1>3
  <2>4. n \in 1..Len(q) /\ n - 1 \notin U
    BY <1>2, <2>2, <2>3
  <2>. QED  BY <1>2, <1>4, <2>2, <2>4
<1>6. Good(Len(q))
  BY <1>2, <1>5
<1>7. /\ Range(kept[Len(q)]) = Range(q) \cap S
      /\ IsInjective(q) => IsInjective(kept[Len(q)])
  BY <1>2, <1>6 DEF Good, Range
<1>. QED  BY <1>1, <1>2, <1>7 DEF Keeps

-----------------------------------------------------------------------------
\* The slots.  The queue holds what is queued, once each, and as many slots are
\* taken as jobs have one.
Taken == {"granted"} \cup Running
Holders(at) == {j \in Job : at[j] \in Taken}
Slots(q, n, at) ==
  /\ q \in Seq(Job) /\ IsInjective(q)
  /\ at \in [Job -> Stage]
  /\ Range(q) = {j \in Job : at[j] = "queued"}
  /\ n = Cardinality(Holders(at)) /\ n <= Limit

\* Cardinalities of jobs are numbers.
LEMMA JobsFinite == IsFiniteSet(Job) /\ \A at : IsFiniteSet(Holders(at))
<1>1. IsFiniteSet(Job)
  BY WorkflowAssumption, FS_Product DEF Job
<1>. QED  BY <1>1, FS_Subset DEF Holders

\* The first n entries of a queue without duplicates are n.
LEMMA PrefixSize ==
  ASSUME NEW T, NEW q \in Seq(T), IsInjective(q), NEW n \in 0..Len(q)
  PROVE  /\ IsFiniteSet({q[i] : i \in 1..n})
         /\ Cardinality({q[i] : i \in 1..n}) = n
<1>. DEFINE first == [i \in 1..n |-> q[i]]
            lucky == {q[i] : i \in 1..n}
<1>1. Len(q) \in Nat /\ DOMAIN q = 1..Len(q) /\ n \in Nat
  OBVIOUS
<1>2. first \in Bijection(1..n, lucky)
  <2>1. first \in [1..n -> lucky] /\ \A x \in lucky : \E i \in 1..n : first[i] = x
    OBVIOUS
  <2>2. \A i, k \in 1..n : first[i] = first[k] => i = k
    BY <1>1 DEF IsInjective
  <2>. QED  BY <2>1, <2>2 DEF Bijection, Injection, Surjection, IsInjective
<1>3. IsFiniteSet(1..n) /\ Cardinality(1..n) = n
  BY <1>1, FS_Interval
<1>4. ExistsBijection(1..n, lucky)
  BY <1>2 DEF ExistsBijection
<1>. HIDE DEF lucky
<1>5. IsFiniteSet(lucky) /\ Cardinality(lucky) = n
  BY <1>3, <1>4, FS_Bijection
<1>. QED  BY <1>5 DEF lucky

\* Drain serves the queue in order until no slot is free or nobody waits.
LEMMA DrainKeeps ==
  ASSUME NEW q, NEW n, NEW at, Slots(q, n, at), shutdown' # "open" => q = <<>>,
         Drain(q, n, at)
  PROVE  /\ Slots(queue', active', stage')
         /\ queue' # <<>> => active' = Limit
         /\ shutdown' # "open" => queue' = <<>>
         /\ \A j \in Job : \/ stage'[j] = at[j]
                           \/ at[j] = "queued" /\ stage'[j] = "granted"
<1>1. /\ IsFiniteSet(Holders(at)) /\ n = Cardinality(Holders(at)) /\ n \in Nat
      /\ at \in [Job -> Stage]
      /\ q \in Seq(Job) /\ IsInjective(q) /\ Range(q) = {j \in Job : at[j] = "queued"}
  BY JobsFinite, FS_CardinalityType DEF Slots
<1>2. Limit \in Nat /\ n \in Nat /\ n <= Limit
  BY <1>1, WorkflowAssumption DEF Slots
<1>3. PICK len \in Nat : len = Len(q)
  BY <1>1
<1>4. DOMAIN q = 1..len
  BY <1>1, <1>3
<1>. DEFINE free == IF shutdown' = "open" /\ n < Limit THEN Limit - n ELSE 0
<1>5. PICK k \in Nat :
        /\ k = SmallerOf(free, len)
        /\ k <= len /\ n + k <= Limit
        /\ shutdown' = "open" /\ k # len => n + k = Limit
  <2>1. /\ free \in Nat /\ n + free <= Limit
        /\ shutdown' = "open" => n + free = Limit
    BY <1>2
  <2>. HIDE DEF free
  <2>2. /\ SmallerOf(free, len) \in Nat /\ SmallerOf(free, len) <= len
        /\ SmallerOf(free, len) <= free
        /\ SmallerOf(free, len) # len => SmallerOf(free, len) = free
    BY <2>1 DEF SmallerOf
  <2>. QED  BY <1>2, <2>1, <2>2
<1>. DEFINE lucky == {q[i] : i \in 1..k}
            rest == len - k
<1>6. queue' = SubSeq(q, k + 1, len)
  BY <1>3, <1>5 DEF Drain
<1>7. active' = n + k
  BY <1>3, <1>5 DEF Drain
<1>8. stage' = [j \in Job |-> IF j \in lucky THEN "granted" ELSE at[j]]
  BY <1>3, <1>5 DEF Drain
<1>9. rest \in Nat /\ (rest = 0 => k = len) /\ \A i \in 1..rest : k + i \in 1..len
  BY <1>5
<1>10. /\ queue' \in Seq(Job) /\ Len(queue') = rest
       /\ \A i \in 1..rest : queue'[i] = q[k + i]
  <2>1. PICK T, low, high : T = Job /\ low = k + 1 /\ high = len
    OBVIOUS
  <2>2. low \in Int /\ high \in Int
    BY <2>1
  <2>3. \A i \in low..high : i \in DOMAIN q
    BY <1>4, <1>5, <2>1
  <2>4. \A i \in low..high : q[i] \in T
    BY <1>1, <2>1, <2>3
  <2>5. /\ SubSeq(q, low, high) \in Seq(T)
        /\ Len(SubSeq(q, low, high)) = IF low <= high THEN high - low + 1 ELSE 0
        /\ \A i \in 1..(high - low + 1) : SubSeq(q, low, high)[i] = q[low + i - 1]
    BY ONLY <2>2, <2>4, SubSeqProperties
  <2>6. (IF low <= high THEN high - low + 1 ELSE 0) = rest
    BY ONLY <1>5, <2>1
  <2>7. \A i \in 1..rest : low + i - 1 = k + i /\ i \in 1..(high - low + 1)
    BY ONLY <1>5, <2>1
  <2>. QED  BY <1>6, <2>1, <2>5, <2>6, <2>7
<1>11. DOMAIN queue' = 1..rest
  BY <1>10
<1>12. IsInjective(queue')
  <2>1. ASSUME NEW i \in 1..rest, NEW m \in 1..rest, queue'[i] = queue'[m]
        PROVE  i = m
    <3>1. k + i \in DOMAIN q /\ k + m \in DOMAIN q
      BY <1>4, <1>9
    <3>2. q[k + i] = q[k + m]
      BY <1>10, <2>1
    <3>3. k + i = k + m
      BY <1>1, <3>1, <3>2 DEF IsInjective
    <3>. QED  BY <1>5, <3>3
  <2>. QED  BY <1>11, <2>1 DEF IsInjective
<1>13. Range(queue') = Range(q) \ lucky
  <2>1. ASSUME NEW i \in 1..rest
        PROVE  queue'[i] \in Range(q) \ lucky
    <3>1. k + i \in DOMAIN q /\ queue'[i] = q[k + i]
      BY <1>4, <1>9, <1>10
    <3>2. ASSUME NEW m \in 1..k
          PROVE  q[m] # q[k + i]
      <4>1. m \in DOMAIN q /\ m # k + i
        BY <1>4, <1>5
      <4>. QED  BY <1>1, <3>1, <4>1 DEF IsInjective
    <3>. QED  BY <3>1, <3>2 DEF Range
  <2>2. ASSUME NEW x \in Range(q) \ lucky
        PROVE  \E i \in 1..rest : queue'[i] = x
    <3>1. PICK m \in 1..len : q[m] = x
      BY <1>4 DEF Range
    <3>2. m \notin 1..k
      BY <2>2, <3>1
    <3>3. m - k \in 1..rest /\ k + (m - k) = m
      BY <1>5, <3>2
    <3>. QED  BY <1>10, <3>1, <3>3
  <2>3. \A x \in Range(queue') : \E i \in 1..rest : queue'[i] = x
    BY <1>11 DEF Range
  <2>4. \A i \in 1..rest : queue'[i] \in Range(queue')
    BY <1>11 DEF Range
  <2>. QED  BY <2>1, <2>2, <2>3, <2>4
<1>14. IsFiniteSet(lucky) /\ Cardinality(lucky) = k
  <2>1. PICK T : T = Job
    OBVIOUS
  <2>2. k \in 0..Len(q)
    BY <1>3, <1>5
  <2>3. q \in Seq(T) /\ IsInjective(q) /\ k \in 0..Len(q)
    BY <1>1, <2>1, <2>2
  <2>. QED  BY ONLY <2>3, PrefixSize
<1>15. lucky \subseteq Range(q)
  <2>1. 1..k \subseteq DOMAIN q
    BY <1>4, <1>5
  <2>. QED  BY <2>1 DEF Range
<1>16. queue' # <<>> => rest # 0
  BY <1>10
<1>17. shutdown' # "open" => queue' = <<>>
  <2>1. q = <<>> => len = 0
    BY <1>3
  <2>2. len = 0 => rest = 0
    BY <1>5
  <2>. QED  BY <1>16, <2>1, <2>2
<1>18. queue' # <<>> => active' = Limit
  BY <1>5, <1>7, <1>9, <1>16, <1>17
<1>. HIDE DEF lucky
<1>19. Holders(stage') = Holders(at) \cup lucky /\ Holders(at) \cap lucky = {}
  BY <1>1, <1>8, <1>15 DEF Holders, Taken, Running
<1>20. Cardinality(Holders(stage')) = n + k
  <2>1. Cardinality(Holders(at) \cap lucky) = 0
    BY <1>19, FS_EmptySet
  <2>2. Cardinality(Holders(at) \cup lucky)
          = Cardinality(Holders(at)) + Cardinality(lucky) - Cardinality(Holders(at) \cap lucky)
    BY <1>1, <1>14, FS_Union
  <2>3. n + k - 0 = n + k
    BY <1>2, <1>5
  <2>. QED  BY <1>1, <1>14, <1>19, <2>1, <2>2, <2>3
<1>21. stage' \in [Job -> Stage]
  BY <1>1, <1>8 DEF Stage
<1>22. Range(queue') = {j \in Job : stage'[j] = "queued"}
  BY <1>1, <1>8, <1>13, <1>15
<1>23. \A j \in Job : stage'[j] = at[j] \/ (at[j] = "queued" /\ stage'[j] = "granted")
  <2>1. \A j \in lucky : at[j] = "queued"
    BY <1>1, <1>15
  <2>2. \A j \in Job : stage'[j] = IF j \in lucky THEN "granted" ELSE at[j]
    BY <1>8
  <2>. QED  BY ONLY <2>1, <2>2
<1>24. active' <= Limit
  BY <1>5, <1>7
<1>. QED
  BY <1>7, <1>10, <1>12, <1>17, <1>18, <1>20, <1>21, <1>22, <1>23, <1>24 DEF Slots

-----------------------------------------------------------------------------
\* Only the steps of its plan are ever begun, and those under way are in the
\* batch the call waits for.
OwnedBy(c) ==
  /\ phase[c] = "idle" => plan[c] = NoPlan
  /\ batch[c] \subseteq StepsOf(c)
  /\ batch[c] # {} => phase[c] = "running"
  /\ plan[c].sequential => \A s, t \in batch[c] : s = t
  /\ \A s \in Step :
       /\ stage[<<c, s>>] # "unstarted" => s \in StepsOf(c)
       /\ stage[<<c, s>>] \in {"queued"} \cup Taken => s \in batch[c]
Owned == \A c \in Call : OwnedBy(c)

\* Only an aborted call has cancelled steps, and a shutdown aborts all that run.
Cancels ==
  /\ \A j \in Job : stage[j] = "cancelled" \/ cause[j] = "cancelled" => j[1] \in aborted
  /\ shutdown # "open" => /\ queue = <<>>
                          /\ \A c \in Call : phase[c] = "running" => c \in aborted

\* What began had all it depends on: the first half of OrderKept.
Ordered ==
  \A c \in Call : \A s \in StepsOf(c) :
    stage[<<c, s>>] \in {"queued", "success"} \cup Taken =>
      \A d \in plan[c].after[s] : stage[<<c, d>>] = "success"

IInv == TypeOK /\ SlotsShared /\ Owned /\ Cancels /\ Ordered /\ StepsAccounted

\* What the assumption says of a plan.
LEMMA PlanFacts ==
  ASSUME NEW p \in (UNION Range(Plans)) \cup {NoPlan}
  PROVE  /\ p.order \in Seq(Step) /\ IsInjective(p.order)
         /\ Range(p.order) \subseteq Step
         /\ p.after \in [Step -> SUBSET Range(p.order)]
         /\ p.sequential \in BOOLEAN
<1>1. CASE p = NoPlan
  <2>1. p.order = <<>> /\ p.after = [s \in Step |-> {}] /\ p.sequential = FALSE
    BY <1>1 DEF NoPlan
  <2>2. Range(p.order) = {}
    BY <2>1 DEF Range
  <2>3. <<>> \in Seq(Step) /\ IsInjective(<<>>)
    BY DEF IsInjective
  <2>. QED  BY <2>1, <2>2, <2>3
<1>2. CASE p \in UNION Range(Plans)
  <2>1. /\ p.order \in Seq(Step) /\ IsInjective(p.order)
        /\ p.after \in [Step -> SUBSET Range(p.order)]
        /\ p.sequential \in BOOLEAN
    BY <1>2, WorkflowAssumption
  <2>. QED  BY <2>1 DEF Range
<1>. QED  BY <1>1, <1>2

\* The same of the plan of a call.
LEMMA StepsTyped ==
  ASSUME TypeOK, NEW c \in Call
  PROVE  /\ plan[c].order \in Seq(Step) /\ IsInjective(plan[c].order)
         /\ StepsOf(c) \subseteq Step
         /\ plan[c].after \in [Step -> SUBSET StepsOf(c)]
         /\ plan[c].sequential \in BOOLEAN
<1>1. plan[c] \in (UNION Range(Plans)) \cup {NoPlan}
  BY DEF TypeOK
<1>. QED  BY <1>1, PlanFacts DEF StepsOf

\* SlotsShared in the terms of Slots.
LEMMA SharedSlots ==
  TypeOK => (SlotsShared <=> Slots(queue, active, stage) /\ (queue # <<>> => active = Limit))
<1>1. InStage({"granted"} \cup Running) = Holders(stage)
  BY DEF InStage, Holders, Taken
<1>2. InStage({"queued"}) = {j \in Job : stage[j] = "queued"}
  BY DEF InStage
<1>3. TypeOK => active <= Limit /\ queue \in Seq(Job) /\ stage \in [Job -> Stage]
  BY WorkflowAssumption DEF TypeOK
<1>. QED  BY <1>1, <1>2, <1>3 DEF SlotsShared, Slots

\* A slot that is given back goes to the first waiter.
LEMMA ReleaseKeeps ==
  ASSUME IInv, NEW over \in SUBSET Holders(stage), NEW at \in [Job -> Stage],
         \A j \in Job : IF j \in over THEN at[j] \in Over
                        ELSE \/ at[j] = stage[j]
                             \/ stage[j] \in Taken /\ at[j] \in Taken,
         shutdown' # "open" => shutdown # "open",
         Release(over, at)
  PROVE  /\ Slots(queue', active', stage')
         /\ queue' # <<>> => active' = Limit
         /\ shutdown' # "open" => queue' = <<>>
         /\ \A j \in Job : \/ stage'[j] = at[j]
                           \/ at[j] = "queued" /\ stage'[j] = "granted"
<1>1. Slots(queue, active, stage) /\ (shutdown' # "open" => queue = <<>>)
  BY SharedSlots DEF IInv, Cancels
<1>2. Holders(at) = Holders(stage) \ over
  BY DEF Holders, Taken, Running, Over
<1>3. {j \in Job : at[j] = "queued"} = {j \in Job : stage[j] = "queued"}
  BY DEF Holders, Taken, Running, Over
<1>4. /\ IsFiniteSet(Holders(stage)) /\ IsFiniteSet(over)
      /\ Cardinality(over) \in Nat /\ Cardinality(Holders(stage)) \in Nat
      /\ Cardinality(Holders(stage) \ over) = Cardinality(Holders(stage)) - Cardinality(over)
  <2>1. IsFiniteSet(Holders(stage)) /\ IsFiniteSet(over)
    BY JobsFinite, FS_Subset
  <2>2. Cardinality(Holders(stage) \ over)
          = Cardinality(Holders(stage)) - Cardinality(Holders(stage) \cap over)
    BY <2>1, FS_Difference
  <2>3. Holders(stage) \cap over = over
    OBVIOUS
  <2>. QED  BY <2>1, <2>2, <2>3, FS_CardinalityType
<1>5. active - Cardinality(over) <= Limit /\ active - Cardinality(over) = Cardinality(Holders(at))
  BY <1>1, <1>2, <1>4, WorkflowAssumption DEF Slots
<1>6. Slots(queue, active - Cardinality(over), at)
  BY <1>1, <1>3, <1>5 DEF Slots
<1>. QED  BY <1>1, <1>6, DrainKeeps DEF Release

\* A step that is under way goes on or comes to its end: what all the steps
\* keep that begin none.
LEMMA AdvanceKeeps ==
  ASSUME IInv, UNCHANGED <<plan, phase, batch>>,
         aborted \subseteq aborted', aborted' \subseteq Call,
         run' \in [Call -> {"none", "running", "cancelling", "completed", "failed", "cancelled"}],
         \A c \in Call : run'[c] = "completed" => run[c] = "completed",
         cause' \in [Job -> {"none", "timeout", "cancelled", "failed"}],
         process' \in [Job -> {"none", "alive", "failed"}],
         shutdown' \in {"open", "draining", "finalizing", "closed"},
         Slots(queue', active', stage'), queue' # <<>> => active' = Limit,
         shutdown' # "open" => queue' = <<>>,
         \A j \in Job : \/ stage'[j] = stage[j]
                        \/ stage[j] \in {"queued"} \cup Taken /\ stage'[j] \in Taken \cup Over,
         \A j \in Job : stage'[j] = "cancelled" \/ cause'[j] = "cancelled" =>
           stage[j] = "cancelled" \/ cause[j] = "cancelled" \/ j[1] \in aborted',
         shutdown' # "open" =>
           shutdown # "open" \/ \A c \in Call : phase[c] = "running" => c \in aborted'
  PROVE  IInv'
<1>1. TypeOK'
  <2>1. active' \in 0..Limit
    BY JobsFinite, FS_CardinalityType, WorkflowAssumption DEF Slots
  <2>. QED  BY <2>1 DEF IInv, TypeOK, Slots
<1>2. SlotsShared'
  <2>1. (TypeOK => (SlotsShared <=> Slots(queue, active, stage)
                                      /\ (queue # <<>> => active = Limit)))'
    BY SharedSlots, PTL
  <2>. QED  BY <1>1, <2>1 DEF Slots, Holders
<1>3. \A c \in Call, s \in Step : <<c, s>> \in Job
  BY DEF Job
<1>4. Owned'
  BY <1>3 DEF IInv, Owned, OwnedBy, StepsOf, Taken, Running, Over
<1>5. Cancels'
  BY DEF IInv, Cancels
<1>6. \A c \in Call : StepsOf(c) \subseteq Step
  BY StepsTyped DEF IInv
<1>7. \A c \in Call : StepsOf(c)' = StepsOf(c) /\ plan'[c] = plan[c] /\ phase'[c] = phase[c]
  BY DEF StepsOf
<1>8. \A c \in Call, s \in Step : plan[c].after[s] \subseteq Step
  BY StepsTyped DEF IInv
<1>9. Ordered'
  <2>. SUFFICES ASSUME NEW c \in Call, NEW s \in StepsOf(c),
                       stage'[<<c, s>>] \in {"queued", "success"} \cup Taken,
                       NEW d \in plan[c].after[s]
                PROVE  stage'[<<c, d>>] = "success"
    BY <1>7 DEF Ordered
  <2>1. <<c, s>> \in Job /\ <<c, d>> \in Job
    BY <1>3, <1>6, <1>8
  <2>2. stage[<<c, s>>] \in {"queued", "success"} \cup Taken
    BY <2>1 DEF Taken, Running, Over
  <2>3. stage[<<c, d>>] = "success"
    BY <2>2 DEF IInv, Ordered
  <2>. QED  BY <2>1, <2>3 DEF Taken, Running
<1>10. StepsAccounted'
  <2>. SUFFICES ASSUME NEW c \in Call, phase[c] = "returned"
                PROVE  /\ \A s \in StepsOf(c) : stage'[<<c, s>>] = stage[<<c, s>>]
                       /\ \A s \in StepsOf(c) : \A d \in plan[c].after[s] :
                            stage'[<<c, d>>] = stage[<<c, d>>]
    BY <1>7 DEF IInv, StepsAccounted
  <2>1. batch[c] = {}
    BY DEF IInv, Owned, OwnedBy
  <2>2. \A s \in Step : stage[<<c, s>>] \notin {"queued"} \cup Taken
    BY <2>1 DEF IInv, Owned, OwnedBy
  <2>. QED  BY <1>3, <1>6, <1>8, <2>2
<1>. QED  BY <1>1, <1>2, <1>4, <1>5, <1>9, <1>10 DEF IInv

\* A job that is under way belongs to a call that is running.
LEMMA JobFacts ==
  ASSUME IInv, NEW j \in Job
  PROVE  /\ j[1] \in Call
         /\ stage[j] \in {"queued"} \cup Taken => phase[j[1]] = "running"
         /\ stage[j] \in {"queued"} \cup Taken /\ shutdown # "open" => j[1] \in aborted
<1>1. PICK c \in Call, s \in Step : j = <<c, s>>
  BY DEF Job
<1>2. stage[j] \in {"queued"} \cup Taken => phase[c] = "running"
  BY <1>1 DEF IInv, Owned, OwnedBy
<1>. QED  BY <1>1, <1>2 DEF IInv, Cancels

\* Jobs with a process move on, or give their slots back.
LEMMA MoveKeeps ==
  ASSUME IInv, NEW found, NEW why, DOMAIN found \subseteq InStage(Running),
         \A j \in DOMAIN found :
           /\ found[j] \in {"over", "success", "failed", "terming", "killing"}
           /\ why[j] \in {"none", "timeout", "cancelled", "failed"}
           /\ why[j] = "cancelled" => cause[j] = "cancelled" \/ j[1] \in aborted,
         UNCHANGED calls, shutdown' \in {"open", "draining", "finalizing", "closed"},
         shutdown' # "open" => shutdown # "open",
         Move(found, why)
  PROVE  IInv'
<1>. DEFINE hit == DOMAIN found
            over == {j \in hit : found[j] \in {"over"} \cup Over}
            At(j) == IF found[j] = "over" THEN ResultOf(why[j]) ELSE found[j]
            at == [j \in Job |-> IF j \in hit THEN At(j) ELSE stage[j]]
<1>1. hit \subseteq Holders(stage) /\ hit \subseteq Job
  BY DEF InStage, Holders, Taken
<1>2. \A j \in hit : IF j \in over THEN At(j) \in Over ELSE At(j) \in Taken
  BY DEF Over, Taken, Running, ResultOf
<1>3. at \in [Job -> Stage]
  BY <1>2 DEF IInv, TypeOK, Stage, Taken
<1>4. \A j \in Job : IF j \in over THEN at[j] \in Over
                     ELSE at[j] = stage[j] \/ (stage[j] \in Taken /\ at[j] \in Taken)
  BY <1>1, <1>2 DEF Holders
<1>5. Release(over, at)
  BY DEF Move
<1>6. over \in SUBSET Holders(stage)
  BY <1>1
<1>7. \A j \in Job : at[j] = "cancelled" => stage[j] = "cancelled" \/ (j \in hit /\ why[j] = "cancelled")
  BY DEF ResultOf
<1>8. \A j \in hit : stage[j] \in Taken
  BY <1>1 DEF Holders
<1>9. /\ cause' \in [Job -> {"none", "timeout", "cancelled", "failed"}]
      /\ process' \in [Job -> {"none", "alive", "failed"}]
      /\ \A j \in Job : cause'[j] = "cancelled" =>
           cause[j] = "cancelled" \/ (j \in hit /\ why[j] = "cancelled")
  BY <1>1 DEF Move, IInv, TypeOK
<1>. HIDE DEF at, over
<1>10. /\ Slots(queue', active', stage')
       /\ queue' # <<>> => active' = Limit
       /\ shutdown' # "open" => queue' = <<>>
       /\ \A j \in Job : stage'[j] = at[j] \/ (at[j] = "queued" /\ stage'[j] = "granted")
  BY <1>3, <1>4, <1>5, <1>6, ReleaseKeeps
<1>11. \A j \in Job : \/ stage'[j] = stage[j]
                      \/ stage[j] \in {"queued"} \cup Taken /\ stage'[j] \in Taken \cup Over
  BY <1>4, <1>6, <1>10 DEF Holders, Taken, Running, Over
<1>12. \A j \in Job : stage'[j] = "cancelled" \/ cause'[j] = "cancelled" =>
         stage[j] = "cancelled" \/ cause[j] = "cancelled" \/ j[1] \in aborted'
  BY <1>7, <1>9, <1>10 DEF calls
<1>13. /\ UNCHANGED <<plan, phase, batch>>
       /\ aborted \subseteq aborted' /\ aborted' \subseteq Call
       /\ run' \in [Call -> {"none", "running", "cancelling", "completed", "failed", "cancelled"}]
       /\ \A c \in Call : run'[c] = "completed" => run[c] = "completed"
  BY DEF calls, IInv, TypeOK
<1>. QED  BY <1>9, <1>10, <1>11, <1>12, <1>13, AdvanceKeeps

\* The same of a single job.
LEMMA MoveOneKeeps ==
  ASSUME IInv, NEW j \in Job, stage[j] \in Running, NEW found, NEW why,
         found \in {"over", "success", "failed", "terming", "killing"},
         why \in {"none", "timeout", "cancelled", "failed"},
         why = "cancelled" => cause[j] = "cancelled",
         UNCHANGED calls, UNCHANGED shutdown,
         MoveOne(j, found, why)
  PROVE  IInv'
<1>. DEFINE f == [x \in {j} |-> found]
            w == [x \in {j} |-> why]
<1>1. DOMAIN f \subseteq InStage(Running)
  BY DEF InStage
<1>2. \A x \in DOMAIN f :
        /\ f[x] \in {"over", "success", "failed", "terming", "killing"}
        /\ w[x] \in {"none", "timeout", "cancelled", "failed"}
        /\ w[x] = "cancelled" => cause[x] = "cancelled" \/ x[1] \in aborted
  OBVIOUS
<1>3. /\ shutdown' \in {"open", "draining", "finalizing", "closed"}
      /\ shutdown' # "open" => shutdown # "open"
  BY DEF IInv, TypeOK
<1>4. Move(f, w)
  BY DEF MoveOne
<1>. HIDE DEF f, w
<1>. QED  BY <1>1, <1>2, <1>3, <1>4, MoveKeeps

\* Every action keeps the invariant; first those of a single step.
LEMMA LaunchKeeps ==
  ASSUME IInv, NEW j \in Job, Launch(j)
  PROVE  IInv'
<1>1. /\ stage[j] = "granted" /\ UNCHANGED <<calls, cause, shutdown>>
      /\ {j} \in SUBSET Holders(stage) /\ stage \in [Job -> Stage]
      /\ process \in [Job -> {"none", "alive", "failed"}]
  BY DEF Launch, Holders, Taken, IInv, TypeOK
<1>2. /\ UNCHANGED <<plan, phase, batch>>
      /\ aborted \subseteq aborted' /\ aborted' \subseteq Call
      /\ run' \in [Call -> {"none", "running", "cancelling", "completed", "failed", "cancelled"}]
      /\ \A c \in Call : run'[c] = "completed" => run[c] = "completed"
      /\ cause' \in [Job -> {"none", "timeout", "cancelled", "failed"}]
      /\ shutdown' \in {"open", "draining", "finalizing", "closed"}
      /\ shutdown' # "open" => shutdown # "open"
  BY <1>1 DEF calls, IInv, TypeOK
<1>3. ASSUME NEW result \in {"cancelled", "failed"},
             result = "cancelled" => j[1] \in aborted,
             Release({j}, [stage EXCEPT ![j] = result]), UNCHANGED process
      PROVE  IInv'
  <2>. DEFINE at == [stage EXCEPT ![j] = result]
              over == {j}
  <2>1. /\ at \in [Job -> Stage]
        /\ \A k \in Job : at[k] = IF k = j THEN result ELSE stage[k]
    BY <1>1 DEF Stage, Over
  <2>2. \A k \in Job : IF k \in over THEN at[k] \in Over
                       ELSE at[k] = stage[k] \/ (stage[k] \in Taken /\ at[k] \in Taken)
    BY <2>1 DEF Over
  <2>3. over \in SUBSET Holders(stage) /\ Release(over, at)
    BY <1>1, <1>3
  <2>. HIDE DEF at, over
  <2>4. /\ Slots(queue', active', stage')
        /\ queue' # <<>> => active' = Limit
        /\ shutdown' # "open" => queue' = <<>>
        /\ \A k \in Job : stage'[k] = at[k] \/ (at[k] = "queued" /\ stage'[k] = "granted")
    BY <1>2, <2>1, <2>2, <2>3, ReleaseKeeps
  <2>5. \A k \in Job : \/ stage'[k] = stage[k]
                       \/ stage[k] \in {"queued"} \cup Taken /\ stage'[k] \in Taken \cup Over
    BY <1>1, <2>1, <2>4 DEF Taken, Over
  <2>6. \A k \in Job : stage'[k] = "cancelled" \/ cause'[k] = "cancelled" =>
          stage[k] = "cancelled" \/ cause[k] = "cancelled" \/ k[1] \in aborted'
    BY <1>1, <1>3, <2>1, <2>4 DEF calls
  <2>7. process' \in [Job -> {"none", "alive", "failed"}]
    BY <1>1, <1>3
  <2>. QED  BY <1>2, <2>4, <2>5, <2>6, <2>7, AdvanceKeeps
<1>4. CASE shutdown # "open" \/ j[1] \in aborted
  <2>1. j[1] \in aborted
    BY <1>1, <1>4, JobFacts DEF Taken
  <2>2. Release({j}, [stage EXCEPT ![j] = "cancelled"]) /\ UNCHANGED process
    BY <1>4 DEF Launch
  <2>. QED  BY <1>3, <2>1, <2>2
<1>5. CASE Release({j}, [stage EXCEPT ![j] = "failed"]) /\ UNCHANGED process
  BY <1>3, <1>5
<1>6. CASE /\ \E p \in {"alive", "failed"} : process' = [process EXCEPT ![j] = p]
           /\ stage' = [stage EXCEPT ![j] = "running"]
           /\ UNCHANGED <<queue, active>>
  <2>1. /\ stage' \in [Job -> Stage]
        /\ \A k \in Job : stage'[k] = IF k = j THEN "running" ELSE stage[k]
    BY <1>1, <1>6 DEF Stage, Running
  <2>2. Holders(stage') = Holders(stage)
    BY <1>1, <2>1 DEF Holders, Taken, Running
  <2>3. {k \in Job : stage'[k] = "queued"} = {k \in Job : stage[k] = "queued"}
    BY <1>1, <2>1
  <2>4. Slots(queue, active, stage) /\ (queue # <<>> => active = Limit)
    BY SharedSlots DEF IInv
  <2>5. Slots(queue', active', stage') /\ (queue' # <<>> => active' = Limit)
    BY <1>6, <2>1, <2>2, <2>3, <2>4 DEF Slots
  <2>6. shutdown' # "open" => queue' = <<>>
    BY <1>1, <1>6 DEF IInv, Cancels
  <2>7. \A k \in Job : \/ stage'[k] = stage[k]
                       \/ stage[k] \in {"queued"} \cup Taken /\ stage'[k] \in Taken \cup Over
    BY <1>1, <2>1 DEF Taken, Running
  <2>8. \A k \in Job : stage'[k] = "cancelled" \/ cause'[k] = "cancelled" =>
          stage[k] = "cancelled" \/ cause[k] = "cancelled" \/ k[1] \in aborted'
    BY <1>1, <2>1 DEF calls
  <2>9. process' \in [Job -> {"none", "alive", "failed"}]
    BY <1>1, <1>6
  <2>. QED  BY <1>2, <2>5, <2>6, <2>7, <2>8, <2>9, AdvanceKeeps
<1>. QED  BY <1>4, <1>5, <1>6 DEF Launch

\* The events of a process and its timers.
LEMMA ProcessKeeps ==
  ASSUME IInv, NEW j \in Job,
         SpawnError(j) \/ Close(j) \/ Timeout(j) \/ KillTimer(j) \/ Watchdog(j)
  PROVE  IInv'
<1>1. cause[j] \in {"none", "timeout", "cancelled", "failed"}
  BY DEF IInv, TypeOK
<1>2. CASE SpawnError(j)
  BY <1>2, MoveOneKeeps DEF SpawnError, Running
<1>3. CASE Close(j)
  BY <1>1, <1>3, MoveOneKeeps DEF Close
<1>4. CASE Timeout(j)
  BY <1>1, <1>4, MoveOneKeeps DEF Timeout, Signalled, Latch, Running
<1>5. CASE KillTimer(j)
  BY <1>1, <1>5, MoveOneKeeps DEF KillTimer, Signalled, Running
<1>6. CASE Watchdog(j)
  BY <1>1, <1>6, MoveOneKeeps DEF Watchdog, Running
<1>. QED  BY <1>2, <1>3, <1>4, <1>5, <1>6

\* The deadline of the shutdown gives up every process there is.
LEMMA ExpireKeeps ==
  ASSUME IInv, Expire
  PROVE  IInv'
<1>. DEFINE found == [j \in InStage(Running) |-> "over"]
            why == [j \in InStage(Running) |-> Latch(j, "cancelled")]
<1>1. /\ shutdown = "draining" /\ shutdown' = "finalizing" /\ UNCHANGED calls
      /\ Move(found, why)
  BY DEF Expire
<1>2. \A j \in InStage(Running) : j \in Job /\ j[1] \in aborted
  BY <1>1, JobFacts DEF InStage, Taken
<1>3. DOMAIN found \subseteq InStage(Running)
  OBVIOUS
<1>4. \A j \in DOMAIN found :
        /\ found[j] \in {"over", "success", "failed", "terming", "killing"}
        /\ why[j] \in {"none", "timeout", "cancelled", "failed"}
        /\ why[j] = "cancelled" => cause[j] = "cancelled" \/ j[1] \in aborted
  BY <1>2 DEF Latch, IInv, TypeOK
<1>5. /\ shutdown' \in {"open", "draining", "finalizing", "closed"}
      /\ shutdown' # "open" => shutdown # "open"
  BY <1>1
<1>. HIDE DEF found, why
<1>. QED  BY <1>1, <1>3, <1>4, <1>5, MoveKeeps

\* The end of the shutdown touches neither calls nor slots.
LEMMA ClosedKeeps ==
  ASSUME IInv, Closed
  PROVE  IInv'
<1>1. /\ UNCHANGED <<plan, phase, batch, aborted, run, queue, active, stage, cause, process>>
      /\ shutdown # "open" /\ shutdown' = "closed"
  BY DEF Closed, calls, jobs
<1>2. Slots(queue', active', stage') /\ (queue' # <<>> => active' = Limit)
  BY <1>1, SharedSlots DEF IInv
<1>3. /\ aborted' \subseteq Call
      /\ run' \in [Call -> {"none", "running", "cancelling", "completed", "failed", "cancelled"}]
      /\ cause' \in [Job -> {"none", "timeout", "cancelled", "failed"}]
      /\ process' \in [Job -> {"none", "alive", "failed"}]
      /\ shutdown' \in {"open", "draining", "finalizing", "closed"}
      /\ queue' = <<>>
  BY <1>1 DEF IInv, TypeOK, Cancels
<1>. QED  BY <1>1, <1>2, <1>3, AdvanceKeeps

\* An abort takes the waiters of its calls out of the queue and ends, or begins
\* to terminate, what runs.
LEMMA AbortKeeps ==
  ASSUME IInv, NEW cs \in SUBSET Call, Abort(cs),
         run' \in [Call -> {"none", "running", "cancelling", "completed", "failed", "cancelled"}],
         \A c \in Call : run'[c] = "completed" => run[c] = "completed",
         shutdown' \in {"open", "draining", "finalizing", "closed"},
         shutdown' # "open" =>
           shutdown # "open" \/ \A c \in Call : phase[c] = "running" => c \in cs
  PROVE  IInv'
<1>. DEFINE hit == {j \in InStage({"running"}) : j[1] \in cs}
            out == {j \in InStage({"queued"}) : j[1] \in cs}
            left == Among(queue, Job \ out)
<1>1. PICK over \in SUBSET hit :
        /\ process' = [j \in Job |-> IF j \in over THEN "none" ELSE process[j]]
        /\ cause' = [j \in Job |-> IF j \in hit \ over THEN "cancelled" ELSE cause[j]]
        /\ Drain(left, active - Cardinality(over),
                 [j \in Job |-> CASE j \in out \cup over -> "cancelled"
                                  [] j \in hit \ over -> "terming"
                                  [] OTHER -> stage[j]])
  BY DEF Abort
<1>. DEFINE at == [j \in Job |-> CASE j \in out \cup over -> "cancelled"
                                   [] j \in hit \ over -> "terming"
                                   [] OTHER -> stage[j]]
<1>2. /\ hit \subseteq Job /\ out \subseteq Job /\ over \subseteq hit
      /\ \A j \in hit : stage[j] = "running" /\ j[1] \in cs
      /\ \A j \in out : stage[j] = "queued" /\ j[1] \in cs
      /\ \A j \in Job : stage[j] = "queued" /\ j[1] \in cs => j \in out
  BY DEF InStage
<1>3. aborted' = aborted \cup cs /\ UNCHANGED <<plan, phase, batch>>
  BY DEF Abort
<1>4. \A j \in Job : at[j] = IF j \in out \cup over THEN "cancelled"
                             ELSE IF j \in hit THEN "terming" ELSE stage[j]
  <2>1. \A j \in Job : ~(j \in out \cup over /\ j \in hit \ over)
    BY <1>2
  <2>. HIDE DEF hit, out
  <2>. QED  BY <2>1
<1>5. at \in [Job -> Stage]
  BY DEF IInv, TypeOK, Stage, Running, Over
<1>6. Slots(queue, active, stage)
  BY SharedSlots DEF IInv
<1>7. /\ left \in Seq(Job) /\ IsInjective(left)
      /\ Range(left) = Range(queue) \cap (Job \ out)
  <2>1. PICK T : T = Job
    OBVIOUS
  <2>2. queue \in Seq(T) /\ IsInjective(queue)
    BY <1>6, <2>1 DEF Slots
  <2>. HIDE DEF out
  <2>3. /\ left \in Seq(T) /\ Range(left) = Range(queue) \cap (Job \ out)
        /\ IsInjective(queue) => IsInjective(left)
    BY <2>2, AmongKeeps
  <2>. QED  BY <2>1, <2>2, <2>3
<1>. HIDE DEF hit, out, left, at
<1>8. Range(left) = {j \in Job : at[j] = "queued"}
  BY <1>2, <1>4, <1>6, <1>7 DEF Slots
<1>9. Holders(at) = Holders(stage) \ over /\ over \subseteq Holders(stage)
  BY <1>2, <1>4 DEF Holders, Taken, Running
<1>10. active - Cardinality(over) = Cardinality(Holders(at)) /\ active - Cardinality(over) <= Limit
  <2>1. IsFiniteSet(Holders(stage)) /\ IsFiniteSet(over)
    BY <1>9, JobsFinite, FS_Subset
  <2>2. Cardinality(Holders(stage) \ over)
          = Cardinality(Holders(stage)) - Cardinality(Holders(stage) \cap over)
    BY <2>1, FS_Difference
  <2>3. Holders(stage) \cap over = over
    BY <1>9
  <2>4. Cardinality(over) \in Nat /\ Cardinality(Holders(stage)) \in Nat
    BY <2>1, FS_CardinalityType
  <2>5. /\ active = Cardinality(Holders(stage)) /\ active <= Limit /\ Limit \in Nat
        /\ Cardinality(Holders(at)) = Cardinality(Holders(stage)) - Cardinality(over)
    BY <1>6, <1>9, <2>2, <2>3, WorkflowAssumption DEF Slots
  <2>. QED  BY ONLY <2>4, <2>5
<1>11. Slots(left, active - Cardinality(over), at)
  BY <1>5, <1>7, <1>8, <1>10 DEF Slots
<1>12. shutdown' # "open" => left = <<>>
  <2>. SUFFICES ASSUME shutdown' # "open"
                PROVE  left = <<>>
    OBVIOUS
  <2>1. \A j \in Job : stage[j] = "queued" => j \in out \/ j \notin Range(queue)
    <3>1. CASE shutdown # "open"
      <4>1. queue = <<>>
        BY <3>1 DEF IInv, Cancels
      <4>. QED  BY <4>1 DEF Range
    <3>2. CASE \A c \in Call : phase[c] = "running" => c \in cs
      BY <1>2, <3>2, JobFacts
    <3>. QED  BY <3>1, <3>2
  <2>2. Range(left) = {}
    BY <1>6, <1>7, <2>1 DEF Slots
  <2>. QED  BY <1>7, <2>2 DEF Range
<1>13. Drain(left, active - Cardinality(over), at)
  BY <1>1 DEF at
<1>14. /\ Slots(queue', active', stage')
       /\ queue' # <<>> => active' = Limit
       /\ shutdown' # "open" => queue' = <<>>
       /\ \A j \in Job : stage'[j] = at[j] \/ (at[j] = "queued" /\ stage'[j] = "granted")
  BY <1>11, <1>12, <1>13, DrainKeeps
<1>15. \A j \in Job : \/ stage'[j] = stage[j]
                      \/ stage[j] \in {"queued"} \cup Taken /\ stage'[j] \in Taken \cup Over
  BY <1>2, <1>4, <1>14 DEF Taken, Running, Over
<1>16. \A j \in Job : stage'[j] = "cancelled" \/ cause'[j] = "cancelled" =>
         stage[j] = "cancelled" \/ cause[j] = "cancelled" \/ j[1] \in aborted'
  BY <1>1, <1>2, <1>3, <1>4, <1>14
<1>17. /\ aborted \subseteq aborted' /\ aborted' \subseteq Call
       /\ process' \in [Job -> {"none", "alive", "failed"}]
       /\ cause' \in [Job -> {"none", "timeout", "cancelled", "failed"}]
  BY <1>1, <1>3 DEF IInv, TypeOK
<1>18. shutdown' # "open" =>
         shutdown # "open" \/ \A c \in Call : phase[c] = "running" => c \in aborted'
  BY <1>3
<1>. QED  BY <1>3, <1>14, <1>15, <1>16, <1>17, <1>18, AdvanceKeeps

\* Two queues without duplicates that share nothing make one.
LEMMA Joined ==
  ASSUME NEW T, NEW q \in Seq(T), NEW r \in Seq(T), IsInjective(q), IsInjective(r),
         Range(q) \cap Range(r) = {}
  PROVE  /\ q \o r \in Seq(T) /\ IsInjective(q \o r)
         /\ Range(q \o r) = Range(q) \cup Range(r)
<1>1. PICK m \in Nat, n \in Nat : m = Len(q) /\ n = Len(r)
  OBVIOUS
<1>2. DOMAIN q = 1..m /\ DOMAIN r = 1..n
  BY <1>1
<1>3. PICK both : both = q \o r
  OBVIOUS
<1>4. /\ both \in Seq(T) /\ DOMAIN both = 1..(m + n)
      /\ \A i \in 1..m : both[i] = q[i]
      /\ \A i \in 1..n : both[m + i] = r[i]
  <2>1. both \in Seq(T) /\ Len(both) = m + n
    BY <1>1, <1>3
  <2>2. \A i \in 1..m : both[i] = q[i]
    BY <1>1, <1>3
  <2>3. ASSUME NEW i \in 1..n
        PROVE  both[m + i] = r[i]
    <3>1. m + i \in 1..(Len(q) + Len(r)) /\ m + i > Len(q) /\ (m + i) - Len(q) = i
      BY <1>1
    <3>. QED  BY <1>3, <3>1
  <2>. QED  BY <2>1, <2>2, <2>3
<1>5. \A k \in 1..(m + n) : k \in 1..m \/ (k - m \in 1..n /\ m + (k - m) = k)
  OBVIOUS
<1>6. Range(both) = Range(q) \cup Range(r)
  <2>1. ASSUME NEW x \in Range(both)
        PROVE  x \in Range(q) \cup Range(r)
    <3>1. PICK k \in 1..(m + n) : both[k] = x
      BY <1>4 DEF Range
    <3>2. CASE k \in 1..m
      BY <1>2, <1>4, <3>1, <3>2 DEF Range
    <3>3. CASE k - m \in 1..n /\ m + (k - m) = k
      BY <1>2, <1>4, <3>1, <3>3 DEF Range
    <3>. QED  BY <1>5, <3>2, <3>3
  <2>2. \A x \in Range(q) : x \in Range(both)
    <3>1. \A i \in 1..m : i \in DOMAIN both
      BY <1>4
    <3>. QED  BY <1>2, <1>4, <3>1 DEF Range
  <2>3. \A x \in Range(r) : x \in Range(both)
    <3>1. \A i \in 1..n : m + i \in DOMAIN both
      BY <1>4
    <3>. QED  BY <1>2, <1>4, <3>1 DEF Range
  <2>. QED  BY <2>1, <2>2, <2>3
<1>7. IsInjective(both)
  <2>1. ASSUME NEW k \in 1..(m + n), NEW l \in 1..(m + n), both[k] = both[l]
        PROVE  k = l
    <3>1. CASE k \in 1..m /\ l \in 1..m
      BY <1>2, <1>4, <2>1, <3>1 DEF IsInjective
    <3>2. CASE k \notin 1..m /\ l \notin 1..m
      <4>1. /\ k - m \in 1..n /\ l - m \in 1..n
            /\ r[k - m] = both[k] /\ r[l - m] = both[l]
        BY <1>4, <1>5, <3>2
      <4>2. k - m = l - m
        BY <1>2, <2>1, <4>1 DEF IsInjective
      <4>. QED  BY <4>2
    <3>3. CASE k \in 1..m /\ l \notin 1..m
      <4>1. both[k] \in Range(q)
        BY <1>2, <1>4, <3>3 DEF Range
      <4>2. l - m \in 1..n /\ r[l - m] = both[l]
        BY <1>4, <1>5, <3>3
      <4>3. both[l] \in Range(r)
        BY <1>2, <4>2 DEF Range
      <4>. QED  BY <2>1, <4>1, <4>3
    <3>4. CASE k \notin 1..m /\ l \in 1..m
      <4>1. both[l] \in Range(q)
        BY <1>2, <1>4, <3>4 DEF Range
      <4>2. k - m \in 1..n /\ r[k - m] = both[k]
        BY <1>4, <1>5, <3>4
      <4>3. both[k] \in Range(r)
        BY <1>2, <4>2 DEF Range
      <4>. QED  BY <2>1, <4>1, <4>3
    <3>. QED  BY <3>1, <3>2, <3>3, <3>4
  <2>. QED  BY <1>4, <2>1 DEF IsInjective
<1>. QED  BY <1>3, <1>4, <1>6, <1>7

\* Of the steps that are ready the first ones form the batch, one in a
\* sequential workflow.
LEMMA BatchFacts ==
  ASSUME NEW p, p.sequential \in BOOLEAN,
         NEW ready \in Seq(Step), IsInjective(ready), ready # <<>>
  PROVE  /\ Batch(p, ready) \in Seq(Step) /\ IsInjective(Batch(p, ready))
         /\ Range(Batch(p, ready)) \subseteq Range(ready)
         /\ p.sequential => \A s, t \in Range(Batch(p, ready)) : s = t
<1>1. PICK len \in Nat : len = Len(ready)
  OBVIOUS
<1>2. DOMAIN ready = 1..len /\ len # 0
  BY <1>1
<1>3. PICK k \in Nat :
        k = (IF p.sequential THEN 1 ELSE SmallerOf(Limit, Len(ready)))
  BY <1>1, WorkflowAssumption DEF SmallerOf
<1>4. k <= len /\ (p.sequential => k = 1)
  BY <1>1, <1>2, <1>3, WorkflowAssumption DEF SmallerOf
<1>5. Batch(p, ready) = SubSeq(ready, 1, k)
  BY <1>3 DEF Batch
<1>6. PICK T, low, first : T = Step /\ low = 1 /\ first = SubSeq(ready, 1, k)
  OBVIOUS
<1>7. low \in Int /\ k \in Int /\ \A i \in low..k : ready[i] \in T
  BY <1>1, <1>4, <1>6
<1>8. /\ SubSeq(ready, low, k) \in Seq(T)
      /\ Len(SubSeq(ready, low, k)) = IF low <= k THEN k - low + 1 ELSE 0
      /\ \A i \in 1..(k - low + 1) : SubSeq(ready, low, k)[i] = ready[low + i - 1]
  BY ONLY <1>7, SubSeqProperties
<1>9. first \in Seq(Step) /\ Len(first) = k
  BY <1>6, <1>8
<1>10. DOMAIN first = 1..k /\ \A i \in 1..k : first[i] = ready[i]
  <2>1. \A i \in 1..k : low + i - 1 = i /\ i \in 1..(k - low + 1)
    BY <1>6
  <2>. QED  BY <1>6, <1>8, <1>9, <2>1
<1>11. 1..k \subseteq DOMAIN ready
  BY <1>2, <1>4
<1>12. IsInjective(first) /\ Range(first) \subseteq Range(ready)
  BY <1>10, <1>11 DEF IsInjective, Range
<1>13. p.sequential => \A s, t \in Range(first) : s = t
  <2>1. k = 1 => \A i, l \in 1..k : i = l
    OBVIOUS
  <2>. QED  BY <1>4, <1>10, <2>1 DEF Range
<1>. QED  BY <1>5, <1>6, <1>9, <1>12, <1>13

\* A new batch of the steps next of call c: they are queued, granted a slot or
\* refused, and other steps are at most granted one.
Begun(c, p, next) ==
  /\ batch' = [batch EXCEPT ![c] = next]
  /\ p.sequential => \A s, t \in next : s = t
  /\ \A j \in Job :
       IF j \in {c} \X next
       THEN \/ stage'[j] \in {"queued", "granted"}
            \/ stage'[j] = "cancelled" /\ (shutdown # "open" \/ c \in aborted)
       ELSE \/ stage'[j] = stage[j]
            \/ stage[j] = "queued" /\ stage'[j] = "granted"

Unbegun(c, steps) == \A s \in steps : stage[<<c, s>>] = "unstarted"

\* BeginBatch takes up such a batch of what is ready.
LEMMA BeginKeeps ==
  ASSUME IInv, NEW c \in Call, NEW p, p.sequential \in BOOLEAN,
         NEW ready \in Seq(Step), IsInjective(ready), ready # <<>>,
         Unbegun(c, Range(ready)), BeginBatch(c, p, ready), UNCHANGED shutdown
  PROVE  /\ Slots(queue', active', stage')
         /\ queue' # <<>> => active' = Limit
         /\ shutdown' # "open" => queue' = <<>>
         /\ \E next \in SUBSET Range(ready) : Begun(c, p, next)
<1>1. PICK next : next = Batch(p, ready)
  OBVIOUS
<1>2. /\ next \in Seq(Step) /\ IsInjective(next)
      /\ Range(next) \subseteq Range(ready)
      /\ p.sequential => \A s, t \in Range(next) : s = t
  BY <1>1, BatchFacts
<1>. DEFINE asks == [i \in DOMAIN next |-> <<c, next[i]>>]
            refused == shutdown # "open" \/ c \in aborted
            answer == IF refused THEN "cancelled" ELSE "queued"
            at == [j \in Job |-> IF j \in Range(asks) THEN answer ELSE stage[j]]
            asking == {c} \X Range(next)
            waiting == IF refused THEN queue ELSE queue \o asks
<1>3. batch' = [batch EXCEPT ![c] = Range(next)] /\ Drain(waiting, active, at)
  BY <1>1 DEF BeginBatch
<1>4. /\ asks \in Seq(Job) /\ IsInjective(asks) /\ Range(asks) = asking
  <2>1. PICK n \in Nat : n = Len(next)
    BY <1>2
  <2>2. DOMAIN next = 1..n /\ \A i \in 1..n : next[i] \in Step
    BY <1>2, <2>1
  <2>3. asks \in [1..n -> Job] /\ \A i \in 1..n : asks[i] = <<c, next[i]>>
    BY <2>2 DEF Job
  <2>4. asks \in Seq(Job)
    BY <2>3
  <2>5. IsInjective(asks)
    BY <1>2, <2>2, <2>3 DEF IsInjective
  <2>6. Range(asks) = asking
    BY <2>2, <2>3 DEF Range
  <2>. QED  BY <2>4, <2>5, <2>6
<1>5. asking \subseteq Job /\ \A j \in asking : stage[j] = "unstarted"
  <2>1. Range(ready) \subseteq Step
    BY DEF Range
  <2>. QED  BY <1>2, <2>1 DEF Job, Unbegun
<1>6. \A j \in Job : at[j] = IF j \notin asking THEN stage[j]
                             ELSE IF refused THEN "cancelled" ELSE "queued"
  <2>. HIDE DEF refused, asks, asking
  <2>. QED  BY <1>4
<1>7. at \in [Job -> Stage]
  <2>1. \A j \in Job : at[j] \in Stage
    BY <1>6 DEF IInv, TypeOK, Stage, Over
  <2>. QED  BY <2>1
<1>8. Slots(queue, active, stage) /\ (shutdown' # "open" => queue = <<>>)
  BY SharedSlots DEF IInv, Cancels
<1>. HIDE DEF asks, at, asking
<1>9. Holders(at) = Holders(stage)
  BY <1>5, <1>6 DEF Holders, Taken, Running
<1>10. Range(queue) \cap asking = {}
  BY <1>5, <1>8 DEF Slots
<1>11. /\ waiting \in Seq(Job) /\ IsInjective(waiting)
       /\ Range(waiting) = {j \in Job : at[j] = "queued"}
  <2>1. CASE refused
    BY <1>5, <1>6, <1>8, <2>1 DEF Slots
  <2>2. CASE ~refused
    <3>1. PICK T : T = Job
      OBVIOUS
    <3>2. /\ queue \in Seq(T) /\ IsInjective(queue)
          /\ asks \in Seq(T) /\ IsInjective(asks)
          /\ Range(queue) \cap Range(asks) = {}
      BY <1>4, <1>8, <1>10, <3>1 DEF Slots
    <3>3. /\ queue \o asks \in Seq(T) /\ IsInjective(queue \o asks)
          /\ Range(queue \o asks) = Range(queue) \cup Range(asks)
      BY ONLY <3>2, Joined
    <3>4. Range(queue) \cup asking = {j \in Job : at[j] = "queued"}
      BY <1>5, <1>6, <1>8, <2>2 DEF Slots
    <3>. QED  BY <1>4, <2>2, <3>1, <3>3, <3>4
  <2>. QED  BY <2>1, <2>2
<1>12. shutdown' # "open" => waiting = <<>>
  BY <1>8
<1>13. Slots(waiting, active, at)
  BY <1>7, <1>8, <1>9, <1>11 DEF Slots
<1>. HIDE DEF waiting
<1>14. /\ Slots(queue', active', stage')
       /\ queue' # <<>> => active' = Limit
       /\ shutdown' # "open" => queue' = <<>>
       /\ \A j \in Job : stage'[j] = at[j] \/ (at[j] = "queued" /\ stage'[j] = "granted")
  BY <1>3, <1>12, <1>13, DrainKeeps
<1>15. \A j \in Job :
         IF j \in {c} \X Range(next)
         THEN \/ stage'[j] \in {"queued", "granted"}
              \/ stage'[j] = "cancelled" /\ (shutdown # "open" \/ c \in aborted)
         ELSE \/ stage'[j] = stage[j]
              \/ stage[j] = "queued" /\ stage'[j] = "granted"
  BY <1>6, <1>14 DEF asking
<1>16. Begun(c, p, Range(next))
  BY <1>2, <1>3, <1>15 DEF Begun
<1>. QED  BY <1>2, <1>14, <1>16

\* A call that takes up a batch keeps the invariant if the batch is of steps
\* that have not begun and whose dependencies succeeded.
LEMMA CallKeeps ==
  ASSUME IInv, NEW c \in Call, NEW p \in UNION Range(Plans),
         plan' = [plan EXCEPT ![c] = p], phase' = [phase EXCEPT ![c] = "running"],
         plan[c] # p => \A s \in Step : stage[<<c, s>>] = "unstarted",
         \A s \in batch[c] : stage[<<c, s>>] \in Over,
         NEW ready \in Seq(Step), IsInjective(ready), ready # <<>>,
         \A s \in Range(ready) :
           /\ s \in Range(p.order) /\ stage[<<c, s>>] = "unstarted"
           /\ \A d \in p.after[s] : stage[<<c, d>>] = "success",
         run' \in [Call -> {"none", "running", "cancelling", "completed", "failed", "cancelled"}],
         \A x \in Call : x # c => run'[x] = run[x],
         phase[c] # "returned", shutdown # "open" => c \in aborted,
         BeginBatch(c, p, ready), UNCHANGED <<aborted, cause, process, shutdown>>
  PROVE  IInv'
<1>1. /\ p.order \in Seq(Step) /\ p.after \in [Step -> SUBSET Range(p.order)]
      /\ p.sequential \in BOOLEAN /\ Range(p.order) \subseteq Step
  <2>1. /\ p.order \in Seq(Step) /\ p.after \in [Step -> SUBSET Range(p.order)]
        /\ p.sequential \in BOOLEAN
    BY WorkflowAssumption
  <2>. QED  BY <2>1 DEF Range
<1>2. /\ Slots(queue', active', stage')
      /\ queue' # <<>> => active' = Limit
      /\ shutdown' # "open" => queue' = <<>>
      /\ \E next \in SUBSET Range(ready) : Begun(c, p, next)
  <2>1. Unbegun(c, Range(ready))
    BY DEF Unbegun
  <2>2. /\ IInv /\ c \in Call /\ p.sequential \in BOOLEAN /\ ready \in Seq(Step)
        /\ IsInjective(ready) /\ ready # <<>> /\ BeginBatch(c, p, ready)
        /\ UNCHANGED shutdown
    BY <1>1
  <2>. QED  BY ONLY <2>1, <2>2, BeginKeeps
<1>3. PICK next \in SUBSET Range(ready) :
        /\ batch' = [batch EXCEPT ![c] = next]
        /\ p.sequential => \A s, t \in next : s = t
        /\ \A j \in Job :
             IF j \in {c} \X next
             THEN \/ stage'[j] \in {"queued", "granted"}
                  \/ stage'[j] = "cancelled" /\ (shutdown # "open" \/ c \in aborted)
             ELSE \/ stage'[j] = stage[j]
                  \/ stage[j] = "queued" /\ stage'[j] = "granted"
  BY <1>2 DEF Begun
<1>4. /\ plan \in [Call -> (UNION Range(Plans)) \cup {NoPlan}]
      /\ phase \in [Call -> {"idle", "running", "returned"}]
      /\ batch \in [Call -> SUBSET Step]
      /\ next \subseteq Step
  BY <1>1 DEF IInv, TypeOK
<1>5. TypeOK'
  <2>1. active' \in 0..Limit
    BY <1>2, JobsFinite, FS_CardinalityType, WorkflowAssumption DEF Slots
  <2>2. /\ plan' \in [Call -> (UNION Range(Plans)) \cup {NoPlan}]
        /\ phase' \in [Call -> {"idle", "running", "returned"}]
        /\ batch' \in [Call -> SUBSET Step]
    BY <1>3, <1>4
  <2>. QED  BY <1>2, <2>1, <2>2 DEF IInv, TypeOK, Slots
<1>6. SlotsShared'
  <2>1. (TypeOK => (SlotsShared <=> Slots(queue, active, stage)
                                      /\ (queue # <<>> => active = Limit)))'
    BY SharedSlots, PTL
  <2>. QED  BY <1>2, <1>5, <2>1 DEF Slots, Holders
\* The other calls: at most a slot is granted.
<1>7. ASSUME NEW x \in Call, x # c
      PROVE  /\ plan'[x] = plan[x] /\ phase'[x] = phase[x] /\ batch'[x] = batch[x]
             /\ run'[x] = run[x]
             /\ \A s \in Step : \/ stage'[<<x, s>>] = stage[<<x, s>>]
                                \/ /\ stage[<<x, s>>] = "queued"
                                   /\ stage'[<<x, s>>] = "granted"
  BY <1>3, <1>4, <1>7 DEF Job
\* The call itself: what has begun is over.
<1>8. \A s \in Step : stage[<<c, s>>] \in {"unstarted"} \cup Over
  <2>1. \A s \in Step : stage[<<c, s>>] \in {"queued"} \cup Taken => s \in batch[c]
    BY DEF IInv, Owned, OwnedBy
  <2>2. \A s \in Step : stage[<<c, s>>] \in Stage
    BY DEF IInv, TypeOK, Job
  <2>3. \A s \in Step : s \in batch[c] => stage[<<c, s>>] \notin {"queued"} \cup Taken
    BY DEF Taken, Running, Over
  <2>. QED  BY <2>1, <2>2, <2>3 DEF Stage, Taken
<1>9. /\ plan'[c] = p /\ phase'[c] = "running" /\ batch'[c] = next
      /\ StepsOf(c)' = Range(p.order)
      /\ \A s \in Step :
           IF s \in next
           THEN \/ stage'[<<c, s>>] \in {"queued", "granted"}
                \/ stage'[<<c, s>>] = "cancelled" /\ c \in aborted
           ELSE stage'[<<c, s>>] = stage[<<c, s>>]
  BY <1>3, <1>4, <1>8 DEF StepsOf, Job, Over
<1>10. \A s \in Step : stage[<<c, s>>] # "unstarted" => s \in Range(p.order)
  BY DEF IInv, Owned, OwnedBy, StepsOf
<1>11. \A x \in Call : x # c => StepsOf(x)' = StepsOf(x)
  BY <1>7 DEF StepsOf
<1>12. Owned'
  <2>1. ASSUME NEW x \in Call, x # c
        PROVE  OwnedBy(x)'
    BY <1>7, <1>11, <2>1 DEF IInv, Owned, OwnedBy, Taken
  <2>2. OwnedBy(c)'
    <3>1. next \subseteq Range(p.order)
      OBVIOUS
    <3>2. ASSUME NEW s \in Step
          PROVE  /\ stage'[<<c, s>>] # "unstarted" => s \in Range(p.order)
                 /\ stage'[<<c, s>>] \in {"queued"} \cup Taken => s \in next
      <4>1. CASE s \in next
        BY <3>1, <4>1
      <4>2. CASE s \notin next
        BY <1>8, <1>9, <1>10, <4>2 DEF Taken, Running, Over
      <4>. QED  BY <4>1, <4>2
    <3>. QED  BY <1>3, <1>9, <3>1, <3>2 DEF OwnedBy
  <2>. QED  BY <2>1, <2>2 DEF Owned
<1>13. Cancels'
  <2>1. \A j \in Job : stage'[j] = "cancelled" => stage[j] = "cancelled" \/ j[1] \in aborted
    BY <1>3
  <2>2. shutdown # "open" => \A x \in Call : phase'[x] = "running" => x \in aborted
    BY <1>7 DEF IInv, Cancels
  <2>. QED  BY <1>2, <2>1, <2>2 DEF IInv, Cancels
<1>14. \A x \in Call : StepsOf(x) \subseteq Step /\ \A s \in Step : plan[x].after[s] \subseteq Step
  BY StepsTyped DEF IInv
<1>15. Ordered'
  <2>1. ASSUME NEW x \in Call, x # c, NEW s \in StepsOf(x),
               stage'[<<x, s>>] \in {"queued", "success"} \cup Taken, NEW d \in plan[x].after[s]
        PROVE  stage'[<<x, d>>] = "success"
    <3>1. s \in Step /\ d \in Step
      BY <1>14
    <3>2. stage[<<x, s>>] \in {"queued", "success"} \cup Taken
      BY <1>7, <2>1, <3>1
    <3>3. stage[<<x, d>>] = "success"
      BY <3>2 DEF IInv, Ordered
    <3>. QED  BY <1>7, <2>1, <3>1, <3>3
  <2>2. ASSUME NEW s \in Range(p.order),
               stage'[<<c, s>>] \in {"queued", "success"} \cup Taken, NEW d \in p.after[s]
        PROVE  stage'[<<c, d>>] = "success"
    <3>1. s \in Step /\ d \in Step
      BY <1>1
    <3>2. stage[<<c, d>>] = "success"
      <4>1. CASE s \in next
        BY <4>1
      <4>2. CASE s \notin next
        <5>1. stage[<<c, s>>] = "success"
          BY <1>8, <1>9, <2>2, <3>1, <4>2 DEF Taken, Running, Over
        <5>2. plan[c] = p
          BY <3>1, <5>1
        <5>. QED  BY <5>1, <5>2 DEF IInv, Ordered, StepsOf
      <4>. QED  BY <4>1, <4>2
    <3>. QED  BY <1>9, <3>1, <3>2
  <2>. QED  BY <1>7, <1>9, <1>11, <2>1, <2>2 DEF Ordered
<1>16. StepsAccounted'
  <2>. SUFFICES ASSUME NEW x \in Call, phase'[x] = "returned"
                PROVE  /\ \A s \in StepsOf(x)' :
                            \/ stage'[<<x, s>>] \in Over
                            \/ /\ stage'[<<x, s>>] = "unstarted"
                               /\ \E d \in plan'[x].after[s] : stage'[<<x, d>>] # "success"
                       /\ run'[x] = "completed" =>
                            \A s \in StepsOf(x)' : stage'[<<x, s>>] = "success"
    BY DEF StepsAccounted
  <2>1. x # c
    BY <1>9
  <2>2. /\ phase[x] = "returned" /\ plan'[x] = plan[x] /\ run'[x] = run[x]
        /\ StepsOf(x)' = StepsOf(x)
    BY <1>7, <1>11, <2>1
  <2>3. \A s \in Step : stage[<<x, s>>] # "queued"
    BY <2>2 DEF IInv, Owned, OwnedBy
  <2>4. \A s \in Step : stage'[<<x, s>>] = stage[<<x, s>>]
    BY <1>7, <2>1, <2>3
  <2>5. /\ \A s \in StepsOf(x) :
             \/ stage[<<x, s>>] \in Over
             \/ /\ stage[<<x, s>>] = "unstarted"
                /\ \E d \in plan[x].after[s] : stage[<<x, d>>] # "success"
        /\ run[x] = "completed" => \A s \in StepsOf(x) : stage[<<x, s>>] = "success"
    BY <2>2 DEF IInv, StepsAccounted
  <2>6. \A s \in StepsOf(x) : s \in Step /\ \A d \in plan[x].after[s] : d \in Step
    BY <1>14
  <2>7. \A s \in StepsOf(x) :
          \/ stage'[<<x, s>>] \in Over
          \/ /\ stage'[<<x, s>>] = "unstarted"
             /\ \E d \in plan[x].after[s] : stage'[<<x, d>>] # "success"
    <3>. SUFFICES ASSUME NEW s \in StepsOf(x), stage[<<x, s>>] \notin Over
                  PROVE  /\ stage'[<<x, s>>] = "unstarted"
                         /\ \E d \in plan[x].after[s] : stage'[<<x, d>>] # "success"
      BY <2>4, <2>6
    <3>1. PICK d \in plan[x].after[s] : stage[<<x, d>>] # "success"
      BY <2>5
    <3>2. stage'[<<x, d>>] # "success"
      BY <2>4, <2>6, <3>1
    <3>. QED  BY <2>4, <2>5, <2>6, <3>2
  <2>8. run[x] = "completed" => \A s \in StepsOf(x) : stage'[<<x, s>>] = "success"
    BY <2>4, <2>5, <2>6
  <2>. HIDE DEF StepsOf
  <2>. QED  BY ONLY <2>2, <2>7, <2>8
<1>. QED  BY <1>5, <1>6, <1>12, <1>13, <1>15, <1>16 DEF IInv

\* What counts as done with for a call that returns with the plan p.
Accounted(c, p) ==
  \A s \in Range(p.order) :
    \/ stage[<<c, s>>] \in Over
    \/ /\ stage[<<c, s>>] = "unstarted"
       /\ \E d \in p.after[s] : stage[<<c, d>>] # "success"
Succeeded(c, p) == \A s \in Range(p.order) : stage[<<c, s>>] = "success"
Sound(c, p) ==
  \A s \in Step :
    /\ stage[<<c, s>>] \notin {"queued"} \cup Taken
    /\ stage[<<c, s>>] # "unstarted" =>
         s \in Range(p.order) /\ (stage[<<c, s>>] = "success" =>
           \A d \in p.after[s] : stage[<<c, d>>] = "success")

\* A call that returns keeps the invariant if it accounts for its steps.
LEMMA ReturnKeeps ==
  ASSUME IInv, NEW c \in Call,
         plan' \in [Call -> (UNION Range(Plans)) \cup {NoPlan}],
         phase' \in [Call -> {"idle", "running", "returned"}],
         batch' \in [Call -> SUBSET Step],
         run' \in [Call -> {"none", "running", "cancelling", "completed", "failed", "cancelled"}],
         \A x \in Call : x # c => /\ plan'[x] = plan[x] /\ phase'[x] = phase[x]
                                  /\ batch'[x] = batch[x] /\ run'[x] = run[x],
         phase'[c] = "returned", batch'[c] = {},
         UNCHANGED <<aborted, queue, active, stage, cause, process, shutdown>>,
         Sound(c, plan'[c]), Accounted(c, plan'[c]),
         run'[c] = "completed" => Succeeded(c, plan'[c])
  PROVE  IInv'
<1>1. TypeOK'
  BY DEF IInv, TypeOK
<1>2. SlotsShared'
  BY DEF IInv, SlotsShared, InStage
<1>3. \A x \in Call : x # c => StepsOf(x)' = StepsOf(x)
  BY DEF StepsOf
<1>4. StepsOf(c)' = Range(plan'[c].order)
  BY DEF StepsOf
<1>5. Owned'
  <2>1. ASSUME NEW x \in Call, x # c
        PROVE  OwnedBy(x)'
    BY <1>3, <2>1 DEF IInv, Owned, OwnedBy
  <2>2. OwnedBy(c)'
    BY <1>4 DEF OwnedBy, Sound
  <2>. QED  BY <2>1, <2>2 DEF Owned
<1>6. Cancels'
  BY DEF IInv, Cancels
<1>7. StepsOf(c)' \subseteq Step
  BY <1>4, PlanFacts
<1>8. Ordered'
  <2>1. ASSUME NEW x \in Call, x # c, NEW s \in StepsOf(x),
               stage[<<x, s>>] \in {"queued", "success"} \cup Taken
        PROVE  \A d \in plan[x].after[s] : stage[<<x, d>>] = "success"
    BY <2>1 DEF IInv, Ordered
  <2>2. ASSUME NEW s \in StepsOf(c)', stage[<<c, s>>] \in {"queued", "success"} \cup Taken
        PROVE  \A d \in plan'[c].after[s] : stage[<<c, d>>] = "success"
    BY <1>7, <2>2 DEF Sound
  <2>. QED  BY <1>3, <2>1, <2>2 DEF Ordered
<1>9. StepsAccounted'
  <2>. SUFFICES ASSUME NEW x \in Call, phase'[x] = "returned"
                PROVE  /\ \A s \in StepsOf(x)' :
                            \/ stage[<<x, s>>] \in Over
                            \/ /\ stage[<<x, s>>] = "unstarted"
                               /\ \E d \in plan'[x].after[s] : stage[<<x, d>>] # "success"
                       /\ run'[x] = "completed" =>
                            \A s \in StepsOf(x)' : stage[<<x, s>>] = "success"
    BY DEF StepsAccounted
  <2>1. CASE x = c
    BY <1>4, <2>1 DEF Accounted, Succeeded
  <2>2. CASE x # c
    BY <1>3, <2>2 DEF IInv, StepsAccounted
  <2>. QED  BY <2>1, <2>2
<1>. QED  BY <1>1, <1>2, <1>5, <1>6, <1>8, <1>9 DEF IInv

\* Ready keeps, in their order, the steps whose dependencies are done.
LEMMA ReadyFacts ==
  ASSUME NEW p, p.order \in Seq(Step), IsInjective(p.order), NEW done, NEW left
  PROVE  /\ Ready(p, done, left) \in Seq(Step) /\ IsInjective(Ready(p, done, left))
         /\ Range(Ready(p, done, left)) = {s \in Range(p.order) \cap left : p.after[s] \subseteq done}
<1>. DEFINE S == {s \in left : p.after[s] \subseteq done}
<1>1. PICK T, q : T = Step /\ q = p.order
  OBVIOUS
<1>2. q \in Seq(T)
  BY <1>1
<1>. HIDE DEF S
<1>3. /\ Among(q, S) \in Seq(T) /\ Range(Among(q, S)) = Range(q) \cap S
      /\ IsInjective(q) => IsInjective(Among(q, S))
  BY ONLY <1>2, AmongKeeps
<1>4. Ready(p, done, left) = Among(q, S)
  BY <1>1 DEF Ready, S
<1>5. Range(q) \cap S = {s \in Range(p.order) \cap left : p.after[s] \subseteq done}
  BY <1>1 DEF S
<1>. QED  BY <1>1, <1>3, <1>4, <1>5

\* What a failure blocks has a dependency that did not succeed.
LEMMA BlockedFacts ==
  ASSUME IInv, NEW c \in Call, NEW s \in Blocked(c)
  PROVE  \E d \in plan[c].after[s] : stage[<<c, d>>] # "success"
<1>. DEFINE after == plan[c].after
            B == {t \in StepsOf(c) : \E d \in after[t] : stage[<<c, d>>] # "success"}
<1>1. \A t \in StepsOf(c) : after[t] \cap (Results(c, "failed") \cup B) # {} => t \in B
  <2>. SUFFICES ASSUME NEW t \in StepsOf(c), NEW d \in after[t],
                       d \in Results(c, "failed") \cup B
                PROVE  t \in B
    OBVIOUS
  <2>1. CASE d \in Results(c, "failed")
    BY <2>1 DEF Results
  <2>2. CASE d \in B
    <3>1. stage[<<c, d>>] # "success"
      BY <2>2 DEF IInv, Ordered
    <3>. QED  BY <3>1
  <2>. QED  BY <2>1, <2>2
<1>2. B \in SUBSET StepsOf(c)
  OBVIOUS
<1>. HIDE DEF B
<1>3. s \in B
  BY <1>1, <1>2 DEF Blocked
<1>. QED  BY <1>3 DEF B

\* The start of a call.
LEMMA StartKeeps ==
  ASSUME IInv, NEW c \in Call, Start(c)
  PROVE  IInv'
<1>1. /\ phase[c] = "idle" /\ UNCHANGED <<aborted, cause, process, shutdown>>
      /\ plan[c] = NoPlan /\ batch[c] = {}
  BY DEF Start, IInv, Owned, OwnedBy
<1>2. StepsOf(c) = {} /\ \A s \in Step : stage[<<c, s>>] = "unstarted"
  <2>1. StepsOf(c) = {}
    BY <1>1 DEF StepsOf, Range, NoPlan
  <2>. QED  BY <2>1 DEF IInv, Owned, OwnedBy
<1>3. /\ plan \in [Call -> (UNION Range(Plans)) \cup {NoPlan}]
      /\ phase \in [Call -> {"idle", "running", "returned"}]
      /\ batch \in [Call -> SUBSET Step]
      /\ run \in [Call -> {"none", "running", "cancelling", "completed", "failed", "cancelled"}]
  BY DEF IInv, TypeOK
<1>4. \A p : Sound(c, p)
  BY <1>2 DEF Sound, Taken, Running
<1>5. CASE shutdown # "open"
  <2>1. /\ phase' = [phase EXCEPT ![c] = "returned"]
        /\ UNCHANGED <<plan, batch, run, queue, active, stage>>
    BY <1>5 DEF Start
  <2>2. Accounted(c, plan'[c]) /\ Succeeded(c, plan'[c])
    BY <1>2, <2>1 DEF Accounted, Succeeded, StepsOf
  <2>3. /\ phase' \in [Call -> {"idle", "running", "returned"}]
        /\ phase'[c] = "returned" /\ \A x \in Call : x # c => phase'[x] = phase[x]
    BY <1>3, <2>1
  <2>. QED  BY <1>1, <1>3, <1>4, <2>1, <2>2, <2>3, ReturnKeeps
<1>6. CASE shutdown = "open"
  <2>1. PICK p \in Plans[c] :
          /\ plan' = [plan EXCEPT ![c] = p]
          /\ LET ready == Ready(p, {}, Range(p.order)) IN
             IF ready = <<>>
             THEN /\ phase' = [phase EXCEPT ![c] = "returned"]
                  /\ run' = [run EXCEPT ![c] = IF c \in aborted THEN "cancelled"
                                               ELSE IF p.order # <<>> THEN "failed" ELSE "completed"]
                  /\ UNCHANGED <<batch, queue, active, stage>>
             ELSE /\ phase' = [phase EXCEPT ![c] = "running"]
                  /\ run' = [run EXCEPT ![c] = "running"]
                  /\ BeginBatch(c, p, ready)
    BY <1>6 DEF Start
  <2>2. p \in UNION Range(Plans)
    BY WorkflowAssumption DEF Range
  <2>3. /\ p.order \in Seq(Step) /\ IsInjective(p.order)
        /\ p.after \in [Step -> SUBSET Range(p.order)]
        /\ Range(p.order) \subseteq Step
    <3>1. /\ p.order \in Seq(Step) /\ IsInjective(p.order)
          /\ p.after \in [Step -> SUBSET Range(p.order)]
      BY <2>2, WorkflowAssumption
    <3>. QED  BY <3>1 DEF Range
  <2>. DEFINE ready == Ready(p, {}, Range(p.order))
  <2>4. /\ ready \in Seq(Step) /\ IsInjective(ready)
        /\ Range(ready) = {s \in Range(p.order) \cap Range(p.order) : p.after[s] \subseteq {}}
    BY <2>3, ReadyFacts
  <2>. HIDE DEF ready
  <2>5. CASE ready = <<>>
    <3>1. /\ phase' = [phase EXCEPT ![c] = "returned"]
          /\ run' = [run EXCEPT ![c] = IF c \in aborted THEN "cancelled"
                                       ELSE IF p.order # <<>> THEN "failed" ELSE "completed"]
          /\ UNCHANGED <<batch, queue, active, stage>>
      BY <2>1, <2>5 DEF ready
    <3>2. Range(ready) = {}
      BY <2>5 DEF Range
    <3>3. \A s \in Range(p.order) : \E d \in p.after[s] : stage[<<c, d>>] # "success"
      BY <1>2, <2>3, <2>4, <3>2
    <3>4. plan'[c] = p
      BY <1>3, <2>1
    <3>5. Accounted(c, plan'[c])
      BY <1>2, <2>3, <3>3, <3>4 DEF Accounted
    <3>6. run'[c] = "completed" => Succeeded(c, plan'[c])
      <4>1. run'[c] = "completed" => p.order = <<>>
        BY <1>3, <3>1
      <4>. QED  BY <3>4, <4>1 DEF Succeeded, Range
    <3>7. /\ plan' \in [Call -> (UNION Range(Plans)) \cup {NoPlan}]
          /\ phase' \in [Call -> {"idle", "running", "returned"}]
          /\ batch' \in [Call -> SUBSET Step]
          /\ run' \in [Call -> {"none", "running", "cancelling", "completed", "failed", "cancelled"}]
          /\ phase'[c] = "returned" /\ batch'[c] = {}
          /\ \A x \in Call : x # c => /\ plan'[x] = plan[x] /\ phase'[x] = phase[x]
                                      /\ batch'[x] = batch[x] /\ run'[x] = run[x]
      BY <1>1, <1>3, <2>1, <2>2, <3>1
    <3>. QED  BY <1>1, <1>4, <3>1, <3>5, <3>6, <3>7, ReturnKeeps
  <2>6. CASE ready # <<>>
    <3>1. /\ phase' = [phase EXCEPT ![c] = "running"]
          /\ run' = [run EXCEPT ![c] = "running"]
          /\ BeginBatch(c, p, ready)
      BY <2>1, <2>6 DEF ready
    <3>2. \A s \in Range(ready) :
            /\ s \in Range(p.order) /\ stage[<<c, s>>] = "unstarted"
            /\ \A d \in p.after[s] : stage[<<c, d>>] = "success"
      BY <1>2, <2>3, <2>4
    <3>3. /\ run' \in [Call -> {"none", "running", "cancelling", "completed", "failed", "cancelled"}]
          /\ \A x \in Call : x # c => run'[x] = run[x]
      BY <1>3, <3>1
    <3>4. \A s \in batch[c] : stage[<<c, s>>] \in Over
      BY <1>1
    <3>. QED  BY <1>1, <1>2, <1>6, <2>1, <2>2, <2>4, <2>6, <3>1, <3>2, <3>3, <3>4, CallKeeps
  <2>. QED  BY <2>5, <2>6
<1>. QED  BY <1>5, <1>6

\* The end of a batch.
LEMMA BatchEndKeeps ==
  ASSUME IInv, NEW c \in Call, BatchEnd(c)
  PROVE  IInv'
<1>. DEFINE done == Results(c, "success")
            left == {s \in StepsOf(c) : stage[<<c, s>>] = "unstarted"} \ Blocked(c)
            ready == Ready(plan[c], done, left)
<1>1. /\ phase[c] = "running" /\ \A s \in batch[c] : stage[<<c, s>>] \in Over
      /\ UNCHANGED <<plan, aborted, cause, process, shutdown>>
      /\ IF ready # <<>>
         THEN BeginBatch(c, plan[c], ready) /\ UNCHANGED <<phase, run>>
         ELSE /\ phase' = [phase EXCEPT ![c] = "returned"]
              /\ batch' = [batch EXCEPT ![c] = {}]
              /\ run' = [run EXCEPT ![c] =
                   CASE c \in aborted -> "cancelled"
                     [] c \notin aborted /\ Results(c, "failed") \cup Blocked(c) \cup left # {} -> "failed"
                     [] OTHER -> "completed"]
              /\ UNCHANGED <<queue, active, stage>>
  BY DEF BatchEnd
<1>2. /\ plan[c].order \in Seq(Step) /\ IsInjective(plan[c].order)
      /\ StepsOf(c) \subseteq Step
      /\ plan[c].after \in [Step -> SUBSET StepsOf(c)]
  BY StepsTyped DEF IInv
<1>3. /\ ready \in Seq(Step) /\ IsInjective(ready)
      /\ Range(ready) = {s \in Range(plan[c].order) \cap left : plan[c].after[s] \subseteq done}
  BY <1>2, ReadyFacts
<1>4. /\ plan \in [Call -> (UNION Range(Plans)) \cup {NoPlan}]
      /\ phase \in [Call -> {"idle", "running", "returned"}]
      /\ batch \in [Call -> SUBSET Step]
      /\ run \in [Call -> {"none", "running", "cancelling", "completed", "failed", "cancelled"}]
  BY DEF IInv, TypeOK
<1>5. \A s \in Step : /\ stage[<<c, s>>] \in {"unstarted"} \cup Over
                      /\ stage[<<c, s>>] # "unstarted" => s \in StepsOf(c)
  <2>1. \A s \in Step : stage[<<c, s>>] \in {"queued"} \cup Taken => s \in batch[c]
    BY DEF IInv, Owned, OwnedBy
  <2>2. \A s \in Step : stage[<<c, s>>] \in Stage
    BY DEF IInv, TypeOK, Job
  <2>3. \A s \in Step : s \in batch[c] => stage[<<c, s>>] \notin {"queued"} \cup Taken
    BY <1>1 DEF Taken, Running, Over
  <2>4. \A s \in Step : stage[<<c, s>>] # "unstarted" => s \in StepsOf(c)
    BY DEF IInv, Owned, OwnedBy
  <2>. QED  BY <2>1, <2>2, <2>3, <2>4 DEF Stage, Taken
<1>6. CASE ready # <<>>
  <2>1. plan[c] \in UNION Range(Plans)
    <3>1. plan[c] = NoPlan => StepsOf(c) = {}
      BY DEF NoPlan, StepsOf, Range
    <3>2. Range(ready) # {}
      <4>. HIDE DEF ready
      <4>1. PICK n \in Nat : n = Len(ready) /\ DOMAIN ready = 1..n
        BY <1>3
      <4>2. n # 0
        BY <1>3, <1>6, <4>1
      <4>3. 1 \in DOMAIN ready
        BY <4>1, <4>2
      <4>. QED  BY <4>3 DEF Range
    <3>3. StepsOf(c) # {}
      BY <1>3, <3>2 DEF StepsOf
    <3>. QED  BY <1>4, <3>1, <3>3
  <2>2. /\ BeginBatch(c, plan[c], ready) /\ UNCHANGED <<phase, run>>
    BY <1>1, <1>6
  <2>3. \A s \in Range(ready) :
          /\ s \in Range(plan[c].order) /\ stage[<<c, s>>] = "unstarted"
          /\ \A d \in plan[c].after[s] : stage[<<c, d>>] = "success"
    BY <1>3 DEF Results
  <2>4. /\ plan' = [plan EXCEPT ![c] = plan[c]]
        /\ phase' = [phase EXCEPT ![c] = "running"]
        /\ run' \in [Call -> {"none", "running", "cancelling", "completed", "failed", "cancelled"}]
        /\ \A x \in Call : x # c => run'[x] = run[x]
    BY <1>1, <1>4, <2>2
  <2>5. shutdown # "open" => c \in aborted
    BY <1>1 DEF IInv, Cancels
  <2>6. PICK p : p = plan[c]
    OBVIOUS
  <2>. HIDE DEF ready
  <2>7. /\ p \in UNION Range(Plans) /\ plan' = [plan EXCEPT ![c] = p]
        /\ plan[c] # p => \A s \in Step : stage[<<c, s>>] = "unstarted"
        /\ BeginBatch(c, p, ready)
        /\ \A s \in Range(ready) :
             /\ s \in Range(p.order) /\ stage[<<c, s>>] = "unstarted"
             /\ \A d \in p.after[s] : stage[<<c, d>>] = "success"
    BY <2>1, <2>2, <2>3, <2>4, <2>6
  <2>. QED  BY <1>1, <1>3, <1>6, <2>4, <2>5, <2>7, CallKeeps
<1>7. CASE ready = <<>>
  <2>1. /\ phase' = [phase EXCEPT ![c] = "returned"]
        /\ batch' = [batch EXCEPT ![c] = {}]
        /\ run' = [run EXCEPT ![c] =
             CASE c \in aborted -> "cancelled"
               [] c \notin aborted /\ Results(c, "failed") \cup Blocked(c) \cup left # {} -> "failed"
               [] OTHER -> "completed"]
        /\ UNCHANGED <<queue, active, stage>>
    BY <1>1, <1>7
  <2>2. Range(ready) = {}
    BY <1>7 DEF Range
  <2>. HIDE DEF ready
  <2>3. \A s \in left : \E d \in plan[c].after[s] : stage[<<c, d>>] # "success"
    BY <1>2, <1>3, <2>2 DEF Results, StepsOf
  <2>4. \A s \in Blocked(c) : \E d \in plan[c].after[s] : stage[<<c, d>>] # "success"
    BY BlockedFacts
  <2>5. \A s \in StepsOf(c) : stage[<<c, s>>] = "unstarted" => s \in left \/ s \in Blocked(c)
    OBVIOUS
  <2>. HIDE DEF left
  <2>6. Accounted(c, plan[c])
    BY <1>2, <1>5, <2>3, <2>4, <2>5 DEF Accounted, StepsOf
  <2>7. run'[c] = "completed" =>
          c \notin aborted /\ Results(c, "failed") \cup Blocked(c) \cup left = {}
    BY <1>4, <2>1
  <2>8. run'[c] = "completed" => Succeeded(c, plan[c])
    <3>. SUFFICES ASSUME run'[c] = "completed", NEW s \in StepsOf(c)
                  PROVE  stage[<<c, s>>] = "success"
      BY DEF Succeeded, StepsOf
    <3>1. s \notin Results(c, "failed") /\ s \notin Blocked(c) /\ s \notin left /\ c \notin aborted
      BY <2>7
    <3>2. <<c, s>> \in Job /\ <<c, s>>[1] = c
      BY <1>2 DEF Job
    <3>3. stage[<<c, s>>] # "cancelled"
      BY <3>1, <3>2 DEF IInv, Cancels
    <3>4. stage[<<c, s>>] # "failed"
      BY <3>1 DEF Results
    <3>5. stage[<<c, s>>] # "unstarted"
      BY <2>5, <3>1
    <3>. QED  BY <1>2, <1>5, <3>3, <3>4, <3>5 DEF Over
  <2>9. Sound(c, plan[c])
    <3>. SUFFICES ASSUME NEW s \in Step, stage[<<c, s>>] # "unstarted"
                  PROVE  /\ s \in StepsOf(c)
                         /\ stage[<<c, s>>] = "success" =>
                              \A d \in plan[c].after[s] : stage[<<c, d>>] = "success"
      BY <1>5 DEF Sound, StepsOf, Taken, Running, Over
    <3>. QED  BY <1>5 DEF IInv, Ordered
  <2>10. plan'[c] = plan[c]
    BY <1>1
  <2>11. /\ plan' \in [Call -> (UNION Range(Plans)) \cup {NoPlan}]
         /\ phase' \in [Call -> {"idle", "running", "returned"}]
         /\ batch' \in [Call -> SUBSET Step]
         /\ run' \in [Call -> {"none", "running", "cancelling", "completed", "failed", "cancelled"}]
         /\ phase'[c] = "returned" /\ batch'[c] = {}
         /\ \A x \in Call : x # c => /\ plan'[x] = plan[x] /\ phase'[x] = phase[x]
                                     /\ batch'[x] = batch[x] /\ run'[x] = run[x]
    BY <1>1, <1>4, <2>1
  <2>. QED  BY <1>1, <2>1, <2>6, <2>8, <2>9, <2>10, <2>11, ReturnKeeps
<1>. QED  BY <1>6, <1>7

-----------------------------------------------------------------------------
\* The initial states have the invariant.
LEMMA InitHolds ==
  Init => IInv
<1>. SUFFICES ASSUME Init
              PROVE  IInv
  OBVIOUS
<1>1. NoPlan.order = <<>> /\ NoPlan.sequential = FALSE
  BY DEF NoPlan
<1>2. TypeOK
  <2>1. 0 \in 0..Limit
    BY WorkflowAssumption
  <2>2. <<>> \in Seq(Job)
    OBVIOUS
  <2>. QED  BY <2>1, <2>2 DEF Init, TypeOK, Stage
<1>3. \A c \in Call : StepsOf(c) = {}
  BY <1>1 DEF Init, StepsOf, Range
<1>4. SlotsShared
  <2>1. InStage({"granted"} \cup Running) = {} /\ InStage({"queued"}) = {}
    BY DEF Init, InStage, Running
  <2>2. IsInjective(<<>>) /\ Range(<<>>) = {}
    BY DEF IsInjective, Range
  <2>3. Cardinality({}) = 0
    BY FS_EmptySet
  <2>. QED  BY <2>1, <2>2, <2>3 DEF Init, SlotsShared
<1>5. Owned
  BY <1>1, <1>3 DEF Init, Owned, OwnedBy, Taken, Running, Job
<1>6. Cancels /\ Ordered /\ StepsAccounted
  BY <1>3 DEF Init, Cancels, Ordered, StepsAccounted
<1>. QED  BY <1>2, <1>4, <1>5, <1>6 DEF IInv

\* Every step keeps it.
LEMMA NextKeeps ==
  IInv /\ [Next]_vars => IInv'
<1>. SUFFICES ASSUME IInv, [Next]_vars
              PROVE  IInv'
  OBVIOUS
<1>0. /\ run \in [Call -> {"none", "running", "cancelling", "completed", "failed", "cancelled"}]
      /\ shutdown \in {"open", "draining", "finalizing", "closed"}
  BY DEF IInv, TypeOK
<1>1. ASSUME NEW c \in Call, Start(c)
      PROVE  IInv'
  BY <1>1, StartKeeps
<1>2. ASSUME NEW c \in Call, BatchEnd(c)
      PROVE  IInv'
  BY <1>2, BatchEndKeeps
<1>3. ASSUME NEW c \in Call, ParentAbort(c)
      PROVE  IInv'
  <2>1. Abort({c}) /\ UNCHANGED <<run, shutdown>>
    BY <1>3 DEF ParentAbort
  <2>. QED  BY <1>0, <2>1, AbortKeeps
<1>4. ASSUME NEW c \in Call, Cancel(c)
      PROVE  IInv'
  <2>1. Abort({c}) /\ UNCHANGED shutdown /\ run' = [run EXCEPT ![c] = "cancelling"]
    BY <1>4 DEF Cancel
  <2>2. /\ run' \in [Call -> {"none", "running", "cancelling", "completed", "failed", "cancelled"}]
        /\ \A x \in Call : run'[x] = "completed" => run[x] = "completed"
    BY <1>0, <2>1
  <2>. QED  BY <1>0, <2>1, <2>2, AbortKeeps
<1>5. ASSUME NEW j \in Job, Launch(j)
      PROVE  IInv'
  BY <1>5, LaunchKeeps
<1>6. ASSUME NEW j \in Job,
             SpawnError(j) \/ Close(j) \/ Timeout(j) \/ KillTimer(j) \/ Watchdog(j)
      PROVE  IInv'
  BY <1>6, ProcessKeeps
<1>7. CASE Shutdown
  <2>. DEFINE cs == {c \in Call : phase[c] = "running"}
  <2>1. /\ Abort(cs) /\ UNCHANGED run /\ shutdown' = "draining"
        /\ cs \in SUBSET Call /\ \A c \in Call : phase[c] = "running" => c \in cs
    BY <1>7 DEF Shutdown
  <2>. HIDE DEF cs
  <2>. QED  BY <1>0, <2>1, AbortKeeps
<1>8. CASE Expire
  BY <1>8, ExpireKeeps
<1>9. CASE Closed
  BY <1>9, ClosedKeeps
<1>10. CASE UNCHANGED vars
  BY <1>10 DEF vars, calls, jobs, IInv, TypeOK, SlotsShared, InStage, Owned, OwnedBy, StepsOf,
              Cancels, Ordered, StepsAccounted
<1>. QED  BY <1>1, <1>2, <1>3, <1>4, <1>5, <1>6, <1>7, <1>8, <1>9, <1>10 DEF Next

\* The invariant holds of every behavior.
LEMMA Invariance ==
  Spec => []IInv
BY InitHolds, NextKeeps, PTL DEF Spec

\* Every variable stays within its type, whatever the plans and the limit.
THEOREM TypeCorrect ==
  Spec => []TypeOK
<1>1. IInv => TypeOK
  BY DEF IInv
<1>. QED  BY <1>1, Invariance, PTL

\* As many slots are taken as jobs hold one, the queue is exactly what waits, and
\* nobody waits while a slot is free: no slot is lost or given back twice, by
\* whichever of the ends of a step, an abort or the shutdown
\* (extensions/workflow.ts:107-166).
THEOREM SlotsAreShared ==
  Spec => []SlotsShared
<1>1. IInv => SlotsShared
  BY DEF IInv
<1>. QED  BY <1>1, Invariance, PTL

\* No step asks for a slot before all it depends on succeeded, and in a
\* sequential workflow one at a time is under way.
THEOREM OrderIsKept ==
  Spec => []OrderKept
<1>1. IInv => OrderKept
  <2>. SUFFICES ASSUME IInv, NEW c \in Call
                PROVE  /\ \A s \in StepsOf(c) :
                            stage[<<c, s>>] \in {"queued", "granted", "success"} \cup Running =>
                              \A d \in plan[c].after[s] : stage[<<c, d>>] = "success"
                       /\ plan[c].sequential =>
                            Cardinality(JobsOf(c, Step)
                                          \cap InStage({"queued", "granted"} \cup Running)) <= 1
    BY DEF OrderKept
  <2>1. \A s \in StepsOf(c) :
          stage[<<c, s>>] \in {"queued", "granted", "success"} \cup Running =>
            \A d \in plan[c].after[s] : stage[<<c, d>>] = "success"
    BY DEF IInv, Ordered, Taken
  <2>2. ASSUME plan[c].sequential
        PROVE  Cardinality(JobsOf(c, Step) \cap InStage({"queued", "granted"} \cup Running)) <= 1
    <3>. DEFINE under == JobsOf(c, Step) \cap InStage({"queued", "granted"} \cup Running)
    <3>1. \A j \in under : \E s \in batch[c] : j = <<c, s>>
      BY DEF IInv, Owned, OwnedBy, JobsOf, InStage, Taken
    <3>2. \A j, k \in under : j = k
      BY <2>2, <3>1 DEF IInv, Owned, OwnedBy
    <3>. HIDE DEF under
    <3>3. under = {} => Cardinality(under) = 0
      BY FS_EmptySet
    <3>4. under # {} => Cardinality(under) = 1
      <4>. SUFFICES ASSUME under # {}
                    PROVE  Cardinality(under) = 1
        OBVIOUS
      <4>1. PICK j : under = {j}
        BY <3>2
      <4>. QED  BY <4>1, FS_Singleton
    <3>5. Cardinality(under) <= 1
      BY <3>3, <3>4
    <3>. QED  BY <3>5 DEF under
  <2>. QED  BY <2>1, <2>2
<1>. QED  BY <1>1, Invariance, PTL

\* A call that returned has no step under way, one that never began depends on
\* one that did not succeed, and the run counts as completed only if all of its
\* steps succeeded (extensions/workflow.ts:578-656).
THEOREM StepsAreAccounted ==
  Spec => []StepsAccounted
<1>1. IInv => StepsAccounted
  BY DEF IInv
<1>. QED  BY <1>1, Invariance, PTL
=============================================================================
