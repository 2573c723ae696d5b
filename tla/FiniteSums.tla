----------------------------- MODULE FiniteSums -----------------------------
(***************************************************************************)
(* Facts about SumFunctionOnSet, the sum of a function's values over a     *)
(* finite set: that its recursive definition defines it, and that a sum    *)
(* grows by f[x] with an element x.  Induction is by a least set that is   *)
(* wrong, since the subsets of a finite set are well founded.              *)
(***************************************************************************)
EXTENDS Functions, FiniteSetTheorems, TLAPS

Pick(s) == CHOOSE x \in s : TRUE

\* g is the recursive function that the sum of f over T is taken from.
SumsTo(g, f, T) ==
    g = [s \in SUBSET T |-> IF s = {} THEN 0 ELSE f[Pick(s)] + g[s \ {Pick(s)}]]

LEMMA SumUnfolds ==
    ASSUME NEW f, NEW S
    PROVE  SumFunctionOnSet(f, S) = (CHOOSE g : SumsTo(g, f, S))[S]
BY DEF SumFunctionOnSet, FoldFunctionOnSet, MapThenFoldSet, SumsTo, Pick

LEMMA PickFacts ==
    ASSUME NEW S, S # {}
    PROVE  Pick(S) \in S
BY DEF Pick

\* A nonempty set of subsets of a finite set has a least one.
LEMMA LeastSet ==
    ASSUME NEW S, IsFiniteSet(S), NEW U, U \subseteq SUBSET S, U # {}
    PROVE  \E x \in U : \A y \in U : y \subseteq x => y = x
<1>1. IsWellFoundedOn(StrictSubsetOrdering(S), SUBSET S)
  BY FS_StrictSubsetOrderingWellFounded, FS_FiniteSubsetsOfFinite
<1>2. \E x \in U : \A y \in U : ~ (<<y, x>> \in StrictSubsetOrdering(S))
  BY <1>1, WFMin
<1> QED BY <1>2 DEF StrictSubsetOrdering

\* Two such functions agree where both are defined.
LEMMA SumsAgree ==
    ASSUME NEW f, NEW g, NEW h, NEW T, NEW W, IsFiniteSet(T), SumsTo(g, f, T), SumsTo(h, f, W)
    PROVE  \A s : s \subseteq T /\ s \subseteq W => g[s] = h[s]
<1> DEFINE Bad == {s \in SUBSET T : s \subseteq W /\ g[s] # h[s]}
<1> SUFFICES ASSUME Bad # {} PROVE FALSE
  OBVIOUS
<1>1. PICK s \in Bad : \A y \in Bad : y \subseteq s => y = s
  <2>1. Bad \subseteq SUBSET T
    OBVIOUS
  <2> HIDE DEF Bad
  <2> QED BY <2>1, LeastSet
<1>2. /\ g[s] = IF s = {} THEN 0 ELSE f[Pick(s)] + g[s \ {Pick(s)}]
      /\ h[s] = IF s = {} THEN 0 ELSE f[Pick(s)] + h[s \ {Pick(s)}]
  BY <1>1 DEF SumsTo
<1>3. s # {}
  BY <1>1, <1>2
<1>4. g[s \ {Pick(s)}] = h[s \ {Pick(s)}]
  BY <1>1, <1>3, PickFacts
<1> QED BY <1>1, <1>2, <1>3, <1>4

\* There is one for every finite set.
LEMMA SumsExist ==
    ASSUME NEW f, NEW T, IsFiniteSet(T)
    PROVE  \E g : SumsTo(g, f, T)
<1> DEFINE Bad == {s \in SUBSET T : ~ \E g : SumsTo(g, f, s)}
<1> SUFFICES ASSUME Bad # {} PROVE FALSE
  OBVIOUS
<1>1. PICK U \in Bad : \A y \in Bad : y \subseteq U => y = U
  <2>1. Bad \subseteq SUBSET T
    OBVIOUS
  <2> HIDE DEF Bad
  <2> QED BY <2>1, LeastSet
<1> DEFINE G(s) == CHOOSE g : SumsTo(g, f, s)
           g == [s \in SUBSET U |-> IF s = {} THEN 0 ELSE f[Pick(s)] + G(s \ {Pick(s)})[s \ {Pick(s)}]]
<1>2. ASSUME NEW s \in SUBSET U, s # U
      PROVE  SumsTo(G(s), f, s)
  <2>1. s \in SUBSET T /\ s \notin Bad
    BY <1>1, <1>2
  <2> QED BY <2>1
<1>3. \A s \in SUBSET U : IsFiniteSet(s)
  BY <1>1, FS_Subset
<1>4. ASSUME NEW s \in SUBSET U, s # U
      PROVE  g[s] = G(s)[s]
  <2>1. SumsTo(G(s), f, s)
    BY <1>2, <1>4
  <2> HIDE DEF G
  <2>2. G(s)[s] = IF s = {} THEN 0 ELSE f[Pick(s)] + G(s)[s \ {Pick(s)}]
    BY <2>1 DEF SumsTo
  <2>3. ASSUME s # {}
        PROVE  G(s)[s \ {Pick(s)}] = G(s \ {Pick(s)})[s \ {Pick(s)}]
    <3>1. s \ {Pick(s)} \in SUBSET U /\ s \ {Pick(s)} # U
      BY <1>4
    <3>2. SumsTo(G(s \ {Pick(s)}), f, s \ {Pick(s)})
      BY <1>2, <3>1
    <3>3. s \ {Pick(s)} \subseteq s
      OBVIOUS
    <3> QED BY <1>3, <2>1, <3>2, <3>3, SumsAgree
  <2> QED BY <2>2, <2>3
<1> HIDE DEF G
<1>5. ASSUME NEW s \in SUBSET U, s # {}
      PROVE  G(s \ {Pick(s)})[s \ {Pick(s)}] = g[s \ {Pick(s)}]
  <2>1. s \ {Pick(s)} \in SUBSET U /\ s \ {Pick(s)} # U
    BY <1>5, PickFacts
  <2> QED BY <1>4, <2>1
<1>6. g = [s \in SUBSET U |-> IF s = {} THEN 0 ELSE f[Pick(s)] + g[s \ {Pick(s)}]]
  BY <1>5
<1>7. SumsTo(g, f, U)
  BY <1>6 DEF SumsTo
<1> HIDE DEF g
<1> QED BY <1>1, <1>7

LEMMA SumStep ==
    ASSUME NEW f, NEW T, IsFiniteSet(T)
    PROVE  SumFunctionOnSet(f, T) =
             IF T = {} THEN 0 ELSE f[Pick(T)] + SumFunctionOnSet(f, T \ {Pick(T)})
<1> DEFINE G(s) == CHOOSE g : SumsTo(g, f, s)
           R == T \ {Pick(T)}
<1>1. IsFiniteSet(R) /\ R \subseteq T
  BY FS_Subset
<1>2. SumsTo(G(T), f, T)
  BY SumsExist
<1>3. SumsTo(G(R), f, R)
  BY SumsExist, <1>1
<1>4. SumFunctionOnSet(f, T) = G(T)[T] /\ SumFunctionOnSet(f, R) = G(R)[R]
  BY SumUnfolds
<1> HIDE DEF G
<1>5. G(T)[T] = IF T = {} THEN 0 ELSE f[Pick(T)] + G(T)[R]
  BY <1>2 DEF SumsTo
<1>6. G(T)[R] = G(R)[R]
  BY <1>1, <1>2, <1>3, SumsAgree
<1> QED BY <1>4, <1>5, <1>6

LEMMA SumEmpty ==
    ASSUME NEW f
    PROVE  SumFunctionOnSet(f, {}) = 0
BY SumStep, FS_EmptySet

LEMMA SumIsInt ==
    ASSUME NEW T, IsFiniteSet(T), NEW f, \A x \in T : f[x] \in Int
    PROVE  SumFunctionOnSet(f, T) \in Int
<1> DEFINE Bad == {s \in SUBSET T : SumFunctionOnSet(f, s) \notin Int}
<1> SUFFICES ASSUME Bad # {} PROVE FALSE
  OBVIOUS
<1>1. PICK s \in Bad : \A y \in Bad : y \subseteq s => y = s
  <2>1. Bad \subseteq SUBSET T
    OBVIOUS
  <2> HIDE DEF Bad
  <2> QED BY <2>1, LeastSet
<1>2. IsFiniteSet(s) /\ SumFunctionOnSet(f, s) \notin Int
  BY <1>1, FS_Subset
<1>3. s # {}
  <2>1. SumFunctionOnSet(f, {}) \in Int
    BY SumEmpty
  <2> QED BY <1>2, <2>1
<1>4. SumFunctionOnSet(f, s \ {Pick(s)}) \in Int /\ f[Pick(s)] \in Int
  BY <1>1, <1>3, PickFacts
<1>5. SumFunctionOnSet(f, s) = f[Pick(s)] + SumFunctionOnSet(f, s \ {Pick(s)})
  BY <1>2, <1>3, SumStep
<1> QED BY <1>1, <1>4, <1>5

\* A sum depends on the values over the set and nothing else.
LEMMA SumSame ==
    ASSUME NEW T, IsFiniteSet(T), NEW f, NEW g, \A x \in T : f[x] = g[x]
    PROVE  SumFunctionOnSet(f, T) = SumFunctionOnSet(g, T)
<1> DEFINE Bad == {s \in SUBSET T : SumFunctionOnSet(f, s) # SumFunctionOnSet(g, s)}
<1> SUFFICES ASSUME Bad # {} PROVE FALSE
  OBVIOUS
<1>1. PICK s \in Bad : \A y \in Bad : y \subseteq s => y = s
  <2>1. Bad \subseteq SUBSET T
    OBVIOUS
  <2> HIDE DEF Bad
  <2> QED BY <2>1, LeastSet
<1>2. IsFiniteSet(s)
  BY <1>1, FS_Subset
<1>3. s # {}
  BY <1>1, SumEmpty
<1>4. SumFunctionOnSet(f, s \ {Pick(s)}) = SumFunctionOnSet(g, s \ {Pick(s)}) /\ f[Pick(s)] = g[Pick(s)]
  BY <1>1, <1>3, PickFacts
<1>5. /\ SumFunctionOnSet(f, s) = f[Pick(s)] + SumFunctionOnSet(f, s \ {Pick(s)})
      /\ SumFunctionOnSet(g, s) = g[Pick(s)] + SumFunctionOnSet(g, s \ {Pick(s)})
  BY <1>2, <1>3, SumStep
<1> QED BY <1>1, <1>4, <1>5

\* Whichever element is taken first.
LEMMA SumTake ==
    ASSUME NEW T, IsFiniteSet(T), NEW f, \A x \in T : f[x] \in Int, NEW x \in T
    PROVE  SumFunctionOnSet(f, T) = f[x] + SumFunctionOnSet(f, T \ {x})
<1> DEFINE Bad == {s \in SUBSET T : \E y \in s : SumFunctionOnSet(f, s) # f[y] + SumFunctionOnSet(f, s \ {y})}
<1> SUFFICES ASSUME Bad # {} PROVE FALSE
  OBVIOUS
<1>1. PICK s \in Bad : \A y \in Bad : y \subseteq s => y = s
  <2>1. Bad \subseteq SUBSET T
    OBVIOUS
  <2> HIDE DEF Bad
  <2> QED BY <2>1, LeastSet
<1>2. PICK y \in s : SumFunctionOnSet(f, s) # f[y] + SumFunctionOnSet(f, s \ {y})
  BY <1>1
<1> DEFINE z == Pick(s)
<1>3. z \in s /\ s \subseteq T /\ IsFiniteSet(s) /\ f[y] \in Int /\ f[z] \in Int
  BY <1>1, <1>2, PickFacts, FS_Subset
<1>4. SumFunctionOnSet(f, s) = f[z] + SumFunctionOnSet(f, s \ {z})
  BY <1>2, <1>3, SumStep
<1> HIDE DEF z
<1>5. y # z
  BY <1>2, <1>4
<1>6. s \ {z} \notin Bad /\ s \ {y} \notin Bad
  BY <1>1, <1>2, <1>3
<1>7. SumFunctionOnSet(f, s \ {z}) = f[y] + SumFunctionOnSet(f, (s \ {z}) \ {y})
  BY <1>3, <1>5, <1>6
<1>8. SumFunctionOnSet(f, s \ {y}) = f[z] + SumFunctionOnSet(f, (s \ {y}) \ {z})
  BY <1>2, <1>3, <1>5, <1>6
<1>9. (s \ {z}) \ {y} = (s \ {y}) \ {z}
  OBVIOUS
<1>10. SumFunctionOnSet(f, (s \ {y}) \ {z}) \in Int
  <2>1. IsFiniteSet((s \ {y}) \ {z}) /\ \A w \in (s \ {y}) \ {z} : f[w] \in Int
    BY <1>3, FS_Subset
  <2> QED BY <2>1, SumIsInt
<1>11. SumFunctionOnSet(f, s) = f[y] + SumFunctionOnSet(f, s \ {y})
  BY <1>3, <1>4, <1>7, <1>8, <1>9, <1>10
<1> QED BY <1>2, <1>11

\* A sum grows by the value of an element that joins.
LEMMA SumAdd ==
    ASSUME NEW T, IsFiniteSet(T), NEW x, x \notin T, NEW f, \A y \in T \cup {x} : f[y] \in Int
    PROVE  SumFunctionOnSet(f, T \cup {x}) = SumFunctionOnSet(f, T) + f[x]
<1> DEFINE W == T \cup {x}
<1>1. IsFiniteSet(W) /\ x \in W
  BY FS_AddElement
<1>2. SumFunctionOnSet(f, W) = f[x] + SumFunctionOnSet(f, W \ {x})
  <2> HIDE DEF W
  <2>1. \A y \in W : f[y] \in Int
    BY DEF W
  <2> QED BY <1>1, <2>1, SumTake
<1>3. W \ {x} = T
  OBVIOUS
<1>4. SumFunctionOnSet(f, T) \in Int /\ f[x] \in Int
  BY SumIsInt
<1> HIDE DEF W
<1>5. SumFunctionOnSet(f, W) = f[x] + SumFunctionOnSet(f, T)
  BY <1>2, <1>3
<1> QED BY <1>4, <1>5 DEF W

\* Two sets that differ in one element at most.
LEMMA SumDiffers ==
    ASSUME NEW T, IsFiniteSet(T), NEW W, IsFiniteSet(W), NEW x, T \ {x} = W \ {x},
           NEW f, \A y \in T \cup W : f[y] \in Int
    PROVE  SumFunctionOnSet(f, W) =
             SumFunctionOnSet(f, T) + (IF x \in W THEN f[x] ELSE 0) - (IF x \in T THEN f[x] ELSE 0)
<1> DEFINE R == T \ {x}
<1>1. IsFiniteSet(R) /\ x \notin R /\ \A y \in R : f[y] \in Int
  BY FS_RemoveElement
<1>2. SumFunctionOnSet(f, R) \in Int
  BY <1>1, SumIsInt
<1>3. ASSUME NEW V, V \ {x} = R, IsFiniteSet(V), \A y \in V : f[y] \in Int
      PROVE  SumFunctionOnSet(f, V) = SumFunctionOnSet(f, R) + (IF x \in V THEN f[x] ELSE 0)
  <2>1. CASE x \in V
    <3>1. SumFunctionOnSet(f, V) = f[x] + SumFunctionOnSet(f, V \ {x})
      BY <1>3, <2>1, SumTake
    <3>2. f[x] \in Int
      BY <1>3, <2>1
    <3> HIDE DEF R
    <3>3. SumFunctionOnSet(f, V \ {x}) = SumFunctionOnSet(f, R)
      BY <1>3, Zenon
    <3> QED BY <1>2, <2>1, <3>1, <3>2, <3>3
  <2>2. CASE x \notin V
    <3>1. V = R
      BY <1>3, <2>2
    <3> HIDE DEF R
    <3> QED BY <1>2, <2>2, <3>1
  <2> QED BY <2>1, <2>2
<1>4. SumFunctionOnSet(f, T) = SumFunctionOnSet(f, R) + (IF x \in T THEN f[x] ELSE 0)
  BY <1>3
<1>5. SumFunctionOnSet(f, W) = SumFunctionOnSet(f, R) + (IF x \in W THEN f[x] ELSE 0)
  BY <1>3
<1>6. (x \in T \/ x \in W) => f[x] \in Int
  OBVIOUS
<1> HIDE DEF R
<1> QED BY <1>2, <1>4, <1>5, <1>6
=============================================================================
