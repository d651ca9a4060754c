-------------------------------- MODULE Sums --------------------------------
(***************************************************************************)
(* Sums of integers, as the modules of this project take them with         *)
(* SumFunctionOnSet: what a sum is for the empty set and after an element  *)
(* is added or changed, and that it is a natural number if its terms are.  *)
(* The fold takes the elements in an order of its own, so that the rule    *)
(* for adding one needs that the order does not matter.                    *)
(***************************************************************************)
EXTENDS Integers, FiniteSets, Functions, FiniteSetTheorems, WellFoundedInduction, TLAPS

First(s) == CHOOSE x \in s : TRUE

\* g is the fold of F on the subsets of S.
IsFold(F, S, g) ==
    g = [s \in SUBSET S |-> IF s = {} THEN 0 ELSE F[First(s)] + g[s \ {First(s)}]]

\* Among sets of elements of a finite set one is the smallest.
LEMMA SmallestSet ==
    ASSUME NEW B, IsFiniteSet(B), NEW A, A \subseteq SUBSET B, A # {}
    PROVE  \E s \in A : \A t \in A : t \subseteq s => t = s
  <1>1. A \subseteq FiniteSubsetsOf(B)
    BY FS_Subset DEF FiniteSubsetsOf
  <1>2. PICK s \in A : \A t \in A : ~(<<t, s>> \in StrictSubsetOrdering(B))
    BY <1>1, FS_StrictSubsetOrderingWellFounded, WFMin
  <1> QED
    BY <1>2 DEF StrictSubsetOrdering

\* Two folds agree where both are defined.
LEMMA FoldsAgree ==
    ASSUME NEW F, NEW S, IsFiniteSet(S), NEW T, NEW g, NEW h, IsFold(F, S, g), IsFold(F, T, h)
    PROVE  \A s \in (SUBSET S) \cap (SUBSET T) : g[s] = h[s]
  <1> DEFINE A == {s \in (SUBSET S) \cap (SUBSET T) : g[s] # h[s]}
  <1> SUFFICES ASSUME A # {} PROVE FALSE
    OBVIOUS
  <1>1. \E s \in A : \A t \in A : t \subseteq s => t = s
    <2>1. A \subseteq SUBSET S
      OBVIOUS
    <2> HIDE DEF A
    <2> QED
      BY <2>1, SmallestSet
  <1>2. PICK s \in A : \A t \in A : t \subseteq s => t = s
    BY <1>1
  <1>3. /\ g[s] = IF s = {} THEN 0 ELSE F[First(s)] + g[s \ {First(s)}]
        /\ h[s] = IF s = {} THEN 0 ELSE F[First(s)] + h[s \ {First(s)}]
    BY DEF IsFold
  <1>4. s # {} => First(s) \in s
    BY DEF First
  <1>5. s # {} => g[s \ {First(s)}] = h[s \ {First(s)}]
    BY <1>2, <1>4
  <1> QED
    BY <1>3, <1>5

\* Every finite set has a fold.
LEMMA FoldExists ==
    ASSUME NEW F, NEW B, IsFiniteSet(B)
    PROVE  \E g : IsFold(F, B, g)
  <1> DEFINE A == {S \in SUBSET B : ~\E g : IsFold(F, S, g)}
  <1> SUFFICES ASSUME A # {} PROVE FALSE
    OBVIOUS
  <1>1. \E S \in A : \A t \in A : t \subseteq S => t = S
    <2>1. A \subseteq SUBSET B
      OBVIOUS
    <2> HIDE DEF A
    <2> QED
      BY <2>1, SmallestSet
  <1>0. PICK S \in A : \A t \in A : t \subseteq S => t = S
    BY <1>1
  <1> DEFINE fold(s) == CHOOSE g : IsFold(F, s, g)
             v(s) == fold(s)[s]
             G == [s \in SUBSET S |-> IF s = {} THEN 0 ELSE F[First(s)] + v(s \ {First(s)})]
  <1>2. \A s \in SUBSET S : s # {} => First(s) \in s
    BY DEF First
  <1>3. \A s \in SUBSET S : s # S => IsFold(F, s, fold(s)) /\ IsFiniteSet(s)
    BY <1>0, FS_Subset
  <1> HIDE DEF fold
  <1>4. \A s \in SUBSET S : s # S => G[s] = v(s)
    <2> TAKE s \in SUBSET S
    <2> HAVE s # S
    <2>1. CASE s = {}
      <3>1. fold(s)[s] = 0
        BY <1>3, <2>1 DEF IsFold
      <3> QED
        BY <2>1, <3>1
    <2>2. CASE s # {}
      <3> DEFINE t == s \ {First(s)}
      <3>1. t \in SUBSET S /\ t # S /\ t \subseteq s
        BY <1>2, <2>2
      <3>2. fold(s)[s] = F[First(s)] + fold(s)[t]
        BY <1>3, <2>2 DEF IsFold
      <3>3. fold(s)[t] = fold(t)[t]
        BY <1>3, <3>1, FoldsAgree
      <3> QED
        BY <2>2, <3>2, <3>3
    <2> QED
      BY <2>1, <2>2
  <1> HIDE DEF v
  <1>5. G = [s \in SUBSET S |-> IF s = {} THEN 0 ELSE F[First(s)] + G[s \ {First(s)}]]
    <2>1. \A s \in SUBSET S : s # {} => s \ {First(s)} \in SUBSET S /\ s \ {First(s)} # S
      BY <1>2
    <2> QED
      BY <1>4, <2>1
  <1>6. IsFold(F, S, G)
    BY <1>5 DEF IsFold
  <1> QED
    BY <1>0, <1>6

\* The sum over a finite set is its fold.
LEMMA SumIsFold ==
    ASSUME NEW F, NEW S, IsFiniteSet(S)
    PROVE  \E g : IsFold(F, S, g) /\ SumFunctionOnSet(F, S) = g[S]
  <1> DEFINE g == CHOOSE h : h = [s \in SUBSET S |-> IF s = {} THEN 0
                                    ELSE F[CHOOSE x \in s : TRUE] + h[s \ {CHOOSE x \in s : TRUE}]]
  <1>1. \E h : h = [s \in SUBSET S |-> IF s = {} THEN 0
                      ELSE F[CHOOSE x \in s : TRUE] + h[s \ {CHOOSE x \in s : TRUE}]]
    <2>1. PICK h : IsFold(F, S, h)
      BY FoldExists
    <2> QED
      BY <2>1 DEF IsFold, First
  <1>2. IsFold(F, S, g)
    BY <1>1, Zenon DEF IsFold, First
  <1>3. SumFunctionOnSet(F, S) = g[S]
    BY Zenon DEF SumFunctionOnSet, FoldFunctionOnSet, MapThenFoldSet
  <1> QED
    BY <1>2, <1>3

LEMMA SumEmpty ==
    ASSUME NEW F
    PROVE  SumFunctionOnSet(F, {}) = 0
  <1>1. PICK g : IsFold(F, {}, g) /\ SumFunctionOnSet(F, {}) = g[{}]
    BY SumIsFold, FS_EmptySet
  <1> QED
    BY <1>1 DEF IsFold

\* The fold takes one element, and sums the rest.
LEMMA SumFirst ==
    ASSUME NEW F, NEW S, IsFiniteSet(S), S # {}
    PROVE  /\ First(S) \in S
           /\ SumFunctionOnSet(F, S) = F[First(S)] + SumFunctionOnSet(F, S \ {First(S)})
  <1> DEFINE T == S \ {First(S)}
  <1>1. First(S) \in S
    BY DEF First
  <1>2. PICK g : IsFold(F, S, g) /\ SumFunctionOnSet(F, S) = g[S]
    BY SumIsFold
  <1>3. IsFiniteSet(T)
    BY FS_Subset
  <1>4. PICK h : IsFold(F, T, h) /\ SumFunctionOnSet(F, T) = h[T]
    BY <1>3, SumIsFold
  <1>5. g[T] = h[T]
    BY <1>2, <1>4, FoldsAgree
  <1>6. g[S] = F[First(S)] + g[T]
    BY <1>2 DEF IsFold
  <1> QED
    BY <1>1, <1>2, <1>4, <1>5, <1>6

LEMMA SumInt ==
    ASSUME NEW F, NEW B, IsFiniteSet(B), \A x \in B : F[x] \in Int
    PROVE  /\ SumFunctionOnSet(F, B) \in Int
           /\ (\A x \in B : F[x] \in Nat) => SumFunctionOnSet(F, B) \in Nat
  <1> DEFINE Fine(S) == /\ SumFunctionOnSet(F, S) \in Int
                        /\ (\A x \in B : F[x] \in Nat) => SumFunctionOnSet(F, S) \in Nat
             A == {S \in SUBSET B : ~Fine(S)}
  <1> SUFFICES ASSUME A # {} PROVE FALSE
    OBVIOUS
  <1>1. \E S \in A : \A t \in A : t \subseteq S => t = S
    <2>1. A \subseteq SUBSET B
      OBVIOUS
    <2> HIDE DEF A
    <2> QED
      BY <2>1, SmallestSet
  <1>2. PICK S \in A : \A t \in A : t \subseteq S => t = S
    BY <1>1
  <1>3. S # {}
    BY SumEmpty
  <1>4. First(S) \in S /\ SumFunctionOnSet(F, S) = F[First(S)] + SumFunctionOnSet(F, S \ {First(S)})
    BY <1>3, SumFirst, FS_Subset
  <1>5. Fine(S \ {First(S)})
    BY <1>2, <1>4
  <1> QED
    BY <1>4, <1>5

\* The order does not matter: any element may be taken out first.
LEMMA SumTake ==
    ASSUME NEW F, NEW B, IsFiniteSet(B), \A x \in B : F[x] \in Int
    PROVE  \A x \in B : SumFunctionOnSet(F, B) = F[x] + SumFunctionOnSet(F, B \ {x})
  <1> DEFINE Fine(S) == \A x \in S : SumFunctionOnSet(F, S) = F[x] + SumFunctionOnSet(F, S \ {x})
             A == {S \in SUBSET B : ~Fine(S)}
  <1> SUFFICES ASSUME A # {} PROVE FALSE
    OBVIOUS
  <1>1. \E S \in A : \A t \in A : t \subseteq S => t = S
    <2>1. A \subseteq SUBSET B
      OBVIOUS
    <2> HIDE DEF A
    <2> QED
      BY <2>1, SmallestSet
  <1>2. PICK S \in A : \A t \in A : t \subseteq S => t = S
    BY <1>1
  <1>3. PICK x \in S : SumFunctionOnSet(F, S) # F[x] + SumFunctionOnSet(F, S \ {x})
    OBVIOUS
  <1> DEFINE c == First(S)
             rest == (S \ {c}) \ {x}
  <1>4. c \in S /\ SumFunctionOnSet(F, S) = F[c] + SumFunctionOnSet(F, S \ {c})
    BY SumFirst, FS_Subset
  <1>5. x # c
    BY <1>3, <1>4
  <1>6. SumFunctionOnSet(F, S \ {c}) = F[x] + SumFunctionOnSet(F, rest)
    <2>1. Fine(S \ {c})
      BY <1>2, <1>4
    <2> QED
      BY <2>1, <1>5
  <1>7. SumFunctionOnSet(F, S \ {x}) = F[c] + SumFunctionOnSet(F, rest)
    <2>1. Fine(S \ {x})
      BY <1>2, <1>3
    <2>2. (S \ {x}) \ {c} = rest
      OBVIOUS
    <2> QED
      BY <2>1, <2>2, <1>4, <1>5
  <1>8. F[x] \in Int /\ F[c] \in Int /\ SumFunctionOnSet(F, rest) \in Int
    BY <1>4, SumInt, FS_Subset
  <1> QED
    BY <1>3, <1>4, <1>6, <1>7, <1>8

LEMMA SumAdd ==
    ASSUME NEW F, NEW S, IsFiniteSet(S), NEW x, x \notin S, \A y \in S \cup {x} : F[y] \in Int
    PROVE  SumFunctionOnSet(F, S \cup {x}) = SumFunctionOnSet(F, S) + F[x]
  <1> DEFINE T == S \cup {x}
  <1>1. IsFiniteSet(T) /\ x \in T /\ T \ {x} = S
    BY FS_AddElement
  <1>2. \A y \in T : F[y] \in Int
    OBVIOUS
  <1> HIDE DEF T
  <1>3. SumFunctionOnSet(F, T) = F[x] + SumFunctionOnSet(F, T \ {x})
    BY <1>1, <1>2, SumTake
  <1>4. SumFunctionOnSet(F, T) = F[x] + SumFunctionOnSet(F, S)
    BY <1>1, <1>3
  <1>5. SumFunctionOnSet(F, S) \in Int /\ F[x] \in Int
    BY <1>1, <1>2, SumInt
  <1>6. SumFunctionOnSet(F, T) = SumFunctionOnSet(F, S) + F[x]
    BY <1>4, <1>5
  <1> QED
    BY <1>6 DEF T

\* A sum depends only on its terms.
LEMMA SumSame ==
    ASSUME NEW F, NEW G, NEW B, IsFiniteSet(B), \A x \in B : F[x] = G[x]
    PROVE  SumFunctionOnSet(F, B) = SumFunctionOnSet(G, B)
  <1> DEFINE A == {S \in SUBSET B : SumFunctionOnSet(F, S) # SumFunctionOnSet(G, S)}
  <1> SUFFICES ASSUME A # {} PROVE FALSE
    OBVIOUS
  <1>1. \E S \in A : \A t \in A : t \subseteq S => t = S
    <2>1. A \subseteq SUBSET B
      OBVIOUS
    <2> HIDE DEF A
    <2> QED
      BY <2>1, SmallestSet
  <1>2. PICK S \in A : \A t \in A : t \subseteq S => t = S
    BY <1>1
  <1>3. S # {} /\ IsFiniteSet(S)
    BY SumEmpty, FS_Subset
  <1>4. /\ First(S) \in S
        /\ SumFunctionOnSet(F, S) = F[First(S)] + SumFunctionOnSet(F, S \ {First(S)})
        /\ SumFunctionOnSet(G, S) = G[First(S)] + SumFunctionOnSet(G, S \ {First(S)})
    BY <1>3, SumFirst
  <1>5. S \ {First(S)} \notin A
    BY <1>2, <1>4
  <1> QED
    BY <1>4, <1>5

\* One term changes.
LEMMA SumUpdate ==
    ASSUME NEW F, NEW G, NEW S, IsFiniteSet(S), NEW x \in S,
           \A y \in S : F[y] \in Int /\ G[y] \in Int,
           \A y \in S \ {x} : G[y] = F[y]
    PROVE  SumFunctionOnSet(G, S) = SumFunctionOnSet(F, S) - F[x] + G[x]
  <1>1. SumFunctionOnSet(F, S) = F[x] + SumFunctionOnSet(F, S \ {x})
    BY SumTake
  <1>2. SumFunctionOnSet(G, S) = G[x] + SumFunctionOnSet(G, S \ {x})
    BY SumTake
  <1>3. IsFiniteSet(S \ {x})
    BY FS_Subset
  <1>4. SumFunctionOnSet(F, S \ {x}) = SumFunctionOnSet(G, S \ {x})
    BY <1>3, SumSame
  <1>5. SumFunctionOnSet(F, S \ {x}) \in Int
    BY <1>3, SumInt
  <1> QED
    BY <1>1, <1>2, <1>4, <1>5

LEMMA SumZero ==
    ASSUME NEW F, NEW B, IsFiniteSet(B), \A x \in B : F[x] = 0
    PROVE  SumFunctionOnSet(F, B) = 0
  <1> DEFINE A == {S \in SUBSET B : SumFunctionOnSet(F, S) # 0}
  <1> SUFFICES ASSUME A # {} PROVE FALSE
    OBVIOUS
  <1>1. \E S \in A : \A t \in A : t \subseteq S => t = S
    <2>1. A \subseteq SUBSET B
      OBVIOUS
    <2> HIDE DEF A
    <2> QED
      BY <2>1, SmallestSet
  <1>2. PICK S \in A : \A t \in A : t \subseteq S => t = S
    BY <1>1
  <1>3. S # {} /\ IsFiniteSet(S)
    BY SumEmpty, FS_Subset
  <1>4. First(S) \in S /\ SumFunctionOnSet(F, S) = F[First(S)] + SumFunctionOnSet(F, S \ {First(S)})
    BY <1>3, SumFirst
  <1>5. SumFunctionOnSet(F, S \ {First(S)}) = 0
    BY <1>2, <1>4
  <1> QED
    BY <1>4, <1>5

\* Sums over two parts of a finite set compare as their terms do, an element outside counting 0.
LEMMA SumCompare ==
    ASSUME NEW F, NEW G, NEW B, IsFiniteSet(B), NEW S \in SUBSET B, NEW T \in SUBSET B,
           \A x \in B : F[x] \in Int /\ G[x] \in Int,
           \A x \in B : (IF x \in S THEN F[x] ELSE 0) <= (IF x \in T THEN G[x] ELSE 0)
    PROVE  SumFunctionOnSet(F, S) <= SumFunctionOnSet(G, T)
  <1> DEFINE Below(C) == SumFunctionOnSet(F, S \cap C) <= SumFunctionOnSet(G, T \cap C)
             A == {C \in SUBSET B : ~Below(C)}
  <1>0. A = {}
    <2> SUFFICES ASSUME A # {} PROVE FALSE
      OBVIOUS
    <2>1. \E C \in A : \A t \in A : t \subseteq C => t = C
      <3>1. A \subseteq SUBSET B
        OBVIOUS
      <3> HIDE DEF A
      <3> QED
        BY <3>1, SmallestSet
    <2>2. PICK C \in A : \A t \in A : t \subseteq C => t = C
      BY <2>1
    <2>3. C # {}
      <3>1. C = {} => S \cap C = {} /\ T \cap C = {}
        OBVIOUS
      <3> QED
        BY <3>1, SumEmpty
    <2>4. PICK x \in C : TRUE
      BY <2>3
    <2> DEFINE D == C \ {x}
    <2>5. Below(D)
      <3>1. D \in SUBSET B /\ D \subseteq C /\ D # C
        OBVIOUS
      <3>2. D \notin A
        BY <2>2, <3>1
      <3> HIDE DEF D, Below
      <3> QED
        BY <3>1, <3>2
    <2>6. IsFiniteSet(S \cap C) /\ IsFiniteSet(T \cap C) /\ IsFiniteSet(S \cap D) /\ IsFiniteSet(T \cap D)
      BY FS_Subset
    <2>7. SumFunctionOnSet(F, S \cap D) \in Int /\ SumFunctionOnSet(G, T \cap D) \in Int
      <3>1. \A y \in S \cap D : F[y] \in Int
        OBVIOUS
      <3>2. \A y \in T \cap D : G[y] \in Int
        OBVIOUS
      <3> QED
        BY <2>6, <3>1, <3>2, SumInt
    <2>8. SumFunctionOnSet(F, S \cap C) =
            SumFunctionOnSet(F, S \cap D) + (IF x \in S THEN F[x] ELSE 0)
      <3>1. CASE x \in S
        <4>1. (S \cap C) \ {x} = S \cap D
          OBVIOUS
        <4>2. \A y \in S \cap C : F[y] \in Int
          OBVIOUS
        <4>3. SumFunctionOnSet(F, S \cap C) = F[x] + SumFunctionOnSet(F, (S \cap C) \ {x})
          BY <2>6, <3>1, <4>2, SumTake
        <4> QED
          BY <2>7, <3>1, <4>1, <4>3
      <3>2. CASE x \notin S
        <4>1. S \cap C = S \cap D
          BY <3>2
        <4> QED
          BY <2>7, <3>2, <4>1
      <3> QED
        BY <3>1, <3>2
    <2>9. SumFunctionOnSet(G, T \cap C) =
            SumFunctionOnSet(G, T \cap D) + (IF x \in T THEN G[x] ELSE 0)
      <3>1. CASE x \in T
        <4>1. (T \cap C) \ {x} = T \cap D
          OBVIOUS
        <4>2. \A y \in T \cap C : G[y] \in Int
          OBVIOUS
        <4>3. SumFunctionOnSet(G, T \cap C) = G[x] + SumFunctionOnSet(G, (T \cap C) \ {x})
          BY <2>6, <3>1, <4>2, SumTake
        <4>4. G[x] \in Int
          OBVIOUS
        <4> HIDE DEF A, D
        <4> QED
          BY <2>7, <3>1, <4>1, <4>3, <4>4
      <3>2. CASE x \notin T
        <4>1. T \cap C = T \cap D
          BY <3>2
        <4> QED
          BY <2>7, <3>2, <4>1
      <3> QED
        BY <3>1, <3>2
    <2> DEFINE fx == IF x \in S THEN F[x] ELSE 0
               gx == IF x \in T THEN G[x] ELSE 0
    <2>10. fx \in Int /\ gx \in Int /\ fx <= gx
      OBVIOUS
    <2>11. ~Below(C)
      BY <2>2
    <2> QED
      BY <2>5, <2>7, <2>8, <2>9, <2>10, <2>11
  <1>1. Below(B)
    BY <1>0
  <1> QED
    <2>1. S \cap B = S /\ T \cap B = T
      OBVIOUS
    <2> QED
      BY <1>1, <2>1
=============================================================================
