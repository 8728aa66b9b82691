----------------------------- MODULE FiniteSums -----------------------------
(* Sums over finite sets: what SumFunctionOnSet (module Functions) computes. *)
EXTENDS Integers, FiniteSets, Functions, FiniteSetTheorems, TLAPS

\* The element a fold takes first, and one turn of the fold.
First(s) == CHOOSE x \in s : TRUE
Turn(f, h, s) == IF s = {} THEN 0 ELSE f[First(s)] + h[s \ {First(s)}]
Solves(f, h, S) == h = [s \in SUBSET S |-> Turn(f, h, s)]

\* Induction over the subsets of a finite set: a set of them has a least one.
LEMMA MinimalSubset ==
  ASSUME NEW S, IsFiniteSet(S), NEW B, B \subseteq SUBSET S, B # {}
  PROVE  \E m \in B : \A y \in B : y \subseteq m => y = m
<1>1. B \subseteq FiniteSubsetsOf(S)
  BY FS_Subset DEF FiniteSubsetsOf
<1>2. PICK m \in B : \A y \in B : ~ (<<y, m>> \in StrictSubsetOrdering(S))
  BY <1>1, WFMin, FS_StrictSubsetOrderingWellFounded
<1> QED BY <1>2 DEF StrictSubsetOrdering

LEMMA FirstIn ==
  ASSUME NEW s, s # {}
  PROVE  First(s) \in s
BY DEF First

\* Two tables of partial sums agree wherever both are defined.
LEMMA SolutionsAgree ==
  ASSUME NEW S, IsFiniteSet(S), NEW T, NEW f, NEW g, NEW h,
         Solves(f, g, S), Solves(f, h, T)
  PROVE  \A s \in (SUBSET S) \cap (SUBSET T) : g[s] = h[s]
<1> DEFINE B == {s \in (SUBSET S) \cap (SUBSET T) : g[s] # h[s]}
<1>1. SUFFICES ASSUME B # {} PROVE FALSE
  OBVIOUS
<1>2. PICK m \in B : \A y \in B : y \subseteq m => y = m
  <2>1. B \subseteq SUBSET S
    OBVIOUS
  <2> HIDE DEF B
  <2> QED BY <1>1, <2>1, MinimalSubset
<1>3. g[m] = Turn(f, g, m) /\ h[m] = Turn(f, h, m)
  BY <1>2 DEF Solves
<1>4. m # {}
  BY <1>2, <1>3 DEF Turn
<1>5. g[m \ {First(m)}] = h[m \ {First(m)}]
  BY <1>2, <1>4, FirstIn
<1> QED BY <1>2, <1>3, <1>5 DEF Turn

\* The recursive function a fold defines exists.
LEMMA SolutionExists ==
  ASSUME NEW S, IsFiniteSet(S), NEW f
  PROVE  \E h : Solves(f, h, S)
<1> DEFINE B == {s \in SUBSET S : ~ \E h : Solves(f, h, s)}
<1>1. SUFFICES ASSUME B # {} PROVE FALSE
  OBVIOUS
<1>2. PICK m \in B : \A y \in B : y \subseteq m => y = m
  <2>1. B \subseteq SUBSET S
    OBVIOUS
  <2> HIDE DEF B
  <2> QED BY <1>1, <2>1, MinimalSubset
<1> DEFINE H(u) == CHOOSE h : Solves(f, h, u)
           V(u) == H(u)[u]
           g == [s \in SUBSET m |->
                   IF s = {} THEN 0 ELSE f[First(s)] + V(s \ {First(s)})]
<1>3. ASSUME NEW u \in SUBSET m, u # m
      PROVE  Solves(f, H(u), u) /\ IsFiniteSet(u)
  <2>1. \E h : Solves(f, h, u)
    BY <1>2, <1>3
  <2> QED BY <1>2, <2>1, FS_Subset
<1>4. ASSUME NEW s \in SUBSET m, s # {}
      PROVE  g[s \ {First(s)}] = V(s \ {First(s)})
  <2> DEFINE u == s \ {First(s)}
  <2>1. u \in SUBSET m /\ u # m
    BY <1>4, FirstIn
  <2>2. Solves(f, H(u), u) /\ IsFiniteSet(u)
    BY <1>3, <2>1
  <2>3. V(u) = Turn(f, H(u), u)
    <3> HIDE DEF H
    <3> QED BY <2>2 DEF Solves
  <2>4. CASE u = {}
    BY <2>1, <2>3, <2>4 DEF Turn
  <2>5. CASE u # {}
    <3> DEFINE w == u \ {First(u)}
    <3>1. w \in SUBSET m /\ w # m /\ w \in SUBSET u
      BY <2>1, <2>5, FirstIn
    <3>2. Solves(f, H(w), w) /\ IsFiniteSet(w)
      BY <1>3, <3>1
    <3>3. H(u)[w] = H(w)[w]
      <4> HIDE DEF H, u, w
      <4> QED BY <2>2, <3>1, <3>2, SolutionsAgree
    <3>4. g[u] = f[First(u)] + V(w)
      BY <2>1, <2>5
    <3> HIDE DEF g, H, w, u
    <3> QED BY <2>3, <2>5, <3>3, <3>4 DEF Turn, u, w
  <2> QED BY <2>4, <2>5
<1>5. Solves(f, g, m)
  <2>1. ASSUME NEW s \in SUBSET m
        PROVE  g[s] = Turn(f, g, s)
    <3>1. CASE s = {}
      BY <3>1 DEF Turn
    <3>2. CASE s # {}
      <4>1. g[s] = f[First(s)] + V(s \ {First(s)})
        BY <3>2
      <4>2. g[s \ {First(s)}] = V(s \ {First(s)})
        <5> HIDE DEF g, V
        <5> QED BY <1>4, <3>2
      <4> HIDE DEF g, V
      <4> QED BY <3>2, <4>1, <4>2 DEF Turn
    <3> QED BY <3>1, <3>2
  <2> HIDE DEF H
  <2> QED BY <2>1 DEF Solves
<1> QED BY <1>2, <1>5

\* What a fold is: its table of partial sums, read at the whole set.
LEMMA SumTable ==
  ASSUME NEW S, IsFiniteSet(S), NEW f
  PROVE  \E h : Solves(f, h, S) /\ SumFunctionOnSet(f, S) = h[S]
<1> DEFINE h == CHOOSE h : h = [s \in SUBSET S |->
                  IF s = {} THEN 0
                  ELSE f[CHOOSE x \in s : TRUE]
                         + h[s \ {CHOOSE x \in s : TRUE}]]
<1>1. Solves(f, h, S)
  <2>1. \E g : g = [s \in SUBSET S |->
                  IF s = {} THEN 0
                  ELSE f[CHOOSE x \in s : TRUE]
                         + g[s \ {CHOOSE x \in s : TRUE}]]
    <3>1. PICK g : Solves(f, g, S)
      BY SolutionExists
    <3>2. g = [s \in SUBSET S |-> Turn(f, g, s)]
      BY <3>1 DEF Solves
    <3> QED BY <3>2, Zenon DEF Turn, First
  <2>2. h = [s \in SUBSET S |->
                  IF s = {} THEN 0
                  ELSE f[CHOOSE x \in s : TRUE]
                         + h[s \ {CHOOSE x \in s : TRUE}]]
    BY <2>1, Zenon
  <2> HIDE DEF h
  <2> QED BY <2>2 DEF Solves, Turn, First
<1>2. SumFunctionOnSet(f, S) = h[S]
  BY DEF SumFunctionOnSet, FoldFunctionOnSet, MapThenFoldSet
<1> QED BY <1>1, <1>2

-----------------------------------------------------------------------------
(* The facts about sums that other modules cite *)

LEMMA SumEmpty ==
  ASSUME NEW f
  PROVE  SumFunctionOnSet(f, {}) = 0
<1>1. PICK h : Solves(f, h, {}) /\ SumFunctionOnSet(f, {}) = h[{}]
  BY SumTable, FS_EmptySet
<1> QED BY <1>1 DEF Solves, Turn

\* A fold takes some element out and goes on with the others.
LEMMA SumFirst ==
  ASSUME NEW S, IsFiniteSet(S), S # {}, NEW f
  PROVE  /\ First(S) \in S
         /\ SumFunctionOnSet(f, S)
              = f[First(S)] + SumFunctionOnSet(f, S \ {First(S)})
<1> DEFINE T == S \ {First(S)}
<1>1. First(S) \in S /\ IsFiniteSet(T)
  BY FirstIn, FS_RemoveElement
<1>2. PICK h : Solves(f, h, S) /\ SumFunctionOnSet(f, S) = h[S]
  BY SumTable
<1>3. PICK g : Solves(f, g, T) /\ SumFunctionOnSet(f, T) = g[T]
  <2> HIDE DEF T
  <2> QED BY <1>1, SumTable
<1>4. h[S] = f[First(S)] + h[T]
  BY <1>2 DEF Solves, Turn
<1>5. g[T] = h[T]
  <2>1. T \in (SUBSET S) \cap (SUBSET T)
    OBVIOUS
  <2> HIDE DEF T
  <2> QED BY <1>1, <1>2, <1>3, <2>1, SolutionsAgree
<1> QED BY <1>1, <1>2, <1>3, <1>4, <1>5

\* The sum of integers is one.
LEMMA SumType ==
  ASSUME NEW S, IsFiniteSet(S), NEW f, \A x \in S : f[x] \in Int
  PROVE  SumFunctionOnSet(f, S) \in Int
<1> DEFINE B == {s \in SUBSET S : SumFunctionOnSet(f, s) \notin Int}
<1>1. SUFFICES ASSUME B # {} PROVE FALSE
  OBVIOUS
<1>2. PICK m \in B : \A y \in B : y \subseteq m => y = m
  <2>1. B \subseteq SUBSET S
    OBVIOUS
  <2> HIDE DEF B
  <2> QED BY <1>1, <2>1, MinimalSubset
<1>3. m # {} /\ IsFiniteSet(m)
  <2>1. SumFunctionOnSet(f, m) \notin Int /\ m \in SUBSET S
    BY <1>2
  <2>2. SumFunctionOnSet(f, {}) \in Int
    BY SumEmpty
  <2> QED BY <2>1, <2>2, FS_Subset, Zenon
<1>4. First(m) \in m
      /\ SumFunctionOnSet(f, m)
           = f[First(m)] + SumFunctionOnSet(f, m \ {First(m)})
  BY <1>3, SumFirst
<1>5. SumFunctionOnSet(f, m \ {First(m)}) \in Int
  BY <1>2, <1>4
<1> QED BY <1>2, <1>4, <1>5

\* Equal summands have equal sums.
LEMMA SumEqual ==
  ASSUME NEW S, IsFiniteSet(S), NEW f, NEW g, \A x \in S : f[x] = g[x]
  PROVE  SumFunctionOnSet(f, S) = SumFunctionOnSet(g, S)
<1> DEFINE B == {s \in SUBSET S :
                   SumFunctionOnSet(f, s) # SumFunctionOnSet(g, s)}
<1>1. SUFFICES ASSUME B # {} PROVE FALSE
  OBVIOUS
<1>2. PICK m \in B : \A y \in B : y \subseteq m => y = m
  <2>1. B \subseteq SUBSET S
    OBVIOUS
  <2> HIDE DEF B
  <2> QED BY <1>1, <2>1, MinimalSubset
<1>3. m # {} /\ IsFiniteSet(m)
  BY <1>2, SumEmpty, FS_Subset
<1>4. /\ First(m) \in m
      /\ SumFunctionOnSet(f, m)
           = f[First(m)] + SumFunctionOnSet(f, m \ {First(m)})
      /\ SumFunctionOnSet(g, m)
           = g[First(m)] + SumFunctionOnSet(g, m \ {First(m)})
  BY <1>3, SumFirst
<1>5. SumFunctionOnSet(f, m \ {First(m)}) = SumFunctionOnSet(g, m \ {First(m)})
  BY <1>2, <1>4
<1> QED BY <1>2, <1>4, <1>5

\* Any element may be taken out first.
LEMMA SumRemove ==
  ASSUME NEW S, IsFiniteSet(S), NEW f, \A x \in S : f[x] \in Int, NEW t \in S
  PROVE  SumFunctionOnSet(f, S) = f[t] + SumFunctionOnSet(f, S \ {t})
<1> DEFINE Sum(s) == SumFunctionOnSet(f, s)
           B == {s \in SUBSET S : \E x \in s : Sum(s) # f[x] + Sum(s \ {x})}
<1>1. SUFFICES ASSUME B # {} PROVE FALSE
  OBVIOUS
<1>2. PICK m \in B : \A y \in B : y \subseteq m => y = m
  <2>1. B \subseteq SUBSET S
    OBVIOUS
  <2> HIDE DEF B
  <2> QED BY <1>1, <2>1, MinimalSubset
<1>3. PICK x \in m : Sum(m) # f[x] + Sum(m \ {x})
  BY <1>2
<1>4. m # {} /\ IsFiniteSet(m) /\ m \subseteq S
  BY <1>2, <1>3, FS_Subset
<1>5. PICK c \in m : Sum(m) = f[c] + Sum(m \ {c})
  BY <1>4, SumFirst
<1>6. c # x
  BY <1>3, <1>5
<1>7. ASSUME NEW y \in m, NEW z \in m \ {y}
      PROVE  Sum(m \ {y}) = f[z] + Sum((m \ {y}) \ {z})
  <2>1. m \ {y} \notin B /\ m \ {y} \in SUBSET S
    <3> HIDE DEF B
    <3> QED BY <1>2, <1>4
  <2> HIDE DEF Sum
  <2> QED BY <2>1
<1>8. Sum(m \ {c}) = f[x] + Sum((m \ {c}) \ {x})
      /\ Sum(m \ {x}) = f[c] + Sum((m \ {x}) \ {c})
  <2> HIDE DEF Sum, B
  <2> QED BY <1>6, <1>7
<1>9. (m \ {c}) \ {x} = (m \ {x}) \ {c}
  OBVIOUS
<1>10. Sum((m \ {x}) \ {c}) \in Int /\ f[x] \in Int /\ f[c] \in Int
  <2>1. IsFiniteSet((m \ {x}) \ {c})
    BY <1>4, FS_Subset, (m \ {x}) \ {c} \subseteq m
  <2> QED BY <1>4, <2>1, SumType
<1>11. /\ Sum(m \ {c}) = f[x] + Sum((m \ {x}) \ {c})
       /\ Sum(m \ {x}) = f[c] + Sum((m \ {x}) \ {c})
  BY <1>8, <1>9, Zenon
<1>12. ASSUME NEW i \in Int, NEW j \in Int, NEW k \in Int
       PROVE  i + (j + k) = j + (i + k)
  OBVIOUS
<1>13. f[c] + (f[x] + Sum((m \ {x}) \ {c}))
         = f[x] + (f[c] + Sum((m \ {x}) \ {c}))
  <2> HIDE DEF Sum
  <2> QED BY <1>10, <1>12, Zenon
<1> HIDE DEF Sum, B
<1> QED BY <1>3, <1>5, <1>11, <1>13, Zenon

\* One element more.
LEMMA SumAdd ==
  ASSUME NEW S, IsFiniteSet(S), NEW t, t \notin S,
         NEW f, \A x \in S \cup {t} : f[x] \in Int
  PROVE  SumFunctionOnSet(f, S \cup {t}) = SumFunctionOnSet(f, S) + f[t]
<1> DEFINE T == S \cup {t}
<1>1. IsFiniteSet(T) /\ t \in T /\ T \ {t} = S
  BY FS_AddElement
<1>2. SumFunctionOnSet(f, T) = f[t] + SumFunctionOnSet(f, T \ {t})
  <2>1. \A x \in T : f[x] \in Int
    OBVIOUS
  <2> HIDE DEF T
  <2> QED BY <1>1, <2>1, SumRemove
<1>3. SumFunctionOnSet(f, S) \in Int /\ f[t] \in Int
  BY SumType
<1>4. SumFunctionOnSet(f, T) = f[t] + SumFunctionOnSet(f, S)
  BY <1>1, <1>2, Zenon
<1> QED BY <1>3, <1>4

\* The sum over two disjoint sets.
LEMMA SumUnion ==
  ASSUME NEW S, IsFiniteSet(S), NEW T, IsFiniteSet(T), S \cap T = {},
         NEW f, \A x \in S \cup T : f[x] \in Int
  PROVE  SumFunctionOnSet(f, S \cup T)
           = SumFunctionOnSet(f, S) + SumFunctionOnSet(f, T)
<1> DEFINE Sum(s) == SumFunctionOnSet(f, s)
           B == {s \in SUBSET T : Sum(S \cup s) # Sum(S) + Sum(s)}
<1>1. SUFFICES ASSUME B # {} PROVE FALSE
  OBVIOUS
<1>2. PICK m \in B : \A y \in B : y \subseteq m => y = m
  <2>1. B \subseteq SUBSET T
    OBVIOUS
  <2> HIDE DEF B
  <2> QED BY <1>1, <2>1, MinimalSubset
<1>3. IsFiniteSet(m) /\ IsFiniteSet(S \cup m) /\ m \subseteq T
  BY <1>2, FS_Subset, FS_Union
<1>4. Sum(S) \in Int /\ S \cup {} = S /\ Sum({}) = 0
  BY SumType, SumEmpty
<1>5. PICK c : c \in m
  <2>1. Sum(S \cup m) # Sum(S) + Sum(m)
    BY <1>2
  <2>2. Sum(S \cup {}) = Sum(S) + Sum({})
    <3>1. Sum(S \cup {}) = Sum(S)
      BY <1>4, Zenon
    <3> HIDE DEF Sum
    <3> QED BY <1>4, <3>1
  <2>3. m # {}
    <3> HIDE DEF Sum, B
    <3> QED BY <2>1, <2>2, Zenon
  <2> QED BY <2>3
<1> DEFINE k == m \ {c}
<1>6. Sum(S \cup k) = Sum(S) + Sum(k)
  BY <1>2, <1>3, <1>5
<1>7. IsFiniteSet(k) /\ IsFiniteSet(S \cup k) /\ c \notin k /\ c \notin S \cup k
  BY <1>3, <1>5, FS_Subset, FS_Union
<1>8. k \cup {c} = m /\ (S \cup k) \cup {c} = S \cup m
  BY <1>5
<1>9. /\ \A x \in k \cup {c} : f[x] \in Int
      /\ \A x \in (S \cup k) \cup {c} : f[x] \in Int
  BY <1>3, <1>5
<1> HIDE DEF k
<1>10. Sum(m) = Sum(k) + f[c]
  BY <1>7, <1>8, <1>9, SumAdd
<1>11. Sum(S \cup m) = Sum(S \cup k) + f[c]
  BY <1>7, <1>8, <1>9, SumAdd
<1>12. Sum(k) \in Int /\ f[c] \in Int
  BY <1>7, <1>9, SumType
<1>13. Sum(S \cup m) # Sum(S) + Sum(m)
  BY <1>2
<1> HIDE DEF Sum, B
<1> QED BY <1>4, <1>6, <1>10, <1>11, <1>12, <1>13

=============================================================================
