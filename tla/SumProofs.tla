------------------------------ MODULE SumProofs ------------------------------
(***************************************************************************)
(* Sums of natural numbers over finite sets, as module Functions defines   *)
(* them: what the accounting of samples over the replicas of a job rests   *)
(* on.                                                                     *)
(*                                                                         *)
(* SumFunction is defined by recursion over the subsets of a set.  That    *)
(* the recursion has a value, and what the value is, is shown by minimal   *)
(* counterexample, from the well-founded orders of the library.            *)
(***************************************************************************)
EXTENDS Integers, FiniteSets, Functions, FiniteSetTheorems, WellFoundedInduction, TLAPS

(* A nonempty set of naturals has a least element.                         *)
LEMMA LeastNumber ==
  ASSUME NEW T, T # {}, T \subseteq Nat
  PROVE  \E n \in T : \A m \in T : ~(m < n)
<1>1. PICK n \in T : \A m \in T : ~(<<m, n>> \in OpToRel(<, Nat))
  BY NatLessThanWellFounded, WFMin
<1>. QED BY <1>1 DEF OpToRel

(* Among subsets of a finite set S there is a minimal one.                 *)
LEMMA Minimal ==
  ASSUME NEW S, IsFiniteSet(S), NEW B, B # {}, \A s \in B : s \subseteq S
  PROVE  \E s \in B : IsFiniteSet(s) /\ \A t : t \subseteq s /\ t # s => t \notin B
<1>1. \A s : s \subseteq S => IsFiniteSet(s)
  BY FS_Subset
<1>2. B \subseteq FiniteSubsetsOf(S)
  BY <1>1 DEF FiniteSubsetsOf
<1>3. IsWellFoundedOn(StrictSubsetOrdering(S), FiniteSubsetsOf(S))
  BY FS_StrictSubsetOrderingWellFounded
<1>4. PICK s \in B : \A t \in B : ~(<<t, s>> \in StrictSubsetOrdering(S))
  BY <1>2, <1>3, WFMin
<1>5. \A t \in B : t \in SUBSET S
  OBVIOUS
<1>6. \A t : t \subseteq s /\ t # s => t \notin B
  BY <1>4, <1>5 DEF StrictSubsetOrdering
<1>. QED BY <1>1, <1>6

(* The recursion behind SumFunction, spelled out: the element a set gives  *)
(* up first, one unfolding, the function on the subsets of S it defines,   *)
(* and the subsets of at most n elements along which it is built.          *)
Pick(s) == CHOOSE x \in s : TRUE
Body(f, g, s) == IF s = {} THEN 0 ELSE f[Pick(s)] + g[s \ {Pick(s)}]
SumFn(f, S) == CHOOSE g : g = [s \in SUBSET S |-> Body(f, g, s)]
UpTo(S, n) == {s \in SUBSET S : Cardinality(s) <= n}

(* The library's sum is the value of such a function.                      *)
LEMMA SumUnfold == \A f, S : SumFunctionOnSet(f, S) = SumFn(f, S)[S]
BY DEF SumFunctionOnSet, FoldFunctionOnSet, MapThenFoldSet, SumFn, Pick, Body

(* A nonempty finite set gives up one of its elements and shrinks by one.  *)
LEMMA PickSmaller ==
  ASSUME NEW s, IsFiniteSet(s)
  PROVE  /\ Cardinality(s) \in Nat /\ (Cardinality(s) = 0 <=> s = {})
         /\ s # {} => /\ Pick(s) \in s
                      /\ Cardinality(s \ {Pick(s)}) = Cardinality(s) - 1
<1>1. Cardinality(s) \in Nat /\ (Cardinality(s) = 0 <=> s = {})
  BY FS_CardinalityType, FS_EmptySet
<1>2. s # {} => Pick(s) \in s
  BY DEF Pick
<1>. QED BY <1>1, <1>2, FS_RemoveElement

(* The recursion is well founded, so the function exists: by induction on  *)
(* the size of the subsets, a minimal counterexample at a time.            *)
LEMMA SumDefined ==
  ASSUME NEW S, IsFiniteSet(S), NEW f \in [S -> Nat]
  PROVE  \E g \in [SUBSET S -> Nat] : g = [s \in SUBSET S |-> Body(f, g, s)]
<1>. DEFINE P(n) == \E g \in [UpTo(S, n) -> Nat] :
                       g = [s \in UpTo(S, n) |-> Body(f, g, s)]
            T == {n \in Nat : ~P(n)}
<1>1. ASSUME NEW n \in Nat
      PROVE  \A s : s \in UpTo(S, n) <=> s \subseteq S /\ Cardinality(s) <= n
  BY DEF UpTo
<1>2. \A s : s \subseteq S => IsFiniteSet(s)
  BY FS_Subset
<1>3. P(0)
  <2>1. ASSUME NEW s PROVE s \in UpTo(S, 0) <=> s = {}
    <3>1. s \subseteq S => Cardinality(s) \in Nat /\ (Cardinality(s) = 0 <=> s = {})
      BY <1>2, PickSmaller
    <3>. QED BY <1>1, <3>1
  <2>2. UpTo(S, 0) = {{}}
    BY <2>1
  <2>3. [s \in {{}} |-> 0] = [s \in {{}} |-> Body(f, [s_1 \in {{}} |-> 0], s)]
    BY DEF Body
  <2>. QED BY <2>2, <2>3
<1>4. ASSUME NEW n \in Nat, P(n) PROVE P(n + 1)
  <2>1. PICK g \in [UpTo(S, n) -> Nat] : g = [s \in UpTo(S, n) |-> Body(f, g, s)]
    BY <1>4
  <2>. DEFINE h == [s \in UpTo(S, n + 1) |-> Body(f, g, s)]
  <2>2. ASSUME NEW s \in UpTo(S, n + 1), s # {}
        PROVE  s \ {Pick(s)} \in UpTo(S, n) /\ Pick(s) \in S
    <3>1. s \subseteq S /\ Cardinality(s) <= n + 1
      BY <1>1
    <3>2. Pick(s) \in s /\ Cardinality(s \ {Pick(s)}) <= n
      BY <1>2, <2>2, <3>1, PickSmaller
    <3>. QED BY <1>1, <3>1, <3>2
  <2>3. ASSUME NEW s \in UpTo(S, n) PROVE s \in UpTo(S, n + 1) /\ h[s] = g[s]
    <3>1. s \subseteq S /\ Cardinality(s) <= n
      BY <1>1
    <3>2. Cardinality(s) \in Nat
      BY <1>2, <3>1, PickSmaller
    <3>3. s \in UpTo(S, n + 1)
      BY <1>1, <3>1, <3>2
    <3>. QED BY <2>1, <3>3
  <2>4. ASSUME NEW s \in UpTo(S, n + 1)
        PROVE Body(f, g, s) = Body(f, h, s) /\ Body(f, g, s) \in Nat
    <3>1. s # {} => /\ h[s \ {Pick(s)}] = g[s \ {Pick(s)}]
                    /\ g[s \ {Pick(s)}] \in Nat /\ f[Pick(s)] \in Nat
      BY <2>1, <2>2, <2>3
    <3>. HIDE DEF h
    <3>. QED BY <3>1 DEF Body
  <2>. QED BY <2>4
<1>5. T = {}
  <2>. SUFFICES ASSUME T # {} PROVE FALSE
    OBVIOUS
  <2>1. T \subseteq Nat
    OBVIOUS
  <2>. HIDE DEF T, P
  <2>2. PICK n \in T : \A m \in T : ~(m < n)
    BY <2>1, LeastNumber
  <2>3. n \in Nat /\ ~P(n) /\ n # 0
    BY <1>3, <2>2 DEF T
  <2>4. n - 1 \in Nat /\ n - 1 < n /\ n = (n - 1) + 1
    BY <2>3
  <2>5. P(n - 1)
    BY <2>2, <2>4 DEF T
  <2>. QED BY <1>4, <2>3, <2>4, <2>5
<1>6. Cardinality(S) \in Nat /\ UpTo(S, Cardinality(S)) = SUBSET S
  BY FS_CardinalityType, FS_Subset DEF UpTo
<1>7. P(Cardinality(S))
  BY <1>5, <1>6
<1>. QED BY <1>6, <1>7

(* What the function returns: a natural number, by the recursion.          *)
LEMMA SumStep ==
  ASSUME NEW S, IsFiniteSet(S), NEW f \in [S -> Nat], NEW s, s \subseteq S
  PROVE  /\ SumFn(f, S)[s] \in Nat
         /\ SumFn(f, S)[s] = Body(f, SumFn(f, S), s)
<1>. DEFINE g == SumFn(f, S)
            B == {t \in SUBSET S : g[t] \notin Nat}
<1>1. g = [t \in SUBSET S |-> Body(f, g, t)]
  BY SumDefined DEF SumFn
<1>. HIDE DEF g
<1>2. \A t : t \subseteq S => g[t] = Body(f, g, t)
  BY <1>1
<1>3. B = {}
  <2>. SUFFICES ASSUME B # {} PROVE FALSE
    OBVIOUS
  <2>1. \A t \in B : t \subseteq S
    OBVIOUS
  <2>. HIDE DEF B
  <2>2. PICK t \in B : IsFiniteSet(t) /\ \A u : u \subseteq t /\ u # t => u \notin B
    BY <2>1, Minimal
  <2>3. t \subseteq S /\ g[t] \notin Nat /\ g[t] = Body(f, g, t)
    BY <1>2, <2>2 DEF B
  <2>4. t # {}
    BY <2>3 DEF Body
  <2>5. Pick(t) \in t
    BY <2>2, <2>4, PickSmaller
  <2>6. t \ {Pick(t)} \notin B /\ t \ {Pick(t)} \subseteq S
    BY <2>2, <2>3, <2>5
  <2>7. g[t \ {Pick(t)}] \in Nat /\ f[Pick(t)] \in Nat
    BY <2>3, <2>5, <2>6 DEF B
  <2>. QED BY <2>3, <2>4, <2>7 DEF Body
<1>4. g[s] \in Nat
  BY <1>3
<1>. QED BY <1>2, <1>4 DEF g

(* Functions that agree on s have the same sum over s.                     *)
LEMMA SumAgree ==
  ASSUME NEW S, IsFiniteSet(S), NEW f \in [S -> Nat], NEW R, IsFiniteSet(R), NEW g \in [R -> Nat],
         NEW s, s \subseteq S, s \subseteq R, \A x \in s : f[x] = g[x]
  PROVE  SumFn(f, S)[s] = SumFn(g, R)[s]
<1>. DEFINE F == SumFn(f, S)
            G == SumFn(g, R)
            B == {t \in SUBSET s : F[t] # G[t]}
<1>0. IsFiniteSet(s)
  BY FS_Subset
<1>1. \A t : t \subseteq s => F[t] = Body(f, F, t) /\ G[t] = Body(g, G, t)
  BY SumStep
<1>. HIDE DEF F, G
<1>2. B = {}
  <2>. SUFFICES ASSUME B # {} PROVE FALSE
    OBVIOUS
  <2>1. \A t \in B : t \subseteq s
    OBVIOUS
  <2>. HIDE DEF B
  <2>2. PICK t \in B : IsFiniteSet(t) /\ \A u : u \subseteq t /\ u # t => u \notin B
    BY <1>0, <2>1, Minimal
  <2>3. t \subseteq s /\ F[t] # G[t] /\ F[t] = Body(f, F, t) /\ G[t] = Body(g, G, t)
    BY <1>1, <2>2 DEF B
  <2>4. t # {}
    BY <2>3 DEF Body
  <2>5. Pick(t) \in t
    BY <2>2, <2>4, PickSmaller
  <2>6. t \ {Pick(t)} \notin B /\ t \ {Pick(t)} \subseteq s
    BY <2>2, <2>3, <2>5
  <2>7. F[t \ {Pick(t)}] = G[t \ {Pick(t)}] /\ f[Pick(t)] = g[Pick(t)]
    BY <2>3, <2>5, <2>6 DEF B
  <2>. QED BY <2>3, <2>4, <2>7 DEF Body
<1>3. F[s] = G[s]
  BY <1>2
<1>. QED BY <1>3 DEF F, G

(* Any element may be taken out of a sum.                                  *)
LEMMA SumTake ==
  ASSUME NEW S, IsFiniteSet(S), NEW f \in [S -> Nat], NEW x \in S
  PROVE  SumFn(f, S)[S] = f[x] + SumFn(f, S)[S \ {x}]
<1>. DEFINE G == SumFn(f, S)
            B == {t \in SUBSET S : \E y \in t : G[t] # f[y] + G[t \ {y}]}
<1>1. \A t : t \subseteq S => G[t] = Body(f, G, t) /\ G[t] \in Nat
  BY SumStep
<1>. HIDE DEF G
<1>2. B = {}
  <2>. SUFFICES ASSUME B # {} PROVE FALSE
    OBVIOUS
  <2>1. \A t \in B : t \subseteq S
    OBVIOUS
  <2>. HIDE DEF B
  <2>2. PICK t \in B : IsFiniteSet(t) /\ \A u : u \subseteq t /\ u # t => u \notin B
    BY <2>1, Minimal
  <2>3. PICK y \in t : t \subseteq S /\ G[t] # f[y] + G[t \ {y}]
    BY <2>2 DEF B
  <2>. DEFINE z == Pick(t)
  <2>4. z \in t
    BY <2>2, <2>3, PickSmaller
  <2>5. G[t] = f[z] + G[t \ {z}]
    BY <1>1, <2>3 DEF Body
  <2>. HIDE DEF z
  <2>6. y # z
    BY <2>3, <2>5
  <2>7. t \ {z} \notin B /\ t \ {y} \notin B
    BY <2>2, <2>3, <2>4
  <2>8. G[t \ {z}] = f[y] + G[(t \ {z}) \ {y}]
    BY <2>3, <2>4, <2>6, <2>7 DEF B
  <2>9. G[t \ {y}] = f[z] + G[(t \ {y}) \ {z}]
    BY <2>3, <2>4, <2>6, <2>7 DEF B
  <2>10. (t \ {z}) \ {y} = (t \ {y}) \ {z}
    OBVIOUS
  <2>11. (t \ {z}) \ {y} \subseteq S /\ f[y] \in Nat /\ f[z] \in Nat
    BY <2>3, <2>4
  <2>12. G[(t \ {z}) \ {y}] \in Nat
    BY <1>1, <2>11
  <2>. QED BY <2>3, <2>5, <2>8, <2>9, <2>10, <2>11, <2>12
<1>3. G[S] = f[x] + G[S \ {x}]
  BY <1>2
<1>. QED BY <1>3 DEF G

(* Changing one summand changes the sum by as much.                        *)
LEMMA SumUpdate ==
  ASSUME NEW S, IsFiniteSet(S), NEW f \in [S -> Nat], NEW g \in [S -> Nat], NEW x \in S,
         \A y \in S : y # x => g[y] = f[y]
  PROVE  SumFunction(g) + f[x] = SumFunction(f) + g[x]
<1>1. SumFunction(f) = SumFn(f, S)[S] /\ SumFunction(g) = SumFn(g, S)[S]
  BY SumUnfold DEF SumFunction
<1>2. SumFn(f, S)[S \ {x}] = SumFn(g, S)[S \ {x}]
  BY SumAgree
<1>3. SumFn(f, S)[S \ {x}] \in Nat
  BY SumStep
<1>4. f[x] \in Nat /\ g[x] \in Nat
  OBVIOUS
<1>5. SumFn(f, S)[S] = f[x] + SumFn(f, S)[S \ {x}]
  BY SumTake
<1>6. SumFn(g, S)[S] = g[x] + SumFn(g, S)[S \ {x}]
  BY SumTake
<1>7. \A a, b, c \in Nat : (a + c) + b = (b + c) + a
  OBVIOUS
<1>. QED BY <1>1, <1>2, <1>3, <1>4, <1>5, <1>6, <1>7

(* A new summand adds to the sum.                                          *)
LEMMA SumAdd ==
  ASSUME NEW S, IsFiniteSet(S), NEW x, x \notin S, NEW f \in [S -> Nat],
         NEW g \in [S \cup {x} -> Nat], \A y \in S : g[y] = f[y]
  PROVE  SumFunction(g) = SumFunction(f) + g[x]
<1>. DEFINE R == S \cup {x}
<1>0. IsFiniteSet(R) /\ R \ {x} = S /\ x \in R /\ S \subseteq R
  BY FS_AddElement
<1>1. SumFunction(f) = SumFn(f, S)[S] /\ SumFunction(g) = SumFn(g, R)[R]
  BY SumUnfold DEF SumFunction
<1>. HIDE DEF R
<1>2. SumFn(g, R)[S] = SumFn(f, S)[S]
  BY <1>0, SumAgree DEF R
<1>3. SumFn(f, S)[S] \in Nat /\ g[x] \in Nat
  BY SumStep
<1>4. SumFn(g, R)[R] = g[x] + SumFn(g, R)[R \ {x}]
  BY <1>0, SumTake DEF R
<1>5. \A a, b \in Nat : a + b = b + a
  OBVIOUS
<1>. QED BY <1>0, <1>1, <1>2, <1>3, <1>4, <1>5

(* A sum of naturals is a natural, and zero when there is nothing to sum.  *)
LEMMA SumType ==
  ASSUME NEW S, IsFiniteSet(S), NEW f \in [S -> Nat]
  PROVE  SumFunction(f) \in Nat /\ (S = {} => SumFunction(f) = 0)
<1>1. SumFunction(f) = SumFn(f, S)[S]
  BY SumUnfold DEF SumFunction
<1>2. SumFn(f, S)[S] \in Nat /\ SumFn(f, S)[S] = Body(f, SumFn(f, S), S)
  BY SumStep
<1>. QED BY <1>1, <1>2 DEF Body

(* Nothing but zeros sums to zero.                                         *)
LEMMA SumZero ==
  ASSUME NEW S, IsFiniteSet(S)
  PROVE  SumFunction([x \in S |-> 0]) = 0
<1>. DEFINE f == [x \in S |-> 0]
            G == SumFn(f, S)
            B == {t \in SUBSET S : G[t] # 0}
<1>1. f \in [S -> Nat] /\ \A x \in S : f[x] = 0
  OBVIOUS
<1>2. SumFunction(f) = G[S]
  BY SumUnfold DEF SumFunction
<1>. HIDE DEF f
<1>3. \A t : t \subseteq S => G[t] = Body(f, G, t)
  BY <1>1, SumStep
<1>. HIDE DEF G
<1>4. B = {}
  <2>. SUFFICES ASSUME B # {} PROVE FALSE
    OBVIOUS
  <2>1. \A t \in B : t \subseteq S
    OBVIOUS
  <2>. HIDE DEF B
  <2>2. PICK t \in B : IsFiniteSet(t) /\ \A u : u \subseteq t /\ u # t => u \notin B
    BY <2>1, Minimal
  <2>3. t \subseteq S /\ G[t] # 0 /\ G[t] = Body(f, G, t)
    BY <1>3, <2>2 DEF B
  <2>4. t # {}
    BY <2>3 DEF Body
  <2>5. Pick(t) \in t
    BY <2>2, <2>4, PickSmaller
  <2>6. t \ {Pick(t)} \notin B /\ t \ {Pick(t)} \subseteq S
    BY <2>2, <2>3, <2>5
  <2>7. G[t \ {Pick(t)}] = 0 /\ f[Pick(t)] = 0
    BY <1>1, <2>3, <2>5, <2>6 DEF B
  <2>. QED BY <2>3, <2>4, <2>7 DEF Body
<1>5. G[S] = 0
  BY <1>4
<1>. QED BY <1>2, <1>5 DEF f
==============================================================================
