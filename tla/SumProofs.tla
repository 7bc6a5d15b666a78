------------------------------ MODULE SumProofs ------------------------------
(***************************************************************************)
(* Sums over finite sets, as the properties about money use them:          *)
(* SumFunctionOnSet(f, S) adds f[x] for every x in S.  The facts of the    *)
(* library about folds take operators as parameters; here the summand is a *)
(* function, and an induction is an instance of WFMin, so that the proofs  *)
(* about wallets can cite them.                                            *)
(***************************************************************************)
EXTENDS Integers, FiniteSets, Functions, FiniteSetTheorems, WellFoundedInduction, TLAPS

(* What holds of a set when it holds of the set without any one element,   *)
(* holds of every subset of a finite set.                                  *)
LEMMA SubsetInduction ==
  ASSUME NEW S, IsFiniteSet(S), NEW Good,
         \A T \in SUBSET S : (\A x \in T : T \ {x} \in Good) => T \in Good
  PROVE  \A T \in SUBSET S : T \in Good
<1> DEFINE Bad == (SUBSET S) \ Good
<1> SUFFICES ASSUME Bad # {} PROVE FALSE
  OBVIOUS
<1>1. IsWellFoundedOn(StrictSubsetOrdering(S), SUBSET S)
  <2>1. FiniteSubsetsOf(S) = SUBSET S
    BY FS_FiniteSubsetsOfFinite
  <2>2. IsWellFoundedOn(StrictSubsetOrdering(S), FiniteSubsetsOf(S))
    BY FS_StrictSubsetOrderingWellFounded
  <2>3. QED
    BY <2>1, <2>2
<1> HIDE DEF Bad
<1>2. PICK T \in Bad : \A U \in Bad : <<U, T>> \notin StrictSubsetOrdering(S)
  <2>1. Bad \subseteq SUBSET S
    BY DEF Bad
  <2>2. QED
    BY <1>1, <2>1, WFMin
<1>3. ASSUME NEW x \in T PROVE T \ {x} \in Good
  <2>1. <<T \ {x}, T>> \in StrictSubsetOrdering(S)
    BY <1>3 DEF StrictSubsetOrdering, Bad
  <2>2. QED
    BY <1>2, <2>1 DEF Bad
<1>4. QED
  BY <1>3 DEF Bad

(* The highest of a few numbers is one of them.                            *)
LEMMA HighestExists ==
  ASSUME NEW S, S \subseteq Nat, IsFiniteSet(S), S # {}
  PROVE  \E x \in S : \A y \in S : y <= x
  <1> DEFINE Good == {T \in SUBSET S : T # {} => \E x \in T : \A y \in T : y <= x}
  <1>1. ASSUME NEW T \in SUBSET S, \A x \in T : T \ {x} \in Good
        PROVE  T \in Good
    <2> SUFFICES ASSUME T # {} PROVE \E x \in T : \A y \in T : y <= x
      OBVIOUS
    <2>1. PICK x \in T : TRUE
      OBVIOUS
    <2>2. CASE T \ {x} = {}
      <3>1. x <= x /\ \A y \in T : y = x
        BY <2>2
      <3> QED BY <3>1
    <2>3. CASE T \ {x} # {}
      <3>1. PICK m \in T \ {x} : \A y \in T \ {x} : y <= m
        BY <1>1, <2>3
      <3>2. CASE x <= m
        BY <3>1, <3>2
      <3>3. CASE m <= x
        <4>1. \A y \in T : y <= x
          BY <3>1, <3>3
        <4> QED BY <4>1
      <3> QED BY <3>2, <3>3
    <2> QED BY <2>2, <2>3
  <1>2. \A T \in SUBSET S : T \in Good
    <2> HIDE DEF Good
    <2> QED BY <1>1, SubsetInduction
  <1> QED BY <1>2

(* g is the sum of f over each subset of T, taking out one element at a    *)
(* time.                                                                   *)
Pick(s) == CHOOSE x \in s : TRUE

IsSum(g, f, T) ==
  g = [s \in SUBSET T |-> IF s = {} THEN 0 ELSE f[Pick(s)] + g[s \ {Pick(s)}]]


(* The element taken out is one of the set.                                *)
LEMMA PickIn ==
  ASSUME NEW s, s # {}
  PROVE  Pick(s) \in s
BY DEF Pick

(* The sum of f over the subsets of T is one function.                     *)
LEMMA SumUnique ==
  ASSUME NEW T, IsFiniteSet(T), NEW f, NEW g, NEW h, IsSum(g, f, T), IsSum(h, f, T)
  PROVE  \A s \in SUBSET T : g[s] = h[s]
<1> DEFINE Good == {s \in SUBSET T : g[s] = h[s]}
<1>1. ASSUME NEW s \in SUBSET T, \A x \in s : s \ {x} \in Good PROVE s \in Good
  <2>1. /\ g[s] = IF s = {} THEN 0 ELSE f[Pick(s)] + g[s \ {Pick(s)}]
        /\ h[s] = IF s = {} THEN 0 ELSE f[Pick(s)] + h[s \ {Pick(s)}]
    BY DEF IsSum
  <2>2. CASE s = {}
    BY <2>1, <2>2
  <2>3. CASE s # {}
    BY <1>1, <2>1, <2>3, PickIn
  <2>4. QED
    BY <2>2, <2>3
<1>2. \A s \in SUBSET T : s \in Good
  <2> HIDE DEF Good
  <2>1. QED
    BY <1>1, SubsetInduction
<1>3. QED
  BY <1>2

(* A sum over the subsets of T is one over the subsets of each part of T.  *)
LEMMA SumRestricts ==
  ASSUME NEW T, NEW U \in SUBSET T, NEW f, NEW g, IsSum(g, f, T)
  PROVE  IsSum([s \in SUBSET U |-> g[s]], f, U)
<1> DEFINE r == [s \in SUBSET U |-> g[s]]
<1>1. \A s \in SUBSET U : g[s] = IF s = {} THEN 0 ELSE f[Pick(s)] + g[s \ {Pick(s)}]
  BY DEF IsSum
<1>2. \A s \in SUBSET U : r[s] = g[s] /\ r[s \ {Pick(s)}] = g[s \ {Pick(s)}]
  OBVIOUS
<1>3. r = [s \in SUBSET U |-> IF s = {} THEN 0 ELSE f[Pick(s)] + r[s \ {Pick(s)}]]
  BY <1>1, <1>2
<1>4. QED
  BY <1>3 DEF IsSum

(* SumFunctionOnSet chooses such a function and applies it to the set.      *)
LEMMA SumChooses ==
  ASSUME NEW f, NEW S
  PROVE  SumFunctionOnSet(f, S) = (CHOOSE g : IsSum(g, f, S))[S]
BY DEF SumFunctionOnSet, FoldFunctionOnSet, MapThenFoldSet, IsSum, Pick

(* When there is a sum over the subsets of T, SumFunctionOnSet gives it.   *)
LEMMA SumIsChosen ==
  ASSUME NEW T, IsFiniteSet(T), NEW f, NEW g, IsSum(g, f, T), NEW s \in SUBSET T
  PROVE  SumFunctionOnSet(f, s) = g[s]
<1> DEFINE h == CHOOSE x : IsSum(x, f, s)
           r == [u \in SUBSET s |-> g[u]]
<1>1. IsSum(r, f, s)
  BY SumRestricts
<1> HIDE DEF r
<1>2. IsSum(h, f, s)
  BY <1>1
<1> HIDE DEF h
<1>3. IsFiniteSet(s)
  BY FS_Subset
<1>4. h[s] = r[s]
  BY <1>1, <1>2, <1>3, SumUnique
<1>5. SumFunctionOnSet(f, s) = h[s]
  BY SumChooses DEF h
<1>6. QED
  BY <1>4, <1>5 DEF r

(* There is a sum over the subsets of any finite set.                      *)
LEMMA SumExists ==
  ASSUME NEW S, IsFiniteSet(S), NEW f
  PROVE  \E g : IsSum(g, f, S)
<1> DEFINE Good == {T \in SUBSET S : \E g : IsSum(g, f, T)}
<1>1. ASSUME NEW T \in SUBSET S, \A x \in T : T \ {x} \in Good PROVE T \in Good
  <2> DEFINE F(s) == SumFunctionOnSet(f, s)
             step(s) == IF s = {} THEN 0 ELSE f[Pick(s)] + F(s \ {Pick(s)})
             g == [s \in SUBSET T |-> step(s)]
  <2>1. ASSUME NEW s \in SUBSET T, s # T PROVE F(s) = step(s)
    <3>1. PICK x \in T : s \in SUBSET (T \ {x})
      BY <2>1
    <3>2. PICK k : IsSum(k, f, T \ {x})
      BY <1>1, <3>1
    <3>3. IsFiniteSet(T \ {x})
      BY FS_Subset
    <3>4. \A u \in SUBSET (T \ {x}) : F(u) = k[u]
      BY <3>2, <3>3, SumIsChosen
    <3>5. k[s] = IF s = {} THEN 0 ELSE f[Pick(s)] + k[s \ {Pick(s)}]
      BY <3>1, <3>2 DEF IsSum
    <3>6. s \ {Pick(s)} \in SUBSET (T \ {x})
      BY <3>1
    <3> HIDE DEF F
    <3>7. QED
      BY <3>1, <3>4, <3>5, <3>6
  <2>2. ASSUME NEW s \in SUBSET T, s # {} PROVE g[s \ {Pick(s)}] = F(s \ {Pick(s)})
    <3>1. s \ {Pick(s)} \in SUBSET T /\ s \ {Pick(s)} # T
      BY <2>2, PickIn
    <3>2. g[s \ {Pick(s)}] = step(s \ {Pick(s)})
      BY <3>1
    <3> HIDE DEF F, step, g
    <3>3. QED
      BY <2>1, <3>1, <3>2
  <2>3. g = [s \in SUBSET T |-> IF s = {} THEN 0 ELSE f[Pick(s)] + g[s \ {Pick(s)}]]
    <3> HIDE DEF F
    <3>1. \A s \in SUBSET T : step(s) = IF s = {} THEN 0 ELSE f[Pick(s)] + g[s \ {Pick(s)}]
      <4> HIDE DEF g
      <4>1. QED
        BY <2>2
    <3>2. QED
      BY <3>1
  <2> HIDE DEF g
  <2>4. QED
    BY <2>3 DEF IsSum
<1>2. \A T \in SUBSET S : T \in Good
  <2> HIDE DEF Good
  <2>1. QED
    BY <1>1, SubsetInduction
<1>3. QED
  BY <1>2

-----------------------------------------------------------------------------
(* The sum over nothing is zero.                                           *)
LEMMA SumEmpty ==
  ASSUME NEW f
  PROVE  SumFunctionOnSet(f, {}) = 0
<1>1. IsFiniteSet({})
  BY FS_EmptySet
<1>2. PICK g : IsSum(g, f, {})
  BY <1>1, SumExists
<1>3. SumFunctionOnSet(f, {}) = g[{}]
  BY <1>1, <1>2, SumIsChosen
<1>4. g[{}] = 0
  BY <1>2 DEF IsSum
<1>5. QED
  BY <1>3, <1>4

(* The sum over a set takes out the element that is picked.                *)
LEMMA SumPick ==
  ASSUME NEW S, IsFiniteSet(S), S # {}, NEW f
  PROVE  SumFunctionOnSet(f, S) = f[Pick(S)] + SumFunctionOnSet(f, S \ {Pick(S)})
<1>1. PICK g : IsSum(g, f, S)
  BY SumExists
<1>2. \A s \in SUBSET S : SumFunctionOnSet(f, s) = g[s]
  BY <1>1, SumIsChosen
<1>3. g[S] = f[Pick(S)] + g[S \ {Pick(S)}]
  BY <1>1 DEF IsSum
<1>4. QED
  BY <1>2, <1>3

(* A sum of integers is an integer.                                        *)
LEMMA SumInt ==
  ASSUME NEW S, IsFiniteSet(S), NEW f, \A x \in S : f[x] \in Int
  PROVE  SumFunctionOnSet(f, S) \in Int
<1> DEFINE Good == {T \in SUBSET S : SumFunctionOnSet(f, T) \in Int}
<1>1. ASSUME NEW T \in SUBSET S, \A x \in T : T \ {x} \in Good PROVE T \in Good
  <2>1. CASE T = {}
    BY <2>1, SumEmpty
  <2>2. CASE T # {}
    <3>1. IsFiniteSet(T) /\ Pick(T) \in T
      BY <2>2, FS_Subset, PickIn
    <3>2. SumFunctionOnSet(f, T) = f[Pick(T)] + SumFunctionOnSet(f, T \ {Pick(T)})
      BY <2>2, <3>1, SumPick
    <3>3. SumFunctionOnSet(f, T \ {Pick(T)}) \in Int /\ f[Pick(T)] \in Int
      BY <1>1, <3>1
    <3>4. QED
      BY <3>2, <3>3
  <2>3. QED
    BY <2>1, <2>2
<1>2. \A T \in SUBSET S : T \in Good
  <2> HIDE DEF Good
  <2>1. QED
    BY <1>1, SubsetInduction
<1>3. QED
  BY <1>2

(* A sum of naturals is a natural.                                         *)
LEMMA SumNat ==
  ASSUME NEW S, IsFiniteSet(S), NEW f, \A x \in S : f[x] \in Nat
  PROVE  SumFunctionOnSet(f, S) \in Nat
<1> DEFINE Good == {T \in SUBSET S : SumFunctionOnSet(f, T) \in Nat}
<1>1. ASSUME NEW T \in SUBSET S, \A x \in T : T \ {x} \in Good PROVE T \in Good
  <2>1. CASE T = {}
    BY <2>1, SumEmpty
  <2>2. CASE T # {}
    <3>1. IsFiniteSet(T) /\ Pick(T) \in T
      BY <2>2, FS_Subset, PickIn
    <3>2. SumFunctionOnSet(f, T) = f[Pick(T)] + SumFunctionOnSet(f, T \ {Pick(T)})
      BY <2>2, <3>1, SumPick
    <3>3. SumFunctionOnSet(f, T \ {Pick(T)}) \in Nat /\ f[Pick(T)] \in Nat
      BY <1>1, <3>1
    <3>4. QED
      BY <3>2, <3>3
  <2>3. QED
    BY <2>1, <2>2
<1>2. \A T \in SUBSET S : T \in Good
  <2> HIDE DEF Good
  <2>1. QED
    BY <1>1, SubsetInduction
<1>3. QED
  BY <1>2

(* A sum of zeros is zero.                                                 *)
LEMMA SumZero ==
  ASSUME NEW S, IsFiniteSet(S), NEW f, \A x \in S : f[x] = 0
  PROVE  SumFunctionOnSet(f, S) = 0
<1> DEFINE Good == {T \in SUBSET S : SumFunctionOnSet(f, T) = 0}
<1>1. ASSUME NEW T \in SUBSET S, \A x \in T : T \ {x} \in Good PROVE T \in Good
  <2>1. CASE T = {}
    BY <2>1, SumEmpty
  <2>2. CASE T # {}
    <3>1. IsFiniteSet(T) /\ Pick(T) \in T
      BY <2>2, FS_Subset, PickIn
    <3>2. SumFunctionOnSet(f, T) = f[Pick(T)] + SumFunctionOnSet(f, T \ {Pick(T)})
      BY <2>2, <3>1, SumPick
    <3>3. SumFunctionOnSet(f, T \ {Pick(T)}) = 0 /\ f[Pick(T)] = 0
      BY <1>1, <3>1
    <3>4. QED
      BY <3>2, <3>3
  <2>3. QED
    BY <2>1, <2>2
<1>2. \A T \in SUBSET S : T \in Good
  <2> HIDE DEF Good
  <2>1. QED
    BY <1>1, SubsetInduction
<1>3. QED
  BY <1>2

(* Functions that agree on a set have the same sum over it.                *)
LEMMA SumAgree ==
  ASSUME NEW S, IsFiniteSet(S), NEW f, NEW g, \A x \in S : f[x] = g[x]
  PROVE  SumFunctionOnSet(f, S) = SumFunctionOnSet(g, S)
<1> DEFINE Good == {T \in SUBSET S : SumFunctionOnSet(f, T) = SumFunctionOnSet(g, T)}
<1>1. ASSUME NEW T \in SUBSET S, \A x \in T : T \ {x} \in Good PROVE T \in Good
  <2>1. CASE T = {}
    BY <2>1, SumEmpty
  <2>2. CASE T # {}
    <3>1. IsFiniteSet(T) /\ Pick(T) \in T
      BY <2>2, FS_Subset, PickIn
    <3>2. /\ SumFunctionOnSet(f, T) = f[Pick(T)] + SumFunctionOnSet(f, T \ {Pick(T)})
          /\ SumFunctionOnSet(g, T) = g[Pick(T)] + SumFunctionOnSet(g, T \ {Pick(T)})
      BY <2>2, <3>1, SumPick
    <3>3. /\ SumFunctionOnSet(f, T \ {Pick(T)}) = SumFunctionOnSet(g, T \ {Pick(T)})
          /\ f[Pick(T)] = g[Pick(T)]
      BY <1>1, <3>1
    <3>4. QED
      BY <3>2, <3>3
  <2>3. QED
    BY <2>1, <2>2
<1>2. \A T \in SUBSET S : T \in Good
  <2> HIDE DEF Good
  <2>1. QED
    BY <1>1, SubsetInduction
<1>3. QED
  BY <1>2

(* Any element can be taken out of a sum of integers: the order in which   *)
(* they are added does not matter.                                         *)
LEMMA SumWithout ==
  ASSUME NEW S, IsFiniteSet(S), NEW f, \A x \in S : f[x] \in Int, NEW a \in S
  PROVE  SumFunctionOnSet(f, S) = f[a] + SumFunctionOnSet(f, S \ {a})
<1> DEFINE Sum(T) == SumFunctionOnSet(f, T)
           Good == {T \in SUBSET S : \A x \in T : Sum(T) = f[x] + Sum(T \ {x})}
<1>0. \A T \in SUBSET S : IsFiniteSet(T) /\ Sum(T) \in Int
  BY FS_Subset, SumInt
<1>1. ASSUME NEW T \in SUBSET S, \A x \in T : T \ {x} \in Good PROVE T \in Good
  <2> SUFFICES ASSUME NEW x \in T PROVE Sum(T) = f[x] + Sum(T \ {x})
    OBVIOUS
  <2> DEFINE c == Pick(T)
             R == T \ {c}
             Q == T \ {x}
  <2>1. c \in T
    BY PickIn
  <2>2. Sum(T) = f[c] + Sum(R)
    BY <1>0, SumPick
  <2>3. CASE x = c
    BY <2>2, <2>3
  <2>4. CASE x # c
    <3>1. x \in R /\ c \in Q /\ R \in Good /\ Q \in Good /\ R \ {x} = Q \ {c}
      BY <1>1, <2>1, <2>4
    <3>2. Sum(R) = f[x] + Sum(R \ {x}) /\ Sum(Q) = f[c] + Sum(Q \ {c})
      BY <3>1
    <3>3. /\ f[x] \in Int /\ f[c] \in Int
          /\ Sum(R \ {x}) \in Int /\ Sum(Q \ {c}) = Sum(R \ {x})
      <4>1. R \ {x} \in SUBSET S
        OBVIOUS
      <4>2. QED
        BY <1>0, <2>1, <3>1, <4>1
    <3> HIDE DEF Sum, R, Q, c
    <3>4. Sum(T) = f[x] + Sum(Q)
      BY <2>2, <3>2, <3>3
    <3>5. QED
      BY <3>4 DEF Q
  <2>5. QED
    BY <2>3, <2>4
<1>2. \A T \in SUBSET S : T \in Good
  <2> HIDE DEF Good
  <2>1. QED
    BY <1>1, SubsetInduction
<1>3. QED
  BY <1>2

(* An element that is added adds its value.                                *)
LEMMA SumWith ==
  ASSUME NEW S, IsFiniteSet(S), NEW f, NEW a, a \notin S, \A x \in S \union {a} : f[x] \in Int
  PROVE  SumFunctionOnSet(f, S \union {a}) = f[a] + SumFunctionOnSet(f, S)
<1>1. IsFiniteSet(S \union {a})
  BY FS_AddElement
<1>2. (S \union {a}) \ {a} = S
  OBVIOUS
<1>3. SumFunctionOnSet(f, S \union {a})
        = f[a] + SumFunctionOnSet(f, (S \union {a}) \ {a})
  BY <1>1, SumWithout
<1>4. QED
  BY <1>2, <1>3
(* When one summand changes the sum changes by as much.                    *)
LEMMA SumChange ==
  ASSUME NEW S, IsFiniteSet(S), NEW f, NEW g, NEW a \in S,
         \A x \in S : f[x] \in Int /\ g[x] \in Int,
         \A x \in S \ {a} : f[x] = g[x]
  PROVE  SumFunctionOnSet(g, S) = SumFunctionOnSet(f, S) + (g[a] - f[a])
<1>1. IsFiniteSet(S \ {a})
  BY FS_RemoveElement
<1>2. SumFunctionOnSet(g, S \ {a}) = SumFunctionOnSet(f, S \ {a})
  BY <1>1, SumAgree
<1>3. SumFunctionOnSet(f, S \ {a}) \in Int
  BY <1>1, SumInt
<1>4. /\ SumFunctionOnSet(f, S) = f[a] + SumFunctionOnSet(f, S \ {a})
      /\ SumFunctionOnSet(g, S) = g[a] + SumFunctionOnSet(g, S \ {a})
  BY SumWithout
<1>5. QED
  BY <1>2, <1>3, <1>4
=============================================================================
