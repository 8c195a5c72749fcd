----------------------------- MODULE CreditProofs -----------------------------
(***************************************************************************)
(* A workspace's credit, for every value of the CONSTANTS of CreditRows    *)
(* and AutoRefill.                                                         *)
(*                                                                         *)
(* CreditRows: a debt is marked (DebtIsMarked), a reservation is its holds *)
(* (HoldsAreReserved), the rows and the claims add up to the money that    *)
(* came in (ClaimsBalance), and the latest notice wins (LatestWins).  The  *)
(* module goes from sums over finite sets to the debt rules, the rows, the *)
(* claims, the notices and the inbox, and last to the steps.               *)
(*                                                                         *)
(* AutoRefill, at the end: an intent is credited once (CreditedOnce), and  *)
(* a low balance is always someone's work (LowIsHandled), wherever one     *)
(* refill is enough to end it.                                             *)
(***************************************************************************)
EXTENDS CreditRows, AutoRefill, FiniteSetTheorems, WellFoundedInduction, TLAPS

-----------------------------------------------------------------------------
(* Induction over a finite set and over the first n numbers, with the sets   *)
(* that have the property in the place of the property.                      *)

\* A set of numbers that is not empty has a least one.
LEMMA LeastOf ==
  ASSUME NEW S \in SUBSET Nat, S # {}
  PROVE  \E i \in S : \A k \in S : i <= k
<1> DEFINE R == OpToRel(<, Nat)
<1>1. PICK i \in S : \A k \in S : ~(<<k, i>> \in R)
  <2>1. IsWellFoundedOn(R, Nat)
    BY NatLessThanWellFounded
  <2> HIDE DEF R
  <2> QED BY <2>1, WFMin
<1>2. ASSUME NEW k \in S
      PROVE  i <= k
  <2>1. k < i => <<k, i>> \in R
    BY DEF OpToRel
  <2>2. ~(<<k, i>> \in R)
    BY <1>1
  <2> HIDE DEF R
  <2> QED BY <2>1, <2>2
<1> QED BY <1>2

\* Induction on the numbers up to n.
LEMMA UpTo ==
  ASSUME NEW n \in Nat, NEW P \in SUBSET (0 .. n), 0 \in P,
         \A i \in 0 .. n - 1 : i \in P => i + 1 \in P
  PROVE  n \in P
<1> DEFINE C == (0 .. n) \ P
<1>1. SUFFICES ASSUME C # {} PROVE FALSE
  OBVIOUS
<1>2. PICK i \in C : \A k \in C : i <= k
  <2>1. C \in SUBSET Nat
    OBVIOUS
  <2> HIDE DEF C
  <2> QED BY <1>1, <2>1, LeastOf
<1>3. i \in 1 .. n
  BY <1>2
<1>4. i - 1 \in 0 .. n - 1 /\ i - 1 \notin C
  BY <1>2, <1>3
<1>5. i - 1 \in P
  BY <1>4
<1>6. (i - 1) + 1 = i
  BY <1>3
<1> QED BY <1>2, <1>4, <1>5, <1>6

\* Of finite sets C one is least.
LEMMA FewestOf ==
  ASSUME NEW C, C # {}, \A s \in C : IsFiniteSet(s)
  PROVE  \E s \in C : \A t \in C : t \subseteq s => t = s
<1> DEFINE N == {Cardinality(s) : s \in C}
<1>1. N \in SUBSET Nat /\ N # {}
  BY FS_CardinalityType
<1>2. PICK i \in N : \A k \in N : i <= k
  <2> HIDE DEF N
  <2> QED BY <1>1, LeastOf
<1>3. PICK s \in C : Cardinality(s) = i
  BY <1>2
<1>4. ASSUME NEW t \in C, t \subseteq s
      PROVE  t = s
  <2>1. IsFiniteSet(s) /\ Cardinality(s) \in Nat /\ Cardinality(t) \in Nat
    BY FS_CardinalityType
  <2>2. Cardinality(s) <= Cardinality(t)
    BY <1>2, <1>3
  <2>3. t # s => Cardinality(t) < Cardinality(s)
    BY <1>4, <2>1, FS_Subset
  <2> QED BY <2>1, <2>2, <2>3
<1> QED BY <1>3, <1>4

\* Induction on a finite set, one member at a time.
LEMMA OneByOne ==
  ASSUME NEW S, IsFiniteSet(S), NEW P \in SUBSET (SUBSET S), {} \in P,
         \A T \in SUBSET S, x \in S : T \in P /\ x \notin T => T \cup {x} \in P
  PROVE  S \in P
<1> DEFINE C == (SUBSET S) \ P
<1>1. SUFFICES ASSUME C # {} PROVE FALSE
  OBVIOUS
<1>2. PICK s \in C : \A t \in C : t \subseteq s => t = s
  <2>1. \A s \in C : IsFiniteSet(s)
    BY FS_Subset
  <2> HIDE DEF C
  <2> QED BY <1>1, <2>1, FewestOf
<1>3. PICK x \in s : TRUE
  BY <1>2
<1> DEFINE t == s \ {x}
<1>4. t \in SUBSET S /\ t \subseteq s /\ t # s /\ x \in S /\ x \notin t /\ t \cup {x} = s
  BY <1>2, <1>3
<1>5. t \in P
  BY <1>2, <1>4
<1> HIDE DEF t
<1> QED BY <1>2, <1>4, <1>5

-----------------------------------------------------------------------------
(* Sums over finite sets.                                                    *)

\* One of a set, as a sum takes it.
One(s) == CHOOSE x \in s : TRUE

\* h is the sum of f over the subsets of S.
Sums(f, S, h) ==
  h = [s \in SUBSET S |-> IF s = {} THEN 0 ELSE f[One(s)] + h[s \ {One(s)}]]

\* The member that a sum takes first.
LEMMA OneOf ==
  ASSUME NEW s, s # {}
  PROVE  One(s) \in s /\ s \ {One(s)} \subseteq s /\ s \ {One(s)} # s
BY DEF One

\* The partial sums are determined.
LEMMA SumsAgree ==
  ASSUME NEW f, NEW S, IsFiniteSet(S), NEW T \in SUBSET S, NEW h, NEW k,
         Sums(f, S, h), Sums(f, T, k), NEW s \in SUBSET T
  PROVE  h[s] = k[s]
<1> DEFINE C == {t \in SUBSET T : h[t] # k[t]}
<1>1. SUFFICES ASSUME C # {} PROVE FALSE
  OBVIOUS
<1>2. \A t \in C : IsFiniteSet(t)
  BY FS_Subset
<1>3. PICK t \in C : \A u \in C : u \subseteq t => u = t
  <2> HIDE DEF C
  <2> QED BY <1>1, <1>2, FewestOf
<1>4. t \in SUBSET T /\ t \in SUBSET S /\ h[t] # k[t]
  BY <1>3
<1>5. t # {}
  BY <1>4 DEF Sums
<1>6. h[t] = f[One(t)] + h[t \ {One(t)}] /\ k[t] = f[One(t)] + k[t \ {One(t)}]
  BY <1>4, <1>5 DEF Sums
<1>7. t \ {One(t)} \in SUBSET T /\ t \ {One(t)} \subseteq t /\ t \ {One(t)} # t
  BY <1>4, <1>5, OneOf
<1>8. h[t \ {One(t)}] = k[t \ {One(t)}]
  BY <1>3, <1>7
<1> QED BY <1>4, <1>6, <1>8

\* There is one for every finite set: extended from the subsets of at most i
\* elements to those of at most i + 1.
LEMMA SumsExist ==
  ASSUME NEW f, NEW S, IsFiniteSet(S)
  PROVE  \E h : Sums(f, S, h)
<1> DEFINE n == Cardinality(S)
           Few(i) == {s \in SUBSET S : Cardinality(s) <= i}
           Is(h, i) == h = [s \in Few(i) |->
                              IF s = {} THEN 0 ELSE f[One(s)] + h[s \ {One(s)}]]
           P == {i \in 0 .. n : \E h : Is(h, i)}
<1>1. n \in Nat /\ \A s \in SUBSET S : IsFiniteSet(s) /\ Cardinality(s) \in 0 .. n
  BY FS_CardinalityType, FS_Subset
<1>2. ASSUME NEW s \in SUBSET S, s # {}
      PROVE  /\ s \ {One(s)} \in SUBSET S
             /\ Cardinality(s \ {One(s)}) = Cardinality(s) - 1
  BY <1>1, <1>2, OneOf, FS_RemoveElement
<1>3. 0 \in P
  <2> DEFINE h == [s \in Few(0) |-> 0]
  <2>1. \A s \in Few(0) : s = {}
    BY <1>1, FS_EmptySet
  <2>2. Is(h, 0)
    BY <2>1
  <2> HIDE DEF h, Is, n
  <2> QED BY <1>1, <2>2
<1>4. ASSUME NEW i \in 0 .. n - 1, i \in P
      PROVE  i + 1 \in P
  <2>1. PICK h : Is(h, i)
    BY <1>4
  <2> DEFINE k == [s \in Few(i + 1) |->
                     IF s = {} THEN 0 ELSE f[One(s)] + h[s \ {One(s)}]]
  <2>2. ASSUME NEW s \in Few(i)
        PROVE  k[s] = h[s]
    <3>1. s \in Few(i + 1)
      BY <1>1, <1>4
    <3>2. h[s] = IF s = {} THEN 0 ELSE f[One(s)] + h[s \ {One(s)}]
      BY <2>1, <2>2
    <3> QED BY <3>1, <3>2
  <2>3. ASSUME NEW s \in Few(i + 1), s # {}
        PROVE  h[s \ {One(s)}] = k[s \ {One(s)}]
    <3>1. s \ {One(s)} \in Few(i)
      BY <1>1, <1>2, <1>4, <2>3
    <3> QED BY <2>2, <3>1
  <2>4. Is(k, i + 1)
    BY <2>3
  <2>5. i + 1 \in 0 .. n
    BY <1>1
  <2> HIDE DEF k, Is, n
  <2> QED BY <2>4, <2>5
<1>5. n \in P
  <2> HIDE DEF P, n
  <2>1. P \in SUBSET (0 .. n)
    BY DEF P
  <2> QED BY <1>1, <1>3, <1>4, <2>1, UpTo
<1>6. Few(n) = SUBSET S
  BY <1>1
<1> QED BY <1>5, <1>6 DEF Sums

\* SumFunctionOnSet is the last of its partial sums.
LEMMA SumIs ==
  ASSUME NEW f, NEW S, IsFiniteSet(S), NEW h, Sums(f, S, h)
  PROVE  SumFunctionOnSet(f, S) = h[S]
<1>1. PICK g : /\ SumFunctionOnSet(f, S) = g[S]
               /\ g = CHOOSE k : k = [s \in SUBSET S |->
                        IF s = {} THEN 0
                        ELSE f[CHOOSE x \in s : TRUE] + k[s \ {CHOOSE x \in s : TRUE}]]
  BY DEF SumFunctionOnSet, FoldFunctionOnSet, MapThenFoldSet
<1>2. g = CHOOSE k : Sums(f, S, k)
  BY <1>1 DEF Sums, One
<1>3. Sums(f, S, g)
  BY <1>2
<1> QED BY <1>1, <1>3, SumsAgree

\* The sum over nothing is zero.
LEMMA SumOfNone ==
  ASSUME NEW f
  PROVE  SumFunctionOnSet(f, {}) = 0
<1>1. IsFiniteSet({})
  BY FS_EmptySet
<1>2. PICK h : Sums(f, {}, h)
  BY <1>1, SumsExist
<1>3. h[{}] = 0
  BY <1>2 DEF Sums
<1> QED BY <1>1, <1>2, <1>3, SumIs

\* A sum is its first value and the sum of the others.
LEMMA SumUnfolds ==
  ASSUME NEW f, NEW S, IsFiniteSet(S), S # {}
  PROVE  SumFunctionOnSet(f, S) = f[One(S)] + SumFunctionOnSet(f, S \ {One(S)})
<1> DEFINE T == S \ {One(S)}
<1>1. T \in SUBSET S /\ IsFiniteSet(T)
  BY FS_Subset
<1>2. PICK h : Sums(f, S, h)
  BY SumsExist
<1>3. PICK k : Sums(f, T, k)
  BY <1>1, SumsExist
<1>4. h[S] = f[One(S)] + h[T]
  BY <1>2 DEF Sums
<1>5. h[T] = k[T]
  BY <1>1, <1>2, <1>3, SumsAgree
<1>6. SumFunctionOnSet(f, S) = h[S] /\ SumFunctionOnSet(f, T) = k[T]
  BY <1>1, <1>2, <1>3, SumIs
<1> HIDE DEF T
<1> QED BY <1>4, <1>5, <1>6 DEF T

\* f has values in V on the finite set S.
Valued(f, S, V) == IsFiniteSet(S) /\ \A x \in S : f[x] \in V

\* A part of the places has values too.
LEMMA ValuedOnPart ==
  ASSUME NEW f, NEW S, NEW V, Valued(f, S, V), NEW T \in SUBSET S
  PROVE  Valued(f, T, V)
BY FS_Subset DEF Valued

\* Naturals are integers.
LEMMA ValuedNat ==
  ASSUME NEW f, NEW S, Valued(f, S, Nat)
  PROVE  Valued(f, S, Int)
BY DEF Valued

\* A sum of integers is an integer.
LEMMA SumInt ==
  ASSUME NEW f, NEW S, Valued(f, S, Int)
  PROVE  SumFunctionOnSet(f, S) \in Int
<1> DEFINE C == {t \in SUBSET S : SumFunctionOnSet(f, t) \notin Int}
<1>1. SUFFICES ASSUME C # {} PROVE FALSE
  OBVIOUS
<1>2. \A t \in C : IsFiniteSet(t)
  BY FS_Subset DEF Valued
<1>3. PICK t \in C : \A u \in C : u \subseteq t => u = t
  <2> HIDE DEF C
  <2> QED BY <1>1, <1>2, FewestOf
<1>4. t \in SUBSET S /\ IsFiniteSet(t) /\ SumFunctionOnSet(f, t) \notin Int
  BY <1>2, <1>3
<1>5. t # {}
  BY <1>4, SumOfNone
<1>6. SumFunctionOnSet(f, t) = f[One(t)] + SumFunctionOnSet(f, t \ {One(t)})
  BY <1>4, <1>5, SumUnfolds
<1>7. One(t) \in t /\ t \ {One(t)} \in SUBSET S /\ t \ {One(t)} \subseteq t /\ t \ {One(t)} # t
  BY <1>4, <1>5, OneOf
<1>8. SumFunctionOnSet(f, t \ {One(t)}) \in Int /\ f[One(t)] \in Int
  BY <1>3, <1>4, <1>7 DEF Valued
<1> QED BY <1>4, <1>6, <1>8

\* A sum is any of its terms and the sum of the others.
LEMMA SumWithout ==
  ASSUME NEW f, NEW S, Valued(f, S, Int), NEW x \in S
  PROVE  SumFunctionOnSet(f, S) = f[x] + SumFunctionOnSet(f, S \ {x})
<1> DEFINE C == {t \in SUBSET S :
                   \E y \in t : SumFunctionOnSet(f, t) # f[y] + SumFunctionOnSet(f, t \ {y})}
<1>1. SUFFICES ASSUME C # {} PROVE FALSE
  BY DEF Valued
<1>2. \A t \in C : IsFiniteSet(t)
  BY FS_Subset DEF Valued
<1>3. PICK t \in C : \A u \in C : u \subseteq t => u = t
  <2> HIDE DEF C
  <2> QED BY <1>1, <1>2, FewestOf
<1>4. t \in SUBSET S /\ IsFiniteSet(t)
  BY <1>2, <1>3
<1>5. PICK y \in t : SumFunctionOnSet(f, t) # f[y] + SumFunctionOnSet(f, t \ {y})
  BY <1>3
<1>6. \A u \in SUBSET t : u # t =>
        \A z \in u : SumFunctionOnSet(f, u) = f[z] + SumFunctionOnSet(f, u \ {z})
  BY <1>3, <1>4
<1> HIDE DEF C
<1> DEFINE z == One(t)
<1>7. z \in t /\ SumFunctionOnSet(f, t) = f[z] + SumFunctionOnSet(f, t \ {z})
  BY <1>4, <1>5, OneOf, SumUnfolds
<1> HIDE DEF z
<1>8. z # y
  BY <1>5, <1>7
<1> DEFINE r == (t \ {z}) \ {y}
<1>9. SumFunctionOnSet(f, t \ {z}) = f[y] + SumFunctionOnSet(f, r)
  <2>1. t \ {z} \in SUBSET t /\ t \ {z} # t /\ y \in t \ {z}
    BY <1>7, <1>8
  <2> QED BY <1>6, <2>1
<1>10. SumFunctionOnSet(f, t \ {y}) = f[z] + SumFunctionOnSet(f, r)
  <2>1. t \ {y} \in SUBSET t /\ t \ {y} # t /\ z \in t \ {y} /\ (t \ {y}) \ {z} = r
    BY <1>7, <1>8
  <2> HIDE DEF r
  <2> QED BY <1>6, <2>1
<1>11. f[y] \in Int /\ f[z] \in Int /\ SumFunctionOnSet(f, r) \in Int
  <2>1. r \in SUBSET S
    BY <1>4
  <2>2. SumFunctionOnSet(f, r) \in Int
    BY <2>1, SumInt, ValuedOnPart
  <2> QED BY <1>4, <1>7, <2>2 DEF Valued
<1> HIDE DEF r
<1> QED BY <1>5, <1>7, <1>9, <1>10, <1>11

\* A sum with one place more.
LEMMA SumWith ==
  ASSUME NEW f, NEW S, Valued(f, S, Int), NEW T \in SUBSET S, NEW x \in S, x \notin T
  PROVE  SumFunctionOnSet(f, T \cup {x}) = f[x] + SumFunctionOnSet(f, T)
<1>1. Valued(f, T \cup {x}, Int)
  BY ValuedOnPart
<1>2. (T \cup {x}) \ {x} = T
  OBVIOUS
<1> QED BY <1>1, <1>2, SumWithout

\* Sums of the same terms.
LEMMA SumSame ==
  ASSUME NEW f, NEW g, NEW S, Valued(f, S, Int), \A x \in S : f[x] = g[x]
  PROVE  SumFunctionOnSet(f, S) = SumFunctionOnSet(g, S)
<1> DEFINE P == {t \in SUBSET S : SumFunctionOnSet(f, t) = SumFunctionOnSet(g, t)}
<1>1. {} \in P
  BY SumOfNone
<1>2. Valued(g, S, Int)
  BY DEF Valued
<1>3. \A T \in SUBSET S, x \in S : T \in P /\ x \notin T => T \cup {x} \in P
  BY <1>2, SumWith
<1>4. IsFiniteSet(S) /\ P \in SUBSET (SUBSET S)
  BY DEF Valued
<1>5. S \in P
  <2> HIDE DEF P
  <2> QED BY <1>1, <1>3, <1>4, OneByOne
<1> QED BY <1>5

\* A sum of naturals is a natural.
LEMMA SumNat ==
  ASSUME NEW f, NEW S, Valued(f, S, Nat)
  PROVE  SumFunctionOnSet(f, S) \in Nat
<1> DEFINE P == {t \in SUBSET S : SumFunctionOnSet(f, t) \in Nat}
<1>1. {} \in P
  BY SumOfNone
<1>2. Valued(f, S, Int)
  BY ValuedNat
<1>3. ASSUME NEW T \in SUBSET S, NEW x \in S, T \in P, x \notin T
      PROVE  T \cup {x} \in P
  <2>1. SumFunctionOnSet(f, T \cup {x}) = f[x] + SumFunctionOnSet(f, T)
    BY <1>2, <1>3, SumWith
  <2>2. f[x] \in Nat /\ SumFunctionOnSet(f, T) \in Nat
    BY <1>3 DEF Valued
  <2> QED BY <2>1, <2>2
<1>4. IsFiniteSet(S) /\ P \in SUBSET (SUBSET S)
  BY DEF Valued
<1>5. S \in P
  <2> HIDE DEF P
  <2> QED BY <1>1, <1>3, <1>4, OneByOne
<1> QED BY <1>5

\* Sums of sums and of differences, term by term.
LEMMA SumPlus ==
  ASSUME NEW f, NEW g, NEW h, NEW S, Valued(f, S, Int), Valued(g, S, Int),
         \A x \in S : h[x] = f[x] + g[x]
  PROVE  SumFunctionOnSet(h, S) = SumFunctionOnSet(f, S) + SumFunctionOnSet(g, S)
<1> DEFINE P == {t \in SUBSET S :
                   SumFunctionOnSet(h, t) = SumFunctionOnSet(f, t) + SumFunctionOnSet(g, t)}
<1>1. {} \in P
  BY SumOfNone
<1>2. Valued(h, S, Int)
  BY DEF Valued
<1>3. ASSUME NEW T \in SUBSET S, NEW x \in S, T \in P, x \notin T
      PROVE  T \cup {x} \in P
  <2>1. /\ SumFunctionOnSet(f, T \cup {x}) = f[x] + SumFunctionOnSet(f, T)
        /\ SumFunctionOnSet(g, T \cup {x}) = g[x] + SumFunctionOnSet(g, T)
        /\ SumFunctionOnSet(h, T \cup {x}) = h[x] + SumFunctionOnSet(h, T)
    BY <1>2, <1>3, SumWith
  <2>2. f[x] \in Int /\ g[x] \in Int /\ h[x] = f[x] + g[x]
    BY DEF Valued
  <2>3. SumFunctionOnSet(f, T) \in Int /\ SumFunctionOnSet(g, T) \in Int
    BY SumInt, ValuedOnPart
  <2> QED BY <1>3, <2>1, <2>2, <2>3
<1>4. IsFiniteSet(S) /\ P \in SUBSET (SUBSET S)
  BY DEF Valued
<1>5. S \in P
  <2> HIDE DEF P
  <2> QED BY <1>1, <1>3, <1>4, OneByOne
<1> QED BY <1>5

\* Two functions that differ in one place.
LEMMA SumChanged ==
  ASSUME NEW f, NEW g, NEW S, Valued(f, S, Int), NEW x \in S, g[x] \in Int,
         \A y \in S \ {x} : g[y] = f[y]
  PROVE  SumFunctionOnSet(g, S) = SumFunctionOnSet(f, S) + g[x] - f[x]
<1>1. Valued(g, S, Int)
  BY DEF Valued
<1>2. SumFunctionOnSet(g, S \ {x}) = SumFunctionOnSet(f, S \ {x})
  <2>1. Valued(f, S \ {x}, Int) /\ Valued(g, S \ {x}, Int)
    BY <1>1, ValuedOnPart
  <2> QED BY <2>1, SumSame
<1>3. /\ SumFunctionOnSet(f, S) = f[x] + SumFunctionOnSet(f, S \ {x})
      /\ SumFunctionOnSet(g, S) = g[x] + SumFunctionOnSet(g, S \ {x})
  BY <1>1, SumWithout
<1>4. f[x] \in Int /\ SumFunctionOnSet(f, S \ {x}) \in Int
  <2>1. Valued(f, S \ {x}, Int)
    BY ValuedOnPart
  <2> QED BY <2>1, SumInt DEF Valued
<1> QED BY <1>2, <1>3, <1>4

\* A sum of smaller values is not larger.
LEMMA SumAtMost ==
  ASSUME NEW f, NEW g, NEW S, Valued(f, S, Int), Valued(g, S, Int), \A x \in S : f[x] <= g[x]
  PROVE  SumFunctionOnSet(f, S) <= SumFunctionOnSet(g, S)
<1> DEFINE d == [x \in S |-> g[x] - f[x]]
<1>1. Valued(d, S, Nat)
  BY DEF Valued
<1>2. Valued(d, S, Int) /\ \A x \in S : g[x] = f[x] + d[x]
  BY <1>1 DEF Valued
<1>3. SumFunctionOnSet(d, S) \in Nat /\ SumFunctionOnSet(f, S) \in Int
  BY <1>1, SumNat, SumInt
<1>4. SumFunctionOnSet(g, S) = SumFunctionOnSet(f, S) + SumFunctionOnSet(d, S)
  <2> HIDE DEF d
  <2> QED BY <1>2, SumPlus
<1> QED BY <1>3, <1>4

\* Of terms that are no greater with a sum that is no less, all are equal.
LEMMA SumReached ==
  ASSUME NEW f, NEW g, NEW S, Valued(f, S, Int), Valued(g, S, Int), \A x \in S : f[x] <= g[x],
         SumFunctionOnSet(g, S) <= SumFunctionOnSet(f, S), NEW x \in S
  PROVE  f[x] = g[x]
<1>1. Valued(f, S \ {x}, Int) /\ Valued(g, S \ {x}, Int)
  BY ValuedOnPart
<1>2. SumFunctionOnSet(f, S \ {x}) <= SumFunctionOnSet(g, S \ {x})
  <2>1. \A y \in S \ {x} : f[y] <= g[y]
    OBVIOUS
  <2> QED BY <1>1, <2>1, SumAtMost
<1>3. /\ SumFunctionOnSet(f, S) = f[x] + SumFunctionOnSet(f, S \ {x})
      /\ SumFunctionOnSet(g, S) = g[x] + SumFunctionOnSet(g, S \ {x})
  BY SumWithout
<1>4. /\ f[x] \in Int /\ g[x] \in Int
      /\ SumFunctionOnSet(f, S \ {x}) \in Int /\ SumFunctionOnSet(g, S \ {x}) \in Int
  BY <1>1, SumInt DEF Valued
<1> QED BY <1>2, <1>3, <1>4

\* A term is no more than the sum, if none is negative.
LEMMA SumHas ==
  ASSUME NEW f, NEW S, Valued(f, S, Nat), NEW x \in S
  PROVE  f[x] <= SumFunctionOnSet(f, S)
<1>1. SumFunctionOnSet(f, S) = f[x] + SumFunctionOnSet(f, S \ {x})
  BY ValuedNat, SumWithout
<1>2. SumFunctionOnSet(f, S \ {x}) \in Nat
  BY ValuedOnPart, SumNat
<1> QED BY <1>1, <1>2 DEF Valued

\* Places outside of T that add nothing.
LEMMA SumOfPart ==
  ASSUME NEW f, NEW S, Valued(f, S, Int), NEW T \in SUBSET S, \A x \in S \ T : f[x] = 0
  PROVE  SumFunctionOnSet(f, S) = SumFunctionOnSet(f, T)
<1> DEFINE R == S \ T
           P == {t \in SUBSET R : SumFunctionOnSet(f, T \cup t) = SumFunctionOnSet(f, T)}
<1>1. {} \in P
  <2>1. T \cup {} = T
    OBVIOUS
  <2> QED BY <2>1
<1>2. ASSUME NEW t \in SUBSET R, NEW x \in R, t \in P, x \notin t
      PROVE  t \cup {x} \in P
  <2>1. T \cup t \in SUBSET S /\ x \in S /\ x \notin T \cup t /\ T \cup (t \cup {x}) = (T \cup t) \cup {x}
    BY <1>2
  <2>2. SumFunctionOnSet(f, (T \cup t) \cup {x}) = f[x] + SumFunctionOnSet(f, T \cup t)
    <3> DEFINE U == T \cup t
    <3>1. U \in SUBSET S /\ x \in S /\ x \notin U
      BY <2>1
    <3> HIDE DEF U
    <3>2. SumFunctionOnSet(f, U \cup {x}) = f[x] + SumFunctionOnSet(f, U)
      BY <3>1, SumWith
    <3> QED BY <3>2 DEF U
  <2>3. f[x] = 0 /\ SumFunctionOnSet(f, T) \in Int
    <3>1. Valued(f, T, Int)
      BY ValuedOnPart
    <3> QED BY <3>1, SumInt
  <2>4. SumFunctionOnSet(f, T \cup t) = SumFunctionOnSet(f, T)
    BY <1>2
  <2>5. T \cup (t \cup {x}) = (T \cup t) \cup {x}
    BY <2>1
  <2>6. SumFunctionOnSet(f, T \cup (t \cup {x})) = SumFunctionOnSet(f, T)
    BY <2>2, <2>3, <2>4, <2>5
  <2>7. t \cup {x} \in SUBSET R
    BY <1>2
  <2> HIDE DEF R
  <2> QED BY <2>6, <2>7
<1>3. IsFiniteSet(R) /\ P \in SUBSET (SUBSET R)
  BY FS_Subset DEF Valued
<1>4. R \in P
  <2> HIDE DEF P, R
  <2> QED BY <1>1, <1>2, <1>3, OneByOne
<1>5. T \cup R = S
  OBVIOUS
<1> QED BY <1>4, <1>5

\* A sum of n times the same.
LEMMA SumOfEqual ==
  ASSUME NEW f, NEW S, NEW c \in Int, Valued(f, S, Int), \A x \in S : f[x] = c
  PROVE  SumFunctionOnSet(f, S) = Cardinality(S) * c
<1> DEFINE P == {t \in SUBSET S : SumFunctionOnSet(f, t) = Cardinality(t) * c}
<1>1. {} \in P
  BY SumOfNone, FS_EmptySet
<1>2. ASSUME NEW T \in SUBSET S, NEW x \in S, T \in P, x \notin T
      PROVE  T \cup {x} \in P
  <2>1. SumFunctionOnSet(f, T \cup {x}) = f[x] + SumFunctionOnSet(f, T)
    BY <1>2, SumWith
  <2>2. IsFiniteSet(T)
    BY FS_Subset DEF Valued
  <2>3. PICK k \in Nat : k = Cardinality(T)
    BY <2>2, FS_CardinalityType
  <2>4. Cardinality(T \cup {x}) = k + 1
    BY <1>2, <2>2, <2>3, FS_AddElement
  <2>5. SumFunctionOnSet(f, T) = k * c /\ f[x] = c
    BY <1>2, <2>3
  <2>6. c + k * c = (k + 1) * c
    OBVIOUS
  <2>7. SumFunctionOnSet(f, T \cup {x}) = Cardinality(T \cup {x}) * c
    BY <2>1, <2>4, <2>5, <2>6
  <2> QED BY <2>7
<1>3. IsFiniteSet(S) /\ P \in SUBSET (SUBSET S)
  BY DEF Valued
<1>4. S \in P
  <2> HIDE DEF P
  <2> QED BY <1>1, <1>2, <1>3, OneByOne
<1> QED BY <1>4

-----------------------------------------------------------------------------
(* Sources asked in turn.                                                    *)

\* The sources S are asked one after the other.
InTurn(S, earlier) ==
  /\ \A s \in S : earlier[s] \subseteq S /\ s \notin earlier[s]
  /\ \A s, t \in S : t = s \/ t \in earlier[s] \/ s \in earlier[t]
  /\ \A s \in S : \A t \in earlier[s] : earlier[t] \subseteq earlier[s]

\* D holds with a source those asked before it.
Closed(D, earlier) == \A s \in D : earlier[s] \subseteq D

\* The places asked so far have a last one.
LEMMA LastAsked ==
  ASSUME NEW S, IsFiniteSet(S), NEW earlier, InTurn(S, earlier),
         NEW D \in SUBSET S, D # {}, Closed(D, earlier)
  PROVE  \E m \in D : /\ D = earlier[m] \cup {m} /\ m \notin earlier[m]
                      /\ Closed(earlier[m], earlier)
<1> DEFINE C == {D \ earlier[s] : s \in D}
<1>1. C # {} /\ \A t \in C : IsFiniteSet(t)
  <2>1. IsFiniteSet(D)
    BY FS_Subset
  <2>2. ASSUME NEW s \in D
        PROVE  IsFiniteSet(D \ earlier[s])
    <3>1. D \ earlier[s] \subseteq D
      OBVIOUS
    <3> QED BY <2>1, <3>1, FS_Subset
  <2> QED BY <2>2
<1>2. PICK u \in C : \A t \in C : t \subseteq u => t = u
  <2> HIDE DEF C
  <2> QED BY <1>1, FewestOf
<1>3. PICK m \in D : u = D \ earlier[m]
  BY <1>2
<1>4. ASSUME NEW t \in D, t # m, t \notin earlier[m]
      PROVE  FALSE
  <2>1. m \in earlier[t]
    BY <1>4 DEF InTurn
  <2>2. earlier[m] \subseteq earlier[t] /\ m \notin earlier[m]
    BY <2>1 DEF InTurn
  <2>3. D \ earlier[t] \subseteq u /\ D \ earlier[t] # u /\ D \ earlier[t] \in C
    BY <1>3, <2>1, <2>2
  <2> QED BY <1>2, <2>3
<1>5. earlier[m] \subseteq D /\ m \notin earlier[m]
  BY DEF Closed, InTurn
<1>6. Closed(earlier[m], earlier)
  BY <1>3 DEF Closed, InTurn
<1>7. D = earlier[m] \cup {m}
  BY <1>4, <1>5
<1> QED BY <1>3, <1>5, <1>6, <1>7

\* The lesser of two numbers.
LEMMA LeastIs ==
  ASSUME NEW a \in Nat, NEW x \in Nat, NEW c \in Nat, NEW y, NEW t,
         y = Least(a, x), t = Least(c, AtLeastZero(a - x))
  PROVE  t + y = Least(a, c + x) /\ t \in Nat /\ t <= c
BY DEF Least, AtLeastZero

\* What one source gives.
LEMMA Taken ==
  ASSUME NEW S, NEW c, DOMAIN c = S, Valued(c, S, Nat), NEW earlier, InTurn(S, earlier),
         NEW a \in Nat, NEW s \in S
  PROVE  /\ TakeInTurn(c, earlier, a)[s]
              = Least(c[s], AtLeastZero(a - SumFunctionOnSet(c, earlier[s])))
         /\ TakeInTurn(c, earlier, a)[s] \in Nat
         /\ TakeInTurn(c, earlier, a)[s] <= c[s]
<1> DEFINE t == TakeInTurn(c, earlier, a)
<1>1. t[s] = Least(c[s], AtLeastZero(a - SumFunctionOnSet(c, earlier[s])))
  BY DEF TakeInTurn
<1>2. earlier[s] \in SUBSET S
  BY DEF InTurn
<1>3. PICK x \in Nat : x = SumFunctionOnSet(c, earlier[s])
  BY <1>2, ValuedOnPart, SumNat
<1>4. PICK v \in Nat : v = c[s]
  BY DEF Valued
<1> HIDE DEF t
<1>5. t[s] \in Nat /\ t[s] <= v
  BY <1>1, <1>3, <1>4 DEF Least, AtLeastZero
<1> QED BY <1>1, <1>4, <1>5 DEF t

\* Together they give the amount, or all they have.
LEMMA TakenInAll ==
  ASSUME NEW S, NEW c, DOMAIN c = S, Valued(c, S, Nat), NEW earlier, InTurn(S, earlier),
         NEW a \in Nat
  PROVE  /\ Valued(TakeInTurn(c, earlier, a), S, Nat)
         /\ DOMAIN TakeInTurn(c, earlier, a) = S
         /\ SumFunctionOnSet(TakeInTurn(c, earlier, a), S) = Least(a, SumFunctionOnSet(c, S))
<1> DEFINE t == TakeInTurn(c, earlier, a)
<1>1. Valued(t, S, Nat)
  BY Taken DEF Valued
<1>2. Valued(t, S, Int) /\ Valued(c, S, Int)
  BY <1>1, ValuedNat
<1>3. \A s \in S : t[s] = Least(c[s], AtLeastZero(a - SumFunctionOnSet(c, earlier[s])))
  BY Taken
<1>4. DOMAIN t = S
  BY DEF TakeInTurn
<1> HIDE DEF t
<1> DEFINE Right(D) == SumFunctionOnSet(t, D) = Least(a, SumFunctionOnSet(c, D))
           C == {D \in SUBSET S : Closed(D, earlier) /\ ~Right(D)}
<1>5. S \notin C
  <2>1. SUFFICES ASSUME C # {} PROVE FALSE
    OBVIOUS
  <2>2. \A D \in C : IsFiniteSet(D)
    BY FS_Subset DEF Valued
  <2>3. PICK D \in C : \A u \in C : u \subseteq D => u = D
    <3> HIDE DEF C
    <3> QED BY <2>1, <2>2, FewestOf
  <2>4. D \in SUBSET S /\ Closed(D, earlier) /\ ~Right(D)
    BY <2>3
  <2>5. D # {}
    <3>1. Right({})
      BY SumOfNone DEF Least
    <3> HIDE DEF Right
    <3> QED BY <2>4, <3>1
  <2>6. PICK m \in D : D = earlier[m] \cup {m} /\ m \notin earlier[m] /\ Closed(earlier[m], earlier)
    BY <2>4, <2>5, LastAsked DEF Valued
  <2> DEFINE E == earlier[m]
  <2>7. E \in SUBSET S /\ E \subseteq D /\ E # D /\ m \in S /\ m \notin E
    BY <2>4, <2>6
  <2>8. Right(E)
    <3> HIDE DEF Right
    <3> QED BY <2>3, <2>6, <2>7
  <2>9. /\ SumFunctionOnSet(t, D) = t[m] + SumFunctionOnSet(t, E)
        /\ SumFunctionOnSet(c, D) = c[m] + SumFunctionOnSet(c, E)
    BY <1>2, <2>6, <2>7, SumWith
  <2>10. PICK x \in Nat : x = SumFunctionOnSet(c, E)
    <3> HIDE DEF E
    <3>1. Valued(c, E, Nat)
      BY <2>7, ValuedOnPart
    <3> QED BY <3>1, SumNat
  <2>11. PICK v \in Nat : v = c[m]
    BY <2>7 DEF Valued
  <2>12. t[m] = Least(v, AtLeastZero(a - x)) /\ SumFunctionOnSet(t, E) = Least(a, x)
    BY <1>3, <2>7, <2>8, <2>10, <2>11
  <2>13. t[m] + SumFunctionOnSet(t, E) = Least(a, v + x)
    <3> DEFINE y == SumFunctionOnSet(t, E)
               z == t[m]
    <3>1. y = Least(a, x) /\ z = Least(v, AtLeastZero(a - x))
      BY <2>12
    <3> HIDE DEF y, z
    <3>2. z + y = Least(a, v + x)
      BY <2>10, <2>11, <3>1, LeastIs
    <3> QED BY <3>2 DEF y, z
  <2> QED BY <2>4, <2>9, <2>10, <2>11, <2>13
<1>6. Closed(S, earlier)
  BY DEF Closed, InTurn
<1>7. Right(S)
  <2> HIDE DEF Right
  <2> QED BY <1>5, <1>6
<1> QED BY <1>1, <1>4, <1>7 DEF t

\* Lower numbers first.
LEMMA LowerInTurn ==
  ASSUME NEW S \in SUBSET Int
  PROVE  InTurn(S, Lower(S))
<1>1. \A s \in S : Lower(S)[s] = {t \in S : t < s}
  BY DEF Lower
<1>2. ASSUME NEW s \in S, NEW t \in S
      PROVE  t = s \/ t \in Lower(S)[s] \/ s \in Lower(S)[t]
  BY <1>1
<1>3. ASSUME NEW s \in S
      PROVE  /\ Lower(S)[s] \subseteq S /\ s \notin Lower(S)[s]
             /\ \A t \in Lower(S)[s] : Lower(S)[t] \subseteq Lower(S)[s]
  <2>1. Lower(S)[s] \subseteq S /\ s \notin Lower(S)[s]
    BY <1>1
  <2>2. ASSUME NEW t \in Lower(S)[s], NEW u \in Lower(S)[t]
        PROVE  u \in Lower(S)[s]
    <3>1. t \in S /\ t < s
      BY <1>1
    <3>2. u \in S /\ u < t
      BY <1>1, <3>1
    <3>3. u < s
      BY <3>1, <3>2
    <3> QED BY <1>1, <3>2, <3>3
  <2> QED BY <2>1, <2>2
<1> QED BY <1>2, <1>3 DEF InTurn

-----------------------------------------------------------------------------
(* The debt rules of CreditDebt.                                             *)

\* The headroom of the rows S.
IsHeadroom(h, S) == S \in SUBSET Nat /\ IsFiniteSet(S) /\ h \in [S -> Int]

\* Rows with headroom h are marked as they should be.
Marks(h, mark) ==
  /\ mark \in BOOLEAN
  /\ Negative(h) # {} => mark
  /\ mark => Signed(h) < 0

\* The signed sum is a sum over the shards.
LEMMA HeadroomSum ==
  ASSUME NEW S, NEW h, IsHeadroom(h, S)
  PROVE  /\ DOMAIN h = S /\ Valued(h, S, Int)
         /\ Signed(h) = SumFunctionOnSet(h, S) /\ Signed(h) \in Int
         /\ S \in SUBSET Int
<1>1. DOMAIN h = S /\ Valued(h, S, Int)
  BY DEF IsHeadroom, Valued
<1>2. Signed(h) = SumFunctionOnSet(h, S)
  BY <1>1 DEF Signed, SumFunction, SumFunctionOnSet, FoldFunction
<1>3. S \in SUBSET Int
  BY DEF IsHeadroom
<1> QED BY <1>1, <1>2, <1>3, SumInt

\* The least member of a set of integers.
LEMMA MinIs ==
  ASSUME NEW S \in SUBSET Nat, S # {}
  PROVE  Min(S) \in S
<1>1. PICK i \in S : \A k \in S : i <= k
  BY LeastOf
<1> QED BY <1>1 DEF Min

\* The signed sum of rows that are not negative is not negative.
LEMMA SignedOfPositive ==
  ASSUME NEW S, NEW h, IsHeadroom(h, S), Negative(h) = {}
  PROVE  Signed(h) >= 0 /\ Valued(h, S, Nat)
<1>1. Valued(h, S, Nat)
  BY DEF Valued, IsHeadroom, Negative
<1> QED BY <1>1, SumNat, HeadroomSum

\* A signed sum that is not negative leaves no negative row alone.
LEMMA SomePositive ==
  ASSUME NEW S, NEW h, IsHeadroom(h, S), Signed(h) >= 0, Negative(h) # {}
  PROVE  Positive(h) # {}
<1> DEFINE z == [s \in S |-> 0]
<1>1. Valued(h, S, Int) /\ Valued(z, S, Int) /\ DOMAIN h = S
  BY HeadroomSum DEF Valued
<1>2. SUFFICES ASSUME Positive(h) = {} PROVE FALSE
  OBVIOUS
<1>3. \A s \in S : h[s] <= z[s]
  BY <1>1, <1>2 DEF Positive, Valued
<1>4. \A s \in S : z[s] = 0
  OBVIOUS
<1> HIDE DEF z
<1>5. SumFunctionOnSet(z, S) = Cardinality(S) * 0
  BY <1>1, <1>4, SumOfEqual
<1>6. SumFunctionOnSet(z, S) = 0
  <2>1. Cardinality(S) \in Nat
    BY FS_CardinalityType DEF IsHeadroom
  <2> QED BY <1>5, <2>1
<1>7. SumFunctionOnSet(z, S) <= SumFunctionOnSet(h, S)
  BY <1>6, HeadroomSum
<1>8. \A s \in S : h[s] = z[s]
  BY <1>1, <1>3, <1>7, SumReached
<1> QED BY <1>1, <1>4, <1>8 DEF Negative

NonZero(h) == {s \in DOMAIN h : h[s] # 0}

\* One turn of cover's loop moves headroom and makes or loses none.
LEMMA CoverStepKeeps ==
  ASSUME NEW S, NEW h, IsHeadroom(h, S), Signed(h) >= 0
  PROVE  /\ IsHeadroom(CoverStep(h), S) /\ Signed(CoverStep(h)) = Signed(h)
         /\ Negative(h) = {} => CoverStep(h) = h
         /\ Negative(h) # {} => /\ NonZero(CoverStep(h)) \subseteq NonZero(h)
                                /\ NonZero(CoverStep(h)) # NonZero(h)
<1>1. CASE Negative(h) = {}
  BY <1>1 DEF CoverStep
<1>2. CASE Negative(h) # {}
  <2> DEFINE a == Min(Negative(h))
             b == Min(Positive(h))
             m == Least(-h[a], h[b])
             g == [h EXCEPT ![a] = @ + m]
             k == [h EXCEPT ![a] = @ + m, ![b] = @ - m]
  <2>1. DOMAIN h = S /\ S \in SUBSET Nat
    BY HeadroomSum DEF IsHeadroom
  <2>2. a \in S /\ h[a] < 0 /\ b \in S /\ h[b] > 0
    <3>1. Negative(h) \in SUBSET Nat /\ Positive(h) \in SUBSET Nat
      BY <2>1 DEF Negative, Positive
    <3>2. a \in Negative(h) /\ b \in Positive(h)
      BY <1>2, <3>1, MinIs, SomePositive
    <3> QED BY <2>1, <3>2 DEF Negative, Positive
  <2>3. CoverStep(h) = k
    BY <1>2 DEF CoverStep
  <2>4. \A s \in S : h[s] \in Int
    BY DEF IsHeadroom
  <2> HIDE DEF a, b
  <2>5. m \in Int /\ m > 0 /\ (m = -h[a] \/ m = h[b]) /\ m <= -h[a] /\ m <= h[b]
    <3>1. PICK x \in Int : x = h[a]
      BY <2>2, <2>4
    <3>2. PICK y \in Int : y = h[b]
      BY <2>2, <2>4
    <3>3. m = Least(-x, y) /\ x < 0 /\ y > 0
      BY <2>2, <3>1, <3>2
    <3> HIDE DEF m
    <3>4. m \in Int /\ m > 0 /\ (m = -x \/ m = y) /\ m <= -x /\ m <= y
      BY <3>3 DEF Least
    <3> QED BY <3>1, <3>2, <3>4
  <2> HIDE DEF m
  <2>6. IsHeadroom(g, S) /\ g[a] = h[a] + m /\ \A s \in S \ {a} : g[s] = h[s]
    BY <2>1, <2>2, <2>4, <2>5 DEF IsHeadroom
  <2> HIDE DEF g
  <2>7. a # b
    BY <2>2, <2>4
  <2>8. g[b] = h[b] /\ g[a] \in Int /\ DOMAIN g = S
    BY <2>2, <2>6, <2>7 DEF IsHeadroom
  <2>9. IsHeadroom(k, S) /\ k[b] = h[b] - m /\ \A s \in S \ {b} : k[s] = g[s]
    BY <2>1, <2>2, <2>4, <2>5, <2>6, <2>7 DEF IsHeadroom
  <2> HIDE DEF k
  <2>10. Signed(g) = Signed(h) + g[a] - h[a]
    BY <2>2, <2>6, <2>8, HeadroomSum, SumChanged
  <2>11. Signed(k) = Signed(g) + k[b] - g[b]
    <3>1. k[b] \in Int
      BY <2>2, <2>4, <2>5, <2>9
    <3> QED BY <2>2, <2>6, <2>9, <3>1, HeadroomSum, SumChanged
  <2>12. Signed(k) = Signed(h)
    <3>1. Signed(h) \in Int /\ h[a] \in Int /\ h[b] \in Int
      BY <2>2, <2>4, HeadroomSum
    <3> QED BY <2>5, <2>6, <2>8, <2>9, <2>10, <2>11, <3>1
  <2>13. DOMAIN k = S /\ k[a] = h[a] + m
    BY <2>2, <2>6, <2>7, <2>9 DEF IsHeadroom
  <2>14. NonZero(k) \subseteq NonZero(h)
    <3>1. ASSUME NEW s \in S, h[s] = 0 PROVE k[s] = 0
      <4>1. s # a /\ s # b
        BY <2>2, <3>1
      <4> QED BY <2>6, <2>9, <3>1, <4>1
    <3> QED BY <2>1, <2>13, <3>1 DEF NonZero
  <2>15. NonZero(k) # NonZero(h)
    <3>1. a \in NonZero(h) /\ b \in NonZero(h)
      BY <2>1, <2>2 DEF NonZero
    <3>2. k[a] = 0 \/ k[b] = 0
      BY <2>2, <2>4, <2>5, <2>9, <2>13
    <3> QED BY <3>1, <3>2 DEF NonZero
  <2> QED BY <1>2, <2>3, <2>9, <2>12, <2>14, <2>15
<1> QED BY <1>1, <1>2

Turns(h, n, f) == f = [i \in 0 .. n |-> IF i = 0 THEN h ELSE CoverStep(f[i - 1])]

\* The turns of cover are those of a recursive function.
LEMMA TurnsExist ==
  ASSUME NEW h, NEW n \in Nat
  PROVE  \E f : Turns(h, n, f)
<1> DEFINE P == {i \in 0 .. n : \E f : Turns(h, i, f)}
<1>1. 0 \in P
  <2> DEFINE f == [i \in 0 .. 0 |-> h]
  <2>1. Turns(h, 0, f)
    BY DEF Turns
  <2> QED BY <2>1
<1>2. ASSUME NEW i \in 0 .. n - 1, i \in P
      PROVE  i + 1 \in P
  <2>1. PICK f : Turns(h, i, f)
    BY <1>2
  <2> DEFINE g == [j \in 0 .. i + 1 |-> IF j = i + 1 THEN CoverStep(f[i]) ELSE f[j]]
  <2>2. \A j \in 0 .. i : f[j] = IF j = 0 THEN h ELSE CoverStep(f[j - 1])
    BY <2>1 DEF Turns
  <2>3. ASSUME NEW j \in 0 .. i + 1
        PROVE  g[j] = IF j = 0 THEN h ELSE CoverStep(g[j - 1])
    <3>1. CASE j = i + 1
      <4>1. g[j - 1] = f[i] /\ j # 0
        BY <3>1
      <4>2. g[j] = CoverStep(f[i])
        BY <3>1
      <4> QED BY <4>1, <4>2
    <3>2. CASE j # i + 1
      <4>1. j \in 0 .. i /\ g[j] = f[j]
        BY <3>2
      <4>2. j # 0 => g[j - 1] = f[j - 1]
        BY <3>2
      <4> HIDE DEF g
      <4> QED BY <2>2, <4>1, <4>2
    <3> QED BY <3>1, <3>2
  <2>4. g = [j \in 0 .. i + 1 |-> g[j]]
    OBVIOUS
  <2> HIDE DEF g
  <2>5. Turns(h, i + 1, g)
    BY <2>3, <2>4 DEF Turns
  <2> QED BY <2>5
<1>3. n \in P
  <2> HIDE DEF P
  <2>1. P \in SUBSET (0 .. n)
    BY DEF P
  <2> QED BY <1>1, <1>2, <2>1, UpTo
<1> QED BY <1>3

\* Covering keeps the sum, and leaves no row negative.
LEMMA CoverIs ==
  ASSUME NEW S, NEW h, IsHeadroom(h, S), Signed(h) >= 0
  PROVE  IsHeadroom(Cover(h), S) /\ Signed(Cover(h)) = Signed(h) /\ Negative(Cover(h)) = {}
<1> DEFINE n == Cardinality(S)
<1>1. n \in Nat /\ DOMAIN h = S /\ IsFiniteSet(S)
  BY FS_CardinalityType, HeadroomSum DEF IsHeadroom
<1>2. PICK f : Cover(h) = f[n] /\ f = CHOOSE g : Turns(h, n, g)
  BY <1>1 DEF Cover, Turns
<1>3. Turns(h, n, f)
  BY <1>1, <1>2, TurnsExist
<1>4. f[0] = h /\ \A i \in 0 .. n - 1 : f[i + 1] = CoverStep(f[i])
  <2> HIDE DEF n
  <2>1. \A i \in 0 .. n : f[i] = IF i = 0 THEN h ELSE CoverStep(f[i - 1])
    BY <1>3 DEF Turns
  <2>2. ASSUME NEW i \in 0 .. n - 1
        PROVE  f[i + 1] = CoverStep(f[i])
    <3>1. i + 1 \in 0 .. n /\ i + 1 # 0 /\ (i + 1) - 1 = i
      BY <1>1
    <3> QED BY <2>1, <3>1
  <2> QED BY <1>1, <2>1, <2>2
<1> DEFINE Good(i) == /\ IsHeadroom(f[i], S) /\ Signed(f[i]) = Signed(h)
                      /\ Negative(f[i]) = {} \/ Cardinality(NonZero(f[i])) <= n - i
           P == {i \in 0 .. n : Good(i)}
<1>5. ASSUME NEW k, IsHeadroom(k, S)
      PROVE  NonZero(k) \subseteq S /\ IsFiniteSet(NonZero(k))
             /\ Cardinality(NonZero(k)) \in Nat /\ Cardinality(NonZero(k)) <= n
  <2>1. NonZero(k) \in SUBSET S
    BY <1>5, HeadroomSum DEF NonZero
  <2> QED BY <1>1, <2>1, FS_Subset, FS_CardinalityType
<1>6. 0 \in P
  <2>1. Good(0)
    BY <1>1, <1>4, <1>5
  <2> HIDE DEF Good
  <2> QED BY <1>1, <2>1
<1>7. ASSUME NEW i \in 0 .. n - 1, i \in P
      PROVE  i + 1 \in P
  <2> DEFINE x == f[i]
             y == f[i + 1]
  <2>1. IsHeadroom(x, S) /\ Signed(x) = Signed(h) /\ Signed(x) >= 0
        /\ (Negative(x) = {} \/ Cardinality(NonZero(x)) <= n - i)
    BY <1>7
  <2>2. y = CoverStep(x)
    BY <1>4
  <2> HIDE DEF x, y
  <2>3. /\ IsHeadroom(y, S) /\ Signed(y) = Signed(x)
        /\ Negative(x) = {} => y = x
        /\ Negative(x) # {} => NonZero(y) \subseteq NonZero(x) /\ NonZero(y) # NonZero(x)
    BY <2>1, <2>2, CoverStepKeeps
  <2>4. Negative(y) = {} \/ Cardinality(NonZero(y)) <= n - (i + 1)
    <3>1. CASE Negative(x) = {}
      BY <2>3, <3>1
    <3>2. CASE Negative(x) # {}
      <4>1. Cardinality(NonZero(y)) < Cardinality(NonZero(x))
        BY <1>5, <2>1, <2>3, <3>2, FS_Subset
      <4>2. Cardinality(NonZero(y)) \in Nat /\ Cardinality(NonZero(x)) \in Nat
        BY <1>5, <2>1, <2>3
      <4> HIDE DEF n
      <4> QED BY <1>1, <2>1, <3>2, <4>1, <4>2
    <3> QED BY <3>1, <3>2
  <2>5. Good(i + 1)
    BY <2>1, <2>3, <2>4 DEF y
  <2>6. i + 1 \in 0 .. n
    BY <1>1
  <2> HIDE DEF Good
  <2> QED BY <2>5, <2>6
<1>8. n \in P
  <2>1. P \in SUBSET (0 .. n)
    OBVIOUS
  <2> HIDE DEF P, n
  <2> QED BY <1>1, <1>6, <1>7, <2>1, UpTo
<1>9. Negative(f[n]) = {}
  <2>1. IsHeadroom(f[n], S) /\ (Negative(f[n]) = {} \/ Cardinality(NonZero(f[n])) <= n - n)
    BY <1>8
  <2>2. CASE Cardinality(NonZero(f[n])) <= n - n
    <3>1. Cardinality(NonZero(f[n])) = 0
      BY <1>1, <1>5, <2>1, <2>2
    <3>2. NonZero(f[n]) = {}
      BY <1>5, <2>1, <3>1, FS_EmptySet
    <3> QED BY <2>1, <3>2 DEF NonZero, Negative, IsHeadroom
  <2> QED BY <2>1, <2>2
<1>10. IsHeadroom(f[n], S) /\ Signed(f[n]) = Signed(h)
  BY <1>8
<1> QED BY <1>2, <1>9, <1>10

\* Squared rows have the same signed sum and the mark it calls for.
LEMMA SquareIs ==
  ASSUME NEW S, NEW h, IsHeadroom(h, S)
  PROVE  /\ IsHeadroom(Square(h).headroom, S) /\ Signed(Square(h).headroom) = Signed(h)
         /\ Marks(Square(h).headroom, Square(h).marked)
<1>1. CASE Signed(h) < 0
  BY <1>1 DEF Square, Marks
<1>2. CASE ~(Signed(h) < 0)
  <2>1. Signed(h) >= 0
    BY <1>2, HeadroomSum
  <2>2. Square(h).headroom = Cover(h) /\ Square(h).marked = FALSE
    BY <1>2 DEF Square
  <2> QED BY <2>1, <2>2, CoverIs DEF Marks
<1> QED BY <1>1, <1>2

\* Repaying adds the amount to the sum, or the debts when they are less; then
\* no row stays negative.
LEMMA RepayIs ==
  ASSUME NEW S, NEW h, IsHeadroom(h, S), NEW a \in Nat
  PROVE  LET k == Repay(h, a)
             d == SumFunction(Debts(h))
         IN  /\ IsHeadroom(k, S) /\ d \in Nat /\ Signed(k) = Signed(h) + Least(a, d)
             /\ d <= a => Negative(k) = {}
<1> DEFINE D == Debts(h)
           d == SumFunction(D)
           paid == TakeInTurn(D, Lower(S), a)
           k == Repay(h, a)
<1>1. DOMAIN h = S /\ Valued(h, S, Int) /\ S \in SUBSET Int
  BY HeadroomSum
<1>2. DOMAIN D = S /\ \A s \in S : D[s] = AtLeastZero(-h[s])
  BY <1>1 DEF Debts
<1>3. k = [s \in S |-> h[s] + paid[s]]
  BY <1>1 DEF Repay
<1> HIDE DEF D
<1>4. Valued(D, S, Nat)
  BY <1>1, <1>2 DEF Valued, AtLeastZero
<1>5. InTurn(S, Lower(S))
  BY <1>1, LowerInTurn
<1>6. Valued(paid, S, Nat) /\ SumFunctionOnSet(paid, S) = Least(a, SumFunctionOnSet(D, S))
  BY <1>2, <1>4, <1>5, TakenInAll
<1>7. \A s \in S : paid[s] <= D[s]
  BY <1>2, <1>4, <1>5, Taken
<1>8. d = SumFunctionOnSet(D, S)
  BY <1>2 DEF SumFunction, SumFunctionOnSet, FoldFunction
<1>9. d \in Nat
  BY <1>4, <1>8, SumNat
<1> HIDE DEF paid, d, k
<1>10. IsHeadroom(k, S)
  BY <1>1, <1>3, <1>6 DEF IsHeadroom, Valued
<1>11. Signed(k) = Signed(h) + Least(a, d)
  <2>1. \A s \in S : k[s] = h[s] + paid[s]
    BY <1>3
  <2>2. SumFunctionOnSet(k, S) = SumFunctionOnSet(h, S) + SumFunctionOnSet(paid, S)
    <3>1. Valued(paid, S, Int) /\ Valued(h, S, Int) /\ \A x \in S : k[x] = h[x] + paid[x]
      BY <1>1, <1>6, <2>1, ValuedNat
    <3> HIDE DEF IsHeadroom
    <3> QED BY ONLY <3>1, SumPlus
  <2> QED BY <1>6, <1>8, <1>10, <2>2, HeadroomSum
<1>12. ASSUME d <= a PROVE Negative(k) = {}
  <2>1. SumFunctionOnSet(D, S) <= SumFunctionOnSet(paid, S)
    BY <1>6, <1>8, <1>9, <1>12 DEF Least
  <2>2. \A s \in S : paid[s] = D[s]
    BY <1>4, <1>6, <1>7, <2>1, ValuedNat, SumReached
  <2>3. \A s \in S : k[s] = h[s] + AtLeastZero(-h[s])
    BY <1>2, <1>3, <2>2
  <2>4. \A s \in S : ~(k[s] < 0)
    BY <1>1, <2>3 DEF Valued, AtLeastZero
  <2>5. DOMAIN k = S
    BY <1>3
  <2> QED BY <2>4, <2>5 DEF Negative
<1> QED BY <1>9, <1>10, <1>11, <1>12 DEF d, k, D

\* Money coming in is on the rows or left over, and what is left over is only
\* so where no debt is marked.
LEMMA InflowIs ==
  ASSUME NEW S, NEW h, IsHeadroom(h, S), NEW a \in Nat
  PROVE  LET in == TakeInflow(h, a)
         IN  /\ IsHeadroom(in.headroom, S) /\ Marks(in.headroom, in.marked)
             /\ in.left \in Nat /\ (in.marked => in.left = 0)
             /\ Signed(in.headroom) + in.left = Signed(h) + a
<1> DEFINE k == Repay(h, a)
           d == SumFunction(Debts(h))
           in == TakeInflow(h, a)
<1>1. /\ IsHeadroom(k, S) /\ d \in Nat /\ Signed(k) = Signed(h) + Least(a, d)
      /\ d <= a => Negative(k) = {}
  BY RepayIs
<1>2. in = IF Signed(k) < 0
           THEN [headroom |-> k, marked |-> TRUE, left |-> 0]
           ELSE [headroom |-> Cover(k), marked |-> FALSE, left |-> AtLeastZero(a - d)]
  BY DEF TakeInflow
<1> HIDE DEF k, d, in
<1>3. Signed(h) \in Int /\ Signed(k) \in Int
  BY <1>1, HeadroomSum
<1>4. CASE Signed(k) < 0
  <2>1. in.headroom = k /\ in.marked = TRUE /\ in.left = 0
    BY <1>2, <1>4
  <2>2. ~(d <= a)
    BY <1>1, <1>4, SignedOfPositive, <1>3
  <2>3. Least(a, d) = a
    BY <1>1, <2>2 DEF Least
  <2>4. Marks(in.headroom, in.marked)
    BY <1>4, <2>1 DEF Marks
  <2>5. Signed(in.headroom) + in.left = Signed(h) + a
    BY <1>1, <1>3, <2>1, <2>3
  <2> QED BY <1>1, <2>1, <2>4, <2>5 DEF in
<1>5. CASE ~(Signed(k) < 0)
  <2>1. in.headroom = Cover(k) /\ in.marked = FALSE /\ in.left = AtLeastZero(a - d)
    BY <1>2, <1>5
  <2>2. IsHeadroom(Cover(k), S) /\ Signed(Cover(k)) = Signed(k) /\ Negative(Cover(k)) = {}
    <3>1. Signed(k) >= 0
      BY <1>3, <1>5
    <3> QED BY <1>1, <3>1, CoverIs
  <2>3. in.left \in Nat /\ Least(a, d) + in.left = a
    BY <1>1, <2>1 DEF Least, AtLeastZero
  <2>4. Signed(in.headroom) + in.left = Signed(h) + a
    <3>1. Least(a, d) \in Nat
      BY <1>1 DEF Least
    <3> QED BY <1>1, <1>3, <2>1, <2>2, <2>3, <3>1
  <2> QED BY <2>1, <2>2, <2>3, <2>4 DEF Marks, in
<1> QED BY <1>4, <1>5

\* Division with a remainder.
LEMMA DivMod ==
  ASSUME NEW x \in Nat, NEW n \in Nat \ {0}
  PROVE  /\ x \div n \in Nat /\ x % n \in Nat
         /\ x = n * (x \div n) + (x % n)
BY Z3

\* An amount is spread without loss, and a positive one takes from no row.
LEMMA DistributeIs ==
  ASSUME NEW a \in Int, NEW n \in Nat \ {0}
  PROVE  /\ IsHeadroom(Distribute(a, n), 0 .. n - 1) /\ Signed(Distribute(a, n)) = a
         /\ a >= 0 => \A s \in 0 .. n - 1 : Distribute(a, n)[s] >= 0
<1> DEFINE S == 0 .. n - 1
           x == IF a < 0 THEN -a ELSE a
           g == IF a < 0 THEN -1 ELSE 1
           q == x \div n
           r == x % n
           d == Distribute(a, n)
           e == [s \in S |-> g * q]
<1>1. x \in Nat /\ g \in Int /\ g * x = a
  OBVIOUS
<1>2. q \in Nat /\ r \in Nat /\ x = n * q + r
  <2> HIDE DEF x
  <2> QED BY <1>1, DivMod
<1>3. d = [s \in S |-> g * (q + (IF s = 0 THEN r ELSE 0))]
  BY DEF Distribute
<1> HIDE DEF x, q, r, d
<1>4. g * q \in Int /\ g * (q + r) = g * q + g * r /\ g * r \in Int /\ g * (q + 0) = g * q
  BY <1>1, <1>2
<1>5. 0 \in S /\ S \in SUBSET Nat /\ IsFiniteSet(S) /\ Cardinality(S) = n
  BY FS_Interval
<1>6. d[0] = g * q + g * r /\ \A s \in S \ {0} : d[s] = g * q
  BY <1>3, <1>4, <1>5
<1>7. IsHeadroom(d, S)
  BY <1>3, <1>4, <1>5, <1>6 DEF IsHeadroom
<1>8. Valued(e, S, Int) /\ (\A s \in S : e[s] = g * q)
  BY <1>4, <1>5 DEF Valued
<1> HIDE DEF e, S, g
<1>9. SumFunctionOnSet(e, S) = n * (g * q)
  <2> DEFINE c == g * q
  <2>1. c \in Int /\ \A s \in S : e[s] = c
    BY <1>4, <1>8
  <2> HIDE DEF c
  <2>2. SumFunctionOnSet(e, S) = Cardinality(S) * c
    BY <1>8, <2>1, SumOfEqual
  <2> QED BY <1>5, <2>2 DEF c
<1>10. SumFunctionOnSet(d, S) = SumFunctionOnSet(e, S) + d[0] - e[0]
  <2>1. d[0] \in Int /\ \A s \in S \ {0} : d[s] = e[s]
    BY <1>4, <1>6, <1>8
  <2>2. Valued(e, S, Int) /\ 0 \in S
    BY <1>5, <1>8
  <2> QED BY <2>1, <2>2, SumChanged
<1>11. SumFunctionOnSet(d, S) = n * (g * q) + g * r
  <2> DEFINE c == g * q
             b == g * r
             t == n * c
  <2>1. c \in Int /\ b \in Int /\ t \in Int /\ e[0] = c /\ d[0] = c + b
    BY <1>4, <1>5, <1>6, <1>8
  <2>2. SumFunctionOnSet(e, S) = t
    BY <1>9
  <2> HIDE DEF c, b, t
  <2>3. SumFunctionOnSet(d, S) = t + b
    BY <1>10, <2>1, <2>2
  <2> QED BY <2>3 DEF c, b, t
<1>12. n * (g * q) + g * r = g * x
  <2>1. CASE g = 1
    BY <1>2, <2>1
  <2>2. CASE g = -1
    <3>1. n * (-1 * q) = -(n * q)
      BY <1>2
    <3>2. n * q \in Nat
      BY <1>2
    <3> QED BY <1>1, <1>2, <2>2, <3>1, <3>2
  <2> QED BY <2>1, <2>2 DEF g
<1>13. Signed(d) = a
  BY <1>1, <1>7, <1>11, <1>12, HeadroomSum
<1>14. ASSUME a >= 0, NEW s \in S PROVE d[s] >= 0
  <2>1. g = 1
    BY <1>14 DEF g
  <2>2. g * q = q /\ g * r = r
    BY <1>2, <2>1
  <2> QED BY <1>2, <1>6, <2>2
<1> QED BY <1>7, <1>13, <1>14 DEF S, d

\* What the positive rows give: the amount, or all they have.
LEMMA AscendingIs ==
  ASSUME NEW S, NEW h, IsHeadroom(h, S), NEW a \in Nat
  PROVE  LET t == TakeAscending(h, a)
         IN  /\ DOMAIN t = S /\ Valued(t, S, Nat)
             /\ \A s \in S : t[s] <= AtLeastZero(h[s])
             /\ SumFunctionOnSet(t, S) <= a
             /\ (a <= Signed(h) => SumFunctionOnSet(t, S) = a)
<1> DEFINE c == Spare(h)
           t == TakeAscending(h, a)
<1>1. DOMAIN h = S /\ Valued(h, S, Int) /\ S \in SUBSET Int
  BY HeadroomSum
<1>2. DOMAIN c = S /\ \A s \in S : c[s] = AtLeastZero(h[s])
  BY <1>1 DEF Spare
<1>3. t = TakeInTurn(c, Lower(S), a)
  BY <1>1 DEF TakeAscending
<1> HIDE DEF c
<1>4. Valued(c, S, Nat)
  BY <1>1, <1>2 DEF Valued, AtLeastZero
<1>5. InTurn(S, Lower(S))
  BY <1>1, LowerInTurn
<1>6. Valued(t, S, Nat) /\ DOMAIN t = S /\ SumFunctionOnSet(t, S) = Least(a, SumFunctionOnSet(c, S))
  BY <1>2, <1>3, <1>4, <1>5, TakenInAll
<1>7. \A s \in S : t[s] <= c[s]
  BY <1>2, <1>3, <1>4, <1>5, Taken
<1>8. \A s \in S : h[s] <= c[s]
  BY <1>1, <1>2 DEF Valued, AtLeastZero
<1>9. SumFunctionOnSet(h, S) <= SumFunctionOnSet(c, S) /\ SumFunctionOnSet(c, S) \in Nat
  BY <1>1, <1>4, <1>8, ValuedNat, SumAtMost, SumNat
<1> HIDE DEF t
<1>10. SumFunctionOnSet(t, S) <= a /\ (a <= Signed(h) => SumFunctionOnSet(t, S) = a)
  <2>1. Signed(h) = SumFunctionOnSet(h, S) /\ Signed(h) \in Int
    BY HeadroomSum
  <2> QED BY <1>6, <1>9, <2>1 DEF Least
<1> QED BY <1>2, <1>6, <1>7, <1>10 DEF t

Given(h, target, est) ==
  [s \in DOMAIN h |-> IF s = target THEN h[target] - est ELSE Donations(h, target, est)[s]]

\* The donors give what the target row lacks, and no row gives more than it has.
LEMMA DonationsAre ==
  ASSUME NEW S, NEW h, IsHeadroom(h, S), NEW target \in S, NEW est \in Nat,
         Signed(h) >= est, h[target] < est
  PROVE  LET g == Given(h, target, est)
         IN  /\ IsHeadroom(g, S) /\ Signed(g) = 0 /\ g[target] = h[target] - est
             /\ \A s \in S \ {target} : g[s] >= 0 /\ g[s] <= AtLeastZero(h[s])
<1> DEFINE earlier == [s \in S |-> {d \in S : h[d] > h[s] \/ (h[d] = h[s] /\ d > s)}]
           c == [Spare(h) EXCEPT ![target] = 0]
           a == est - h[target]
           t == Donations(h, target, est)
           g == Given(h, target, est)
           k == [h EXCEPT ![target] = 0]
<1>1. DOMAIN h = S /\ Valued(h, S, Int) /\ S \in SUBSET Int /\ Signed(h) \in Int
      /\ Signed(h) = SumFunctionOnSet(h, S)
  BY HeadroomSum
<1>2. t = TakeInTurn(c, earlier, a)
  BY <1>1 DEF Donations
<1>3. PICK x \in Int : x = h[target]
  BY <1>1 DEF Valued
<1>4. a \in Nat /\ a = est - x
  BY <1>3
<1>5. DOMAIN c = S /\ c[target] = 0 /\ \A s \in S \ {target} : c[s] = AtLeastZero(h[s])
  BY <1>1 DEF Spare
<1>6. InTurn(S, earlier)
  <2>1. \A s \in S : h[s] \in Int /\ s \in Int
    BY <1>1 DEF Valued
  <2>2. \A s, d \in S : d \in earlier[s] <=> h[d] > h[s] \/ (h[d] = h[s] /\ d > s)
    OBVIOUS
  <2>3. \A s \in S : earlier[s] \subseteq S
    OBVIOUS
  <2> HIDE DEF earlier
  <2>4. \A s \in S : s \notin earlier[s]
    BY <2>1, <2>2
  <2>5. \A s, d \in S : d = s \/ d \in earlier[s] \/ s \in earlier[d]
    BY <2>1, <2>2
  <2>6. ASSUME NEW s \in S, NEW d \in earlier[s], NEW e \in earlier[d]
        PROVE  e \in earlier[s]
    <3>1. d \in S /\ e \in S
      BY <2>3
    <3> QED BY <2>1, <2>2, <3>1
  <2> QED BY <2>3, <2>4, <2>5, <2>6 DEF InTurn
<1> HIDE DEF earlier, c, a, t
<1>7. Valued(c, S, Nat)
  BY <1>1, <1>5 DEF Valued, AtLeastZero
<1>8. Valued(t, S, Nat) /\ DOMAIN t = S /\ SumFunctionOnSet(t, S) = Least(a, SumFunctionOnSet(c, S))
  BY <1>2, <1>4, <1>5, <1>6, <1>7, TakenInAll
<1>9. \A s \in S : t[s] <= c[s] /\ t[s] \in Nat
  BY <1>2, <1>4, <1>5, <1>6, <1>7, Taken
<1>10. Valued(k, S, Int) /\ k[target] = 0 /\ \A s \in S \ {target} : k[s] = h[s]
  BY <1>1 DEF Valued
<1> HIDE DEF k
<1>11. SumFunctionOnSet(k, S) = SumFunctionOnSet(h, S) + k[target] - h[target]
  <2>1. /\ Valued(h, S, Int) /\ k[target] \in Int
        /\ \A s \in S \ {target} : k[s] = h[s]
    BY <1>1, <1>10
  <2> QED BY <2>1, SumChanged
<1>12. SumFunctionOnSet(k, S) <= SumFunctionOnSet(c, S)
  <2>1. \A s \in S : k[s] <= c[s]
    BY <1>1, <1>5, <1>10 DEF Valued, AtLeastZero
  <2> QED BY <1>7, <1>10, <2>1, ValuedNat, SumAtMost
<1>13. SumFunctionOnSet(t, S) = a
  <2>1. SumFunctionOnSet(c, S) \in Nat
    BY <1>7, SumNat
  <2>2. a <= SumFunctionOnSet(c, S)
    BY <1>1, <1>3, <1>4, <1>10, <1>11, <1>12, <2>1
  <2> QED BY <1>4, <1>8, <2>1, <2>2 DEF Least
<1>14. t[target] = 0
  BY <1>5, <1>9
<1>15. DOMAIN g = S /\ g[target] = x - est /\ \A s \in S \ {target} : g[s] = t[s]
  BY <1>1, <1>3 DEF Given, t
<1>16. IsHeadroom(g, S)
  <2>1. g = [s \in S |-> g[s]]
    BY <1>1 DEF Given
  <2>2. \A s \in S : g[s] \in Int
    BY <1>3, <1>9, <1>15
  <2> QED BY <2>1, <2>2 DEF IsHeadroom
<1> HIDE DEF g
<1>17. SumFunctionOnSet(g, S) = SumFunctionOnSet(t, S) + g[target] - t[target]
  <2>1. g[target] \in Int /\ Valued(t, S, Int)
    BY <1>3, <1>8, <1>15, ValuedNat
  <2> QED BY <1>15, <2>1, SumChanged
<1>18. Signed(g) = 0
  <2>1. Signed(g) = SumFunctionOnSet(g, S)
    BY <1>16, HeadroomSum
  <2> QED BY <1>3, <1>4, <1>13, <1>14, <1>15, <1>17, <2>1
<1>19. \A s \in S \ {target} : g[s] >= 0 /\ g[s] <= AtLeastZero(h[s])
  BY <1>5, <1>9, <1>15
<1> QED BY <1>3, <1>15, <1>16, <1>18, <1>19 DEF g

-----------------------------------------------------------------------------
(* The workspace's rows.                                                     *)

Row == [credits : Int, usage : Nat, reserved : Nat]
ClaimRow == [credited : BOOLEAN, target : Nat, recovered : Nat, unrecovered : Nat]
Fact == [status : Statuses \cup {"none"}, watermark : 0 .. MaxStory]
Workspace(n) == [rows : [0 .. n - 1 -> Row], marked : BOOLEAN, claims : [Payments -> ClaimRow],
                 facts : [Refs -> Fact], causes : SUBSET Causes]

\* w is a workspace with n rows.
IsWorkspace(w, n) == n \in Nat \ {0} /\ w \in Workspace(n)

\* The counters of the rows, as functions of the shard.
Counter(w, f) == [s \in DOMAIN w.rows |-> w.rows[s][f]]

\* The shards of n rows.
LEMMA Shards ==
  ASSUME NEW n \in Nat \ {0}
  PROVE  0 .. n - 1 \in SUBSET Nat /\ IsFiniteSet(0 .. n - 1) /\ Cardinality(0 .. n - 1) = n
         /\ 0 \in 0 .. n - 1
BY FS_Interval

\* The rows of a workspace.
LEMMA WorkspaceRows ==
  ASSUME NEW w, NEW n, IsWorkspace(w, n)
  PROVE  /\ DOMAIN w.rows = 0 .. n - 1 /\ ShardCount(w) = n
         /\ \A s \in 0 .. n - 1 : w.rows[s] \in Row
         /\ \A f \in {"credits", "usage", "reserved"} : IsHeadroom(Counter(w, f), 0 .. n - 1)
         /\ \A s \in 0 .. n - 1 :
               /\ Counter(w, "credits")[s] = w.rows[s].credits
               /\ Counter(w, "usage")[s] = w.rows[s].usage
               /\ Counter(w, "reserved")[s] = w.rows[s].reserved
<1>1. n \in Nat \ {0} /\ w.rows \in [0 .. n - 1 -> Row]
  BY DEF IsWorkspace, Workspace
<1>2. DOMAIN w.rows = 0 .. n - 1 /\ \A s \in 0 .. n - 1 : w.rows[s] \in Row
  BY <1>1
<1>3. ShardCount(w) = n
  BY <1>1, <1>2, Shards DEF ShardCount
<1>4. \A s \in 0 .. n - 1 :
               /\ Counter(w, "credits")[s] = w.rows[s].credits
               /\ Counter(w, "usage")[s] = w.rows[s].usage
               /\ Counter(w, "reserved")[s] = w.rows[s].reserved
  BY <1>2 DEF Counter
<1>5. \A s \in 0 .. n - 1 : w.rows[s].credits \in Int /\ w.rows[s].usage \in Int
                            /\ w.rows[s].reserved \in Int
  BY <1>2 DEF Row
<1>6. ASSUME NEW f \in {"credits", "usage", "reserved"}
      PROVE  IsHeadroom(Counter(w, f), 0 .. n - 1)
  <2>1. Counter(w, f) = [s \in 0 .. n - 1 |-> w.rows[s][f]]
    BY <1>2 DEF Counter
  <2>2. \A s \in 0 .. n - 1 : Counter(w, f)[s] \in Int
    BY <1>4, <1>5
  <2> QED BY <1>1, <2>1, <2>2, Shards DEF IsHeadroom
<1> QED BY <1>2, <1>3, <1>4, <1>6

\* The headroom of a row.
LEMMA HeadroomIs ==
  ASSUME NEW w, NEW n, IsWorkspace(w, n)
  PROVE  /\ IsHeadroom(Headroom(w), 0 .. n - 1)
         /\ \A s \in 0 .. n - 1 :
               Headroom(w)[s] = w.rows[s].credits - w.rows[s].usage - w.rows[s].reserved
<1>1. n \in Nat \ {0} /\ DOMAIN w.rows = 0 .. n - 1 /\ \A s \in 0 .. n - 1 : w.rows[s] \in Row
  BY WorkspaceRows DEF IsWorkspace
<1> DEFINE h == Headroom(w)
<1>2. h = [s \in 0 .. n - 1 |-> w.rows[s].credits - w.rows[s].usage - w.rows[s].reserved]
  BY <1>1 DEF Headroom
<1> HIDE DEF h
<1>3. \A s \in 0 .. n - 1 : h[s] \in Int
  BY <1>1, <1>2 DEF Row
<1>4. h \in [0 .. n - 1 -> Int]
  BY <1>2, <1>3
<1> QED BY <1>1, <1>2, <1>4, Shards DEF IsHeadroom, h

\* A counter's total is the sum over its rows.
LEMMA TotalIs ==
  ASSUME NEW w, NEW n, IsWorkspace(w, n), NEW f \in {"credits", "usage", "reserved"}
  PROVE  /\ Total(w, f) = Signed(Counter(w, f)) /\ Total(w, f) \in Int
         /\ Total(w, f) = SumFunctionOnSet(Counter(w, f), 0 .. n - 1)
<1>1. IsHeadroom(Counter(w, f), 0 .. n - 1)
  BY WorkspaceRows
<1>2. Total(w, f) = Signed(Counter(w, f))
  BY DEF Total, Signed, Counter
<1> QED BY <1>1, <1>2, HeadroomSum

\* A step from w to v that leaves the claims, or what the rows hold, alone.
SameClaims(w, v) == v.claims = w.claims /\ v.facts = w.facts /\ v.causes = w.causes
SameHeld(w, v) ==
  DOMAIN v.rows = DOMAIN w.rows /\ \A s \in DOMAIN w.rows : v.rows[s].reserved = w.rows[s].reserved

\* h is a function on S, the sum or the difference of two others there.
IsSum(h, f, g, S) == h = [s \in S |-> h[s]] /\ \A s \in S : h[s] = f[s] + g[s]
IsDifference(h, f, g, S) == h = [s \in S |-> h[s]] /\ \A s \in S : h[s] = f[s] - g[s]

\* The signed sum of a difference.
LEMMA Minus ==
  ASSUME NEW S, NEW f, IsHeadroom(f, S), NEW g, IsHeadroom(g, S),
         NEW h, IsDifference(h, f, g, S)
  PROVE  IsHeadroom(h, S) /\ Signed(h) = Signed(f) - Signed(g)
<1>1. IsHeadroom(h, S)
  BY DEF IsHeadroom, IsDifference
<1>2. \A s \in S : f[s] = g[s] + h[s]
  BY DEF IsHeadroom, IsDifference
<1>3. Valued(g, S, Int) /\ Valued(h, S, Int) /\ \A x \in S : f[x] = g[x] + h[x]
  BY <1>1, <1>2, HeadroomSum
<1>4. SumFunctionOnSet(f, S) = SumFunctionOnSet(g, S) + SumFunctionOnSet(h, S)
  BY ONLY <1>3, SumPlus
<1> QED BY <1>1, <1>4, HeadroomSum

\* The signed sum of a sum.
LEMMA Plus ==
  ASSUME NEW S, NEW f, IsHeadroom(f, S), NEW g, IsHeadroom(g, S),
         NEW h, IsSum(h, f, g, S)
  PROVE  IsHeadroom(h, S) /\ Signed(h) = Signed(f) + Signed(g)
<1>1. IsHeadroom(h, S)
  BY DEF IsHeadroom, IsSum
<1>3. Valued(f, S, Int) /\ Valued(g, S, Int) /\ \A x \in S : h[x] = f[x] + g[x]
  BY HeadroomSum DEF IsSum
<1>4. SumFunctionOnSet(h, S) = SumFunctionOnSet(f, S) + SumFunctionOnSet(g, S)
  BY ONLY <1>3, SumPlus
<1> QED BY <1>1, <1>4, HeadroomSum

\* Rows with the same headroom at each shard.
LEMMA HeadroomEqual ==
  ASSUME NEW S, NEW f, IsHeadroom(f, S), NEW g, IsHeadroom(g, S), \A s \in S : f[s] = g[s]
  PROVE  f = g
<1>1. f \in [S -> Int] /\ g \in [S -> Int]
  BY DEF IsHeadroom
<1>2. f = [s \in S |-> f[s]] /\ g = [s \in S |-> g[s]]
  BY <1>1
<1>3. [s \in S |-> f[s]] = [s \in S |-> g[s]]
  OBVIOUS
<1> QED BY <1>2, <1>3

\* Writing only credit keeps all else.
LEMMA WithCreditsIs ==
  ASSUME NEW w, NEW n, IsWorkspace(w, n), NEW c, IsHeadroom(c, 0 .. n - 1)
  PROVE  LET v == WithCredits(w, c)
         IN  /\ IsWorkspace(v, n) /\ v.marked = w.marked /\ SameClaims(w, v) /\ SameHeld(w, v)
             /\ \A s \in 0 .. n - 1 : Headroom(v)[s] = Headroom(w)[s] + c[s] - w.rows[s].credits
             /\ Total(v, "credits") = Signed(c)
<1> DEFINE v == WithCredits(w, c)
           S == 0 .. n - 1
<1>1. DOMAIN w.rows = S /\ (\A s \in S : w.rows[s] \in Row) /\ w \in Workspace(n)
      /\ n \in Nat \ {0} /\ \A s \in S : c[s] \in Int
  BY WorkspaceRows DEF IsWorkspace, IsHeadroom
<1>2. v = [w EXCEPT !.rows = [s \in S |-> [w.rows[s] EXCEPT !.credits = c[s]]]]
  BY <1>1 DEF WithCredits
<1>3. v.rows = [s \in S |-> [w.rows[s] EXCEPT !.credits = c[s]]]
      /\ v.marked = w.marked /\ SameClaims(w, v)
  BY <1>1, <1>2 DEF Workspace, SameClaims
<1> HIDE DEF v
<1>4. ASSUME NEW s \in S
      PROVE  /\ v.rows[s] \in Row /\ v.rows[s].credits = c[s]
             /\ v.rows[s].usage = w.rows[s].usage /\ v.rows[s].reserved = w.rows[s].reserved
  BY <1>1, <1>3 DEF Row
<1>5. v.rows \in [S -> Row]
  BY <1>3, <1>4
<1>6. IsWorkspace(v, n)
  BY <1>1, <1>2, <1>3, <1>5 DEF IsWorkspace, Workspace
<1>7. SameHeld(w, v)
  BY <1>1, <1>4, <1>5 DEF SameHeld
<1>8. \A s \in S : Headroom(v)[s] = Headroom(w)[s] + c[s] - w.rows[s].credits
  <2>1. \A s \in S : Headroom(v)[s] = v.rows[s].credits - v.rows[s].usage - v.rows[s].reserved
    BY <1>6, HeadroomIs
  <2>2. \A s \in S : Headroom(w)[s] = w.rows[s].credits - w.rows[s].usage - w.rows[s].reserved
    BY HeadroomIs
  <2>3. \A s \in S : w.rows[s].credits \in Int /\ w.rows[s].usage \in Int /\ w.rows[s].reserved \in Int
    BY <1>1 DEF Row
  <2>4. ASSUME NEW s \in S
        PROVE  Headroom(v)[s] = Headroom(w)[s] + c[s] - w.rows[s].credits
    <3>1. PICK x \in Int, y \in Int, z \in Int :
             x = w.rows[s].credits /\ y = w.rows[s].usage /\ z = w.rows[s].reserved
      BY <2>3
    <3>2. Headroom(w)[s] = x - y - z /\ Headroom(v)[s] = c[s] - y - z /\ c[s] \in Int
      BY <1>1, <1>4, <2>1, <2>2, <3>1
    <3>3. c[s] - y - z = (x - y - z) + c[s] - x
      BY <3>2
    <3> QED BY <3>1, <3>2, <3>3
  <2> QED BY <2>4
<1>9. Total(v, "credits") = Signed(c)
  <2>1. IsHeadroom(Counter(v, "credits"), S) /\ \A s \in S : Counter(v, "credits")[s] = c[s]
    BY <1>4, <1>6, WorkspaceRows
  <2>2. Counter(v, "credits") = c
    <3> DEFINE k == Counter(v, "credits")
    <3>1. IsHeadroom(k, S) /\ IsHeadroom(c, S) /\ \A s \in S : k[s] = c[s]
      BY <2>1
    <3> HIDE DEF k, S
    <3>2. k = c
      BY <3>1, HeadroomEqual
    <3> QED BY <3>2 DEF k
  <2> QED BY <1>6, <2>2, TotalIs
<1> QED BY <1>3, <1>6, <1>7, <1>8, <1>9 DEF v

\* d is added to the rows' credit.
LEMMA CreditAdded ==
  ASSUME NEW w, NEW n, IsWorkspace(w, n), NEW d, IsHeadroom(d, 0 .. n - 1),
         NEW c, IsHeadroom(c, 0 .. n - 1), \A s \in 0 .. n - 1 : c[s] = w.rows[s].credits + d[s]
  PROVE  LET v == WithCredits(w, c)
         IN  /\ IsWorkspace(v, n) /\ v.marked = w.marked /\ SameClaims(w, v) /\ SameHeld(w, v)
             /\ \A s \in 0 .. n - 1 : Headroom(v)[s] = Headroom(w)[s] + d[s]
             /\ Total(v, "credits") = Total(w, "credits") + Signed(d)
             /\ Signed(Headroom(v)) = Signed(Headroom(w)) + Signed(d)
<1> DEFINE v == WithCredits(w, c)
           S == 0 .. n - 1
           k == Counter(w, "credits")
<1>1. /\ IsWorkspace(v, n) /\ v.marked = w.marked /\ SameClaims(w, v) /\ SameHeld(w, v)
      /\ \A s \in S : Headroom(v)[s] = Headroom(w)[s] + c[s] - w.rows[s].credits
      /\ Total(v, "credits") = Signed(c)
  BY WithCreditsIs
<1> HIDE DEF v
<1>2. IsHeadroom(k, S) /\ (\A s \in S : k[s] = w.rows[s].credits) /\ Total(w, "credits") = Signed(k)
  BY WorkspaceRows, TotalIs
<1> HIDE DEF k
<1>3. IsHeadroom(Headroom(w), S) /\ IsHeadroom(Headroom(v), S)
  BY <1>1, HeadroomIs
<1>4. \A s \in S : Headroom(v)[s] = Headroom(w)[s] + d[s]
  <2>1. \A s \in S : Headroom(w)[s] \in Int /\ d[s] \in Int /\ k[s] \in Int
    BY <1>2, <1>3 DEF IsHeadroom
  <2>2. \A s \in S : Headroom(v)[s] = Headroom(w)[s] + (k[s] + d[s]) - k[s]
    BY <1>1, <1>2
  <2> QED BY <2>1, <2>2
<1>5. Signed(c) = Signed(k) + Signed(d)
  <2>1. IsSum(c, k, d, S)
    BY <1>2 DEF IsHeadroom, IsSum
  <2>2. IsHeadroom(d, S)
    OBVIOUS
  <2> HIDE DEF S
  <2> QED BY <1>2, <2>1, <2>2, Plus
<1>6. Signed(Headroom(v)) = Signed(Headroom(w)) + Signed(d)
  <2> DEFINE x == Headroom(v)
             y == Headroom(w)
  <2>1. IsHeadroom(x, S) /\ IsHeadroom(y, S) /\ IsHeadroom(d, S)
    BY <1>3
  <2>2. IsSum(x, y, d, S)
    BY <1>4, <2>1 DEF IsHeadroom, IsSum
  <2> HIDE DEF x, y, S
  <2>3. Signed(x) = Signed(y) + Signed(d)
    BY <2>1, <2>2, Plus
  <2> QED BY <2>3 DEF x, y
<1> QED BY <1>1, <1>2, <1>4, <1>5, <1>6 DEF v

\* write_credit_rows gives each row the headroom asked for.
LEMMA WriteRowsIs ==
  ASSUME NEW w, NEW n, IsWorkspace(w, n), NEW h, IsHeadroom(h, 0 .. n - 1), NEW mark \in BOOLEAN
  PROVE  LET v == WriteRows(w, h, mark)
         IN  /\ IsWorkspace(v, n) /\ v.marked = mark /\ SameClaims(w, v) /\ SameHeld(w, v)
             /\ Headroom(v) = h
             /\ Total(v, "credits") = Total(w, "credits") + Signed(h) - Signed(Headroom(w))
<1> DEFINE S == 0 .. n - 1
           H == Headroom(w)
           c == [s \in S |-> w.rows[s].credits + h[s] - H[s]]
           d == [s \in S |-> h[s] - H[s]]
           u == WithCredits(w, c)
           v == WriteRows(w, h, mark)
<1>1. DOMAIN w.rows = S /\ \A s \in S : w.rows[s].credits \in Int
  BY WorkspaceRows DEF Row
<1>2. v = [u EXCEPT !.marked = mark]
  BY <1>1 DEF WriteRows
<1>3. IsHeadroom(H, S)
  BY HeadroomIs
<1> HIDE DEF H
<1>4. (\A s \in S : h[s] \in Int /\ H[s] \in Int) /\ S \in SUBSET Nat /\ IsFiniteSet(S)
  BY <1>3 DEF IsHeadroom
<1>5. IsHeadroom(c, S)
  BY <1>1, <1>4 DEF IsHeadroom
<1>6. IsHeadroom(d, S) /\ Signed(d) = Signed(h) - Signed(H)
  <2>1. IsDifference(d, h, H, S) /\ IsHeadroom(h, S)
    BY DEF IsDifference
  <2> HIDE DEF d, S
  <2> QED BY <1>3, <2>1, Minus
<1>7. \A s \in S : c[s] = w.rows[s].credits + d[s]
  BY <1>1, <1>4
<1>8. \A s \in S : H[s] + d[s] = h[s]
  BY <1>4
<1> HIDE DEF c, d, v, u
<1>9. /\ IsWorkspace(u, n) /\ u.marked = w.marked /\ SameClaims(w, u) /\ SameHeld(w, u)
      /\ \A s \in S : Headroom(u)[s] = H[s] + d[s]
      /\ Total(u, "credits") = Total(w, "credits") + Signed(d)
  BY SMTT(60), <1>5, <1>6, <1>7, CreditAdded DEF u, H
<1>10. Headroom(u) = h
  <2> DEFINE k == Headroom(u)
  <2>1. IsHeadroom(k, S) /\ IsHeadroom(h, S) /\ \A s \in S : k[s] = h[s]
    BY <1>8, <1>9, HeadroomIs
  <2> HIDE DEF k, S
  <2>2. k = h
    BY <2>1, HeadroomEqual
  <2> QED BY <2>2 DEF k
<1>11. /\ v.rows = u.rows /\ v.marked = mark /\ v.claims = u.claims /\ v.facts = u.facts
       /\ v.causes = u.causes /\ IsWorkspace(v, n)
  BY <1>2, <1>9 DEF IsWorkspace, Workspace
<1>12. Headroom(v) = Headroom(u) /\ Total(v, "credits") = Total(u, "credits")
  BY <1>11 DEF Headroom, Total
<1>13. SameClaims(w, v) /\ SameHeld(w, v)
  BY <1>9, <1>11 DEF SameClaims, SameHeld
<1>14. Total(v, "credits") = Total(w, "credits") + Signed(h) - Signed(H)
  <2>1. Total(w, "credits") \in Int /\ Signed(h) \in Int /\ Signed(H) \in Int
    BY <1>3, TotalIs, HeadroomSum
  <2> QED BY <1>6, <1>9, <1>12, <2>1
<1> QED BY <1>10, <1>11, <1>12, <1>13, <1>14 DEF v, H

\* Amounts taken off the rows' credit are missing from their total.
LEMMA TakeOffIs ==
  ASSUME NEW w, NEW n, IsWorkspace(w, n), NEW t, IsHeadroom(t, 0 .. n - 1)
  PROVE  LET v == TakeOff(w, t)
         IN  /\ IsWorkspace(v, n) /\ v.marked = w.marked /\ SameClaims(w, v) /\ SameHeld(w, v)
             /\ \A s \in 0 .. n - 1 : Headroom(v)[s] = Headroom(w)[s] - t[s]
             /\ Total(v, "credits") = Total(w, "credits") - Signed(t)
             /\ Signed(Headroom(v)) = Signed(Headroom(w)) - Signed(t)
<1> DEFINE S == 0 .. n - 1
           c == [s \in S |-> w.rows[s].credits - t[s]]
           z == [s \in S |-> 0]
           d == [s \in S |-> 0 - t[s]]
           v == TakeOff(w, t)
<1>1. DOMAIN w.rows = S /\ \A s \in S : w.rows[s].credits \in Int
  BY WorkspaceRows DEF Row
<1>2. v = WithCredits(w, c)
  BY <1>1 DEF TakeOff
<1>3. (\A s \in S : t[s] \in Int) /\ S \in SUBSET Nat /\ IsFiniteSet(S)
  BY DEF IsHeadroom
<1>4. IsHeadroom(c, S) /\ \A s \in S : c[s] = w.rows[s].credits + d[s]
  BY <1>1, <1>3 DEF IsHeadroom
<1>5. IsHeadroom(z, S) /\ Signed(z) = 0
  <2>1. IsHeadroom(z, S) /\ \A s \in S : z[s] = 0
    BY <1>3 DEF IsHeadroom
  <2>2. Valued(z, S, Int) /\ Cardinality(S) \in Nat /\ Signed(z) = SumFunctionOnSet(z, S)
    BY <1>3, <2>1, HeadroomSum, FS_CardinalityType
  <2> HIDE DEF z, S
  <2>3. SumFunctionOnSet(z, S) = Cardinality(S) * 0
    BY <2>1, <2>2, SumOfEqual
  <2> QED BY <2>1, <2>2, <2>3
<1>6. IsHeadroom(d, S) /\ Signed(d) = Signed(z) - Signed(t)
  <2>1. IsDifference(d, z, t, S)
    BY DEF IsDifference
  <2>2. IsHeadroom(t, S)
    OBVIOUS
  <2> HIDE DEF d, S, z
  <2> QED BY <1>5, <2>1, <2>2, Minus
<1>7. \A s \in S : d[s] = 0 - t[s]
  OBVIOUS
<1> HIDE DEF c, d, v, z
<1>8. /\ IsWorkspace(v, n) /\ v.marked = w.marked /\ SameClaims(w, v) /\ SameHeld(w, v)
      /\ \A s \in S : Headroom(v)[s] = Headroom(w)[s] + d[s]
      /\ Total(v, "credits") = Total(w, "credits") + Signed(d)
      /\ Signed(Headroom(v)) = Signed(Headroom(w)) + Signed(d)
  BY <1>2, <1>4, <1>6, CreditAdded
<1>9. \A s \in S : Headroom(v)[s] = Headroom(w)[s] - t[s]
  <2>1. \A s \in S : Headroom(w)[s] \in Int
    BY HeadroomIs DEF IsHeadroom
  <2> QED BY <1>3, <1>7, <1>8, <2>1
<1>10. /\ Total(v, "credits") = Total(w, "credits") - Signed(t)
       /\ Signed(Headroom(v)) = Signed(Headroom(w)) - Signed(t)
  <2>1. Total(w, "credits") \in Int /\ Signed(t) \in Int
    BY TotalIs, HeadroomSum
  <2>2. Signed(Headroom(w)) \in Int
    BY HeadroomIs, HeadroomSum
  <2> QED BY <1>5, <1>6, <1>8, <2>1, <2>2
<1> QED BY <1>8, <1>9, <1>10 DEF v

\* A single row is written.
WritesRow(w, v, s, r) == v = [w EXCEPT !.rows[s] = r]

\* One row is written.
LEMMA RowWritten ==
  ASSUME NEW w, NEW n, IsWorkspace(w, n), NEW s \in 0 .. n - 1, NEW r \in Row,
         NEW v, WritesRow(w, v, s, r)
  PROVE  /\ IsWorkspace(v, n) /\ v.marked = w.marked /\ SameClaims(w, v)
         /\ v.rows = [w.rows EXCEPT ![s] = r]
         /\ Headroom(v) = [Headroom(w) EXCEPT ![s] = r.credits - r.usage - r.reserved]
         /\ Total(v, "credits") = Total(w, "credits") + r.credits - w.rows[s].credits
<1> DEFINE S == 0 .. n - 1
<1>1. DOMAIN w.rows = S /\ (\A x \in S : w.rows[x] \in Row) /\ w \in Workspace(n)
      /\ n \in Nat \ {0} /\ w.rows \in [S -> Row]
  BY WorkspaceRows DEF IsWorkspace, Workspace
<1>2. v.rows = [w.rows EXCEPT ![s] = r] /\ v.marked = w.marked /\ SameClaims(w, v)
  BY <1>1 DEF Workspace, SameClaims, WritesRow
<1>3. v.rows \in [S -> Row]
  BY <1>1, <1>2
<1>4. IsWorkspace(v, n)
  BY <1>1, <1>2, <1>3 DEF IsWorkspace, Workspace, WritesRow
<1>5. v.rows[s] = r /\ \A x \in S \ {s} : v.rows[x] = w.rows[x]
  BY <1>1, <1>2
<1> DEFINE x == r.credits - r.usage - r.reserved
           h == Headroom(v)
           g == Headroom(w)
<1>6. IsHeadroom(h, S) /\ IsHeadroom(g, S) /\ h[s] = x /\ \A y \in S \ {s} : h[y] = g[y]
  <2>1. \A y \in S : h[y] = v.rows[y].credits - v.rows[y].usage - v.rows[y].reserved
    BY <1>4, HeadroomIs
  <2>2. \A y \in S : g[y] = w.rows[y].credits - w.rows[y].usage - w.rows[y].reserved
    BY HeadroomIs
  <2>3. IsHeadroom(h, S) /\ IsHeadroom(g, S)
    BY <1>4, HeadroomIs
  <2> HIDE DEF h, g
  <2> QED BY <1>5, <2>1, <2>2, <2>3
<1>7. h = [g EXCEPT ![s] = x]
  <2> HIDE DEF h, g, x
  <2> QED BY <1>6 DEF IsHeadroom
<1> DEFINE k == Counter(v, "credits")
           j == Counter(w, "credits")
<1>8. /\ IsHeadroom(k, S) /\ IsHeadroom(j, S) /\ Total(v, "credits") = Signed(k)
      /\ Total(w, "credits") = Signed(j)
      /\ \A y \in S : k[y] = v.rows[y].credits /\ j[y] = w.rows[y].credits
  BY <1>4, WorkspaceRows, TotalIs
<1> HIDE DEF k, j
<1>9. k[s] = r.credits /\ k[s] \in Int /\ j[s] = w.rows[s].credits
      /\ (\A y \in S \ {s} : k[y] = j[y]) /\ Valued(j, S, Int)
  <2>1. r.credits \in Int
    BY DEF Row
  <2> QED BY <1>5, <1>8, <2>1, HeadroomSum
<1>10. SumFunctionOnSet(k, S) = SumFunctionOnSet(j, S) + k[s] - j[s]
  BY <1>9, SumChanged
<1>11. Total(v, "credits") = Total(w, "credits") + r.credits - w.rows[s].credits
  BY <1>8, <1>9, <1>10, HeadroomSum
<1> QED BY <1>2, <1>4, <1>7, <1>11

-----------------------------------------------------------------------------
(* Claims and money coming in.                                               *)

Recovered(w) == SumFunction([p \in Payments |-> w.claims[p].recovered])

SplitClaims(w) ==
  \A p \in Payments : w.claims[p].target = w.claims[p].recovered + w.claims[p].unrecovered

\* The rows' credit and what claims recovered are the money m.
Booked(w, n, m) ==
  /\ IsWorkspace(w, n) /\ SplitClaims(w)
  /\ Total(w, "credits") + Recovered(w) = m

Sound(w, n, m) == Booked(w, n, m) /\ Marks(Headroom(w), w.marked)

\* A step that sets no target and learns of no notice.
SameTargets(w, v) ==
  /\ v.facts = w.facts
  /\ \A p \in Payments : /\ v.claims[p].target = w.claims[p].target
                         /\ v.claims[p].credited = w.claims[p].credited

\* The payments are numbered.
LEMMA PaymentsAre ==
  Payments \in SUBSET Int /\ IsFiniteSet(Payments) /\ Payments \in SUBSET Nat
BY FS_CardinalityType, PaymentsAssumption

\* The parts of a claim.
LEMMA ClaimsAre ==
  ASSUME NEW w, NEW n, IsWorkspace(w, n)
  PROVE  w.claims \in [Payments -> ClaimRow]
         /\ \A p \in Payments : /\ w.claims[p] \in ClaimRow /\ w.claims[p].target \in Nat
                                /\ w.claims[p].recovered \in Nat /\ w.claims[p].unrecovered \in Nat
<1>1. w.claims \in [Payments -> ClaimRow]
  BY DEF IsWorkspace, Workspace
<1> QED BY <1>1 DEF ClaimRow

\* What the claims recovered is a sum over the payments.
LEMMA RecoveredIs ==
  ASSUME NEW w, NEW n, IsWorkspace(w, n)
  PROVE  LET r == [p \in Payments |-> w.claims[p].recovered]
         IN  IsHeadroom(r, Payments) /\ Recovered(w) = Signed(r) /\ Recovered(w) \in Int
<1> DEFINE r == [p \in Payments |-> w.claims[p].recovered]
<1>1. IsHeadroom(r, Payments)
  BY PaymentsAre, ClaimsAre DEF IsHeadroom
<1>2. Recovered(w) = Signed(r)
  BY DEF Recovered, Signed
<1> QED BY <1>1, <1>2, HeadroomSum

\* The same claims recovered the same.
LEMMA SameRecovered ==
  ASSUME NEW w, NEW v, v.claims = w.claims
  PROVE  /\ Recovered(v) = Recovered(w) /\ SplitClaims(v) = SplitClaims(w)
         /\ Unrecovered(v) = Unrecovered(w)
         /\ \A o : Absorbed(v, o) = Absorbed(w, o)
BY DEF Recovered, SplitClaims, Unrecovered, Absorbed, ClaimTakes

\* What the claims take of an offer.
LEMMA ClaimTakesAre ==
  ASSUME NEW w, NEW n, IsWorkspace(w, n), NEW o \in Nat
  PROVE  LET t == ClaimTakes(w, o)
         IN  /\ IsHeadroom(t, Payments) /\ Absorbed(w, o) = Signed(t)
             /\ \A p \in Payments : t[p] \in Nat /\ t[p] <= w.claims[p].unrecovered
             /\ Absorbed(w, o) \in Nat /\ Absorbed(w, o) <= o
             /\ Unrecovered(w) = {} => Absorbed(w, o) = 0
<1> DEFINE S == Payments
           c == [p \in S |-> w.claims[p].unrecovered]
           t == ClaimTakes(w, o)
<1>1. S \in SUBSET Int /\ IsFiniteSet(S) /\ S \in SUBSET Nat
  BY PaymentsAre
<1>2. DOMAIN c = S /\ Valued(c, S, Nat)
  BY <1>1, ClaimsAre DEF Valued
<1>3. t = TakeInTurn(c, Lower(S), o)
  BY DEF ClaimTakes
<1>4. \A p \in S : c[p] = w.claims[p].unrecovered
  OBVIOUS
<1>5. InTurn(S, Lower(S))
  BY <1>1, LowerInTurn
<1> HIDE DEF c, S
<1>6. Valued(t, S, Nat) /\ DOMAIN t = S /\ SumFunctionOnSet(t, S) = Least(o, SumFunctionOnSet(c, S))
  BY <1>2, <1>3, <1>5, TakenInAll
<1>7. \A p \in S : t[p] \in Nat /\ t[p] <= c[p]
  BY <1>2, <1>3, <1>5, Taken
<1>8. IsHeadroom(t, S)
  <2>1. t = [p \in S |-> t[p]]
    BY <1>2, <1>3 DEF TakeInTurn
  <2> HIDE DEF t
  <2> QED BY <1>1, <1>7, <2>1 DEF IsHeadroom
<1>9. Absorbed(w, o) = Signed(t) /\ Signed(t) = SumFunctionOnSet(t, S)
  BY <1>8, HeadroomSum DEF Absorbed, Signed
<1> HIDE DEF t
<1>10. PICK y \in Nat : y = SumFunctionOnSet(c, S)
  BY <1>2, SumNat
<1>11. Absorbed(w, o) \in Nat /\ Absorbed(w, o) <= o
  BY <1>6, <1>9, <1>10 DEF Least
<1>12. ASSUME Unrecovered(w) = {} PROVE Absorbed(w, o) = 0
  <2>1. \A p \in S : t[p] = 0
    <3>1. \A p \in S : ~(w.claims[p].unrecovered > 0)
      BY <1>12 DEF Unrecovered, S
    <3>2. \A p \in S : c[p] \in Nat
      BY <1>2 DEF Valued
    <3> QED BY <1>4, <1>7, <3>1, <3>2
  <2>2. Valued(t, S, Int) /\ Cardinality(S) \in Nat
    BY <1>1, <1>8, HeadroomSum, FS_CardinalityType
  <2>3. SumFunctionOnSet(t, S) = Cardinality(S) * 0
    BY <2>1, <2>2, SumOfEqual
  <2> QED BY <1>9, <2>2, <2>3
<1> QED BY <1>4, <1>7, <1>8, <1>9, <1>11, <1>12 DEF t, S

\* Absorbing moves what it takes from unrecovered to recovered.
LEMMA AbsorbIs ==
  ASSUME NEW w, NEW n, IsWorkspace(w, n), SplitClaims(w), NEW o \in Nat
  PROVE  LET v == Absorb(w, o)
         IN  /\ IsWorkspace(v, n) /\ v.rows = w.rows /\ v.marked = w.marked
             /\ SplitClaims(v) /\ SameTargets(w, v)
             /\ Recovered(v) = Recovered(w) + Absorbed(w, o)
<1> DEFINE t == ClaimTakes(w, o)
           v == Absorb(w, o)
           c == [p \in Payments |-> [w.claims[p] EXCEPT
                            !.recovered = @ + t[p], !.unrecovered = @ - t[p]]]
           u == [w EXCEPT !.claims = c]
<1>1. /\ IsHeadroom(t, Payments) /\ Absorbed(w, o) = Signed(t)
      /\ \A p \in Payments : t[p] \in Nat /\ t[p] <= w.claims[p].unrecovered
      /\ Unrecovered(w) = {} => Absorbed(w, o) = 0
  BY ClaimTakesAre
<1>2. w \in Workspace(n) /\ n \in Nat \ {0}
  BY DEF IsWorkspace
<1>3. CASE Unrecovered(w) = {}
  <2>1. v = w
    BY <1>3 DEF Absorb
  <2>2. SameTargets(w, w)
    BY DEF SameTargets
  <2>3. Recovered(w) = Recovered(w) + Absorbed(w, o)
    <3>1. Absorbed(w, o) = 0
      BY <1>1, <1>3
    <3>2. Recovered(w) \in Int
      BY RecoveredIs
    <3> QED BY <3>1, <3>2
  <2> HIDE DEF v
  <2> QED BY <2>1, <2>2, <2>3 DEF v
<1>4. CASE Unrecovered(w) # {}
  <2> HIDE DEF t
  <2>1. \A p \in Payments : w.claims[p] \in ClaimRow
    BY ClaimsAre
  <2>2. ASSUME NEW p \in Payments
        PROVE  /\ c[p] \in ClaimRow /\ c[p].target = w.claims[p].target
               /\ c[p].credited = w.claims[p].credited
               /\ c[p].recovered = w.claims[p].recovered + t[p]
               /\ c[p].unrecovered = w.claims[p].unrecovered - t[p]
    <3>1. w.claims[p] \in ClaimRow /\ t[p] \in Nat /\ t[p] <= w.claims[p].unrecovered
      BY <1>1, <2>1
    <3>2. c[p] = [w.claims[p] EXCEPT !.recovered = @ + t[p], !.unrecovered = @ - t[p]]
      OBVIOUS
    <3> HIDE DEF c
    <3>3. /\ c[p].target = w.claims[p].target /\ c[p].credited = w.claims[p].credited
          /\ c[p].recovered = w.claims[p].recovered + t[p]
          /\ c[p].unrecovered = w.claims[p].unrecovered - t[p]
          /\ c[p] = [credited |-> w.claims[p].credited, target |-> w.claims[p].target,
                     recovered |-> w.claims[p].recovered + t[p],
                     unrecovered |-> w.claims[p].unrecovered - t[p]]
      BY <3>1, <3>2 DEF ClaimRow
    <3>4. /\ w.claims[p].recovered + t[p] \in Nat /\ w.claims[p].unrecovered - t[p] \in Nat
          /\ w.claims[p].credited \in BOOLEAN /\ w.claims[p].target \in Nat
      <4>1. w.claims[p].recovered \in Nat /\ w.claims[p].unrecovered \in Nat
        BY <3>1 DEF ClaimRow
      <4> QED BY <3>1, <4>1 DEF ClaimRow
    <3> QED BY <3>3, <3>4 DEF ClaimRow
  <2>3. c \in [Payments -> ClaimRow]
    BY <2>2
  <2> HIDE DEF c
  <2>4. v.claims = c /\ v.rows = w.rows /\ v.marked = w.marked /\ v.facts = w.facts
        /\ v.causes \in SUBSET Causes /\ IsWorkspace(v, n)
    <3>1. v = SyncPause(u, Unrecovered(u) # {})
      BY <1>4 DEF Absorb, c, t
    <3>2. u \in Workspace(n) /\ u.claims = c /\ u.rows = w.rows /\ u.marked = w.marked
          /\ u.facts = w.facts /\ u.causes = w.causes
      BY <1>2, <2>3 DEF Workspace
    <3> DEFINE k == IF Unrecovered(u) # {} THEN u.causes \cup {"principal_recovery"}
                                           ELSE u.causes \ {"principal_recovery"}
    <3>3. v = [u EXCEPT !.causes = k]
      BY <3>1 DEF SyncPause
    <3>4. k \in SUBSET Causes
      BY <3>2, <1>2 DEF Workspace, Causes
    <3> HIDE DEF k, u, v
    <3> QED BY <1>2, <3>2, <3>3, <3>4 DEF Workspace, IsWorkspace
  <2> HIDE DEF v, u
  <2>5. SplitClaims(v)
    <3>1. ASSUME NEW p \in Payments
          PROVE  c[p].target = c[p].recovered + c[p].unrecovered
      <4>1. PICK x \in Nat, y \in Nat, z \in Nat :
               x = w.claims[p].recovered /\ y = w.claims[p].unrecovered /\ z = t[p]
        BY <1>1, <2>1 DEF ClaimRow
      <4>2. c[p].target = x + y /\ c[p].recovered = x + z /\ c[p].unrecovered = y - z
        BY <2>2, <4>1 DEF SplitClaims
      <4>3. x + y = (x + z) + (y - z)
        OBVIOUS
      <4> QED BY <4>2, <4>3
    <3> QED BY <2>4, <3>1 DEF SplitClaims
  <2>6. SameTargets(w, v)
    BY <2>2, <2>4 DEF SameTargets
  <2>7. Recovered(v) = Recovered(w) + Absorbed(w, o)
    <3> DEFINE r == [p \in Payments |-> w.claims[p].recovered]
               q == [p \in Payments |-> v.claims[p].recovered]
    <3>1. IsHeadroom(r, Payments) /\ Recovered(w) = Signed(r)
      BY RecoveredIs
    <3>2. IsHeadroom(q, Payments) /\ Recovered(v) = Signed(q)
      BY <2>4, RecoveredIs
    <3>3. IsSum(q, r, t, Payments)
      BY <2>2, <2>4 DEF IsSum
    <3> HIDE DEF r, q
    <3>4. Signed(q) = Signed(r) + Signed(t)
      BY <1>1, <3>1, <3>3, Plus
    <3> QED BY <1>1, <3>1, <3>2, <3>4
  <2> QED BY <2>4, <2>5, <2>6, <2>7 DEF v
<1> QED BY <1>3, <1>4

\* A step that keeps what the rows hold and what the claims aim at.
Keeps(w, v) == SameHeld(w, v) /\ SameTargets(w, v)

\* The same claims have the same targets.
LEMMA SameClaimsTargets ==
  ASSUME NEW w, NEW v, SameClaims(w, v)
  PROVE  SameTargets(w, v)
BY DEF SameClaims, SameTargets

\* cover_or_mark leaves the money where it is, and the right mark.
LEMMA CoverOrMarkIs ==
  ASSUME NEW w, NEW n, NEW m, Booked(w, n, m)
  PROVE  LET v == CoverOrMark(w)
         IN  Sound(v, n, m) /\ Keeps(w, v)
<1> DEFINE H == Headroom(w)
           h == Square(H).headroom
           k == Square(H).marked
           v == CoverOrMark(w)
<1>1. IsWorkspace(w, n) /\ SplitClaims(w) /\ Total(w, "credits") + Recovered(w) = m
  BY DEF Booked
<1>2. IsHeadroom(H, 0 .. n - 1)
  BY <1>1, HeadroomIs
<1>3. v = WriteRows(w, h, k)
  BY DEF CoverOrMark
<1> HIDE DEF H, v
<1>4. IsHeadroom(h, 0 .. n - 1) /\ Signed(h) = Signed(H) /\ Marks(h, k)
  BY <1>2, SquareIs
<1>5. k \in BOOLEAN
  BY <1>4 DEF Marks
<1> HIDE DEF h, k
<1>6. /\ IsWorkspace(v, n) /\ v.marked = k /\ SameClaims(w, v) /\ SameHeld(w, v)
      /\ Headroom(v) = h
      /\ Total(v, "credits") = Total(w, "credits") + Signed(h) - Signed(H)
  BY <1>1, <1>3, <1>4, <1>5, WriteRowsIs DEF H
<1>7. Total(v, "credits") = Total(w, "credits")
  <2>1. Total(w, "credits") \in Int /\ Signed(H) \in Int
    BY <1>1, <1>2, TotalIs, HeadroomSum
  <2> QED BY <1>4, <1>6, <2>1
<1>8. Recovered(v) = Recovered(w) /\ SplitClaims(v)
  BY <1>1, <1>6, SameRecovered DEF SameClaims
<1> QED BY <1>1, <1>4, <1>6, <1>7, <1>8, SameClaimsTargets DEF Sound, Booked, Keeps, v

\* The rows are written with a more than they had, less what claims take of
\* the offer o.
LEMMA WrittenAndAbsorbed ==
  ASSUME NEW w, NEW n, NEW m \in Int, Booked(w, n, m), NEW h, IsHeadroom(h, 0 .. n - 1),
         NEW mark, Marks(h, mark), NEW o \in Nat, NEW a \in Int,
         Signed(h) = Signed(Headroom(w)) + a - Absorbed(w, o),
         NEW v, v = IF o > 0 THEN Absorb(WriteRows(w, h, mark), o) ELSE WriteRows(w, h, mark)
  PROVE  Sound(v, n, m + a) /\ Keeps(w, v) /\ (o = 0 => v.claims = w.claims /\ v.causes = w.causes)
<1> DEFINE u == WriteRows(w, h, mark)
           x == Absorbed(w, o)
           H == Headroom(w)
<1>1. IsWorkspace(w, n) /\ SplitClaims(w) /\ Total(w, "credits") + Recovered(w) = m
      /\ mark \in BOOLEAN
  BY DEF Booked, Marks
<1>2. /\ IsWorkspace(u, n) /\ u.marked = mark /\ SameClaims(w, u) /\ SameHeld(w, u)
      /\ Headroom(u) = h
      /\ Total(u, "credits") = Total(w, "credits") + Signed(h) - Signed(H)
  BY <1>1, WriteRowsIs
<1>3. x \in Nat /\ x <= o
  BY <1>1, ClaimTakesAre
<1>4. v = IF o > 0 THEN Absorb(u, o) ELSE u
  OBVIOUS
<1>5. Signed(h) = Signed(H) + a - x
  OBVIOUS
<1> HIDE DEF u, x, H
<1>6. Recovered(u) = Recovered(w) /\ SplitClaims(u) /\ Absorbed(u, o) = x
  BY <1>1, <1>2, SameRecovered DEF SameClaims, x
<1>7. Signed(H) \in Int /\ Total(w, "credits") \in Int /\ Recovered(w) \in Int
  <2>1. IsHeadroom(H, 0 .. n - 1)
    BY <1>1, HeadroomIs DEF H
  <2> QED BY <1>1, <2>1, HeadroomSum, TotalIs, RecoveredIs
<1>8. Total(u, "credits") + (Recovered(w) + x) = m + a
  BY <1>1, <1>2, <1>3, <1>5, <1>7
<1>9. SameTargets(w, u)
  BY <1>2, SameClaimsTargets
<1>10. CASE o > 0
  <2>1. v = Absorb(u, o)
    BY <1>4, <1>10
  <2>2. /\ IsWorkspace(v, n) /\ v.rows = u.rows /\ v.marked = u.marked
        /\ SplitClaims(v) /\ SameTargets(u, v)
        /\ Recovered(v) = Recovered(u) + Absorbed(u, o)
    BY <1>2, <1>6, <2>1, AbsorbIs
  <2>3. Headroom(v) = Headroom(u) /\ Total(v, "credits") = Total(u, "credits")
    BY <2>2 DEF Headroom, Total
  <2>4. SameHeld(w, v)
    BY <1>2, <2>2 DEF SameHeld
  <2>5. SameTargets(w, v)
    BY <1>9, <2>2 DEF SameTargets
  <2>6. Total(v, "credits") + Recovered(v) = m + a
    BY <1>6, <1>8, <2>2, <2>3
  <2>7. Marks(Headroom(v), v.marked)
    BY <1>2, <2>2, <2>3
  <2> QED BY <1>10, <2>2, <2>4, <2>5, <2>6, <2>7 DEF Sound, Booked, Keeps
<1>11. CASE o = 0
  <2>1. v = u
    BY <1>4, <1>11
  <2>2. x = 0
    BY <1>3, <1>11
  <2>3. Total(v, "credits") + Recovered(v) = m + a
    BY <1>6, <1>7, <1>8, <2>1, <2>2
  <2>4. Marks(Headroom(v), v.marked)
    BY <1>2, <2>1
  <2>5. v.claims = w.claims /\ v.causes = w.causes
    BY <1>2, <2>1 DEF SameClaims
  <2> QED BY <1>2, <1>6, <1>9, <2>1, <2>3, <2>4, <2>5 DEF Sound, Booked, Keeps
<1> QED BY <1>10, <1>11

\* Money spread over the rows of an inflow leaves them marked as they were.
LEMMA NewMoneyIs ==
  ASSUME NEW w, NEW n, NEW m \in Int, Booked(w, n, m), NEW a \in Nat, NEW absorbing \in BOOLEAN
  PROVE  LET v == NewMoney(w, a, absorbing)
         IN  /\ Sound(v, n, m + a) /\ Keeps(w, v)
             /\ (~absorbing => v.claims = w.claims /\ v.causes = w.causes)
<1> DEFINE S == 0 .. n - 1
           H == Headroom(w)
           in == TakeInflow(H, a)
           o == IF in.marked \/ ~absorbing THEN 0 ELSE in.left
           x == Absorbed(w, o)
           d == Distribute(in.left - x, n)
           k == in.headroom
           h == [s \in S |-> k[s] + d[s]]
           v == NewMoney(w, a, absorbing)
<1>1. IsWorkspace(w, n) /\ n \in Nat \ {0}
  BY DEF Booked, IsWorkspace
<1>2. IsHeadroom(H, S) /\ ShardCount(w) = n
  BY <1>1, HeadroomIs, WorkspaceRows
<1> HIDE DEF H
<1>3. /\ IsHeadroom(k, S) /\ Marks(k, in.marked)
      /\ in.left \in Nat /\ (in.marked => in.left = 0)
      /\ Signed(k) + in.left = Signed(H) + a
  BY <1>2, InflowIs
<1>4. DOMAIN k = S
  BY <1>3, HeadroomSum
<1>5. v = IF o > 0 THEN Absorb(WriteRows(w, h, in.marked), o) ELSE WriteRows(w, h, in.marked)
  BY <1>2, <1>4 DEF NewMoney, H
<1>6. o \in Nat /\ (~absorbing => o = 0) /\ o <= in.left
  BY <1>3
<1> HIDE DEF o, in, v
<1>7. x \in Nat /\ x <= o
  BY <1>1, <1>6, ClaimTakesAre
<1> HIDE DEF x
<1>8. in.left - x \in Int /\ in.left - x >= 0
  BY <1>3, <1>6, <1>7
<1>9. IsHeadroom(d, S) /\ Signed(d) = in.left - x /\ \A s \in S : d[s] >= 0
  <2> DEFINE y == in.left - x
  <2>1. y \in Int /\ y >= 0
    BY <1>8
  <2> HIDE DEF y
  <2>2. IsHeadroom(Distribute(y, n), S) /\ Signed(Distribute(y, n)) = y
        /\ \A s \in S : Distribute(y, n)[s] >= 0
    BY <1>1, <2>1, DistributeIs
  <2> QED BY <2>2 DEF y
<1> HIDE DEF d, k
<1>10. IsHeadroom(h, S) /\ Signed(h) = Signed(k) + Signed(d)
  <2>1. IsSum(h, k, d, S)
    BY DEF IsSum
  <2> HIDE DEF h, S
  <2> QED BY <1>3, <1>9, <2>1, Plus
<1>11. Signed(h) = Signed(H) + a - x
  <2>1. Signed(k) \in Int /\ Signed(H) \in Int
    BY <1>2, <1>3, HeadroomSum
  <2> QED BY SMTT(60), <1>3, <1>7, <1>9, <1>10, <2>1
<1>12. Marks(h, in.marked)
  <2>1. CASE in.marked
    <3>1. x = 0 /\ in.left = 0
      BY <1>3, <1>6, <1>7, <2>1
    <3>2. Signed(k) < 0 /\ Signed(k) \in Int /\ in.marked \in BOOLEAN
      BY <1>3, <2>1, HeadroomSum DEF Marks
    <3>3. Signed(h) < 0
      BY <1>9, <1>10, <3>1, <3>2
    <3> QED BY <2>1, <3>2, <3>3 DEF Marks
  <2>2. CASE ~in.marked
    <3>1. Negative(k) = {} /\ in.marked \in BOOLEAN
      BY <1>3, <2>2 DEF Marks
    <3>2. \A s \in S : k[s] \in Int /\ ~(k[s] < 0) /\ d[s] \in Int
      BY <1>3, <1>4, <1>9, <3>1 DEF Negative, IsHeadroom, k
    <3>3. \A s \in S : h[s] = k[s] + d[s] /\ DOMAIN h = S
      OBVIOUS
    <3> HIDE DEF h, S
    <3>4. \A s \in S : ~(h[s] < 0)
      BY <1>9, <3>2, <3>3
    <3>5. DOMAIN h = S
      BY <1>10, HeadroomSum
    <3>6. Negative(h) = {}
      BY <3>4, <3>5 DEF Negative
    <3> QED BY <2>2, <3>1, <3>6 DEF Marks
  <2> QED BY <2>1, <2>2
<1> HIDE DEF h
<1>13. a \in Int
  OBVIOUS
<1>14. Sound(v, n, m + a) /\ Keeps(w, v) /\ (o = 0 => v.claims = w.claims /\ v.causes = w.causes)
  <2>1. Signed(h) = Signed(Headroom(w)) + a - Absorbed(w, o)
    BY <1>11 DEF H, x
  <2>2. /\ IsHeadroom(h, 0 .. n - 1) /\ Marks(h, in.marked) /\ o \in Nat
        /\ v = IF o > 0 THEN Absorb(WriteRows(w, h, in.marked), o) ELSE WriteRows(w, h, in.marked)
    BY <1>5, <1>6, <1>10, <1>12
  <2> DEFINE mark == in.marked
  <2> HIDE DEF mark
  <2>3. /\ Marks(h, mark)
        /\ v = IF o > 0 THEN Absorb(WriteRows(w, h, mark), o) ELSE WriteRows(w, h, mark)
    BY <2>2 DEF mark
  <2> QED BY <1>13, <2>1, <2>2, <2>3, WrittenAndAbsorbed
<1> QED BY <1>6, <1>14 DEF v

\* Money that a release freed repays, then is offered to the claims.
LEMMA ReturnedIs ==
  ASSUME NEW w, NEW n, NEW m \in Int, Booked(w, n, m), NEW a \in Nat, NEW s \in 0 .. n - 1
  PROVE  LET v == Returned(w, a, s)
         IN  Sound(v, n, m) /\ Keeps(w, v)
<1> DEFINE S == 0 .. n - 1
           H == Headroom(w)
           g == [H EXCEPT ![s] = @ - a]
           in == TakeInflow(g, a)
           o == IF in.marked THEN 0 ELSE in.left
           x == Absorbed(w, o)
           k == in.headroom
           h == [k EXCEPT ![s] = @ + in.left - x]
           v == Returned(w, a, s)
<1>1. IsWorkspace(w, n) /\ n \in Nat \ {0}
  BY DEF Booked, IsWorkspace
<1>2. IsHeadroom(H, S)
  BY <1>1, HeadroomIs
<1>3. v = IF o > 0 THEN Absorb(WriteRows(w, h, in.marked), o) ELSE WriteRows(w, h, in.marked)
  BY DEF Returned
<1> HIDE DEF H
<1>4. PICK y \in Int : y = H[s]
  BY <1>2 DEF IsHeadroom
<1>5. IsHeadroom(g, S) /\ g[s] = y - a /\ \A t \in S \ {s} : g[t] = H[t]
  BY <1>2, <1>4 DEF IsHeadroom
<1>6. Signed(g) = Signed(H) - a /\ Signed(H) \in Int
  <2>1. Valued(H, S, Int) /\ g[s] \in Int /\ \A t \in S \ {s} : g[t] = H[t]
    BY <1>2, <1>5, HeadroomSum
  <2> HIDE DEF g, S
  <2>2. SumFunctionOnSet(g, S) = SumFunctionOnSet(H, S) + g[s] - H[s]
    BY <2>1, SumChanged DEF S
  <2> QED BY <1>2, <1>4, <1>5, <2>2, HeadroomSum
<1> HIDE DEF g
<1>7. /\ IsHeadroom(k, S) /\ Marks(k, in.marked)
      /\ in.left \in Nat /\ (in.marked => in.left = 0)
      /\ Signed(k) + in.left = Signed(g) + a
  BY <1>5, InflowIs
<1>8. o \in Nat /\ o <= in.left /\ (in.marked => o = 0)
  BY <1>7
<1> HIDE DEF o, in, v
<1>9. x \in Nat /\ x <= o
  BY <1>1, <1>8, ClaimTakesAre
<1> HIDE DEF x, k
<1>10. PICK z \in Int : z = k[s]
  BY <1>7 DEF IsHeadroom
<1>11. IsHeadroom(h, S) /\ h[s] = z + in.left - x /\ \A t \in S \ {s} : h[t] = k[t]
  BY <1>7, <1>9, <1>10 DEF IsHeadroom
<1> HIDE DEF h
<1>12. Signed(h) = Signed(k) + in.left - x /\ Signed(k) \in Int
  <2>1. Valued(k, S, Int) /\ h[s] \in Int /\ \A t \in S \ {s} : h[t] = k[t]
    BY <1>7, <1>9, <1>11, HeadroomSum
  <2>2. SumFunctionOnSet(h, S) = SumFunctionOnSet(k, S) + h[s] - k[s]
    BY <2>1, SumChanged
  <2> QED BY <1>7, <1>9, <1>10, <1>11, <2>2, HeadroomSum
<1>13. Signed(h) = Signed(H) + 0 - x
  BY <1>6, <1>7, <1>9, <1>12
<1>14. Marks(h, in.marked)
  <2>1. CASE in.marked
    <3>1. x = 0 /\ in.left = 0
      BY <1>7, <1>8, <1>9, <2>1
    <3>2. Signed(k) < 0 /\ in.marked \in BOOLEAN
      BY <1>7, <2>1 DEF Marks
    <3>3. Signed(h) < 0
      BY <1>12, <3>1, <3>2
    <3> QED BY <2>1, <3>2, <3>3 DEF Marks
  <2>2. CASE ~in.marked
    <3>1. Negative(k) = {} /\ in.marked \in BOOLEAN /\ DOMAIN k = S /\ DOMAIN h = S
      BY <1>7, <1>11, <2>2, HeadroomSum DEF Marks
    <3>2. \A t \in S : k[t] \in Int /\ ~(k[t] < 0)
      BY <1>7, <3>1 DEF Negative, IsHeadroom
    <3>3. ~(h[s] < 0)
      <4>1. ~(z < 0)
        BY <1>10, <3>2
      <4>2. in.left \in Nat /\ x <= in.left
        BY <1>7, <1>8, <1>9
      <4> QED BY <1>9, <1>11, <4>1, <4>2
    <3>4. \A t \in S : ~(h[t] < 0)
      BY <1>11, <3>2, <3>3
    <3>5. Negative(h) = {}
      BY <3>1, <3>4 DEF Negative
    <3> QED BY <2>2, <3>1, <3>5 DEF Marks
  <2> QED BY <2>1, <2>2
<1> DEFINE mark == in.marked
<1>15. /\ Signed(h) = Signed(Headroom(w)) + 0 - Absorbed(w, o)
       /\ IsHeadroom(h, 0 .. n - 1) /\ Marks(h, mark)
       /\ v = IF o > 0 THEN Absorb(WriteRows(w, h, mark), o) ELSE WriteRows(w, h, mark)
  BY <1>3, <1>11, <1>13, <1>14 DEF H, x
<1> HIDE DEF mark
<1>16. Sound(v, n, m + 0) /\ Keeps(w, v)
  <2>1. 0 \in Int
    OBVIOUS
  <2> QED BY <1>8, <1>15, <2>1, WrittenAndAbsorbed
<1>17. m + 0 = m
  OBVIOUS
<1> QED BY <1>16, <1>17 DEF v

-----------------------------------------------------------------------------
(* The operations on the rows.                                               *)

\* A mark stays right when no row turns negative and the sum is not larger.
LEMMA MarksKept ==
  ASSUME NEW S, NEW h, IsHeadroom(h, S), NEW k, IsHeadroom(k, S), NEW mark, Marks(h, mark),
         Signed(k) <= Signed(h), \A t \in S : h[t] >= 0 => k[t] >= 0
  PROVE  Marks(k, mark)
<1>1. DOMAIN h = S /\ DOMAIN k = S /\ Signed(h) \in Int /\ Signed(k) \in Int
  BY HeadroomSum
<1>2. \A t \in S : h[t] \in Int /\ k[t] \in Int
  BY DEF IsHeadroom
<1>3. ASSUME mark PROVE Signed(k) < 0
  BY <1>1, <1>3 DEF Marks
<1>4. ASSUME ~mark PROVE Negative(k) = {}
  <2>1. \A t \in S : ~(h[t] < 0)
    BY <1>1, <1>4 DEF Marks, Negative
  <2>2. \A t \in S : ~(k[t] < 0)
    BY <1>2, <2>1
  <2> QED BY <1>1, <2>2 DEF Negative
<1> QED BY <1>3, <1>4 DEF Marks

\* One row's counters change by a usage and a hold.
LEMMA OwnRow ==
  ASSUME NEW w, NEW n, NEW m \in Int, Booked(w, n, m), NEW s \in 0 .. n - 1, NEW r \in Row,
         NEW x \in Int, r.credits = w.rows[s].credits + x, NEW v, WritesRow(w, v, s, r)
  PROVE  /\ Booked(v, n, m + x) /\ v.marked = w.marked /\ SameClaims(w, v)
         /\ v.rows = [w.rows EXCEPT ![s] = r]
         /\ IsHeadroom(Headroom(v), 0 .. n - 1) /\ IsHeadroom(Headroom(w), 0 .. n - 1)
         /\ Headroom(v)[s] = r.credits - r.usage - r.reserved
         /\ Headroom(w)[s] = w.rows[s].credits - w.rows[s].usage - w.rows[s].reserved
         /\ Signed(Headroom(v)) = Signed(Headroom(w)) + Headroom(v)[s] - Headroom(w)[s]
         /\ \A t \in (0 .. n - 1) \ {s} : Headroom(v)[t] = Headroom(w)[t]
<1> DEFINE S == 0 .. n - 1
           h == Headroom(v)
           g == Headroom(w)
<1>1. IsWorkspace(w, n) /\ SplitClaims(w) /\ Total(w, "credits") + Recovered(w) = m
  BY DEF Booked
<1>2. /\ IsWorkspace(v, n) /\ v.marked = w.marked /\ SameClaims(w, v)
      /\ v.rows = [w.rows EXCEPT ![s] = r]
      /\ h = [g EXCEPT ![s] = r.credits - r.usage - r.reserved]
      /\ Total(v, "credits") = Total(w, "credits") + r.credits - w.rows[s].credits
  BY <1>1, RowWritten
<1>3. Recovered(v) = Recovered(w) /\ SplitClaims(v)
  BY <1>1, <1>2, SameRecovered DEF SameClaims
<1>4. Booked(v, n, m + x)
  <2>1. w.rows[s].credits \in Int
    BY <1>1, WorkspaceRows DEF Row
  <2>2. Total(w, "credits") \in Int /\ Recovered(w) \in Int
    BY <1>1, TotalIs, RecoveredIs
  <2>3. Total(v, "credits") + Recovered(v) = m + x
    BY <1>1, <1>2, <1>3, <2>1, <2>2
  <2> QED BY <1>2, <1>3, <2>3 DEF Booked
<1>5. IsHeadroom(h, S) /\ IsHeadroom(g, S)
      /\ g[s] = w.rows[s].credits - w.rows[s].usage - w.rows[s].reserved
  BY ZenonT(40), <1>1, <1>2, HeadroomIs
<1> HIDE DEF h, g
<1>6. h[s] = r.credits - r.usage - r.reserved /\ \A t \in S \ {s} : h[t] = g[t]
  BY <1>2, <1>5 DEF IsHeadroom
<1>7. Signed(h) = Signed(g) + h[s] - g[s]
  <2>1. Valued(g, S, Int) /\ h[s] \in Int /\ \A t \in S \ {s} : h[t] = g[t]
    BY <1>5, <1>6, HeadroomSum DEF IsHeadroom
  <2> HIDE DEF S
  <2>2. SumFunctionOnSet(h, S) = SumFunctionOnSet(g, S) + h[s] - g[s]
    BY <2>1, SumChanged DEF S
  <2> QED BY <1>5, <2>2, HeadroomSum
<1> QED BY <1>2, <1>4, <1>5, <1>6, <1>7 DEF h, g

\* The row that a hold is given back on.
LEMMA SpentRowIs ==
  ASSUME NEW b \in Row, NEW hold, NEW actual
  PROVE  SpentRow(b, hold, actual) =
            [credits |-> b.credits, usage |-> b.usage + actual, reserved |-> b.reserved - hold]
<1> DEFINE x == b.reserved - hold
           y == b.usage + actual
           e == [b EXCEPT !.reserved = x, !.usage = y]
<1>1. SpentRow(b, hold, actual) = e
  BY DEF SpentRow
<1> HIDE DEF x, y
<1>2. e \in [credits : {b.credits}, usage : {y}, reserved : {x}]
  BY DEF Row
<1> HIDE DEF e
<1>3. e = [credits |-> b.credits, usage |-> y, reserved |-> x]
  BY <1>2
<1> QED BY <1>1, <1>3 DEF x, y

\* A row gives a hold back and books a usage.
LEMMA SpentIs ==
  ASSUME NEW w, NEW n, NEW m \in Int, Booked(w, n, m), NEW s \in 0 .. n - 1,
         NEW hold \in Nat, NEW actual \in Nat, hold <= w.rows[s].reserved
  PROVE  LET v == Spent(w, s, hold, actual)
         IN  /\ Booked(v, n, m) /\ v.marked = w.marked /\ SameClaims(w, v)
             /\ DOMAIN v.rows = 0 .. n - 1
             /\ v.rows[s].reserved = w.rows[s].reserved - hold
             /\ v.rows[s].credits = w.rows[s].credits
             /\ \A t \in (0 .. n - 1) \ {s} : v.rows[t] = w.rows[t]
             /\ IsHeadroom(Headroom(v), 0 .. n - 1) /\ IsHeadroom(Headroom(w), 0 .. n - 1)
             /\ Headroom(v)[s] = Headroom(w)[s] + hold - actual
             /\ Signed(Headroom(v)) = Signed(Headroom(w)) + hold - actual
             /\ \A t \in (0 .. n - 1) \ {s} : Headroom(v)[t] = Headroom(w)[t]
<1> DEFINE S == 0 .. n - 1
           v == Spent(w, s, hold, actual)
           b == w.rows[s]
           r == [credits |-> b.credits, usage |-> b.usage + actual, reserved |-> b.reserved - hold]
<1>1. IsWorkspace(w, n) /\ w \in Workspace(n) /\ w.rows \in [S -> Row]
  BY DEF Booked, IsWorkspace, Workspace
<1>2. b \in Row /\ b.credits \in Int /\ b.usage \in Nat /\ b.reserved \in Nat
  BY <1>1 DEF Row
<1>3. r \in Row /\ r.credits = b.credits + 0 /\ r.credits = b.credits
      /\ r.usage = b.usage + actual /\ r.reserved = b.reserved - hold
  BY <1>2 DEF Row
<1>4. WritesRow(w, v, s, r)
  <2>1. SpentRow(b, hold, actual) = r
    BY <1>2, SpentRowIs
  <2>2. v = [w EXCEPT !.rows[s] = SpentRow(b, hold, actual)]
    BY DEF Spent
  <2> QED BY <2>1, <2>2 DEF WritesRow
<1> HIDE DEF v, r
<1>5. /\ Booked(v, n, m + 0) /\ v.marked = w.marked /\ SameClaims(w, v)
      /\ v.rows = [w.rows EXCEPT ![s] = r]
      /\ IsHeadroom(Headroom(v), S) /\ IsHeadroom(Headroom(w), S)
      /\ Headroom(v)[s] = r.credits - r.usage - r.reserved
      /\ Headroom(w)[s] = b.credits - b.usage - b.reserved
      /\ Signed(Headroom(v)) = Signed(Headroom(w)) + Headroom(v)[s] - Headroom(w)[s]
      /\ \A t \in S \ {s} : Headroom(v)[t] = Headroom(w)[t]
  <2>1. 0 \in Int
    OBVIOUS
  <2> QED BY <1>3, <1>4, <2>1, OwnRow
<1>6. DOMAIN v.rows = S /\ v.rows[s] = r /\ \A t \in S \ {s} : v.rows[t] = w.rows[t]
  BY <1>1, <1>5
<1>7. Headroom(v)[s] = Headroom(w)[s] + hold - actual
      /\ Signed(Headroom(v)) = Signed(Headroom(w)) + hold - actual
  <2>1. PICK x \in Int, y \in Int, z \in Int : x = b.credits /\ y = b.usage /\ z = b.reserved
    BY <1>2
  <2>2. Headroom(w)[s] = x - y - z /\ Headroom(v)[s] = x - (y + actual) - (z - hold)
    BY <1>3, <1>5, <2>1
  <2>3. x - (y + actual) - (z - hold) = (x - y - z) + hold - actual
    OBVIOUS
  <2>4. PICK q \in Int : q = Signed(Headroom(w))
    BY <1>5, HeadroomSum
  <2>5. Signed(Headroom(v)) = q + ((x - y - z) + hold - actual) - (x - y - z)
    BY <1>5, <2>2, <2>3, <2>4
  <2>6. q + ((x - y - z) + hold - actual) - (x - y - z) = q + hold - actual
    OBVIOUS
  <2> QED BY <2>2, <2>3, <2>4, <2>5, <2>6
<1>8. m + 0 = m
  OBVIOUS
<1> QED BY <1>3, <1>5, <1>6, <1>7, <1>8 DEF v

\* What a step leaves of the holds when row s gives one back.
GivesBack(w, v, s, hold) ==
  /\ DOMAIN v.rows = DOMAIN w.rows
  /\ v.rows[s].reserved = w.rows[s].reserved - hold
  /\ \A t \in DOMAIN w.rows \ {s} : v.rows[t].reserved = w.rows[t].reserved

\* A hold given back, then a step that keeps reservations.
LEMMA GivesBackThen ==
  ASSUME NEW w, NEW u, NEW v, NEW s \in DOMAIN w.rows, NEW hold,
         GivesBack(w, u, s, hold), SameHeld(u, v)
  PROVE  GivesBack(w, v, s, hold)
BY DEF GivesBack, SameHeld

\* Two steps that set no target.
LEMMA SameTargetsThen ==
  ASSUME NEW w, NEW u, NEW v, SameTargets(w, u), SameTargets(u, v)
  PROVE  SameTargets(w, v)
BY DEF SameTargets

\* Spending on a row and no more: right unless the row is left short.
LEMMA SpentMarks ==
  ASSUME NEW w, NEW n, NEW m \in Int, Sound(w, n, m), NEW s \in 0 .. n - 1,
         NEW hold \in Nat, NEW actual \in Nat, hold <= w.rows[s].reserved, hold <= actual,
         ~(Headroom(Spent(w, s, hold, actual))[s] < 0 /\ ~w.marked)
  PROVE  Sound(Spent(w, s, hold, actual), n, m)
<1> DEFINE S == 0 .. n - 1
           v == Spent(w, s, hold, actual)
           h == Headroom(v)
           g == Headroom(w)
<1>1. Booked(w, n, m) /\ Marks(g, w.marked)
  BY DEF Sound
<1>2. /\ Booked(v, n, m) /\ v.marked = w.marked
      /\ IsHeadroom(h, S) /\ IsHeadroom(g, S)
      /\ h[s] = g[s] + hold - actual /\ Signed(h) = Signed(g) + hold - actual
      /\ \A t \in S \ {s} : h[t] = g[t]
  BY <1>1, SpentIs
<1>3. ~(h[s] < 0 /\ ~w.marked)
  OBVIOUS
<1> HIDE DEF v, h, g
<1>4. Signed(g) \in Int /\ Signed(h) \in Int /\ (\A t \in S : h[t] \in Int /\ g[t] \in Int)
      /\ DOMAIN h = S /\ DOMAIN g = S
  BY <1>2, HeadroomSum DEF IsHeadroom
<1>5. Signed(h) <= Signed(g)
  BY <1>2, <1>4
<1>6. CASE w.marked
  <2>1. Signed(h) < 0 /\ w.marked \in BOOLEAN
    BY <1>1, <1>4, <1>5, <1>6 DEF Marks
  <2> QED BY <1>2, <1>6, <2>1 DEF Marks, Sound, v, h
<1>7. CASE ~w.marked
  <2>1. ~(h[s] < 0)
    BY <1>3, <1>7
  <2>2. \A t \in S : g[t] >= 0 => h[t] >= 0
    BY <1>2, <1>4, <2>1
  <2>3. Marks(h, w.marked)
    BY <1>1, <1>2, <1>5, <2>2, MarksKept
  <2> QED BY <1>2, <2>3 DEF Sound, v, h
<1> QED BY <1>6, <1>7

\* Spending gives the hold back.
LEMMA SpentGivesBack ==
  ASSUME NEW w, NEW n, NEW m \in Int, Booked(w, n, m), NEW s \in 0 .. n - 1,
         NEW hold \in Nat, NEW actual \in Nat, hold <= w.rows[s].reserved
  PROVE  LET v == Spent(w, s, hold, actual)
         IN  GivesBack(w, v, s, hold) /\ SameTargets(w, v) /\ s \in DOMAIN w.rows
<1> DEFINE v == Spent(w, s, hold, actual)
<1>1. /\ SameClaims(w, v) /\ DOMAIN v.rows = 0 .. n - 1
      /\ v.rows[s].reserved = w.rows[s].reserved - hold
      /\ \A t \in (0 .. n - 1) \ {s} : v.rows[t] = w.rows[t]
  BY SpentIs
<1>2. DOMAIN w.rows = 0 .. n - 1
  BY WorkspaceRows DEF Booked
<1> HIDE DEF v
<1> QED BY <1>1, <1>2, SameClaimsTargets DEF GivesBack, v

\* Money freed on a row that is not short, where only claims may take of it.
LEMMA FreedAbsorbed ==
  ASSUME NEW w, NEW n, NEW m \in Int, Sound(w, n, m), NEW s \in 0 .. n - 1,
         NEW hold \in Nat, NEW actual \in Nat, hold <= w.rows[s].reserved, actual <= hold,
         ~w.marked, NEW v,
         v = Absorb([Spent(w, s, hold, actual) EXCEPT !.rows[s].credits =
                        @ - Absorbed(w, hold - actual)], hold - actual)
  PROVE  Sound(v, n, m) /\ GivesBack(w, v, s, hold) /\ SameTargets(w, v)
<1> DEFINE S == 0 .. n - 1
           o == hold - actual
           x == Absorbed(w, o)
           own == Spent(w, s, hold, actual)
           b == own.rows[s]
           r == [b EXCEPT !.credits = @ - x]
           u == [own EXCEPT !.rows[s].credits = @ - x]
<1>1. Booked(w, n, m) /\ Marks(Headroom(w), w.marked) /\ IsWorkspace(w, n)
  BY DEF Sound, Booked
<1>2. o \in Nat
  OBVIOUS
<1>3. v = Absorb(u, o)
  OBVIOUS
<1> HIDE DEF o
<1>4. x \in Nat /\ x <= o
  BY <1>1, <1>2, ClaimTakesAre
<1> HIDE DEF x
<1>5. /\ Booked(own, n, m) /\ own.marked = w.marked /\ SameClaims(w, own)
      /\ DOMAIN own.rows = S
      /\ IsHeadroom(Headroom(own), S) /\ IsHeadroom(Headroom(w), S)
      /\ Headroom(own)[s] = Headroom(w)[s] + hold - actual
      /\ Signed(Headroom(own)) = Signed(Headroom(w)) + hold - actual
      /\ \A t \in S \ {s} : Headroom(own)[t] = Headroom(w)[t]
  BY <1>1, SpentIs
<1>6. GivesBack(w, own, s, hold) /\ SameTargets(w, own) /\ s \in DOMAIN w.rows
  BY <1>1, SpentGivesBack
<1>7. u = [own EXCEPT !.rows[s] = r]
  OBVIOUS
<1> HIDE DEF own
<1>8. b \in Row
  BY <1>5, WorkspaceRows DEF Booked
<1>9. r \in Row /\ r.credits = b.credits + (0 - x) /\ r.usage = b.usage /\ r.reserved = b.reserved
      /\ b.credits \in Int /\ b.usage \in Int /\ b.reserved \in Int
  <2> HIDE DEF b
  <2> QED BY <1>4, <1>8 DEF Row
<1>10. WritesRow(own, u, s, r) /\ 0 - x \in Int
  BY <1>4, <1>7 DEF WritesRow
<1> HIDE DEF r, u
<1>11. /\ Booked(u, n, m + (0 - x)) /\ u.marked = own.marked /\ SameClaims(own, u)
       /\ u.rows = [own.rows EXCEPT ![s] = r]
       /\ IsHeadroom(Headroom(u), S)
       /\ Headroom(u)[s] = r.credits - r.usage - r.reserved
       /\ Headroom(own)[s] = b.credits - b.usage - b.reserved
       /\ Signed(Headroom(u)) = Signed(Headroom(own)) + Headroom(u)[s] - Headroom(own)[s]
       /\ \A t \in S \ {s} : Headroom(u)[t] = Headroom(own)[t]
  <2> DEFINE y == 0 - x
  <2>1. y \in Int /\ r.credits = own.rows[s].credits + y
    BY <1>9, <1>10
  <2> HIDE DEF y, b
  <2>2. /\ Booked(u, n, m + y) /\ u.marked = own.marked /\ SameClaims(own, u)
       /\ u.rows = [own.rows EXCEPT ![s] = r]
       /\ IsHeadroom(Headroom(u), S)
       /\ Headroom(u)[s] = r.credits - r.usage - r.reserved
       /\ Headroom(own)[s] = own.rows[s].credits - own.rows[s].usage - own.rows[s].reserved
       /\ Signed(Headroom(u)) = Signed(Headroom(own)) + Headroom(u)[s] - Headroom(own)[s]
       /\ \A t \in S \ {s} : Headroom(u)[t] = Headroom(own)[t]
    BY SMTT(60), <1>5, <1>9, <1>10, <2>1, OwnRow
  <2> QED BY <2>2 DEF y, b
<1>12. SameHeld(own, u)
  BY <1>5, <1>9, <1>11 DEF SameHeld
<1>13. Absorbed(u, o) = x
  BY <1>5, <1>11, SameRecovered DEF SameClaims, x
<1>14. IsWorkspace(u, n) /\ SplitClaims(u) /\ Total(u, "credits") + Recovered(u) = m + (0 - x)
  BY <1>11 DEF Booked
<1>15. /\ IsWorkspace(v, n) /\ v.rows = u.rows /\ v.marked = u.marked
       /\ SplitClaims(v) /\ SameTargets(u, v)
       /\ Recovered(v) = Recovered(u) + x
  BY <1>2, <1>3, <1>13, <1>14, AbsorbIs
<1>16. Headroom(v) = Headroom(u) /\ Total(v, "credits") = Total(u, "credits")
  BY <1>15 DEF Headroom, Total
<1>17. Booked(v, n, m)
  <2>1. Total(u, "credits") \in Int /\ Recovered(u) \in Int
    BY <1>14, TotalIs, RecoveredIs
  <2>2. Total(v, "credits") + Recovered(v) = m
    BY <1>4, <1>14, <1>15, <1>16, <2>1
  <2> QED BY <1>15, <2>2 DEF Booked
<1>18. Marks(Headroom(v), v.marked)
  <2>1. Negative(Headroom(w)) = {} /\ w.marked \in BOOLEAN
    BY <1>1 DEF Marks
  <2>2. \A t \in S : Headroom(w)[t] \in Int /\ ~(Headroom(w)[t] < 0)
    <3>1. DOMAIN Headroom(w) = S /\ \A t \in S : Headroom(w)[t] \in Int
      BY <1>5, HeadroomSum DEF IsHeadroom
    <3> QED BY <2>1, <3>1 DEF Negative
  <2>3. ~(Headroom(u)[s] < 0)
    <3>1. PICK p \in Int, q \in Int, z \in Int : p = b.credits /\ q = b.usage /\ z = b.reserved
      BY <1>9
    <3>2. Headroom(u)[s] = (p + (0 - x)) - q - z /\ Headroom(own)[s] = p - q - z
      BY <1>9, <1>11, <3>1
    <3>3. PICK k \in Int : k = Headroom(w)[s] /\ ~(k < 0)
      BY <2>2
    <3>4. p - q - z = k + o
      BY <1>5, <3>2, <3>3 DEF o
    <3>5. (p + (0 - x)) - q - z = k + o - x
      BY <1>2, <1>4, <3>4
    <3> QED BY <1>2, <1>4, <3>2, <3>3, <3>5
  <2>4. \A t \in S : ~(Headroom(u)[t] < 0)
    BY <1>5, <1>11, <2>2, <2>3
  <2>5. Negative(Headroom(u)) = {}
    <3>1. DOMAIN Headroom(u) = S
      BY <1>11, HeadroomSum
    <3> QED BY <2>4, <3>1 DEF Negative
  <2> QED BY <1>5, <1>11, <1>15, <1>16, <2>1, <2>5 DEF Marks
<1>19. GivesBack(w, v, s, hold)
  <2>1. SameHeld(own, v)
    BY <1>12, <1>15 DEF SameHeld
  <2> QED BY <1>6, <2>1, GivesBackThen
<1>20. SameTargets(w, v)
  <2>1. SameTargets(own, u)
    BY <1>11, SameClaimsTargets
  <2> QED BY <1>6, <1>15, <2>1, SameTargetsThen
<1> QED BY <1>17, <1>18, <1>19, <1>20 DEF Sound

\* A release gives back its hold, and keeps the books and the mark.
LEMMA ReleasedIs ==
  ASSUME NEW w, NEW n, NEW m \in Int, Sound(w, n, m), NEW s \in 0 .. n - 1,
         NEW hold \in Nat, NEW actual \in Nat, hold <= w.rows[s].reserved
  PROVE  LET v == Released(w, s, hold, actual)
         IN  Sound(v, n, m) /\ GivesBack(w, v, s, hold) /\ SameTargets(w, v)
<1> DEFINE own == Spent(w, s, hold, actual)
           free == hold - actual
           left == Headroom(own)[s]
           v == Released(w, s, hold, actual)
           u == Absorb([own EXCEPT !.rows[s].credits = @ - Absorbed(w, free)], free)
<1>1. v = CASE free < 0 -> IF left < 0 /\ ~w.marked THEN CoverOrMark(own) ELSE own
            [] free = 0 -> own
            [] OTHER -> IF w.marked \/ left - free < 0 THEN Returned(own, free, s) ELSE u
  BY DEF Released
<1>2. Booked(w, n, m)
  BY DEF Sound
<1>3. Booked(own, n, m) /\ Headroom(own)[s] = Headroom(w)[s] + hold - actual
      /\ Headroom(w)[s] \in Int
  <2>1. IsHeadroom(Headroom(w), 0 .. n - 1)
    BY <1>2, HeadroomIs DEF Booked
  <2>2. Headroom(w)[s] \in Int
    BY <2>1 DEF IsHeadroom
  <2>3. Booked(own, n, m) /\ Headroom(own)[s] = Headroom(w)[s] + hold - actual
    BY <1>2, SpentIs
  <2> QED BY <2>2, <2>3
<1>4. GivesBack(w, own, s, hold) /\ SameTargets(w, own) /\ s \in DOMAIN w.rows
  BY <1>2, SpentGivesBack
<1>5. free \in Int
  OBVIOUS
<1>6. ASSUME hold <= actual, ~(left < 0 /\ ~w.marked)
      PROVE  Sound(own, n, m)
  BY <1>6, SpentMarks
<1>7. ASSUME free > 0, ~w.marked
      PROVE  Sound(u, n, m) /\ GivesBack(w, u, s, hold) /\ SameTargets(w, u)
  <2>1. actual <= hold
    BY <1>7
  <2>2. u = Absorb([Spent(w, s, hold, actual) EXCEPT !.rows[s].credits =
                        @ - Absorbed(w, hold - actual)], hold - actual)
    OBVIOUS
  <2> HIDE DEF u
  <2> QED BY <1>7, <2>1, <2>2, FreedAbsorbed
<1>8. ASSUME free > 0
      PROVE  Sound(Returned(own, free, s), n, m) /\ Keeps(own, Returned(own, free, s))
  <2>1. free \in Nat
    BY <1>8
  <2> HIDE DEF own, free
  <2> QED BY <1>3, <2>1, ReturnedIs
<1>9. Sound(CoverOrMark(own), n, m) /\ Keeps(own, CoverOrMark(own))
  <2> HIDE DEF own
  <2> QED BY <1>3, CoverOrMarkIs
<1>10. ASSUME NEW z, Keeps(own, z)
       PROVE  GivesBack(w, z, s, hold) /\ SameTargets(w, z)
  <2> HIDE DEF own
  <2> QED BY <1>4, <1>10, GivesBackThen, SameTargetsThen DEF Keeps
<1> DEFINE rest == Returned(own, free, s)
           cover == CoverOrMark(own)
<1>11. CASE free < 0
  <2>1. hold <= actual
    BY <1>11
  <2>2. v = IF left < 0 /\ ~w.marked THEN CoverOrMark(own) ELSE own
    <3> HIDE DEF left, own, u, v, free
    <3> QED BY <1>1, <1>11
  <2> HIDE DEF left, own, u, free, v
  <2>3. CASE left < 0 /\ ~w.marked
    BY <1>9, <1>10, <2>2, <2>3 DEF v
  <2>4. CASE ~(left < 0 /\ ~w.marked)
    BY <1>4, <1>6, <2>1, <2>2, <2>4 DEF v
  <2> QED BY <2>3, <2>4
<1>12. CASE free = 0
  <2>1. hold <= actual
    BY <1>12
  <2>2. v = own
    <3> HIDE DEF left, own, u, v, free
    <3> QED BY <1>1, <1>12
  <2>3. Sound(own, n, m)
    <3>1. CASE ~(left < 0 /\ ~w.marked)
      BY <1>6, <2>1, <3>1
    <3>2. CASE left < 0 /\ ~w.marked
      <4>1. left = Headroom(w)[s]
        <5> HIDE DEF own
        <5> QED BY <1>3, <1>12
      <4>2. s \in Negative(Headroom(w))
        <5>1. DOMAIN Headroom(w) = 0 .. n - 1
          BY <1>2, HeadroomIs, HeadroomSum DEF Booked
        <5> HIDE DEF left
        <5> QED BY <3>2, <4>1, <5>1 DEF Negative
      <4> QED BY <3>2, <4>2 DEF Sound, Marks
    <3> QED BY <3>1, <3>2
  <2> HIDE DEF left, own, u, free, v
  <2> QED BY <1>4, <2>2, <2>3 DEF v
<1>13. CASE free > 0
  <2>1. v = IF w.marked \/ left - free < 0 THEN Returned(own, free, s) ELSE u
    <3>1. ~(free < 0) /\ free # 0
      BY <1>13
    <3> HIDE DEF left, own, u, v, free
    <3> QED BY <1>1, <3>1
  <2> HIDE DEF left, own, u, free, v
  <2>2. CASE w.marked \/ left - free < 0
    BY <1>8, <1>10, <1>13, <2>1, <2>2 DEF v
  <2>3. CASE ~(w.marked \/ left - free < 0)
    BY <1>7, <1>13, <2>1, <2>3 DEF v
  <2> QED BY <2>2, <2>3
<1> QED BY <1>5, <1>11, <1>12, <1>13

\* Amounts taken off the rows are taken out of the books.
LEMMA TakeOffBooked ==
  ASSUME NEW w, NEW n, NEW m \in Int, Booked(w, n, m), NEW t, IsHeadroom(t, 0 .. n - 1)
  PROVE  LET v == TakeOff(w, t)
         IN  /\ Booked(v, n, m - Signed(t)) /\ v.marked = w.marked /\ Keeps(w, v) /\ SameClaims(w, v)
             /\ IsHeadroom(Headroom(v), 0 .. n - 1) /\ IsHeadroom(Headroom(w), 0 .. n - 1)
             /\ \A s \in 0 .. n - 1 : Headroom(v)[s] = Headroom(w)[s] - t[s]
             /\ Signed(Headroom(v)) = Signed(Headroom(w)) - Signed(t)
<1> DEFINE v == TakeOff(w, t)
<1>1. IsWorkspace(w, n) /\ SplitClaims(w) /\ Total(w, "credits") + Recovered(w) = m
  BY DEF Booked
<1>2. /\ IsWorkspace(v, n) /\ v.marked = w.marked /\ SameClaims(w, v) /\ SameHeld(w, v)
      /\ \A s \in 0 .. n - 1 : Headroom(v)[s] = Headroom(w)[s] - t[s]
      /\ Total(v, "credits") = Total(w, "credits") - Signed(t)
      /\ Signed(Headroom(v)) = Signed(Headroom(w)) - Signed(t)
  BY <1>1, TakeOffIs
<1> HIDE DEF v
<1>3. Recovered(v) = Recovered(w) /\ SplitClaims(v)
  BY <1>1, <1>2, SameRecovered DEF SameClaims
<1>4. Total(v, "credits") + Recovered(v) = m - Signed(t)
  <2>1. Total(w, "credits") \in Int /\ Recovered(w) \in Int /\ Signed(t) \in Int
    BY <1>1, TotalIs, RecoveredIs, HeadroomSum
  <2> QED BY <1>1, <1>2, <1>3, <2>1
<1>5. IsHeadroom(Headroom(v), 0 .. n - 1) /\ IsHeadroom(Headroom(w), 0 .. n - 1)
  BY <1>1, <1>2, HeadroomIs
<1> QED BY <1>2, <1>3, <1>4, <1>5, SameClaimsTargets DEF Booked, Keeps, v

\* Taking from rows no more than they have keeps the marks right.
LEMMA TakeOffSound ==
  ASSUME NEW w, NEW n, NEW m \in Int, Sound(w, n, m), NEW t, IsHeadroom(t, 0 .. n - 1),
         Signed(t) >= 0, \A s \in 0 .. n - 1 : Headroom(w)[s] >= 0 => t[s] <= Headroom(w)[s]
  PROVE  LET v == TakeOff(w, t)
         IN  Sound(v, n, m - Signed(t)) /\ Keeps(w, v) /\ SameClaims(w, v)
<1> DEFINE v == TakeOff(w, t)
           h == Headroom(w)
           k == Headroom(v)
<1>1. Booked(w, n, m) /\ Marks(h, w.marked)
  BY DEF Sound
<1>2. /\ Booked(v, n, m - Signed(t)) /\ v.marked = w.marked /\ Keeps(w, v) /\ SameClaims(w, v)
      /\ IsHeadroom(k, 0 .. n - 1) /\ IsHeadroom(h, 0 .. n - 1)
      /\ \A s \in 0 .. n - 1 : k[s] = h[s] - t[s]
      /\ Signed(k) = Signed(h) - Signed(t)
  BY <1>1, TakeOffBooked
<1>3. \A s \in 0 .. n - 1 : h[s] >= 0 => t[s] <= h[s]
  OBVIOUS
<1> HIDE DEF v, h, k
<1>4. \A s \in 0 .. n - 1 : h[s] >= 0 => k[s] >= 0
  <2>1. \A s \in 0 .. n - 1 : h[s] \in Int /\ t[s] \in Int
    BY <1>2 DEF IsHeadroom
  <2> QED BY <1>2, <1>3, <2>1
<1>5. Signed(k) <= Signed(h)
  BY <1>2, HeadroomSum
<1>6. Marks(k, w.marked)
  BY <1>1, <1>2, <1>4, <1>5, MarksKept
<1> QED BY <1>2, <1>6 DEF Sound, v, k

\* A negative grant takes out its amount.
LEMMA NegativeGrantIs ==
  ASSUME NEW w, NEW n, NEW m \in Int, Sound(w, n, m), NEW a \in Nat
  PROVE  LET v == CoverOrMark(TakeOff(w, Distribute(a, ShardCount(w))))
         IN  Sound(v, n, m - a) /\ Keeps(w, v)
<1> DEFINE t == Distribute(a, n)
           u == TakeOff(w, t)
<1>1. Booked(w, n, m) /\ n \in Nat \ {0} /\ ShardCount(w) = n /\ a \in Int
  BY WorkspaceRows DEF Sound, Booked, IsWorkspace
<1>2. IsHeadroom(t, 0 .. n - 1) /\ Signed(t) = a
  BY <1>1, DistributeIs
<1> HIDE DEF t
<1>3. Booked(u, n, m - a) /\ Keeps(w, u)
  BY <1>1, <1>2, TakeOffBooked
<1> HIDE DEF u
<1> DEFINE v == CoverOrMark(u)
<1>4. Sound(v, n, m - a) /\ Keeps(u, v)
  BY <1>3, CoverOrMarkIs
<1> HIDE DEF v
<1>5. Keeps(w, v)
  BY <1>3, <1>4, SameTargetsThen DEF Keeps, SameHeld
<1> QED BY <1>1, <1>4, <1>5 DEF v, u, t

\* A guarded debit takes out its amount.
LEMMA DebitIs ==
  ASSUME NEW w, NEW n, NEW m \in Int, Sound(w, n, m), NEW a \in Nat, Debitable(w, a)
  PROVE  LET v == [w EXCEPT !.rows[0].credits = @ - a]
         IN  Sound(v, n, m - a) /\ Keeps(w, v)
<1> DEFINE S == 0 .. n - 1
           b == w.rows[0]
           r == [b EXCEPT !.credits = @ - a]
           v == [w EXCEPT !.rows[0].credits = @ - a]
           x == 0 - a
           h == Headroom(w)
           k == Headroom(v)
<1>1. Booked(w, n, m) /\ Marks(h, w.marked) /\ IsWorkspace(w, n) /\ n \in Nat \ {0}
  BY DEF Sound, Booked, IsWorkspace
<1>2. 0 \in S /\ DOMAIN w.rows = S /\ b \in Row
  BY <1>1, WorkspaceRows, Shards
<1>3. WritesRow(w, v, 0, r)
  BY DEF WritesRow
<1>4. r \in Row /\ r.credits = b.credits + x /\ r.usage = b.usage /\ r.reserved = b.reserved
      /\ b.credits \in Int /\ b.usage \in Int /\ b.reserved \in Int /\ x \in Int
  <2> HIDE DEF b
  <2> QED BY <1>2 DEF Row
<1> HIDE DEF r, v
<1>5. /\ Booked(v, n, m + x) /\ v.marked = w.marked /\ SameClaims(w, v)
      /\ v.rows = [w.rows EXCEPT ![0] = r]
      /\ IsHeadroom(k, S) /\ IsHeadroom(h, S)
      /\ k[0] = r.credits - r.usage - r.reserved
      /\ h[0] = b.credits - b.usage - b.reserved
      /\ Signed(k) = Signed(h) + k[0] - h[0]
      /\ \A t \in S \ {0} : k[t] = h[t]
  <2> HIDE DEF x
  <2>1. r \in Row /\ x \in Int /\ r.credits = w.rows[0].credits + x
    BY <1>4
  <2> HIDE DEF b
  <2>2. /\ Booked(v, n, m + x) /\ v.marked = w.marked /\ SameClaims(w, v)
        /\ v.rows = [w.rows EXCEPT ![0] = r]
        /\ IsHeadroom(k, S) /\ IsHeadroom(h, S)
        /\ k[0] = r.credits - r.usage - r.reserved
        /\ h[0] = w.rows[0].credits - w.rows[0].usage - w.rows[0].reserved
        /\ Signed(k) = Signed(h) + k[0] - h[0]
        /\ \A t \in S \ {0} : k[t] = h[t]
    BY SMTT(60), <1>1, <1>2, <1>3, <2>1, OwnRow
  <2> QED BY <2>2 DEF b
<1>6. SameHeld(w, v)
  BY <1>2, <1>4, <1>5 DEF SameHeld
<1>7. h[0] >= a
  BY DEF Debitable
<1> HIDE DEF h, k
<1>8. PICK y \in Int : y = h[0] /\ k[0] = y - a
  <2>1. PICK p \in Int, q \in Int, z \in Int : p = b.credits /\ q = b.usage /\ z = b.reserved
    BY <1>4
  <2>2. k[0] = (p + x) - q - z /\ h[0] = p - q - z
    BY <1>4, <1>5, <2>1
  <2>3. (p + x) - q - z = (p - q - z) - a /\ p - q - z \in Int
    OBVIOUS
  <2> QED BY <2>2, <2>3
<1>9. Signed(k) <= Signed(h)
  BY <1>5, <1>8, HeadroomSum
<1>10. \A t \in S : h[t] >= 0 => k[t] >= 0
  BY <1>5, <1>7, <1>8
<1>11. Marks(k, w.marked)
  BY <1>1, <1>5, <1>9, <1>10, MarksKept
<1>12. m + x = m - a
  OBVIOUS
<1> QED BY <1>5, <1>6, <1>11, <1>12, SameClaimsTargets DEF Sound, Keeps, v, k

\* What TakeAscending takes of the rows is theirs to give.
LEMMA AscendingSound ==
  ASSUME NEW w, NEW n, NEW m \in Int, Sound(w, n, m), NEW a \in Nat
  PROVE  LET t == TakeAscending(Headroom(w), a)
             v == TakeOff(w, t)
         IN  /\ Sound(v, n, m - SumFunction(t)) /\ Keeps(w, v) /\ SameClaims(w, v)
             /\ SumFunction(t) \in Nat /\ SumFunction(t) <= a
             /\ a <= Signed(Headroom(w)) => SumFunction(t) = a
<1> DEFINE S == 0 .. n - 1
           h == Headroom(w)
           t == TakeAscending(h, a)
           v == TakeOff(w, t)
<1>1. IsHeadroom(h, S)
  BY HeadroomIs DEF Sound, Booked
<1> HIDE DEF h
<1>2. /\ DOMAIN t = S /\ Valued(t, S, Nat)
      /\ \A s \in S : t[s] <= AtLeastZero(h[s])
      /\ SumFunctionOnSet(t, S) <= a
      /\ (a <= Signed(h) => SumFunctionOnSet(t, S) = a)
  BY <1>1, AscendingIs
<1>3. t = [s \in S |-> t[s]]
  <2>1. t = [s \in DOMAIN Spare(h) |-> t[s]]
    BY DEF TakeAscending, TakeInTurn
  <2>2. DOMAIN Spare(h) = S
    BY <1>1, HeadroomSum DEF Spare
  <2> QED BY <2>1, <2>2
<1> HIDE DEF t
<1>4. IsHeadroom(t, S)
  BY <1>1, <1>2, <1>3 DEF IsHeadroom, Valued
<1>5. Signed(t) = SumFunctionOnSet(t, S) /\ SumFunction(t) = Signed(t)
  BY <1>4, HeadroomSum DEF Signed
<1>6. SumFunctionOnSet(t, S) \in Nat
  BY <1>2, SumNat
<1>7. \A s \in S : h[s] >= 0 => t[s] <= h[s]
  BY <1>1, <1>2 DEF IsHeadroom, AtLeastZero
<1>8. Sound(v, n, m - Signed(t)) /\ Keeps(w, v) /\ SameClaims(w, v)
  <2>1. \A s \in 0 .. n - 1 : Headroom(w)[s] >= 0 => t[s] <= Headroom(w)[s]
    BY <1>7 DEF h
  <2>2. Signed(t) >= 0
    BY <1>5, <1>6
  <2> QED BY <1>4, <2>1, <2>2, TakeOffSound
<1> QED BY <1>2, <1>5, <1>6, <1>8 DEF t, h

\* A peer plane's usage moves no money.
LEMMA FederatedIs ==
  ASSUME NEW w, NEW n, NEW m \in Int, Sound(w, n, m), NEW cost \in Nat, NEW v,
         v = IF Headroom(Spent(w, 0, 0, cost))[0] < 0 /\ ~w.marked
             THEN CoverOrMark(Spent(w, 0, 0, cost)) ELSE Spent(w, 0, 0, cost)
  PROVE  Sound(v, n, m) /\ Keeps(w, v)
<1> DEFINE own == Spent(w, 0, 0, cost)
<1>1. Booked(w, n, m) /\ n \in Nat \ {0} /\ IsWorkspace(w, n)
  BY DEF Sound, Booked, IsWorkspace
<1>2. 0 \in 0 .. n - 1 /\ DOMAIN w.rows = 0 .. n - 1 /\ w.rows[0].reserved \in Nat
  BY <1>1, WorkspaceRows, Shards DEF Row
<1>3. 0 <= w.rows[0].reserved /\ 0 <= cost /\ 0 \in Nat
  BY <1>2
<1>4. Booked(own, n, m)
  BY <1>1, <1>2, <1>3, SpentIs
<1>5. Keeps(w, own)
  <2>1. GivesBack(w, own, 0, 0) /\ SameTargets(w, own)
    BY <1>1, <1>2, <1>3, SpentGivesBack
  <2> HIDE DEF own
  <2>2. own.rows[0].reserved = w.rows[0].reserved
    BY <1>2, <2>1 DEF GivesBack
  <2> QED BY <1>2, <2>1, <2>2 DEF Keeps, SameHeld, GivesBack
<1>6. CASE Headroom(own)[0] < 0 /\ ~w.marked
  <2>1. v = CoverOrMark(own)
    BY <1>6
  <2> HIDE DEF own
  <2>2. Sound(v, n, m) /\ Keeps(own, v)
    BY <1>4, <2>1, CoverOrMarkIs
  <2> QED BY <1>5, <2>2, SameTargetsThen DEF Keeps, SameHeld
<1>7. CASE ~(Headroom(own)[0] < 0 /\ ~w.marked)
  <2>1. v = own
    BY <1>7
  <2>2. Sound(own, n, m)
    BY <1>2, <1>3, <1>7, SpentMarks
  <2> QED BY <1>5, <2>1, <2>2
<1> QED BY <1>6, <1>7

\* A rebalance moves idle headroom and makes none.
LEMMA RebalanceIs ==
  ASSUME NEW w, NEW n, NEW m \in Int, Sound(w, n, m), NEW target \in 0 .. n - 1, NEW est \in Nat,
         Signed(Headroom(w)) >= est, Headroom(w)[target] < est
  PROVE  LET v == TakeOff(w, Given(Headroom(w), target, est))
         IN  Sound(v, n, m) /\ Keeps(w, v)
<1> DEFINE S == 0 .. n - 1
           h == Headroom(w)
           g == Given(h, target, est)
           v == TakeOff(w, g)
<1>1. IsHeadroom(h, S)
  BY HeadroomIs DEF Sound, Booked
<1>2. /\ IsHeadroom(g, S) /\ Signed(g) = 0 /\ g[target] = h[target] - est
      /\ \A s \in S \ {target} : g[s] >= 0 /\ g[s] <= AtLeastZero(h[s])
  BY <1>1, DonationsAre
<1> HIDE DEF g, h
<1>3. \A s \in S : h[s] \in Int /\ g[s] \in Int
  BY <1>1, <1>2 DEF IsHeadroom
<1>4. \A s \in S : h[s] >= 0 => g[s] <= h[s]
  BY <1>2, <1>3 DEF AtLeastZero
<1>5. Sound(v, n, m - Signed(g)) /\ Keeps(w, v)
  <2>1. (\A s \in 0 .. n - 1 : Headroom(w)[s] >= 0 => g[s] <= Headroom(w)[s]) /\ Signed(g) >= 0
    BY <1>2, <1>4 DEF h
  <2> QED BY <1>2, <2>1, TakeOffSound
<1>6. m - Signed(g) = m
  BY <1>2
<1> QED BY <1>5, <1>6 DEF g, h

\* Rows and mark are written.
LEMMA Resharded ==
  ASSUME NEW w, NEW n, IsWorkspace(w, n), NEW k \in Nat \ {0}, NEW R \in [0 .. k - 1 -> Row]
  PROVE  LET v == [w EXCEPT !.rows = R, !.marked = FALSE]
         IN  /\ IsWorkspace(v, k) /\ v.rows = R /\ v.marked = FALSE /\ SameClaims(w, v)
<1> DEFINE v == [w EXCEPT !.rows = R, !.marked = FALSE]
<1>1. w \in Workspace(n)
  BY DEF IsWorkspace
<1>2. v \in [rows : {R}, marked : {FALSE}, claims : {w.claims}, facts : {w.facts},
             causes : {w.causes}]
  BY <1>1 DEF Workspace
<1>3. v.rows = R /\ v.marked = FALSE /\ v.claims = w.claims /\ v.facts = w.facts
      /\ v.causes = w.causes
  <2> HIDE DEF v
  <2> QED BY <1>2
<1>4. w.claims \in [Payments -> ClaimRow] /\ w.facts \in [Refs -> Fact] /\ w.causes \in SUBSET Causes
  BY <1>1 DEF Workspace
<1> HIDE DEF v
<1>5. v \in Workspace(k)
  BY <1>2, <1>4 DEF Workspace
<1> QED BY <1>3, <1>5 DEF IsWorkspace, SameClaims, v

\* The signed sum, by the rows' counters.
LEMMA SignedIs ==
  ASSUME NEW w, NEW n, IsWorkspace(w, n)
  PROVE  Signed(Headroom(w)) = Total(w, "credits") - Total(w, "usage") - Total(w, "reserved")
<1> DEFINE S == 0 .. n - 1
           c == Counter(w, "credits")
           u == Counter(w, "usage")
           r == Counter(w, "reserved")
           h == Headroom(w)
           d == [s \in S |-> c[s] - u[s]]
<1>1. IsHeadroom(c, S) /\ IsHeadroom(u, S) /\ IsHeadroom(r, S) /\ IsHeadroom(h, S)
      /\ \A s \in S : h[s] = c[s] - u[s] - r[s]
  BY WorkspaceRows, HeadroomIs
<1>2. Total(w, "credits") = Signed(c) /\ Total(w, "usage") = Signed(u)
      /\ Total(w, "reserved") = Signed(r)
  BY TotalIs
<1> HIDE DEF c, u, r, h
<1>3. IsDifference(d, c, u, S)
  BY DEF IsDifference
<1>4. IsHeadroom(d, S) /\ Signed(d) = Signed(c) - Signed(u)
  <2> HIDE DEF d, S
  <2> QED BY <1>1, <1>3, Minus
<1>5. IsDifference(h, d, r, S)
  <2>1. h = [s \in S |-> h[s]]
    BY <1>1 DEF IsHeadroom
  <2>2. \A s \in S : d[s] = c[s] - u[s]
    OBVIOUS
  <2> HIDE DEF d
  <2> QED BY <1>1, <2>1, <2>2 DEF IsDifference
<1>6. Signed(h) = Signed(d) - Signed(r)
  <2> HIDE DEF d, S
  <2> QED BY <1>1, <1>4, <1>5, Minus
<1> QED BY <1>2, <1>4, <1>6 DEF h

\* A counter that is kept on the first rows of more.
Extended(w, f, k) == [s \in 0 .. k - 1 |-> IF s \in DOMAIN w.rows THEN w.rows[s][f] ELSE 0]

\* New rows hold nothing of a counter.
LEMMA ExtendedIs ==
  ASSUME NEW w, NEW n, IsWorkspace(w, n), NEW k \in Nat, k > n, NEW f \in {"credits", "usage", "reserved"}
  PROVE  /\ IsHeadroom(Extended(w, f, k), 0 .. k - 1)
         /\ Signed(Extended(w, f, k)) = Total(w, f)
<1> DEFINE S == 0 .. n - 1
           T == 0 .. k - 1
           c == Counter(w, f)
           e == Extended(w, f, k)
<1>1. n \in Nat \ {0} /\ k \in Nat \ {0} /\ DOMAIN w.rows = S
  BY WorkspaceRows DEF IsWorkspace
<1>2. IsHeadroom(c, S) /\ \A s \in S : c[s] = w.rows[s][f]
  BY <1>1, WorkspaceRows DEF Counter
<1>3. S \in SUBSET T /\ T \in SUBSET Nat /\ IsFiniteSet(T)
  <2>1. T \in SUBSET Nat /\ IsFiniteSet(T)
    BY <1>1, Shards
  <2>2. S \in SUBSET T
    BY <1>1
  <2> QED BY <2>1, <2>2
<1>4. e = [s \in T |-> IF s \in S THEN c[s] ELSE 0]
  BY <1>1, <1>2 DEF Extended
<1>5. Total(w, f) = SumFunctionOnSet(c, S)
  BY TotalIs
<1> HIDE DEF c, e, S, T
<1>6. (\A s \in S : e[s] = c[s]) /\ (\A s \in T \ S : e[s] = 0) /\ e = [s \in T |-> e[s]]
  BY <1>3, <1>4
<1>7. IsHeadroom(e, T)
  BY <1>2, <1>3, <1>6 DEF IsHeadroom
<1>8. Valued(e, T, Int) /\ Valued(c, S, Int) /\ Signed(e) = SumFunctionOnSet(e, T)
  BY <1>2, <1>7, HeadroomSum
<1>9. SumFunctionOnSet(e, T) = SumFunctionOnSet(e, S)
  BY <1>3, <1>6, <1>8, SumOfPart
<1>10. SumFunctionOnSet(c, S) = SumFunctionOnSet(e, S)
  <2>1. \A s \in S : c[s] = e[s]
    BY <1>6
  <2> QED BY <1>8, <2>1, SumSame
<1> QED BY <1>5, <1>7, <1>8, <1>9, <1>10 DEF e, T

\* k rows with credit c, and no debt.
Solvent(R, c, k) ==
  /\ R \in [0 .. k - 1 -> Row] /\ IsHeadroom(c, 0 .. k - 1)
  /\ \A s \in 0 .. k - 1 : /\ R[s].credits = c[s]
                           /\ R[s].credits - R[s].usage - R[s].reserved >= 0

\* Rows written again, none of them negative, with the same total.
LEMMA RowsOf ==
  ASSUME NEW w, NEW n, NEW m \in Int, Booked(w, n, m), NEW k \in Nat \ {0},
         NEW R, NEW c, Solvent(R, c, k), Signed(c) = Total(w, "credits")
  PROVE  LET v == [w EXCEPT !.rows = R, !.marked = FALSE]
         IN  Sound(v, k, m) /\ v.rows = R /\ SameClaims(w, v) /\ SameTargets(w, v)
<1> DEFINE S == 0 .. k - 1
           v == [w EXCEPT !.rows = R, !.marked = FALSE]
<1>1. IsWorkspace(w, n) /\ SplitClaims(w) /\ Total(w, "credits") + Recovered(w) = m
  BY DEF Booked
<1>2. IsWorkspace(v, k) /\ v.rows = R /\ v.marked = FALSE /\ SameClaims(w, v)
  BY <1>1, Resharded DEF Solvent
<1> HIDE DEF v
<1>3. Recovered(v) = Recovered(w) /\ SplitClaims(v) /\ SameTargets(w, v)
  BY <1>1, <1>2, SameRecovered, SameClaimsTargets DEF SameClaims
<1>4. Total(v, "credits") = Total(w, "credits")
  <2> DEFINE j == Counter(v, "credits")
  <2>1. IsHeadroom(j, S) /\ (\A s \in S : j[s] = c[s]) /\ Total(v, "credits") = Signed(j)
        /\ IsHeadroom(c, S)
    BY <1>2, WorkspaceRows, TotalIs DEF Solvent
  <2> HIDE DEF j, S
  <2>2. j = c
    BY <2>1, HeadroomEqual
  <2> QED BY <2>1, <2>2
<1>5. Negative(Headroom(v)) = {}
  <2>1. IsHeadroom(Headroom(v), S) /\ DOMAIN Headroom(v) = S
        /\ \A s \in S : Headroom(v)[s] = R[s].credits - R[s].usage - R[s].reserved
    BY <1>2, HeadroomIs, HeadroomSum
  <2>2. \A s \in S : Headroom(v)[s] \in Int /\ Headroom(v)[s] >= 0
    BY <2>1 DEF IsHeadroom, Solvent
  <2> QED BY <2>1, <2>2 DEF Negative
<1> QED BY <1>1, <1>2, <1>3, <1>4, <1>5 DEF Sound, Booked, Marks, v

\* The n rows of w keep their reservations among the k rows of v.
HoldsStay(w, v, n, k) ==
  /\ DOMAIN v.rows = 0 .. k - 1
  /\ \A s \in 0 .. n - 1 : v.rows[s].reserved = w.rows[s].reserved
  /\ \A s \in n .. k - 1 : v.rows[s].reserved = 0

\* A split that keeps its holds keeps the books and every reservation.
LEMMA SplitIs ==
  ASSUME NEW w, NEW n, NEW m \in Int, Sound(w, n, m), NEW k \in Nat, k > n,
         Negative(Headroom(w)) = {}
  PROVE  LET v == [w EXCEPT !.rows = SplitRows(w, k), !.marked = FALSE]
         IN  Sound(v, k, m) /\ SameTargets(w, v) /\ HoldsStay(w, v, n, k)
<1> DEFINE S == 0 .. n - 1
           T == 0 .. k - 1
           x == Signed(Headroom(w))
           f == Distribute(x, k)
           u == Extended(w, "usage", k)
           r == Extended(w, "reserved", k)
           R == SplitRows(w, k)
           b == [s \in T |-> u[s] + r[s]]
           c == [s \in T |-> b[s] + f[s]]
<1>1. Booked(w, n, m) /\ IsWorkspace(w, n) /\ n \in Nat \ {0} /\ k \in Nat \ {0}
  BY DEF Sound, Booked, IsWorkspace
<1>2. DOMAIN w.rows = S /\ (\A s \in S : w.rows[s].usage \in Nat /\ w.rows[s].reserved \in Nat)
  BY <1>1, WorkspaceRows DEF Row
<1>3. x \in Int /\ x >= 0
  BY <1>1, HeadroomIs, HeadroomSum, SignedOfPositive
<1>4. IsHeadroom(f, T) /\ Signed(f) = x /\ \A s \in T : f[s] >= 0
  <2> HIDE DEF x
  <2> QED BY <1>1, <1>3, DistributeIs
<1>5. IsHeadroom(u, T) /\ Signed(u) = Total(w, "usage")
      /\ IsHeadroom(r, T) /\ Signed(r) = Total(w, "reserved")
  BY <1>1, ExtendedIs
<1>6. \A s \in T : u[s] = (IF s \in S THEN w.rows[s].usage ELSE 0)
                   /\ r[s] = (IF s \in S THEN w.rows[s].reserved ELSE 0)
  BY <1>2 DEF Extended
<1>7. R = [s \in T |-> [usage |-> u[s], reserved |-> r[s], credits |-> u[s] + r[s] + f[s]]]
  BY DEF SplitRows, Extended
<1> HIDE DEF f, u, r, R, x
<1>8. \A s \in T : u[s] \in Nat /\ r[s] \in Nat /\ f[s] \in Nat
  <2>1. \A s \in T : f[s] \in Int
    BY <1>4 DEF IsHeadroom
  <2> QED BY <1>2, <1>4, <1>6, <2>1
<1>9. IsHeadroom(b, T) /\ Signed(b) = Signed(u) + Signed(r)
  <2>1. IsSum(b, u, r, T)
    BY DEF IsSum
  <2> HIDE DEF b, T
  <2> QED BY <1>5, <2>1, Plus
<1>10. IsHeadroom(c, T) /\ Signed(c) = Signed(b) + Signed(f)
  <2>1. IsSum(c, b, f, T)
    BY DEF IsSum
  <2> HIDE DEF b, c, T
  <2> QED BY <1>4, <1>9, <2>1, Plus
<1>11. Signed(c) = Total(w, "credits")
  <2>1. x = Total(w, "credits") - Total(w, "usage") - Total(w, "reserved")
    BY <1>1, SignedIs DEF x
  <2>2. Total(w, "credits") \in Int /\ Total(w, "usage") \in Int /\ Total(w, "reserved") \in Int
    BY <1>1, TotalIs
  <2> QED BY <1>4, <1>5, <1>9, <1>10, <2>1, <2>2
<1>12. \A s \in T : c[s] = u[s] + r[s] + f[s]
  OBVIOUS
<1> HIDE DEF b, c
<1>13. ASSUME NEW s \in T
       PROVE  /\ R[s] \in Row /\ R[s].credits = c[s] /\ R[s].reserved = r[s]
              /\ R[s].credits - R[s].usage - R[s].reserved >= 0
  <2>1. PICK p \in Nat, q \in Nat, z \in Nat : p = u[s] /\ q = r[s] /\ z = f[s]
    BY <1>8
  <2>2. R[s] = [usage |-> p, reserved |-> q, credits |-> p + q + z]
    BY <1>7, <2>1
  <2>3. R[s].usage = p /\ R[s].reserved = q /\ R[s].credits = p + q + z /\ R[s] \in Row
    BY <2>2 DEF Row
  <2>4. (p + q + z) - p - q >= 0
    OBVIOUS
  <2> QED BY <1>12, <2>1, <2>3, <2>4
<1>14. R \in [T -> Row]
  BY <1>7, <1>13
<1> DEFINE v == [w EXCEPT !.rows = R, !.marked = FALSE]
<1>15. Sound(v, k, m) /\ v.rows = R /\ SameTargets(w, v)
  <2>1. Solvent(R, c, k)
    BY <1>10, <1>13, <1>14 DEF Solvent
  <2> QED BY <1>1, <1>11, <2>1, RowsOf
<1> HIDE DEF v
<1>16. \A s \in S : s \in T /\ v.rows[s].reserved = w.rows[s].reserved
  BY <1>1, <1>6, <1>13, <1>15
<1>17. \A s \in n .. k - 1 : v.rows[s].reserved = 0
  <2>1. \A s \in n .. k - 1 : s \in T /\ s \notin S
    BY <1>1
  <2> QED BY <1>6, <1>13, <1>15, <2>1
<1>18. HoldsStay(w, v, n, k)
  BY <1>14, <1>15, <1>16, <1>17 DEF HoldsStay
<1> QED BY <1>15, <1>18 DEF v, R

\* A reshard of rows without holds keeps the books.
LEMMA EvenIs ==
  ASSUME NEW w, NEW n, NEW m \in Int, Sound(w, n, m), NEW k \in Nat \ {0},
         \A s \in 0 .. k - 1 : EvenRows(w, k)[s].usage <= EvenRows(w, k)[s].credits
  PROVE  LET v == [w EXCEPT !.rows = EvenRows(w, k), !.marked = FALSE]
         IN  /\ Sound(v, k, m) /\ SameTargets(w, v) /\ DOMAIN v.rows = 0 .. k - 1
             /\ \A s \in 0 .. k - 1 : v.rows[s].reserved = 0
<1> DEFINE T == 0 .. k - 1
           x == Total(w, "credits")
           y == Total(w, "usage")
           c == Distribute(x, k)
           u == Distribute(y, k)
           R == EvenRows(w, k)
<1>1. Booked(w, n, m) /\ IsWorkspace(w, n) /\ n \in Nat \ {0}
  BY DEF Sound, Booked, IsWorkspace
<1>2. x \in Int /\ y \in Nat
  <2>1. x \in Int /\ y = SumFunctionOnSet(Counter(w, "usage"), 0 .. n - 1)
    BY <1>1, TotalIs
  <2>2. Valued(Counter(w, "usage"), 0 .. n - 1, Nat)
    BY ZenonT(40), <1>1, WorkspaceRows, Shards DEF Row, Valued
  <2> QED BY <2>1, <2>2, SumNat
<1>3. R = [s \in T |-> [credits |-> c[s], usage |-> u[s], reserved |-> 0]]
  BY DEF EvenRows
<1>4. \A s \in T : R[s].usage <= R[s].credits
  OBVIOUS
<1> HIDE DEF x, y, R
<1>5. IsHeadroom(c, T) /\ Signed(c) = x
  BY <1>2, DistributeIs
<1>6. IsHeadroom(u, T) /\ \A s \in T : u[s] >= 0
  BY <1>2, DistributeIs
<1> HIDE DEF c, u
<1>7. ASSUME NEW s \in T
      PROVE  /\ R[s] \in Row /\ R[s].credits = c[s] /\ R[s].reserved = 0
             /\ R[s].credits - R[s].usage - R[s].reserved >= 0
  <2>1. PICK p \in Int, q \in Nat : p = c[s] /\ q = u[s]
    BY <1>5, <1>6 DEF IsHeadroom
  <2>2. R[s] = [credits |-> p, usage |-> q, reserved |-> 0]
    BY <1>3, <2>1
  <2>3. R[s].usage = q /\ R[s].reserved = 0 /\ R[s].credits = p /\ R[s] \in Row
    BY <2>2 DEF Row
  <2>4. p - q - 0 >= 0
    BY <1>4, <2>3
  <2> QED BY <2>1, <2>3, <2>4
<1>8. R \in [T -> Row]
  BY <1>3, <1>7
<1> DEFINE v == [w EXCEPT !.rows = R, !.marked = FALSE]
<1>9. Sound(v, k, m) /\ v.rows = R /\ SameTargets(w, v)
  <2>1. Signed(c) = Total(w, "credits")
    BY <1>5 DEF x
  <2>2. Solvent(R, c, k)
    BY <1>5, <1>7, <1>8 DEF Solvent
  <2> QED BY <1>1, <2>1, <2>2, RowsOf
<1> HIDE DEF v
<1> QED BY <1>7, <1>8, <1>9 DEF v, R

-----------------------------------------------------------------------------
(* Refunds and disputes.                                                     *)

\* The succeeded refunds of payment p.
Refunds(facts, p) ==
  {f \in {e \in Refs : PaymentOf[e] = p} : KindOf[f] = "refund" /\ facts[f].status = "succeeded"}
Disputed(facts, p) ==
  \E f \in {e \in Refs : PaymentOf[e] = p} :
    /\ KindOf[f] = "dispute"
    /\ facts[f].status \in {"succeeded", "lost", "closed"}

\* The recovery target.
LEMMA TargetIs ==
  ASSUME NEW facts, NEW p \in Payments
  PROVE  /\ RecoveryTarget(facts, p) =
              IF Disputed(facts, p) THEN Credited[p]
              ELSE (Credited[p] * Least(Paid[p], SumFunctionOnSet(RefundOf, Refunds(facts, p))))
                      \div Paid[p]
         /\ RecoveryTarget(facts, p) \in Nat
<1> DEFINE F == Refunds(facts, p)
           y == SumFunctionOnSet(RefundOf, F)
           t == RecoveryTarget(facts, p)
<1>1. t = IF Disputed(facts, p) THEN Credited[p]
          ELSE (Credited[p] * Least(Paid[p], y)) \div Paid[p]
  BY DEF RecoveryTarget, Refunds, Disputed
<1>2. y \in Nat
  <2>1. Valued(RefundOf, Refs, Nat)
    BY PaymentsAssumption DEF Valued
  <2>2. F \in SUBSET Refs
    BY DEF Refunds
  <2> HIDE DEF F
  <2>3. Valued(RefundOf, F, Nat)
    BY <2>1, <2>2, ValuedOnPart
  <2> QED BY <2>3, SumNat
<1> HIDE DEF y, t
<1>3. PICK a \in Nat, b \in Nat \ {0} : a = Credited[p] /\ b = Paid[p]
  BY PaymentsAssumption
<1>4. PICK x \in Nat : x = Least(b, y)
  BY <1>2 DEF Least
<1>5. PICK z \in Nat : z = a * x
  OBVIOUS
<1>6. z \div b \in Nat
  BY DivMod
<1>7. t \in Nat
  BY <1>1, <1>3, <1>4, <1>5, <1>6
<1> QED BY <1>1, <1>7 DEF t, y

\* A target depends on the facts of its payment alone.
LEMMA TargetSame ==
  ASSUME NEW facts, NEW g, NEW p \in Payments,
         \A f \in Refs : PaymentOf[f] = p => g[f] = facts[f]
  PROVE  RecoveryTarget(g, p) = RecoveryTarget(facts, p)
<1>1. Refunds(g, p) = Refunds(facts, p)
  BY DEF Refunds
<1>2. Disputed(g, p) <=> Disputed(facts, p)
  BY DEF Disputed
<1> QED BY <1>1, <1>2, TargetIs

\* Nothing is claimed from a payment without refunds or disputes.
LEMMA TargetNone ==
  ASSUME NEW facts, NEW p \in Payments, \A f \in Refs : PaymentOf[f] = p => facts[f] = NoFact
  PROVE  RecoveryTarget(facts, p) = 0
<1>1. Refunds(facts, p) = {} /\ ~Disputed(facts, p)
  <2>1. \A f \in Refs : PaymentOf[f] = p => facts[f].status = "none"
    BY DEF NoFact
  <2> QED BY <2>1 DEF Refunds, Disputed
<1>2. PICK a \in Nat, b \in Nat \ {0} : a = Credited[p] /\ b = Paid[p]
  BY PaymentsAssumption
<1>3. Least(b, SumFunctionOnSet(RefundOf, Refunds(facts, p))) = 0
  BY <1>1, SumOfNone DEF Least
<1>4. RecoveryTarget(facts, p) = (a * 0) \div b
  BY <1>1, <1>2, <1>3, TargetIs
<1>5. a * 0 = 0
  OBVIOUS
<1>6. 0 \div b = 0
  <2>1. 0 \div b \in Nat /\ 0 % b \in Nat /\ 0 = b * (0 \div b) + (0 % b)
    BY DivMod
  <2>2. PICK q \in Nat, r \in Nat : q = 0 \div b /\ 0 = b * q + r
    BY <2>1
  <2>3. q = 0
    <3>1. CASE q >= 1
      <4>1. b * q >= b
        BY <3>1
      <4>2. b * q \in Nat
        OBVIOUS
      <4> QED BY <2>2, <4>1, <4>2
    <3> QED BY <3>1
  <2> QED BY <2>2, <2>3
<1> QED BY <1>4, <1>5, <1>6

\* A credited payment's claim is what its refunds and disputes come to, and
\* nothing is claimed or known of the others yet.
Targets(w) ==
  \A p \in Payments :
    IF w.claims[p].credited THEN w.claims[p].target = RecoveryTarget(w.facts, p)
    ELSE /\ w.claims[p].target = 0
         /\ \A f \in Refs : PaymentOf[f] = p => w.facts[f] = NoFact

\* A step that sets no target and learns nothing keeps them right.
LEMMA TargetsKept ==
  ASSUME NEW w, NEW v, SameTargets(w, v), Targets(w)
  PROVE  Targets(v)
BY DEF SameTargets, Targets

WritesClaim(w, v, p, c) == v = [w EXCEPT !.claims[p] = c]

\* One claim is written.
LEMMA ClaimWritten ==
  ASSUME NEW w, NEW n, IsWorkspace(w, n), SplitClaims(w), NEW p \in Payments, NEW c \in ClaimRow,
         c.target = c.recovered + c.unrecovered, NEW v, WritesClaim(w, v, p, c)
  PROVE  /\ IsWorkspace(v, n) /\ v.rows = w.rows /\ v.marked = w.marked /\ v.facts = w.facts
         /\ SplitClaims(v) /\ v.claims[p] = c /\ v.causes = w.causes
         /\ \A q \in Payments \ {p} : v.claims[q] = w.claims[q]
         /\ Recovered(v) = Recovered(w) + c.recovered - w.claims[p].recovered
<1>1. w \in Workspace(n) /\ w.claims \in [Payments -> ClaimRow]
  BY DEF IsWorkspace, Workspace
<1>2. /\ v.rows = w.rows /\ v.marked = w.marked /\ v.facts = w.facts /\ v.causes = w.causes
      /\ v.claims = [w.claims EXCEPT ![p] = c]
  BY <1>1 DEF Workspace, WritesClaim
<1>3. v.claims \in [Payments -> ClaimRow] /\ v.claims[p] = c
      /\ \A q \in Payments \ {p} : v.claims[q] = w.claims[q]
  BY <1>1, <1>2
<1>4. IsWorkspace(v, n)
  BY <1>1, <1>2, <1>3 DEF IsWorkspace, Workspace, WritesClaim
<1>5. SplitClaims(v)
  BY <1>3 DEF SplitClaims
<1>6. Recovered(v) = Recovered(w) + c.recovered - w.claims[p].recovered
  <2> DEFINE a == [q \in Payments |-> w.claims[q].recovered]
             b == [q \in Payments |-> v.claims[q].recovered]
  <2>1. IsHeadroom(a, Payments) /\ Recovered(w) = Signed(a)
    BY RecoveredIs
  <2>2. IsHeadroom(b, Payments) /\ Recovered(v) = Signed(b)
    BY <1>4, RecoveredIs
  <2>3. a[p] = w.claims[p].recovered /\ b[p] = c.recovered /\ \A q \in Payments \ {p} : b[q] = a[q]
    BY <1>3
  <2> HIDE DEF a, b
  <2>4. Valued(a, Payments, Int) /\ b[p] \in Int /\ \A q \in Payments \ {p} : b[q] = a[q]
    BY <2>1, <2>2, <2>3, HeadroomSum DEF IsHeadroom
  <2>5. SumFunctionOnSet(b, Payments) = SumFunctionOnSet(a, Payments) + b[p] - a[p]
    BY <2>4, SumChanged
  <2> QED BY <2>1, <2>2, <2>3, <2>5, HeadroomSum
<1> QED BY <1>2, <1>3, <1>4, <1>5, <1>6

\* What a change of target does to a claim.
LEMMA RetargetIs ==
  ASSUME NEW c \in ClaimRow, NEW t \in Nat, NEW r \in Int, NEW u \in Int,
         c.recovered + r >= 0, c.unrecovered + u >= 0
  PROVE  LET e == Retarget(c, t, r, u)
         IN  /\ e \in ClaimRow /\ e.credited = c.credited /\ e.target = t
             /\ e.recovered = c.recovered + r /\ e.unrecovered = c.unrecovered + u
<1> DEFINE e == Retarget(c, t, r, u)
<1>1. PICK x \in Nat, y \in Nat : x = c.recovered + r /\ y = c.unrecovered + u
  BY DEF ClaimRow
<1>2. e = [c EXCEPT !.target = t, !.recovered = x, !.unrecovered = y]
  BY <1>1 DEF Retarget
<1>3. e \in [credited : {c.credited}, target : {t}, recovered : {x}, unrecovered : {y}]
  BY <1>2 DEF ClaimRow
<1> HIDE DEF e
<1>4. c.credited \in BOOLEAN
  BY DEF ClaimRow
<1>5. e \in ClaimRow
  BY <1>3, <1>4 DEF ClaimRow
<1>6. e.credited = c.credited /\ e.target = t /\ e.recovered = x /\ e.unrecovered = y
  BY <1>3
<1> QED BY <1>1, <1>5, <1>6 DEF e

\* A claim moves from w to v, and its payment's target is set.
Retargets(w, v, p, target) ==
  /\ v.facts = w.facts /\ v.claims[p].target = target
  /\ \A q \in Payments : v.claims[q].credited = w.claims[q].credited
  /\ \A q \in Payments \ {p} : v.claims[q].target = w.claims[q].target

\* A larger target is booked in full.
LEMMA DebitedIs ==
  ASSUME NEW w, NEW n, NEW m \in Int, Sound(w, n, m), NEW p \in Payments, NEW target \in Nat,
         target > w.claims[p].target
  PROVE  LET v == Debited(w, p, target)
         IN  Sound(v, n, m) /\ SameHeld(w, v) /\ Retargets(w, v, p, target)
<1> DEFINE b == w.claims[p]
           more == target - b.target
           t == TakeAscending(Headroom(w), more)
           got == SumFunction(t)
           u == TakeOff(w, t)
           v == Debited(w, p, target)
           c == Retarget(b, target, got, more - got)
<1>1. IsWorkspace(w, n) /\ SplitClaims(w)
  BY DEF Sound, Booked
<1>2. b \in ClaimRow /\ b.target \in Nat /\ b.recovered \in Nat /\ b.unrecovered \in Nat
      /\ b.target = b.recovered + b.unrecovered
  BY <1>1, ClaimsAre DEF SplitClaims
<1>3. more \in Nat
  BY <1>2
<1>4. v = [u EXCEPT !.claims[p] = Retarget(@, target, got, more - got)]
  BY DEF Debited
<1> HIDE DEF more
<1>5. /\ Sound(u, n, m - got) /\ Keeps(w, u) /\ SameClaims(w, u)
      /\ got \in Nat /\ got <= more
  BY <1>3, AscendingSound
<1>6. u.claims[p] = b /\ u.claims = w.claims
  BY <1>5 DEF SameClaims
<1> HIDE DEF u, t, got, b, v
<1>7. PICK x \in Nat, y \in Nat : x = b.recovered + got /\ y = b.unrecovered + (more - got)
  BY <1>2, <1>3, <1>5
<1>8. WritesClaim(u, v, p, c)
  BY <1>4, <1>6 DEF WritesClaim
<1>9. c \in ClaimRow /\ c.credited = b.credited /\ c.target = target /\ c.recovered = x /\ c.unrecovered = y
  <2>1. got \in Int /\ more - got \in Int /\ b.recovered + got >= 0 /\ b.unrecovered + (more - got) >= 0
    BY <1>3, <1>5, <1>7
  <2> DEFINE z == more - got
  <2> HIDE DEF z
  <2>2. Retarget(b, target, got, z) \in ClaimRow /\ Retarget(b, target, got, z).credited = b.credited
        /\ Retarget(b, target, got, z).target = target
        /\ Retarget(b, target, got, z).recovered = b.recovered + got
        /\ Retarget(b, target, got, z).unrecovered = b.unrecovered + z
    <3>1. z \in Int /\ b.unrecovered + z >= 0
      BY <2>1 DEF z
    <3> QED BY <1>2, <2>1, <3>1, RetargetIs
  <2> QED BY <1>7, <2>2 DEF z
<1>10. c.target = c.recovered + c.unrecovered
  <2>1. PICK i \in Nat, j \in Nat, k \in Nat : i = b.recovered /\ j = b.unrecovered /\ k = b.target
    BY <1>2
  <2>2. k = i + j /\ x = i + got /\ y = j + (more - got) /\ more = target - k
    BY <1>2, <1>7, <2>1 DEF more
  <2>3. target = x + y
    BY <1>3, <1>5, <2>2
  <2> QED BY <1>9, <2>3
<1> HIDE DEF c
<1>11. Booked(u, n, m - got) /\ Marks(Headroom(u), u.marked) /\ IsWorkspace(u, n)
       /\ SplitClaims(u) /\ Total(u, "credits") + Recovered(u) = m - got
  BY <1>5 DEF Sound, Booked
<1>12. /\ IsWorkspace(v, n) /\ v.rows = u.rows /\ v.marked = u.marked /\ v.facts = u.facts
       /\ SplitClaims(v) /\ v.claims[p] = c
       /\ \A q \in Payments \ {p} : v.claims[q] = u.claims[q]
       /\ Recovered(v) = Recovered(u) + c.recovered - u.claims[p].recovered
  BY <1>8, <1>9, <1>10, <1>11, ClaimWritten
<1>13. Headroom(v) = Headroom(u) /\ Total(v, "credits") = Total(u, "credits")
  BY <1>12 DEF Headroom, Total
<1>14. Total(v, "credits") + Recovered(v) = m
  <2>1. Total(u, "credits") \in Int /\ Recovered(u) \in Int
    BY <1>11, TotalIs, RecoveredIs
  <2>2. Recovered(v) = Recovered(u) + x - b.recovered
    BY <1>6, <1>9, <1>12
  <2>3. Recovered(v) = Recovered(u) + got
    BY <1>2, <1>5, <1>7, <2>1, <2>2
  <2> QED BY <1>5, <1>11, <1>13, <2>1, <2>3
<1>15. Sound(v, n, m)
  BY <1>11, <1>12, <1>13, <1>14 DEF Sound, Booked
<1>16. SameHeld(w, v)
  BY <1>5, <1>12 DEF Keeps, SameHeld
<1>17. Retargets(w, v, p, target)
  BY <1>5, <1>6, <1>9, <1>12 DEF Retargets, SameClaims, b
<1> QED BY <1>15, <1>16, <1>17 DEF v

\* A smaller target is booked in full.
LEMMA RestoredIs ==
  ASSUME NEW w, NEW n, NEW m \in Int, Sound(w, n, m), NEW p \in Payments, NEW target \in Nat,
         target < w.claims[p].target
  PROVE  LET v == Restored(w, p, target)
         IN  Sound(v, n, m) /\ SameHeld(w, v) /\ Retargets(w, v, p, target)
<1> DEFINE b == w.claims[p]
           less == b.target - target
           canceled == Least(less, b.unrecovered)
           back == Least(less - canceled, b.recovered)
           u == NewMoney(w, back, FALSE)
           v == Restored(w, p, target)
           c == Retarget(b, target, -back, -canceled)
<1>1. IsWorkspace(w, n) /\ SplitClaims(w) /\ Booked(w, n, m)
  BY DEF Sound, Booked
<1>2. b \in ClaimRow /\ b.target \in Nat /\ b.recovered \in Nat /\ b.unrecovered \in Nat
      /\ b.target = b.recovered + b.unrecovered
  BY <1>1, ClaimsAre DEF SplitClaims
<1>3. v = [u EXCEPT !.claims[p] = Retarget(@, target, -back, -canceled)]
  BY DEF Restored
<1>4. PICK i \in Nat, j \in Nat, k \in Nat : i = b.recovered /\ j = b.unrecovered /\ k = b.target
  BY <1>2
<1>5. less \in Nat /\ less = k - target /\ k = i + j
  BY <1>2, <1>4
<1>6. canceled \in Nat /\ canceled = Least(less, j)
  <2> HIDE DEF less
  <2> QED BY <1>4, <1>5 DEF Least
<1> HIDE DEF less
<1>7. back \in Nat /\ back = Least(less - canceled, i)
  <2>1. less - canceled \in Nat
    BY <1>5, <1>6 DEF Least
  <2> HIDE DEF canceled
  <2> QED BY <1>4, <2>1 DEF Least
<1> HIDE DEF canceled, back, u, v
<1>8. canceled + back = less /\ canceled <= j /\ back <= i
  BY <1>5, <1>6, <1>7 DEF Least
<1>9. Sound(u, n, m + back) /\ Keeps(w, u) /\ u.claims = w.claims
  BY <1>1, <1>7, NewMoneyIs DEF u
<1>10. u.claims[p] = b
  BY <1>9
<1> HIDE DEF b
<1>11. PICK x \in Nat, y \in Nat : x = b.recovered + (-back) /\ y = b.unrecovered + (-canceled)
  BY <1>4, <1>6, <1>7, <1>8
<1>12. WritesClaim(u, v, p, c)
  BY <1>3, <1>10 DEF WritesClaim
<1>13. c \in ClaimRow /\ c.credited = b.credited /\ c.target = target /\ c.recovered = x /\ c.unrecovered = y
  <2> DEFINE r == -back
             z == -canceled
  <2>1. r \in Int /\ z \in Int /\ b.recovered + r >= 0 /\ b.unrecovered + z >= 0
    BY <1>6, <1>7, <1>11
  <2> HIDE DEF r, z
  <2>2. Retarget(b, target, r, z) \in ClaimRow /\ Retarget(b, target, r, z).credited = b.credited
        /\ Retarget(b, target, r, z).target = target
        /\ Retarget(b, target, r, z).recovered = b.recovered + r
        /\ Retarget(b, target, r, z).unrecovered = b.unrecovered + z
    BY <1>2, <2>1, RetargetIs
  <2> QED BY <1>11, <2>2 DEF r, z
<1>14. c.target = c.recovered + c.unrecovered
  <2>1. target = (i - back) + (j - canceled)
    BY <1>5, <1>6, <1>7, <1>8
  <2>2. x = i - back /\ y = j - canceled
    BY <1>4, <1>6, <1>7, <1>11
  <2> QED BY <1>13, <2>1, <2>2
<1> HIDE DEF c
<1>15. Marks(Headroom(u), u.marked) /\ IsWorkspace(u, n)
       /\ SplitClaims(u) /\ Total(u, "credits") + Recovered(u) = m + back
  BY <1>9 DEF Sound, Booked
<1>16. /\ IsWorkspace(v, n) /\ v.rows = u.rows /\ v.marked = u.marked /\ v.facts = u.facts
       /\ SplitClaims(v) /\ v.claims[p] = c
       /\ \A q \in Payments \ {p} : v.claims[q] = u.claims[q]
       /\ Recovered(v) = Recovered(u) + c.recovered - u.claims[p].recovered
  BY <1>12, <1>13, <1>14, <1>15, ClaimWritten
<1>17. Headroom(v) = Headroom(u) /\ Total(v, "credits") = Total(u, "credits")
  BY <1>16 DEF Headroom, Total
<1>18. Total(v, "credits") + Recovered(v) = m
  <2>1. Total(u, "credits") \in Int /\ Recovered(u) \in Int
    BY <1>15, TotalIs, RecoveredIs
  <2>2. Recovered(v) = Recovered(u) + (i - back) - i
    <3>1. x = i - back
      BY <1>4, <1>7, <1>11
    <3> QED BY <1>4, <1>10, <1>13, <1>16, <3>1
  <2> QED BY <1>4, <1>7, <1>15, <1>17, <2>1, <2>2
<1>19. Sound(v, n, m)
  BY <1>15, <1>16, <1>17, <1>18 DEF Sound, Booked
<1>20. SameHeld(w, v)
  BY <1>9, <1>16 DEF Keeps, SameHeld
<1>21. Retargets(w, v, p, target)
  BY <1>9, <1>10, <1>13, <1>16 DEF Retargets, Keeps, SameTargets, b
<1> QED BY <1>19, <1>20, <1>21 DEF v

\* The target depends on the statuses of the payment's own refunds and disputes.
LEMMA TargetByStatus ==
  ASSUME NEW facts, NEW g, NEW p \in Payments,
         \A f \in Refs : PaymentOf[f] = p => g[f].status = facts[f].status
  PROVE  RecoveryTarget(g, p) = RecoveryTarget(facts, p)
<1>1. Refunds(g, p) = Refunds(facts, p)
  BY DEF Refunds
<1>2. Disputed(g, p) <=> Disputed(facts, p)
  BY DEF Disputed
<1> QED BY <1>1, <1>2, TargetIs

FactOf(x) == [status |-> x.status, watermark |-> x.watermark]

\* The parts of a notice.
LEMMA NoticeIs ==
  ASSUME NEW x \in Notices
  PROVE  /\ x.ref \in Refs /\ PaymentOf[x.ref] \in Payments /\ FactOf(x) \in Fact
         /\ x.watermark \in Nat /\ x.status \in Statuses
<1>1. x.ref \in Refs /\ x.watermark \in 1 .. MaxStory /\ x.status \in Statuses
  BY DEF Notices
<1>2. PaymentOf[x.ref] \in Payments
  BY <1>1, PaymentsAssumption
<1> QED BY <1>1, <1>2, AmountsAssumption DEF FactOf, Fact

SameCredited(w, v) == \A q \in Payments : v.claims[q].credited = w.claims[q].credited

NotedAs(w, x) == [w EXCEPT !.facts[x.ref] = FactOf(x)]

\* A fact is noted.
LEMMA NotedIs ==
  ASSUME NEW w, NEW n, NEW m, Sound(w, n, m), NEW x \in Notices
  PROVE  LET v == NotedAs(w, x)
         IN  /\ Sound(v, n, m) /\ SameHeld(w, v) /\ v.claims = w.claims
             /\ v.facts = [w.facts EXCEPT ![x.ref] = FactOf(x)]
             /\ v.facts[x.ref] = FactOf(x)
             /\ \A f \in Refs \ {x.ref} : v.facts[f] = w.facts[f]
<1> DEFINE v == NotedAs(w, x)
<1>1. IsWorkspace(w, n) /\ w \in Workspace(n) /\ w.facts \in [Refs -> Fact]
  BY DEF Sound, Booked, IsWorkspace, Workspace
<1>2. x.ref \in Refs /\ FactOf(x) \in Fact
  BY NoticeIs
<1>3. /\ v.rows = w.rows /\ v.marked = w.marked /\ v.claims = w.claims /\ v.causes = w.causes
      /\ v.facts = [w.facts EXCEPT ![x.ref] = FactOf(x)]
  BY <1>1 DEF Workspace, NotedAs
<1>4. v.facts \in [Refs -> Fact] /\ v.facts[x.ref] = FactOf(x)
      /\ \A f \in Refs \ {x.ref} : v.facts[f] = w.facts[f]
  BY <1>1, <1>2, <1>3
<1>5. IsWorkspace(v, n)
  <2> DEFINE F == [w.facts EXCEPT ![x.ref] = FactOf(x)]
  <2>1. v = [w EXCEPT !.facts = F] /\ F \in [Refs -> Fact]
    BY <1>1, <1>2 DEF NotedAs
  <2> HIDE DEF F, v
  <2> QED BY <1>1, <2>1 DEF IsWorkspace, Workspace
<1> HIDE DEF v
<1>6. Headroom(v) = Headroom(w) /\ Total(v, "credits") = Total(w, "credits")
  BY <1>3 DEF Headroom, Total
<1>7. Recovered(v) = Recovered(w) /\ SplitClaims(v) = SplitClaims(w)
  BY <1>3, SameRecovered
<1>8. SameHeld(w, v)
  BY <1>3 DEF SameHeld
<1> QED BY <1>3, <1>4, <1>5, <1>6, <1>7, <1>8 DEF Sound, Booked, v

\* The pause moves no money.
LEMMA SyncPauseIs ==
  ASSUME NEW w, NEW n, NEW m, Sound(w, n, m), NEW b \in BOOLEAN
  PROVE  LET v == SyncPause(w, b)
         IN  Sound(v, n, m) /\ SameHeld(w, v) /\ v.claims = w.claims /\ v.facts = w.facts
<1> DEFINE v == SyncPause(w, b)
           k == IF b THEN w.causes \cup {"principal_recovery"} ELSE w.causes \ {"principal_recovery"}
<1>1. IsWorkspace(w, n) /\ w \in Workspace(n) /\ w.causes \in SUBSET Causes
  BY DEF Sound, Booked, IsWorkspace, Workspace
<1>2. k \in SUBSET Causes /\ v = [w EXCEPT !.causes = k]
  BY <1>1 DEF Causes, SyncPause
<1> HIDE DEF k, v
<1>3. v.rows = w.rows /\ v.marked = w.marked /\ v.claims = w.claims /\ v.facts = w.facts
      /\ IsWorkspace(v, n)
  BY <1>1, <1>2 DEF IsWorkspace, Workspace
<1>4. Headroom(v) = Headroom(w) /\ Total(v, "credits") = Total(w, "credits")
  BY <1>3 DEF Headroom, Total
<1>5. Recovered(v) = Recovered(w) /\ SplitClaims(v) = SplitClaims(w)
  BY <1>3, SameRecovered
<1>6. SameHeld(w, v)
  BY <1>3 DEF SameHeld
<1> QED BY <1>3, <1>4, <1>5, <1>6 DEF Sound, Booked, v

\* The notice x changes what is known of its refund or dispute.
Learned(fact, x) ==
  \/ Outcome(fact, x) = "applied"
  \/ Outcome(fact, x) = "replay" /\ x.watermark > fact.watermark

\* The outcomes of a notice.
LEMMA OutcomeIs ==
  ASSUME NEW fact, NEW x
  PROVE  /\ Outcome(fact, x) \in {"replay", "stale", "illegal", "applied"}
         /\ Outcome(fact, x) = "replay" => fact.status = x.status
BY DEF Outcome

\* Applying a notice keeps the books, and every target right.
LEMMA AppliedIs ==
  ASSUME NEW w, NEW n, NEW m \in Int, Sound(w, n, m), Targets(w), NEW x \in Notices,
         w.claims[PaymentOf[x.ref]].credited
  PROVE  LET v == ApplyNotice(w, x)
         IN  /\ Sound(v, n, m) /\ SameHeld(w, v) /\ Targets(v) /\ SameCredited(w, v)
             /\ \A f \in Refs \ {x.ref} : v.facts[f] = w.facts[f]
             /\ v.facts[x.ref] = IF Learned(w.facts[x.ref], x) THEN FactOf(x) ELSE w.facts[x.ref]
<1> DEFINE p == PaymentOf[x.ref]
           o == Outcome(w.facts[x.ref], x)
           u == NotedAs(w, x)
           t == RecoveryTarget(u.facts, p)
           b == CASE t > w.claims[p].target -> Debited(u, p, t)
                  [] t < w.claims[p].target -> Restored(u, p, t)
                  [] OTHER -> u
           v == ApplyNotice(w, x)
<1>1. v = CASE o = "applied" -> SyncPause(b, b.claims[p].unrecovered > 0)
            [] o = "replay" /\ x.watermark > w.facts[x.ref].watermark -> u
            [] OTHER -> w
  BY DEF ApplyNotice, NotedAs, FactOf
<1>2. p \in Payments /\ x.ref \in Refs
  BY NoticeIs
<1>3. /\ Sound(u, n, m) /\ SameHeld(w, u) /\ u.claims = w.claims
      /\ u.facts[x.ref] = FactOf(x)
      /\ \A f \in Refs \ {x.ref} : u.facts[f] = w.facts[f]
  BY ZenonT(40), NotedIs
<1>4. t \in Nat
  BY <1>2, TargetIs
<1>5. w.claims[p].target \in Nat
  BY <1>2, ClaimsAre DEF Sound, Booked
<1>6. \A q \in Payments \ {p} : RecoveryTarget(u.facts, q) = RecoveryTarget(w.facts, q)
  <2> HIDE DEF u
  <2>1. ASSUME NEW q \in Payments \ {p}
        PROVE  \A f \in Refs : PaymentOf[f] = q => u.facts[f] = w.facts[f]
    BY <1>3
  <2> QED BY <2>1, TargetSame
<1> HIDE DEF u
<1>7. CASE o = "applied"
  <2>1. v = SyncPause(b, b.claims[p].unrecovered > 0)
    <3> HIDE DEF o, b, v
    <3> QED BY <1>1, <1>7
  <2>2. Sound(b, n, m) /\ SameHeld(u, b) /\ Retargets(u, b, p, t)
    <3>1. CASE t > w.claims[p].target
      <4>1. b = Debited(u, p, t)
        BY <3>1, <1>4, <1>5
      <4> HIDE DEF b, t
      <4> QED BY <1>2, <1>3, <1>4, <3>1, <4>1, DebitedIs
    <3>2. CASE t < w.claims[p].target
      <4>1. b = Restored(u, p, t)
        <5>1. ~(t > w.claims[p].target)
          BY <1>4, <1>5, <3>2
        <5> QED BY <3>2, <5>1
      <4> HIDE DEF b, t
      <4> QED BY <1>2, <1>3, <1>4, <3>2, <4>1, RestoredIs
    <3>3. CASE t = w.claims[p].target
      <4>1. ~(t > w.claims[p].target) /\ ~(t < w.claims[p].target)
        BY <1>4, <1>5, <3>3
      <4>2. b = u
        BY <4>1
      <4> HIDE DEF b, t
      <4>3. SameHeld(u, u) /\ Retargets(u, u, p, t)
        BY <1>3, <3>3 DEF SameHeld, Retargets
      <4> QED BY <1>3, <4>2, <4>3
    <3> HIDE DEF t, b
    <3> QED BY <1>4, <1>5, <3>1, <3>2, <3>3
  <2> HIDE DEF b, v
  <2>3. Sound(v, n, m) /\ SameHeld(b, v) /\ v.claims = b.claims /\ v.facts = b.facts
    <3> DEFINE pause == b.claims[p].unrecovered > 0
    <3>1. pause \in BOOLEAN
      OBVIOUS
    <3> HIDE DEF pause
    <3> QED BY <2>1, <2>2, <3>1, SyncPauseIs DEF pause
  <2>4. SameHeld(w, v)
    BY <1>3, <2>2, <2>3 DEF SameHeld
  <2>5. v.facts = u.facts /\ v.claims[p].target = t
        /\ SameCredited(w, v) /\ \A q \in Payments \ {p} : v.claims[q].target = w.claims[q].target
    BY <1>2, <1>3, <2>2, <2>3 DEF Retargets, SameCredited
  <2>6. Targets(v)
    <3>1. ASSUME NEW q \in Payments
          PROVE  IF v.claims[q].credited THEN v.claims[q].target = RecoveryTarget(v.facts, q)
                 ELSE /\ v.claims[q].target = 0
                      /\ \A f \in Refs : PaymentOf[f] = q => v.facts[f] = NoFact
      <4>1. CASE q = p
        BY <2>5, <4>1 DEF SameCredited
      <4>2. CASE q # p
        <5>1. v.claims[q].target = w.claims[q].target /\ v.claims[q].credited = w.claims[q].credited
          BY <2>5, <4>2 DEF SameCredited
        <5>2. RecoveryTarget(v.facts, q) = RecoveryTarget(w.facts, q)
          BY <1>6, <2>5, <4>2
        <5>3. \A f \in Refs : PaymentOf[f] = q => v.facts[f] = w.facts[f]
          BY <1>3, <2>5, <4>2
        <5> QED BY <5>1, <5>2, <5>3 DEF Targets
      <4> QED BY <4>1, <4>2
    <3> QED BY <3>1 DEF Targets
  <2>7. Learned(w.facts[x.ref], x)
    BY <1>7 DEF Learned
  <2> QED BY <1>3, <2>3, <2>4, <2>5, <2>6, <2>7 DEF v
<1>8. CASE o = "replay" /\ x.watermark > w.facts[x.ref].watermark
  <2>1. v = u
    <3>1. o # "applied"
      BY <1>8
    <3> HIDE DEF o, b, v
    <3> QED BY <1>1, <1>8, <3>1
  <2>2. u.facts[x.ref].status = w.facts[x.ref].status
    <3>1. w.facts[x.ref].status = x.status
      BY <1>8, OutcomeIs
    <3> QED BY <1>3, <3>1 DEF FactOf
  <2>3. \A q \in Payments : RecoveryTarget(u.facts, q) = RecoveryTarget(w.facts, q)
    <3>1. \A f \in Refs : u.facts[f].status = w.facts[f].status
      BY <1>3, <2>2
    <3> QED BY <3>1, TargetByStatus
  <2>4. Targets(u)
    <3>1. ASSUME NEW q \in Payments, ~u.claims[q].credited
          PROVE  \A f \in Refs : PaymentOf[f] = q => u.facts[f] = NoFact
      <4>1. q # p
        BY <1>3, <3>1
      <4> QED BY <1>3, <3>1, <4>1 DEF Targets
    <3> QED BY <1>3, <2>3, <3>1 DEF Targets
  <2>5. Learned(w.facts[x.ref], x)
    BY <1>8 DEF Learned
  <2> HIDE DEF v
  <2> QED BY <1>3, <2>1, <2>4, <2>5 DEF v, SameCredited
<1>9. CASE o # "applied" /\ ~(o = "replay" /\ x.watermark > w.facts[x.ref].watermark)
  <2>1. v = w
    <3> HIDE DEF o, b, v
    <3> QED BY <1>1, <1>9
  <2>2. ~Learned(w.facts[x.ref], x)
    BY <1>9 DEF Learned
  <2>3. SameHeld(w, w) /\ SameCredited(w, w)
    BY DEF SameHeld, SameCredited
  <2> HIDE DEF v
  <2> QED BY <2>1, <2>2, <2>3 DEF v
<1> QED BY <1>7, <1>8, <1>9

-----------------------------------------------------------------------------
(* The order in which notices are learned.                                   *)

\* Of two statuses of one refund or dispute the later one is the earlier one
\* again or may follow it, and every one may come first.
Later(kind, old, new) == new \in Follows(kind, old) \cup {old}

Consistent(N) ==
  /\ \A x \in N : x.status \in Follows(KindOf[x.ref], "none")
  /\ \A x, y \in N : x.ref = y.ref =>
        /\ x.watermark < y.watermark => Later(KindOf[x.ref], x.status, y.status)
        /\ x.watermark = y.watermark => x = y

\* What is known of f is the latest of the notices N.
Latest(N, fact, f) ==
  \/ (\A x \in N : x.ref # f) /\ fact = NoFact
  \/ \E x \in N : /\ x.ref = f /\ fact = FactOf(x)
                  /\ \A y \in N : y.ref = f => y.watermark <= x.watermark

\* One notice more: what is known is still the latest.
LEMMA LatestLearned ==
  ASSUME NEW N, N \subseteq Notices, NEW x \in Notices, Consistent(N \cup {x}),
         NEW fact, Latest(N, fact, x.ref)
  PROVE  Latest(N \cup {x}, IF Learned(fact, x) THEN FactOf(x) ELSE fact, x.ref)
<1>1. x.watermark \in Nat /\ x.status \in Statuses /\ x.status # "none"
  BY NoticeIs DEF Statuses
<1>2. CASE (\A y \in N : y.ref # x.ref) /\ fact = NoFact
  <2>1. Outcome(fact, x) = "applied"
    <3>1. fact.status = "none" /\ x.status \in Follows(KindOf[x.ref], fact.status)
      BY <1>2 DEF NoFact, Consistent
    <3> QED BY <1>1, <3>1 DEF Outcome
  <2>2. Learned(fact, x)
    BY <2>1 DEF Learned
  <2>3. \A y \in N \cup {x} : y.ref = x.ref => y.watermark <= x.watermark
    BY <1>1, <1>2
  <2> QED BY <2>2, <2>3 DEF Latest
<1>3. ASSUME NEW z \in N, z.ref = x.ref, fact = FactOf(z),
             \A y \in N : y.ref = z.ref => y.watermark <= z.watermark
      PROVE  Latest(N \cup {x}, IF Learned(fact, x) THEN FactOf(x) ELSE fact, x.ref)
  <2>1. z \in Notices /\ z.watermark \in Nat /\ z.status \in Statuses /\ z.status # "none"
        /\ fact.status = z.status /\ fact.watermark = z.watermark
    BY <1>3, NoticeIs DEF Statuses, FactOf
  <2>2. CASE z.watermark < x.watermark
    <3>1. Later(KindOf[x.ref], z.status, x.status)
      BY <1>3, <2>2 DEF Consistent
    <3>2. ~(x.watermark <= fact.watermark) /\ x.watermark > fact.watermark
      BY <1>1, <2>1, <2>2
    <3>3. Learned(fact, x)
      <4>1. CASE x.status = fact.status
        <5>1. Outcome(fact, x) = "replay"
          BY <4>1 DEF Outcome
        <5> QED BY <3>2, <5>1 DEF Learned
      <4>2. CASE x.status # fact.status
        <5>1. x.status \in Follows(KindOf[x.ref], fact.status)
          BY <2>1, <3>1, <4>2 DEF Later
        <5>2. Outcome(fact, x) = "applied"
          BY <3>2, <4>2, <5>1 DEF Outcome
        <5> QED BY <5>2 DEF Learned
      <4> QED BY <4>1, <4>2
    <3>4. \A y \in N : y.ref = x.ref => y.watermark <= x.watermark
      <4>1. \A y \in N : y.watermark \in Nat
        BY NoticeIs
      <4> QED BY <1>1, <1>3, <2>1, <2>2, <4>1
    <3> QED BY <1>1, <3>3, <3>4 DEF Latest
  <2>3. CASE x.watermark <= z.watermark
    <3>1. ~Learned(fact, x)
      <4>1. ~(x.watermark > fact.watermark)
        BY <1>1, <2>1, <2>3
      <4>2. Outcome(fact, x) # "applied"
        BY <1>1, <2>1, <2>3 DEF Outcome
      <4> QED BY <4>1, <4>2 DEF Learned
    <3>2. \A y \in N \cup {x} : y.ref = x.ref => y.watermark <= z.watermark
      BY <1>3, <2>3
    <3> QED BY <1>3, <3>1, <3>2 DEF Latest
  <2> QED BY <1>1, <2>1, <2>2, <2>3
<1> QED BY <1>2, <1>3 DEF Latest

\* A notice of another refund or dispute changes nothing.
LEMMA LatestOther ==
  ASSUME NEW N, NEW x, NEW fact, NEW f, Latest(N, fact, f), x.ref # f
  PROVE  Latest(N \cup {x}, fact, f)
BY DEF Latest

\* What may follow a follower may follow.
LEMMA FollowsOn ==
  ASSUME NEW kind, NEW a, NEW b, NEW c, Later(kind, a, b), Later(kind, b, c), a # "none"
  PROVE  Later(kind, a, c)
<1>1. CASE kind = "refund"
  BY <1>1 DEF Later, Follows
<1>2. CASE kind # "refund"
  BY <1>2 DEF Later, Follows
<1> QED BY <1>1, <1>2

\* What may follow may come first.
LEMMA FollowsFirst ==
  ASSUME NEW kind, NEW a, NEW b, Later(kind, a, b), a \in Follows(kind, "none")
  PROVE  b \in Follows(kind, "none")
<1>1. CASE kind = "refund"
  BY <1>1 DEF Later, Follows
<1>2. CASE kind # "refund"
  BY <1>2 DEF Later, Follows
<1> QED BY <1>1, <1>2

-----------------------------------------------------------------------------
(* Draining the inbox of a payment.                                          *)

Before(rows, i, j) ==
  IF EveryNotice /\ rows[i].watermark # rows[j].watermark
  THEN rows[i].watermark < rows[j].watermark
  ELSE i < j

\* One row of the inbox is drained last.
LEMMA LastDrainedIs ==
  ASSUME NEW rows \in Seq(Notices), NEW S \in SUBSET DOMAIN rows, S # {}
  PROVE  LastDrained(rows, S) \in S
<1> DEFINE earlier == [j \in S |-> {i \in S : Before(rows, i, j)}]
<1>1. IsFiniteSet(S)
  <2>1. DOMAIN rows = 1 .. Len(rows) /\ Len(rows) \in Nat
    OBVIOUS
  <2>2. IsFiniteSet(1 .. Len(rows))
    BY <2>1, FS_Interval
  <2> QED BY <2>1, <2>2, FS_Subset
<1>2. \A i \in S : i \in Int /\ rows[i].watermark \in Int
  <2>1. \A i \in S : i \in Int /\ rows[i] \in Notices
    OBVIOUS
  <2> QED BY <2>1, NoticeIs
<1>3. InTurn(S, earlier)
  <2>1. \A i, j \in S : i \in earlier[j] <=> Before(rows, i, j)
    OBVIOUS
  <2>2. \A j \in S : earlier[j] \subseteq S
    OBVIOUS
  <2> HIDE DEF earlier
  <2>3. \A j \in S : j \notin earlier[j]
    BY <1>2, <2>1 DEF Before
  <2>4. \A i, j \in S : i = j \/ i \in earlier[j] \/ j \in earlier[i]
    BY <1>2, <2>1 DEF Before
  <2>5. ASSUME NEW s \in S, NEW d \in earlier[s], NEW e \in earlier[d]
        PROVE  e \in earlier[s]
    <3>1. d \in S /\ e \in S
      BY <2>2
    <3> QED BY <1>2, <2>1, <3>1 DEF Before
  <2> QED BY <2>2, <2>3, <2>4, <2>5 DEF InTurn
<1>4. Closed(S, earlier)
  BY DEF Closed
<1>5. \A j \in S : earlier[j] = {i \in S : Before(rows, i, j)}
  OBVIOUS
<1> HIDE DEF earlier
<1>6. PICK m \in S : S = earlier[m] \cup {m}
  BY <1>1, <1>3, <1>4, LastAsked
<1>7. \A i \in S \ {m} : Before(rows, i, m)
  BY <1>5, <1>6
<1>8. LastDrained(rows, S) = CHOOSE j \in S : \A i \in S \ {j} : Before(rows, i, j)
  BY DEF LastDrained, Before
<1> QED BY <1>7, <1>8

\* f gives what the notices of each set of rows leave of the workspace w.
Drains(w, rows, D, f) ==
  f = [S \in D |-> IF S = {} THEN w
                   ELSE ApplyNotice(f[S \ {LastDrained(rows, S)}], rows[LastDrained(rows, S)])]

\* The drain is a recursive function over the sets of rows.
LEMMA DrainsExist ==
  ASSUME NEW w, NEW rows \in Seq(Notices)
  PROVE  \E f : Drains(w, rows, SUBSET DOMAIN rows, f)
<1> DEFINE D == DOMAIN rows
           n == Cardinality(D)
           Few(i) == {s \in SUBSET D : Cardinality(s) <= i}
           P == {i \in 0 .. n : \E f : Drains(w, rows, Few(i), f)}
<1>1. IsFiniteSet(D) /\ n \in Nat
  <2>1. D = 1 .. Len(rows) /\ Len(rows) \in Nat
    OBVIOUS
  <2> QED BY <2>1, FS_Interval, FS_CardinalityType
<1>2. \A s \in SUBSET D : IsFiniteSet(s) /\ Cardinality(s) \in 0 .. n
  BY <1>1, FS_Subset, FS_CardinalityType
<1>3. \A s \in SUBSET D : s # {} =>
         /\ LastDrained(rows, s) \in s /\ s \ {LastDrained(rows, s)} \in SUBSET D
         /\ Cardinality(s \ {LastDrained(rows, s)}) = Cardinality(s) - 1
  <2>1. ASSUME NEW s \in SUBSET D, s # {}
        PROVE  /\ LastDrained(rows, s) \in s /\ s \ {LastDrained(rows, s)} \in SUBSET D
               /\ Cardinality(s \ {LastDrained(rows, s)}) = Cardinality(s) - 1
    <3>1. LastDrained(rows, s) \in s
      BY <2>1, LastDrainedIs
    <3> QED BY <1>2, <3>1, FS_RemoveElement
  <2> QED BY <2>1
<1> HIDE DEF D, n
<1>4. 0 \in P
  <2> DEFINE f == [s \in Few(0) |-> w]
  <2>1. \A s \in Few(0) : s = {}
    BY <1>2, FS_EmptySet
  <2>2. Drains(w, rows, Few(0), f)
    <3> HIDE DEF Few
    <3> QED BY <2>1 DEF Drains
  <2>3. 0 \in 0 .. n
    BY <1>1
  <2> HIDE DEF f, Few
  <2> QED BY <2>2, <2>3
<1>5. ASSUME NEW i \in 0 .. n - 1, i \in P
      PROVE  i + 1 \in P
  <2>1. PICK f : Drains(w, rows, Few(i), f)
    BY <1>5
  <2> DEFINE end(s) == LastDrained(rows, s)
             g == [s \in Few(i + 1) |-> IF s \in Few(i) THEN f[s]
                                        ELSE ApplyNotice(f[s \ {end(s)}], rows[end(s)])]
  <2>2. \A s \in Few(i) : s \in Few(i + 1)
    BY <1>1, <1>2
  <2>3. \A s \in Few(i + 1) : s # {} => s \ {end(s)} \in Few(i)
    BY <1>1, <1>2, <1>3
  <2>4. \A s \in Few(i) : f[s] = IF s = {} THEN w ELSE ApplyNotice(f[s \ {end(s)}], rows[end(s)])
    <3> HIDE DEF Few
    <3> QED BY <2>1 DEF Drains
  <2>5. {} \in Few(i)
    BY <1>1, FS_EmptySet
  <2> HIDE DEF Few
  <2>6. ASSUME NEW s \in Few(i + 1)
        PROVE  g[s] = IF s = {} THEN w ELSE ApplyNotice(g[s \ {end(s)}], rows[end(s)])
    <3>1. s # {} => g[s \ {end(s)}] = f[s \ {end(s)}]
      BY <2>2, <2>3
    <3>2. CASE s \in Few(i)
      <4>1. g[s] = f[s]
        BY <3>2
      <4> HIDE DEF g
      <4> QED BY <2>4, <3>1, <3>2, <4>1
    <3>3. CASE s \notin Few(i)
      <4>1. s # {}
        BY <2>5, <3>3
      <4>2. g[s] = ApplyNotice(f[s \ {end(s)}], rows[end(s)])
        BY <3>3
      <4> HIDE DEF g
      <4> QED BY <3>1, <4>1, <4>2
    <3> QED BY <3>2, <3>3
  <2>7. g = [s \in Few(i + 1) |-> g[s]]
    OBVIOUS
  <2> HIDE DEF g
  <2>8. Drains(w, rows, Few(i + 1), g)
    BY <2>6, <2>7 DEF Drains
  <2>9. i + 1 \in 0 .. n
    BY <1>1
  <2> QED BY <2>8, <2>9
<1>6. n \in P
  <2>1. P \in SUBSET (0 .. n)
    OBVIOUS
  <2> HIDE DEF P
  <2> QED BY <1>1, <1>4, <1>5, <2>1, UpTo
<1>7. Few(n) = SUBSET D
  BY <1>1, <1>2
<1> HIDE DEF Few
<1> QED BY <1>6, <1>7 DEF D

\* v is what the notices N, all about payment p, leave of w.
AfterNotices(w, v, n, m, p, N) ==
  /\ Sound(v, n, m) /\ SameHeld(w, v) /\ Targets(v) /\ SameCredited(w, v)
  /\ \A f \in Refs : PaymentOf[f] # p => v.facts[f] = w.facts[f]
  /\ \A f \in Refs : PaymentOf[f] = p => Latest(N, v.facts[f], f)

\* One row of the inbox more is applied.
LEMMA OneMoreNotice ==
  ASSUME NEW w, NEW u, NEW n, NEW m \in Int, NEW p \in Payments, w.claims[p].credited,
         NEW N, N \subseteq Notices, AfterNotices(w, u, n, m, p, N),
         NEW x \in Notices, PaymentOf[x.ref] = p, Consistent(N \cup {x})
  PROVE  AfterNotices(w, ApplyNotice(u, x), n, m, p, N \cup {x})
<1> DEFINE v == ApplyNotice(u, x)
<1>1. Sound(u, n, m) /\ Targets(u) /\ u.claims[PaymentOf[x.ref]].credited
  BY DEF AfterNotices, SameCredited
<1>2. /\ Sound(v, n, m) /\ SameHeld(u, v) /\ Targets(v) /\ SameCredited(u, v)
      /\ \A f \in Refs \ {x.ref} : v.facts[f] = u.facts[f]
      /\ v.facts[x.ref] = IF Learned(u.facts[x.ref], x) THEN FactOf(x) ELSE u.facts[x.ref]
  BY <1>1, AppliedIs
<1> HIDE DEF v
<1>3. SameHeld(w, v) /\ SameCredited(w, v)
  BY <1>2 DEF AfterNotices, SameHeld, SameCredited
<1>4. \A f \in Refs : PaymentOf[f] # p => v.facts[f] = w.facts[f]
  BY <1>2 DEF AfterNotices
<1>5. x.ref \in Refs
  BY NoticeIs
<1>6. ASSUME NEW f \in Refs, PaymentOf[f] = p
      PROVE  Latest(N \cup {x}, v.facts[f], f)
  <2>1. Latest(N, u.facts[f], f)
    BY <1>6 DEF AfterNotices
  <2>2. CASE f = x.ref
    <3>1. Latest(N \cup {x}, IF Learned(u.facts[x.ref], x) THEN FactOf(x) ELSE u.facts[x.ref], x.ref)
      BY <2>1, <2>2, LatestLearned
    <3> QED BY <1>2, <2>2, <3>1
  <2>3. CASE f # x.ref
    BY <1>2, <2>1, <2>3, LatestOther
  <2> QED BY <2>2, <2>3
<1> QED BY <1>2, <1>3, <1>4, <1>6 DEF AfterNotices, v

RowsAt(rows, S) == {rows[i] : i \in S}

\* An inbox whose rows are about p.
InboxOf(rows, p) ==
  /\ rows \in Seq(Notices)
  /\ \A i \in DOMAIN rows : PaymentOf[rows[i].ref] = p
  /\ Consistent(RowsAt(rows, DOMAIN rows))

\* A part of consistent notices is consistent.
LEMMA ConsistentPart ==
  ASSUME NEW N, Consistent(N), NEW M, M \subseteq N
  PROVE  Consistent(M)
BY DEF Consistent

\* The drain applies every row of the inbox, and the latest stands.
LEMMA DrainedIs ==
  ASSUME NEW w, NEW n, NEW m \in Int, Sound(w, n, m), Targets(w), NEW p \in Payments,
         w.claims[p].credited, \A f \in Refs : PaymentOf[f] = p => w.facts[f] = NoFact,
         NEW rows, InboxOf(rows, p)
  PROVE  AfterNotices(w, Drained(w, rows), n, m, p, RowsAt(rows, DOMAIN rows))
<1> DEFINE D == DOMAIN rows
<1>1. rows \in Seq(Notices)
  BY DEF InboxOf
<1>2. PICK g : Drains(w, rows, SUBSET D, g) /\ Drained(w, rows) = g[D]
  <2> DEFINE h == CHOOSE k : Drains(w, rows, SUBSET D, k)
  <2>1. Drained(w, rows) = h[D]
    BY DEF Drained, Drains
  <2>2. Drains(w, rows, SUBSET D, h)
    BY <1>1, DrainsExist
  <2> HIDE DEF h
  <2> QED BY <2>1, <2>2
<1>3. IsFiniteSet(D) /\ \A i \in D : rows[i] \in Notices
  <2>1. D = 1 .. Len(rows) /\ Len(rows) \in Nat /\ \A i \in D : rows[i] \in Notices
    BY <1>1
  <2> QED BY <2>1, FS_Interval
<1> DEFINE Good(S) == AfterNotices(w, g[S], n, m, p, RowsAt(rows, S))
           Bad == {S \in SUBSET D : ~Good(S)}
<1>4. Good({})
  <2>1. g[{}] = w /\ RowsAt(rows, {}) = {}
    BY <1>2 DEF Drains, RowsAt
  <2>2. SameHeld(w, w) /\ SameCredited(w, w)
    BY DEF SameHeld, SameCredited
  <2>3. \A f \in Refs : PaymentOf[f] = p => Latest({}, w.facts[f], f)
    BY DEF Latest
  <2> QED BY <2>1, <2>2, <2>3 DEF AfterNotices
<1>5. ASSUME NEW S \in SUBSET D, S # {}, Good(S \ {LastDrained(rows, S)})
      PROVE  Good(S)
  <2> DEFINE j == LastDrained(rows, S)
             N == RowsAt(rows, S \ {j})
             x == rows[j]
             u == g[S \ {j}]
  <2>1. j \in S
    BY <1>1, <1>5, LastDrainedIs
  <2>2. g[S] = ApplyNotice(u, x)
    BY <1>2, <1>5 DEF Drains
  <2> HIDE DEF j
  <2>3. N \cup {x} = RowsAt(rows, S)
    BY <2>1 DEF RowsAt
  <2>4. N \subseteq Notices /\ x \in Notices /\ PaymentOf[x.ref] = p
    BY <1>3, <2>1 DEF RowsAt, InboxOf
  <2>5. Consistent(N \cup {x})
    <3>1. RowsAt(rows, S) \subseteq RowsAt(rows, D) /\ Consistent(RowsAt(rows, D))
      BY DEF RowsAt, InboxOf
    <3> HIDE DEF D
    <3> QED BY <2>3, <3>1, ConsistentPart
  <2>6. AfterNotices(w, u, n, m, p, N)
    BY <1>5 DEF j
  <2> HIDE DEF N, x, u
  <2>7. AfterNotices(w, ApplyNotice(u, x), n, m, p, N \cup {x})
    BY <2>4, <2>5, <2>6, OneMoreNotice
  <2> QED BY <2>2, <2>3, <2>7
<1> HIDE DEF Good
<1>6. Bad = {}
  <2>1. SUFFICES ASSUME Bad # {} PROVE FALSE
    OBVIOUS
  <2>2. \A S \in Bad : IsFiniteSet(S)
    BY <1>3, FS_Subset
  <2>3. PICK S \in Bad : \A t \in Bad : t \subseteq S => t = S
    <3> HIDE DEF Bad
    <3> QED BY <2>1, <2>2, FewestOf
  <2>4. S \in SUBSET D /\ ~Good(S)
    BY <2>3
  <2>5. S # {}
    BY <1>4, <2>4
  <2>6. LastDrained(rows, S) \in S
    BY <1>1, <2>4, <2>5, LastDrainedIs
  <2> DEFINE t == S \ {LastDrained(rows, S)}
  <2>7. t \in SUBSET D /\ t \subseteq S /\ t # S
    BY <2>4, <2>6
  <2>8. ~Good(t)
    BY <1>5, <2>4, <2>5
  <2> HIDE DEF t
  <2>9. t \in Bad
    BY <2>7, <2>8
  <2> QED BY <2>3, <2>7, <2>9
<1>7. Good(D)
  BY <1>6
<1> QED BY <1>2, <1>7 DEF Good

-----------------------------------------------------------------------------
(* The holds and their rows.                                                 *)

HoldAt(n) == [shard : 0 .. n - 1, amount : Nat]
HoldsOf(n) == [Reqs -> HoldAt(n)]
HeldOn(hs, s) ==
  SumFunctionOnSet([r \in Reqs |-> hs[r].amount], {r \in Reqs : hs[r].shard = s})
On(hs, s) == [r \in Reqs |-> IF hs[r].shard = s THEN hs[r].amount ELSE 0]

\* What is held on a row, as a sum over all requests.
LEMMA HeldOnIs ==
  ASSUME NEW n, NEW hs \in HoldsOf(n), NEW s
  PROVE  /\ HeldOn(hs, s) = SumFunctionOnSet(On(hs, s), Reqs)
         /\ Valued(On(hs, s), Reqs, Nat) /\ HeldOn(hs, s) \in Nat
<1> DEFINE f == On(hs, s)
           g == [r \in Reqs |-> hs[r].amount]
           T == {r \in Reqs : hs[r].shard = s}
<1>1. \A r \in Reqs : hs[r].amount \in Nat
  BY DEF HoldsOf, HoldAt
<1>2. \A r \in Reqs : f[r] = IF hs[r].shard = s THEN hs[r].amount ELSE 0
  BY DEF On
<1> HIDE DEF f
<1>3. Valued(f, Reqs, Nat)
  BY <1>1, <1>2, AmountsAssumption DEF Valued
<1>4. T \in SUBSET Reqs /\ (\A r \in T : g[r] = f[r]) /\ \A r \in Reqs \ T : f[r] = 0
  BY <1>2
<1>5. HeldOn(hs, s) = SumFunctionOnSet(g, T)
  BY DEF HeldOn
<1> HIDE DEF g, T
<1>6. SumFunctionOnSet(f, Reqs) = SumFunctionOnSet(f, T)
  BY <1>3, <1>4, ValuedNat, SumOfPart
<1>7. SumFunctionOnSet(g, T) = SumFunctionOnSet(f, T)
  <2>1. IsFiniteSet(T)
    BY <1>4, AmountsAssumption, FS_Subset
  <2>2. Valued(f, T, Int)
    BY <1>3, <1>4, ValuedNat, ValuedOnPart
  <2> QED BY <1>4, <2>1, <2>2, SumSame
<1> QED BY <1>3, <1>5, <1>6, <1>7, SumNat DEF f

\* One request's hold changes.
ChangesHold(hs, k, r, h) == k = [hs EXCEPT ![r] = h]

\* What is held on s once r's hold is h.
HeldAfter(hs, k, r, h, s) ==
  /\ HeldOn(k, s) = HeldOn(hs, s) + On(k, s)[r] - On(hs, s)[r]
  /\ On(k, s)[r] = IF h.shard = s THEN h.amount ELSE 0
  /\ On(hs, s)[r] = IF hs[r].shard = s THEN hs[r].amount ELSE 0

\* One request's hold changes, and what is held changes with it.
LEMMA HoldChanged ==
  ASSUME NEW n, NEW hs \in HoldsOf(n), NEW r \in Reqs, NEW h \in HoldAt(n),
         NEW k, ChangesHold(hs, k, r, h), NEW s
  PROVE  k \in HoldsOf(n) /\ HeldAfter(hs, k, r, h, s)
<1>1. k \in HoldsOf(n) /\ k[r] = h /\ \A q \in Reqs \ {r} : k[q] = hs[q]
  BY DEF HoldsOf, ChangesHold
<1>2. On(k, s)[r] = IF h.shard = s THEN h.amount ELSE 0
  BY <1>1 DEF On
<1>3. On(hs, s)[r] = IF hs[r].shard = s THEN hs[r].amount ELSE 0
  BY DEF On
<1> DEFINE f == On(hs, s)
           g == On(k, s)
<1>4. \A q \in Reqs \ {r} : g[q] = f[q]
  BY <1>1 DEF On
<1>5. /\ HeldOn(hs, s) = SumFunctionOnSet(f, Reqs) /\ Valued(f, Reqs, Nat)
      /\ HeldOn(k, s) = SumFunctionOnSet(g, Reqs) /\ Valued(g, Reqs, Nat)
  BY <1>1, HeldOnIs
<1> HIDE DEF f, g
<1>6. Valued(f, Reqs, Int) /\ g[r] \in Int
  BY <1>5, ValuedNat DEF Valued
<1>7. SumFunctionOnSet(g, Reqs) = SumFunctionOnSet(f, Reqs) + g[r] - f[r]
  BY <1>4, <1>6, SumChanged
<1> QED BY <1>1, <1>2, <1>3, <1>5, <1>7 DEF f, g, HeldAfter

\* Nothing is held where every hold is empty.
LEMMA NoneHeld ==
  ASSUME NEW hs, NEW s, \A r \in Reqs : hs[r].shard = s => hs[r].amount = 0
  PROVE  HeldOn(hs, s) = 0
<1> DEFINE g == [r \in Reqs |-> hs[r].amount]
           T == {r \in Reqs : hs[r].shard = s}
<1>1. T \in SUBSET Reqs /\ \A r \in T : g[r] = 0
  OBVIOUS
<1>2. HeldOn(hs, s) = SumFunctionOnSet(g, T)
  BY DEF HeldOn
<1> HIDE DEF g, T
<1>3. Valued(g, T, Int) /\ IsFiniteSet(T)
  BY <1>1, AmountsAssumption, FS_Subset DEF Valued
<1>4. SumFunctionOnSet(g, T) = SumFunctionOnSet(g, {})
  BY <1>1, <1>3, SumOfPart
<1> QED BY <1>2, <1>4, SumOfNone

\* Every row's reservation is what the holds on it ask for.
Placed(w, hs, n) ==
  hs \in HoldsOf(n) /\ \A s \in DOMAIN w.rows : w.rows[s].reserved = HeldOn(hs, s)

\* A hold is no more than its row's reservation.
LEMMA HoldIsReserved ==
  ASSUME NEW w, NEW n, NEW hs, Placed(w, hs, n), DOMAIN w.rows = 0 .. n - 1, NEW r \in Reqs
  PROVE  /\ hs[r].shard \in 0 .. n - 1 /\ hs[r].amount \in Nat
         /\ hs[r].amount <= w.rows[hs[r].shard].reserved
<1> DEFINE s == hs[r].shard
<1>1. hs \in HoldsOf(n) /\ s \in 0 .. n - 1 /\ hs[r].amount \in Nat
  BY DEF Placed, HoldsOf, HoldAt
<1>2. w.rows[s].reserved = HeldOn(hs, s)
  BY <1>1 DEF Placed
<1>3. On(hs, s)[r] = hs[r].amount
  BY DEF On
<1>4. HeldOn(hs, s) = SumFunctionOnSet(On(hs, s), Reqs) /\ Valued(On(hs, s), Reqs, Nat)
  BY <1>1, HeldOnIs
<1>5. On(hs, s)[r] <= SumFunctionOnSet(On(hs, s), Reqs)
  BY <1>4, SumHas
<1> QED BY <1>1, <1>2, <1>3, <1>4, <1>5

-----------------------------------------------------------------------------
(* The accounts: rows, claims and holds together.                            *)

Accounts(w, hs, n, m) ==
  n \in ShardCounts /\ m \in Int /\ Sound(w, n, m) /\ Targets(w) /\ Placed(w, hs, n)

\* The rows of the accounts.
LEMMA AccountsRows ==
  ASSUME NEW w, NEW hs, NEW n, NEW m, Accounts(w, hs, n, m)
  PROVE  /\ n \in Nat \ {0} /\ m \in Int /\ Booked(w, n, m) /\ IsWorkspace(w, n)
         /\ w \in Workspace(n) /\ DOMAIN w.rows = 0 .. n - 1
  BY AmountsAssumption, WorkspaceRows DEF Accounts, Sound, Booked, IsWorkspace

\* A step that keeps holds, targets and facts keeps the accounts.
LEMMA AccountsKept ==
  ASSUME NEW w, NEW hs, NEW n, NEW m, Accounts(w, hs, n, m), NEW v, NEW k \in Int,
         Sound(v, n, k), Keeps(w, v)
  PROVE  Accounts(v, hs, n, k) /\ SameTargets(w, v)
<1>1. SameHeld(w, v) /\ SameTargets(w, v)
  BY DEF Keeps
<1>2. Targets(v)
  BY <1>1, TargetsKept DEF Accounts
<1>3. Placed(v, hs, n)
  BY <1>1 DEF Accounts, Placed, SameHeld
<1> QED BY <1>1, <1>2, <1>3 DEF Accounts

\* A reservation keeps the accounts.
LEMMA ReserveIs ==
  ASSUME NEW w, NEW hs, NEW n, NEW m, Accounts(w, hs, n, m),
         NEW r \in Reqs, hs[r] = NoHold, NEW s \in DOMAIN w.rows, NEW est \in Nat,
         Reservable(w, s, est),
         NEW v, v = [w EXCEPT !.rows[s].reserved = @ + est],
         NEW k, k = [hs EXCEPT ![r] = [shard |-> s, amount |-> est]]
  PROVE  Accounts(v, k, n, m) /\ SameTargets(w, v)
<1>1. /\ n \in Nat \ {0} /\ m \in Int /\ Booked(w, n, m) /\ IsWorkspace(w, n)
      /\ DOMAIN w.rows = 0 .. n - 1 /\ s \in 0 .. n - 1 /\ w.rows[s] \in Row
  BY AccountsRows, WorkspaceRows
<1> DEFINE q == [w.rows[s] EXCEPT !.reserved = @ + est]
<1>2. /\ q \in Row /\ q.credits = w.rows[s].credits /\ q.usage = w.rows[s].usage
      /\ q.reserved = w.rows[s].reserved + est
  BY <1>1 DEF Row
<1>3. WritesRow(w, v, s, q)
  BY DEF WritesRow
<1> HIDE DEF q
<1>4. PICK x \in Int : x = 0 /\ q.credits = w.rows[s].credits + x
  BY <1>1, <1>2 DEF Row
<1>5. /\ Booked(v, n, m + x) /\ v.marked = w.marked /\ SameClaims(w, v)
      /\ v.rows = [w.rows EXCEPT ![s] = q]
      /\ IsHeadroom(Headroom(v), 0 .. n - 1) /\ IsHeadroom(Headroom(w), 0 .. n - 1)
      /\ Headroom(v)[s] = q.credits - q.usage - q.reserved
      /\ Headroom(w)[s] = w.rows[s].credits - w.rows[s].usage - w.rows[s].reserved
      /\ Signed(Headroom(v)) = Signed(Headroom(w)) + Headroom(v)[s] - Headroom(w)[s]
      /\ \A t \in (0 .. n - 1) \ {s} : Headroom(v)[t] = Headroom(w)[t]
  <2>1. /\ m \in Int /\ Booked(w, n, m) /\ s \in 0 .. n - 1 /\ q \in Row /\ x \in Int
        /\ q.credits = w.rows[s].credits + x /\ WritesRow(w, v, s, q)
    BY <1>1, <1>2, <1>3, <1>4
  <2> QED BY ONLY <2>1, OwnRow
<1>6. Sound(v, n, m)
  <2> DEFINE h == Headroom(w)
             g == Headroom(v)
             S == 0 .. n - 1
  <2>1. h[s] >= est /\ Marks(h, w.marked)
    BY DEF Reservable, Accounts, Sound
  <2>2. g[s] = h[s] - est
    BY <1>1, <1>2, <1>5 DEF Row
  <2>3. IsHeadroom(h, S) /\ IsHeadroom(g, S) /\ Signed(g) = Signed(h) + g[s] - h[s]
        /\ s \in S /\ \A t \in S \ {s} : g[t] = h[t]
    BY <1>1, <1>5
  <2>4. Signed(h) \in Int /\ h[s] \in Int /\ \A t \in S : h[t] \in Int
    BY <2>3, HeadroomSum DEF IsHeadroom
  <2> HIDE DEF h, g, S
  <2>5. Signed(g) <= Signed(h) /\ \A t \in S : h[t] >= 0 => g[t] >= 0
    BY <2>1, <2>2, <2>3, <2>4
  <2>6. Marks(g, w.marked)
    BY <2>1, <2>3, <2>5, MarksKept
  <2> QED BY <1>1, <1>4, <1>5, <2>6 DEF Sound, g
<1>7. SameTargets(w, v) /\ Targets(v)
  BY <1>5, SameClaimsTargets, TargetsKept DEF Accounts
<1>8. Placed(v, k, n)
  <2> DEFINE h == [shard |-> s, amount |-> est]
  <2>1. hs \in HoldsOf(n) /\ h \in HoldAt(n) /\ ChangesHold(hs, k, r, h)
        /\ h.shard = s /\ h.amount = est /\ hs[r].amount = 0
    BY <1>1 DEF Accounts, Placed, NoHold, HoldAt, ChangesHold
  <2> HIDE DEF h
  <2>2. /\ k \in HoldsOf(n)
        /\ \A t \in 0 .. n - 1 : HeldAfter(hs, k, r, h, t)
    BY <1>1, <2>1, HoldChanged
  <2>3. ASSUME NEW t \in 0 .. n - 1
        PROVE  v.rows[t].reserved = HeldOn(k, t)
    <3>1. On(hs, t)[r] = 0 /\ On(k, t)[r] = IF t = s THEN est ELSE 0
      BY <2>1, <2>2 DEF HeldAfter
    <3>2. HeldOn(hs, t) \in Nat /\ w.rows[t].reserved = HeldOn(hs, t)
      BY <1>1, <2>1, HeldOnIs DEF Accounts, Placed
    <3>3. v.rows[t].reserved = IF t = s THEN w.rows[t].reserved + est ELSE w.rows[t].reserved
      BY <1>1, <1>2, <1>5
    <3>4. HeldOn(k, t) = HeldOn(hs, t) + On(k, t)[r] - On(hs, t)[r]
      BY <2>2 DEF HeldAfter
    <3> QED BY <3>1, <3>2, <3>3, <3>4
  <2>4. DOMAIN v.rows = 0 .. n - 1
    BY <1>1, <1>5
  <2> QED BY <2>2, <2>3, <2>4 DEF Placed
<1> QED BY <1>1, <1>6, <1>7, <1>8 DEF Accounts

\* A release keeps the accounts.
LEMMA ReleaseIs ==
  ASSUME NEW w, NEW hs, NEW n, NEW m, Accounts(w, hs, n, m),
         NEW r \in Reqs, NEW actual \in Nat,
         NEW v, v = Released(w, hs[r].shard, hs[r].amount, actual),
         NEW k, k = [hs EXCEPT ![r] = NoHold]
  PROVE  Accounts(v, k, n, m) /\ SameTargets(w, v)
<1>1. /\ n \in Nat \ {0} /\ m \in Int /\ IsWorkspace(w, n) /\ DOMAIN w.rows = 0 .. n - 1
      /\ Sound(w, n, m) /\ Placed(w, hs, n) /\ Targets(w)
  BY AccountsRows DEF Accounts
<1> DEFINE s == hs[r].shard
           hold == hs[r].amount
<1>2. s \in 0 .. n - 1 /\ hold \in Nat /\ hold <= w.rows[s].reserved
  BY <1>1, HoldIsReserved
<1>3. v = Released(w, s, hold, actual) /\ hs[r].shard = s /\ hs[r].amount = hold
  OBVIOUS
<1> HIDE DEF s, hold
<1>4. Sound(v, n, m) /\ GivesBack(w, v, s, hold) /\ SameTargets(w, v)
  BY <1>1, <1>2, <1>3, ReleasedIs
<1>5. Targets(v)
  BY <1>1, <1>4, TargetsKept
<1>6. Placed(v, k, n)
  <2>1. hs \in HoldsOf(n) /\ NoHold \in HoldAt(n) /\ NoHold.amount = 0
    BY <1>1 DEF Placed, NoHold, HoldAt
  <2> DEFINE h == NoHold
  <2>2. h \in HoldAt(n) /\ ChangesHold(hs, k, r, h) /\ h.amount = 0
    BY <2>1 DEF ChangesHold
  <2> HIDE DEF h
  <2>3. /\ k \in HoldsOf(n)
        /\ \A t \in 0 .. n - 1 : HeldAfter(hs, k, r, h, t)
    BY <1>1, <2>1, <2>2, HoldChanged
  <2>4. ASSUME NEW t \in 0 .. n - 1
        PROVE  v.rows[t].reserved = HeldOn(k, t)
    <3>1. On(k, t)[r] = 0 /\ On(hs, t)[r] = IF t = s THEN hold ELSE 0
      BY <1>3, <2>2, <2>3 DEF HeldAfter
    <3>2. HeldOn(hs, t) \in Nat /\ w.rows[t].reserved = HeldOn(hs, t)
      BY <1>1, <2>1, HeldOnIs DEF Placed
    <3>3. v.rows[t].reserved = IF t = s THEN w.rows[t].reserved - hold ELSE w.rows[t].reserved
      BY <1>1, <1>4 DEF GivesBack
    <3>4. HeldOn(k, t) = HeldOn(hs, t) + On(k, t)[r] - On(hs, t)[r]
      BY <2>3 DEF HeldAfter
    <3> QED BY <1>2, <3>1, <3>2, <3>3, <3>4
  <2>5. DOMAIN v.rows = 0 .. n - 1
    BY <1>1, <1>4 DEF GivesBack
  <2> QED BY <2>3, <2>4, <2>5 DEF Placed
<1> QED BY <1>1, <1>4, <1>5, <1>6 DEF Accounts

\* A split that keeps its holds keeps the accounts.
LEMMA SplitAccounts ==
  ASSUME NEW w, NEW hs, NEW n, NEW m, Accounts(w, hs, n, m),
         NEW k \in ShardCounts, Reshardable(w, k), k > ShardCount(w),
         NEW v, v = [w EXCEPT !.rows = SplitRows(w, k), !.marked = FALSE]
  PROVE  Accounts(v, hs, k, m) /\ SameTargets(w, v)
<1>1. /\ n \in Nat \ {0} /\ m \in Int /\ IsWorkspace(w, n) /\ DOMAIN w.rows = 0 .. n - 1
      /\ Sound(w, n, m) /\ Placed(w, hs, n) /\ Targets(w) /\ ShardCount(w) = n /\ k \in Nat \ {0}
  BY AccountsRows, WorkspaceRows, AmountsAssumption DEF Accounts
<1>2. /\ Sound(v, k, m) /\ SameTargets(w, v) /\ DOMAIN v.rows = 0 .. k - 1
      /\ \A s \in 0 .. n - 1 : v.rows[s].reserved = w.rows[s].reserved
      /\ \A s \in n .. k - 1 : v.rows[s].reserved = 0
  <2>1. k > n /\ Negative(Headroom(w)) = {} /\ k \in Nat
    BY <1>1 DEF Reshardable
  <2>2. Sound(v, k, m) /\ SameTargets(w, v) /\ HoldsStay(w, v, n, k)
    BY <1>1, <2>1, SplitIs
  <2> QED BY <2>2 DEF HoldsStay
<1>3. Targets(v)
  BY <1>1, <1>2, TargetsKept
<1>4. hs \in HoldsOf(n)
  BY <1>1 DEF Placed
<1>5. hs \in HoldsOf(k)
  BY <1>1, <1>4 DEF HoldsOf, HoldAt
<1>6. ASSUME NEW s \in 0 .. k - 1
      PROVE  v.rows[s].reserved = HeldOn(hs, s)
  <2>1. CASE s \in 0 .. n - 1
    BY <1>1, <1>2, <2>1 DEF Placed
  <2>2. CASE s \notin 0 .. n - 1
    <3>1. s \in n .. k - 1
      BY <1>1, <2>2
    <3>2. \A r \in Reqs : hs[r].shard # s
      BY <1>4, <2>2 DEF HoldsOf, HoldAt
    <3> QED BY <1>2, <3>1, <3>2, NoneHeld
  <2> QED BY <2>1, <2>2
<1>7. Placed(v, hs, k)
  BY <1>2, <1>5, <1>6 DEF Placed
<1> QED BY <1>1, <1>2, <1>3, <1>7 DEF Accounts

\* A reshard without holds keeps the accounts.
LEMMA EvenAccounts ==
  ASSUME NEW w, NEW hs, NEW n, NEW m, Accounts(w, hs, n, m), NEW k \in ShardCounts,
         \A r \in Reqs : hs[r] = NoHold,
         \A s \in 0 .. k - 1 : EvenRows(w, k)[s].usage <= EvenRows(w, k)[s].credits,
         NEW v, v = [w EXCEPT !.rows = EvenRows(w, k), !.marked = FALSE]
  PROVE  Accounts(v, hs, k, m) /\ SameTargets(w, v)
<1>1. /\ n \in Nat \ {0} /\ m \in Int /\ IsWorkspace(w, n) /\ Sound(w, n, m)
      /\ Placed(w, hs, n) /\ Targets(w) /\ k \in Nat \ {0}
  BY AccountsRows, AmountsAssumption DEF Accounts
<1>2. /\ Sound(v, k, m) /\ SameTargets(w, v) /\ DOMAIN v.rows = 0 .. k - 1
      /\ \A s \in 0 .. k - 1 : v.rows[s].reserved = 0
  BY <1>1, EvenIs
<1>3. Targets(v)
  BY <1>1, <1>2, TargetsKept
<1>4. hs \in HoldsOf(k)
  BY <1>1 DEF HoldsOf, HoldAt, NoHold, Placed
<1>5. \A s : HeldOn(hs, s) = 0
  <2>1. \A r \in Reqs : hs[r].amount = 0
    BY DEF NoHold
  <2> QED BY <2>1, NoneHeld
<1>6. Placed(v, hs, k)
  BY <1>2, <1>4, <1>5 DEF Placed
<1> QED BY <1>1, <1>2, <1>3, <1>6 DEF Accounts

\* Only the causes of the pause change.
LEMMA CausesAccounts ==
  ASSUME NEW w, NEW hs, NEW n, NEW m, Accounts(w, hs, n, m), NEW c \in SUBSET Causes,
         NEW v, v = [w EXCEPT !.causes = c]
  PROVE  Accounts(v, hs, n, m) /\ SameTargets(w, v)
<1>1. IsWorkspace(w, n) /\ w \in Workspace(n) /\ Sound(w, n, m) /\ m \in Int
  BY AccountsRows DEF Accounts
<1>2. v.rows = w.rows /\ v.marked = w.marked /\ v.claims = w.claims /\ v.facts = w.facts
      /\ IsWorkspace(v, n)
  BY <1>1 DEF IsWorkspace, Workspace
<1>3. Headroom(v) = Headroom(w) /\ Total(v, "credits") = Total(w, "credits")
  BY <1>2 DEF Headroom, Total
<1>4. Recovered(v) = Recovered(w) /\ SplitClaims(v) = SplitClaims(w)
  BY <1>2, SameRecovered
<1>5. Keeps(w, v)
  BY <1>2 DEF Keeps, SameHeld, SameTargets
<1>6. Sound(v, n, m)
  BY <1>1, <1>2, <1>3, <1>4 DEF Sound, Booked
<1> QED BY <1>1, <1>5, <1>6, AccountsKept

-----------------------------------------------------------------------------
(* Stories, notices and inboxes.                                             *)

\* The statuses of each refund or dispute follow each other.
Told(st) ==
  /\ st \in [Refs -> Seq(Statuses)]
  /\ \A f \in Refs :
        /\ Len(st[f]) <= MaxStory
        /\ \A i \in 1 .. Len(st[f]) : st[f][i] \in Follows(KindOf[f], "none")
        /\ \A i, j \in 1 .. Len(st[f]) : i < j => Later(KindOf[f], st[f][i], st[f][j])

\* Every notice is of a status its refund or dispute had.
Hears(st, hd) ==
  /\ hd \subseteq Notices
  /\ \A x \in hd : x.watermark \in 1 .. Len(st[x.ref]) /\ x.status = st[x.ref][x.watermark]

\* An inbox holds notices that were heard, of its payment.
Waits(hd, ib) ==
  /\ ib \in [Payments -> Seq(Notices)]
  /\ \A p \in Payments : \A i \in DOMAIN ib[p] : ib[p][i] \in hd /\ PaymentOf[ib[p][i].ref] = p

\* The notices of a payment that is not credited all wait for it.
AllWait(w, hd, ib) ==
  \A x \in hd : ~w.claims[PaymentOf[x.ref]].credited =>
     \E i \in DOMAIN ib[PaymentOf[x.ref]] : ib[PaymentOf[x.ref]][i] = x

\* The latest notice of a credited payment's refund or dispute is its fact.
AllKnown(w, hd) ==
  \A f \in Refs : w.claims[PaymentOf[f]].credited => Latest(hd, w.facts[f], f)

Known(w, hd, ib) == EveryNotice => AllWait(w, hd, ib) /\ AllKnown(w, hd)

\* The provider tells one status more of f.
LastTold(st, f) == IF st[f] = <<>> THEN "none" ELSE st[f][Len(st[f])]
Tells(st, k, f, status) ==
  /\ Len(st[f]) < MaxStory
  /\ status \in Follows(KindOf[f], LastTold(st, f)) \cup {LastTold(st, f)}
  /\ k = [st EXCEPT ![f] = Append(@, status)]

\* A status more keeps the stories and what was heard of them.
LEMMA ToldMore ==
  ASSUME NEW st, Told(st), NEW f \in Refs, NEW status \in Statuses, NEW k,
         Tells(st, k, f, status), NEW hd, Hears(st, hd)
  PROVE  Told(k) /\ Hears(k, hd)
<1> DEFINE now == LastTold(st, f)
<1>0. /\ Len(st[f]) < MaxStory /\ k = [st EXCEPT ![f] = Append(@, status)]
      /\ now = (IF st[f] = <<>> THEN "none" ELSE st[f][Len(st[f])])
      /\ status \in Follows(KindOf[f], now) \cup {now} /\ status # "none"
  BY DEF Tells, LastTold, Statuses
<1> HIDE DEF now
<1>1. st \in [Refs -> Seq(Statuses)] /\ st[f] \in Seq(Statuses) /\ Len(st[f]) \in Nat
  BY DEF Told
<1> DEFINE l == Len(st[f])
           t == Append(st[f], status)
<1>2. /\ t \in Seq(Statuses) /\ Len(t) = l + 1 /\ t[l + 1] = status
      /\ \A i \in 1 .. l : t[i] = st[f][i]
  BY <1>1
<1>3. /\ k \in [Refs -> Seq(Statuses)] /\ k[f] = t
      /\ \A g \in Refs \ {f} : k[g] = st[g]
  BY <1>0, <1>1, <1>2
<1>4. l = 0 => now = "none"
  <2>1. l = 0 => st[f] = <<>>
    BY <1>1
  <2> QED BY <1>0, <2>1
<1>5. l > 0 => now = st[f][l]
  <2>1. l > 0 => st[f] # <<>>
    OBVIOUS
  <2> QED BY <1>0, <2>1
<1> HIDE DEF t
<1>6. l \in Nat /\ l < MaxStory /\ MaxStory \in Nat
  BY <1>0, <1>1, AmountsAssumption
<1>7. status \in Follows(KindOf[f], "none")
  <2>1. CASE l = 0
    BY <1>0, <1>4, <2>1
  <2>2. CASE l > 0
    <3>1. now \in Follows(KindOf[f], "none")
      BY <1>5, <1>6, <2>2 DEF Told
    <3> QED BY <1>0, <3>1, FollowsFirst DEF Later
  <2> QED BY <1>6, <2>1, <2>2
<1>8. ASSUME NEW i \in 1 .. l
      PROVE  Later(KindOf[f], st[f][i], status)
  <2>1. l > 0 /\ Later(KindOf[f], st[f][l], status)
    BY <1>0, <1>5, <1>6 DEF Later
  <2>2. CASE i = l
    BY <2>1, <2>2
  <2>3. CASE i # l
    <3>1. i < l /\ l \in 1 .. l /\ i \in 1 .. Len(st[f])
      BY <1>6, <2>3
    <3>2. Later(KindOf[f], st[f][i], st[f][l])
      BY <3>1 DEF Told
    <3>3. st[f][i] \in Statuses /\ st[f][i] # "none"
      <4>1. st[f][i] \in Statuses
        BY <1>1, <3>1
      <4> QED BY <4>1 DEF Statuses
    <3> QED BY <2>1, <3>2, <3>3, FollowsOn
  <2> QED BY <2>2, <2>3
<1>9. ASSUME NEW g \in Refs
      PROVE  /\ Len(k[g]) <= MaxStory
             /\ \A i \in 1 .. Len(k[g]) : k[g][i] \in Follows(KindOf[g], "none")
             /\ \A i, j \in 1 .. Len(k[g]) : i < j => Later(KindOf[g], k[g][i], k[g][j])
  <2>1. CASE g # f
    BY <1>3, <2>1 DEF Told
  <2>2. CASE g = f
    <3>1. Len(k[g]) <= MaxStory
      BY <1>2, <1>3, <1>6, <2>2
    <3>2. ASSUME NEW i \in 1 .. l + 1
          PROVE  t[i] \in Follows(KindOf[f], "none")
      <4>1. CASE i = l + 1
        BY <1>2, <1>7, <4>1
      <4>2. CASE i # l + 1
        <5>1. i \in 1 .. l
          BY <1>6, <4>2
        <5> QED BY <1>2, <5>1 DEF Told
      <4> QED BY <4>1, <4>2
    <3>3. ASSUME NEW i \in 1 .. l + 1, NEW j \in 1 .. l + 1, i < j
          PROVE  Later(KindOf[f], t[i], t[j])
      <4>1. i \in 1 .. l
        BY <1>6, <3>3
      <4>2. CASE j = l + 1
        BY <1>2, <1>8, <4>1, <4>2
      <4>3. CASE j # l + 1
        <5>1. j \in 1 .. l
          BY <1>6, <4>3
        <5> QED BY <1>2, <3>3, <4>1, <5>1 DEF Told
      <4> QED BY <4>2, <4>3
    <3> QED BY <1>2, <1>3, <2>2, <3>1, <3>2, <3>3
  <2> QED BY <2>1, <2>2
<1>10. Hears(k, hd)
  <2>1. ASSUME NEW x \in hd
        PROVE  x.watermark \in 1 .. Len(k[x.ref]) /\ x.status = k[x.ref][x.watermark]
    <3>1. x \in Notices /\ x.ref \in Refs
          /\ x.watermark \in 1 .. Len(st[x.ref]) /\ x.status = st[x.ref][x.watermark]
      BY NoticeIs DEF Hears
    <3>2. CASE x.ref = f
      <4>1. x.watermark \in 1 .. l
        BY <3>1, <3>2
      <4> QED BY <1>2, <1>3, <1>6, <3>1, <3>2, <4>1
    <3>3. CASE x.ref # f
      BY <1>3, <3>1, <3>3
    <3> QED BY <3>2, <3>3
  <2> QED BY <2>1 DEF Hears
<1>11. Told(k)
  BY <1>3, <1>9 DEF Told
<1> QED BY <1>10, <1>11

\* Notices of statuses that follow each other are consistent.
LEMMA HeardConsistent ==
  ASSUME NEW st, Told(st), NEW hd, Hears(st, hd)
  PROVE  Consistent(hd)
<1>1. \A x \in hd : x \in Notices /\ x.ref \in Refs /\ x.watermark \in 1 .. Len(st[x.ref])
                    /\ x.status = st[x.ref][x.watermark]
  BY NoticeIs DEF Hears
<1>2. \A x \in hd : x.status \in Follows(KindOf[x.ref], "none")
  BY <1>1 DEF Told
<1>3. ASSUME NEW x \in hd, NEW y \in hd, x.ref = y.ref
      PROVE  /\ x.watermark < y.watermark => Later(KindOf[x.ref], x.status, y.status)
             /\ x.watermark = y.watermark => x = y
  <2>1. x.watermark < y.watermark => Later(KindOf[x.ref], x.status, y.status)
    BY <1>1, <1>3 DEF Told
  <2>2. ASSUME x.watermark = y.watermark
        PROVE  x = y
    <3>1. x.status = y.status /\ x \in Notices /\ y \in Notices
      BY <1>1, <1>3, <2>2
    <3> QED BY <1>3, <2>2, <3>1 DEF Notices
  <2> QED BY <2>1, <2>2
<1> QED BY <1>2, <1>3 DEF Consistent

\* A notice of a status there was keeps them consistent.
LEMMA HeardMore ==
  ASSUME NEW st, Told(st), NEW hd, Hears(st, hd), NEW f \in Refs, NEW k \in 1 .. Len(st[f]),
         NEW x, x = [ref |-> f, watermark |-> k, status |-> st[f][k]]
  PROVE  x \in Notices /\ x.ref = f /\ Hears(st, hd \cup {x}) /\ Consistent(hd \cup {x})
<1>1. x.ref = f /\ x.watermark = k /\ x.status = st[f][k]
  OBVIOUS
<1>2. st[f] \in Seq(Statuses) /\ Len(st[f]) \in Nat /\ Len(st[f]) <= MaxStory /\ MaxStory \in Nat
  BY AmountsAssumption DEF Told
<1>3. st[f][k] \in Statuses /\ k \in 1 .. MaxStory
  BY <1>2
<1>4. x \in Notices
  BY <1>3 DEF Notices
<1>5. Hears(st, hd \cup {x})
  BY <1>1, <1>4 DEF Hears
<1> QED BY <1>1, <1>4, <1>5, HeardConsistent

\* A step that learns of no notice keeps what is known.
LEMMA KnownKept ==
  ASSUME NEW w, NEW v, SameTargets(w, v), NEW hd, hd \subseteq Notices, NEW ib, Known(w, hd, ib)
  PROVE  Known(v, hd, ib)
<1>1. \A x \in hd : PaymentOf[x.ref] \in Payments
  BY NoticeIs
<1>2. \A f \in Refs : PaymentOf[f] \in Payments
  BY PaymentsAssumption
<1>3. AllWait(w, hd, ib) => AllWait(v, hd, ib)
  BY <1>1 DEF AllWait, SameTargets
<1>4. AllKnown(w, hd) => AllKnown(v, hd)
  BY <1>2 DEF AllKnown, SameTargets
<1> QED BY <1>3, <1>4 DEF Known

\* What waits was still heard once more is heard.
LEMMA WaitsOn ==
  ASSUME NEW hd, NEW ib, Waits(hd, ib), NEW x
  PROVE  Waits(hd \cup {x}, ib)
BY DEF Waits

\* A notice of a payment that is credited is applied.
LEMMA NoticeApplied ==
  ASSUME NEW w, NEW hs, NEW n, NEW m, Accounts(w, hs, n, m), NEW hd, hd \subseteq Notices,
         NEW ib, Known(w, hd, ib), NEW x \in Notices, Consistent(hd \cup {x}),
         w.claims[PaymentOf[x.ref]].credited, NEW v, v = ApplyNotice(w, x)
  PROVE  Accounts(v, hs, n, m) /\ Known(v, hd \cup {x}, ib)
<1>1. m \in Int /\ Sound(w, n, m) /\ Targets(w) /\ Placed(w, hs, n) /\ n \in ShardCounts
  BY DEF Accounts
<1>2. /\ Sound(v, n, m) /\ SameHeld(w, v) /\ Targets(v) /\ SameCredited(w, v)
      /\ \A f \in Refs \ {x.ref} : v.facts[f] = w.facts[f]
      /\ v.facts[x.ref] = IF Learned(w.facts[x.ref], x) THEN FactOf(x) ELSE w.facts[x.ref]
  BY <1>1, AppliedIs
<1>3. Placed(v, hs, n)
  BY <1>1, <1>2 DEF Placed, SameHeld
<1>4. \A y \in hd \cup {x} : y.ref \in Refs /\ PaymentOf[y.ref] \in Payments
  BY NoticeIs
<1>5. ASSUME EveryNotice
      PROVE  AllWait(v, hd \cup {x}, ib) /\ AllKnown(v, hd \cup {x})
  <2>1. AllWait(w, hd, ib) /\ AllKnown(w, hd)
    BY <1>5 DEF Known
  <2>2. ASSUME NEW y \in hd \cup {x}, ~v.claims[PaymentOf[y.ref]].credited
        PROVE  y \in hd /\ ~w.claims[PaymentOf[y.ref]].credited
    BY <1>2, <1>4, <2>2 DEF SameCredited
  <2>3. AllWait(v, hd \cup {x}, ib)
    BY <2>1, <2>2 DEF AllWait
  <2>4. ASSUME NEW f \in Refs, v.claims[PaymentOf[f]].credited
        PROVE  Latest(hd \cup {x}, v.facts[f], f)
    <3>1. PaymentOf[f] \in Payments
      BY PaymentsAssumption
    <3>2. Latest(hd, w.facts[f], f)
      BY <1>2, <2>1, <2>4, <3>1 DEF AllKnown, SameCredited
    <3>3. CASE f = x.ref
      <4>1. Latest(hd \cup {x}, IF Learned(w.facts[x.ref], x) THEN FactOf(x) ELSE w.facts[x.ref], x.ref)
        BY <3>2, <3>3, LatestLearned
      <4> QED BY <1>2, <3>3, <4>1
    <3>4. CASE f # x.ref
      BY <1>2, <3>2, <3>4, LatestOther
    <3> QED BY <3>3, <3>4
  <2> QED BY <2>3, <2>4 DEF AllKnown
<1> QED BY <1>1, <1>2, <1>3, <1>5 DEF Accounts, Known

\* A notice of a payment that is not credited waits for it.
LEMMA NoticeWaits ==
  ASSUME NEW w, NEW hd, hd \subseteq Notices, NEW ib, Waits(hd, ib), Known(w, hd, ib),
         NEW x \in Notices, Consistent(hd \cup {x}), NEW p, p = PaymentOf[x.ref],
         ~w.claims[p].credited, NEW k, k = [ib EXCEPT ![p] = Kept(@, x)]
  PROVE  Waits(hd \cup {x}, k) /\ Known(w, hd \cup {x}, k)
<1> DEFINE t == ib[p]
           u == Kept(t, x)
<1>1. x.ref \in Refs /\ p \in Payments /\ ib \in [Payments -> Seq(Notices)] /\ t \in Seq(Notices)
  BY NoticeIs DEF Waits
<1>2. k \in [Payments -> {ib[q] : q \in Payments} \cup {u}] /\ k[p] = u
      /\ \A q \in Payments \ {p} : k[q] = ib[q]
  BY <1>1
<1>3. \A i \in DOMAIN t : t[i] \in hd /\ PaymentOf[t[i].ref] = p
  BY <1>1 DEF Waits
<1> DEFINE Has == \E i \in DOMAIN t :
                     t[i].ref = x.ref /\ (EveryNotice => t[i].watermark = x.watermark)
<1>4. u = IF Has THEN t ELSE Append(t, x)
  BY DEF Kept
<1> HIDE DEF u, t
<1>5. /\ u \in Seq(Notices)
      /\ \A i \in DOMAIN u : u[i] \in hd \cup {x} /\ PaymentOf[u[i].ref] = p
      /\ \A i \in DOMAIN t : i \in DOMAIN u /\ u[i] = t[i]
      /\ EveryNotice => \E i \in DOMAIN u : u[i] = x
  <2>1. CASE Has
    <3>1. u = t
      BY <1>4, <2>1
    <3>2. EveryNotice => \E i \in DOMAIN u : u[i] = x
      <4>1. SUFFICES ASSUME EveryNotice
                     PROVE  \E i \in DOMAIN u : u[i] = x
        OBVIOUS
      <4>2. PICK i \in DOMAIN t : t[i].ref = x.ref /\ t[i].watermark = x.watermark
        BY <2>1, <4>1
      <4>3. t[i] = x
        BY <1>3, <4>2 DEF Consistent
      <4> QED BY <3>1, <4>3
    <3> QED BY <1>1, <1>3, <3>1, <3>2
  <2>2. CASE ~Has
    <3>1. u = Append(t, x)
      BY <1>4, <2>2
    <3>2. u \in Seq(Notices) /\ Len(t) \in Nat /\ DOMAIN t = 1 .. Len(t) /\ DOMAIN u = 1 .. Len(t) + 1
          /\ u[Len(t) + 1] = x /\ \A i \in 1 .. Len(t) : u[i] = t[i]
      BY <1>1, <3>1
    <3>3. \A i \in DOMAIN u : i = Len(t) + 1 \/ i \in DOMAIN t
      BY <3>2
    <3>4. Len(t) + 1 \in DOMAIN u /\ \A i \in DOMAIN t : i \in DOMAIN u
      BY <3>2
    <3> QED BY <1>3, <3>2, <3>3, <3>4
  <2> QED BY <2>1, <2>2
<1>6. k \in [Payments -> Seq(Notices)]
  BY <1>1, <1>2, <1>5
<1>7. ASSUME NEW q \in Payments, NEW i \in DOMAIN k[q]
      PROVE  k[q][i] \in hd \cup {x} /\ PaymentOf[k[q][i].ref] = q
  <2>1. CASE q = p
    BY <1>2, <1>5, <2>1
  <2>2. CASE q # p
    BY <1>2, <2>2 DEF Waits
  <2> QED BY <2>1, <2>2
<1>8. ASSUME EveryNotice
      PROVE  AllWait(w, hd \cup {x}, k) /\ AllKnown(w, hd \cup {x})
  <2>1. AllWait(w, hd, ib) /\ AllKnown(w, hd)
    BY <1>8 DEF Known
  <2>2. ASSUME NEW y \in hd \cup {x}, ~w.claims[PaymentOf[y.ref]].credited
        PROVE  \E i \in DOMAIN k[PaymentOf[y.ref]] : k[PaymentOf[y.ref]][i] = y
    <3>1. CASE y = x
      BY <1>2, <1>5, <1>8, <3>1
    <3>2. CASE y # x
      <4>1. y \in hd /\ PaymentOf[y.ref] \in Payments
        BY <3>2, NoticeIs
      <4>2. PICK i \in DOMAIN ib[PaymentOf[y.ref]] : ib[PaymentOf[y.ref]][i] = y
        BY <2>1, <2>2, <4>1 DEF AllWait
      <4>3. CASE PaymentOf[y.ref] = p
        BY <1>2, <1>5, <4>2, <4>3 DEF t
      <4>4. CASE PaymentOf[y.ref] # p
        BY <1>2, <4>1, <4>2, <4>4
      <4> QED BY <4>3, <4>4
    <3> QED BY <3>1, <3>2
  <2>3. ASSUME NEW f \in Refs, w.claims[PaymentOf[f]].credited
        PROVE  Latest(hd \cup {x}, w.facts[f], f)
    <3>1. f # x.ref
      BY <2>3
    <3>2. Latest(hd, w.facts[f], f)
      BY <2>1, <2>3 DEF AllKnown
    <3> QED BY <3>1, <3>2, LatestOther
  <2> QED BY <2>2, <2>3 DEF AllWait, AllKnown
<1> QED BY <1>6, <1>7, <1>8 DEF Waits, Known

\* A payment's claim is opened.
Opened(w, p) == [w EXCEPT !.claims[p].credited = TRUE]

\* An opened claim keeps the books: nothing was claimed of it yet.
LEMMA OpenedIs ==
  ASSUME NEW w, NEW n, NEW m \in Int, Sound(w, n, m), Targets(w), NEW p \in Payments,
         ~w.claims[p].credited
  PROVE  LET u == Opened(w, p)
         IN  /\ Booked(u, n, m) /\ Targets(u) /\ SameHeld(w, u) /\ u.facts = w.facts
             /\ u.claims[p].credited
             /\ \A q \in Payments \ {p} : u.claims[q] = w.claims[q]
<1> DEFINE u == Opened(w, p)
           b == w.claims[p]
           c == [b EXCEPT !.credited = TRUE]
<1>1. /\ IsWorkspace(w, n) /\ w \in Workspace(n) /\ SplitClaims(w)
      /\ Total(w, "credits") + Recovered(w) = m
  BY DEF Sound, Booked, IsWorkspace
<1>2. b \in ClaimRow /\ b.target = b.recovered + b.unrecovered
  BY <1>1 DEF Workspace, SplitClaims
<1>3. /\ c \in ClaimRow /\ c.credited /\ c.target = b.target /\ c.recovered = b.recovered
      /\ c.unrecovered = b.unrecovered
  BY <1>2 DEF ClaimRow
<1>4. WritesClaim(w, u, p, c)
  BY DEF WritesClaim, Opened
<1>5. b.recovered \in Int
  BY <1>2 DEF ClaimRow
<1> HIDE DEF c, u
<1>6. /\ IsWorkspace(u, n) /\ u.rows = w.rows /\ u.marked = w.marked /\ u.facts = w.facts
      /\ SplitClaims(u) /\ u.claims[p] = c /\ u.causes = w.causes
      /\ \A q \in Payments \ {p} : u.claims[q] = w.claims[q]
      /\ Recovered(u) = Recovered(w) + c.recovered - b.recovered
  <2>1. c.target = c.recovered + c.unrecovered
    BY <1>2, <1>3
  <2> QED BY <1>1, <1>3, <1>4, <2>1, ClaimWritten
<1>7. Recovered(w) \in Int
  BY <1>1, RecoveredIs
<1>8. Total(u, "credits") = Total(w, "credits")
  BY <1>6 DEF Total
<1>9. Booked(u, n, m)
  BY <1>1, <1>3, <1>5, <1>6, <1>7, <1>8 DEF Booked
<1>10. SameHeld(w, u)
  BY <1>6 DEF SameHeld
<1>11. Targets(u)
  <2>1. b.target = 0 /\ \A f \in Refs : PaymentOf[f] = p => w.facts[f] = NoFact
    BY DEF Targets
  <2>2. RecoveryTarget(u.facts, p) = 0
    BY <1>6, <2>1, TargetNone
  <2>3. ASSUME NEW q \in Payments
        PROVE  IF u.claims[q].credited THEN u.claims[q].target = RecoveryTarget(u.facts, q)
               ELSE /\ u.claims[q].target = 0
                    /\ \A f \in Refs : PaymentOf[f] = q => u.facts[f] = NoFact
    <3>1. CASE q = p
      BY <1>3, <1>6, <2>1, <2>2, <3>1
    <3>2. CASE q # p
      BY <1>6, <3>2 DEF Targets
    <3> QED BY <3>1, <3>2
  <2> QED BY <2>3 DEF Targets
<1> QED BY <1>3, <1>6, <1>9, <1>10, <1>11 DEF u

\* A payment is credited, and what waited for it is applied.
CreditsPayment(w, v, ib, k, p) ==
  /\ ~w.claims[p].credited
  /\ v = Drained(NewMoney(Opened(w, p), Credited[p], TRUE), ib[p])
  /\ k = [ib EXCEPT ![p] = <<>>]

\* Crediting a payment and draining its inbox keeps accounts and facts.
LEMMA CreditedIs ==
  ASSUME NEW w, NEW hs, NEW n, NEW m, Accounts(w, hs, n, m), NEW hd, hd \subseteq Notices,
         Consistent(hd), NEW ib, Waits(hd, ib), Known(w, hd, ib), NEW p \in Payments,
         NEW v, NEW k, CreditsPayment(w, v, ib, k, p)
  PROVE  Accounts(v, hs, n, m + Credited[p]) /\ Waits(hd, k) /\ Known(v, hd, k)
<1> DEFINE u == Opened(w, p)
           a == Credited[p]
           y == NewMoney(u, a, TRUE)
           t == ib[p]
           N == RowsAt(t, DOMAIN t)
<1>1. m \in Int /\ Sound(w, n, m) /\ Targets(w) /\ Placed(w, hs, n) /\ n \in ShardCounts /\ a \in Nat
  BY PaymentsAssumption DEF Accounts
<1>2. /\ Booked(u, n, m) /\ Targets(u) /\ SameHeld(w, u) /\ u.facts = w.facts
      /\ u.claims[p].credited /\ \A q \in Payments \ {p} : u.claims[q] = w.claims[q]
  BY <1>1, OpenedIs DEF CreditsPayment
<1>3. v = Drained(y, t) /\ ~w.claims[p].credited /\ k = [ib EXCEPT ![p] = <<>>]
  BY DEF CreditsPayment
<1> HIDE DEF u, a
<1>4. Sound(y, n, m + a) /\ SameHeld(u, y) /\ SameTargets(u, y)
  BY <1>1, <1>2, NewMoneyIs DEF Keeps
<1>5. m + a \in Int
  BY <1>1
<1> HIDE DEF y
<1>6. Targets(y)
  BY <1>2, <1>4, TargetsKept
<1>7. /\ y.facts = w.facts /\ y.claims[p].credited
      /\ \A q \in Payments \ {p} : y.claims[q].credited = w.claims[q].credited
      /\ \A f \in Refs : PaymentOf[f] = p => y.facts[f] = NoFact
  <2>1. \A f \in Refs : PaymentOf[f] = p => w.facts[f] = NoFact
    BY <1>1, <1>3 DEF Targets
  <2> QED BY <1>2, <1>4, <2>1 DEF SameTargets
<1>8. N \subseteq hd /\ t \in Seq(Notices) /\ \A i \in DOMAIN t : PaymentOf[t[i].ref] = p
  BY DEF Waits, RowsAt
<1>9. InboxOf(t, p)
  <2>1. Consistent(N)
    <3> HIDE DEF N
    <3> QED BY <1>8, ConsistentPart
  <2> QED BY <1>8, <2>1 DEF InboxOf
<1>10. AfterNotices(y, v, n, m + a, p, N)
  <2> HIDE DEF t
  <2> QED BY <1>3, <1>4, <1>5, <1>6, <1>7, <1>9, DrainedIs
<1>11. /\ Sound(v, n, m + a) /\ SameHeld(y, v) /\ Targets(v) /\ v.claims[p].credited
       /\ \A q \in Payments \ {p} : v.claims[q].credited = w.claims[q].credited
       /\ \A f \in Refs : PaymentOf[f] # p => v.facts[f] = w.facts[f]
       /\ \A f \in Refs : PaymentOf[f] = p => Latest(N, v.facts[f], f)
  BY <1>7, <1>10 DEF AfterNotices, SameCredited
<1>12. Placed(v, hs, n)
  <2>1. SameHeld(w, v)
    BY <1>2, <1>4, <1>11 DEF SameHeld
  <2> QED BY <1>1, <2>1 DEF Placed, SameHeld
<1>13. Accounts(v, hs, n, m + a)
  BY <1>1, <1>5, <1>11, <1>12 DEF Accounts
<1>14. /\ k \in [Payments -> Seq(Notices)] /\ k[p] = <<>>
       /\ \A q \in Payments \ {p} : k[q] = ib[q]
  BY <1>3 DEF Waits
<1>15. Waits(hd, k)
  <2>1. ASSUME NEW q \in Payments, NEW i \in DOMAIN k[q]
        PROVE  k[q][i] \in hd /\ PaymentOf[k[q][i].ref] = q
    <3>1. CASE q = p
      BY <1>14, <2>1, <3>1
    <3>2. CASE q # p
      BY <1>14, <3>2 DEF Waits
    <3> QED BY <3>1, <3>2
  <2> QED BY <1>14, <2>1 DEF Waits
<1>16. ASSUME EveryNotice
       PROVE  AllWait(v, hd, k) /\ AllKnown(v, hd)
  <2>1. AllWait(w, hd, ib) /\ AllKnown(w, hd)
    BY <1>16 DEF Known
  <2>2. \A x \in hd : x.ref \in Refs /\ PaymentOf[x.ref] \in Payments
    BY NoticeIs
  <2>3. ASSUME NEW x \in hd, ~v.claims[PaymentOf[x.ref]].credited
        PROVE  \E i \in DOMAIN k[PaymentOf[x.ref]] : k[PaymentOf[x.ref]][i] = x
    <3>1. PaymentOf[x.ref] \in Payments \ {p} /\ ~w.claims[PaymentOf[x.ref]].credited
      BY <1>11, <2>2, <2>3
    <3> QED BY <1>14, <2>1, <3>1 DEF AllWait
  <2>4. \A x \in hd : PaymentOf[x.ref] = p => x \in N
    BY <1>3, <2>1 DEF AllWait, RowsAt
  <2>5. ASSUME NEW f \in Refs, v.claims[PaymentOf[f]].credited
        PROVE  Latest(hd, v.facts[f], f)
    <3>1. PaymentOf[f] \in Payments
      BY PaymentsAssumption
    <3>2. CASE PaymentOf[f] = p
      <4>1. Latest(N, v.facts[f], f)
        BY <1>11, <3>2
      <4> HIDE DEF N
      <4> QED BY <1>8, <2>4, <3>2, <4>1 DEF Latest
    <3>3. CASE PaymentOf[f] # p
      <4>1. w.claims[PaymentOf[f]].credited /\ v.facts[f] = w.facts[f]
        BY <1>11, <2>5, <3>1, <3>3
      <4> QED BY <2>1, <4>1 DEF AllKnown
    <3> QED BY <3>2, <3>3
  <2> QED BY <2>3, <2>5 DEF AllWait, AllKnown
<1> QED BY <1>13, <1>15, <1>16 DEF Known, a

\* A sum of zeros.
LEMMA SumOfZeros ==
  ASSUME NEW f, NEW S, IsFiniteSet(S), \A x \in S : f[x] = 0
  PROVE  SumFunctionOnSet(f, S) = 0
<1>1. Valued(f, S, Int) /\ {} \in SUBSET S
  BY DEF Valued
<1>2. SumFunctionOnSet(f, S) = SumFunctionOnSet(f, {})
  BY <1>1, SumOfPart
<1> QED BY <1>2, SumOfNone

\* A new workspace's accounts.
LEMMA NewWorkspace ==
  ASSUME NEW n \in ShardCounts,
         NEW w, w = [rows |-> [s \in 0 .. n - 1 |-> [credits |-> 0, usage |-> 0, reserved |-> 0]],
                     marked |-> FALSE, claims |-> [p \in Payments |-> NoClaim],
                     facts |-> [f \in Refs |-> NoFact], causes |-> {}],
         NEW hs, hs = [r \in Reqs |-> NoHold]
  PROVE  /\ Accounts(w, hs, n, 0)
         /\ \A p \in Payments : ~w.claims[p].credited
<1> DEFINE S == 0 .. n - 1
<1>1. n \in Nat \ {0} /\ MaxStory \in Nat
  BY AmountsAssumption
<1>2. IsFiniteSet(S) /\ IsFiniteSet(Payments) /\ 0 \in S
  BY <1>1, Shards, PaymentsAssumption
<1>3. /\ w.rows \in [S -> Row] /\ w.marked = FALSE /\ w.claims \in [Payments -> ClaimRow]
      /\ w.facts \in [Refs -> Fact] /\ w.causes \in SUBSET Causes
  BY <1>1 DEF Row, ClaimRow, Fact, NoClaim, NoFact
<1>4. IsWorkspace(w, n)
  BY <1>1, <1>3 DEF IsWorkspace, Workspace
<1>5. \A s \in S : w.rows[s].credits = 0 /\ w.rows[s].usage = 0 /\ w.rows[s].reserved = 0
  OBVIOUS
<1>6. \A p \in Payments : /\ w.claims[p].credited = FALSE /\ w.claims[p].target = 0
                          /\ w.claims[p].recovered = 0 /\ w.claims[p].unrecovered = 0
  BY DEF NoClaim
<1>7. \A f \in Refs : w.facts[f] = NoFact
  OBVIOUS
<1>8. DOMAIN w.rows = S
  BY <1>3
<1>9. Total(w, "credits") = 0
  <2>1. Total(w, "credits") = SumFunctionOnSet(Counter(w, "credits"), S)
    BY <1>4, TotalIs
  <2>2. \A s \in S : Counter(w, "credits")[s] = 0
    BY <1>5, <1>8 DEF Counter
  <2> HIDE DEF S
  <2> QED BY <1>2, <2>1, <2>2, SumOfZeros
<1>10. Recovered(w) = 0
  <2> DEFINE g == [p \in Payments |-> w.claims[p].recovered]
  <2>1. Recovered(w) = SumFunctionOnSet(g, Payments)
    BY DEF Recovered, SumFunction
  <2>2. \A p \in Payments : g[p] = 0
    BY <1>6
  <2> HIDE DEF g
  <2> QED BY <1>2, <2>1, <2>2, SumOfZeros
<1>11. Marks(Headroom(w), w.marked)
  <2>1. \A s \in S : Headroom(w)[s] = w.rows[s].credits - w.rows[s].usage - w.rows[s].reserved
    BY <1>4, HeadroomIs
  <2>2. DOMAIN Headroom(w) = S
    BY <1>4, HeadroomIs, HeadroomSum
  <2>3. \A s \in S : Headroom(w)[s] = 0
    <3>1. 0 - 0 - 0 = 0
      OBVIOUS
    <3> QED BY ONLY <1>5, <2>1, <3>1
  <2>4. Negative(Headroom(w)) = {}
    <3> DEFINE h == Headroom(w)
    <3>1. DOMAIN h = S /\ \A s \in S : h[s] = 0
      BY ONLY <2>2, <2>3
    <3>2. ~(0 < 0)
      OBVIOUS
    <3> HIDE DEF h, S
    <3>3. \A s \in DOMAIN h : ~(h[s] < 0)
      BY ONLY <3>1, <3>2
    <3>4. Negative(h) = {}
      BY ONLY <3>3 DEF Negative
    <3> QED BY <3>4 DEF h
  <2> QED BY <1>3, <2>4 DEF Marks
<1>12. SplitClaims(w) /\ Targets(w)
  BY <1>6, <1>7 DEF SplitClaims, Targets
<1>13. Placed(w, hs, n)
  <2>1. hs \in HoldsOf(n) /\ \A r \in Reqs : hs[r].amount = 0
    BY <1>2 DEF HoldsOf, HoldAt, NoHold
  <2>2. \A s : HeldOn(hs, s) = 0
    BY <2>1, NoneHeld
  <2> QED BY <1>5, <1>8, <2>1, <2>2 DEF Placed
<1>14. Sound(w, n, 0)
  BY ONLY <1>4, <1>9, <1>10, <1>11, <1>12 DEF Sound, Booked
<1> QED BY <1>6, <1>12, <1>13, <1>14 DEF Accounts

-----------------------------------------------------------------------------
(* The inductive invariant.                                                  *)

CreditInv ==
  /\ \E n \in ShardCounts : Accounts(ws, holds, n, money)
  /\ Told(story) /\ Hears(story, heard) /\ Waits(heard, inbox)
  /\ Known(ws, heard, inbox)
  /\ moves \in 0 .. MaxMoves

\* The invariant holds at first.
LEMMA InitInv == Init => CreditInv
<1> SUFFICES ASSUME Init PROVE CreditInv
  OBVIOUS
<1>1. PICK n \in ShardCounts :
        ws = [rows |-> [s \in 0 .. n - 1 |-> [credits |-> 0, usage |-> 0, reserved |-> 0]],
              marked |-> FALSE, claims |-> [p \in Payments |-> NoClaim],
              facts |-> [f \in Refs |-> NoFact], causes |-> {}]
  BY DEF Init
<1>2. holds = [r \in Reqs |-> NoHold] /\ story = [f \in Refs |-> <<>>] /\ heard = {}
      /\ inbox = [p \in Payments |-> <<>>] /\ money = 0 /\ moves = 0
  BY DEF Init
<1>3. Accounts(ws, holds, n, money) /\ \A p \in Payments : ~ws.claims[p].credited
  BY <1>1, <1>2, NewWorkspace
<1>4. Told(story)
  BY <1>2, AmountsAssumption DEF Told
<1>5. Hears(story, heard)
  BY <1>2 DEF Hears
<1>6. Waits(heard, inbox)
  BY <1>2 DEF Waits
<1>7. Known(ws, heard, inbox)
  BY <1>2, <1>3, PaymentsAssumption DEF Known, AllWait, AllKnown
<1>8. moves \in 0 .. MaxMoves
  BY <1>2, AmountsAssumption
<1> QED BY <1>3, <1>4, <1>5, <1>6, <1>7, <1>8 DEF CreditInv

\* What every step that is neither the provider's nor a notice's leaves alone.
SameNotices == UNCHANGED <<story, heard, inbox>>

\* A step that learns of no notice keeps the invariant with the accounts.
LEMMA InvKept ==
  ASSUME CreditInv, NEW k \in ShardCounts, Accounts(ws, holds, k, money)', SameTargets(ws, ws'),
         SameNotices, moves' \in 0 .. MaxMoves
  PROVE  CreditInv'
<1>1. story' = story /\ heard' = heard /\ inbox' = inbox
  BY DEF SameNotices
<1>2. Told(story') /\ Hears(story', heard') /\ Waits(heard', inbox')
  BY <1>1 DEF CreditInv
<1>3. Known(ws', heard', inbox')
  <2>1. Known(ws, heard, inbox) /\ heard \subseteq Notices
    BY DEF CreditInv, Hears
  <2> QED BY <1>1, <2>1, KnownKept
<1> QED BY <1>2, <1>3 DEF CreditInv

\* The bound on the moves.
LEMMA OneMoreMove ==
  ASSUME CreditInv, moves < MaxMoves, moves' = moves + 1
  PROVE  moves' \in 0 .. MaxMoves
BY AmountsAssumption DEF CreditInv

\* A move that keeps the holds and the targets.
LEMMA MoveKeeps ==
  ASSUME CreditInv, NEW n \in ShardCounts, Accounts(ws, holds, n, money), NEW v, NEW a \in Int,
         Sound(v, n, money + a), Keeps(ws, v), Move(v, a)
  PROVE  CreditInv'
<1>1. ws' = v /\ money' = money + a /\ holds' = holds /\ SameNotices
      /\ moves < MaxMoves /\ moves' = moves + 1
  BY DEF Move, SameNotices
<1>2. money + a \in Int
  BY DEF Accounts
<1>3. Accounts(v, holds, n, money + a) /\ SameTargets(ws, v)
  BY <1>2, AccountsKept
<1>4. Accounts(ws', holds', n, money') /\ SameTargets(ws, ws')
  BY <1>1, <1>3
<1> QED BY <1>1, <1>4, OneMoreMove, InvKept

\* Amounts in their ranges.
LEMMA AmountsAre ==
  /\ \A a \in Amounts : a \in Nat /\ -a \in Int
  /\ \A a \in Estimates : a \in Nat
  /\ \A a \in Actuals : a \in Nat
BY AmountsAssumption

\* Action: Reserve.
LEMMA ReserveInv ==
  ASSUME CreditInv, NEW r \in Reqs, NEW s \in DOMAIN ws.rows, NEW est \in Estimates,
         Reserve(r, s, est)
  PROVE  CreditInv'
<1>1. PICK n \in ShardCounts : Accounts(ws, holds, n, money)
  BY DEF CreditInv
<1>2. /\ holds[r] = NoHold /\ Reservable(ws, s, est)
      /\ ws' = [ws EXCEPT !.rows[s].reserved = @ + est]
      /\ holds' = [holds EXCEPT ![r] = [shard |-> s, amount |-> est]]
      /\ SameNotices /\ money' = money /\ moves' = moves
  BY DEF Reserve, SameNotices
<1>3. Accounts(ws', holds', n, money) /\ SameTargets(ws, ws')
  BY <1>1, <1>2, AmountsAre, ReserveIs
<1>4. Accounts(ws', holds', n, money') /\ moves' \in 0 .. MaxMoves
  BY <1>2, <1>3 DEF CreditInv
<1> QED BY <1>2, <1>3, <1>4, InvKept

\* Action: Release.
LEMMA ReleaseInv ==
  ASSUME CreditInv, NEW r \in Reqs, NEW actual \in Actuals, Release(r, actual)
  PROVE  CreditInv'
<1>1. PICK n \in ShardCounts : Accounts(ws, holds, n, money)
  BY DEF CreditInv
<1>2. /\ ws' = Released(ws, holds[r].shard, holds[r].amount, actual)
      /\ holds' = [holds EXCEPT ![r] = NoHold]
      /\ SameNotices /\ money' = money /\ moves' = moves
  BY DEF Release, SameNotices
<1>3. Accounts(ws', holds', n, money) /\ SameTargets(ws, ws')
  BY <1>1, <1>2, AmountsAre, ReleaseIs
<1>4. Accounts(ws', holds', n, money') /\ moves' \in 0 .. MaxMoves
  BY <1>2, <1>3 DEF CreditInv
<1> QED BY <1>2, <1>3, <1>4, InvKept

\* Action: Grant and TransferIn.
LEMMA MoneyInInv ==
  ASSUME CreditInv, NEW a \in Amounts, Grant(a) \/ TransferIn(a)
  PROVE  CreditInv'
<1>1. PICK n \in ShardCounts : Accounts(ws, holds, n, money)
  BY DEF CreditInv
<1>2. PICK absorbing \in BOOLEAN : Move(NewMoney(ws, a, absorbing), a)
  BY DEF Grant, TransferIn
<1> DEFINE v == NewMoney(ws, a, absorbing)
<1>3. money \in Int /\ Booked(ws, n, money) /\ a \in Nat /\ a \in Int
  BY <1>1, AccountsRows, AmountsAre
<1>4. Sound(v, n, money + a) /\ Keeps(ws, v)
  BY <1>3, NewMoneyIs
<1>5. Move(v, a)
  BY <1>2
<1> HIDE DEF v
<1> QED BY <1>1, <1>3, <1>4, <1>5, MoveKeeps

\* Action: NegativeGrant.
LEMMA NegativeGrantInv ==
  ASSUME CreditInv, NEW a \in Amounts, NegativeGrant(a)
  PROVE  CreditInv'
<1>1. PICK n \in ShardCounts : Accounts(ws, holds, n, money)
  BY DEF CreditInv
<1> DEFINE v == CoverOrMark(TakeOff(ws, Distribute(a, ShardCount(ws))))
<1>2. money \in Int /\ Sound(ws, n, money) /\ a \in Nat /\ -a \in Int /\ money + (-a) = money - a
  BY <1>1, AmountsAre DEF Accounts
<1>3. Sound(v, n, money - a) /\ Keeps(ws, v)
  BY <1>2, NegativeGrantIs
<1>4. Move(v, -a)
  BY DEF NegativeGrant
<1> HIDE DEF v
<1> QED BY <1>1, <1>2, <1>3, <1>4, MoveKeeps

\* Action: Debit.
LEMMA DebitInv ==
  ASSUME CreditInv, NEW a \in Amounts, Debit(a)
  PROVE  CreditInv'
<1>1. PICK n \in ShardCounts : Accounts(ws, holds, n, money)
  BY DEF CreditInv
<1> DEFINE v == [ws EXCEPT !.rows[0].credits = @ - a]
<1>2. money \in Int /\ Sound(ws, n, money) /\ a \in Nat /\ -a \in Int /\ money + (-a) = money - a
  BY <1>1, AmountsAre DEF Accounts
<1>3. Debitable(ws, a) /\ Move(v, -a)
  BY DEF Debit
<1>4. Sound(v, n, money - a) /\ Keeps(ws, v)
  BY <1>2, <1>3, DebitIs
<1> HIDE DEF v
<1> QED BY <1>1, <1>2, <1>3, <1>4, MoveKeeps

\* Action: TransferOut.
LEMMA TransferOutInv ==
  ASSUME CreditInv, NEW a \in Amounts, TransferOut(a)
  PROVE  CreditInv'
<1>1. PICK n \in ShardCounts : Accounts(ws, holds, n, money)
  BY DEF CreditInv
<1> DEFINE t == TakeAscending(Headroom(ws), a)
           v == TakeOff(ws, t)
<1>2. money \in Int /\ Sound(ws, n, money) /\ a \in Nat /\ -a \in Int /\ money + (-a) = money - a
  BY <1>1, AmountsAre DEF Accounts
<1>3. Signed(Headroom(ws)) >= a /\ Move(v, -a)
  BY DEF TransferOut, Transferable
<1>4. Signed(Headroom(ws)) \in Int
  BY <1>1, AccountsRows, HeadroomIs, HeadroomSum
<1>5. a <= Signed(Headroom(ws))
  BY <1>2, <1>3, <1>4
<1>6. Sound(v, n, money - SumFunction(t)) /\ Keeps(ws, v) /\ SumFunction(t) = a
  BY <1>2, <1>5, AscendingSound
<1> HIDE DEF v
<1> QED BY <1>1, <1>2, <1>3, <1>6, MoveKeeps

\* Action: FederatedUsage.
LEMMA FederatedUsageInv ==
  ASSUME CreditInv, NEW a \in Amounts, FederatedUsage(a)
  PROVE  CreditInv'
<1>1. PICK n \in ShardCounts : Accounts(ws, holds, n, money)
  BY DEF CreditInv
<1> DEFINE v == IF Headroom(Spent(ws, 0, 0, a))[0] < 0 /\ ~ws.marked
                THEN CoverOrMark(Spent(ws, 0, 0, a)) ELSE Spent(ws, 0, 0, a)
<1>2. money \in Int /\ Sound(ws, n, money) /\ a \in Nat /\ money + 0 = money
  BY <1>1, AmountsAre DEF Accounts
<1>3. Sound(v, n, money) /\ Keeps(ws, v)
  BY <1>2, FederatedIs
<1>4. Move(v, 0)
  BY DEF FederatedUsage
<1> HIDE DEF v
<1> QED BY <1>1, <1>2, <1>3, <1>4, MoveKeeps

\* Action: Rebalance.
LEMMA RebalanceInv ==
  ASSUME CreditInv, NEW s \in DOMAIN ws.rows, NEW est \in Estimates, Rebalance(s, est)
  PROVE  CreditInv'
<1>1. PICK n \in ShardCounts : Accounts(ws, holds, n, money)
  BY DEF CreditInv
<1> DEFINE g == Given(Headroom(ws), s, est)
           v == TakeOff(ws, g)
<1>2. /\ money \in Int /\ Sound(ws, n, money) /\ est \in Nat /\ money + 0 = money
      /\ s \in 0 .. n - 1
  BY <1>1, AmountsAre, AccountsRows DEF Accounts
<1>3. Signed(Headroom(ws)) >= est /\ Headroom(ws)[s] < est /\ Move(v, 0)
  BY DEF Rebalance, Given
<1>4. Sound(v, n, money) /\ Keeps(ws, v)
  BY <1>2, <1>3, RebalanceIs
<1> HIDE DEF v
<1> QED BY <1>1, <1>2, <1>3, <1>4, MoveKeeps

\* Action: Reshard.
LEMMA ReshardInv ==
  ASSUME CreditInv, NEW k \in ShardCounts, NEW keepHolds \in BOOLEAN, Reshard(k, keepHolds)
  PROVE  CreditInv'
<1>1. PICK n \in ShardCounts : Accounts(ws, holds, n, money)
  BY DEF CreditInv
<1>2. money \in Int /\ money + 0 = money
  BY <1>1 DEF Accounts
<1>3. /\ ws' = [ws EXCEPT !.rows = IF keepHolds THEN SplitRows(ws, k) ELSE EvenRows(ws, k),
                          !.marked = FALSE]
      /\ money' = money + 0 /\ holds' = holds /\ SameNotices
      /\ moves < MaxMoves /\ moves' = moves + 1 /\ Reshardable(ws, k)
  BY DEF Reshard, Move, SameNotices
<1>4. CASE keepHolds
  <2>1. k > ShardCount(ws) /\ ws' = [ws EXCEPT !.rows = SplitRows(ws, k), !.marked = FALSE]
    BY <1>3, <1>4 DEF Reshard
  <2>2. Accounts(ws', holds, k, money) /\ SameTargets(ws, ws')
    BY <1>1, <1>3, <2>1, SplitAccounts
  <2> QED BY <1>2, <1>3, <2>2, OneMoreMove, InvKept
<1>5. CASE ~keepHolds
  <2>1. /\ \A r \in Reqs : holds[r] = NoHold
        /\ \A s \in 0 .. k - 1 : EvenRows(ws, k)[s].usage <= EvenRows(ws, k)[s].credits
        /\ ws' = [ws EXCEPT !.rows = EvenRows(ws, k), !.marked = FALSE]
    BY <1>3, <1>5 DEF Reshard
  <2>2. Accounts(ws', holds, k, money) /\ SameTargets(ws, ws')
    BY <1>1, <2>1, EvenAccounts
  <2> QED BY <1>2, <1>3, <2>2, OneMoreMove, InvKept
<1> QED BY <1>4, <1>5

\* Action: PauseToReshard and Unpause.
LEMMA PauseInv ==
  ASSUME CreditInv, PauseToReshard \/ Unpause
  PROVE  CreditInv'
<1>1. PICK n \in ShardCounts : Accounts(ws, holds, n, money)
  BY DEF CreditInv
<1>2. ws.causes \in SUBSET Causes
  BY <1>1, AccountsRows DEF Workspace
<1>3. PICK c \in SUBSET Causes : ws' = [ws EXCEPT !.causes = c]
  <2>1. ws.causes \cup {"migration"} \in SUBSET Causes /\ ws.causes \ {"migration"} \in SUBSET Causes
    BY <1>2 DEF Causes
  <2> QED BY <2>1 DEF PauseToReshard, Unpause
<1>4. holds' = holds /\ money' = money /\ moves' = moves /\ SameNotices
  BY DEF PauseToReshard, Unpause, SameNotices
<1>5. Accounts(ws', holds, n, money) /\ SameTargets(ws, ws')
  BY <1>1, <1>3, CausesAccounts
<1>6. Accounts(ws', holds', n, money') /\ moves' \in 0 .. MaxMoves
  BY <1>4, <1>5 DEF CreditInv
<1> QED BY <1>4, <1>5, <1>6, InvKept

\* Action: Provider.
LEMMA ProviderInv ==
  ASSUME CreditInv, NEW f \in Refs, NEW status \in Statuses, Provider(f, status)
  PROVE  CreditInv'
<1>1. /\ Len(story[f]) < MaxStory /\ story' = [story EXCEPT ![f] = Append(@, status)]
      /\ ws' = ws /\ holds' = holds /\ heard' = heard /\ inbox' = inbox /\ money' = money
      /\ moves' = moves
  BY DEF Provider
<1>2. Tells(story, story', f, status)
  BY DEF Provider, Tells, LastTold
<1>3. Told(story) /\ Hears(story, heard)
  BY DEF CreditInv
<1>4. Told(story') /\ Hears(story', heard)
  BY <1>2, <1>3, ToldMore
<1> QED BY <1>1, <1>4 DEF CreditInv

\* Action: Notice.
LEMMA NoticeInv ==
  ASSUME CreditInv, NEW f \in Refs, NEW k \in 1 .. MaxStory, Notice(f, k)
  PROVE  CreditInv'
<1> DEFINE x == [ref |-> f, watermark |-> k, status |-> story[f][k]]
           p == PaymentOf[f]
<1>1. /\ k \in 1 .. Len(story[f]) /\ heard' = heard \cup {x}
      /\ IF ws.claims[p].credited
         THEN ws' = ApplyNotice(ws, x) /\ inbox' = inbox
         ELSE inbox' = [inbox EXCEPT ![p] = Kept(@, x)] /\ ws' = ws
      /\ holds' = holds /\ story' = story /\ money' = money /\ moves' = moves
  BY DEF Notice
<1>2. /\ Told(story) /\ Hears(story, heard) /\ Waits(heard, inbox) /\ Known(ws, heard, inbox)
      /\ heard \subseteq Notices /\ moves \in 0 .. MaxMoves
  BY DEF CreditInv, Hears
<1>3. x \in Notices /\ x.ref = f /\ Hears(story, heard \cup {x}) /\ Consistent(heard \cup {x})
  BY <1>1, <1>2, HeardMore
<1>4. PICK n \in ShardCounts : Accounts(ws, holds, n, money)
  BY DEF CreditInv
<1>5. Told(story') /\ Hears(story', heard') /\ moves' \in 0 .. MaxMoves
  BY <1>1, <1>2, <1>3
<1> HIDE DEF x
<1>6. CASE ws.claims[p].credited
  <2>1. ws' = ApplyNotice(ws, x) /\ inbox' = inbox /\ ws.claims[PaymentOf[x.ref]].credited
    BY <1>1, <1>3, <1>6
  <2>2. Accounts(ws', holds, n, money) /\ Known(ws', heard \cup {x}, inbox)
    BY <1>2, <1>3, <1>4, <2>1, NoticeApplied
  <2>3. Waits(heard \cup {x}, inbox)
    BY <1>2, WaitsOn
  <2>4. Accounts(ws', holds', n, money') /\ Known(ws', heard', inbox') /\ Waits(heard', inbox')
    BY <1>1, <2>1, <2>2, <2>3
  <2> QED BY <1>5, <2>4 DEF CreditInv
<1>7. CASE ~ws.claims[p].credited
  <2>1. inbox' = [inbox EXCEPT ![p] = Kept(@, x)] /\ ws' = ws /\ p = PaymentOf[x.ref]
    BY <1>1, <1>3, <1>7
  <2> HIDE DEF p
  <2>2. Waits(heard \cup {x}, inbox') /\ Known(ws, heard \cup {x}, inbox')
    BY <1>2, <1>3, <1>7, <2>1, NoticeWaits
  <2>3. Accounts(ws', holds', n, money') /\ Known(ws', heard', inbox') /\ Waits(heard', inbox')
    BY <1>1, <1>4, <2>1, <2>2
  <2> QED BY <1>5, <2>3 DEF CreditInv
<1> QED BY <1>6, <1>7

\* Action: CreditPayment.
LEMMA CreditPaymentInv ==
  ASSUME CreditInv, NEW p \in Payments, CreditPayment(p)
  PROVE  CreditInv'
<1>1. /\ ~ws.claims[p].credited
      /\ ws' = Drained(NewMoney(Opened(ws, p), Credited[p], TRUE), inbox[p])
      /\ inbox' = [inbox EXCEPT ![p] = <<>>] /\ money' = money + Credited[p]
      /\ holds' = holds /\ story' = story /\ heard' = heard /\ moves' = moves
  BY DEF CreditPayment, Opened
<1>2. /\ Told(story) /\ Hears(story, heard) /\ Waits(heard, inbox) /\ Known(ws, heard, inbox)
      /\ heard \subseteq Notices /\ moves \in 0 .. MaxMoves
  BY DEF CreditInv, Hears
<1>3. PICK n \in ShardCounts : Accounts(ws, holds, n, money)
  BY DEF CreditInv
<1>4. Consistent(heard)
  BY <1>2, HeardConsistent
<1>5. Accounts(ws', holds, n, money + Credited[p]) /\ Waits(heard, inbox')
      /\ Known(ws', heard, inbox')
  <2>1. CreditsPayment(ws, ws', inbox, inbox', p)
    BY <1>1 DEF CreditsPayment
  <2> QED BY <1>2, <1>3, <1>4, <2>1, CreditedIs
<1> QED BY <1>1, <1>2, <1>5 DEF CreditInv

\* Every step keeps the invariant.
LEMMA NextInv == CreditInv /\ [Next]_vars => CreditInv'
<1> SUFFICES ASSUME CreditInv, [Next]_vars PROVE CreditInv'
  OBVIOUS
<1>1. ASSUME NEW r \in Reqs, NEW s \in DOMAIN ws.rows, NEW est \in Estimates, Reserve(r, s, est)
      PROVE  CreditInv'
  BY <1>1, ReserveInv
<1>2. ASSUME NEW r \in Reqs, NEW actual \in Actuals, Release(r, actual)
      PROVE  CreditInv'
  BY <1>2, ReleaseInv
<1>3. ASSUME NEW a \in Amounts, Grant(a) \/ TransferIn(a)
      PROVE  CreditInv'
  BY <1>3, MoneyInInv
<1>4. ASSUME NEW a \in Amounts, NegativeGrant(a)
      PROVE  CreditInv'
  BY <1>4, NegativeGrantInv
<1>5. ASSUME NEW a \in Amounts, Debit(a)
      PROVE  CreditInv'
  BY <1>5, DebitInv
<1>6. ASSUME NEW a \in Amounts, TransferOut(a)
      PROVE  CreditInv'
  BY <1>6, TransferOutInv
<1>7. ASSUME NEW a \in Amounts, FederatedUsage(a)
      PROVE  CreditInv'
  BY <1>7, FederatedUsageInv
<1>8. ASSUME NEW s \in DOMAIN ws.rows, NEW est \in Estimates, Rebalance(s, est)
      PROVE  CreditInv'
  BY <1>8, RebalanceInv
<1>9. ASSUME NEW k \in ShardCounts, NEW keep \in BOOLEAN, Reshard(k, keep)
      PROVE  CreditInv'
  BY <1>9, ReshardInv
<1>10. CASE PauseToReshard \/ Unpause
  BY <1>10, PauseInv
<1>11. ASSUME NEW f \in Refs, NEW status \in Statuses, Provider(f, status)
       PROVE  CreditInv'
  BY <1>11, ProviderInv
<1>12. ASSUME NEW f \in Refs, NEW k \in 1 .. MaxStory, Notice(f, k)
       PROVE  CreditInv'
  BY <1>12, NoticeInv
<1>13. ASSUME NEW p \in Payments, CreditPayment(p)
       PROVE  CreditInv'
  BY <1>13, CreditPaymentInv
<1>14. CASE UNCHANGED vars
  BY <1>14 DEF vars, CreditInv
<1> QED
  BY <1>1, <1>2, <1>3, <1>4, <1>5, <1>6, <1>7, <1>8, <1>9, <1>10, <1>11, <1>12, <1>13, <1>14
  DEF Next

\* The invariant always holds.
LEMMA CreditInvCorrect == Spec => []CreditInv
BY InitInv, NextInv, PTL DEF Spec

-----------------------------------------------------------------------------
(* The theorems.                                                             *)

\* The rows are always those of one shard count, every hold is on one of them,
\* and no usage, reservation or claim is negative.
THEOREM RowsTypeCorrect == Spec => []TypeOK
<1>1. CreditInv => TypeOK
  <2> SUFFICES ASSUME CreditInv PROVE TypeOK
    OBVIOUS
  <2>1. PICK n \in ShardCounts : Accounts(ws, holds, n, money)
    BY DEF CreditInv
  <2>2. ws \in Workspace(n) /\ money \in Int /\ holds \in HoldsOf(n)
    BY <2>1, AccountsRows DEF Accounts, Placed
  <2>3. /\ ws = [rows |-> ws.rows, marked |-> ws.marked, claims |-> ws.claims,
                 facts |-> ws.facts, causes |-> ws.causes]
        /\ ws.rows \in [0 .. n - 1 -> Row] /\ ws.marked \in BOOLEAN
        /\ ws.claims \in [Payments -> ClaimRow] /\ ws.facts \in [Refs -> Fact]
        /\ ws.causes \in SUBSET Causes
    BY <2>2 DEF Workspace
  <2>4. /\ story \in [Refs -> Seq(Statuses)] /\ \A f \in Refs : Len(story[f]) <= MaxStory
    BY DEF CreditInv, Told
  <2>5. heard \subseteq Notices /\ inbox \in [Payments -> Seq(Notices)] /\ moves \in 0 .. MaxMoves
    BY DEF CreditInv, Hears, Waits
  <2> QED BY <2>2, <2>3, <2>4, <2>5 DEF TypeOK, Row, ClaimRow, Fact, HoldsOf, HoldAt
<1> QED BY <1>1, CreditInvCorrect, PTL

\* In every reachable state a row is negative only under the mark, and the
\* mark stands only while the signed sum is negative: cover_or_mark, squaring
\* and repayment end every write with the mark its rows call for.
THEOREM DebtAlwaysMarked == Spec => []DebtIsMarked
<1>1. CreditInv => DebtIsMarked
  BY DEF CreditInv, Accounts, Sound, Marks, DebtIsMarked
<1> QED BY <1>1, CreditInvCorrect, PTL

\* In every reachable state a row's reservation is the sum of the open holds
\* on it, through every release and reshard (release_credit releases the
\* exact hold, reshard_credit_account moves none).
THEOREM HoldsAlwaysReserved == Spec => []HoldsAreReserved
<1>1. CreditInv => HoldsAreReserved
  BY DEF CreditInv, Accounts, Placed, HeldOn, HoldsAreReserved
<1> QED BY <1>1, CreditInvCorrect, PTL

\* In every reachable state the rows' credit is what came in less what went
\* out and what claims recovered, and each credited payment's claim is split
\* exactly for the target of payment_recovery_target.
THEOREM ClaimsAlwaysBalance == Spec => []ClaimsBalance
<1>1. CreditInv => ClaimsBalance
  <2> SUFFICES ASSUME CreditInv PROVE ClaimsBalance
    OBVIOUS
  <2>1. PICK n \in ShardCounts : Accounts(ws, holds, n, money)
    BY DEF CreditInv
  <2>2. /\ IsWorkspace(ws, n) /\ SplitClaims(ws) /\ Targets(ws) /\ money \in Int
        /\ Total(ws, "credits") + Recovered(ws) = money
    BY <2>1 DEF Accounts, Sound, Booked
  <2>3. Total(ws, "credits") \in Int /\ Recovered(ws) \in Int
    BY <2>2, TotalIs, RecoveredIs
  <2>4. Total(ws, "credits") = money - Recovered(ws)
    BY <2>2, <2>3
  <2>5. \A p \in Payments :
           /\ ws.claims[p].target = ws.claims[p].recovered + ws.claims[p].unrecovered
           /\ ws.claims[p].credited => ws.claims[p].target = RecoveryTarget(ws.facts, p)
    BY <2>2 DEF SplitClaims, Targets
  <2> QED BY <2>4, <2>5 DEF ClaimsBalance, Recovered
<1> QED BY <1>1, CreditInvCorrect, PTL

\* Where the inbox keeps every notice, the fact of a credited payment's
\* refund or dispute is always the latest heard, in whatever order the
\* notices came (record_adverse_trust_event, drain_matching_trust_inbox_tx).
THEOREM LatestAlwaysWins ==
  ASSUME EveryNotice
  PROVE  Spec => []LatestWins
<1>1. CreditInv => LatestWins
  <2> SUFFICES ASSUME CreditInv, NEW x \in heard, ws.claims[PaymentOf[x.ref]].credited,
                      \A y \in heard : y.ref = x.ref => y.watermark <= x.watermark
               PROVE  ws.facts[x.ref] = [status |-> x.status, watermark |-> x.watermark]
    BY DEF LatestWins
  <2>1. /\ heard \subseteq Notices /\ Consistent(heard) /\ AllKnown(ws, heard)
    BY HeardConsistent DEF CreditInv, Hears, Known
  <2>2. x.ref \in Refs /\ x.watermark \in Nat
    BY <2>1, NoticeIs
  <2>3. Latest(heard, ws.facts[x.ref], x.ref)
    BY <2>1, <2>2 DEF AllKnown
  <2>4. PICK z \in heard : /\ z.ref = x.ref /\ ws.facts[x.ref] = FactOf(z)
                           /\ \A y \in heard : y.ref = x.ref => y.watermark <= z.watermark
    BY <2>3 DEF Latest
  <2>5. z.watermark = x.watermark
    <3>1. z.watermark \in Nat
      BY <2>1, NoticeIs
    <3> QED BY <2>2, <2>4, <3>1
  <2>6. z = x
    BY <2>1, <2>4, <2>5 DEF Consistent
  <2> QED BY <2>4, <2>6 DEF FactOf
<1> QED BY <1>1, CreditInvCorrect, PTL
-----------------------------------------------------------------------------
(* Automatic refills.                                                        *)

Account == [enabled : BOOLEAN, fresh : BOOLEAN,
            status : {"none", "pending", "failed", "succeeded", "disabled"}]
JobStatus == {"none", "pending", "done", "dead"}
JobRow == [status : JobStatus, attempts : 0 .. MaxAttempts, owner : Callers \cup {None},
           lapsed : BOOLEAN]
IntentStatus == {"none", "paid", "declined"}
TaskRow ==
  [at : Tasks \ {"idle"}, auth : Auths, queued : BOOLEAN, blocked : BOOLEAN,
   note : {"none", "pending", "failed"}, done : BOOLEAN, counted : BOOLEAN]

RefillTypes ==
  /\ balance \in Int
  /\ account \in Account
  /\ settled \subseteq Auths /\ last \in Auths \cup {None} /\ credited \subseteq Auths /\ hook \subseteq Auths
  /\ job \in [Auths -> JobRow]
  /\ task \in [Callers -> {Idle} \cup TaskRow]
  /\ intent \in [Auths -> IntentStatus]
  /\ faults \in 0 .. MaxFaults

\* CreditedOnce, and the finiteness its counts need.
Credits ==
  /\ IsFiniteSet(settled) /\ IsFiniteSet(credited)
  /\ balance = Start - Cost * Cardinality(settled) + Amount * Cardinality(credited)
  /\ \A a \in credited : intent[a] = "paid"

\* A job that may be tried has a try left, and is over only once its
\* settlement is final.
JobRight(a, j, final) ==
  /\ j.status \in {"none", "pending"} => j.attempts < MaxAttempts
  /\ j.status \in {"done", "dead"} => a \in final

JobsRight == \A a \in Auths : JobRight(a, job[a], settled)

\* A caller has seen its settlement final before it charges or ends the job,
\* and records a charge as done only when Stripe has decided it.
TaskRight(t, final, intents) ==
  t # Idle =>
    /\ t.at \in {"account", "balance", "charge", "record"} => t.auth \in final
    /\ t.at = "resolve" => t.queued /\ (t.done \/ t.counted => t.auth \in final)
    /\ t.at = "record" => t.note \in {"pending", "failed"}
    /\ t.at = "record" /\ t.done => intents[t.auth] \in {"paid", "declined"}

TasksRight == \A c \in Callers : TaskRight(task[c], settled, intent)

\* A caller about to end the job of a.
Ends(t, a) == t # Idle /\ t.at = "resolve" /\ t.auth = a /\ t.queued /\ t.done

\* The job of a is to be tried, and nobody is about to end it.
Open(a, jobs, tasks) ==
  jobs[a].status = "pending" /\ \A c \in Callers : ~Ends(tasks[c], a)

\* A low balance has the last settlement's job open, its charge decided, its
\* job given up, or no card.
Attended(a, jobs, tasks, intents, enabled) ==
  \/ Open(a, jobs, tasks)
  \/ intents[a] \in {"paid", "declined"}
  \/ jobs[a].status = "dead"
  \/ ~enabled

LowHasWork ==
  settled # {} =>
    /\ last \in settled
    /\ balance < Threshold => Attended(last, job, task, intent, account.enabled)

RefillInv == RefillTypes /\ Credits /\ JobsRight /\ TasksRight /\ LowHasWork

-----------------------------------------------------------------------------
(* The kinds of step.                                                       *)

LEMMA RefillInitInv == RefillInit => RefillInv
<1> SUFFICES ASSUME RefillInit PROVE RefillInv
  OBVIOUS
<1>1. NoJob \in JobRow /\ NoJob.status = "none"
  BY RefillAssumption DEF NoJob, JobRow, JobStatus
<1>2. \A a \in Auths : job[a] = NoJob
  BY DEF RefillInit
<1>3. RefillTypes
  BY <1>1, RefillAssumption DEF RefillInit, RefillTypes, Account, IntentStatus
<1>4. Credits
  <2>1. Cardinality({}) = 0 /\ IsFiniteSet({})
    BY FS_EmptySet
  <2>2. Cost * 0 = 0 /\ Amount * 0 = 0 /\ Start - 0 + 0 = Start
    BY RefillAssumption
  <2> QED BY <2>1, <2>2 DEF RefillInit, Credits
<1>5. JobsRight
  BY <1>1, <1>2, RefillAssumption DEF JobsRight, JobRight, NoJob
<1>6. TasksRight
  BY DEF RefillInit, TasksRight, TaskRight
<1>7. LowHasWork
  BY DEF RefillInit, LowHasWork
<1> QED BY <1>3, <1>4, <1>5, <1>6, <1>7 DEF RefillInv

\* A step of the account, the webhook or the bound on faults, which leaves the
\* card enabled if it was or takes it away.
LEMMA AccountStepInv ==
  ASSUME RefillInv, UNCHANGED <<balance, settled, last, job, task, intent, credited>>,
         account' \in Account, ~account.enabled => ~account'.enabled,
         hook' \subseteq Auths, faults' \in 0 .. MaxFaults
  PROVE  RefillInv'
<1>1. RefillTypes' /\ Credits'
  BY DEF RefillInv, RefillTypes, Credits
<1>2. JobsRight' /\ TasksRight'
  BY DEF RefillInv, JobsRight, TasksRight
<1>3. LowHasWork'
  BY DEF RefillInv, LowHasWork, Attended
<1> QED BY <1>1, <1>2, <1>3 DEF RefillInv

\* A caller goes on, with or without a decision at Stripe.  When it is then
\* about to end its job, something else shows why.
LEMMA CallerStepInv ==
  ASSUME RefillInv, NEW c \in Callers, NEW t, t \in {Idle} \cup TaskRow, Goes(c, t),
         UNCHANGED <<balance, settled, last, job, credited, hook>>,
         intent' \in [Auths -> IntentStatus],
         \A a \in Auths : intent[a] # "none" => intent'[a] = intent[a],
         TaskRight(t, settled, intent'),
         account' \in Account, account'.enabled = account.enabled,
         faults' \in 0 .. MaxFaults,
         \A a \in Auths : Ends(t, a) =>
            \/ balance >= Threshold \/ intent[a] \in {"paid", "declined"} \/ ~account.enabled
  PROVE  RefillInv'
<1>1. task \in [Callers -> {Idle} \cup TaskRow] /\ task' = [task EXCEPT ![c] = t]
  BY DEF RefillInv, RefillTypes, Goes
<1>2. RefillTypes'
  BY <1>1 DEF RefillInv, RefillTypes
<1>3. Credits'
  BY DEF RefillInv, RefillTypes, Credits
<1>4. JobsRight'
  BY DEF RefillInv, JobsRight
<1>5. TasksRight'
  <2> SUFFICES ASSUME NEW x \in Callers PROVE TaskRight(task'[x], settled, intent')
    BY DEF TasksRight
  <2>1. CASE x = c
    BY <1>1, <2>1
  <2>2. CASE x # c
    <3>1. task'[x] = task[x] /\ task[x] \in {Idle} \cup TaskRow
      BY <1>1, <2>2
    <3>2. TaskRight(task[x], settled, intent)
      BY DEF RefillInv, TasksRight
    <3>3. TaskRight(task[x], settled, intent')
      BY <3>1, <3>2 DEF TaskRight, TaskRow
    <3> QED BY <3>1, <3>3
  <2> QED BY <2>1, <2>2
<1>6. LowHasWork'
  <2> SUFFICES ASSUME settled # {}, balance < Threshold, account.enabled,
                      intent'[last] \notin {"paid", "declined"}, job[last].status # "dead"
               PROVE  Open(last, job, task')
    BY DEF RefillInv, LowHasWork, Attended
  <2>1. last \in Auths /\ intent[last] \notin {"paid", "declined"}
    BY DEF RefillInv, RefillTypes, LowHasWork
  <2>2. Open(last, job, task)
    BY <2>1 DEF RefillInv, LowHasWork, Attended
  <2>3. ~(balance >= Threshold)
    BY RefillAssumption DEF RefillInv, RefillTypes
  <2>4. ~Ends(t, last)
    BY <2>1, <2>3
  <2>5. \A x \in Callers : ~Ends(task'[x], last)
    BY <1>1, <2>2, <2>4 DEF Open
  <2> QED BY <2>2, <2>5 DEF Open
<1> QED BY <1>2, <1>3, <1>4, <1>5, <1>6 DEF RefillInv

\* A job's row is rewritten by a caller or by its lease, not ended; the
\* caller, if any, is not about to end a job.
LEMMA JobStepInv ==
  ASSUME RefillInv, NEW a \in Auths, NEW row, row \in JobRow, job' = [job EXCEPT ![a] = row],
         JobRight(a, row, settled),
         job[a].status = "pending" => row.status \in {"pending", "dead"},
         job[a].status = "dead" => row.status = "dead",
         UNCHANGED <<balance, account, settled, last, intent, credited, hook>>,
         faults' \in 0 .. MaxFaults, task' \in [Callers -> {Idle} \cup TaskRow],
         \A c \in Callers : task'[c] = task[c] \/ (~Ends(task'[c], a) /\ task'[c].at = "settled")
                            \/ task'[c] = Idle
  PROVE  RefillInv'
<1>1. job \in [Auths -> JobRow]
  BY DEF RefillInv, RefillTypes
<1>2. job'[a] = row /\ \A b \in Auths : b # a => job'[b] = job[b]
  BY <1>1
<1>3. RefillTypes'
  BY <1>1 DEF RefillInv, RefillTypes
<1>4. Credits'
  BY DEF RefillInv, RefillTypes, Credits
<1>5. JobsRight'
  BY <1>2 DEF RefillInv, JobsRight
<1>6. TasksRight'
  BY DEF RefillInv, TasksRight, TaskRight
<1>7. LowHasWork'
  <2> SUFFICES ASSUME settled # {}, balance < Threshold, account.enabled,
                      intent[last] \notin {"paid", "declined"}, job'[last].status # "dead"
               PROVE  Open(last, job', task')
    BY DEF RefillInv, LowHasWork, Attended
  <2>1. last \in Auths /\ job[last].status # "dead"
    BY <1>2 DEF RefillInv, RefillTypes, LowHasWork
  <2>2. Open(last, job, task)
    BY <2>1 DEF RefillInv, LowHasWork, Attended
  <2>3. job'[last].status = "pending"
    BY <1>2, <2>1, <2>2 DEF Open
  <2>4. \A c \in Callers : ~Ends(task'[c], last)
    BY <2>2 DEF Open, Ends
  <2> QED BY <2>3, <2>4 DEF Open
<1> QED BY <1>3, <1>4, <1>5, <1>6, <1>7 DEF RefillInv

-----------------------------------------------------------------------------
(* Settlements and credits.                                                 *)

LEMMA OneMore ==
  ASSUME NEW n \in Nat, NEW x \in Nat
  PROVE  n * (x + 1) = n * x + n /\ n * x \in Nat
OBVIOUS

LEMMA SettleInv ==
  ASSUME RefillInv, NEW a \in Auths, Settle(a)
  PROVE  RefillInv'
<1>1. /\ job[a].status # "none" /\ a \notin settled /\ settled' = settled \cup {a}
      /\ last' = a /\ balance' = balance - Cost
      /\ UNCHANGED <<account, job, task, intent, credited, hook, faults>>
  BY DEF Settle
<1>2. Start \in Int /\ Cost \in Nat /\ Amount \in Nat /\ Threshold \in Nat
  BY RefillAssumption
<1>3. RefillTypes'
  BY <1>1, <1>2 DEF RefillInv, RefillTypes
<1>4. Credits'
  <2> DEFINE n == Cardinality(settled)
             n2 == Cardinality(settled')
             m == Amount * Cardinality(credited)
  <2>1. IsFiniteSet(settled) /\ IsFiniteSet(credited) /\ balance = Start - Cost * n + m
    BY DEF RefillInv, Credits
  <2>2. n \in Nat /\ Cardinality(credited) \in Nat
    BY <2>1, FS_CardinalityType
  <2>3. m \in Nat
    BY <1>2, <2>2, OneMore
  <2>4. n2 = n + 1 /\ IsFiniteSet(settled')
    BY <1>1, <2>1, FS_AddElement
  <2> HIDE DEF n, n2, m
  <2>5. Cost * (n + 1) = Cost * n + Cost /\ Cost * n \in Nat
    BY <1>2, <2>2, OneMore
  <2>6. balance' = Start - Cost * n2 + m
    BY <1>1, <1>2, <2>1, <2>3, <2>4, <2>5
  <2>7. m' = m
    BY <1>1 DEF m
  <2>8. balance' = Start - Cost * Cardinality(settled') + Amount * Cardinality(credited')
    BY <1>1, <2>6 DEF n2, m
  <2> QED BY <1>1, <2>1, <2>4, <2>8 DEF RefillInv, Credits
<1>5. JobsRight'
  BY <1>1 DEF RefillInv, JobsRight, JobRight
<1>6. TasksRight'
  BY <1>1 DEF RefillInv, TasksRight, TaskRight
<1>7. LowHasWork'
  <2>1. job[a].status = "pending"
    BY <1>1 DEF RefillInv, RefillTypes, JobRow, JobStatus, JobsRight, JobRight
  <2>2. \A c \in Callers : ~Ends(task[c], a)
    BY <1>1 DEF RefillInv, TasksRight, TaskRight, Ends
  <2>3. Open(a, job', task')
    BY <1>1, <2>1, <2>2 DEF Open
  <2> QED BY <1>1, <2>3 DEF LowHasWork, Attended
<1> QED BY <1>3, <1>4, <1>5, <1>6, <1>7 DEF RefillInv

LEMMA WebhookCreditInv ==
  ASSUME RefillInv, NEW a \in Auths, WebhookCredit(a)
  PROVE  RefillInv'
<1>1. /\ intent[a] = "paid" /\ credited' = credited \cup {a} /\ hook' = hook \cup {a}
      /\ balance' = IF a \notin credited THEN balance + Amount ELSE balance
      /\ UNCHANGED <<account, settled, last, job, task, intent, faults>>
  BY DEF WebhookCredit, Uncredited
<1>2. Start \in Int /\ Cost \in Nat /\ Amount \in Nat /\ Threshold \in Nat
  BY RefillAssumption
<1>3. RefillTypes'
  BY <1>1, <1>2 DEF RefillInv, RefillTypes
<1>4. Credits'
  <2> DEFINE n == Cardinality(credited)
             n2 == Cardinality(credited')
             m == Cost * Cardinality(settled)
  <2>1. IsFiniteSet(settled) /\ IsFiniteSet(credited) /\ balance = Start - m + Amount * n
    BY DEF RefillInv, Credits
  <2>2. n \in Nat /\ Cardinality(settled) \in Nat
    BY <2>1, FS_CardinalityType
  <2>3. m \in Nat
    BY <1>2, <2>2, OneMore
  <2>4. IsFiniteSet(credited') /\ n2 = IF a \in credited THEN n ELSE n + 1
    BY <1>1, <2>1, FS_AddElement
  <2> HIDE DEF n, n2, m
  <2>5. Amount * (n + 1) = Amount * n + Amount /\ Amount * n \in Nat
    BY <1>2, <2>2, OneMore
  <2>6. balance' = Start - m + Amount * n2
    <3>1. CASE a \in credited
      BY <1>1, <2>1, <2>4, <3>1
    <3>2. CASE a \notin credited
      BY <1>1, <1>2, <2>1, <2>3, <2>4, <2>5, <3>2
    <3> QED BY <3>1, <3>2
  <2>7. balance' = Start - Cost * Cardinality(settled') + Amount * Cardinality(credited')
    BY <1>1, <2>6 DEF n2, m
  <2> QED BY <1>1, <2>1, <2>4, <2>7 DEF RefillInv, Credits
<1>5. JobsRight' /\ TasksRight'
  BY <1>1 DEF RefillInv, JobsRight, TasksRight
<1>6. LowHasWork'
  <2> SUFFICES ASSUME settled # {}
               PROVE  last \in settled
                      /\ (balance' < Threshold => Attended(last, job, task, intent, account.enabled))
    BY <1>1 DEF LowHasWork
  <2>1. balance' >= balance /\ balance \in Int /\ balance' \in Int
    BY <1>1, <1>2 DEF RefillInv, RefillTypes
  <2>2. balance' < Threshold => balance < Threshold
    BY <1>2, <2>1
  <2> QED BY <2>2 DEF RefillInv, LowHasWork
<1> QED BY <1>3, <1>4, <1>5, <1>6 DEF RefillInv

-----------------------------------------------------------------------------
(* Jobs.                                                                    *)

LEMMA EnqueueInv ==
  ASSUME RefillInv, NEW a \in Auths, Enqueue(a)
  PROVE  RefillInv'
<1> DEFINE row == [job[a] EXCEPT !.status = "pending"]
<1>1. /\ job[a].status = "none" /\ job' = [job EXCEPT ![a] = row]
      /\ UNCHANGED <<balance, account, settled, last, task, intent, credited, hook, faults>>
  BY DEF Enqueue
<1>2. job[a] \in JobRow /\ JobRight(a, job[a], settled)
  BY DEF RefillInv, RefillTypes, JobsRight
<1>3. row \in JobRow /\ row.status = "pending" /\ row.attempts = job[a].attempts
  BY <1>2 DEF JobRow, JobStatus
<1> HIDE DEF row
<1>4. JobRight(a, row, settled)
  BY <1>1, <1>2, <1>3 DEF JobRight
<1>5. task' = task /\ task \in [Callers -> {Idle} \cup TaskRow] /\ faults' \in 0 .. MaxFaults
  BY <1>1 DEF RefillInv, RefillTypes
<1> QED BY <1>1, <1>3, <1>4, <1>5, JobStepInv

LEMMA LeaseLapsesInv ==
  ASSUME RefillInv, NEW a \in Auths, LeaseLapses(a)
  PROVE  RefillInv'
<1> DEFINE row == [job[a] EXCEPT !.lapsed = TRUE]
<1>1. /\ job' = [job EXCEPT ![a] = row]
      /\ UNCHANGED <<balance, account, settled, last, task, intent, credited, hook>>
  BY DEF LeaseLapses
<1>2. job[a] \in JobRow /\ JobRight(a, job[a], settled)
  BY DEF RefillInv, RefillTypes, JobsRight
<1>3. row \in JobRow /\ row.status = job[a].status /\ row.attempts = job[a].attempts
  BY <1>2 DEF JobRow
<1>4. faults' \in 0 .. MaxFaults
  BY RefillAssumption DEF LeaseLapses, RefillInv, RefillTypes
<1> HIDE DEF row
<1>5. JobRight(a, row, settled)
  BY <1>2, <1>3 DEF JobRight
<1>6. task' = task /\ task \in [Callers -> {Idle} \cup TaskRow]
  BY <1>1 DEF RefillInv, RefillTypes
<1> QED BY <1>1, <1>3, <1>4, <1>5, <1>6, JobStepInv

\* A new task of a caller.
LEMMA NewTask ==
  ASSUME NEW at \in Tasks \ {"idle"}, NEW a \in Auths, NEW queued \in BOOLEAN
  PROVE  /\ Task(at, a, queued) \in TaskRow /\ Task(at, a, queued) # Idle
         /\ Task(at, a, queued).at = at /\ Task(at, a, queued).auth = a
         /\ Task(at, a, queued).queued = queued
         /\ Task(at, a, queued).done = FALSE /\ Task(at, a, queued).counted = FALSE
<1>1. Task(at, a, queued).at = at /\ Idle.at = "idle"
  BY DEF Task, Idle
<1>2. Task(at, a, queued) # Idle
  BY <1>1
<1> QED BY <1>2 DEF Task, TaskRow

LEMMA ClaimInv ==
  ASSUME RefillInv, NEW a \in Auths, NEW c \in Callers, Claim(c, a)
  PROVE  RefillInv'
<1> DEFINE row == [job[a] EXCEPT !.owner = c, !.lapsed = FALSE]
           t == Task("settled", a, TRUE)
<1>1. /\ job' = [job EXCEPT ![a] = row] /\ task' = [task EXCEPT ![c] = t]
      /\ UNCHANGED <<balance, account, settled, last, intent, credited, hook, faults>>
  BY DEF Claim
<1>2. job[a] \in JobRow /\ JobRight(a, job[a], settled)
  BY DEF RefillInv, RefillTypes, JobsRight
<1>3. row \in JobRow /\ row.status = job[a].status /\ row.attempts = job[a].attempts
  BY <1>2 DEF JobRow
<1>4. t \in TaskRow /\ t.at = "settled"
  BY NewTask DEF Tasks
<1> HIDE DEF row, t
<1>5. JobRight(a, row, settled)
  BY <1>2, <1>3 DEF JobRight
<1>6. /\ task' \in [Callers -> {Idle} \cup TaskRow] /\ faults' \in 0 .. MaxFaults
      /\ \A x \in Callers : task'[x] = task[x] \/ (~Ends(task'[x], a) /\ task'[x].at = "settled")
    BY <1>1, <1>4 DEF RefillInv, RefillTypes, Ends
<1> QED BY <1>1, <1>3, <1>5, <1>6, JobStepInv

\* resolve_auto_refill: a job is over once its reason shows, or tried again.
LEMMA ResolveInv ==
  ASSUME RefillInv, NEW c \in Callers, Resolve(c)
  PROVE  RefillInv'
<1> DEFINE t == task[c]
           a == task[c].auth
           tried == job[a].attempts + (IF t.counted THEN 1 ELSE 0)
           status == StatusAfter(t.done, tried)
           row == [status |-> status, attempts |-> tried, owner |-> None, lapsed |-> FALSE]
<1>1. /\ t.at = "resolve" /\ task' = [task EXCEPT ![c] = Idle]
      /\ UNCHANGED <<balance, account, settled, last, intent, credited, hook, faults>>
  BY DEF Resolve, Working, Goes
<1>2. job' = IF Fenced(c, job[a]) THEN [job EXCEPT ![a] = row] ELSE job
  BY DEF Resolve
<1>3. task \in [Callers -> {Idle} \cup TaskRow] /\ t \in TaskRow /\ t # Idle
  BY <1>1 DEF RefillInv, RefillTypes, Idle
<1>4. /\ a \in Auths /\ t.done \in BOOLEAN /\ t.counted \in BOOLEAN /\ t.queued \in BOOLEAN
      /\ (t.done \/ t.counted => a \in settled)
  BY <1>1, <1>3 DEF TaskRow, RefillInv, TasksRight, TaskRight
<1>5. /\ task' \in [Callers -> {Idle} \cup TaskRow] /\ faults' \in 0 .. MaxFaults
      /\ \A x \in Callers : task'[x] = task[x] \/ task'[x] = Idle
  BY <1>1, <1>3 DEF RefillInv, RefillTypes
<1>6. CASE ~Fenced(c, job[a])
  <2>1. job' = job /\ Goes(c, Idle)
    BY <1>1, <1>2, <1>6 DEF Goes
  <2>2. TaskRight(Idle, settled, intent) /\ \A b \in Auths : ~Ends(Idle, b)
    BY DEF TaskRight, Ends
  <2>3. intent' = intent /\ account' = account /\ faults' = faults
        /\ UNCHANGED <<balance, settled, last, job, credited, hook>>
    BY <1>1, <2>1
  <2>4. intent \in [Auths -> IntentStatus] /\ account \in Account
    BY DEF RefillInv, RefillTypes
  <2> QED BY <1>5, <2>1, <2>2, <2>3, <2>4, CallerStepInv
<1>7. CASE Fenced(c, job[a])
  <2>1. job[a] \in JobRow /\ JobRight(a, job[a], settled) /\ job[a].status = "pending"
    BY <1>4, <1>7 DEF RefillInv, RefillTypes, JobsRight, Fenced
  <2>2. job[a].attempts \in Nat /\ job[a].attempts < MaxAttempts /\ MaxAttempts \in Nat
    BY <2>1, RefillAssumption DEF JobRow, JobRight
  <2>3. tried \in 0 .. MaxAttempts /\ (~t.counted => tried < MaxAttempts)
    BY <1>4, <2>2
  <2>4. job' = [job EXCEPT ![a] = row]
    BY <1>2, <1>7
  <2> HIDE DEF tried
  <2>5. /\ status \in {"done", "dead", "pending"}
        /\ status = "done" <=> t.done
        /\ status = "dead" => t.counted
        /\ status = "pending" => tried < MaxAttempts
    BY <1>4, <2>2, <2>3 DEF StatusAfter
  <2> HIDE DEF status
  <2>6. row \in JobRow /\ row.status = status /\ row.attempts = tried
    BY <2>3, <2>5 DEF JobRow, JobStatus
  <2> HIDE DEF row
  <2>7. JobRight(a, row, settled)
    BY <1>4, <2>5, <2>6 DEF JobRight
  <2>8. CASE ~t.done
    <3>1. row.status \in {"pending", "dead"}
      BY <2>5, <2>6, <2>8
    <3> HIDE DEF a, t
    <3> QED BY <1>1, <1>4, <1>5, <2>1, <2>4, <2>6, <2>7, <3>1, JobStepInv
  <2>9. CASE t.done
    <3>1. t.queued
      BY <1>1, <1>3, <1>4, <2>9 DEF RefillInv, TasksRight, TaskRight
    <3>2. Ends(task[c], a)
      BY <1>1, <1>3, <2>9, <3>1 DEF Ends
    <3> HIDE DEF a, t
    <3>3. RefillTypes'
      BY <1>1, <1>4, <1>5, <2>4, <2>6 DEF RefillInv, RefillTypes
    <3>4. Credits'
      BY <1>1 DEF RefillInv, Credits
    <3>5. JobsRight'
      <4> SUFFICES ASSUME NEW b \in Auths PROVE JobRight(b, job'[b], settled)
        BY <1>1 DEF JobsRight
      <4>1. CASE b = a
        BY <2>4, <2>7, <4>1 DEF RefillInv, RefillTypes
      <4>2. CASE b # a
        BY <2>4, <4>2 DEF RefillInv, RefillTypes, JobsRight
      <4> QED BY <4>1, <4>2
    <3>6. TasksRight'
      BY <1>1, <1>5 DEF RefillInv, TasksRight, TaskRight
    <3>7. LowHasWork'
      <4> SUFFICES ASSUME settled # {}, balance < Threshold, account.enabled,
                          intent[last] \notin {"paid", "declined"}, job'[last].status # "dead"
                   PROVE  Open(last, job', task')
        BY <1>1 DEF RefillInv, LowHasWork, Attended
      <4>1. \A b \in Auths : b # a => job'[b] = job[b]
        BY <2>4 DEF RefillInv, RefillTypes
      <4>2. last \in Auths /\ job[last].status # "dead"
        BY <2>1, <4>1 DEF RefillInv, RefillTypes, LowHasWork
      <4>3. Open(last, job, task)
        BY <4>2 DEF RefillInv, LowHasWork, Attended
      <4>4. last # a
        BY <3>2, <4>3 DEF Open
      <4> QED BY <1>5, <4>1, <4>2, <4>3, <4>4 DEF Open, Ends
    <3> QED BY <3>3, <3>4, <3>5, <3>6, <3>7 DEF RefillInv
  <2> QED BY <2>8, <2>9
<1> QED BY <1>6, <1>7

-----------------------------------------------------------------------------
(* Callers.                                                                 *)

\* What a caller ends with is a task, about to end its job only if it is done.
LEMMA EndingRight ==
  ASSUME NEW t, t \in TaskRow, NEW done \in BOOLEAN, NEW counted \in BOOLEAN,
         NEW final, NEW i, done \/ counted => t.auth \in final
  PROVE  /\ Ending(t, done, counted) \in {Idle} \cup TaskRow
         /\ TaskRight(Ending(t, done, counted), final, i)
         /\ \A a : Ends(Ending(t, done, counted), a) => a = t.auth /\ done
<1>1. CASE ~t.queued
  <2>1. Ending(t, done, counted) = Idle
    BY <1>1 DEF Ending
  <2> QED BY <2>1 DEF TaskRight, Ends
<1>2. CASE t.queued
  <2> DEFINE n == Task("resolve", t.auth, TRUE)
             e == [n EXCEPT !.done = done, !.counted = counted]
  <2>1. Ending(t, done, counted) = e
    BY <1>2 DEF Ending
  <2>2. t.auth \in Auths
    BY DEF TaskRow
  <2>3. n \in TaskRow /\ n.at = "resolve" /\ n.auth = t.auth /\ n.queued = TRUE
    BY <2>2, NewTask DEF Tasks
  <2> HIDE DEF n
  <2>4. /\ e \in TaskRow /\ e.at = "resolve" /\ e.auth = t.auth /\ e.queued = TRUE
        /\ e.done = done /\ e.counted = counted
    BY <2>3 DEF TaskRow
  <2> HIDE DEF e
  <2>5. TaskRight(e, final, i)
    BY <2>4 DEF TaskRight
  <2>6. \A a : Ends(e, a) => a = t.auth /\ done
    BY <2>4 DEF Ends
  <2> QED BY <2>1, <2>4, <2>5, <2>6
<1> QED BY <1>1, <1>2 DEF TaskRow

\* The task of a caller that is at work.
LEMMA AtWork ==
  ASSUME RefillInv, NEW c \in Callers, task[c].at # "idle"
  PROVE  /\ task[c] \in TaskRow /\ task[c] # Idle /\ task[c].auth \in Auths
         /\ task[c].done \in BOOLEAN
         /\ task[c].at \in {"account", "balance", "charge", "record"} => task[c].auth \in settled
<1>1. task[c] \in TaskRow /\ task[c] # Idle
  BY DEF RefillInv, RefillTypes, Idle
<1> QED BY <1>1 DEF TaskRow, RefillInv, TasksRight, TaskRight

\* A caller's step that only moves it on: what it leaves alone.
LEMMA MovesOn ==
  ASSUME RefillInv, NEW c \in Callers, NEW t, t \in {Idle} \cup TaskRow, Goes(c, t),
         UNCHANGED <<balance, account, settled, last, job, intent, credited, hook>>,
         faults' \in 0 .. MaxFaults,
         TaskRight(t, settled, intent),
         \A a \in Auths : Ends(t, a) => balance >= Threshold \/ ~account.enabled
  PROVE  RefillInv'
<1>1. intent' = intent /\ account' = account /\ intent \in [Auths -> IntentStatus]
      /\ account \in Account
  BY DEF RefillInv, RefillTypes
<1> QED BY <1>1, CallerStepInv

LEMMA SettledStepInv ==
  ASSUME RefillInv, NEW c \in Callers, SettledStep(c)
  PROVE  RefillInv'
<1>1. task[c].at = "settled"
  BY DEF SettledStep, Working
<1>2. task[c] \in TaskRow /\ task[c] # Idle /\ task[c].auth \in Auths
  BY <1>1, AtWork
<1>3. UNCHANGED <<balance, account, settled, last, job, intent, credited, hook>>
      /\ faults' \in 0 .. MaxFaults
  BY DEF SettledStep, RefillInv, RefillTypes
<1>4. CASE task[c].auth \in settled
  <2> DEFINE t == [task[c] EXCEPT !.at = "account"]
  <2>1. Goes(c, t)
    BY <1>4 DEF SettledStep
  <2>2. t \in TaskRow /\ t.at = "account" /\ t.auth = task[c].auth
    BY <1>2 DEF TaskRow, Tasks
  <2> HIDE DEF t
  <2>3. TaskRight(t, settled, intent) /\ \A a \in Auths : ~Ends(t, a)
    BY <1>4, <2>2 DEF TaskRight, Ends
  <2> QED BY <1>3, <2>1, <2>2, <2>3, MovesOn
<1>5. CASE task[c].auth \notin settled
  <2> DEFINE t == Ending(task[c], FALSE, FALSE)
  <2>1. Goes(c, t)
    BY <1>5 DEF SettledStep
  <2>2. PICK b \in BOOLEAN : b = FALSE
    OBVIOUS
  <2>3. /\ Ending(task[c], b, b) \in {Idle} \cup TaskRow
        /\ TaskRight(Ending(task[c], b, b), settled, intent)
        /\ \A a : Ends(Ending(task[c], b, b), a) => a = task[c].auth /\ b
    BY <1>2, <2>2, EndingRight
  <2>4. /\ t \in {Idle} \cup TaskRow /\ TaskRight(t, settled, intent)
        /\ \A a \in Auths : ~Ends(t, a)
    BY <2>2, <2>3
  <2> HIDE DEF t
  <2> QED BY <1>3, <2>1, <2>4, MovesOn
<1> QED BY <1>4, <1>5

LEMMA AccountReadInv ==
  ASSUME RefillInv, NEW c \in Callers, AccountStep(c)
  PROVE  RefillInv'
<1>1. task[c].at = "account"
  BY DEF AccountStep, Working
<1>2. task[c] \in TaskRow /\ task[c] # Idle /\ task[c].auth \in settled
  BY <1>1, AtWork
<1>3. UNCHANGED <<balance, account, settled, last, job, intent, credited, hook>>
      /\ faults' \in 0 .. MaxFaults
  BY DEF AccountStep, RefillInv, RefillTypes
<1>4. CASE account.enabled
  <2>1. Goes(c, [task[c] EXCEPT !.at = "balance", !.blocked = Blocked])
    BY <1>4 DEF AccountStep
  <2>2. Blocked \in BOOLEAN
    BY DEF Blocked, RefillInv, RefillTypes, Account
  <2>3. PICK b \in BOOLEAN : b = Blocked
    BY <2>2
  <2> DEFINE t == [task[c] EXCEPT !.at = "balance", !.blocked = b]
  <2>4. Goes(c, t)
    BY <2>1, <2>3
  <2>5. t \in TaskRow /\ t.at = "balance" /\ t.auth = task[c].auth
    BY <1>2 DEF TaskRow, Tasks
  <2> HIDE DEF t
  <2>6. TaskRight(t, settled, intent) /\ \A a \in Auths : ~Ends(t, a)
    BY <1>2, <2>5 DEF TaskRight, Ends
  <2> QED BY <1>3, <2>4, <2>5, <2>6, MovesOn
<1>5. CASE ~account.enabled
  <2> DEFINE t == Ending(task[c], TRUE, FALSE)
  <2>1. Goes(c, t)
    BY <1>5 DEF AccountStep
  <2>2. PICK b \in BOOLEAN, n \in BOOLEAN : b = TRUE /\ n = FALSE
    OBVIOUS
  <2>3. /\ Ending(task[c], b, n) \in {Idle} \cup TaskRow
        /\ TaskRight(Ending(task[c], b, n), settled, intent)
    BY <1>2, EndingRight
  <2>4. t \in {Idle} \cup TaskRow /\ TaskRight(t, settled, intent)
    BY <2>2, <2>3
  <2> HIDE DEF t
  <2> QED BY <1>3, <1>5, <2>1, <2>4, MovesOn
<1> QED BY <1>4, <1>5

LEMMA BalanceReadInv ==
  ASSUME RefillInv, NEW c \in Callers, BalanceStep(c)
  PROVE  RefillInv'
<1>1. task[c].at = "balance"
  BY DEF BalanceStep, Working
<1>2. task[c] \in TaskRow /\ task[c] # Idle /\ task[c].auth \in settled
  BY <1>1, AtWork
<1>3. UNCHANGED <<balance, account, settled, last, job, intent, credited, hook>>
      /\ faults' \in 0 .. MaxFaults
  BY DEF BalanceStep, RefillInv, RefillTypes
<1>4. balance \in Int /\ Threshold \in Int /\ task[c].blocked \in BOOLEAN
  BY <1>2, RefillAssumption DEF RefillInv, RefillTypes, TaskRow
<1> DEFINE v == CASE balance >= Threshold -> Ending(task[c], TRUE, FALSE)
                  [] balance < Threshold /\ task[c].blocked -> Ending(task[c], FALSE, TRUE)
                  [] OTHER -> [task[c] EXCEPT !.at = "charge"]
<1>8. Goes(c, v)
  BY DEF BalanceStep
<1>5. CASE balance >= Threshold
  <2> DEFINE t == Ending(task[c], TRUE, FALSE)
  <2>1. Goes(c, t)
    <3>1. ~(balance < Threshold)
      BY <1>4, <1>5
    <3>2. t = v
      BY <1>5, <3>1
    <3> QED BY <1>8, <3>2, Zenon
  <2>2. PICK b \in BOOLEAN, n \in BOOLEAN : b = TRUE /\ n = FALSE
    OBVIOUS
  <2>3. /\ Ending(task[c], b, n) \in {Idle} \cup TaskRow
        /\ TaskRight(Ending(task[c], b, n), settled, intent)
    BY <1>2, EndingRight
  <2>4. t \in {Idle} \cup TaskRow /\ TaskRight(t, settled, intent)
    BY <2>2, <2>3
  <2> HIDE DEF t
  <2> QED BY <1>3, <1>5, <2>1, <2>4, MovesOn
<1>6. CASE balance < Threshold /\ task[c].blocked
  <2> DEFINE t == Ending(task[c], FALSE, TRUE)
  <2>1. Goes(c, t)
    BY <1>4, <1>6 DEF BalanceStep, Goes
  <2>2. PICK b \in BOOLEAN, n \in BOOLEAN : b = FALSE /\ n = TRUE
    OBVIOUS
  <2>3. /\ Ending(task[c], b, n) \in {Idle} \cup TaskRow
        /\ TaskRight(Ending(task[c], b, n), settled, intent)
        /\ \A a : Ends(Ending(task[c], b, n), a) => a = task[c].auth /\ b
    BY <1>2, EndingRight
  <2>4. t \in {Idle} \cup TaskRow /\ TaskRight(t, settled, intent) /\ \A a \in Auths : ~Ends(t, a)
    BY <2>2, <2>3
  <2> HIDE DEF t
  <2> QED BY <1>3, <2>1, <2>4, MovesOn
<1>7. CASE balance < Threshold /\ ~task[c].blocked
  <2> DEFINE t == [task[c] EXCEPT !.at = "charge"]
  <2>1. Goes(c, t)
    <3>1. ~(balance >= Threshold)
      BY <1>4, <1>7
    <3>2. t = v
      BY <1>7, <3>1
    <3> QED BY <1>8, <3>2, Zenon
  <2>2. t \in TaskRow /\ t.at = "charge" /\ t.auth = task[c].auth
    BY <1>2 DEF TaskRow, Tasks
  <2> HIDE DEF t
  <2>3. TaskRight(t, settled, intent) /\ \A a \in Auths : ~Ends(t, a)
    BY <1>2, <2>2 DEF TaskRight, Ends
  <2> QED BY <1>3, <2>1, <2>2, <2>3, MovesOn
<1> QED BY <1>4, <1>5, <1>6, <1>7

\* The charge is decided, or its answer lost.
LEMMA ChargeInv ==
  ASSUME RefillInv, NEW c \in Callers, Charges(c) \/ Declines(c) \/ LosesAnswer(c)
  PROVE  RefillInv'
<1> DEFINE a == task[c].auth
<1>1. task[c].at = "charge"
  BY DEF Charges, Declines, LosesAnswer, Working
<1>2. task[c] \in TaskRow /\ task[c] # Idle /\ a \in settled /\ a \in Auths
  BY <1>1, AtWork
<1>3. UNCHANGED <<balance, account, settled, last, job, credited, hook>>
  BY DEF Charges, Declines, LosesAnswer
<1>4. faults' \in 0 .. MaxFaults
  BY RefillAssumption DEF Charges, Declines, LosesAnswer, RefillInv, RefillTypes
<1>5. intent \in [Auths -> IntentStatus] /\ account' = account /\ account \in Account
  BY <1>3 DEF RefillInv, RefillTypes
<1>6. PICK note \in {"pending", "failed"}, done \in BOOLEAN :
        /\ Goes(c, [task[c] EXCEPT !.at = "record", !.note = note, !.done = done])
        /\ intent' \in [Auths -> IntentStatus]
        /\ \A b \in Auths : intent[b] # "none" => intent'[b] = intent[b]
        /\ done => intent'[a] \in {"paid", "declined"}
  <2>1. CASE Charges(c)
    <3>1. intent[a] \in {"none", "paid"} /\ intent' = [intent EXCEPT ![a] = "paid"]
      BY <2>1 DEF Charges
    <3>2. Goes(c, [task[c] EXCEPT !.at = "record", !.note = "pending", !.done = TRUE])
      BY <2>1 DEF Charges
    <3>3. /\ intent' \in [Auths -> IntentStatus] /\ intent'[a] = "paid"
          /\ \A b \in Auths : intent[b] # "none" => intent'[b] = intent[b]
      BY <1>2, <1>5, <3>1 DEF IntentStatus
    <3> QED BY <3>2, <3>3
  <2>2. CASE Declines(c)
    <3>1. intent[a] \in {"none", "declined"} /\ intent' = [intent EXCEPT ![a] = "declined"]
      BY <2>2 DEF Declines
    <3>2. Goes(c, [task[c] EXCEPT !.at = "record", !.note = "failed", !.done = TRUE])
      BY <2>2 DEF Declines
    <3>3. /\ intent' \in [Auths -> IntentStatus] /\ intent'[a] = "declined"
          /\ \A b \in Auths : intent[b] # "none" => intent'[b] = intent[b]
      BY <1>2, <1>5, <3>1 DEF IntentStatus
    <3> QED BY <3>2, <3>3
  <2>3. CASE LosesAnswer(c)
    <3>1. PICK made \in {"none", "paid"} :
            intent' = [intent EXCEPT ![a] = IF @ = "none" THEN made ELSE @]
      BY <2>3 DEF LosesAnswer
    <3>2. Goes(c, [task[c] EXCEPT !.at = "record", !.note = "failed", !.done = FALSE])
      BY <2>3 DEF LosesAnswer
    <3>3. /\ intent' \in [Auths -> IntentStatus]
          /\ \A b \in Auths : intent[b] # "none" => intent'[b] = intent[b]
      BY <1>2, <1>5, <3>1 DEF IntentStatus
    <3> QED BY <3>2, <3>3
  <2> QED BY <2>1, <2>2, <2>3
<1> DEFINE t == [task[c] EXCEPT !.at = "record", !.note = note, !.done = done]
<1>7. /\ t \in TaskRow /\ t.at = "record" /\ t.auth = a /\ t.note = note /\ t.done = done
  BY <1>2, <1>6 DEF TaskRow, Tasks
<1>8. Goes(c, t)
  BY <1>6
<1> HIDE DEF t, a
<1>9. TaskRight(t, settled, intent') /\ \A b \in Auths : ~Ends(t, b)
  BY <1>2, <1>6, <1>7 DEF TaskRight, Ends
<1> QED BY <1>3, <1>4, <1>5, <1>6, <1>7, <1>8, <1>9, CallerStepInv

LEMMA RecordInv ==
  ASSUME RefillInv, NEW c \in Callers, Record(c)
  PROVE  RefillInv'
<1>1. task[c].at = "record"
  BY DEF Record, Working
<1>2. /\ task[c] \in TaskRow /\ task[c] # Idle /\ task[c].auth \in settled
      /\ task[c].done \in BOOLEAN /\ task[c].auth \in Auths
  BY <1>1, AtWork
<1>3. /\ task[c].note \in {"pending", "failed"}
      /\ task[c].done => intent[task[c].auth] \in {"paid", "declined"}
  BY <1>1, <1>2 DEF RefillInv, TasksRight, TaskRight
<1>4. UNCHANGED <<balance, settled, last, job, intent, credited, hook>> /\ faults' \in 0 .. MaxFaults
  BY DEF Record, RefillInv, RefillTypes
<1>5. account \in Account /\ intent \in [Auths -> IntentStatus]
  BY DEF RefillInv, RefillTypes
<1>6. account' \in Account /\ account'.enabled = account.enabled
  BY <1>3, <1>5 DEF Record, Account
<1>7. PICK d \in BOOLEAN, n \in BOOLEAN : d = task[c].done /\ n = ~task[c].done
  BY <1>2
<1> DEFINE t == Ending(task[c], d, n)
<1>8. Goes(c, t)
  BY <1>7 DEF Record
<1>9. /\ t \in {Idle} \cup TaskRow /\ TaskRight(t, settled, intent)
      /\ \A a : Ends(t, a) => a = task[c].auth /\ d
  BY <1>2, EndingRight
<1> HIDE DEF t
<1>10. \A a \in Auths : Ends(t, a) => intent[a] \in {"paid", "declined"}
  BY <1>3, <1>7, <1>9
<1>11. intent' = intent
  BY <1>4
<1> QED BY <1>4, <1>5, <1>6, <1>8, <1>9, <1>10, <1>11, CallerStepInv

LEMMA ScheduleInv ==
  ASSUME RefillInv, NEW c \in Callers, NEW a \in Auths, Schedule(c, a)
  PROVE  RefillInv'
<1> DEFINE t == Task("account", a, FALSE)
<1>1. /\ a \in settled /\ Goes(c, t) /\ faults' \in 0 .. MaxFaults
      /\ UNCHANGED <<balance, account, settled, last, job, intent, credited, hook>>
  BY DEF Schedule, Goes, RefillInv, RefillTypes
<1>2. t \in TaskRow /\ t.at = "account" /\ t.auth = a
  BY NewTask DEF Tasks
<1> HIDE DEF t
<1>3. TaskRight(t, settled, intent) /\ \A b \in Auths : ~Ends(t, b)
  BY <1>1, <1>2 DEF TaskRight, Ends
<1> QED BY <1>1, <1>2, <1>3, MovesOn

LEMMA CrashInv ==
  ASSUME RefillInv, NEW c \in Callers, Crash(c)
  PROVE  RefillInv'
<1>1. /\ Goes(c, Idle) /\ faults' \in 0 .. MaxFaults
      /\ UNCHANGED <<balance, account, settled, last, job, intent, credited, hook>>
  BY RefillAssumption DEF Crash, RefillInv, RefillTypes
<1>2. TaskRight(Idle, settled, intent) /\ \A b \in Auths : ~Ends(Idle, b)
  BY DEF TaskRight, Ends
<1> QED BY <1>1, <1>2, MovesOn

-----------------------------------------------------------------------------
(* Every step keeps the invariant.                                          *)

LEMMA RefillNextInv == RefillInv /\ [RefillNext]_refillVars => RefillInv'
<1> SUFFICES ASSUME RefillInv, [RefillNext]_refillVars PROVE RefillInv'
  OBVIOUS
<1>1. account \in Account /\ hook \subseteq Auths /\ faults \in 0 .. MaxFaults
  BY DEF RefillInv, RefillTypes
<1>2. CASE \E a \in Auths : Enqueue(a) \/ Settle(a) \/ LeaseLapses(a) \/ WebhookCredit(a)
  BY <1>2, EnqueueInv, SettleInv, LeaseLapsesInv, WebhookCreditInv
<1>3. CASE (\E a \in Auths : WebhookRecord(a) \/ WebhookDies(a) \/ WebhookFailed(a))
           \/ RemoveCard \/ Elapse
  <2>1. UNCHANGED <<balance, settled, last, job, task, intent, credited>>
    BY <1>3 DEF WebhookRecord, WebhookDies, WebhookFailed, RemoveCard, Elapse
  <2>2. hook' \subseteq Auths /\ faults' \in 0 .. MaxFaults
    BY <1>1, <1>3, RefillAssumption
       DEF WebhookRecord, WebhookDies, WebhookFailed, RemoveCard, Elapse
  <2>3. account' \in Account /\ (~account.enabled => ~account'.enabled)
    <3>1. CASE (\E a \in Auths : WebhookDies(a))
      BY <1>1, <3>1 DEF WebhookDies
    <3>2. CASE (\E a \in Auths : WebhookRecord(a) \/ WebhookFailed(a)) \/ Elapse
      BY <1>1, <3>2 DEF WebhookRecord, WebhookFailed, Elapse, Account
    <3>3. CASE RemoveCard
      BY <3>3 DEF RemoveCard, Account
    <3> QED BY <1>3, <3>1, <3>2, <3>3
  <2> QED BY <2>1, <2>2, <2>3, AccountStepInv
<1>4. CASE \E a \in Auths, c \in Callers : Claim(c, a) \/ Schedule(c, a)
  BY <1>4, ClaimInv, ScheduleInv
<1>5. CASE \E c \in Callers : Run(c) \/ LosesAnswer(c) \/ Crash(c)
  BY <1>5, SettledStepInv, AccountReadInv, BalanceReadInv, ChargeInv, RecordInv, ResolveInv,
     CrashInv DEF Run
<1>6. CASE UNCHANGED refillVars
  <2>1. UNCHANGED <<balance, settled, last, job, task, intent, credited>>
        /\ account' = account /\ hook' = hook /\ faults' = faults
    BY <1>6 DEF refillVars
  <2> QED BY <1>1, <2>1, AccountStepInv
<1>7. RefillNext \/ UNCHANGED refillVars
  OBVIOUS
<1> QED BY <1>2, <1>3, <1>4, <1>5, <1>6, <1>7 DEF RefillNext

\* The invariant holds throughout.
THEOREM RefillInvCorrect == RefillSpec => []RefillInv
<1> QED BY RefillInitInv, RefillNextInv, PTL DEF RefillSpec

\* Jobs, intents and the account stay within their types, and a job is tried
\* no more than MaxAttempts times.
THEOREM RefillTypeCorrect == RefillSpec => []RefillTypeOK
<1>1. RefillInv => RefillTypeOK
  <2> SUFFICES ASSUME RefillInv PROVE RefillTypeOK
    OBVIOUS
  <2>1. \A c \in Callers : task[c].at \in Tasks
    BY DEF RefillInv, RefillTypes, TaskRow, Idle, Tasks
  <2> QED BY <2>1 DEF RefillInv, RefillTypes, RefillTypeOK, Account, JobRow, JobStatus, IntentStatus
<1> QED BY <1>1, RefillInvCorrect, PTL

\* The stripe_event marker, written with the credit, makes the webhook credit an
\* intent once, however often it is delivered or dies (CreditedOnce).
THEOREM RefillsAreCreditedOnce == RefillSpec => []CreditedOnce
<1>1. RefillInv => CreditedOnce
  BY DEF RefillInv, Credits, CreditedOnce
<1> QED BY <1>1, RefillInvCorrect, PTL

\* A low balance never goes unattended: the job that the last settlement attached
\* stays until its end shows why, whatever other jobs and tasks saw, charged or
\* recorded in between, and whatever a refill amounts to (LowIsHandled).
THEOREM LowBalancesAreHandled == RefillSpec => []LowIsHandled
<1>1. RefillInv => LowIsHandled
  BY DEF RefillInv, LowHasWork, Attended, Open, LowIsHandled
<1> QED BY <1>1, RefillInvCorrect, PTL
===============================================================================
