----------------------------- MODULE QuotaProofs -----------------------------
(***************************************************************************)
(* Proofs about the quotas: the lemmas on sums, RelayBilling (any number   *)
(* of requests, users, tokens and channels, any prices, with and without   *)
(* batching, database errors and crashes) and QuotaCache (any number of    *)
(* changes, readers, saves and errors).                                    *)
(***************************************************************************)
EXTENDS RelayBilling, QuotaCache, FiniteSetTheorems, WellFoundedInduction, TLAPS

(***************************************************************************)
(* Sums.  Induction takes the set of the values that have the property, so *)
(* that no lemma has an operator as a parameter.                           *)
(***************************************************************************)

(* A set of naturals has a least element. *)
LEMMA LeastNatural ==
    ASSUME NEW S \in SUBSET Nat, S # {}
    PROVE  \E m \in S : \A k \in S : m <= k
<1> DEFINE R == OpToRel(<, Nat)
<1>1. PICK m \in S : \A k \in S : ~(<<k, m>> \in R)
  BY NatLessThanWellFounded, WFMin
<1>2. ASSUME NEW k \in S PROVE m <= k
  <2>1. ~(<<k, m>> \in R)
    BY <1>1
  <2>2. ~(k < m)
    BY <2>1 DEF OpToRel
  <2> QED
    BY <2>2
<1> QED
  BY <1>2

LEMMA NaturalInduction ==
    ASSUME NEW P \in SUBSET Nat, 0 \in P, \A n \in P : n + 1 \in P
    PROVE  P = Nat
<1>1. SUFFICES ASSUME Nat \ P # {} PROVE FALSE
  OBVIOUS
<1>2. PICK n \in Nat \ P : \A m \in Nat \ P : n <= m
  BY <1>1, LeastNatural
<1>3. n - 1 \in Nat /\ ~(n <= n - 1)
  BY <1>2
<1>4. n - 1 \in P
  BY <1>2, <1>3
<1> QED
  BY <1>2, <1>3, <1>4

(* Induction over the subsets of a finite set, for a property given as the  *)
(* set of the subsets that have it.                                         *)
LEMMA SubsetInduction ==
    ASSUME NEW S, IsFiniteSet(S), NEW P,
           \A s \in SUBSET S : (\A x \in s : s \ {x} \in P) => s \in P
    PROVE  SUBSET S \subseteq P
<1> DEFINE Sizes == {n \in Nat : \E s \in SUBSET S : s \notin P /\ Cardinality(s) = n}
<1>1. \A s \in SUBSET S : IsFiniteSet(s) /\ Cardinality(s) \in Nat
  BY FS_Subset, FS_CardinalityType
<1>2. SUFFICES Sizes = {}
  BY <1>1
<1>3. SUFFICES ASSUME Sizes # {} PROVE FALSE
  OBVIOUS
<1>4. PICK n \in Sizes : \A m \in Sizes : n <= m
  <2> HIDE DEF Sizes
  <2>1. Sizes \in SUBSET Nat
    BY DEF Sizes
  <2> QED
    BY <1>3, <2>1, LeastNatural
<1>5. PICK s \in SUBSET S : s \notin P /\ Cardinality(s) = n
  BY <1>4
<1>6. ASSUME NEW x \in s PROVE s \ {x} \in P
  <2>1. s \ {x} \in SUBSET S
    OBVIOUS
  <2>2. Cardinality(s \ {x}) = n - 1
    BY <1>1, <1>5, FS_RemoveElement
  <2>3. n - 1 \in Nat /\ ~(n <= n - 1)
    BY <1>1, <2>1, <2>2, <1>4
  <2> QED
    BY <1>4, <2>1, <2>2, <2>3
<1> QED
  BY <1>5, <1>6

-----------------------------------------------------------------------------
Pick(s) == CHOOSE x \in s : TRUE

(* g is the recursive function that SumFunctionOnSet(f, S) evaluates. *)
Sums(f, S, g) == g = [s \in SUBSET S |-> IF s = {} THEN 0 ELSE f[Pick(s)] + g[s \ {Pick(s)}]]

LEMMA SumsExist ==
    ASSUME NEW f, NEW S, IsFiniteSet(S)
    PROVE  \E g : Sums(f, S, g)
<1> DEFINE Small(n) == {s \in SUBSET S : Cardinality(s) <= n}
           Step(g, s) == IF s = {} THEN 0 ELSE f[Pick(s)] + g[s \ {Pick(s)}]
           Upto(n, g) == g = [s \in Small(n) |-> Step(g, s)]
           Has == {n \in Nat : \E g : Upto(n, g)}
<1>1. \A s \in SUBSET S : IsFiniteSet(s) /\ Cardinality(s) \in Nat
  BY FS_Subset, FS_CardinalityType
<1>2. ASSUME NEW n \in Nat, NEW s \in Small(n + 1), s # {}
      PROVE  s \ {Pick(s)} \in Small(n)
  <2>1. Pick(s) \in s
    BY <1>2 DEF Pick
  <2>2. Cardinality(s \ {Pick(s)}) = Cardinality(s) - 1
    BY <1>1, <2>1, FS_RemoveElement
  <2>3. s \ {Pick(s)} \in SUBSET S /\ Cardinality(s) \in Nat
    BY <1>1
  <2> QED
    BY <2>2, <2>3
<1>3. 0 \in Has
  <2> DEFINE g == [s \in Small(0) |-> 0]
  <2>1. \A s \in Small(0) : s = {}
    BY <1>1, FS_EmptySet
  <2>2. Upto(0, g)
    BY <2>1
  <2> QED
    BY <2>2
<1>4. ASSUME NEW n \in Has PROVE n + 1 \in Has
  <2>1. PICK g : Upto(n, g)
    OBVIOUS
  <2> DEFINE h == [s \in Small(n + 1) |-> Step(g, s)]
  <2>2. Small(n) \subseteq Small(n + 1)
    BY <1>1
  <2>3. \A s \in Small(n) : h[s] = g[s]
    BY <2>1, <2>2
  <2>4. \A s \in Small(n + 1) : Step(g, s) = Step(h, s)
    BY <1>2, <2>3
  <2>5. Upto(n + 1, h)
    BY <2>4
  <2>6. n + 1 \in Nat
    OBVIOUS
  <2> HIDE DEF h, Upto
  <2>7. \E k : Upto(n + 1, k)
    BY <2>5
  <2> QED
    BY <2>6, <2>7
<1>5. Has = Nat
  <2> HIDE DEF Has
  <2>1. Has \subseteq Nat
    BY DEF Has
  <2> QED
    BY <1>3, <1>4, <2>1, NaturalInduction
<1>6. Cardinality(S) \in Has
  BY <1>1, <1>5
<1>7. Small(Cardinality(S)) = SUBSET S
  <2>1. \A s \in SUBSET S : Cardinality(s) <= Cardinality(S)
    BY FS_Subset
  <2> QED
    BY <2>1
<1> QED
  BY <1>6, <1>7 DEF Sums

(* Two such functions agree wherever both are defined. *)
LEMMA SumsUnique ==
    ASSUME NEW f, NEW S, IsFiniteSet(S), NEW T \in SUBSET S,
           NEW g, Sums(f, S, g), NEW h, Sums(f, T, h)
    PROVE  g[T] = h[T]
<1> DEFINE P == {s \in SUBSET T : g[s] = h[s]}
<1>1. IsFiniteSet(T)
  BY FS_Subset
<1>2. ASSUME NEW s \in SUBSET T, \A x \in s : s \ {x} \in P
      PROVE  s \in P
  <2>1. /\ g[s] = IF s = {} THEN 0 ELSE f[Pick(s)] + g[s \ {Pick(s)}]
        /\ h[s] = IF s = {} THEN 0 ELSE f[Pick(s)] + h[s \ {Pick(s)}]
    BY DEF Sums
  <2>2. s # {} => Pick(s) \in s
    BY DEF Pick
  <2> QED
    BY <1>2, <2>1, <2>2
<1>3. SUBSET T \subseteq P
  <2> HIDE DEF P
  <2> QED
    BY <1>1, <1>2, SubsetInduction
<1> QED
  BY <1>3

LEMMA SumIs ==
    ASSUME NEW f, NEW S, IsFiniteSet(S), NEW g, Sums(f, S, g)
    PROVE  SumFunctionOnSet(f, S) = g[S]
<1> DEFINE h == CHOOSE k : Sums(f, S, k)
<1>1. SumFunctionOnSet(f, S) = h[S]
  BY DEF SumFunctionOnSet, FoldFunctionOnSet, MapThenFoldSet, Sums, Pick
<1>2. Sums(f, S, h)
  BY DEF Sums
<1> HIDE DEF h
<1> QED
  BY <1>1, <1>2, SumsUnique

LEMMA SumEmpty ==
    ASSUME NEW f
    PROVE  SumFunctionOnSet(f, {}) = 0
<1>1. IsFiniteSet({})
  BY FS_EmptySet
<1>2. PICK g : Sums(f, {}, g)
  BY <1>1, SumsExist
<1>3. g[{}] = 0
  BY <1>2 DEF Sums
<1> QED
  BY <1>1, <1>2, <1>3, SumIs

LEMMA SumPick ==
    ASSUME NEW f, NEW S, IsFiniteSet(S), S # {}
    PROVE  SumFunctionOnSet(f, S) = f[Pick(S)] + SumFunctionOnSet(f, S \ {Pick(S)})
<1> DEFINE T == S \ {Pick(S)}
<1>1. T \in SUBSET S /\ IsFiniteSet(T)
  BY FS_Subset
<1>2. PICK g : Sums(f, S, g)
  BY SumsExist
<1>3. PICK h : Sums(f, T, h)
  BY <1>1, SumsExist
<1>4. g[S] = f[Pick(S)] + g[T]
  BY <1>2 DEF Sums
<1> HIDE DEF T
<1>5. g[T] = h[T]
  BY <1>1, <1>2, <1>3, SumsUnique
<1>6. SumFunctionOnSet(f, S) = g[S] /\ SumFunctionOnSet(f, T) = h[T]
  BY <1>1, <1>2, <1>3, SumIs
<1> QED
  BY <1>4, <1>5, <1>6 DEF T

(* A sum is in every set that is closed under addition. *)
LEMMA SumClosed ==
    ASSUME NEW f, NEW S, IsFiniteSet(S), NEW N, 0 \in N, \A a, b \in N : a + b \in N,
           \A x \in S : f[x] \in N
    PROVE  SumFunctionOnSet(f, S) \in N
<1> DEFINE P == {s \in SUBSET S : SumFunctionOnSet(f, s) \in N}
<1>1. ASSUME NEW s \in SUBSET S, \A x \in s : s \ {x} \in P
      PROVE  s \in P
  <2>1. CASE s = {}
    BY <2>1, SumEmpty
  <2>2. CASE s # {}
    <3>1. IsFiniteSet(s) /\ Pick(s) \in s
      BY <2>2, FS_Subset DEF Pick
    <3>2. SumFunctionOnSet(f, s) = f[Pick(s)] + SumFunctionOnSet(f, s \ {Pick(s)})
      BY <2>2, <3>1, SumPick
    <3>3. f[Pick(s)] \in N /\ SumFunctionOnSet(f, s \ {Pick(s)}) \in N
      BY <1>1, <3>1
    <3> QED
      BY <3>2, <3>3
  <2> QED
    BY <2>1, <2>2
<1>2. SUBSET S \subseteq P
  <2> HIDE DEF P
  <2> QED
    BY <1>1, SubsetInduction
<1> QED
  BY <1>2

LEMMA SumType ==
    ASSUME NEW f, NEW S, IsFiniteSet(S), \A x \in S : f[x] \in Int
    PROVE  SumFunctionOnSet(f, S) \in Int
<1>1. 0 \in Int /\ \A a, b \in Int : a + b \in Int
  OBVIOUS
<1> QED
  BY <1>1, SumClosed

LEMMA SumNatural ==
    ASSUME NEW f, NEW S, IsFiniteSet(S), \A x \in S : f[x] \in Nat
    PROVE  SumFunctionOnSet(f, S) \in Nat
<1>1. 0 \in Nat /\ \A a, b \in Nat : a + b \in Nat
  OBVIOUS
<1> QED
  BY <1>1, SumClosed

LEMMA Swap ==
    ASSUME NEW a \in Int, NEW b \in Int, NEW c \in Int
    PROVE  a + (b + c) = b + (a + c)
  OBVIOUS

(* Any element can be taken first. *)
LEMMA SumRemove ==
    ASSUME NEW f, NEW S, IsFiniteSet(S), \A x \in S : f[x] \in Int, NEW e \in S
    PROVE  SumFunctionOnSet(f, S) = f[e] + SumFunctionOnSet(f, S \ {e})
<1> DEFINE Tot(s) == SumFunctionOnSet(f, s)
           P == {s \in SUBSET S : \A x \in s : Tot(s) = f[x] + Tot(s \ {x})}
<1>1. \A s \in SUBSET S : Tot(s) \in Int
  BY FS_Subset, SumType
<1>2. \A s \in SUBSET S : s # {} => Pick(s) \in s /\ Tot(s) = f[Pick(s)] + Tot(s \ {Pick(s)})
  BY FS_Subset, SumPick DEF Pick
<1> HIDE DEF Tot
<1>3. ASSUME NEW s \in SUBSET S, \A x \in s : s \ {x} \in P
      PROVE  s \in P
  <2>1. SUFFICES ASSUME NEW x \in s PROVE Tot(s) = f[x] + Tot(s \ {x})
    OBVIOUS
  <2> DEFINE p == Pick(s)
  <2>2. p \in s /\ Tot(s) = f[p] + Tot(s \ {p})
    BY <1>2
  <2>3. CASE x = p
    BY <2>2, <2>3
  <2>4. CASE x # p
    <3> HIDE DEF p
    <3>1. Tot(s \ {p}) = f[x] + Tot((s \ {p}) \ {x})
      BY <1>3, <2>2, <2>4
    <3>2. Tot(s \ {x}) = f[p] + Tot((s \ {x}) \ {p})
      BY <1>3, <2>2, <2>4
    <3>3. (s \ {p}) \ {x} = (s \ {x}) \ {p}
      OBVIOUS
    <3>4. f[x] \in Int /\ f[p] \in Int /\ Tot((s \ {x}) \ {p}) \in Int
      BY <1>1, <2>2
    <3>5. Tot(s) = f[p] + (f[x] + Tot((s \ {x}) \ {p}))
      BY <2>2, <3>1, <3>3, Zenon
    <3>6. f[x] + Tot(s \ {x}) = f[x] + (f[p] + Tot((s \ {x}) \ {p}))
      BY <3>2, Zenon
    <3>7. f[p] + (f[x] + Tot((s \ {x}) \ {p})) = f[x] + (f[p] + Tot((s \ {x}) \ {p}))
      BY <3>4, Swap, Zenon
    <3> QED
      BY <3>5, <3>6, <3>7, Zenon
  <2> QED
    BY <2>3, <2>4
<1>4. SUBSET S \subseteq P
  <2> HIDE DEF P
  <2> QED
    BY <1>3, SubsetInduction
<1>5. S \in P
  BY <1>4
<1> QED
  BY <1>5 DEF Tot

(* Only the values at the members matter. *)
LEMMA SumEqual ==
    ASSUME NEW f, NEW g, NEW S, IsFiniteSet(S), \A x \in S : f[x] = g[x]
    PROVE  SumFunctionOnSet(f, S) = SumFunctionOnSet(g, S)
<1> DEFINE P == {s \in SUBSET S : SumFunctionOnSet(f, s) = SumFunctionOnSet(g, s)}
<1>1. ASSUME NEW s \in SUBSET S, \A x \in s : s \ {x} \in P
      PROVE  s \in P
  <2>1. CASE s = {}
    BY <2>1, SumEmpty
  <2>2. CASE s # {}
    <3>1. IsFiniteSet(s) /\ Pick(s) \in s
      BY <2>2, FS_Subset DEF Pick
    <3>2. /\ SumFunctionOnSet(f, s) = f[Pick(s)] + SumFunctionOnSet(f, s \ {Pick(s)})
          /\ SumFunctionOnSet(g, s) = g[Pick(s)] + SumFunctionOnSet(g, s \ {Pick(s)})
      BY <2>2, <3>1, SumPick
    <3> QED
      BY <1>1, <3>1, <3>2
  <2> QED
    BY <2>1, <2>2
<1>2. SUBSET S \subseteq P
  <2> HIDE DEF P
  <2> QED
    BY <1>1, SubsetInduction
<1> QED
  BY <1>2

LEMMA SumZero ==
    ASSUME NEW f, NEW S, IsFiniteSet(S), \A x \in S : f[x] = 0
    PROVE  SumFunctionOnSet(f, S) = 0
<1> DEFINE P == {s \in SUBSET S : SumFunctionOnSet(f, s) = 0}
<1>1. ASSUME NEW s \in SUBSET S, \A x \in s : s \ {x} \in P
      PROVE  s \in P
  <2>1. CASE s = {}
    BY <2>1, SumEmpty
  <2>2. CASE s # {}
    <3>1. IsFiniteSet(s) /\ Pick(s) \in s
      BY <2>2, FS_Subset DEF Pick
    <3>2. SumFunctionOnSet(f, s) = f[Pick(s)] + SumFunctionOnSet(f, s \ {Pick(s)})
      BY <2>2, <3>1, SumPick
    <3> QED
      BY <1>1, <3>1, <3>2
  <2> QED
    BY <2>1, <2>2
<1>2. SUBSET S \subseteq P
  <2> HIDE DEF P
  <2> QED
    BY <1>1, SubsetInduction
<1> QED
  BY <1>2

(* A change of one value changes the sum by as much. *)
LEMMA SumUpdate ==
    ASSUME NEW f, NEW g, NEW S, IsFiniteSet(S),
           \A x \in S : f[x] \in Int /\ g[x] \in Int,
           NEW e \in S, \A x \in S \ {e} : f[x] = g[x]
    PROVE  SumFunctionOnSet(g, S) = SumFunctionOnSet(f, S) + g[e] - f[e]
<1>1. IsFiniteSet(S \ {e})
  BY FS_Subset
<1>2. SumFunctionOnSet(f, S \ {e}) = SumFunctionOnSet(g, S \ {e})
  BY <1>1, SumEqual
<1>3. SumFunctionOnSet(f, S \ {e}) \in Int
  BY <1>1, SumType
<1>4. /\ SumFunctionOnSet(f, S) = f[e] + SumFunctionOnSet(f, S \ {e})
      /\ SumFunctionOnSet(g, S) = g[e] + SumFunctionOnSet(g, S \ {e})
  BY SumRemove
<1> QED
  BY <1>2, <1>3, <1>4

LEMMA SumUnion ==
    ASSUME NEW f, NEW A, IsFiniteSet(A), NEW B, IsFiniteSet(B), A \cap B = {},
           \A x \in A \cup B : f[x] \in Int
    PROVE  SumFunctionOnSet(f, A \cup B) = SumFunctionOnSet(f, A) + SumFunctionOnSet(f, B)
<1> DEFINE Tot(s) == SumFunctionOnSet(f, s)
           P == {b \in SUBSET B : Tot(A \cup b) = Tot(A) + Tot(b)}
<1>1. \A b \in SUBSET B : IsFiniteSet(b) /\ IsFiniteSet(A \cup b)
  BY FS_Subset, FS_Union
<1>2. \A b \in SUBSET B : Tot(b) \in Int /\ Tot(A) \in Int
  BY <1>1, SumType
<1>3. Tot({}) = 0
  BY SumEmpty
<1>4. ASSUME NEW b \in SUBSET B, NEW x \in b
      PROVE  Tot(b) = f[x] + Tot(b \ {x}) /\ Tot(A \cup b) = f[x] + Tot(A \cup (b \ {x}))
  <2>1. (A \cup b) \ {x} = A \cup (b \ {x})
    OBVIOUS
  <2>2. /\ \A y \in b : f[y] \in Int
        /\ \A y \in A \cup b : f[y] \in Int
    OBVIOUS
  <2>3. x \in A \cup b
    OBVIOUS
  <2>4. Tot(b) = f[x] + Tot(b \ {x})
    <3>1. IsFiniteSet(b) /\ \A y \in b : f[y] \in Int
      BY <1>1, <2>2
    <3> QED
      BY <3>1, SumRemove
  <2>5. Tot(A \cup b) = f[x] + Tot((A \cup b) \ {x})
    BY <1>1, <2>2, <2>3, SumRemove
  <2> QED
    BY <2>1, <2>4, <2>5
<1> HIDE DEF Tot
<1>5. ASSUME NEW b \in SUBSET B, \A x \in b : b \ {x} \in P
      PROVE  b \in P
  <2>1. CASE b = {}
    <3>1. A \cup b = A
      BY <2>1
    <3> QED
      BY <1>2, <1>3, <2>1, <3>1
  <2>2. ASSUME NEW x \in b PROVE b \in P
    <3>1. f[x] \in Int /\ b \ {x} \in SUBSET B
      OBVIOUS
    <3>2. Tot(A \cup (b \ {x})) = Tot(A) + Tot(b \ {x})
      BY <1>5
    <3>3. Tot(b \ {x}) \in Int /\ Tot(A) \in Int
      BY <1>2, <3>1
    <3>4. Tot(b) = f[x] + Tot(b \ {x}) /\ Tot(A \cup b) = f[x] + Tot(A \cup (b \ {x}))
      BY <1>4, Zenon
    <3>5. Tot(A \cup b) = f[x] + (Tot(A) + Tot(b \ {x}))
      BY <3>2, <3>4, Zenon
    <3>6. f[x] + (Tot(A) + Tot(b \ {x})) = Tot(A) + (f[x] + Tot(b \ {x}))
      BY <3>1, <3>3, Swap, Zenon
    <3>7. Tot(A \cup b) = Tot(A) + Tot(b)
      BY <3>4, <3>5, <3>6, Zenon
    <3> QED
      BY <3>7
  <2> QED
    BY <2>1, <2>2
<1>6. SUBSET B \subseteq P
  <2> HIDE DEF P
  <2> QED
    BY <1>5, SubsetInduction
<1>7. B \in P
  BY <1>6
<1> QED
  BY <1>7 DEF Tot

(* The sum of two functions. *)
LEMMA SumPlus ==
    ASSUME NEW f, NEW g, NEW h, NEW S, IsFiniteSet(S),
           \A x \in S : f[x] \in Int /\ g[x] \in Int /\ h[x] \in Int /\ f[x] - g[x] = h[x]
    PROVE  SumFunctionOnSet(f, S) = SumFunctionOnSet(g, S) + SumFunctionOnSet(h, S)
<1> DEFINE P == {s \in SUBSET S :
                    SumFunctionOnSet(f, s) = SumFunctionOnSet(g, s) + SumFunctionOnSet(h, s)}
<1>1. ASSUME NEW s \in SUBSET S, \A x \in s : s \ {x} \in P
      PROVE  s \in P
  <2>1. CASE s = {}
    BY <2>1, SumEmpty
  <2>2. CASE s # {}
    <3>1. IsFiniteSet(s) /\ Pick(s) \in s /\ IsFiniteSet(s \ {Pick(s)})
      BY <2>2, FS_Subset DEF Pick
    <3>2. PICK p, q : p = Pick(s) /\ q = s \ {p}
      OBVIOUS
    <3>3. /\ SumFunctionOnSet(f, s) = f[p] + SumFunctionOnSet(f, q)
          /\ SumFunctionOnSet(g, s) = g[p] + SumFunctionOnSet(g, q)
          /\ SumFunctionOnSet(h, s) = h[p] + SumFunctionOnSet(h, q)
      BY <2>2, <3>1, <3>2, SumPick
    <3>4. f[p] \in Int /\ g[p] \in Int /\ h[p] \in Int /\ f[p] - g[p] = h[p]
      BY <3>1, <3>2
    <3>5. SumFunctionOnSet(g, q) \in Int /\ SumFunctionOnSet(h, q) \in Int
      BY <3>1, <3>2, SumType
    <3>6. SumFunctionOnSet(f, q) = SumFunctionOnSet(g, q) + SumFunctionOnSet(h, q)
      BY <1>1, <3>1, <3>2
    <3> QED
      BY <3>3, <3>4, <3>5, <3>6
  <2> QED
    BY <2>1, <2>2
<1>2. SUBSET S \subseteq P
  <2> HIDE DEF P
  <2> QED
    BY <1>1, SubsetInduction
<1> QED
  BY <1>2

(* The sums over two parts of B differ by at most the sum of the sizes. *)
LEMMA SumBetween ==
    ASSUME NEW f, NEW g, NEW B, IsFiniteSet(B),
           \A x \in B : /\ f[x] \in Int /\ g[x] \in Int
                        /\ -g[x] <= f[x] /\ f[x] <= g[x],
           NEW X \in SUBSET B, NEW Y \in SUBSET B
    PROVE  /\ -SumFunctionOnSet(g, B) <= SumFunctionOnSet(f, X) - SumFunctionOnSet(f, Y)
           /\ SumFunctionOnSet(f, X) - SumFunctionOnSet(f, Y) <= SumFunctionOnSet(g, B)
<1> DEFINE Tot(s) == SumFunctionOnSet(f, s)
           Size(s) == SumFunctionOnSet(g, s)
           Part(Z, x) == IF x \in Z THEN f[x] ELSE 0
           Near(b) == /\ -Size(b) <= Tot(X \cap b) - Tot(Y \cap b)
                       /\ Tot(X \cap b) - Tot(Y \cap b) <= Size(b)
           P == {b \in SUBSET B : Near(b)}
<1>1. \A b \in SUBSET B : IsFiniteSet(b)
  BY FS_Subset
<1>2. \A b \in SUBSET B : Tot(b) \in Int /\ Size(b) \in Int
  BY <1>1, SumType
<1>3. Tot({}) = 0 /\ Size({}) = 0
  BY SumEmpty
<1>4. ASSUME NEW b \in SUBSET B, NEW x \in b
      PROVE  Size(b) = g[x] + Size(b \ {x})
  <2>1. \A y \in b : g[y] \in Int
    OBVIOUS
  <2> QED
    BY <1>1, <2>1, SumRemove
<1>5. ASSUME NEW Z \in SUBSET B, NEW b \in SUBSET B, NEW x \in b
      PROVE  Tot(Z \cap b) = Part(Z, x) + Tot(Z \cap (b \ {x}))
  <2>1. CASE x \in Z
    <3>1. (Z \cap b) \ {x} = Z \cap (b \ {x}) /\ x \in Z \cap b /\ Z \cap b \in SUBSET B
      BY <2>1
    <3>2. \A y \in Z \cap b : f[y] \in Int
      OBVIOUS
    <3>3. Tot(Z \cap b) = f[x] + Tot((Z \cap b) \ {x})
      BY <1>1, <3>1, <3>2, SumRemove
    <3> QED
      BY <2>1, <3>1, <3>3
  <2>2. CASE x \notin Z
    <3>1. Z \cap b = Z \cap (b \ {x}) /\ Z \cap b \in SUBSET B
      BY <2>2
    <3>2. Tot(Z \cap b) \in Int
      BY <1>2, <3>1
    <3> HIDE DEF Tot
    <3> QED
      BY <2>2, <3>1, <3>2
  <2> QED
    BY <2>1, <2>2
<1> HIDE DEF Tot, Size, Part
<1>6. ASSUME NEW b \in SUBSET B, \A x \in b : b \ {x} \in P
      PROVE  b \in P
  <2>1. CASE b = {}
    <3>1. X \cap b = {} /\ Y \cap b = {}
      BY <2>1
    <3> QED
      BY <1>3, <2>1, <3>1
  <2>2. ASSUME NEW x \in b PROVE b \in P
    <3>1. /\ b \ {x} \in SUBSET B /\ X \cap (b \ {x}) \in SUBSET B
          /\ Y \cap (b \ {x}) \in SUBSET B
      OBVIOUS
    <3>2. Near(b \ {x})
      BY <1>6
    <3>3. /\ Size(b \ {x}) \in Int
          /\ Tot(X \cap (b \ {x})) \in Int /\ Tot(Y \cap (b \ {x})) \in Int
      BY <1>2, <3>1
    <3>4. /\ f[x] \in Int /\ g[x] \in Int /\ -g[x] <= f[x] /\ f[x] <= g[x]
      OBVIOUS
    <3>5. Size(b) = g[x] + Size(b \ {x})
      BY <1>4, Zenon
    <3>6. Tot(X \cap b) = Part(X, x) + Tot(X \cap (b \ {x}))
      BY <1>5, X \in SUBSET B, b \in SUBSET B, x \in b
    <3>7. Tot(Y \cap b) = Part(Y, x) + Tot(Y \cap (b \ {x}))
      BY <1>5, Y \in SUBSET B, b \in SUBSET B, x \in b
    <3>8. Near(b)
      BY <3>2, <3>3, <3>4, <3>5, <3>6, <3>7 DEF Part
    <3> QED
      BY <3>8
  <2> QED
    BY <2>1, <2>2
<1>7. SUBSET B \subseteq P
  <2> HIDE DEF P
  <2> QED
    BY <1>6, SubsetInduction
<1>8. Near(B)
  BY <1>7
<1>9. X \cap B = X /\ Y \cap B = Y
  OBVIOUS
<1> QED
  BY <1>8, <1>9 DEF Tot, Size
-----------------------------------------------------------------------------
(***************************************************************************)
(* RelayBilling                                                            *)
(***************************************************************************)

(* What the refund goroutine of r has still to give back. *)
UserRefund(r) == IF refund[r] = "user" THEN held[r] ELSE 0
TokenRefund(r) == IF refund[r] # "none" /\ r \notin Playground THEN held[r] ELSE 0

(* The amount a request holds of its token's quota. *)
TokenShare(r, v) == IF r \in Playground THEN 0 ELSE v

Admission == {"new", "price", "checkToken", "debitToken", "debitUser"}
FeeSteps == {"feeUser", "feeToken", "feeUsed"}

(* Where a request can be, given how it ended. *)
Phase(r) ==
    /\ pc[r] \in Admission \cup {"relay"} <=> outcome[r] = "open"
    /\ pc[r] \in {"settleUser", "settleToken"} => outcome[r] = "served"
    /\ pc[r] \in FeeSteps => outcome[r] = "failed"
    /\ refund[r] # "none" => \/ outcome[r] = "failed"
                             \/ outcome[r] = "panicked" /\ failed[r]
    /\ refund[r] = "token" => r \notin Playground
    /\ pc[r] \in {"checkToken", "debitToken", "settleToken", "feeToken"} => r \notin Playground
    /\ pc[r] \in Admission => held[r] = 0
    /\ held[r] \in {0, price[r]}
    /\ outcome[r] \in {"open", "rejected", "panicked"} => cost[r] = 0

(* What a request has taken at each step, with or without database errors. *)
Taken(r) ==
    /\ userPaid[r] \in 0 .. held[r] + cost[r]
    /\ tokenPaid[r] \in 0 .. price[r] + cost[r]
    /\ pc[r] \in Admission \/ outcome[r] = "rejected" => userPaid[r] = 0
    /\ pc[r] \in {"relay", "settleUser"} => userPaid[r] = held[r]
    /\ pc[r] \in Admission \ {"debitUser"} => tokenPaid[r] = 0
    /\ pc[r] = "debitUser" => tokenPaid[r] = TokenShare(r, price[r])
    /\ pc[r] \in {"relay", "settleUser", "settleToken"} =>
           tokenPaid[r] = TokenShare(r, held[r])
    /\ pc[r] = "feeUser" => userPaid[r] <= held[r]
    /\ pc[r] \in {"feeUser", "feeToken"} => tokenPaid[r] <= held[r]
    /\ userPaid[r] >= UserRefund(r)
    /\ tokenPaid[r] >= TokenRefund(r)

(* ... and exactly, when no UPDATE fails. *)
TakenExactly(r) ==
    /\ pc[r] = "settleToken" => userPaid[r] = cost[r]
    /\ pc[r] = "closed" /\ outcome[r] = "rejected" => tokenPaid[r] = 0
    /\ pc[r] = "closed" /\ outcome[r] = "served" =>
           /\ userPaid[r] = cost[r]
           /\ tokenPaid[r] = TokenShare(r, cost[r])
    /\ outcome[r] = "failed" =>
           /\ userPaid[r] = UserRefund(r) + IF pc[r] = "feeUser" THEN 0 ELSE cost[r]
           /\ tokenPaid[r] = TokenRefund(r) + IF pc[r] \in {"feeUser", "feeToken"} THEN 0
                                              ELSE TokenShare(r, cost[r])
    /\ outcome[r] = "panicked" =>
           /\ userPaid[r] = IF failed[r] THEN UserRefund(r) ELSE held[r]
           /\ tokenPaid[r] = IF failed[r] THEN TokenRefund(r) ELSE TokenShare(r, held[r])

RequestInv(r) ==
    /\ Phase(r)
    /\ Taken(r)
    /\ ~DBMayFail => TakenExactly(r)

Inv == TypeOK /\ \A r \in Requests : RequestInv(r)
-----------------------------------------------------------------------------
(* The counter operations of BatchUpdater. *)

LEMMA AtType ==
    ASSUME NEW k \in Keys, NEW v \in Int
    PROVE  At(k, v) \in [Keys -> Int]
  BY DEF At, Zero

LEMMA KeyTypes ==
    ASSUME NEW r \in Requests
    PROVE  /\ UserQ[r] \in Keys /\ TokenQ[r] \in Keys
           /\ UsedQ[r] \in Keys /\ CountQ[r] \in Keys
           /\ ChannelQ \subseteq Keys
           /\ TokenQ[r] \in OfType(TokenQuotaType)
  BY RelayAssumption DEF OfRequest, OfType

(* Each operation keeps the counters typed and accounts for what it does. *)
BatchInv == BatchTypeOK /\ BatchConservation

LEMMA RecordInv ==
    ASSUME NEW delta \in [Keys -> Int], Record(delta)
    PROVE  /\ BatchTypeOK => BatchTypeOK'
           /\ BatchInv => BatchInv'
<1>1. CASE BatchUpdateEnabled
  BY <1>1, BatchAssumption
  DEF Record, BatchInv, BatchTypeOK, BatchConservation, Plus
<1>2. CASE ~BatchUpdateEnabled
  BY <1>2, BatchAssumption
  DEF Record, BatchInv, BatchTypeOK, BatchConservation, Plus
<1> QED
  BY <1>1, <1>2

LEMMA RecordLoggedInv ==
    ASSUME NEW delta \in [Keys -> Int], NEW failing, RecordLogged(delta, failing)
    PROVE  /\ BatchTypeOK => BatchTypeOK'
           /\ BatchInv => BatchInv'
  BY BatchAssumption DEF RecordLogged, BatchInv, BatchTypeOK, BatchConservation, Plus

LEMMA UnchangedBatchInv ==
    ASSUME UNCHANGED batchVars
    PROVE  /\ BatchTypeOK => BatchTypeOK'
           /\ BatchInv => BatchInv'
  BY DEF batchVars, BatchInv, BatchTypeOK, BatchConservation

LEMMA BatchUpdateInv ==
    ASSUME BatchUpdate
    PROVE  /\ BatchTypeOK => BatchTypeOK'
           /\ BatchInv => BatchInv'
<1>1. CASE BatchWake
  BY <1>1 DEF BatchWake, BatchInv, BatchTypeOK, BatchConservation, BatchUpdateTypeCount
<1>2. CASE BatchTake
  <2>1. BatchTypeOK => BatchTypeOK'
    BY <1>2 DEF BatchTake, BatchTypeOK, BatchUpdateTypeCount
  <2>2. ASSUME BatchInv, NEW k \in Keys
        PROVE  stores'[k] + batch'[k] = stores[k] + batch[k]
    BY <1>2, <2>2 DEF BatchTake, BatchInv, BatchTypeOK, Zero
  <2>3. BatchTypeOK /\ BatchConservation => BatchConservation'
    BY <1>2, <2>1, <2>2, BatchAssumption DEF BatchTake, BatchInv, BatchTypeOK, BatchConservation
  <2> QED
    BY <2>1, <2>3 DEF BatchInv
<1>3. ASSUME NEW k \in Keys, BatchWrite(k)
      PROVE  /\ BatchTypeOK => BatchTypeOK'
             /\ BatchInv => BatchInv'
  BY <1>3, BatchAssumption DEF BatchWrite, BatchInv, BatchTypeOK, BatchConservation
<1>4. ASSUME NEW k \in Keys, BatchWriteFails(k)
      PROVE  /\ BatchTypeOK => BatchTypeOK'
             /\ BatchInv => BatchInv'
  BY <1>4, BatchAssumption DEF BatchWriteFails, BatchInv, BatchTypeOK, BatchConservation
<1> QED
  BY <1>1, <1>2, <1>3, <1>4 DEF BatchUpdate

LEMMA BatchCrashInv ==
    ASSUME BatchCrash
    PROVE  /\ BatchTypeOK => BatchTypeOK'
           /\ BatchInv => BatchInv'
  BY BatchAssumption
  DEF BatchCrash, BatchInv, BatchTypeOK, BatchConservation, Zero, BatchUpdateTypeCount

LEMMA RecordUsageInv ==
    ASSUME NEW r \in Requests, NEW c \in Int, NEW channel \in ChannelQ,
           RecordUsage(r, c, channel)
    PROVE  /\ BatchTypeOK => BatchTypeOK'
           /\ BatchInv => BatchInv'
<1> DEFINE delta == Plus(Plus(At(UsedQ[r], c), At(CountQ[r], 1)), At(channel, c))
<1>1. /\ At(UsedQ[r], c) \in [Keys -> Int]
      /\ At(CountQ[r], 1) \in [Keys -> Int]
      /\ At(channel, c) \in [Keys -> Int]
  BY KeyTypes DEF At, Zero
<1>2. delta \in [Keys -> Int]
  BY <1>1 DEF Plus
<1>3. Record(delta) \/ \E failing : RecordLogged(delta, failing)
  BY DEF RecordUsage
<1> HIDE DEF delta
<1> QED
  BY <1>2, <1>3, RecordInv, RecordLoggedInv

LEMMA DebitUserInv ==
    ASSUME NEW r \in Requests, NEW v \in Int, DebitUserQuota(r, v)
    PROVE  /\ BatchTypeOK => BatchTypeOK'
           /\ BatchInv => BatchInv'
<1>1. At(UserQ[r], -v) \in [Keys -> Int]
  <2>1. UserQ[r] \in Keys /\ -v \in Int
    BY KeyTypes
  <2> QED
    BY <2>1, AtType
<1> QED
  BY <1>1, RecordInv DEF DebitUserQuota

LEMMA DebitTokenInv ==
    ASSUME NEW r \in Requests, NEW v \in Int, DebitTokenQuota(r, v)
    PROVE  /\ BatchTypeOK => BatchTypeOK'
           /\ BatchInv => BatchInv'
<1>1. At(TokenQ[r], -v) \in [Keys -> Int]
  <2>1. TokenQ[r] \in Keys /\ -v \in Int
    BY KeyTypes
  <2> QED
    BY <2>1, AtType
<1> QED
  BY <1>1, RecordInv DEF DebitTokenQuota

-----------------------------------------------------------------------------
(* The requests. *)
RequestTypeOK ==
    /\ pc \in [Requests -> Locations]
    /\ refund \in [Requests -> {"none", "user", "token"}]
    /\ tokenQuota \in [Requests -> Int]
    /\ price \in [Requests -> Nat]
    /\ held \in [Requests -> Nat]
    /\ failed \in [Requests -> BOOLEAN]
    /\ attempts \in [Requests -> Nat]
    /\ cost \in [Requests -> Nat]
    /\ outcome \in [Requests -> Outcomes]
    /\ userPaid \in [Requests -> Int]
    /\ tokenPaid \in [Requests -> Int]
    /\ tokenStatus \in [OfType(TokenQuotaType) -> {"enabled", "exhausted"}]
    /\ crashes \in Nat

LEMMA SplitTypeOK == TypeOK <=> BatchTypeOK /\ RequestTypeOK
  BY DEF TypeOK, RequestTypeOK

(* A step of one request leaves the others as they are. *)
Same(q) ==
    /\ pc'[q] = pc[q] /\ refund'[q] = refund[q] /\ price'[q] = price[q]
    /\ held'[q] = held[q] /\ failed'[q] = failed[q] /\ cost'[q] = cost[q]
    /\ outcome'[q] = outcome[q] /\ userPaid'[q] = userPaid[q] /\ tokenPaid'[q] = tokenPaid[q]

LEMMA Frame ==
    ASSUME NEW q \in Requests, Same(q), RequestInv(q)
    PROVE  RequestInv(q)'
  BY DEF Same, RequestInv, Phase, Taken, TakenExactly, UserRefund, TokenRefund

StepOf(r) ==
    /\ RequestTypeOK'
    /\ \A q \in Requests \ {r} : Same(q)
    /\ RequestInv(r)'

LEMMA RelayStep ==
    ASSUME TypeOK, NEW r \in Requests, RequestInv(r), Relay(r)
    PROVE  StepOf(r)
<1> USE DEF TypeOK, RequestTypeOK, Locations, Outcomes, Goto, Close, StepOf, Same
<1> USE DEF RequestInv, Phase, Taken, TakenExactly, UserRefund, TokenRefund, TokenShare,
            Admission, FeeSteps
<1>1. CASE Authenticate(r)
  <2>1. RequestTypeOK' /\ \A q \in Requests \ {r} : Same(q)
    <3>1. TokenQ[r] \in OfType(TokenQuotaType) /\ db[TokenQ[r]] \in Int
      BY KeyTypes DEF BatchTypeOK
    <3>2. /\ tokenQuota' \in [Requests -> Int]
          /\ tokenStatus' \in [OfType(TokenQuotaType) -> {"enabled", "exhausted"}]
      BY <1>1, <3>1 DEF Authenticate
    <3> QED
      BY <1>1, <3>2 DEF Authenticate
  <2>2. RequestInv(r)'
    BY <1>1 DEF Authenticate
  <2> QED
    BY <2>1, <2>2
<1>2. CASE RetryRelay(r)
  BY <1>2 DEF RetryRelay
<1>3. CASE PanicRelay(r)
  BY <1>3 DEF PanicRelay, ReturnPreConsumedQuota
<1>4. ASSUME NEW f \in Fees, FailRelay(r, f)
      PROVE  StepOf(r)
  BY <1>4, RelayAssumption DEF FailRelay, ReturnPreConsumedQuota
<1>5. ASSUME NEW c \in Costs, NEW channel \in ChannelQ, ServeRelay(r, c, channel)
      PROVE  StepOf(r)
  BY <1>5, RelayAssumption DEF ServeRelay, PostConsume
<1>6. CASE ServeWithoutUsage(r)
  BY <1>6 DEF ServeWithoutUsage, PostConsume
<1> QED
  BY <1>1, <1>2, <1>3, <1>4, <1>5, <1>6 DEF Relay

LEMMA WorkStep ==
    ASSUME TypeOK, NEW r \in Requests, RequestInv(r), Work(r)
    PROVE  StepOf(r)
<1> USE DEF TypeOK, RequestTypeOK, Locations, Outcomes, Goto, Close, StepOf, Same
<1> USE DEF RequestInv, Phase, Taken, TakenExactly, UserRefund, TokenRefund, TokenShare,
            Admission, FeeSteps
<1> USE DEF DebitUserQuota, DebitTokenQuota, RecordFails
<1>1. CASE PriceFreeModel(r)
  BY <1>1 DEF PriceFreeModel
<1>2. ASSUME NEW p \in PreQuotas, CheckUserQuota(r, p)
      PROVE  StepOf(r)
  BY <1>2, RelayAssumption DEF CheckUserQuota
<1>3. CASE CheckTokenQuota(r)
  BY <1>3 DEF CheckTokenQuota
<1>4. CASE PreConsumeToken(r)
  BY <1>4 DEF PreConsumeToken
<1>5. CASE PreConsumeUser(r)
  <2>1. RequestTypeOK' /\ \A q \in Requests \ {r} : Same(q)
    BY <1>5 DEF PreConsumeUser
  <2>2. RequestInv(r)'
    <3>1. CASE RecordFails
      BY <1>5, <3>1 DEF PreConsumeUser
    <3>2. CASE DebitUserQuota(r, price[r]) /\ pc'[r] = "relay"
      BY <1>5, <3>2 DEF PreConsumeUser
    <3> QED
      BY <1>5, <3>1, <3>2 DEF PreConsumeUser
  <2> QED
    BY <2>1, <2>2
<1>6. CASE SettleUser(r)
  BY <1>6 DEF SettleUser
<1>7. CASE SettleToken(r)
  BY <1>7 DEF SettleToken
<1>8. CASE FeeUser(r)
  BY <1>8 DEF FeeUser
<1>9. CASE FeeToken(r)
  BY <1>9 DEF FeeToken
<1>10. ASSUME NEW channel \in ChannelQ, FeeUsed(r, channel)
       PROVE  StepOf(r)
  BY <1>10 DEF FeeUsed
<1> QED
  BY <1>1, <1>2, <1>3, <1>4, <1>5, <1>6, <1>7, <1>8, <1>9, <1>10 DEF Work

LEMMA RefundStep ==
    ASSUME TypeOK, NEW r \in Requests, RequestInv(r), Refund(r)
    PROVE  StepOf(r)
<1> USE DEF TypeOK, RequestTypeOK, Locations, Outcomes, StepOf, Same
<1> USE DEF RequestInv, Phase, Taken, TakenExactly, UserRefund, TokenRefund, TokenShare,
            Admission, FeeSteps
<1> USE DEF DebitUserQuota, DebitTokenQuota, RecordFails
<1>1. CASE RefundUser(r)
  <2>1. RequestTypeOK' /\ \A q \in Requests \ {r} : Same(q)
    BY <1>1 DEF RefundUser
  <2>2. RequestInv(r)'
    <3>1. CASE RecordFails /\ refund'[r] = "none" /\ UNCHANGED userPaid
      BY <1>1, <3>1 DEF RefundUser
    <3>2. CASE DebitUserQuota(r, -held[r]) /\ r \in Playground
      BY <1>1, <3>2 DEF RefundUser
    <3>3. CASE DebitUserQuota(r, -held[r]) /\ r \notin Playground
      BY <1>1, <3>3 DEF RefundUser
    <3> QED
      BY <1>1, <3>1, <3>2, <3>3 DEF RefundUser
  <2> QED
    BY <2>1, <2>2
<1>2. CASE RefundToken(r)
  <2>1. RequestTypeOK' /\ \A q \in Requests \ {r} : Same(q)
    BY <1>2 DEF RefundToken
  <2>2. RequestInv(r)'
    <3>1. CASE RecordFails /\ UNCHANGED tokenPaid
      BY <1>2, <3>1 DEF RefundToken
    <3>2. CASE DebitTokenQuota(r, -held[r])
      BY <1>2, <3>2 DEF RefundToken
    <3> QED
      BY <1>2, <3>1, <3>2 DEF RefundToken
  <2> QED
    BY <2>1, <2>2
<1> QED
  BY <1>1, <1>2 DEF Refund

LEMMA CrashStep ==
    ASSUME Inv, Crash
    PROVE  RequestTypeOK' /\ \A r \in Requests : RequestInv(r)'
<1> USE DEF Inv, TypeOK, RequestTypeOK, Locations, Outcomes
<1>1. RequestTypeOK'
  BY DEF Crash
<1>2. ASSUME NEW r \in Requests
      PROVE  RequestInv(r)'
  <2>1. RequestInv(r) /\ refund'[r] = "none"
    BY DEF Crash
  <2>2. CASE r \in InFlight
    BY <2>1, <2>2 DEF Crash, RequestInv, Phase, Taken, TakenExactly, UserRefund, TokenRefund,
                      TokenShare, Admission, FeeSteps
  <2>3. CASE r \notin InFlight
    <3>1. refund[r] = "none"
      BY <2>3 DEF InFlight
    <3>2. Same(r)
      BY <2>1, <2>3, <3>1 DEF Crash, Same
    <3> QED
      BY <2>1, <3>2, Frame
  <2> QED
    BY <2>2, <2>3
<1> QED
  BY <1>1, <1>2

(* How a step of a request touches the counters. *)
LEMMA RequestCounters ==
    ASSUME TypeOK, NEW r \in Requests, Relay(r) \/ Work(r) \/ Refund(r)
    PROVE  \/ UNCHANGED batchVars
           \/ \E v \in Int : DebitUserQuota(r, v) \/ DebitTokenQuota(r, v)
           \/ \E c \in Int, channel \in ChannelQ : RecordUsage(r, c, channel)
<1>1. price[r] \in Int /\ held[r] \in Int /\ cost[r] \in Int
  BY DEF TypeOK
<1>2. -held[r] \in Int /\ cost[r] - held[r] \in Int
  BY <1>1
<1>3. CASE Relay(r)
  BY <1>3, RelayAssumption
  DEF Relay, Authenticate, RetryRelay, PanicRelay, FailRelay, ServeRelay, ServeWithoutUsage
<1>4. CASE Work(r)
  BY <1>1, <1>2, <1>4
  DEF Work, PriceFreeModel, CheckUserQuota, CheckTokenQuota, PreConsumeToken, PreConsumeUser,
      SettleUser, SettleToken, FeeUser, FeeToken, FeeUsed, RecordFails
<1>5. CASE Refund(r)
  BY <1>2, <1>5 DEF Refund, RefundUser, RefundToken, RecordFails
<1> QED
  BY <1>3, <1>4, <1>5

LEMMA StepCounters ==
    ASSUME TypeOK, [Next]_vars
    PROVE  /\ BatchTypeOK => BatchTypeOK'
           /\ BatchInv => BatchInv'
<1>1. ASSUME NEW r \in Requests, Relay(r) \/ Work(r) \/ Refund(r)
      PROVE  /\ BatchTypeOK => BatchTypeOK'
             /\ BatchInv => BatchInv'
  BY <1>1, RequestCounters, UnchangedBatchInv, DebitUserInv, DebitTokenInv, RecordUsageInv
<1>2. CASE Flush
  BY <1>2, BatchUpdateInv DEF Flush
<1>3. CASE Crash
  BY <1>3, BatchCrashInv DEF Crash
<1>4. CASE UNCHANGED vars
  BY <1>4, UnchangedBatchInv DEF vars
<1> QED
  BY <1>1, <1>2, <1>3, <1>4 DEF Next

LEMMA InitInv == Init => Inv /\ BatchConservation
<1> SUFFICES ASSUME Init
             PROVE  Inv /\ BatchConservation
  OBVIOUS
<1>1. BatchTypeOK /\ BatchConservation
  BY BatchAssumption DEF Init, BatchInit, BatchTypeOK, BatchConservation, Zero,
                         BatchUpdateTypeCount
<1>2. RequestTypeOK
  BY DEF Init, RequestTypeOK, Locations, Outcomes
<1>3. ASSUME NEW r \in Requests
      PROVE  RequestInv(r)
  BY DEF Init, RequestInv, Phase, Taken, TakenExactly, UserRefund, TokenRefund, TokenShare,
         Admission, FeeSteps
<1> QED
  BY <1>1, <1>2, <1>3, SplitTypeOK DEF Inv

LEMMA NextInv == Inv /\ [Next]_vars => Inv'
<1> SUFFICES ASSUME Inv, [Next]_vars
             PROVE  Inv'
  OBVIOUS
<1>1. BatchTypeOK'
  BY StepCounters, SplitTypeOK DEF Inv
<1>2. RequestTypeOK' /\ \A r \in Requests : RequestInv(r)'
  <2>1. ASSUME NEW r \in Requests, Relay(r) \/ Work(r) \/ Refund(r)
        PROVE  RequestTypeOK' /\ \A q \in Requests : RequestInv(q)'
    <3>1. StepOf(r)
      BY <2>1, RelayStep, WorkStep, RefundStep DEF Inv
    <3>2. ASSUME NEW q \in Requests \ {r}
          PROVE  RequestInv(q)'
      BY <3>1, Frame DEF Inv, StepOf
    <3> QED
      BY <3>1, <3>2 DEF StepOf
  <2>2. CASE Flush \/ UNCHANGED vars
    <3>1. UNCHANGED requestVars
      BY <2>2 DEF Flush, vars
    <3>2. RequestTypeOK'
      BY <3>1, SplitTypeOK DEF Inv, requestVars, RequestTypeOK
    <3>3. ASSUME NEW q \in Requests
          PROVE  RequestInv(q)'
      BY <3>1, Frame DEF Inv, Same, requestVars
    <3> QED
      BY <3>2, <3>3
  <2>3. CASE Crash
    BY <2>3, CrashStep
  <2> QED
    BY <2>1, <2>2, <2>3 DEF Next
<1>3. TypeOK'
  BY <1>1, <1>2 DEF TypeOK, RequestTypeOK
<1> QED
  BY <1>2, <1>3 DEF Inv

-----------------------------------------------------------------------------
(* Every variable of RelayBilling keeps its type. *)
THEOREM TypeCorrect == Spec => []TypeOK
<1>1. Inv => TypeOK
  BY DEF Inv
<1> QED
  BY <1>1, InitInv, NextInv, PTL DEF Spec

(* The batch loop of model/utils.go loses nothing but what a failed write   *)
(* or a crash takes, and writes nothing twice.                              *)
THEOREM Conservation == Spec => []BatchConservation
<1>1. Inv /\ BatchConservation /\ [Next]_vars => BatchConservation'
  <2> SUFFICES ASSUME Inv, BatchConservation, [Next]_vars
               PROVE  BatchConservation'
    OBVIOUS
  <2>1. TypeOK /\ BatchInv
    BY DEF Inv, TypeOK, BatchInv
  <2>2. BatchInv'
    BY <2>1, StepCounters
  <2> QED
    BY <2>2 DEF BatchInv
<1> QED
  BY <1>1, InitInv, NextInv, PTL DEF Spec

(* Without database errors, every request that runs to its end is charged   *)
(* exactly what it owes.                                                    *)
THEOREM ChargedExactly == Spec => []ExactCharge
<1>1. Inv => ExactCharge
  BY DEF Inv, TypeOK, Locations, Outcomes, ExactCharge, Settled, Due, RequestInv, Phase, Taken,
         TakenExactly, UserRefund, TokenRefund, TokenShare, Admission, FeeSteps
<1> QED
  BY <1>1, InitInv, NextInv, PTL DEF Spec

(* Database errors and crashes never make a request take less than nothing  *)
(* or more than its pre-consumed quota and its cost.                        *)
THEOREM PaidBounded == Spec => []PaidWithinBounds
<1>1. Inv => PaidWithinBounds
  BY DEF Inv, PaidWithinBounds, RequestInv, Taken
<1> QED
  BY <1>1, InitInv, NextInv, PTL DEF Spec
-----------------------------------------------------------------------------
(* The ledger: what the requests say they took is what the counters say     *)
(* was accepted, column by column.                                          *)

(* The usage that a request has recorded, as long as no UPDATE fails. *)
RecordedUsage(r) ==
    IF outcome[r] = "served" \/ (outcome[r] = "failed" /\ pc[r] = "closed") THEN cost[r] ELSE 0
Recorded == [r \in Requests |-> RecordedUsage(r)]

PaidLedger ==
    /\ \A u \in OfType(UserQuotaType) :
           issued[u] = -SumFunctionOnSet(userPaid, RequestsOf(UserQ, u))
    /\ \A t \in OfType(TokenQuotaType) :
           issued[t] = -SumFunctionOnSet(tokenPaid, RequestsOf(TokenQ, t))

UsageLedger ==
    /\ lost = Zero
    /\ \A r \in Requests : outcome[r] # "crashed"
    /\ \A u \in OfType(UsedQuotaType) :
           issued[u] = SumFunctionOnSet(Recorded, RequestsOf(UsedQ, u))
    /\ SumFunctionOnSet(issued, ChannelQ) = SumFunctionOnSet(Recorded, Requests)

Ledger == PaidLedger /\ (~DBMayFail /\ crashes = 0 => UsageLedger)

LEMMA RequestsOfFinite ==
    ASSUME NEW column, NEW k
    PROVE  IsFiniteSet(RequestsOf(column, k)) /\ RequestsOf(column, k) \subseteq Requests
  BY RelayAssumption, FS_Subset DEF RequestsOf

(* A sum over the requests of a column follows the change of one request. *)
LEMMA SumOfColumn ==
    ASSUME NEW column, NEW k, NEW f \in [Requests -> Int], NEW g \in [Requests -> Int],
           NEW r \in Requests, \A q \in Requests \ {r} : f[q] = g[q]
    PROVE  LET R == RequestsOf(column, k)
           IN  /\ SumFunctionOnSet(f, R) \in Int
               /\ column[r] = k => SumFunctionOnSet(g, R) = SumFunctionOnSet(f, R) + g[r] - f[r]
               /\ column[r] # k => SumFunctionOnSet(g, R) = SumFunctionOnSet(f, R)
<1> DEFINE R == RequestsOf(column, k)
<1>1. IsFiniteSet(R) /\ R \subseteq Requests
  BY RequestsOfFinite
<1>2. \A x \in R : f[x] \in Int /\ g[x] \in Int
  BY <1>1
<1>3. SumFunctionOnSet(f, R) \in Int
  BY <1>1, <1>2, SumType
<1>4. ASSUME column[r] = k
      PROVE  SumFunctionOnSet(g, R) = SumFunctionOnSet(f, R) + g[r] - f[r]
  <2>1. r \in R
    BY <1>4 DEF RequestsOf
  <2> HIDE DEF R
  <2>2. \A x \in R \ {r} : f[x] = g[x]
    BY <1>1
  <2> QED
    BY <1>1, <1>2, <2>1, <2>2, SumUpdate
<1>5. ASSUME column[r] # k
      PROVE  SumFunctionOnSet(g, R) = SumFunctionOnSet(f, R)
  <2>1. \A x \in R : f[x] = g[x]
    BY <1>1, <1>5 DEF RequestsOf
  <2> HIDE DEF R
  <2> QED
    BY <1>1, <2>1, SumEqual
<1> QED
  BY <1>3, <1>4, <1>5

LEMMA RecordedType ==
    ASSUME TypeOK
    PROVE  Recorded \in [Requests -> Int]
  BY DEF TypeOK, Recorded, RecordedUsage

(* What a step of a request accepts for the counters, and how the request   *)
(* notes it.                                                                *)
Accepts(delta) == issued' = Plus(issued, delta) /\ (~DBMayFail => UNCHANGED lost)

Books(r) ==
    \/ /\ UNCHANGED <<issued, lost, userPaid, tokenPaid>>
       /\ ~DBMayFail => Recorded' = Recorded
    \/ \E v \in Int :
          /\ Accepts(At(UserQ[r], -v))
          /\ userPaid' = [userPaid EXCEPT ![r] = @ + v] /\ UNCHANGED tokenPaid
          /\ ~DBMayFail => Recorded' = Recorded
    \/ \E v \in Int :
          /\ Accepts(At(TokenQ[r], -v))
          /\ tokenPaid' = [tokenPaid EXCEPT ![r] = @ + v] /\ UNCHANGED userPaid
          /\ ~DBMayFail => Recorded' = Recorded
    \/ \E c \in Int, channel \in ChannelQ :
          /\ Accepts(Plus(Plus(At(UsedQ[r], c), At(CountQ[r], 1)), At(channel, c)))
          /\ UNCHANGED <<userPaid, tokenPaid>>
          /\ ~DBMayFail => Recorded' = [Recorded EXCEPT ![r] = @ + c]

LEMMA RecordAccepts ==
    ASSUME NEW delta, Record(delta)
    PROVE  Accepts(delta)
  BY DEF Record, Accepts

LEMMA RecordUsageAccepts ==
    ASSUME NEW r, NEW c, NEW channel, RecordUsage(r, c, channel)
    PROVE  Accepts(Plus(Plus(At(UsedQ[r], c), At(CountQ[r], 1)), At(channel, c)))
  BY DEF Record, RecordUsage, RecordLogged, Accepts

LEMMA RecordedStep ==
    ASSUME NEW r \in Requests, \A q \in Requests \ {r} : Same(q), NEW c,
           RecordedUsage(r)' = RecordedUsage(r) + c
    PROVE  Recorded' = [Recorded EXCEPT ![r] = @ + c]
  BY DEF Recorded, RecordedUsage, Same

LEMMA RecordedSame ==
    ASSUME NEW r \in Requests, \A q \in Requests \ {r} : Same(q),
           RecordedUsage(r)' = RecordedUsage(r)
    PROVE  Recorded' = Recorded
  BY DEF Recorded, RecordedUsage, Same

LEMMA UnbookedStep ==
    ASSUME NEW r \in Requests, \A q \in Requests \ {r} : Same(q),
           UNCHANGED <<batchVars, userPaid, tokenPaid>>,
           ~DBMayFail => RecordedUsage(r)' = RecordedUsage(r)
    PROVE  Books(r)
  BY RecordedSame DEF Books, batchVars

LEMMA UserStep ==
    ASSUME NEW r \in Requests, \A q \in Requests \ {r} : Same(q),
           NEW v \in Int, DebitUserQuota(r, v), UNCHANGED tokenPaid,
           RecordedUsage(r)' = RecordedUsage(r)
    PROVE  Books(r)
  BY RecordedSame, RecordAccepts DEF Books, DebitUserQuota

LEMMA TokenStep ==
    ASSUME NEW r \in Requests, \A q \in Requests \ {r} : Same(q),
           NEW v \in Int, DebitTokenQuota(r, v), UNCHANGED userPaid,
           RecordedUsage(r)' = RecordedUsage(r)
    PROVE  Books(r)
  BY RecordedSame, RecordAccepts DEF Books, DebitTokenQuota

LEMMA UsageStep ==
    ASSUME NEW r \in Requests, \A q \in Requests \ {r} : Same(q),
           NEW c \in Int, NEW channel \in ChannelQ, RecordUsage(r, c, channel),
           UNCHANGED <<userPaid, tokenPaid>>,
           RecordedUsage(r)' = RecordedUsage(r) + c
    PROVE  Books(r)
  BY RecordedStep, RecordUsageAccepts DEF Books

LEMMA RelayBooks ==
    ASSUME TypeOK, NEW r \in Requests, RequestInv(r), Relay(r)
    PROVE  Books(r)
<1>1. \A q \in Requests \ {r} : Same(q)
  BY RelayStep DEF StepOf
<1> USE DEF TypeOK, RequestTypeOK, Locations, Outcomes, Goto, Close
<1> USE DEF RequestInv, Phase, Admission, RecordedUsage
<1>2. CASE Authenticate(r)
  BY <1>1, <1>2, UnbookedStep DEF Authenticate
<1>3. CASE RetryRelay(r)
  BY <1>1, <1>3, UnbookedStep DEF RetryRelay
<1>4. CASE PanicRelay(r)
  BY <1>1, <1>4, UnbookedStep DEF PanicRelay
<1>5. ASSUME NEW f \in Fees, FailRelay(r, f)
      PROVE  Books(r)
  <2>1. RecordedUsage(r)' = RecordedUsage(r)
    BY <1>5, RelayAssumption DEF FailRelay
  <2> QED
    BY <1>1, <1>5, <2>1, UnbookedStep DEF FailRelay
<1>6. ASSUME NEW c \in Costs, NEW channel \in ChannelQ, ServeRelay(r, c, channel)
      PROVE  Books(r)
  <2>1. RecordedUsage(r)' = RecordedUsage(r) + c /\ c \in Int
    BY <1>6, RelayAssumption DEF ServeRelay, PostConsume
  <2> QED
    BY <1>1, <1>6, <2>1, UsageStep DEF ServeRelay, PostConsume
<1>7. CASE ServeWithoutUsage(r)
  BY <1>1, <1>7, UnbookedStep DEF ServeWithoutUsage, PostConsume
<1> QED
  BY <1>2, <1>3, <1>4, <1>5, <1>6, <1>7 DEF Relay

LEMMA WorkBooks ==
    ASSUME TypeOK, NEW r \in Requests, RequestInv(r), Work(r)
    PROVE  Books(r)
<1>1. \A q \in Requests \ {r} : Same(q)
  BY WorkStep DEF StepOf
<1>2. price[r] \in Int /\ cost[r] \in Int /\ cost[r] - held[r] \in Int
  BY DEF TypeOK
<1> USE DEF TypeOK, RequestTypeOK, Locations, Outcomes, Goto, Close
<1> USE DEF RequestInv, Phase, Admission, FeeSteps, RecordedUsage
<1>3. CASE PriceFreeModel(r)
  BY <1>1, <1>3, UnbookedStep DEF PriceFreeModel
<1>4. ASSUME NEW p \in PreQuotas, CheckUserQuota(r, p)
      PROVE  Books(r)
  BY <1>1, <1>4, UnbookedStep DEF CheckUserQuota
<1>5. CASE CheckTokenQuota(r)
  BY <1>1, <1>5, UnbookedStep DEF CheckTokenQuota
<1>6. CASE PreConsumeToken(r)
  <2>1. RecordedUsage(r)' = RecordedUsage(r)
    BY <1>6 DEF PreConsumeToken
  <2> QED
    BY <1>1, <1>2, <1>6, <2>1, UnbookedStep, TokenStep DEF PreConsumeToken, RecordFails
<1>7. CASE PreConsumeUser(r)
  <2>1. RecordedUsage(r)' = RecordedUsage(r)
    BY <1>7 DEF PreConsumeUser
  <2> QED
    BY <1>1, <1>2, <1>7, <2>1, UnbookedStep, UserStep DEF PreConsumeUser, RecordFails
<1>8. CASE SettleUser(r)
  <2>1. RecordedUsage(r)' = RecordedUsage(r)
    BY <1>8 DEF SettleUser
  <2> QED
    BY <1>1, <1>2, <1>8, <2>1, UnbookedStep, UserStep DEF SettleUser, RecordFails
<1>9. CASE SettleToken(r)
  <2>1. RecordedUsage(r)' = RecordedUsage(r)
    BY <1>9 DEF SettleToken
  <2> QED
    BY <1>1, <1>2, <1>9, <2>1, UnbookedStep, TokenStep DEF SettleToken, RecordFails
<1>10. CASE FeeUser(r)
  <2>1. CASE DebitUserQuota(r, cost[r]) /\ pc'[r] # "closed"
    <3>1. RecordedUsage(r)' = RecordedUsage(r)
      BY <1>10, <2>1 DEF FeeUser
    <3> QED
      BY <1>1, <1>2, <1>10, <2>1, <3>1, UserStep DEF FeeUser
  <2>2. CASE RecordFails /\ UNCHANGED userPaid
    BY <1>1, <1>10, <2>2, UnbookedStep DEF FeeUser, RecordFails
  <2> QED
    BY <1>10, <2>1, <2>2 DEF FeeUser
<1>11. CASE FeeToken(r)
  <2>1. CASE DebitTokenQuota(r, cost[r]) /\ Goto(r, "feeUsed")
    <3>1. RecordedUsage(r)' = RecordedUsage(r)
      BY <1>11, <2>1 DEF FeeToken
    <3> QED
      BY <1>1, <1>2, <1>11, <2>1, <3>1, TokenStep DEF FeeToken
  <2>2. CASE RecordFails /\ UNCHANGED tokenPaid
    BY <1>1, <1>11, <2>2, UnbookedStep DEF FeeToken, RecordFails
  <2> QED
    BY <1>11, <2>1, <2>2 DEF FeeToken
<1>12. ASSUME NEW channel \in ChannelQ, FeeUsed(r, channel)
       PROVE  Books(r)
  <2>1. RecordedUsage(r)' = RecordedUsage(r) + cost[r]
    BY <1>2, <1>12 DEF FeeUsed
  <2> QED
    BY <1>1, <1>2, <1>12, <2>1, UsageStep DEF FeeUsed
<1> QED
  BY <1>3, <1>4, <1>5, <1>6, <1>7, <1>8, <1>9, <1>10, <1>11, <1>12 DEF Work

LEMMA RefundBooks ==
    ASSUME TypeOK, NEW r \in Requests, RequestInv(r), Refund(r)
    PROVE  Books(r)
<1>1. \A q \in Requests \ {r} : Same(q)
  BY RefundStep DEF StepOf
<1>2. -held[r] \in Int
  BY DEF TypeOK
<1>3. RecordedUsage(r)' = RecordedUsage(r)
  BY DEF Refund, RefundUser, RefundToken, RecordedUsage
<1>4. CASE RefundUser(r)
  BY <1>1, <1>2, <1>3, <1>4, UnbookedStep, UserStep DEF RefundUser, RecordFails
<1>5. CASE RefundToken(r)
  BY <1>1, <1>2, <1>3, <1>5, UnbookedStep, TokenStep DEF RefundToken, RecordFails
<1> QED
  BY <1>4, <1>5 DEF Refund
LEMMA ColumnTypes ==
    ASSUME NEW r \in Requests
    PROVE  /\ UserQ[r] \in OfType(UserQuotaType) /\ TokenQ[r] \in OfType(TokenQuotaType)
           /\ UsedQ[r] \in OfType(UsedQuotaType) /\ CountQ[r] \in OfType(RequestCountType)
           /\ \A i \in Int, j \in Int : i # j => OfType(i) \cap OfType(j) = {}
           /\ \A i \in Int : OfType(i) \subseteq Keys
           /\ ChannelQ \subseteq OfType(ChannelUsedQuotaType)
  BY RelayAssumption DEF OfRequest, OfType

LEMMA AcceptedAt ==
    ASSUME BatchTypeOK, NEW k \in Keys, NEW v \in Int, Accepts(At(k, v)), NEW j \in Keys
    PROVE  issued'[j] = issued[j] + IF j = k THEN v ELSE 0
  BY DEF BatchTypeOK, Accepts, Plus, At, Zero

LEMMA PaidByUser ==
    ASSUME TypeOK, NEW r \in Requests, NEW v \in Int, PaidLedger,
           Accepts(At(UserQ[r], -v)),
           userPaid' = [userPaid EXCEPT ![r] = @ + v], UNCHANGED tokenPaid
    PROVE  PaidLedger'
<1>1. BatchTypeOK /\ userPaid \in [Requests -> Int] /\ tokenPaid \in [Requests -> Int]
  BY DEF TypeOK
<1>2. UserQ[r] \in Keys /\ -v \in Int
  BY KeyTypes
<1>3. ASSUME NEW u \in OfType(UserQuotaType)
      PROVE  issued'[u] = -SumFunctionOnSet(userPaid', RequestsOf(UserQ, u))
  <2>1. u \in Keys /\ issued[u] \in Int
    BY <1>1 DEF OfType, BatchTypeOK
  <2>2. issued'[u] = issued[u] + IF u = UserQ[r] THEN -v ELSE 0
    BY <1>1, <1>2, <2>1, AcceptedAt
  <2>3. userPaid' \in [Requests -> Int] /\ \A q \in Requests \ {r} : userPaid[q] = userPaid'[q]
    BY <1>1
  <2>4. SumFunctionOnSet(userPaid', RequestsOf(UserQ, u)) =
            SumFunctionOnSet(userPaid, RequestsOf(UserQ, u))
                + IF UserQ[r] = u THEN userPaid'[r] - userPaid[r] ELSE 0
    <3>1. PICK f, g : f = userPaid /\ g = userPaid'
      OBVIOUS
    <3>2. f \in [Requests -> Int] /\ g \in [Requests -> Int]
      BY <1>1, <2>3, <3>1
    <3>3. \A q \in Requests \ {r} : f[q] = g[q]
      BY <2>3, <3>1
    <3>4. LET R == RequestsOf(UserQ, u)
          IN  /\ SumFunctionOnSet(f, R) \in Int
              /\ UserQ[r] = u => SumFunctionOnSet(g, R) = SumFunctionOnSet(f, R) + g[r] - f[r]
              /\ UserQ[r] # u => SumFunctionOnSet(g, R) = SumFunctionOnSet(f, R)
      BY <3>2, <3>3, SumOfColumn
    <3>5. f[r] \in Int /\ g[r] \in Int
      BY <3>2
    <3> QED
      BY <3>1, <3>4, <3>5
  <2>5. userPaid'[r] - userPaid[r] = v
    BY <1>1
  <2>6. issued[u] = -SumFunctionOnSet(userPaid, RequestsOf(UserQ, u))
    BY DEF PaidLedger
  <2>7. SumFunctionOnSet(userPaid, RequestsOf(UserQ, u)) \in Int
    BY <1>1, RequestsOfFinite, SumType
  <2> QED
    BY <2>1, <2>2, <2>4, <2>5, <2>6, <2>7
<1>4. ASSUME NEW t \in OfType(TokenQuotaType)
      PROVE  issued'[t] = -SumFunctionOnSet(tokenPaid', RequestsOf(TokenQ, t))
  <2>1. t \in Keys /\ issued[t] \in Int /\ t # UserQ[r]
    BY <1>1, ColumnTypes DEF OfType, BatchTypeOK, UserQuotaType, TokenQuotaType
  <2>2. issued'[t] = issued[t]
    BY <1>1, <1>2, <2>1, AcceptedAt
  <2> QED
    BY <2>2 DEF PaidLedger
<1> QED
  BY <1>3, <1>4 DEF PaidLedger, RequestsOf, OfType

LEMMA PaidByToken ==
    ASSUME TypeOK, NEW r \in Requests, NEW v \in Int, PaidLedger,
           Accepts(At(TokenQ[r], -v)),
           tokenPaid' = [tokenPaid EXCEPT ![r] = @ + v], UNCHANGED userPaid
    PROVE  PaidLedger'
<1>1. BatchTypeOK /\ userPaid \in [Requests -> Int] /\ tokenPaid \in [Requests -> Int]
  BY DEF TypeOK
<1>2. TokenQ[r] \in Keys /\ -v \in Int
  BY KeyTypes
<1>3. ASSUME NEW t \in OfType(TokenQuotaType)
      PROVE  issued'[t] = -SumFunctionOnSet(tokenPaid', RequestsOf(TokenQ, t))
  <2>1. t \in Keys /\ issued[t] \in Int
    BY <1>1 DEF OfType, BatchTypeOK
  <2>2. issued'[t] = issued[t] + IF t = TokenQ[r] THEN -v ELSE 0
    BY <1>1, <1>2, <2>1, AcceptedAt
  <2>3. tokenPaid' \in [Requests -> Int] /\ \A q \in Requests \ {r} : tokenPaid[q] = tokenPaid'[q]
    BY <1>1
  <2>4. SumFunctionOnSet(tokenPaid', RequestsOf(TokenQ, t)) =
            SumFunctionOnSet(tokenPaid, RequestsOf(TokenQ, t))
                + IF TokenQ[r] = t THEN tokenPaid'[r] - tokenPaid[r] ELSE 0
    <3>1. PICK f, g : f = tokenPaid /\ g = tokenPaid'
      OBVIOUS
    <3>2. f \in [Requests -> Int] /\ g \in [Requests -> Int]
      BY <1>1, <2>3, <3>1
    <3>3. \A q \in Requests \ {r} : f[q] = g[q]
      BY <2>3, <3>1
    <3>4. LET R == RequestsOf(TokenQ, t)
          IN  /\ SumFunctionOnSet(f, R) \in Int
              /\ TokenQ[r] = t => SumFunctionOnSet(g, R) = SumFunctionOnSet(f, R) + g[r] - f[r]
              /\ TokenQ[r] # t => SumFunctionOnSet(g, R) = SumFunctionOnSet(f, R)
      BY <3>2, <3>3, SumOfColumn
    <3>5. f[r] \in Int /\ g[r] \in Int
      BY <3>2
    <3> QED
      BY <3>1, <3>4, <3>5
  <2>5. tokenPaid'[r] - tokenPaid[r] = v
    BY <1>1
  <2>6. issued[t] = -SumFunctionOnSet(tokenPaid, RequestsOf(TokenQ, t))
    BY DEF PaidLedger
  <2>7. SumFunctionOnSet(tokenPaid, RequestsOf(TokenQ, t)) \in Int
    BY <1>1, RequestsOfFinite, SumType
  <2> QED
    BY <2>1, <2>2, <2>4, <2>5, <2>6, <2>7
<1>4. ASSUME NEW u \in OfType(UserQuotaType)
      PROVE  issued'[u] = -SumFunctionOnSet(userPaid', RequestsOf(UserQ, u))
  <2>1. u \in Keys /\ issued[u] \in Int /\ u # TokenQ[r]
    BY <1>1, ColumnTypes DEF OfType, BatchTypeOK, UserQuotaType, TokenQuotaType
  <2>2. issued'[u] = issued[u]
    BY <1>1, <1>2, <2>1, AcceptedAt
  <2> QED
    BY <2>2 DEF PaidLedger
<1> QED
  BY <1>3, <1>4 DEF PaidLedger, RequestsOf, OfType

(* A debit leaves the used quotas alone. *)
LEMMA UsageOfDebit ==
    ASSUME TypeOK, NEW k \in Keys, NEW v \in Int, Accepts(At(k, v)),
           BatchUpdateType[k] \in {UserQuotaType, TokenQuotaType},
           ~DBMayFail, Recorded' = Recorded, UsageLedger,
           \A r \in Requests : outcome'[r] # "crashed"
    PROVE  UsageLedger'
<1>1. BatchTypeOK
  BY DEF TypeOK
<1>2. ASSUME NEW j \in Keys, BatchUpdateType[j] \in {UsedQuotaType, ChannelUsedQuotaType}
      PROVE  issued'[j] = issued[j]
  <2>1. j # k /\ issued[j] \in Int
    BY <1>1, <1>2
    DEF BatchTypeOK, UserQuotaType, TokenQuotaType, UsedQuotaType, ChannelUsedQuotaType
  <2> QED
    BY <1>1, <2>1, AcceptedAt
<1>3. \A u \in OfType(UsedQuotaType) : issued'[u] = issued[u]
  BY <1>2 DEF OfType
<1>4. \A channel \in ChannelQ : issued[channel] = issued'[channel]
  BY <1>2, RelayAssumption DEF OfType
<1>5. SumFunctionOnSet(issued', ChannelQ) = SumFunctionOnSet(issued, ChannelQ)
  BY <1>4, RelayAssumption, SumEqual
<1>6. lost' = Zero
  BY DEF Accepts, UsageLedger
<1> QED
  BY <1>3, <1>5, <1>6 DEF UsageLedger, OfType, RequestsOf, Zero

(* The usage of a request is recorded for its user and for one channel. *)
LEMMA UsageOfRecord ==
    ASSUME TypeOK, NEW r \in Requests, NEW c \in Int, NEW channel \in ChannelQ,
           Accepts(Plus(Plus(At(UsedQ[r], c), At(CountQ[r], 1)), At(channel, c))),
           ~DBMayFail, Recorded' = [Recorded EXCEPT ![r] = @ + c], UsageLedger,
           \A q \in Requests : outcome'[q] # "crashed"
    PROVE  UsageLedger'
<1>1. BatchTypeOK /\ Recorded \in [Requests -> Int]
  BY RecordedType DEF TypeOK
<1>2. Recorded' \in [Requests -> Int] /\ \A q \in Requests \ {r} : Recorded[q] = Recorded'[q]
  BY <1>1
<1>3. Recorded'[r] - Recorded[r] = c
  BY <1>1
<1>4. ASSUME NEW k \in Keys
      PROVE  /\ k \in OfType(UsedQuotaType) =>
                    issued'[k] = issued[k] + IF UsedQ[r] = k THEN c ELSE 0
             /\ k \in ChannelQ => issued'[k] = issued[k] + IF k = channel THEN c ELSE 0
  <2>1. issued[k] \in Int /\ UsedQ[r] \in Keys /\ CountQ[r] \in Keys /\ channel \in Keys
    BY <1>1, KeyTypes DEF BatchTypeOK
  <2>2. issued'[k] = issued[k] + (At(UsedQ[r], c)[k] + At(CountQ[r], 1)[k] + At(channel, c)[k])
    BY DEF Accepts, Plus
  <2>3. /\ At(UsedQ[r], c)[k] = IF UsedQ[r] = k THEN c ELSE 0
        /\ At(CountQ[r], 1)[k] = IF CountQ[r] = k THEN 1 ELSE 0
        /\ At(channel, c)[k] = IF channel = k THEN c ELSE 0
    BY <2>1 DEF At, Zero
  <2>4. /\ k \in OfType(UsedQuotaType) => CountQ[r] # k /\ channel # k
        /\ k \in ChannelQ => UsedQ[r] # k /\ CountQ[r] # k
    BY ColumnTypes
    DEF OfType, UsedQuotaType, ChannelUsedQuotaType, RequestCountType
  <2> QED
    BY <2>1, <2>2, <2>3, <2>4
<1>5. ASSUME NEW u \in OfType(UsedQuotaType)
      PROVE  issued'[u] = SumFunctionOnSet(Recorded', RequestsOf(UsedQ, u))
  <2>1. SumFunctionOnSet(Recorded', RequestsOf(UsedQ, u)) =
            SumFunctionOnSet(Recorded, RequestsOf(UsedQ, u))
                + IF UsedQ[r] = u THEN Recorded'[r] - Recorded[r] ELSE 0
    <3>1. PICK f, g : f = Recorded /\ g = Recorded'
      OBVIOUS
    <3>2. f \in [Requests -> Int] /\ g \in [Requests -> Int]
      BY <1>1, <1>2, <3>1
    <3>3. \A q \in Requests \ {r} : f[q] = g[q]
      BY <1>2, <3>1
    <3>4. LET R == RequestsOf(UsedQ, u)
          IN  /\ SumFunctionOnSet(f, R) \in Int
              /\ UsedQ[r] = u => SumFunctionOnSet(g, R) = SumFunctionOnSet(f, R) + g[r] - f[r]
              /\ UsedQ[r] # u => SumFunctionOnSet(g, R) = SumFunctionOnSet(f, R)
      BY <3>2, <3>3, SumOfColumn
    <3>5. f[r] \in Int /\ g[r] \in Int
      BY <3>2
    <3> QED
      BY <3>1, <3>4, <3>5
  <2>2. issued[u] = SumFunctionOnSet(Recorded, RequestsOf(UsedQ, u))
    BY DEF UsageLedger
  <2>3. u \in Keys
    BY DEF OfType
  <2>4. issued'[u] = issued[u] + IF UsedQ[r] = u THEN c ELSE 0
    BY <1>4, <2>3
  <2> QED
    BY <1>3, <2>1, <2>2, <2>4
<1>6. SumFunctionOnSet(Recorded', Requests) = SumFunctionOnSet(Recorded, Requests) + c
  <2>1. IsFiniteSet(Requests) /\ \A q \in Requests : Recorded[q] \in Int /\ Recorded'[q] \in Int
    BY <1>1, <1>2, RelayAssumption
  <2>2. SumFunctionOnSet(Recorded', Requests) =
            SumFunctionOnSet(Recorded, Requests) + Recorded'[r] - Recorded[r]
    <3>1. PICK f, g : f = Recorded /\ g = Recorded'
      OBVIOUS
    <3>2. \A q \in Requests : f[q] \in Int /\ g[q] \in Int
      BY <2>1, <3>1
    <3>3. \A q \in Requests \ {r} : f[q] = g[q]
      BY <1>2, <3>1
    <3>4. SumFunctionOnSet(g, Requests) = SumFunctionOnSet(f, Requests) + g[r] - f[r]
      BY <2>1, <3>2, <3>3, SumUpdate
    <3> QED
      BY <3>1, <3>4
  <2>3. SumFunctionOnSet(Recorded, Requests) \in Int
    BY <2>1, SumType
  <2> QED
    BY <1>3, <2>1, <2>2, <2>3
<1>7. SumFunctionOnSet(issued', ChannelQ) = SumFunctionOnSet(issued, ChannelQ) + c
  <2>1. IsFiniteSet(ChannelQ) /\ ChannelQ \subseteq Keys
    BY RelayAssumption DEF OfType
  <2>2. \A k \in ChannelQ : issued[k] \in Int /\ issued'[k] = issued[k] + IF k = channel THEN c ELSE 0
    BY <1>1, <1>4, <2>1 DEF BatchTypeOK
  <2>3. /\ \A k \in ChannelQ : issued[k] \in Int /\ issued'[k] \in Int
        /\ \A k \in ChannelQ \ {channel} : issued[k] = issued'[k]
        /\ issued'[channel] - issued[channel] = c
    BY <2>2
  <2>4. SumFunctionOnSet(issued', ChannelQ) =
            SumFunctionOnSet(issued, ChannelQ) + issued'[channel] - issued[channel]
    BY <2>1, <2>3, SumUpdate
  <2>5. SumFunctionOnSet(issued, ChannelQ) \in Int
    BY <2>1, <2>3, SumType
  <2> QED
    BY <2>3, <2>4, <2>5
<1>8. lost' = Zero
  BY DEF Accepts, UsageLedger
<1> QED
  BY <1>5, <1>6, <1>7, <1>8 DEF UsageLedger, OfType, RequestsOf, Zero
(* Only a crash ends a request as crashed. *)
LEMMA NotCrashed ==
    ASSUME TypeOK, NEW r \in Requests, RequestInv(r), Relay(r) \/ Work(r) \/ Refund(r),
           \A q \in Requests : outcome[q] # "crashed"
    PROVE  /\ \A q \in Requests : outcome'[q] # "crashed"
           /\ UNCHANGED crashes
<1>1. outcome'[r] # "crashed" /\ UNCHANGED crashes
  <2> USE DEF TypeOK, RequestTypeOK, Close
  <2>1. CASE Relay(r)
    BY <2>1 DEF Relay, Authenticate, RetryRelay, PanicRelay, FailRelay, ServeRelay,
                ServeWithoutUsage, PostConsume
  <2>2. CASE Work(r)
    BY <2>2 DEF Work, PriceFreeModel, CheckUserQuota, CheckTokenQuota, PreConsumeToken,
                PreConsumeUser, SettleUser, SettleToken, FeeUser, FeeToken, FeeUsed
  <2>3. CASE Refund(r)
    BY <2>3 DEF Refund, RefundUser, RefundToken
  <2> QED
    BY <2>1, <2>2, <2>3
<1>2. \A q \in Requests \ {r} : outcome'[q] = outcome[q]
  BY RelayStep, WorkStep, RefundStep DEF StepOf, Same
<1> QED
  BY <1>1, <1>2

LEMMA RequestLedger ==
    ASSUME TypeOK, NEW r \in Requests, RequestInv(r), Ledger,
           Relay(r) \/ Work(r) \/ Refund(r)
    PROVE  Ledger'
<1>1. Books(r)
  BY RelayBooks, WorkBooks, RefundBooks
<1>2. PaidLedger /\ BatchTypeOK
  BY DEF Ledger, TypeOK
<1>3. ASSUME ~DBMayFail, crashes' = 0
      PROVE  UsageLedger /\ \A q \in Requests : outcome'[q] # "crashed"
  <2>1. UNCHANGED crashes
    BY DEF Relay, Authenticate, RetryRelay, PanicRelay, FailRelay, ServeRelay,
           ServeWithoutUsage, PostConsume, Work, PriceFreeModel, CheckUserQuota,
           CheckTokenQuota, PreConsumeToken, PreConsumeUser, SettleUser, SettleToken, FeeUser,
           FeeToken, FeeUsed, Refund, RefundUser, RefundToken
  <2>2. UsageLedger
    BY <1>3, <2>1 DEF Ledger
  <2> QED
    BY <2>2, NotCrashed DEF UsageLedger
<1>4. CASE /\ UNCHANGED <<issued, lost, userPaid, tokenPaid>>
           /\ ~DBMayFail => Recorded' = Recorded
  <2>1. PaidLedger'
    BY <1>2, <1>4 DEF PaidLedger, OfType, RequestsOf
  <2>2. ~DBMayFail /\ crashes' = 0 => UsageLedger'
    BY <1>3, <1>4 DEF UsageLedger, OfType, RequestsOf, Zero
  <2> QED
    BY <2>1, <2>2 DEF Ledger
<1>5. ASSUME NEW v \in Int, Accepts(At(UserQ[r], -v)),
             userPaid' = [userPaid EXCEPT ![r] = @ + v], UNCHANGED tokenPaid,
             ~DBMayFail => Recorded' = Recorded
      PROVE  Ledger'
  <2>1. PaidLedger'
    BY <1>2, <1>5, PaidByUser
  <2>2. /\ UserQ[r] \in Keys /\ -v \in Int
        /\ BatchUpdateType[UserQ[r]] \in {UserQuotaType, TokenQuotaType}
    BY ColumnTypes DEF OfType
  <2>3. ~DBMayFail /\ crashes' = 0 => UsageLedger'
    BY <1>3, <1>5, <2>2, UsageOfDebit
  <2> QED
    BY <2>1, <2>3 DEF Ledger
<1>6. ASSUME NEW v \in Int, Accepts(At(TokenQ[r], -v)),
             tokenPaid' = [tokenPaid EXCEPT ![r] = @ + v], UNCHANGED userPaid,
             ~DBMayFail => Recorded' = Recorded
      PROVE  Ledger'
  <2>1. PaidLedger'
    BY <1>2, <1>6, PaidByToken
  <2>2. /\ TokenQ[r] \in Keys /\ -v \in Int
        /\ BatchUpdateType[TokenQ[r]] \in {UserQuotaType, TokenQuotaType}
    BY ColumnTypes DEF OfType
  <2>3. ~DBMayFail /\ crashes' = 0 => UsageLedger'
    BY <1>3, <1>6, <2>2, UsageOfDebit
  <2> QED
    BY <2>1, <2>3 DEF Ledger
<1>7. ASSUME NEW c \in Int, NEW channel \in ChannelQ,
             Accepts(Plus(Plus(At(UsedQ[r], c), At(CountQ[r], 1)), At(channel, c))),
             UNCHANGED <<userPaid, tokenPaid>>,
             ~DBMayFail => Recorded' = [Recorded EXCEPT ![r] = @ + c]
      PROVE  Ledger'
  <2>1. ASSUME NEW k \in OfType(UserQuotaType) \cup OfType(TokenQuotaType)
        PROVE  issued'[k] = issued[k]
    <3>1. k \in Keys /\ issued[k] \in Int /\ UsedQ[r] # k /\ CountQ[r] # k /\ channel # k
      BY <1>2, ColumnTypes
      DEF OfType, BatchTypeOK, UserQuotaType, TokenQuotaType, UsedQuotaType,
          ChannelUsedQuotaType, RequestCountType
    <3>2. UsedQ[r] \in Keys /\ CountQ[r] \in Keys /\ channel \in Keys
      BY KeyTypes
    <3>3. /\ At(UsedQ[r], c)[k] = 0 /\ At(CountQ[r], 1)[k] = 0 /\ At(channel, c)[k] = 0
      BY <3>1, <3>2 DEF At, Zero
    <3> QED
      BY <1>7, <3>1, <3>3 DEF Accepts, Plus
  <2>2. PaidLedger'
    BY <1>2, <1>7, <2>1 DEF PaidLedger, OfType, RequestsOf
  <2>3. ~DBMayFail /\ crashes' = 0 => UsageLedger'
    BY <1>3, <1>7, UsageOfRecord
  <2> QED
    BY <2>2, <2>3 DEF Ledger
<1> QED
  BY <1>1, <1>4, <1>5, <1>6, <1>7 DEF Books

LEMMA InitLedger == Init => Ledger
<1> SUFFICES ASSUME Init
             PROVE  Ledger
  OBVIOUS
<1>1. /\ issued = [k \in Keys |-> 0] /\ lost = Zero
      /\ userPaid = [r \in Requests |-> 0] /\ tokenPaid = [r \in Requests |-> 0]
      /\ Recorded = [r \in Requests |-> 0]
      /\ \A r \in Requests : outcome[r] # "crashed"
  BY DEF Init, BatchInit, Zero, Recorded, RecordedUsage
<1>2. ASSUME NEW column, NEW k
      PROVE  /\ SumFunctionOnSet(userPaid, RequestsOf(column, k)) = 0
             /\ SumFunctionOnSet(tokenPaid, RequestsOf(column, k)) = 0
             /\ SumFunctionOnSet(Recorded, RequestsOf(column, k)) = 0
  BY <1>1, RequestsOfFinite, SumZero
<1>3. SumFunctionOnSet(Recorded, Requests) = 0
  BY <1>1, RelayAssumption, SumZero
<1>4. SumFunctionOnSet(issued, ChannelQ) = 0
  <2>1. \A k \in ChannelQ : issued[k] = 0
    BY <1>1, RelayAssumption DEF OfType
  <2> QED
    BY <2>1, RelayAssumption, SumZero
<1>5. \A i \in Int : \A k \in OfType(i) : issued[k] = 0
  BY <1>1 DEF OfType
<1>6. UserQuotaType \in Int /\ TokenQuotaType \in Int /\ UsedQuotaType \in Int
  BY DEF UserQuotaType, TokenQuotaType, UsedQuotaType
<1>7. PaidLedger
  BY <1>2, <1>5, <1>6 DEF PaidLedger
<1>8. UsageLedger
  BY <1>1, <1>2, <1>3, <1>4, <1>5, <1>6 DEF UsageLedger
<1> QED
  BY <1>7, <1>8 DEF Ledger

LEMMA NextLedger == Inv /\ Ledger /\ [Next]_vars => Ledger'
<1> SUFFICES ASSUME Inv, Ledger, [Next]_vars
             PROVE  Ledger'
  OBVIOUS
<1>1. ASSUME NEW r \in Requests, Relay(r) \/ Work(r) \/ Refund(r)
      PROVE  Ledger'
  BY <1>1, RequestLedger DEF Inv
<1>2. CASE Flush \/ UNCHANGED vars
  <2>1. UNCHANGED requestVars /\ UNCHANGED issued /\ (~DBMayFail => UNCHANGED lost)
    BY <1>2 DEF Flush, vars, batchVars, BatchUpdate, BatchWake, BatchTake, BatchWrite,
                BatchWriteFails
  <2> QED
    BY <2>1 DEF Ledger, PaidLedger, UsageLedger, requestVars, Recorded, RecordedUsage, OfType,
                RequestsOf, Zero
<1>3. CASE Crash
  <2>1. UNCHANGED <<issued, userPaid, tokenPaid>> /\ crashes' # 0
    BY <1>3 DEF Crash, BatchCrash, Inv, TypeOK
  <2> QED
    BY <2>1 DEF Ledger, PaidLedger, OfType, RequestsOf
<1> QED
  BY <1>1, <1>2, <1>3 DEF Next

-----------------------------------------------------------------------------
(* Whatever fails, what a user's and a token's column, the map, the batch   *)
(* and the lost updates hold together is what the column held at start-up   *)
(* less what the requests took: no debit is made for a request that does    *)
(* not know of it, and none that a request counts on is missing.            *)
QuotaIsAccounted ==
    /\ \A u \in OfType(UserQuotaType) :
           db[u] + stores[u] + batch[u] + lost[u] =
               InitialDB[u] - SumFunctionOnSet(userPaid, RequestsOf(UserQ, u))
    /\ \A t \in OfType(TokenQuotaType) :
           db[t] + stores[t] + batch[t] + lost[t] =
               InitialDB[t] - SumFunctionOnSet(tokenPaid, RequestsOf(TokenQ, t))

(* The quotas of users and tokens are accounted for, whatever UPDATE fails  *)
(* and whenever the process dies.                                           *)
THEOREM Accounted == Spec => []QuotaIsAccounted
<1>1. Inv /\ BatchConservation /\ Ledger => QuotaIsAccounted
  <2> SUFFICES ASSUME Inv, BatchConservation, Ledger
               PROVE  QuotaIsAccounted
    OBVIOUS
  <2>1. /\ userPaid \in [Requests -> Int] /\ tokenPaid \in [Requests -> Int]
        /\ \A k \in Keys : issued[k] \in Int
    BY DEF Inv, TypeOK, BatchTypeOK
  <2>2. ASSUME NEW k \in Keys
        PROVE  db[k] + stores[k] + batch[k] + lost[k] = InitialDB[k] + issued[k]
    BY DEF BatchConservation
  <2>3. ASSUME NEW k \in Keys, NEW s \in Int, issued[k] = -s
        PROVE  db[k] + stores[k] + batch[k] + lost[k] = InitialDB[k] - s
    BY <2>2, <2>3, BatchAssumption
  <2>4. ASSUME NEW column, NEW k
        PROVE  /\ SumFunctionOnSet(userPaid, RequestsOf(column, k)) \in Int
               /\ SumFunctionOnSet(tokenPaid, RequestsOf(column, k)) \in Int
    BY <2>1, RequestsOfFinite, SumType
  <2>5. ASSUME NEW u \in OfType(UserQuotaType)
        PROVE  db[u] + stores[u] + batch[u] + lost[u] =
                   InitialDB[u] - SumFunctionOnSet(userPaid, RequestsOf(UserQ, u))
    BY <2>3, <2>4 DEF Ledger, PaidLedger, OfType
  <2>6. ASSUME NEW t \in OfType(TokenQuotaType)
        PROVE  db[t] + stores[t] + batch[t] + lost[t] =
                   InitialDB[t] - SumFunctionOnSet(tokenPaid, RequestsOf(TokenQ, t))
    BY <2>3, <2>4 DEF Ledger, PaidLedger, OfType
  <2> QED
    BY <2>5, <2>6 DEF QuotaIsAccounted
<1> QED
  BY <1>1, InitInv, NextInv, InitLedger, NextLedger, Conservation, PTL DEF Spec

QuotaKeys == OfType(UserQuotaType) \cup OfType(TokenQuotaType)

(* Who can lose a change of a quota: only the batch updater, by an UPDATE   *)
(* that fails or a crash.                                                   *)
LossInv ==
    /\ ~BatchUpdateEnabled => \A k \in Keys : stores[k] = 0 /\ batch[k] = 0
    /\ \A k \in QuotaKeys :
           lost[k] # 0 => BatchUpdateEnabled /\ (DBMayFail \/ crashes > 0)

LEMMA RecordLoss ==
    ASSUME BatchTypeOK, LossInv, NEW delta, Record(delta), UNCHANGED crashes
    PROVE  LossInv'
  BY DEF Record, BatchTypeOK, LossInv, Plus, QuotaKeys, OfType

LEMMA UsageLoss ==
    ASSUME BatchTypeOK, LossInv, NEW r \in Requests, NEW c, NEW channel \in ChannelQ,
           RecordUsage(r, c, channel), UNCHANGED crashes
    PROVE  LossInv'
<1> DEFINE delta == Plus(Plus(At(UsedQ[r], c), At(CountQ[r], 1)), At(channel, c))
<1>1. CASE Record(delta)
  BY <1>1, RecordLoss
<1>2. ASSUME NEW failing \in SUBSET {UsedQ[r], CountQ[r], channel}, RecordLogged(delta, failing)
      PROVE  LossInv'
  <2>1. \A k \in QuotaKeys : k \in Keys /\ k \notin failing
    <3>1. /\ BatchUpdateType[UsedQ[r]] = UsedQuotaType
          /\ BatchUpdateType[CountQ[r]] = RequestCountType
          /\ BatchUpdateType[channel] = ChannelUsedQuotaType
      BY RelayAssumption DEF OfRequest, OfType
    <3> QED
      BY <3>1 DEF QuotaKeys, OfType, UserQuotaType, TokenQuotaType, UsedQuotaType,
         RequestCountType, ChannelUsedQuotaType
  <2>2. UNCHANGED <<stores, batch>>
    BY <1>2 DEF RecordLogged
  <2>3. \A k \in QuotaKeys : lost'[k] = lost[k]
    <3> HIDE DEF delta
    <3> QED
      BY <1>2, <2>1 DEF RecordLogged, BatchTypeOK, Plus
  <2> QED
    BY <2>2, <2>3 DEF LossInv
<1>3. \/ Record(delta)
      \/ \E failing \in SUBSET {UsedQ[r], CountQ[r], channel} : RecordLogged(delta, failing)
  <2> HIDE DEF delta
  <2>1. /\ {UsedQ[r], CountQ[r]} \in SUBSET {UsedQ[r], CountQ[r], channel}
        /\ {channel} \in SUBSET {UsedQ[r], CountQ[r], channel}
        /\ {UsedQ[r], CountQ[r]} \cup {channel} \in SUBSET {UsedQ[r], CountQ[r], channel}
    OBVIOUS
  <2> QED
    BY <2>1 DEF RecordUsage, delta
<1> QED
  BY <1>1, <1>2, <1>3

LEMMA FlushLoss ==
    ASSUME BatchTypeOK, LossInv, BatchUpdate, UNCHANGED crashes
    PROVE  LossInv'
<1>1. CASE BatchWake
  BY <1>1 DEF BatchWake, LossInv
<1>2. CASE BatchTake
  BY <1>2 DEF BatchTake, BatchTypeOK, LossInv
<1>3. ASSUME NEW k \in Keys, BatchWrite(k)
      PROVE  LossInv'
  BY <1>3 DEF BatchWrite, BatchTypeOK, LossInv
<1>4. ASSUME NEW k \in Keys, BatchWriteFails(k)
      PROVE  LossInv'
  <2>1. BatchUpdateEnabled /\ DBMayFail
    BY <1>4 DEF BatchWriteFails, LossInv
  <2> QED
    BY <2>1 DEF LossInv
<1> QED
  BY <1>1, <1>2, <1>3, <1>4 DEF BatchUpdate

LEMMA CrashLoss ==
    ASSUME TypeOK, LossInv, Crash
    PROVE  LossInv'
<1>1. crashes' > 0 /\ \A k \in Keys : stores'[k] = 0 /\ batch'[k] = 0
  BY DEF Crash, BatchCrash, TypeOK, Zero
<1>2. ASSUME NEW k \in QuotaKeys, lost'[k] # 0
      PROVE  BatchUpdateEnabled
  <2>1. k \in Keys /\ lost'[k] = lost[k] + stores[k] + batch[k]
    BY <1>2 DEF QuotaKeys, OfType, Crash, BatchCrash
  <2>2. lost[k] = 0 => stores[k] # 0 \/ batch[k] # 0
    BY <1>2, <2>1
  <2> QED
    BY <2>1, <2>2 DEF LossInv
<1> QED
  BY <1>1, <1>2 DEF LossInv

LEMMA NextLoss == Inv /\ LossInv /\ [Next]_vars => LossInv'
<1> SUFFICES ASSUME Inv, LossInv, [Next]_vars
             PROVE  LossInv'
  OBVIOUS
<1>1. TypeOK /\ BatchTypeOK
  BY SplitTypeOK DEF Inv
<1>2. ASSUME NEW r \in Requests, Relay(r) \/ Work(r) \/ Refund(r)
      PROVE  LossInv'
  <2>1. UNCHANGED crashes
    <3>1. CASE Relay(r)
      BY <3>1 DEF Relay, Authenticate, RetryRelay, PanicRelay, FailRelay, ServeRelay,
                  ServeWithoutUsage, PostConsume
    <3>2. CASE Work(r)
      BY <3>2 DEF Work, PriceFreeModel, CheckUserQuota, CheckTokenQuota, PreConsumeToken,
                  PreConsumeUser, SettleUser, SettleToken, FeeUser, FeeToken, FeeUsed
    <3>3. CASE Refund(r)
      BY <3>3 DEF Refund, RefundUser, RefundToken
    <3> QED
      BY <1>2, <3>1, <3>2, <3>3
  <2>2. CASE UNCHANGED batchVars
    BY <2>1, <2>2 DEF batchVars, LossInv
  <2>3. ASSUME NEW v \in Int, DebitUserQuota(r, v) \/ DebitTokenQuota(r, v)
        PROVE  LossInv'
    BY <1>1, <2>1, <2>3, RecordLoss DEF DebitUserQuota, DebitTokenQuota
  <2>4. ASSUME NEW c \in Int, NEW channel \in ChannelQ, RecordUsage(r, c, channel)
        PROVE  LossInv'
    BY <1>1, <2>1, <2>4, UsageLoss
  <2> QED
    BY <1>1, <1>2, <2>2, <2>3, <2>4, RequestCounters
<1>3. CASE Flush
  <2>1. BatchUpdate /\ UNCHANGED crashes
    BY <1>3 DEF Flush, requestVars
  <2> QED
    BY <1>1, <2>1, FlushLoss
<1>4. CASE Crash
  BY <1>1, <1>4, CrashLoss
<1>5. CASE UNCHANGED vars
  BY <1>5 DEF vars, batchVars, requestVars, LossInv
<1> QED
  BY <1>2, <1>3, <1>4, <1>5 DEF Next

(* Refunds and settlements race with each other, UPDATEs fail between the   *)
(* two of PostConsumeQuota, and the process dies anywhere: a user or a      *)
(* token ends up with more quota than it started with (in its column and in *)
(* what waits to be written to it) only where the batch updater has lost a  *)
(* debit, by an UPDATE that failed or by a crash.  Without batching no      *)
(* failure and no crash gives anyone quota.                                 *)
NoQuotaCreated ==
    \A k \in QuotaKeys :
        db[k] + stores[k] + batch[k] > InitialDB[k] =>
            BatchUpdateEnabled /\ lost[k] < 0 /\ (DBMayFail \/ crashes > 0)

(* Requests create no quota, by the bounds on each, the account of all and what *)
(* can be lost.                                                                 *)
THEOREM NoneCreated == Spec => []NoQuotaCreated
<1>1. Inv /\ PaidWithinBounds /\ QuotaIsAccounted /\ LossInv => NoQuotaCreated
  <2> SUFFICES ASSUME Inv, PaidWithinBounds, QuotaIsAccounted, LossInv
               PROVE  NoQuotaCreated
    OBVIOUS
  <2>1. \A r \in Requests : userPaid[r] \in Nat /\ tokenPaid[r] \in Nat
    BY DEF Inv, TypeOK, PaidWithinBounds
  <2>2. ASSUME NEW column, NEW k
        PROVE  /\ SumFunctionOnSet(userPaid, RequestsOf(column, k)) \in Nat
               /\ SumFunctionOnSet(tokenPaid, RequestsOf(column, k)) \in Nat
    BY <2>1, RequestsOfFinite, SumNatural
  <2>3. ASSUME NEW k \in QuotaKeys
        PROVE  \E s \in Nat : db[k] + stores[k] + batch[k] + lost[k] = InitialDB[k] - s
    BY <2>2 DEF QuotaIsAccounted, QuotaKeys
  <2>4. \A k \in Keys : /\ db[k] \in Int /\ stores[k] \in Int /\ batch[k] \in Int
                        /\ lost[k] \in Int /\ InitialDB[k] \in Int
    BY BatchAssumption DEF Inv, TypeOK, BatchTypeOK
  <2>5. ASSUME NEW k \in QuotaKeys, db[k] + stores[k] + batch[k] > InitialDB[k]
        PROVE  lost[k] < 0
    <3>1. k \in Keys
      BY DEF QuotaKeys, OfType
    <3> QED
      BY <2>3, <2>4, <2>5, <3>1
  <2>6. \A k \in QuotaKeys : lost[k] < 0 => lost[k] # 0
    BY <2>4 DEF QuotaKeys, OfType
  <2> QED
    BY <2>5, <2>6 DEF NoQuotaCreated, LossInv
<1>2. Init => LossInv
  BY DEF Init, BatchInit, Zero, LossInv, QuotaKeys, OfType
<1>3. Spec => []Inv /\ []LossInv
  BY <1>2, InitInv, NextInv, NextLoss, PTL DEF Spec
<1> QED
  BY <1>1, <1>3, PaidBounded, Accounted, PTL


LEMMA QuiescentLedger ==
    ASSUME Inv, BatchConservation, Ledger, ~DBMayFail, crashes = 0, Quiescent
    PROVE  /\ \A k \in Keys : db[k] \in Int /\ InitialDB[k] \in Int /\ issued[k] \in Int
           /\ \A k \in Keys : db[k] - InitialDB[k] = issued[k]
           /\ \A r \in Requests :
                  /\ userPaid[r] = Owed[r] /\ userPaid[r] \in Int
                  /\ tokenPaid[r] = (IF r \in Playground THEN 0 ELSE Owed[r])
                  /\ tokenPaid[r] \in Int
                  /\ Recorded[r] = Usage[r] /\ Recorded[r] \in Int
<1>1. UsageLedger
  BY DEF Ledger
<1>2. ASSUME NEW k \in Keys
      PROVE  /\ db[k] \in Int /\ InitialDB[k] \in Int /\ issued[k] \in Int
             /\ db[k] - InitialDB[k] = issued[k]
  <2>1. stores[k] = 0 /\ batch[k] = 0 /\ lost[k] = 0
    BY <1>1 DEF Quiescent, Asleep, UsageLedger, Zero
  <2>2. db[k] \in Int /\ InitialDB[k] \in Int /\ issued[k] \in Int
    BY BatchAssumption DEF Inv, TypeOK, BatchTypeOK
  <2>3. db[k] + stores[k] + batch[k] + lost[k] = InitialDB[k] + issued[k]
    BY DEF BatchConservation
  <2> QED
    BY <2>1, <2>2, <2>3
<1>3. ASSUME NEW r \in Requests
      PROVE  /\ userPaid[r] = Owed[r] /\ userPaid[r] \in Int
             /\ tokenPaid[r] = (IF r \in Playground THEN 0 ELSE Owed[r])
             /\ tokenPaid[r] \in Int
             /\ Recorded[r] = Usage[r] /\ Recorded[r] \in Int
  <2>1. outcome[r] # "crashed"
    BY <1>1 DEF UsageLedger
  <2>2. userPaid[r] \in Int /\ tokenPaid[r] \in Int /\ Recorded[r] \in Int
    BY RecordedType DEF Inv, TypeOK
  <2>3. CASE pc[r] = "new"
    <3>1. outcome[r] = "open" /\ userPaid[r] = 0 /\ tokenPaid[r] = 0
      BY <2>3 DEF Inv, RequestInv, Phase, Taken, Admission
    <3> QED
      BY <2>2, <3>1 DEF Owed, Due, Usage, Recorded, RecordedUsage
  <2>4. CASE Settled(r)
    <3>1. /\ userPaid[r] = Due(r)
          /\ tokenPaid[r] = IF r \in Playground THEN 0 ELSE Due(r)
      <4>1. ExactCharge
        BY DEF Inv, TypeOK, Locations, Outcomes, ExactCharge, Settled, Due, RequestInv, Phase,
               Taken, TakenExactly, UserRefund, TokenRefund, TokenShare, Admission, FeeSteps
      <4> QED
        BY <2>1, <2>4, <4>1 DEF ExactCharge
    <3>2. Recorded[r] = Usage[r]
      BY <2>4 DEF Settled, Recorded, RecordedUsage, Usage
    <3> QED
      BY <2>2, <3>1, <3>2 DEF Owed
  <2> QED
    BY <2>3, <2>4 DEF Quiescent
<1> QED
  BY <1>2, <1>3

(* Without errors and crashes, the columns of users, tokens and channels    *)
(* agree with the requests once everything is written, for any number of    *)
(* them and whatever the order of the batches.                              *)
THEOREM AddsUp == Spec => []DatabaseAddsUp
<1>1. Inv /\ BatchConservation /\ Ledger => DatabaseAddsUp
  <2> SUFFICES ASSUME Inv, BatchConservation, Ledger, ~DBMayFail, crashes = 0, Quiescent
               PROVE  /\ \A u \in OfType(UserQuotaType) :
                             InitialDB[u] - db[u] = SumFunctionOnSet(Owed, RequestsOf(UserQ, u))
                      /\ \A t \in OfType(TokenQuotaType) :
                             InitialDB[t] - db[t] =
                                 SumFunctionOnSet(Owed, RequestsOf(TokenQ, t) \ Playground)
                      /\ \A u \in OfType(UsedQuotaType) :
                             db[u] - InitialDB[u] = SumFunctionOnSet(Usage, RequestsOf(UsedQ, u))
                      /\ SumFunctionOnSet(db, ChannelQ) - SumFunctionOnSet(InitialDB, ChannelQ)
                             = SumFunctionOnSet(Usage, Requests)
    BY DEF DatabaseAddsUp
  <2>1. \A k \in Keys : /\ db[k] \in Int /\ InitialDB[k] \in Int /\ issued[k] \in Int
                        /\ db[k] - InitialDB[k] = issued[k]
    BY QuiescentLedger
  <2>2. \A r \in Requests : userPaid[r] = Owed[r] /\ userPaid[r] \in Int
    BY QuiescentLedger
  <2>3. \A r \in Requests : /\ tokenPaid[r] = (IF r \in Playground THEN 0 ELSE Owed[r])
                            /\ tokenPaid[r] \in Int
    BY QuiescentLedger
  <2>4. \A r \in Requests : Recorded[r] = Usage[r] /\ Recorded[r] \in Int
    BY QuiescentLedger
  <2>5. PaidLedger /\ UsageLedger
    BY DEF Ledger
  <2>6. ASSUME NEW k \in Keys, NEW s \in Int, issued[k] = -s
        PROVE  InitialDB[k] - db[k] = s
    BY <2>1, <2>6
  <2>7. ASSUME NEW u \in OfType(UserQuotaType)
        PROVE  InitialDB[u] - db[u] = SumFunctionOnSet(Owed, RequestsOf(UserQ, u))
    <3>1. SumFunctionOnSet(userPaid, RequestsOf(UserQ, u)) =
              SumFunctionOnSet(Owed, RequestsOf(UserQ, u))
      BY <2>2, RequestsOfFinite, SumEqual
    <3>2. SumFunctionOnSet(userPaid, RequestsOf(UserQ, u)) \in Int
      BY <2>2, RequestsOfFinite, SumType
    <3> QED
      BY <2>5, <2>6, <3>1, <3>2 DEF PaidLedger, OfType
  <2>8. ASSUME NEW t \in OfType(TokenQuotaType)
        PROVE  InitialDB[t] - db[t] = SumFunctionOnSet(Owed, RequestsOf(TokenQ, t) \ Playground)
    <3> DEFINE R == RequestsOf(TokenQ, t)
    <3>1. /\ IsFiniteSet(R \ Playground) /\ IsFiniteSet(R \cap Playground) /\ IsFiniteSet(R)
          /\ R \subseteq Requests
      BY RequestsOfFinite, FS_Subset
    <3> HIDE DEF R
    <3>2. SumFunctionOnSet(tokenPaid, R \ Playground) = SumFunctionOnSet(Owed, R \ Playground)
      BY <2>3, <3>1, SumEqual
    <3>3. SumFunctionOnSet(tokenPaid, R \cap Playground) = 0
      BY <2>3, <3>1, SumZero
    <3>4. SumFunctionOnSet(tokenPaid, R) =
              SumFunctionOnSet(tokenPaid, R \ Playground)
                  + SumFunctionOnSet(tokenPaid, R \cap Playground)
      <4>1. (R \ Playground) \cup (R \cap Playground) = R
        OBVIOUS
      <4>2. (R \ Playground) \cap (R \cap Playground) = {}
        OBVIOUS
      <4>3. \A x \in (R \ Playground) \cup (R \cap Playground) : tokenPaid[x] \in Int
        BY <2>3, <3>1
      <4>4. SumFunctionOnSet(tokenPaid, (R \ Playground) \cup (R \cap Playground)) =
                SumFunctionOnSet(tokenPaid, R \ Playground)
                    + SumFunctionOnSet(tokenPaid, R \cap Playground)
        BY <3>1, <4>2, <4>3, SumUnion
      <4> QED
        BY <4>1, <4>4
    <3>5. /\ SumFunctionOnSet(tokenPaid, R \ Playground) \in Int
          /\ SumFunctionOnSet(tokenPaid, R) \in Int
      BY <2>3, <3>1, SumType
    <3>6. issued[t] = -SumFunctionOnSet(tokenPaid, R) /\ t \in Keys
      BY <2>5 DEF PaidLedger, OfType, R
    <3>7. InitialDB[t] - db[t] = SumFunctionOnSet(tokenPaid, R)
      BY <2>6, <3>5, <3>6
    <3>8. SumFunctionOnSet(tokenPaid, R) = SumFunctionOnSet(tokenPaid, R \ Playground)
      BY <3>3, <3>4, <3>5
    <3> QED
      BY <3>2, <3>7, <3>8 DEF R
  <2>9. ASSUME NEW u \in OfType(UsedQuotaType)
        PROVE  db[u] - InitialDB[u] = SumFunctionOnSet(Usage, RequestsOf(UsedQ, u))
    <3>1. SumFunctionOnSet(Recorded, RequestsOf(UsedQ, u)) =
              SumFunctionOnSet(Usage, RequestsOf(UsedQ, u))
      BY <2>4, RequestsOfFinite, SumEqual
    <3> QED
      BY <2>1, <2>5, <3>1 DEF UsageLedger, OfType
  <2>10. SumFunctionOnSet(db, ChannelQ) - SumFunctionOnSet(InitialDB, ChannelQ)
             = SumFunctionOnSet(Usage, Requests)
    <3>1. SumFunctionOnSet(Recorded, Requests) = SumFunctionOnSet(Usage, Requests)
      BY <2>4, RelayAssumption, SumEqual
    <3>2. IsFiniteSet(ChannelQ) /\ ChannelQ \subseteq Keys
      BY RelayAssumption DEF OfType
    <3>3. SumFunctionOnSet(db, ChannelQ) =
              SumFunctionOnSet(InitialDB, ChannelQ) + SumFunctionOnSet(issued, ChannelQ)
      BY <2>1, <3>2, SumPlus
    <3>4. /\ SumFunctionOnSet(InitialDB, ChannelQ) \in Int
          /\ SumFunctionOnSet(issued, ChannelQ) \in Int
      BY <2>1, <3>2, SumType
    <3> QED
      BY <2>5, <3>1, <3>3, <3>4 DEF UsageLedger
  <2> QED
    BY <2>7, <2>8, <2>9, <2>10
<1> QED
  BY <1>1, InitInv, NextInv, InitLedger, NextLedger, Conservation, PTL DEF Spec
-----------------------------------------------------------------------------
(***************************************************************************)
(* QuotaCache                                                              *)
(***************************************************************************)
Written == {c \in Changes : progress[c] = "done"}
Cached == {c \in Changes : cache[c] = "done"}

ReaderRecords == [pc : {"idle", "store"}, quota : Int, seen : SUBSET Changes]
SaverRecords ==
    [pc : {"idle", "first", "write", "store"}, quota : Int, found : Int,
     adds : SUBSET Changes, seen : SUBSET Changes]

(* A save owns the changes that it brings until it has written them. *)
AddsOwned ==
    /\ \A s \in Savers : \A c \in saver[s].adds : progress[c] = "saving" /\ cache[c] = "done"
    /\ \A s, t \in Savers : s # t => saver[s].adds \cap saver[t].adds = {}
    /\ \A s \in Savers : /\ Kind[s] = "update" => saver[s].adds = {}
                         /\ saver[s].pc \in {"idle", "store"} => saver[s].adds = {}

CacheTyped ==
    /\ CacheTypeOK
    /\ \A c \in Changes : progress[c] = "off" <=> cache[c] = "off"
    /\ reader \in [Readers -> ReaderRecords] /\ saver \in [Savers -> SaverRecords]

(* R is the set of changes that the row counts now.  A quota read from the  *)
(* row earlier counts some of the changes that have been written, and those *)
(* of R among the ones that were not under way in between.                  *)
Snapshot(q, seen, written, underWay, R) ==
    \E K \in SUBSET written :
        /\ q = InitialQuota + Sum(K)
        /\ \A c \in Changes \ seen : c \notin underWay /\ (c \in R <=> c \in K)

(* A quota in Redis: it counts the changes K by the row it was read from    *)
(* and the changes J by HINCRBY.  What is not blurred is in K, in J or on   *)
(* its way to J once, if the row counts it or will, and otherwise nowhere.  *)
Counted(q, blur, written, cached, notCached, notWritten, R) ==
    \E K \in SUBSET written, J \in SUBSET cached :
        /\ q = InitialQuota + (Sum(K) + Sum(J))
        /\ \A c \in Changes \ blur :
               /\ c \in K => c \in R
               /\ c \in J \cup notCached <=> c \in (R \cup notWritten) \ K

(* A quota that a save writes back is a part of what has been written, and  *)
(* the rest has raced with a save.                                          *)
Old(q, written, races) ==
    \E K \in SUBSET written : q = InitialQuota + Sum(K) /\ written \ K \subseteq races

RowIs(R) ==
    R \subseteq Written /\ row = InitialQuota + Sum(R) /\ Written \ R \subseteq raced
HashCounts(R) ==
    redis.fields = "all" =>
        Counted(redis.quota, blurred, Written, Cached, NotCached, NotWritten, R)
ReaderCounts(r, R) ==
    reader[r].pc = "store" => Snapshot(reader[r].quota, reader[r].seen, Written, UnderWay, R)
SaverCounts(s, R) ==
    /\ saver[s].pc = "write" /\ Kind[s] = "update" =>
           Snapshot(saver[s].found, saver[s].seen, Written, UnderWay, R)
    /\ saver[s].pc = "store" => Snapshot(saver[s].quota, saver[s].seen, Written, UnderWay, R)
    /\ Saving(s) /\ Writes(s) => Old(saver[s].quota, Written, raced)

CountsBy(R) ==
    /\ RowIs(R) /\ HashCounts(R)
    /\ \A r \in Readers : ReaderCounts(r, R)
    /\ \A s \in Savers : SaverCounts(s, R)
Counts == \E R \in SUBSET Changes : CountsBy(R)
CacheInv == CacheTyped /\ AddsOwned /\ Counts

LEMMA CacheConstants ==
    /\ IsFiniteSet(Changes) /\ Delta \in [Changes -> Int] /\ InitialQuota \in Int
    /\ \A S : Sum(S) = SumFunctionOnSet(Delta, S)
<1>1. \A S : Sum(S) = SumFunctionOnSet(Delta, S)
  BY DEF Sum
<1> QED
  BY <1>1, QuotaCacheAssumption

LEMMA DeltaSum ==
    ASSUME NEW S \in SUBSET Changes
    PROVE  IsFiniteSet(S) /\ Sum(S) \in Int
<1>1. IsFiniteSet(S) /\ \A c \in S : Delta[c] \in Int
  BY CacheConstants, FS_Subset
<1>2. SumFunctionOnSet(Delta, S) \in Int
  BY <1>1, SumType
<1> QED
  BY <1>1, <1>2, CacheConstants

LEMMA DeltaAdd ==
    ASSUME NEW S \in SUBSET Changes, NEW T \in SUBSET Changes,
           S \cap T = {}
    PROVE  Sum(S \cup T) = Sum(S) + Sum(T)
<1>1. IsFiniteSet(S) /\ IsFiniteSet(T) /\ \A c \in S \cup T : Delta[c] \in Int
  BY CacheConstants, FS_Subset
<1>2. SumFunctionOnSet(Delta, S \cup T) =
          SumFunctionOnSet(Delta, S) + SumFunctionOnSet(Delta, T)
  BY <1>1, SumUnion
<1> QED
  BY <1>2, CacheConstants

LEMMA DeltaSingle ==
    ASSUME NEW c \in Changes
    PROVE  Sum({c}) = Delta[c]
<1>1. IsFiniteSet({c}) /\ \A x \in {c} : Delta[x] \in Int
  BY CacheConstants, FS_Singleton
<1>2. {c} \ {c} = {} /\ c \in {c} /\ Delta[c] \in Int
  BY <1>1
<1>3. SumFunctionOnSet(Delta, {c}) = Delta[c] + SumFunctionOnSet(Delta, {c} \ {c})
  BY <1>1, <1>2, SumRemove
<1>4. SumFunctionOnSet(Delta, {c} \ {c}) = 0
  BY <1>2, SumEmpty
<1> QED
  BY <1>2, <1>3, <1>4, CacheConstants

LEMMA DeltaOne ==
    ASSUME NEW S \in SUBSET Changes, NEW c \in Changes, c \notin S
    PROVE  Sum(S \cup {c}) = Sum(S) + Delta[c]
<1>1. {c} \in SUBSET Changes /\ S \cap {c} = {}
  OBVIOUS
<1> QED
  BY <1>1, DeltaSingle, DeltaAdd

(* What keeps a snapshot, an old quota and the hash. *)
LEMMA SnapshotKept ==
    ASSUME NEW q, NEW seen, NEW written, NEW underWay, NEW R,
           Snapshot(q, seen, written, underWay, R),
           NEW seen2, seen \subseteq seen2, NEW written2, written \subseteq written2,
           NEW underWay2, NEW R2,
           \A c \in Changes \ seen2 : c \notin underWay =>
               c \notin underWay2 /\ (c \in R2 <=> c \in R)
    PROVE  Snapshot(q, seen2, written2, underWay2, R2)
  BY DEF Snapshot

LEMMA OldKept ==
    ASSUME NEW q, NEW written, NEW races, Old(q, written, races),
           NEW written2, written \subseteq written2, NEW races2, races \subseteq races2,
           written2 \ written \subseteq races2
    PROVE  Old(q, written2, races2)
  BY DEF Old

LEMMA CountedKept ==
    ASSUME NEW q, NEW blur, NEW written, NEW cached, NEW notCached, NEW notWritten, NEW R,
           Counted(q, blur, written, cached, notCached, notWritten, R),
           NEW blur2, blur \subseteq blur2, NEW written2, written \subseteq written2,
           NEW cached2, cached \subseteq cached2, NEW notCached2, NEW notWritten2, NEW R2,
           \A c \in Changes \ blur2 :
               /\ c \in R \cap written => c \in R2
               /\ \/ /\ c \in notCached2 <=> c \in notCached
                     /\ c \in R2 \cup notWritten2 <=> c \in R \cup notWritten
                  \/ c \in notCached2 /\ c \in R2 \cup notWritten2 /\ c \notin written
    PROVE  Counted(q, blur2, written2, cached2, notCached2, notWritten2, R2)
<1>1. PICK K \in SUBSET written, J \in SUBSET cached :
          /\ q = InitialQuota + (Sum(K) + Sum(J))
          /\ \A c \in Changes \ blur :
                 /\ c \in K => c \in R
                 /\ c \in J \cup notCached <=> c \in (R \cup notWritten) \ K
  BY DEF Counted
<1>2. ASSUME NEW c \in Changes \ blur2
      PROVE  /\ c \in K => c \in R2
             /\ c \in J \cup notCached2 <=> c \in (R2 \cup notWritten2) \ K
  BY <1>1
<1>3. K \in SUBSET written2 /\ J \in SUBSET cached2
  OBVIOUS
<1> QED
  BY <1>1, <1>2, <1>3 DEF Counted

(* HSET of a snapshot. *)
LEMMA CountedStored ==
    ASSUME NEW q, NEW seen, NEW written \in SUBSET Changes, NEW underWay, NEW cached,
           NEW notCached, NEW notWritten, NEW R,
           Snapshot(q, seen, written, underWay, R),
           notCached \subseteq underWay, notWritten \subseteq underWay
    PROVE  Counted(q, seen, written, cached, notCached, notWritten, R)
<1>1. PICK K \in SUBSET written :
          /\ q = InitialQuota + Sum(K)
          /\ \A c \in Changes \ seen : c \notin underWay /\ (c \in R <=> c \in K)
  BY DEF Snapshot
<1>2. Sum({}) = 0
  BY SumEmpty, CacheConstants
<1>3. Sum(K) \in Int /\ InitialQuota \in Int
  BY DeltaSum, CacheConstants
<1>4. q = InitialQuota + (Sum(K) + Sum({}))
  BY <1>1, <1>2, <1>3
<1>5. \A c \in Changes \ seen :
          /\ c \in K => c \in R
          /\ c \in {} \cup notCached <=> c \in (R \cup notWritten) \ K
  BY <1>1
<1>6. {} \in SUBSET cached
  OBVIOUS
<1> QED
  BY <1>4, <1>5, <1>6 DEF Counted

(* HINCRBY of one change. *)
LEMMA CountedAdded ==
    ASSUME NEW q, NEW blur, NEW written \in SUBSET Changes, NEW cached \in SUBSET Changes,
           NEW notCached, NEW notWritten, NEW R,
           Counted(q, blur, written, cached, notCached, notWritten, R),
           NEW c \in Changes, c \notin cached, c \in notCached,
           NEW cached2, cached \cup {c} \subseteq cached2,
           NEW notCached2, notCached2 = notCached \ {c}
    PROVE  Counted(q + Delta[c], blur, written, cached2, notCached2, notWritten, R)
<1>1. PICK K \in SUBSET written, J \in SUBSET cached :
          /\ q = InitialQuota + (Sum(K) + Sum(J))
          /\ \A x \in Changes \ blur :
                 /\ x \in K => x \in R
                 /\ x \in J \cup notCached <=> x \in (R \cup notWritten) \ K
  BY DEF Counted
<1>2. Sum(J \cup {c}) = Sum(J) + Delta[c]
  BY DeltaOne
<1>3. /\ Sum(K) \in Int /\ Sum(J) \in Int
      /\ Delta[c] \in Int /\ InitialQuota \in Int
  BY DeltaSum, CacheConstants
<1>4. q + Delta[c] = InitialQuota + (Sum(K) + Sum(J \cup {c}))
  BY <1>1, <1>2, <1>3
<1>5. \A x \in Changes \ blur :
          /\ x \in K => x \in R
          /\ x \in (J \cup {c}) \cup notCached2 <=> x \in (R \cup notWritten) \ K
  BY <1>1
<1>6. J \cup {c} \in SUBSET cached2
  OBVIOUS
<1> QED
  BY <1>4, <1>5, <1>6 DEF Counted
-----------------------------------------------------------------------------
LEMMA NotedReaders ==
    ASSUME CacheTyped, NEW S \in SUBSET Changes
    PROVE  /\ NotedBy(reader, S) \in [Readers -> ReaderRecords]
           /\ \A r \in Readers :
                  /\ NotedBy(reader, S)[r].pc = reader[r].pc
                  /\ NotedBy(reader, S)[r].quota = reader[r].quota
                  /\ reader[r].pc # "idle" =>
                         NotedBy(reader, S)[r].seen = reader[r].seen \cup S
<1>1. DOMAIN reader = Readers /\ \A r \in Readers : reader[r] \in ReaderRecords
  BY DEF CacheTyped
<1>2. ASSUME NEW r \in Readers
      PROVE  /\ NotedBy(reader, S)[r] \in ReaderRecords
             /\ NotedBy(reader, S)[r].pc = reader[r].pc
             /\ NotedBy(reader, S)[r].quota = reader[r].quota
             /\ reader[r].pc # "idle" => NotedBy(reader, S)[r].seen = reader[r].seen \cup S
  BY <1>1 DEF NotedBy, ReaderRecords
<1>3. NotedBy(reader, S) \in [Readers -> ReaderRecords]
  BY <1>1, <1>2 DEF NotedBy
<1> QED
  BY <1>2, <1>3

LEMMA NotedSavers ==
    ASSUME CacheTyped, NEW S \in SUBSET Changes
    PROVE  /\ NotedBy(saver, S) \in [Savers -> SaverRecords]
           /\ \A s \in Savers :
                  /\ NotedBy(saver, S)[s].pc = saver[s].pc
                  /\ NotedBy(saver, S)[s].quota = saver[s].quota
                  /\ NotedBy(saver, S)[s].found = saver[s].found
                  /\ NotedBy(saver, S)[s].adds = saver[s].adds
                  /\ saver[s].pc # "idle" =>
                         NotedBy(saver, S)[s].seen = saver[s].seen \cup S
<1>1. DOMAIN saver = Savers /\ \A s \in Savers : saver[s] \in SaverRecords
  BY DEF CacheTyped
<1>2. ASSUME NEW s \in Savers
      PROVE  /\ NotedBy(saver, S)[s] \in SaverRecords
             /\ NotedBy(saver, S)[s].pc = saver[s].pc
             /\ NotedBy(saver, S)[s].quota = saver[s].quota
             /\ NotedBy(saver, S)[s].found = saver[s].found
             /\ NotedBy(saver, S)[s].adds = saver[s].adds
             /\ saver[s].pc # "idle" => NotedBy(saver, S)[s].seen = saver[s].seen \cup S
  BY <1>1 DEF NotedBy, SaverRecords
<1>3. NotedBy(saver, S) \in [Savers -> SaverRecords]
  BY <1>1, <1>2 DEF NotedBy
<1> QED
  BY <1>2, <1>3

(* CacheTyped after a step, by its parts. *)
LEMMA TypedAfter ==
    ASSUME row' \in Int,
           redis' \in [fields : {"none", "quota", "all"}, quota : Int, ttl : BOOLEAN],
           redis'.fields # "none" => redis'.ttl,
           progress' \in [Changes -> {"off", "todo", "now", "map", "taken", "saving", "done",
                                      "failed"}],
           cache' \in [Changes -> {"off", "ttl", "incr", "done"}],
           \A c \in Changes : progress'[c] = "off" <=> cache'[c] = "off",
           reader' \in [Readers -> ReaderRecords], saver' \in [Savers -> SaverRecords],
           blurred' \subseteq Changes, raced' \subseteq Changes,
           saves' \in 0 .. MaxSaves, errors' \in 0 .. MaxErrors
    PROVE  CacheTyped'
<1>1. \A r \in Readers : /\ reader'[r].pc \in {"idle", "store"}
                         /\ reader'[r].seen \subseteq Changes
  BY DEF ReaderRecords
<1>2. \A s \in Savers : /\ saver'[s].pc \in {"idle", "first", "write", "store"}
                        /\ saver'[s].adds \cup saver'[s].seen \subseteq Changes
  BY DEF SaverRecords
<1>3. CacheTypeOK'
  BY <1>1, <1>2 DEF CacheTypeOK
<1> QED
  BY <1>3 DEF CacheTyped, ReaderRecords, SaverRecords

LEMMA TypedNow ==
    ASSUME CacheTyped
    PROVE  /\ row \in Int
           /\ redis \in [fields : {"none", "quota", "all"}, quota : Int, ttl : BOOLEAN]
           /\ redis.fields # "none" => redis.ttl
           /\ progress \in [Changes -> {"off", "todo", "now", "map", "taken", "saving", "done",
                                        "failed"}]
           /\ cache \in [Changes -> {"off", "ttl", "incr", "done"}]
           /\ \A c \in Changes : progress[c] = "off" <=> cache[c] = "off"
           /\ reader \in [Readers -> ReaderRecords] /\ saver \in [Savers -> SaverRecords]
           /\ blurred \subseteq Changes /\ raced \subseteq Changes
           /\ saves \in 0 .. MaxSaves /\ errors \in 0 .. MaxErrors
           /\ \A s \in Savers : saver[s] \in SaverRecords
           /\ \A r \in Readers : reader[r] \in ReaderRecords
  BY DEF CacheTyped, CacheTypeOK

LEMMA SetTypes ==
    ASSUME CacheTyped
    PROVE  /\ Written \in SUBSET Changes /\ Cached \in SUBSET Changes
           /\ NotCached \in SUBSET Changes /\ NotWritten \in SUBSET Changes
           /\ UnderWay \in SUBSET Changes /\ InBatch \in SUBSET Changes
           /\ NotCached \subseteq UnderWay /\ NotWritten \subseteq UnderWay
           /\ Written \cap NotWritten = {} /\ Cached \cap NotCached = {}
           /\ Started = Written \cup NotWritten
  BY TypedNow DEF Written, Cached, NotCached, NotWritten, Started, UnderWay, InBatch

LEMMA AddsKept ==
    ASSUME CacheTyped, AddsOwned,
           \A s \in Savers : saver'[s].pc = saver[s].pc /\ saver'[s].adds = saver[s].adds,
           \A c \in Changes : progress[c] = "saving" /\ cache[c] = "done" =>
               progress'[c] = "saving" /\ cache'[c] = "done"
    PROVE  AddsOwned'
<1>1. \A s \in Savers : saver[s].adds \subseteq Changes
  BY TypedNow DEF SaverRecords
<1>2. \A s \in Savers : \A c \in saver'[s].adds : progress'[c] = "saving" /\ cache'[c] = "done"
  BY <1>1 DEF AddsOwned
<1>3. \A s, t \in Savers : s # t => saver'[s].adds \cap saver'[t].adds = {}
  BY DEF AddsOwned
<1>4. \A s \in Savers : /\ Kind[s] = "update" => saver'[s].adds = {}
                        /\ saver'[s].pc \in {"idle", "store"} => saver'[s].adds = {}
  BY DEF AddsOwned
<1> QED
  BY <1>2, <1>3, <1>4 DEF AddsOwned

(* Steps of changes, of the batch loop and of readers. *)
LEMMA ChangeTyped ==
    ASSUME CacheTyped, AddsOwned, NEW c \in Changes,
           \/ \E direct \in BOOLEAN : StartChange(c, direct)
           \/ WriteChange(c) \/ WriteChangeFails(c) \/ CheckIn(c) \/ Credit(c)
           \/ ReadTTL(c) \/ HIncrBy(c) \/ HIncrByFails(c)
    PROVE  CacheTyped' /\ AddsOwned'
<1>1. Delta[c] \in Int /\ MaxErrors \in Nat /\ row + Delta[c] \in Int
  BY CacheConstants, QuotaCacheAssumption, TypedNow
<1>2. /\ reader' \in [Readers -> ReaderRecords] /\ saver' \in [Savers -> SaverRecords]
      /\ \A s \in Savers : saver'[s].pc = saver[s].pc /\ saver'[s].adds = saver[s].adds
  <2>1. /\ {c} \in SUBSET Changes
        /\ \/ reader' = NotedBy(reader, {c}) /\ saver' = NotedBy(saver, {c})
           \/ UNCHANGED <<reader, saver>>
    BY DEF StartChange, WriteChange, WriteChangeFails, CheckIn, Credit, ReadTTL, HIncrBy,
           HIncrByFails, Noted
  <2> QED
    BY <2>1, TypedNow, NotedReaders, NotedSavers
<1>3. row' \in Int /\ raced' \subseteq Changes /\ blurred' \subseteq Changes /\ UNCHANGED saves
  BY <1>1, TypedNow DEF StartChange, WriteChange, WriteChangeFails, CheckIn, Credit, ReadTTL,
     HIncrBy, HIncrByFails, RacedWith
<1>4. errors' \in 0 .. MaxErrors
  BY <1>1, TypedNow DEF StartChange, WriteChange, WriteChangeFails, CheckIn, Credit, ReadTTL,
     HIncrBy, HIncrByFails, Error
<1>5. /\ redis' \in [fields : {"none", "quota", "all"}, quota : Int, ttl : BOOLEAN]
      /\ redis'.fields # "none" => redis'.ttl
  <2>1. CASE HIncrBy(c)
    <3>1. redis' = [fields |-> IF redis.fields = "none" THEN "quota" ELSE redis.fields,
                    quota |-> redis.quota + Delta[c], ttl |-> TRUE]
      BY <2>1, TypedNow DEF HIncrBy
    <3> QED
      BY <1>1, <3>1, TypedNow
  <2>2. CASE ~HIncrBy(c)
    BY <2>2, TypedNow DEF StartChange, WriteChange, WriteChangeFails, CheckIn, Credit, ReadTTL,
       HIncrByFails
  <2> QED
    BY <2>1, <2>2
<1>6. /\ progress' \in [Changes -> {"off", "todo", "now", "map", "taken", "saving", "done",
                                    "failed"}]
      /\ cache' \in [Changes -> {"off", "ttl", "incr", "done"}]
      /\ \A x \in Changes : progress'[x] = "off" <=> cache'[x] = "off"
  BY TypedNow DEF StartChange, WriteChange, WriteChangeFails, CheckIn, Credit, ReadTTL, HIncrBy,
     HIncrByFails
<1>7. \A x \in Changes : progress[x] = "saving" /\ cache[x] = "done" =>
          progress'[x] = "saving" /\ cache'[x] = "done"
  BY TypedNow DEF StartChange, WriteChange, WriteChangeFails, CheckIn, Credit, ReadTTL, HIncrBy,
     HIncrByFails
<1>8. CacheTyped'
  BY <1>2, <1>3, <1>4, <1>5, <1>6, TypedNow, TypedAfter
<1> QED
  BY <1>2, <1>7, <1>8, AddsKept

LEMMA BatchTyped ==
    ASSUME CacheTyped, AddsOwned, TakeMap \/ WriteMap \/ WriteMapFails
    PROVE  CacheTyped' /\ AddsOwned'
<1>1. /\ MaxErrors \in Nat /\ InBatch \in SUBSET Changes /\ row + Sum(InBatch) \in Int
  BY QuotaCacheAssumption, SetTypes, DeltaSum, TypedNow
<1>2. UNCHANGED <<redis, cache, reader, saver, saves>>
  BY DEF TakeMap, WriteMap, WriteMapFails
<1>3. row' \in Int /\ raced' \subseteq Changes /\ blurred' \subseteq Changes
  BY <1>1, TypedNow DEF TakeMap, WriteMap, WriteMapFails, RacedWith
<1>4. errors' \in 0 .. MaxErrors
  BY <1>1, TypedNow DEF TakeMap, WriteMap, WriteMapFails, Error
<1>5. /\ progress' \in [Changes -> {"off", "todo", "now", "map", "taken", "saving", "done",
                                    "failed"}]
      /\ \A x \in Changes : progress'[x] = "off" <=> progress[x] = "off"
      /\ \A x \in Changes : progress[x] = "saving" => progress'[x] = "saving"
  BY TypedNow DEF TakeMap, WriteMap, WriteMapFails
<1>6. CacheTyped'
  BY <1>2, <1>3, <1>4, <1>5, TypedNow, TypedAfter
<1> QED
  BY <1>2, <1>5, <1>6, AddsKept

LEMMA ReaderTyped ==
    ASSUME CacheTyped, AddsOwned,
           \/ \E r \in Readers : ReadRow(r) \/ StoreUser(r) \/ StoreUserFails(r)
           \/ Expire
    PROVE  CacheTyped' /\ AddsOwned'
<1>1. MaxErrors \in Nat /\ UnderWay \in SUBSET Changes
  BY QuotaCacheAssumption, SetTypes
<1>2. UNCHANGED <<row, progress, cache, saver, raced, saves>>
  BY DEF ReadRow, StoreUser, StoreUserFails, Expire
<1>3. errors' \in 0 .. MaxErrors
  BY <1>1, TypedNow DEF ReadRow, StoreUser, StoreUserFails, Expire, Error
<1>4. IdleReader \in ReaderRecords
  BY DEF IdleReader, ReaderRecords
<1>5. /\ reader' \in [Readers -> ReaderRecords] /\ blurred' \subseteq Changes
      /\ redis' \in [fields : {"none", "quota", "all"}, quota : Int, ttl : BOOLEAN]
      /\ redis'.fields # "none" => redis'.ttl
  <2>1. ASSUME NEW r \in Readers, ReadRow(r) PROVE <1>5!:
    <3>1. [pc |-> "store", quota |-> row, seen |-> UnderWay] \in ReaderRecords
      BY <1>1, TypedNow DEF ReaderRecords
    <3> QED
      BY <2>1, <3>1, TypedNow DEF ReadRow
  <2>2. ASSUME NEW r \in Readers, StoreUser(r) PROVE <1>5!:
    BY <1>4, <2>2, TypedNow DEF StoreUser, HSetObj, ReaderRecords
  <2>3. ASSUME NEW r \in Readers, StoreUserFails(r) PROVE <1>5!:
    BY <1>4, <2>3, TypedNow DEF StoreUserFails
  <2>4. CASE Expire
    BY <2>4, TypedNow DEF Expire, NoHash
  <2> QED
    BY <2>1, <2>2, <2>3, <2>4
<1>6. CacheTyped'
  BY <1>2, <1>3, <1>5, TypedNow, TypedAfter
<1> QED
  BY <1>2, <1>6, AddsKept

(* A save reads the row: what it brings is new, so no other save has it. *)
LEMMA SaveReadTyped ==
    ASSUME CacheTyped, AddsOwned, NEW s \in Savers, NEW adds \in SUBSET Changes,
           SaveRead(s, adds)
    PROVE  CacheTyped' /\ AddsOwned'
<1>1. MaxSaves \in Nat /\ UnderWay \in SUBSET Changes
  BY QuotaCacheAssumption, SetTypes
<1>2. PICK p : /\ p \in SaverRecords /\ p.adds = adds /\ p.pc \in {"first", "write"}
               /\ saver' = [NotedBy(saver, adds) EXCEPT ![s] = p]
  <2>1. PICK quota \in {row, 0} :
            saver' = [NotedBy(saver, adds) EXCEPT ![s] =
                        [pc |-> IF Kind[s] = "update" THEN "first" ELSE "write",
                         quota |-> quota, found |-> 0, adds |-> adds, seen |-> UnderWay \cup adds]]
    BY DEF SaveRead
  <2> DEFINE new == [pc |-> IF Kind[s] = "update" THEN "first" ELSE "write",
                     quota |-> quota, found |-> 0, adds |-> adds, seen |-> UnderWay \cup adds]
  <2>2. new \in SaverRecords /\ new.adds = adds /\ new.pc \in {"first", "write"}
    BY <1>1, TypedNow DEF SaverRecords
  <2> QED
    BY <2>1, <2>2
<1>3. /\ saver' \in [Savers -> SaverRecords] /\ reader' \in [Readers -> ReaderRecords]
      /\ saver'[s].adds = adds /\ saver'[s].pc \in {"first", "write"}
      /\ \A t \in Savers \ {s} : saver'[t].adds = saver[t].adds /\ saver'[t].pc = saver[t].pc
  <2>1. reader' = NotedBy(reader, adds)
    BY DEF SaveRead
  <2> QED
    BY <1>2, <2>1, NotedSavers, NotedReaders
<1>4. /\ saves' \in 0 .. MaxSaves /\ UNCHANGED <<row, redis, raced, errors>>
      /\ blurred' \subseteq Changes
  BY <1>1, TypedNow DEF SaveRead
<1>5. /\ progress' \in [Changes -> {"off", "todo", "now", "map", "taken", "saving", "done",
                                    "failed"}]
      /\ cache' \in [Changes -> {"off", "ttl", "incr", "done"}]
      /\ \A x \in Changes : progress'[x] = "off" <=> cache'[x] = "off"
      /\ \A x \in adds : progress[x] = "off" /\ progress'[x] = "saving" /\ cache'[x] = "done"
      /\ \A x \in Changes \ adds : progress'[x] = progress[x] /\ cache'[x] = cache[x]
  BY TypedNow DEF SaveRead
<1>6. CacheTyped'
  BY <1>3, <1>4, <1>5, TypedNow, TypedAfter
<1>7. \A t \in Savers : saver[t].adds \subseteq Changes /\ saver[t].adds \cap adds = {}
  BY <1>5, TypedNow DEF AddsOwned, SaverRecords
<1>8. \A t \in Savers : \A c \in saver'[t].adds : progress'[c] = "saving" /\ cache'[c] = "done"
  BY <1>3, <1>5, <1>7 DEF AddsOwned
<1>9. \A t, u \in Savers : t # u => saver'[t].adds \cap saver'[u].adds = {}
  BY <1>3, <1>7 DEF AddsOwned
<1>10. \A t \in Savers : /\ Kind[t] = "update" => saver'[t].adds = {}
                         /\ saver'[t].pc \in {"idle", "store"} => saver'[t].adds = {}
  <2>1. Kind[s] = "update" => adds = {}
    BY DEF SaveRead
  <2> QED
    BY <1>3, <2>1 DEF AddsOwned
<1> QED
  BY <1>6, <1>8, <1>9, <1>10 DEF AddsOwned

(* A save gives up what it brought: it is written, or it failed. *)
LEMMA SaveTyped ==
    ASSUME CacheTyped, AddsOwned, NEW s \in Savers,
           SaveFirst(s) \/ SaveWrite(s) \/ SaveStore(s) \/ SaveFails(s)
    PROVE  CacheTyped' /\ AddsOwned'
<1>1. /\ MaxErrors \in Nat /\ UnderWay \in SUBSET Changes /\ raced \in SUBSET Changes
      /\ saver[s] \in SaverRecords /\ IdleSaver \in SaverRecords
      /\ saver[s].adds \in SUBSET Changes
  BY QuotaCacheAssumption, SetTypes, TypedNow DEF IdleSaver, SaverRecords
<1>2. SavedQuota(s) \in Int
  BY <1>1, DeltaSum DEF SavedQuota, SaverRecords
<1>3. /\ saver' \in [Savers -> SaverRecords] /\ reader' \in [Readers -> ReaderRecords]
      /\ \A t \in Savers \ {s} : saver'[t].adds = saver[t].adds /\ saver'[t].pc = saver[t].pc
      /\ saver'[s].adds = {} \/ (saver'[s].adds = saver[s].adds /\ saver'[s].pc = "write"
                                    /\ UNCHANGED <<progress, cache>>)
  <2>1. CASE SaveFirst(s)
    <3>1. saver'[s] = [saver[s] EXCEPT !.pc = "write", !.found = row, !.seen = UnderWay]
      BY <2>1, TypedNow DEF SaveFirst
    <3>2. [saver[s] EXCEPT !.pc = "write", !.found = row, !.seen = UnderWay] \in SaverRecords
      BY <1>1, TypedNow DEF SaverRecords
    <3>3. /\ saver' = [saver EXCEPT ![s] = [saver[s] EXCEPT !.pc = "write", !.found = row,
                                                           !.seen = UnderWay]]
          /\ UNCHANGED <<reader, progress, cache>>
      BY <2>1, TypedNow DEF SaveFirst
    <3>4. saver' \in [Savers -> SaverRecords]
      BY <3>2, <3>3, TypedNow
    <3>5. saver'[s].adds = saver[s].adds /\ saver'[s].pc = "write"
      BY <1>1, <3>1 DEF SaverRecords
    <3> QED
      BY <3>3, <3>4, <3>5, TypedNow
  <2>2. CASE SaveWrite(s)
    <3>1. PICK S : /\ S \in SUBSET Changes /\ reader' = NotedBy(reader, S)
                   /\ saver' = [NotedBy(saver, S) EXCEPT ![s] =
                        IF Kind[s] = "save" THEN IdleSaver
                        ELSE [pc |-> "store", quota |-> SavedQuota(s), found |-> 0, adds |-> {},
                              seen |-> IF Writes(s) THEN UnderWay \ saver[s].adds
                                       ELSE saver[s].seen]]
      BY <1>1, <2>2 DEF SaveWrite
    <3>2. PICK p : /\ p \in SaverRecords /\ p.adds = {}
                   /\ saver' = [NotedBy(saver, S) EXCEPT ![s] = p]
      <4> DEFINE new == [pc |-> "store", quota |-> SavedQuota(s), found |-> 0, adds |-> {},
                         seen |-> IF Writes(s) THEN UnderWay \ saver[s].adds
                                  ELSE saver[s].seen]
      <4>1. new \in SaverRecords /\ new.adds = {}
        BY <1>1, <1>2 DEF SaverRecords
      <4>2. IdleSaver.adds = {}
        BY DEF IdleSaver
      <4> QED
        BY <1>1, <3>1, <4>1, <4>2
    <3>3. \A t \in Savers \ {s} : saver'[t] = NotedBy(saver, S)[t]
      BY <3>1, <3>2, NotedSavers
    <3>4. saver' \in [Savers -> SaverRecords] /\ reader' \in [Readers -> ReaderRecords]
      <4>1. /\ NotedBy(saver, S) \in [Savers -> SaverRecords]
            /\ NotedBy(reader, S) \in [Readers -> ReaderRecords]
        BY <3>1, NotedSavers, NotedReaders
      <4> QED
        BY <3>1, <3>2, <4>1
    <3>5. saver'[s].adds = {}
      BY <3>1, <3>2, NotedSavers
    <3>6. \A t \in Savers \ {s} : saver'[t].adds = saver[t].adds /\ saver'[t].pc = saver[t].pc
      BY <3>1, <3>3, NotedSavers
    <3> QED
      BY <3>4, <3>5, <3>6
  <2>3. CASE SaveStore(s) \/ SaveFails(s)
    <3>1. saver' = [saver EXCEPT ![s] = IdleSaver] /\ UNCHANGED reader /\ IdleSaver.adds = {}
      BY <2>3 DEF SaveStore, SaveFails, IdleSaver
    <3> QED
      BY <1>1, <3>1, TypedNow
  <2> QED
    BY <2>1, <2>2, <2>3
<1>4. row' \in Int /\ raced' \subseteq Changes /\ blurred' \subseteq Changes /\ UNCHANGED saves
  BY <1>1, <1>2, TypedNow DEF SaveFirst, SaveWrite, SaveStore, SaveFails, HSetObj, RacedWith,
     SaverRecords
<1>5. errors' \in 0 .. MaxErrors
  BY <1>1, TypedNow DEF SaveFirst, SaveWrite, SaveStore, SaveFails, Error
<1>6. /\ redis' \in [fields : {"none", "quota", "all"}, quota : Int, ttl : BOOLEAN]
      /\ redis'.fields # "none" => redis'.ttl
  <2>1. CASE SaveStore(s)
    <3>1. redis' = [fields |-> "all", quota |-> saver[s].quota, ttl |-> TRUE]
      BY <2>1 DEF SaveStore, HSetObj
    <3>2. saver[s].quota \in Int
      BY <1>1 DEF SaverRecords
    <3> QED
      BY <3>1, <3>2
  <2>2. CASE SaveFirst(s) \/ SaveWrite(s) \/ SaveFails(s)
    BY <2>2, TypedNow DEF SaveFirst, SaveWrite, SaveFails
  <2> QED
    BY <2>1, <2>2
<1>7. /\ progress' \in [Changes -> {"off", "todo", "now", "map", "taken", "saving", "done",
                                    "failed"}]
      /\ \A c \in saver[s].adds : progress[c] # "off" /\ progress'[c] # "off"
      /\ \A c \in Changes \ saver[s].adds : progress'[c] = progress[c]
      /\ UNCHANGED cache
  BY <1>1, TypedNow DEF SaveFirst, SaveWrite, SaveStore, SaveFails, AddsOwned
<1>8. CacheTyped'
  BY <1>3, <1>4, <1>5, <1>6, <1>7, TypedNow, TypedAfter
<1>9. \A t \in Savers : saver[t].adds \subseteq Changes
  BY TypedNow DEF SaverRecords
<1>10. \A t \in Savers : \A c \in saver'[t].adds : progress'[c] = "saving" /\ cache'[c] = "done"
  BY <1>3, <1>7, <1>9 DEF AddsOwned
<1>11. \A t, u \in Savers : t # u => saver'[t].adds \cap saver'[u].adds = {}
  BY <1>3 DEF AddsOwned
<1>12. \A t \in Savers : /\ Kind[t] = "update" => saver'[t].adds = {}
                         /\ saver'[t].pc \in {"idle", "store"} => saver'[t].adds = {}
  BY <1>3 DEF AddsOwned
<1> QED
  BY <1>8, <1>10, <1>11, <1>12 DEF AddsOwned

-----------------------------------------------------------------------------
(* Who holds a quota keeps what it counts when the noted changes N are the only *)
(* ones to get under way, or to reach or leave the row, without having been     *)
(* under way before.                                                            *)
Calm(N, R, R2) ==
    /\ Written \subseteq Written' /\ raced \subseteq raced'
    /\ \A c \in Changes \ N : c \notin UnderWay =>
           c \notin UnderWay' /\ (c \in R2 <=> c \in R)

LEMMA ReaderKept ==
    ASSUME NEW R, NEW R2, NEW N, NEW r \in Readers, ReaderCounts(r, R), Calm(N, R, R2),
           reader'[r].pc = "store" =>
               /\ reader[r].pc = "store" /\ reader'[r].quota = reader[r].quota
               /\ reader'[r].seen = reader[r].seen \cup N
    PROVE  ReaderCounts(r, R2)'
<1> SUFFICES ASSUME reader'[r].pc = "store"
             PROVE  Snapshot(reader'[r].quota, reader'[r].seen, Written', UnderWay', R2)
  BY DEF ReaderCounts
<1>1. Snapshot(reader[r].quota, reader[r].seen, Written, UnderWay, R)
  BY DEF ReaderCounts
<1> QED
  BY <1>1, SnapshotKept DEF Calm

LEMMA SaverKept ==
    ASSUME NEW R, NEW R2, NEW N, NEW s \in Savers, SaverCounts(s, R), Calm(N, R, R2),
           Saving(s) => Written' \ Written \subseteq raced',
           saver'[s].pc = saver[s].pc, saver'[s].quota = saver[s].quota,
           saver'[s].found = saver[s].found,
           saver[s].pc # "idle" => saver'[s].seen = saver[s].seen \cup N
    PROVE  SaverCounts(s, R2)'
<1>1. ASSUME NEW q, saver[s].pc # "idle", Snapshot(q, saver[s].seen, Written, UnderWay, R)
      PROVE  Snapshot(q, saver'[s].seen, Written', UnderWay', R2)
  BY <1>1, SnapshotKept DEF Calm
<1>2. ASSUME saver'[s].pc = "write", Kind[s] = "update"
      PROVE  Snapshot(saver'[s].found, saver'[s].seen, Written', UnderWay', R2)
  BY <1>1, <1>2 DEF SaverCounts
<1>3. ASSUME saver'[s].pc = "store"
      PROVE  Snapshot(saver'[s].quota, saver'[s].seen, Written', UnderWay', R2)
  BY <1>1, <1>3 DEF SaverCounts
<1>4. ASSUME Saving(s)', Writes(s)'
      PROVE  Old(saver'[s].quota, Written', raced')
  <2>1. Saving(s) /\ Writes(s)
    BY <1>4 DEF Saving, Writes
  <2>2. Old(saver[s].quota, Written, raced)
    BY <2>1 DEF SaverCounts
  <2> QED
    BY <2>1, <2>2, OldKept DEF Calm
<1> QED
  BY <1>2, <1>3, <1>4 DEF SaverCounts

(* A change of the quota moves along: the hash is left alone, and a change that *)
(* is not blurred is counted as before, or it has just started.                 *)
LEMMA MovesKept ==
    ASSUME CacheTyped, NEW R, CountsBy(R), NEW R2, NEW N \in SUBSET Changes,
           Calm(N, R, R2), RowIs(R2)', UNCHANGED redis,
           blurred \subseteq blurred', Cached \subseteq Cached',
           (\E s \in Savers : Saving(s)) => Written' \ Written \subseteq raced',
           \A c \in Changes \ blurred' :
               /\ c \in R => c \in R2
               /\ \/ /\ c \in NotCached' <=> c \in NotCached
                     /\ c \in R2 \cup NotWritten' <=> c \in R \cup NotWritten
                  \/ c \in NotCached' /\ c \in R2 \cup NotWritten' /\ c \notin Written,
           \/ reader' = NotedBy(reader, N) /\ saver' = NotedBy(saver, N)
           \/ N = {} /\ UNCHANGED <<reader, saver>>
    PROVE  CountsBy(R2)'
<1>1. HashCounts(R2)'
  <2> SUFFICES ASSUME redis.fields = "all"
               PROVE  Counted(redis.quota, blurred', Written', Cached', NotCached',
                              NotWritten', R2)
    BY DEF HashCounts
  <2>1. Counted(redis.quota, blurred, Written, Cached, NotCached, NotWritten, R)
    BY DEF CountsBy, HashCounts
  <2>2. Written \subseteq Written'
    BY DEF Calm
  <2> QED
    BY <2>1, <2>2, CountedKept
<1>2. ASSUME NEW r \in Readers
      PROVE  ReaderCounts(r, R2)'
  <2>1. reader'[r].pc = "store" =>
            /\ reader[r].pc = "store" /\ reader'[r].quota = reader[r].quota
            /\ reader'[r].seen = reader[r].seen \cup N
    <3>1. CASE reader' = NotedBy(reader, N)
      BY <3>1, NotedReaders
    <3>2. CASE N = {} /\ UNCHANGED <<reader, saver>>
      BY <3>2
    <3> QED
      BY <3>1, <3>2
  <2> QED
    BY <2>1, ReaderKept DEF CountsBy
<1>3. ASSUME NEW s \in Savers
      PROVE  SaverCounts(s, R2)'
  <2>1. /\ saver'[s].pc = saver[s].pc /\ saver'[s].quota = saver[s].quota
        /\ saver'[s].found = saver[s].found
        /\ saver[s].pc # "idle" => saver'[s].seen = saver[s].seen \cup N
    <3>1. CASE saver' = NotedBy(saver, N)
      BY <3>1, NotedSavers
    <3>2. CASE N = {} /\ UNCHANGED <<reader, saver>>
      BY <3>2
    <3> QED
      BY <3>1, <3>2
  <2> QED
    BY <2>1, SaverKept DEF CountsBy
<1> QED
  BY <1>1, <1>2, <1>3 DEF CountsBy

(* More changes in the row. *)
LEMMA RowGrows ==
    ASSUME CacheTyped, NEW R, RowIs(R), NEW S \in SUBSET Changes, S \cap Written = {},
           row' = row + Sum(S), Written' = Written \cup S, raced \subseteq raced'
    PROVE  RowIs(R \cup S)'
<1>1. R \in SUBSET Changes /\ R \cap S = {}
  BY SetTypes DEF RowIs
<1>2. Sum(R \cup S) = Sum(R) + Sum(S) /\ Sum(R) \in Int /\ Sum(S) \in Int /\ InitialQuota \in Int
  BY <1>1, DeltaAdd, DeltaSum, CacheConstants
<1>3. row' = InitialQuota + Sum(R \cup S)
  BY <1>2 DEF RowIs
<1>4. R \cup S \subseteq Written' /\ Written' \ (R \cup S) \subseteq raced'
  BY DEF RowIs
<1> QED
  BY <1>3, <1>4 DEF RowIs

LEMMA RowStays ==
    ASSUME NEW R, RowIs(R), UNCHANGED row, Written' = Written, raced \subseteq raced'
    PROVE  RowIs(R)'
  BY DEF RowIs

LEMMA CountsAfter ==
    ASSUME CacheTyped', NEW R, CountsBy(R)'
    PROVE  Counts'
<1>1. R \in SUBSET Changes
  BY DEF CountsBy, RowIs, Written
<1> QED
  BY <1>1 DEF Counts

(* A change starts: StartChange. *)
LEMMA StartCounts ==
    ASSUME CacheTyped, CacheTyped', Counts, NEW c \in Changes, NEW direct \in BOOLEAN,
           StartChange(c, direct)
    PROVE  Counts'
<1>1. PICK R \in SUBSET Changes : CountsBy(R)
  BY DEF Counts
<1>2. /\ Written' = Written /\ Cached' = Cached /\ c \notin Written
      /\ NotCached' = NotCached \cup {c} /\ NotWritten' = NotWritten \cup {c}
      /\ UnderWay' = UnderWay \cup {c}
  BY TypedNow DEF StartChange, Written, Cached, NotCached, NotWritten, UnderWay
<1>3. /\ UNCHANGED <<row, redis, blurred, raced>> /\ {c} \in SUBSET Changes
      /\ reader' = NotedBy(reader, {c}) /\ saver' = NotedBy(saver, {c})
  BY DEF StartChange, Noted
<1>4. RowIs(R)'
  BY <1>1, <1>2, <1>3, RowStays DEF CountsBy
<1>5. Calm({c}, R, R)
  BY <1>2, <1>3 DEF Calm
<1>6. CountsBy(R)'
  BY <1>1, <1>2, <1>3, <1>4, <1>5, MovesKept
<1> QED
  BY <1>6, CountsAfter

(* A transaction brings a change to the row: CheckIn and Credit. *)
LEMMA CommitCounts ==
    ASSUME CacheTyped, CacheTyped', Counts, NEW c \in Changes, CheckIn(c) \/ Credit(c)
    PROVE  Counts'
<1>1. PICK R \in SUBSET Changes : CountsBy(R)
  BY DEF Counts
<1>2. PICK R2 : R2 = R \cup {c}
  OBVIOUS
<1>3. /\ Written' = Written \cup {c} /\ Cached \subseteq Cached' /\ c \notin Written
      /\ NotWritten' = NotWritten /\ c \notin NotWritten
      /\ \A x \in Changes \ {c} : /\ x \in NotCached' <=> x \in NotCached
                                  /\ x \in UnderWay' <=> x \in UnderWay
      /\ c \in NotCached' \/ c \in blurred'
  BY TypedNow DEF CheckIn, Credit, Written, Cached, NotCached, NotWritten, UnderWay
<1>4. /\ UNCHANGED redis /\ {c} \in SUBSET Changes /\ blurred \subseteq blurred'
      /\ raced \subseteq raced' /\ row' = row + Delta[c]
      /\ (\E s \in Savers : Saving(s)) => c \in raced'
      /\ reader' = NotedBy(reader, {c}) /\ saver' = NotedBy(saver, {c})
  BY DEF CheckIn, Credit, Noted, RacedWith
<1>5. RowIs(R2)'
  <2>1. Sum({c}) = Delta[c]
    BY DeltaSingle
  <2> QED
    BY <1>1, <1>2, <1>3, <1>4, <2>1, RowGrows DEF CountsBy
<1>6. Calm({c}, R, R2)
  BY <1>2, <1>3, <1>4 DEF Calm
<1>7. CountsBy(R2)'
  BY <1>1, <1>2, <1>3, <1>4, <1>5, <1>6, MovesKept
<1> QED
  BY <1>7, CountsAfter

(* Changes S on their way reach the row: WriteChange and WriteMap. *)
LEMMA WriteCounts ==
    ASSUME CacheTyped, CacheTyped', Counts, NEW S \in SUBSET NotWritten,
           row' = row + Sum(S), UNCHANGED <<redis, cache, reader, saver, blurred>>,
           RacedWith(S, Savers), Written' = Written \cup S, NotWritten' = NotWritten \ S,
           UnderWay' \subseteq UnderWay
    PROVE  Counts'
<1>1. PICK R \in SUBSET Changes : CountsBy(R)
  BY DEF Counts
<1>2. PICK R2 : R2 = R \cup S
  OBVIOUS
<1>3. /\ S \in SUBSET Changes /\ S \cap Written = {} /\ S \subseteq UnderWay
      /\ Cached' = Cached /\ NotCached' = NotCached
  BY SetTypes DEF Cached, NotCached
<1>4. raced \subseteq raced' /\ ((\E s \in Savers : Saving(s)) => S \subseteq raced')
  BY DEF RacedWith
<1>5. RowIs(R2)'
  BY <1>1, <1>2, <1>3, <1>4, RowGrows DEF CountsBy
<1>6. Calm({}, R, R2)
  BY <1>2, <1>3, <1>4 DEF Calm
<1>7. (\E s \in Savers : Saving(s)) => Written' \ Written \subseteq raced'
  BY <1>4
<1>8. \A c \in Changes : /\ c \in R => c \in R2
                         /\ c \in R2 \cup NotWritten' <=> c \in R \cup NotWritten
  BY <1>2
<1>9. {} \in SUBSET Changes
  OBVIOUS
<1>10. CountsBy(R2)'
  BY <1>1, <1>3, <1>5, <1>6, <1>7, <1>8, <1>9, MovesKept
<1> QED
  BY <1>10, CountsAfter

LEMMA WriteChangeCounts ==
    ASSUME CacheTyped, CacheTyped', Counts, NEW c \in Changes, WriteChange(c)
    PROVE  Counts'
<1>1. UNCHANGED <<redis, cache, reader, saver, blurred>>
  BY DEF WriteChange
<1>2. CASE progress[c] = "todo"
  <2>1. /\ UNCHANGED <<row, raced>> /\ Written' = Written \cup {} /\ UnderWay' \subseteq UnderWay
        /\ NotWritten' = NotWritten \ {} /\ {} \in SUBSET NotWritten
    BY <1>2, TypedNow DEF WriteChange, Written, NotWritten, UnderWay
  <2>2. row' = row + Sum({}) /\ RacedWith({}, Savers)
    BY <2>1, SumEmpty, CacheConstants, TypedNow DEF RacedWith
  <2> QED
    BY <1>1, <2>1, <2>2, WriteCounts
<1>3. CASE progress[c] = "now"
  <2>1. /\ Written' = Written \cup {c} /\ UnderWay' \subseteq UnderWay
        /\ NotWritten' = NotWritten \ {c} /\ {c} \in SUBSET NotWritten
    BY <1>3, TypedNow DEF WriteChange, Written, NotWritten, UnderWay
  <2>2. row' = row + Sum({c}) /\ RacedWith({c}, Savers)
    BY <1>3, DeltaSingle DEF WriteChange
  <2> QED
    BY <1>1, <2>1, <2>2, WriteCounts
<1> QED
  BY <1>2, <1>3 DEF WriteChange

LEMMA WriteMapCounts ==
    ASSUME CacheTyped, CacheTyped', Counts, WriteMap
    PROVE  Counts'
<1>1. /\ Written' = Written \cup InBatch /\ UnderWay' \subseteq UnderWay
      /\ NotWritten' = NotWritten \ InBatch /\ InBatch \in SUBSET NotWritten
  BY TypedNow DEF WriteMap, Written, NotWritten, UnderWay, InBatch
<1>2. /\ row' = row + Sum(InBatch) /\ RacedWith(InBatch, Savers)
      /\ UNCHANGED <<redis, cache, reader, saver, blurred>>
  BY DEF WriteMap
<1> QED
  BY <1>1, <1>2, WriteCounts

(* A change goes on without row or Redis, or is dropped and blurred. *)
LEMMA DropCounts ==
    ASSUME CacheTyped, CacheTyped', Counts,
           \/ \E c \in Changes : WriteChangeFails(c) \/ ReadTTL(c) \/ HIncrByFails(c)
           \/ TakeMap \/ WriteMapFails
    PROVE  Counts'
<1> DEFINE Quiet ==
        /\ UNCHANGED <<row, redis, reader, saver, raced>> /\ Written' = Written
        /\ blurred \subseteq blurred' /\ Cached \subseteq Cached'
        /\ \A x \in Changes : x \notin UnderWay => x \notin UnderWay'
        /\ \A x \in Changes \ blurred' :
               /\ x \in NotCached' <=> x \in NotCached
               /\ x \in NotWritten' <=> x \in NotWritten
<1>1. Quiet
  <2> USE TypedNow DEF Written, Cached, NotCached, NotWritten, UnderWay
  <2>1. ASSUME NEW c \in Changes, WriteChangeFails(c) PROVE Quiet
    BY <2>1 DEF WriteChangeFails
  <2>2. ASSUME NEW c \in Changes, ReadTTL(c) PROVE Quiet
    BY <2>2 DEF ReadTTL
  <2>3. ASSUME NEW c \in Changes, HIncrByFails(c) PROVE Quiet
    BY <2>3 DEF HIncrByFails
  <2>4. CASE TakeMap
    BY <2>4 DEF TakeMap
  <2>5. CASE WriteMapFails
    BY <2>5 DEF WriteMapFails, InBatch
  <2> QED
    BY <2>1, <2>2, <2>3, <2>4, <2>5
<1>2. PICK R \in SUBSET Changes : CountsBy(R)
  BY DEF Counts
<1>3. RowIs(R)'
  BY <1>1, <1>2, RowStays DEF CountsBy
<1>4. Calm({}, R, R)
  BY <1>1 DEF Calm
<1>5. {} \in SUBSET Changes
  OBVIOUS
<1>6. CountsBy(R)'
  BY <1>1, <1>2, <1>3, <1>4, <1>5, MovesKept
<1> QED
  BY <1>6, CountsAfter

LEMMA HIncrByCounts ==
    ASSUME CacheTyped, CacheTyped', Counts, NEW c \in Changes, HIncrBy(c)
    PROVE  Counts'
<1>1. PICK R \in SUBSET Changes : CountsBy(R)
  BY DEF Counts
<1>2. /\ Written' = Written /\ Cached' = Cached \cup {c} /\ NotWritten' = NotWritten
      /\ NotCached' = NotCached \ {c} /\ c \in NotCached /\ c \notin Cached
      /\ \A x \in Changes : x \notin UnderWay => x \notin UnderWay'
  BY TypedNow DEF HIncrBy, Written, Cached, NotCached, NotWritten, UnderWay
<1>3. UNCHANGED <<row, reader, saver, blurred, raced>>
  BY DEF HIncrBy
<1>4. HashCounts(R)'
  <2>1. redis' = [fields |-> IF redis.fields = "none" THEN "quota" ELSE redis.fields,
                  quota |-> redis.quota + Delta[c], ttl |-> TRUE]
    BY TypedNow DEF HIncrBy
  <2> SUFFICES ASSUME redis'.fields = "all"
               PROVE  Counted(redis'.quota, blurred', Written', Cached', NotCached',
                              NotWritten', R)
    BY DEF HashCounts
  <2>2. Counted(redis.quota, blurred, Written, Cached, NotCached, NotWritten, R)
    BY <1>1, <2>1 DEF CountsBy, HashCounts
  <2>3. Counted(redis.quota + Delta[c], blurred, Written, Cached', NotCached', NotWritten, R)
    BY <1>2, <2>2, SetTypes, CountedAdded
  <2> QED
    BY <1>2, <1>3, <2>1, <2>3
<1>5. RowIs(R)' /\ Calm({}, R, R)
  BY <1>1, <1>2, <1>3, RowStays DEF CountsBy, Calm
<1>6. ASSUME NEW r \in Readers PROVE ReaderCounts(r, R)'
  BY <1>1, <1>3, <1>5, ReaderKept DEF CountsBy
<1>7. ASSUME NEW s \in Savers PROVE SaverCounts(s, R)'
  BY <1>1, <1>2, <1>3, <1>5, SaverKept DEF CountsBy
<1>8. CountsBy(R)'
  BY <1>4, <1>5, <1>6, <1>7 DEF CountsBy
<1> QED
  BY <1>8, CountsAfter

LEMMA SameSets ==
    ASSUME UNCHANGED <<progress, cache>>
    PROVE  /\ Written' = Written /\ Cached' = Cached /\ NotCached' = NotCached
           /\ NotWritten' = NotWritten /\ UnderWay' = UnderWay
  BY DEF Written, Cached, NotCached, NotWritten, UnderWay

(* The row itself, read now. *)
LEMMA RowSnapshot ==
    ASSUME NEW R, RowIs(R)
    PROVE  Snapshot(row, UnderWay, Written, UnderWay, R)
<1>1. R \in SUBSET Written /\ row = InitialQuota + Sum(R)
  BY DEF RowIs
<1> QED
  BY <1>1 DEF Snapshot

LEMMA ReaderStepCounts ==
    ASSUME CacheTyped, CacheTyped', Counts,
           \/ \E r \in Readers : ReadRow(r) \/ StoreUser(r) \/ StoreUserFails(r)
           \/ Expire
    PROVE  Counts'
<1>1. PICK R \in SUBSET Changes : CountsBy(R)
  BY DEF Counts
<1>2. UNCHANGED <<row, progress, cache, saver, raced>>
  BY DEF ReadRow, StoreUser, StoreUserFails, Expire
<1>3. /\ Written' = Written /\ Cached' = Cached /\ NotCached' = NotCached
      /\ NotWritten' = NotWritten /\ UnderWay' = UnderWay
  BY <1>2, SameSets
<1>4. RowIs(R)' /\ Calm({}, R, R)
  BY <1>1, <1>2, <1>3, RowStays DEF CountsBy, Calm
<1>5. ASSUME NEW s \in Savers PROVE SaverCounts(s, R)'
  BY <1>1, <1>2, <1>3, <1>4, SaverKept DEF CountsBy
<1>6. ASSUME NEW x \in Readers PROVE ReaderCounts(x, R)'
  <2>1. CASE reader'[x] = reader[x]
    BY <1>1, <1>4, <2>1, ReaderKept DEF CountsBy
  <2>2. CASE reader'[x].pc # "store"
    BY <2>2 DEF ReaderCounts
  <2>3. CASE reader'[x].quota = row /\ reader'[x].seen = UnderWay
    <3>1. Snapshot(row, UnderWay, Written, UnderWay, R)
      BY <1>1, RowSnapshot DEF CountsBy
    <3> QED
      BY <1>3, <2>3, <3>1 DEF ReaderCounts
  <2>4. \/ reader'[x] = reader[x] \/ reader'[x].pc # "store"
        \/ reader'[x].quota = row /\ reader'[x].seen = UnderWay
    BY TypedNow DEF ReadRow, StoreUser, StoreUserFails, Expire, IdleReader
  <2> QED
    BY <2>1, <2>2, <2>3, <2>4
<1>7. HashCounts(R)'
  <2>1. CASE UNCHANGED <<redis, blurred>>
    BY <1>1, <1>3, <2>1 DEF CountsBy, HashCounts
  <2>2. CASE redis'.fields # "all"
    BY <2>2 DEF HashCounts
  <2>3. ASSUME NEW r \in Readers, StoreUser(r)
        PROVE  HashCounts(R)'
    <3>1. Snapshot(reader[r].quota, reader[r].seen, Written, UnderWay, R)
      BY <1>1, <2>3 DEF StoreUser, CountsBy, ReaderCounts
    <3>2. Counted(reader[r].quota, reader[r].seen, Written, Cached, NotCached, NotWritten, R)
      BY <3>1, SetTypes, CountedStored
    <3>3. redis'.quota = reader[r].quota /\ blurred' = reader[r].seen
      BY <2>3 DEF StoreUser, HSetObj
    <3> QED
      BY <1>3, <3>2, <3>3 DEF HashCounts
  <2>4. \/ UNCHANGED <<redis, blurred>> \/ redis'.fields # "all"
        \/ \E r \in Readers : StoreUser(r)
    BY DEF ReadRow, StoreUserFails, Expire, NoHash
  <2> QED
    BY <2>1, <2>2, <2>3, <2>4
<1>8. CountsBy(R)'
  BY <1>4, <1>5, <1>6, <1>7 DEF CountsBy
<1> QED
  BY <1>8, CountsAfter

LEMMA SaveReadCounts ==
    ASSUME CacheTyped, CacheTyped', Counts, NEW s \in Savers, NEW adds \in SUBSET Changes,
           SaveRead(s, adds)
    PROVE  Counts'
<1>1. PICK R \in SUBSET Changes : CountsBy(R)
  BY DEF Counts
<1>2. /\ Written' = Written /\ Cached' = Cached \cup adds /\ NotCached' = NotCached
      /\ NotWritten' = NotWritten \cup adds /\ UnderWay' = UnderWay \cup adds
  BY TypedNow DEF SaveRead, Written, Cached, NotCached, NotWritten, UnderWay
<1>3. /\ UNCHANGED <<row, redis, raced>> /\ blurred' = blurred \cup adds
      /\ reader' = NotedBy(reader, adds)
  BY DEF SaveRead
<1>4. RowIs(R)' /\ Calm(adds, R, R)
  BY <1>1, <1>2, <1>3, RowStays DEF CountsBy, Calm
<1>5. HashCounts(R)'
  <2> SUFFICES ASSUME redis.fields = "all"
               PROVE  Counted(redis.quota, blurred', Written', Cached', NotCached',
                              NotWritten', R)
    BY <1>3 DEF HashCounts
  <2>1. Counted(redis.quota, blurred, Written, Cached, NotCached, NotWritten, R)
    BY <1>1 DEF CountsBy, HashCounts
  <2> QED
    BY <1>2, <1>3, <2>1, CountedKept
<1>6. ASSUME NEW r \in Readers PROVE ReaderCounts(r, R)'
  <2>1. reader'[r].pc = "store" =>
            /\ reader[r].pc = "store" /\ reader'[r].quota = reader[r].quota
            /\ reader'[r].seen = reader[r].seen \cup adds
    BY <1>3, NotedReaders
  <2> QED
    BY <1>1, <1>4, <2>1, ReaderKept DEF CountsBy
<1>7. PICK p : /\ saver' = [NotedBy(saver, adds) EXCEPT ![s] = p]
               /\ p.pc = (IF Kind[s] = "update" THEN "first" ELSE "write")
               /\ p.quota = row \/ (p.quota = 0 /\ Kind[s] = "update")
  <2>1. PICK quota \in (IF Kind[s] = "update" THEN {row, 0} ELSE {row}) :
            saver' = [NotedBy(saver, adds) EXCEPT ![s] =
                        [pc |-> IF Kind[s] = "update" THEN "first" ELSE "write",
                         quota |-> quota, found |-> 0, adds |-> adds, seen |-> UnderWay \cup adds]]
    BY DEF SaveRead
  <2> DEFINE new == [pc |-> IF Kind[s] = "update" THEN "first" ELSE "write",
                     quota |-> quota, found |-> 0, adds |-> adds, seen |-> UnderWay \cup adds]
  <2>2. new.pc = (IF Kind[s] = "update" THEN "first" ELSE "write") /\ new.quota = quota
    OBVIOUS
  <2>3. quota = row \/ (quota = 0 /\ Kind[s] = "update")
    BY <2>1
  <2> HIDE DEF new
  <2>4. saver' = [NotedBy(saver, adds) EXCEPT ![s] = new]
    BY <2>1 DEF new
  <2> QED
    BY <2>2, <2>3, <2>4
<1>8. DOMAIN NotedBy(saver, adds) = Savers
  BY TypedNow DEF NotedBy
<1>9. SaverCounts(s, R)'
  <2>1. saver'[s] = p
    BY <1>7, <1>8
  <2>2. Writes(s)' => p.quota = row
    BY <1>7, <2>1 DEF Writes
  <2>3. Old(row, Written, raced)
    <3>1. R \in SUBSET Written /\ row = InitialQuota + Sum(R) /\ Written \ R \subseteq raced
      BY <1>1 DEF CountsBy, RowIs
    <3> QED
      BY <3>1 DEF Old
  <2> QED
    BY <1>2, <1>3, <1>7, <2>1, <2>2, <2>3 DEF SaverCounts
<1>10. ASSUME NEW t \in Savers \ {s} PROVE SaverCounts(t, R)'
  <2>1. saver'[t] = NotedBy(saver, adds)[t]
    BY <1>7, <1>8
  <2> QED
    BY <1>1, <1>2, <1>4, <2>1, NotedSavers, SaverKept DEF CountsBy
<1>11. CountsBy(R)'
  BY <1>4, <1>5, <1>6, <1>9, <1>10 DEF CountsBy
<1> QED
  BY <1>11, CountsAfter

LEMMA SaveFirstCounts ==
    ASSUME CacheTyped, CacheTyped', AddsOwned, Counts, NEW s \in Savers,
           SaveFirst(s) \/ SaveStore(s) \/ SaveFails(s)
    PROVE  Counts'
<1>1. PICK R \in SUBSET Changes : CountsBy(R)
  BY DEF Counts
<1>2. /\ Written' = Written /\ Cached' = Cached /\ NotCached' = NotCached
      /\ \A c \in Changes \ saver[s].adds : /\ c \in NotWritten' <=> c \in NotWritten
                                            /\ c \in UnderWay' <=> c \in UnderWay
      /\ UnderWay' \subseteq UnderWay
  BY TypedNow DEF SaveFirst, SaveStore, SaveFails, AddsOwned, Written, Cached, NotCached,
     NotWritten, UnderWay
<1>3. UNCHANGED <<row, reader, raced>>
  BY DEF SaveFirst, SaveStore, SaveFails
<1>4. RowIs(R)' /\ Calm({}, R, R)
  BY <1>1, <1>2, <1>3, RowStays DEF CountsBy, Calm
<1>5. ASSUME NEW r \in Readers PROVE ReaderCounts(r, R)'
  BY <1>1, <1>3, <1>4, ReaderKept DEF CountsBy
<1>6. ASSUME NEW t \in Savers \ {s} PROVE SaverCounts(t, R)'
  <2>1. saver'[t] = saver[t]
    BY TypedNow DEF SaveFirst, SaveStore, SaveFails
  <2> QED
    BY <1>1, <1>2, <1>4, <2>1, SaverKept DEF CountsBy
<1>7. CASE SaveFirst(s)
  <2>1. /\ saver'[s].pc = "write" /\ saver'[s].quota = saver[s].quota /\ saver'[s].found = row
        /\ saver'[s].seen = UnderWay /\ saver[s].pc = "first"
        /\ UNCHANGED <<redis, progress, cache, blurred>>
    BY <1>7, TypedNow DEF SaveFirst, SaverRecords
  <2>2. NotWritten' = NotWritten /\ UnderWay' = UnderWay
    BY <2>1, SameSets
  <2>3. HashCounts(R)'
    BY <1>1, <1>2, <2>1, <2>2 DEF CountsBy, HashCounts
  <2>4. Snapshot(saver'[s].found, saver'[s].seen, Written', UnderWay', R)
    BY <1>1, <1>2, <2>1, <2>2, RowSnapshot DEF CountsBy
  <2>5. Writes(s)' => Old(saver'[s].quota, Written', raced')
    BY <1>1, <1>2, <1>3, <2>1 DEF Writes, Saving, CountsBy, SaverCounts
  <2>6. SaverCounts(s, R)'
    BY <2>1, <2>4, <2>5 DEF SaverCounts
  <2>7. CountsBy(R)'
    BY <1>4, <1>5, <1>6, <2>3, <2>6 DEF CountsBy
  <2> QED
    BY <2>7, CountsAfter
<1>8. CASE SaveStore(s) \/ SaveFails(s)
  <2>1. saver'[s].pc = "idle"
    BY <1>8, TypedNow DEF SaveStore, SaveFails, IdleSaver
  <2>2. SaverCounts(s, R)'
    BY <2>1 DEF SaverCounts, Saving
  <2>3. CASE SaveStore(s)
    <3>1. Snapshot(saver[s].quota, saver[s].seen, Written, UnderWay, R)
      BY <1>1, <2>3 DEF SaveStore, CountsBy, SaverCounts
    <3>2. Counted(saver[s].quota, saver[s].seen, Written, Cached, NotCached, NotWritten, R)
      BY <3>1, SetTypes, CountedStored
    <3>3. /\ redis'.quota = saver[s].quota /\ blurred' = saver[s].seen
          /\ UNCHANGED <<progress, cache>>
      BY <2>3 DEF SaveStore, HSetObj
    <3>4. HashCounts(R)'
      BY <1>2, <3>2, <3>3, SameSets DEF HashCounts
    <3>5. CountsBy(R)'
      BY <1>4, <1>5, <1>6, <2>2, <3>4 DEF CountsBy
    <3> QED
      BY <3>5, CountsAfter
  <2>4. CASE SaveFails(s)
    <3>1. UNCHANGED redis /\ blurred' = blurred \cup saver[s].adds
      BY <2>4 DEF SaveFails
    <3>2. HashCounts(R)'
      <4> SUFFICES ASSUME redis.fields = "all"
                   PROVE  Counted(redis.quota, blurred', Written', Cached', NotCached',
                                  NotWritten', R)
        BY <3>1 DEF HashCounts
      <4>1. Counted(redis.quota, blurred, Written, Cached, NotCached, NotWritten, R)
        BY <1>1 DEF CountsBy, HashCounts
      <4> QED
        BY <1>2, <3>1, <4>1, CountedKept
    <3>3. CountsBy(R)'
      BY <1>4, <1>5, <1>6, <2>2, <3>2 DEF CountsBy
    <3> QED
      BY <3>3, CountsAfter
  <2> QED
    BY <1>8, <2>3, <2>4
<1> QED
  BY <1>7, <1>8

(* The row becomes the quota that the save read and what it brings: what the row *)
(* counted otherwise has raced, and is blurred and noted now.                    *)
LEMMA SaveWriteCounts ==
    ASSUME CacheTyped, CacheTyped', AddsOwned, Counts, NEW s \in Savers, SaveWrite(s), Writes(s)
    PROVE  Counts'
<1>1. PICK R \in SUBSET Changes : CountsBy(R)
  BY DEF Counts
<1>2. PICK adds : adds = saver[s].adds
  OBVIOUS
<1>3. /\ adds \in SUBSET Changes /\ raced \in SUBSET Changes
      /\ \A c \in adds : progress[c] = "saving" /\ cache[c] = "done"
  BY <1>2, TypedNow DEF AddsOwned, SaverRecords
<1>4. /\ Written' = Written \cup adds /\ Cached' = Cached /\ NotCached' = NotCached
      /\ NotWritten' = NotWritten \ adds /\ UnderWay' = UnderWay \ adds
      /\ adds \cap Written = {} /\ adds \subseteq UnderWay /\ adds \subseteq NotWritten
  BY <1>2, <1>3, TypedNow DEF SaveWrite, Written, Cached, NotCached, NotWritten, UnderWay
<1>5. PICK K \in SUBSET Written : /\ saver[s].quota = InitialQuota + Sum(K)
                                  /\ Written \ K \subseteq raced
  BY <1>1 DEF SaveWrite, Saving, CountsBy, SaverCounts, Old
<1>6. PICK R2 : R2 = K \cup adds
  OBVIOUS
<1>7. /\ row' = saver[s].quota + Sum(adds) /\ blurred' = blurred \cup raced /\ UNCHANGED redis
      /\ raced \subseteq raced' /\ ((\E t \in Savers \ {s} : Saving(t)) => adds \subseteq raced')
      /\ reader' = NotedBy(reader, raced)
  BY <1>2 DEF SaveWrite, SavedQuota, RacedWith
<1>8. RowIs(R2)'
  <2>1. K \in SUBSET Changes /\ K \cap adds = {}
    BY <1>4, SetTypes
  <2>2. /\ Sum(R2) = Sum(K) + Sum(adds) /\ Sum(K) \in Int /\ Sum(adds) \in Int
        /\ InitialQuota \in Int
    BY <1>3, <1>6, <2>1, DeltaAdd, DeltaSum, CacheConstants
  <2>3. row' = InitialQuota + Sum(R2)
    BY <1>5, <1>7, <2>2
  <2>4. R2 \subseteq Written' /\ Written' \ R2 \subseteq raced'
    BY <1>4, <1>5, <1>6, <1>7
  <2> QED
    BY <2>3, <2>4 DEF RowIs
<1>9. R \subseteq Written /\ Written \ R \subseteq raced
  BY <1>1 DEF CountsBy, RowIs
<1>10. Calm(raced, R, R2)
  BY <1>4, <1>5, <1>6, <1>7, <1>9 DEF Calm
<1>11. HashCounts(R2)'
  <2> SUFFICES ASSUME redis.fields = "all"
               PROVE  Counted(redis.quota, blurred', Written', Cached', NotCached',
                              NotWritten', R2)
    BY <1>7 DEF HashCounts
  <2>1. Counted(redis.quota, blurred, Written, Cached, NotCached, NotWritten, R)
    BY <1>1 DEF CountsBy, HashCounts
  <2>2. \A c \in Changes \ blurred' :
            /\ c \in R => c \in R2
            /\ c \in R2 \cup NotWritten' <=> c \in R \cup NotWritten
    BY <1>4, <1>5, <1>6, <1>7, <1>9
  <2> QED
    BY <1>4, <1>7, <2>1, <2>2, CountedKept
<1>12. ASSUME NEW r \in Readers PROVE ReaderCounts(r, R2)'
  <2>1. reader'[r].pc = "store" =>
            /\ reader[r].pc = "store" /\ reader'[r].quota = reader[r].quota
            /\ reader'[r].seen = reader[r].seen \cup raced
    BY <1>3, <1>7, NotedReaders
  <2> QED
    BY <1>1, <1>10, <2>1, ReaderKept DEF CountsBy
<1>13. PICK p : /\ saver' = [NotedBy(saver, raced) EXCEPT ![s] = p]
                /\ \/ p.pc = "idle"
                   \/ p.pc = "store" /\ p.quota = row' /\ p.seen = UnderWay \ adds
  <2> DEFINE new == [pc |-> "store", quota |-> SavedQuota(s), found |-> 0, adds |-> {},
                     seen |-> UnderWay \ adds]
  <2>1. new.pc = "store" /\ new.quota = row' /\ new.seen = UnderWay \ adds
    BY DEF SaveWrite
  <2>2. IdleSaver.pc = "idle"
    BY DEF IdleSaver
  <2>3. saver' = [NotedBy(saver, raced) EXCEPT ![s] = IF Kind[s] = "save" THEN IdleSaver ELSE new]
    BY <1>2 DEF SaveWrite
  <2> HIDE DEF new
  <2> QED
    BY <2>1, <2>2, <2>3
<1>14. DOMAIN NotedBy(saver, raced) = Savers
  BY TypedNow DEF NotedBy
<1>15. SaverCounts(s, R2)'
  <2>1. saver'[s] = p
    BY <1>13, <1>14
  <2>2. Snapshot(row', UnderWay', Written', UnderWay', R2)
    <3>1. R2 \in SUBSET Written' /\ row' = InitialQuota + Sum(R2)
      BY <1>8 DEF RowIs
    <3> QED
      BY <3>1 DEF Snapshot
  <2> QED
    BY <1>4, <1>13, <2>1, <2>2 DEF SaverCounts, Saving
<1>16. ASSUME NEW t \in Savers \ {s} PROVE SaverCounts(t, R2)'
  <2>1. saver'[t] = NotedBy(saver, raced)[t]
    BY <1>13, <1>14
  <2>2. Saving(t) => Written' \ Written \subseteq raced'
    BY <1>4, <1>7
  <2> QED
    BY <1>1, <1>3, <1>10, <2>1, <2>2, NotedSavers, SaverKept DEF CountsBy
<1>17. CountsBy(R2)'
  BY <1>8, <1>11, <1>12, <1>15, <1>16 DEF CountsBy
<1> QED
  BY <1>17, CountsAfter

(* User.Update of a user whose quota is zero: the row keeps its quota. *)
LEMMA SaveNothingCounts ==
    ASSUME CacheTyped, CacheTyped', AddsOwned, Counts, NEW s \in Savers, SaveWrite(s), ~Writes(s)
    PROVE  Counts'
<1>1. PICK R \in SUBSET Changes : CountsBy(R)
  BY DEF Counts
<1>2. Kind[s] = "update" /\ saver[s].adds = {} /\ saver[s].pc = "write"
  BY DEF SaveWrite, Writes, AddsOwned
<1>3. progress' = progress
  BY <1>2, TypedNow DEF SaveWrite
<1>4. /\ UNCHANGED <<row, redis, cache, blurred>> /\ raced' = raced
      /\ reader' = NotedBy(reader, {})
  BY <1>2 DEF SaveWrite, RacedWith
<1>5. /\ Written' = Written /\ Cached' = Cached /\ NotCached' = NotCached
      /\ NotWritten' = NotWritten /\ UnderWay' = UnderWay
  BY <1>3, <1>4, SameSets
<1>6. RowIs(R)' /\ Calm({}, R, R)
  BY <1>1, <1>4, <1>5, RowStays DEF CountsBy, Calm
<1>7. HashCounts(R)'
  BY <1>1, <1>4, <1>5 DEF CountsBy, HashCounts
<1>8. ASSUME NEW r \in Readers PROVE ReaderCounts(r, R)'
  BY <1>1, <1>4, <1>6, NotedReaders, ReaderKept DEF CountsBy
<1>9. PICK p : /\ saver' = [NotedBy(saver, {}) EXCEPT ![s] = p]
               /\ p.pc = "store" /\ p.quota = saver[s].found /\ p.seen = saver[s].seen
  <2> DEFINE new == [pc |-> "store", quota |-> saver[s].found, found |-> 0, adds |-> {},
                     seen |-> saver[s].seen]
  <2>1. new.pc = "store" /\ new.quota = saver[s].found /\ new.seen = saver[s].seen
    OBVIOUS
  <2>2. saver' = [NotedBy(saver, {}) EXCEPT ![s] = new]
    BY <1>2 DEF SaveWrite, SavedQuota
  <2> HIDE DEF new
  <2> QED
    BY <2>1, <2>2
<1>10. DOMAIN NotedBy(saver, {}) = Savers
  BY TypedNow DEF NotedBy
<1>11. SaverCounts(s, R)'
  <2>1. saver'[s] = p
    BY <1>9, <1>10
  <2>2. Snapshot(saver[s].found, saver[s].seen, Written, UnderWay, R)
    BY <1>1, <1>2 DEF CountsBy, SaverCounts
  <2> QED
    BY <1>5, <1>9, <2>1, <2>2 DEF SaverCounts, Saving
<1>12. ASSUME NEW t \in Savers \ {s} PROVE SaverCounts(t, R)'
  <2>1. saver'[t] = NotedBy(saver, {})[t]
    BY <1>9, <1>10
  <2> QED
    BY <1>1, <1>5, <1>6, <2>1, NotedSavers, SaverKept DEF CountsBy
<1>13. CountsBy(R)'
  BY <1>6, <1>7, <1>8, <1>11, <1>12 DEF CountsBy
<1> QED
  BY <1>13, CountsAfter

-----------------------------------------------------------------------------
LEMMA InitCacheInv == CacheInit => CacheInv
<1> SUFFICES ASSUME CacheInit
             PROVE  CacheInv
  OBVIOUS
<1>1. /\ row = InitialQuota /\ redis = NoHash /\ blurred = {} /\ raced = {}
      /\ saves = 0 /\ errors = 0 /\ reader = [r \in Readers |-> IdleReader]
      /\ saver = [s \in Savers |-> IdleSaver]
      /\ progress = [c \in Changes |-> "off"] /\ cache = [c \in Changes |-> "off"]
  BY DEF CacheInit
<1>2. CacheTyped /\ AddsOwned
  <2>1. MaxSaves \in Nat /\ MaxErrors \in Nat /\ InitialQuota \in Int
    BY CacheConstants, QuotaCacheAssumption
  <2>2. row \in Int /\ saves \in 0 .. MaxSaves /\ errors \in 0 .. MaxErrors
    BY <1>1, <2>1
  <2>3. /\ redis \in [fields : {"none", "quota", "all"}, quota : Int, ttl : BOOLEAN]
        /\ redis.fields # "none" => redis.ttl
    BY <1>1 DEF NoHash
  <2>4. /\ reader \in [Readers -> ReaderRecords] /\ saver \in [Savers -> SaverRecords]
        /\ \A r \in Readers : reader[r].pc = "idle" /\ reader[r].seen = {}
        /\ \A s \in Savers : saver[s].pc = "idle" /\ saver[s].adds = {} /\ saver[s].seen = {}
    BY <1>1 DEF IdleReader, IdleSaver, ReaderRecords, SaverRecords
  <2>5. /\ progress \in [Changes -> {"off", "todo", "now", "map", "taken", "saving", "done",
                                     "failed"}]
        /\ cache \in [Changes -> {"off", "ttl", "incr", "done"}]
        /\ \A c \in Changes : progress[c] = "off" <=> cache[c] = "off"
    BY <1>1
  <2>6. AddsOwned
    BY <2>4 DEF AddsOwned
  <2>7. CacheTypeOK
    BY <1>1, <2>2, <2>3, <2>4, <2>5 DEF CacheTypeOK
  <2> QED
    BY <2>4, <2>5, <2>6, <2>7 DEF CacheTyped
<1>3. RowIs({})
  <2>1. Written = {}
    BY <1>1 DEF Written
  <2>2. Sum({}) = 0 /\ InitialQuota \in Int
    BY SumEmpty, CacheConstants
  <2> QED
    BY <1>1, <2>1, <2>2 DEF RowIs
<1>4. /\ HashCounts({}) /\ \A r \in Readers : ReaderCounts(r, {})
      /\ \A s \in Savers : SaverCounts(s, {})
  BY <1>1 DEF NoHash, IdleReader, IdleSaver, HashCounts, ReaderCounts, SaverCounts, Saving
<1>5. CountsBy({}) /\ {} \in SUBSET Changes
  BY <1>3, <1>4 DEF CountsBy
<1> QED
  BY <1>2, <1>5 DEF CacheInv, Counts

LEMMA NextCacheInv == CacheInv /\ [CacheNext]_cacheVars => CacheInv'
<1> SUFFICES ASSUME CacheInv, [CacheNext]_cacheVars
             PROVE  CacheInv'
  OBVIOUS
<1>1. CacheTyped /\ AddsOwned /\ Counts
  BY DEF CacheInv
<1>2. ASSUME NEW c \in Changes, NEW direct \in BOOLEAN, StartChange(c, direct)
      PROVE  CacheInv'
  <2>1. CacheTyped' /\ AddsOwned'
    BY <1>1, <1>2, ChangeTyped
  <2> QED
    BY <1>1, <1>2, <2>1, StartCounts DEF CacheInv
<1>3. ASSUME NEW c \in Changes,
             \/ WriteChange(c) \/ WriteChangeFails(c) \/ CheckIn(c) \/ Credit(c)
             \/ ReadTTL(c) \/ HIncrBy(c) \/ HIncrByFails(c)
      PROVE  CacheInv'
  <2>1. CacheTyped' /\ AddsOwned'
    BY <1>1, <1>3, ChangeTyped
  <2>2. Counts'
    BY <1>1, <1>3, <2>1, CommitCounts, WriteChangeCounts, DropCounts, HIncrByCounts
  <2> QED
    BY <2>1, <2>2 DEF CacheInv
<1>4. CASE TakeMap \/ WriteMap \/ WriteMapFails
  <2>1. CacheTyped' /\ AddsOwned'
    BY <1>1, <1>4, BatchTyped
  <2>2. Counts'
    BY <1>1, <1>4, <2>1, WriteMapCounts, DropCounts
  <2> QED
    BY <2>1, <2>2 DEF CacheInv
<1>5. CASE \/ \E r \in Readers : ReadRow(r) \/ StoreUser(r) \/ StoreUserFails(r)
           \/ Expire
  <2>1. CacheTyped' /\ AddsOwned'
    BY <1>1, <1>5, ReaderTyped
  <2> QED
    BY <1>1, <1>5, <2>1, ReaderStepCounts DEF CacheInv
<1>6. ASSUME NEW s \in Savers, NEW adds \in SUBSET Changes, SaveRead(s, adds)
      PROVE  CacheInv'
  <2>1. CacheTyped' /\ AddsOwned'
    BY <1>1, <1>6, SaveReadTyped
  <2> QED
    BY <1>1, <1>6, <2>1, SaveReadCounts DEF CacheInv
<1>7. ASSUME NEW s \in Savers, SaveFirst(s) \/ SaveWrite(s) \/ SaveStore(s) \/ SaveFails(s)
      PROVE  CacheInv'
  <2>1. CacheTyped' /\ AddsOwned'
    BY <1>1, <1>7, SaveTyped
  <2>2. Counts'
    BY <1>1, <1>7, <2>1, SaveFirstCounts, SaveWriteCounts, SaveNothingCounts
  <2> QED
    BY <2>1, <2>2 DEF CacheInv
<1>8. CASE UNCHANGED cacheVars
  <2>1. UNCHANGED <<row, redis, progress, cache, reader, saver, blurred, raced, saves, errors>>
    BY <1>8 DEF cacheVars
  <2>2. CacheTyped' /\ AddsOwned'
    BY <1>1, <2>1 DEF CacheTyped, CacheTypeOK, AddsOwned
  <2>3. Counts'
    BY <1>1, <2>1, SameSets DEF Counts, CountsBy, RowIs, HashCounts, ReaderCounts, SaverCounts,
       Saving, Writes
  <2> QED
    BY <2>2, <2>3 DEF CacheInv
<1>9. \A adds \in {{}} \cup {{c} : c \in Changes} : adds \in SUBSET Changes
  OBVIOUS
<1> QED
  BY <1>2, <1>3, <1>4, <1>5, <1>6, <1>7, <1>8, <1>9 DEF CacheNext, ChangeStep, SaveStep, Failures

-----------------------------------------------------------------------------
(* Every variable of QuotaCache keeps its type, and a hash has a TTL. *)
THEOREM CacheTypeCorrect == CacheSpec => []CacheTypeOK
<1>1. CacheInv => CacheTypeOK
  BY DEF CacheInv, CacheTyped
<1> QED
  BY <1>1, InitCacheInv, NextCacheInv, PTL DEF CacheSpec

(* The row counts every change once, but for changes that reached it while a save *)
(* of the account held an older quota: no other error or race loses one.          *)
THEOREM LossOnlyBySave == CacheSpec => []LossNeedsSave
<1>1. CacheInv => LossNeedsSave
  <2> SUFFICES ASSUME CacheTyped, NEW R \in SUBSET Changes, RowIs(R)
               PROVE  LossNeedsSave
    BY DEF CacheInv, Counts, CountsBy
  <2>1. /\ Written \cap NotWritten = {} /\ Written \in SUBSET Changes
        /\ NotWritten \in SUBSET Changes /\ Started = Written \cup NotWritten
    BY SetTypes
  <2>2. PICK undone : undone = Written \ R
    OBVIOUS
  <2>3. undone \in SUBSET raced /\ Started \ undone = R \cup NotWritten /\ R \cap NotWritten = {}
    BY <2>1, <2>2 DEF RowIs
  <2>4. Sum(Started \ undone) = Sum(R) + Sum(NotWritten)
    BY <2>1, <2>3, DeltaAdd
  <2>5. Sum(R) \in Int /\ Sum(NotWritten) \in Int /\ InitialQuota \in Int
    BY <2>1, DeltaSum, CacheConstants
  <2>6. row + Sum(NotWritten) = InitialQuota + Sum(Started \ undone)
    BY <2>4, <2>5 DEF RowIs
  <2> QED
    BY <2>3, <2>6 DEF LossNeedsSave
<1> QED
  BY <1>1, InitCacheInv, NextCacheInv, PTL DEF CacheSpec

(* Two sets of changes that differ only in blurred ones. *)
LEMMA DeltaBetween ==
    ASSUME NEW M \in SUBSET Changes, NEW N \in SUBSET Changes,
           NEW blur \in SUBSET Changes, \A c \in Changes \ blur : c \in M <=> c \in N
    PROVE  /\ -Magnitude(blur) <= Sum(M) - Sum(N) /\ Sum(M) - Sum(N) <= Magnitude(blur)
           /\ Magnitude(blur) \in Int
<1> DEFINE size == [c \in Changes |-> IF Delta[c] < 0 THEN -Delta[c] ELSE Delta[c]]
<1>1. ASSUME NEW S \in SUBSET Changes
      PROVE  /\ Sum(S) = Sum(S \cap blur) + Sum(S \ blur)
             /\ Sum(S \cap blur) \in Int /\ Sum(S \ blur) \in Int
  <2>1. /\ S \cap blur \in SUBSET Changes /\ S \ blur \in SUBSET Changes
        /\ (S \cap blur) \cap (S \ blur) = {} /\ (S \cap blur) \cup (S \ blur) = S
    OBVIOUS
  <2>2. Sum((S \cap blur) \cup (S \ blur)) = Sum(S \cap blur) + Sum(S \ blur)
    BY <2>1, DeltaAdd
  <2> QED
    BY <2>1, <2>2, DeltaSum
<1>2. M \ blur = N \ blur
  OBVIOUS
<1>3. PICK X, Y : X = M \cap blur /\ Y = N \cap blur
  OBVIOUS
<1>4. Sum(M) - Sum(N) = Sum(X) - Sum(Y)
  <2>1. /\ Sum(M) = Sum(X) + Sum(M \ blur)
        /\ Sum(X) \in Int /\ Sum(M \ blur) \in Int
    BY <1>1, <1>3
  <2>2. Sum(N) = Sum(Y) + Sum(N \ blur) /\ Sum(Y) \in Int
    BY <1>1, <1>3
  <2>3. Sum(M \ blur) = Sum(N \ blur)
    BY <1>2
  <2> QED
    BY <2>1, <2>2, <2>3
<1>5. IsFiniteSet(blur) /\ X \in SUBSET blur /\ Y \in SUBSET blur
  BY <1>3, DeltaSum
<1>6. \A c \in blur : /\ Delta[c] \in Int /\ size[c] \in Int
                      /\ -size[c] <= Delta[c] /\ Delta[c] <= size[c]
  BY CacheConstants
<1> HIDE DEF size
<1>7. /\ -SumFunctionOnSet(size, blur) <=
             SumFunctionOnSet(Delta, X) - SumFunctionOnSet(Delta, Y)
      /\ SumFunctionOnSet(Delta, X) - SumFunctionOnSet(Delta, Y) <=
             SumFunctionOnSet(size, blur)
  BY <1>5, <1>6, SumBetween
<1>8. Sum(X) = SumFunctionOnSet(Delta, X) /\ Sum(Y) = SumFunctionOnSet(Delta, Y)
  BY CacheConstants
<1>9. Magnitude(blur) = SumFunctionOnSet(size, blur)
  BY DEF Magnitude, size
<1>10. SumFunctionOnSet(size, blur) \in Int
  BY <1>5, <1>6, SumType
<1> QED
  BY <1>4, <1>7, <1>8, <1>9, <1>10

(* What Redis counts, by the row (K) and by HINCRBY (M), against what the row *)
(* counts or will count (E): a change in both that the row lost counts twice. *)
LEMMA DriftOf ==
    ASSUME NEW K \in SUBSET Changes, NEW M \in SUBSET Changes, NEW E \in SUBSET Changes,
           NEW blur \in SUBSET Changes, NEW races \in SUBSET Changes,
           K \ E \subseteq races,
           \A c \in Changes \ blur : (c \in K => c \in E) /\ (c \in M <=> c \in E \ K)
    PROVE  LET drift == Sum(K) + Sum(M) - Sum(E)
               bound == Magnitude(blur) + Magnitude(blur \cap races)
           IN  -bound <= drift /\ drift <= bound
<1>1. PICK A, U, V, W : /\ A = K \cap M /\ U = K \cup M /\ V = E \ A /\ W = A \ E
  OBVIOUS
<1>2. /\ A \in SUBSET Changes /\ U \in SUBSET Changes /\ V \in SUBSET Changes
      /\ W \in SUBSET Changes /\ blur \cap races \in SUBSET Changes /\ {} \in SUBSET Changes
      /\ M \ A \in SUBSET Changes /\ A \cap E \in SUBSET Changes
  BY <1>1
<1>3. Sum(U) = Sum(K) + Sum(M \ A) /\ Sum(M) = Sum(A) + Sum(M \ A)
  <2>1. U = K \cup (M \ A) /\ K \cap (M \ A) = {} /\ M = A \cup (M \ A) /\ A \cap (M \ A) = {}
    BY <1>1
  <2>2. Sum(K \cup (M \ A)) = Sum(K) + Sum(M \ A)
    BY <1>2, <2>1, DeltaAdd
  <2>3. Sum(A \cup (M \ A)) = Sum(A) + Sum(M \ A)
    BY <1>2, <2>1, DeltaAdd
  <2> QED
    BY <2>1, <2>2, <2>3
<1>4. Sum(E) = Sum(A \cap E) + Sum(V) /\ Sum(A) = Sum(A \cap E) + Sum(W)
  <2>1. /\ E = (A \cap E) \cup V /\ (A \cap E) \cap V = {}
        /\ A = (A \cap E) \cup W /\ (A \cap E) \cap W = {}
    BY <1>1
  <2>2. Sum((A \cap E) \cup V) = Sum(A \cap E) + Sum(V)
    BY <1>2, <2>1, DeltaAdd
  <2>3. Sum((A \cap E) \cup W) = Sum(A \cap E) + Sum(W)
    BY <1>2, <2>1, DeltaAdd
  <2> QED
    BY <2>1, <2>2, <2>3
<1>5. /\ Sum(K) \in Int /\ Sum(M) \in Int /\ Sum(E) \in Int /\ Sum(A) \in Int
      /\ Sum(U) \in Int /\ Sum(V) \in Int /\ Sum(W) \in Int
      /\ Sum(M \ A) \in Int /\ Sum(A \cap E) \in Int
  BY <1>2, DeltaSum
<1>6. Sum(K) + Sum(M) - Sum(E) = (Sum(U) - Sum(V)) + Sum(W)
  BY <1>3, <1>4, <1>5
<1>7. /\ -Magnitude(blur) <= Sum(U) - Sum(V) /\ Sum(U) - Sum(V) <= Magnitude(blur)
      /\ Magnitude(blur) \in Int
  <2>1. \A c \in Changes \ blur : c \in U <=> c \in V
    BY <1>1
  <2> QED
    BY <1>2, <2>1, DeltaBetween
<1>8. /\ -Magnitude(blur \cap races) <= Sum(W) - Sum({})
      /\ Sum(W) - Sum({}) <= Magnitude(blur \cap races)
      /\ Magnitude(blur \cap races) \in Int
  <2>1. \A c \in Changes \ (blur \cap races) : c \in W <=> c \in {}
    BY <1>1
  <2> QED
    BY <1>2, <2>1, DeltaBetween
<1>9. Sum({}) = 0
  BY SumEmpty, CacheConstants
<1> QED
  BY <1>5, <1>6, <1>7, <1>8, <1>9

(* The quota in Redis is off by no more than the blurred changes. *)
THEOREM DriftBounded == CacheSpec => []CacheDriftBounded
<1>1. CacheInv => CacheDriftBounded
  <2> SUFFICES ASSUME CacheTyped, NEW R \in SUBSET Changes, RowIs(R), HashCounts(R),
                      redis.fields = "all"
               PROVE  CacheDriftBounded
    BY DEF CacheInv, Counts, CountsBy, CacheDriftBounded
  <2>1. PICK K \in SUBSET Written, J \in SUBSET Cached :
            /\ redis.quota = InitialQuota + (Sum(K) + Sum(J))
            /\ \A c \in Changes \ blurred :
                   /\ c \in K => c \in R
                   /\ c \in J \cup NotCached <=> c \in (R \cup NotWritten) \ K
    BY DEF HashCounts, Counted
  <2>2. PICK M, E : M = J \cup NotCached /\ E = R \cup NotWritten
    OBVIOUS
  <2>3. /\ K \in SUBSET Changes /\ J \in SUBSET Changes /\ M \in SUBSET Changes
        /\ E \in SUBSET Changes /\ NotCached \in SUBSET Changes /\ NotWritten \in SUBSET Changes
        /\ blurred \in SUBSET Changes /\ raced \in SUBSET Changes
        /\ J \cap NotCached = {} /\ R \cap NotWritten = {}
    BY <2>2, SetTypes, TypedNow DEF RowIs
  <2>4. Sum(M) = Sum(J) + Sum(NotCached) /\ Sum(E) = Sum(R) + Sum(NotWritten)
    BY <2>2, <2>3, DeltaAdd
  <2>5. /\ Sum(K) \in Int /\ Sum(J) \in Int /\ Sum(R) \in Int
        /\ Sum(NotCached) \in Int /\ Sum(NotWritten) \in Int /\ InitialQuota \in Int
    BY <2>3, DeltaSum, CacheConstants
  <2>6. redis.quota + Sum(NotCached) - (row + Sum(NotWritten)) = Sum(K) + Sum(M) - Sum(E)
    BY <2>1, <2>4, <2>5 DEF RowIs
  <2>7. K \ E \subseteq raced
    BY <2>2 DEF RowIs
  <2>8. \A c \in Changes \ blurred : (c \in K => c \in E) /\ (c \in M <=> c \in E \ K)
    BY <2>1, <2>2
  <2>9. LET drift == Sum(K) + Sum(M) - Sum(E)
            bound == Magnitude(blurred) + Magnitude(blurred \cap raced)
        IN  -bound <= drift /\ drift <= bound
    BY <2>3, <2>7, <2>8, DriftOf
  <2> QED
    BY <2>6, <2>9 DEF CacheDriftBounded
<1> QED
  BY <1>1, InitCacheInv, NextCacheInv, PTL DEF CacheSpec
=============================================================================
