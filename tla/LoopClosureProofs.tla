-------------------------- MODULE LoopClosureProofs --------------------------
(***************************************************************************)
(* Theorems about LoopClosure: the invariant of a frame's correction, that the   *)
(* gate judges as it would without it, that fans are accepted, that cancelling   *)
(* a cycle pays, and that what is found is the one smallest correction.  Before   *)
(* them, what they need of sums, networks, medians, Bellman-Ford, circulations    *)
(* and potentials.                                                          *)
(***************************************************************************)
EXTENDS LoopClosure, FiniteSetTheorems, SequenceTheorems, WellFoundedInduction, TLAPS

(* Induction over finite data                                               *)

LEMMA LeastNatural ==
  ASSUME NEW S \in SUBSET Nat, S # {}
  PROVE  \E m \in S : \A n \in S : m <= n
<1>1. IsWellFoundedOn(OpToRel(<, Nat), Nat)
  BY NatLessThanWellFounded
<1>2. PICK m \in S : \A n \in S : ~ (<< n, m >> \in OpToRel(<, Nat))
  BY <1>1, WFMin
<1>3. \A n \in S : ~ (n < m)
  BY <1>2 DEF OpToRel
<1>4. QED
  BY <1>3

(* What holds of zero, and of the next number whenever it holds of one, holds up to   *)
(* any bound.                                                               *)
LEMMA UpTo ==
  ASSUME NEW n \in Nat, NEW X, 0 \in X, \A k \in 0 .. n - 1 : k \in X => k + 1 \in X
  PROVE  \A k \in 0 .. n : k \in X
<1>. DEFINE bad == {k \in 0 .. n : k \notin X}
<1>1. SUFFICES ASSUME bad # {} PROVE FALSE
  OBVIOUS
<1>2. PICK m \in bad : \A k \in bad : m <= k
  <2>1. bad \in SUBSET Nat
    OBVIOUS
  <2>. HIDE DEF bad
  <2>. QED
    BY <1>1, <2>1, LeastNatural
<1>3. m - 1 \in 0 .. n - 1 /\ m - 1 \notin bad /\ (m - 1) + 1 = m
  BY <1>2
<1>4. QED
  BY <1>3

(* A recursion over the numbers up to a bound has a solution.                     *)
IsChain(f, n, T, base, step) ==
  /\ f \in [0 .. n -> T]
  /\ f[0] = base
  /\ \A k \in 1 .. n : f[k] = step[<< k, f[k - 1] >>]

LEMMA ChainExists ==
  ASSUME NEW n \in Nat, NEW T, NEW base \in T, NEW step \in [(1 .. n) \X T -> T]
  PROVE  \E f : IsChain(f, n, T, base, step)
<1>. DEFINE X == {m \in 0 .. n : \E f : IsChain(f, m, T, base, step)}
<1>1. 0 \in X
  <2>1. PICK f : f = [k \in 0 .. 0 |-> base]
    OBVIOUS
  <2>2. IsChain(f, 0, T, base, step)
    BY <2>1 DEF IsChain
  <2>3. 0 \in 0 .. n
    OBVIOUS
  <2>. QED
    BY <2>2, <2>3
<1>2. ASSUME NEW m \in 0 .. n - 1, m \in X
      PROVE  m + 1 \in X
  <2>1. PICK f : IsChain(f, m, T, base, step)
    BY <1>2
  <2>. DEFINE h == [k \in 0 .. m + 1 |-> IF k = m + 1 THEN step[<< m + 1, f[m] >>] ELSE f[k]]
  <2>2. h \in [0 .. m + 1 -> T]
    <3>1. \A k \in 0 .. m : f[k] \in T
      BY <2>1 DEF IsChain
    <3>2. m + 1 \in 1 .. n /\ f[m] \in T
      BY <3>1
    <3>. QED
      BY <3>1, <3>2
  <2>3. \A k \in 1 .. m + 1 : h[k] = step[<< k, h[k - 1] >>]
    <3>1. TAKE k \in 1 .. m + 1
    <3>2. CASE k = m + 1
      <4>1. k \in 0 .. m + 1 /\ m \in 0 .. m + 1 /\ m # m + 1 /\ k - 1 = m
        BY <3>2
      <4>2. h[k] = step[<< m + 1, f[m] >>] /\ h[m] = f[m]
        BY <3>2, <4>1
      <4>. QED
        BY <3>2, <4>1, <4>2
    <3>3. CASE k # m + 1
      <4>1. k \in 1 .. m /\ h[k] = f[k] /\ h[k - 1] = f[k - 1]
        BY <3>3
      <4>2. f[k] = step[<< k, f[k - 1] >>]
        BY <2>1, <4>1 DEF IsChain
      <4>. QED
        BY <4>1, <4>2
    <3>. QED
      BY <3>2, <3>3
  <2>4. h[0] = base /\ m + 1 \in 0 .. n
    BY <2>1 DEF IsChain
  <2>. HIDE DEF h
  <2>5. IsChain(h, m + 1, T, base, step)
    BY <2>2, <2>3, <2>4 DEF IsChain
  <2>. QED
    BY <2>4, <2>5
<1>3. n \in X
  <2>. HIDE DEF X
  <2>1. \A k \in 0 .. n : k \in X
    BY <1>1, <1>2, UpTo
  <2>. QED
    BY <2>1
<1>. QED
  BY <1>3

AnyOf(s) == CHOOSE x \in s : TRUE

(* What holds of the empty set, and of a set whenever it holds of the set without      *)
(* any one of its elements, holds of every subset of a finite set.              *)
LEMMA SubsetInduction ==
  ASSUME NEW S, IsFiniteSet(S), NEW X, {} \in X,
         \A s \in SUBSET S : \A c \in s : (\A x \in s : s \ {x} \in X) => s \in X
  PROVE  \A s \in SUBSET S : s \in X
<1>. DEFINE bad == {s \in SUBSET S : s \notin X}
            sizes == {Cardinality(s) : s \in bad}
<1>1. \A s \in SUBSET S : IsFiniteSet(s) /\ Cardinality(s) \in Nat
  BY FS_Subset, FS_CardinalityType
<1>2. SUFFICES ASSUME bad # {} PROVE FALSE
  OBVIOUS
<1>3. sizes \in SUBSET Nat /\ sizes # {}
  BY <1>1, <1>2
<1>4. PICK s \in bad : \A n \in sizes : Cardinality(s) <= n
  <2>1. PICK m \in sizes : \A n \in sizes : m <= n
    <3>. HIDE DEF sizes
    <3>. QED
      BY <1>3, LeastNatural
  <2>. QED
    BY <2>1
<1>5. PICK c \in s : s \ {c} \notin X
  BY <1>4
<1>6. Cardinality(s \ {c}) = Cardinality(s) - 1 /\ s \ {c} \in SUBSET S
  BY <1>1, <1>5, FS_RemoveElement
<1>7. Cardinality(s \ {c}) \notin sizes
  <2>. HIDE DEF sizes
  <2>. QED
    BY <1>1, <1>4, <1>6
<1>8. QED
  BY <1>5, <1>6, <1>7

LEMMA PartIsSmaller ==
  ASSUME NEW S, IsFiniteSet(S), NEW T \in SUBSET S
  PROVE  /\ IsFiniteSet(T) /\ Cardinality(T) \in Nat /\ Cardinality(S) \in Nat
         /\ Cardinality(T) <= Cardinality(S)
         /\ T # S => Cardinality(T) < Cardinality(S)
<1>1. IsFiniteSet(T) /\ Cardinality(T) <= Cardinality(S) /\ (Cardinality(S) = Cardinality(T) => S = T)
  BY FS_Subset
<1>2. Cardinality(T) \in Nat /\ Cardinality(S) \in Nat
  BY <1>1, FS_CardinalityType
<1>3. QED
  BY <1>1, <1>2

(* In a strict total order of a finite set, some member comes after any smaller       *)
(* number of others.                                                        *)
LEMMA RankReached ==
  ASSUME NEW S, IsFiniteSet(S), NEW R,
         \A x, y, z \in S : << x, y >> \in R /\ << y, z >> \in R => << x, z >> \in R,
         \A x \in S : << x, x >> \notin R,
         \A x, y \in S : x # y => << x, y >> \in R \/ << y, x >> \in R,
         NEW k \in 0 .. Cardinality(S) - 1
  PROVE  \E x \in S : \E less \in SUBSET S :
           (\A z \in S : z \in less <=> << z, x >> \in R) /\ Cardinality(less) = k
<1>. DEFINE below(t) == {z \in S : << z, t >> \in R}
            rank == [t \in S |-> Cardinality(below(t))]
            n == Cardinality(S)
<1>1. n \in Nat
  BY FS_CardinalityType
<1>2. \A x \in S : below(x) \in SUBSET S /\ below(x) # S
  OBVIOUS
<1>3. \A x \in S : rank[x] \in 0 .. n - 1
  <2>. HIDE DEF below
  <2>. QED
    BY <1>1, <1>2, PartIsSmaller
<1>4. \A x, y \in S : << x, y >> \in R => rank[x] < rank[y]
  <2>1. TAKE x, y \in S
  <2>2. HAVE << x, y >> \in R
  <2>3. below(x) \in SUBSET below(y) /\ below(x) # below(y) /\ IsFiniteSet(below(y))
    BY <2>2, FS_Subset
  <2>. HIDE DEF below
  <2>. QED
    BY <2>3, PartIsSmaller
<1>5. rank \in Injection(S, 0 .. n - 1)
  <2>1. ASSUME NEW x \in S, NEW y \in S, rank[x] = rank[y], x # y
        PROVE  FALSE
    <3>. HIDE DEF rank
    <3>1. rank[x] \in Int
      BY <1>1, <1>3
    <3>2. rank[x] < rank[y] \/ rank[y] < rank[x]
      BY <1>4, <2>1
    <3>. QED
      BY <2>1, <3>1, <3>2
  <2>2. rank \in [S -> 0 .. n - 1]
    BY <1>3
  <2>. HIDE DEF rank
  <2>. QED
    BY <2>1, <2>2 DEF Injection, IsInjective
<1>6. IsFiniteSet(0 .. n - 1) /\ Cardinality(0 .. n - 1) = n
  BY <1>1, FS_Interval
<1>7. rank \in Surjection(S, 0 .. n - 1)
  <2>. HIDE DEF rank
  <2>. QED
    BY <1>5, <1>6, FS_Injection
<1>8. PICK x \in S : rank[x] = k
  <2>. HIDE DEF rank
  <2>. QED
    BY <1>1, <1>7 DEF Surjection
<1>9. below(x) \in SUBSET S /\ \A z \in S : z \in below(x) <=> << z, x >> \in R
  OBVIOUS
<1>10. Cardinality(below(x)) = k
  BY <1>8
<1>. HIDE DEF below
<1>. QED
  BY <1>9, <1>10
-------------------------------------------------------------------------------
(* Sums over finite sets, as SumFunctionOnSet makes them                        *)

IteratedSum(g, S) ==
  LET iter[s \in SUBSET S] ==
        IF s = {} THEN 0
        ELSE LET x == CHOOSE x \in s : TRUE
             IN  g[x] + iter[s \ {x}]
  IN  iter[S]

(* The units of the positive, and of the negative values at the members of a set.    *)
Units(sign, g, s) == UNION {{x} \X (1 .. sign * g[x]) : x \in s}

LEMMA UnitsAreCounted ==
  ASSUME NEW S, IsFiniteSet(S), NEW g, \A x \in S : g[x] \in Int, NEW sign \in {-1, 1}
  PROVE  \A s \in SUBSET S :
           /\ Cardinality(Units(sign, g, s)) \in Nat
           /\ \A c \in s : Cardinality(Units(sign, g, s))
                            = Cardinality(Units(sign, g, s \ {c}))
                                + (IF sign * g[c] > 0 THEN sign * g[c] ELSE 0)
<1>. DEFINE One(c) == {c} \X (1 .. sign * g[c])
            X == {s \in SUBSET S : IsFiniteSet(Units(sign, g, s))}
<1>1. \A s \in SUBSET S : \A c \in s :
        /\ Units(sign, g, s) = Units(sign, g, s \ {c}) \cup One(c)
        /\ Units(sign, g, s \ {c}) \cap One(c) = {}
  BY DEF Units
<1>2. \A c \in S : /\ IsFiniteSet(One(c))
                   /\ Cardinality(One(c)) = IF sign * g[c] > 0 THEN sign * g[c] ELSE 0
  <2>1. TAKE c \in S
  <2>2. sign * g[c] \in Int
    OBVIOUS
  <2>3. PICK n \in Int : n = sign * g[c]
    BY <2>2
  <2>4. IsFiniteSet(1 .. n) /\ Cardinality(1 .. n) = IF n > 0 THEN n ELSE 0
    <3>1. IsFiniteSet(1 .. n) /\ Cardinality(1 .. n) = IF 1 > n THEN 0 ELSE n - 1 + 1
      BY FS_Interval
    <3>. QED
      BY <3>1
  <2>5. IsFiniteSet({c}) /\ Cardinality({c}) = 1
    BY FS_Singleton
  <2>6. /\ IsFiniteSet({c} \X (1 .. n))
        /\ Cardinality({c} \X (1 .. n)) = Cardinality({c}) * Cardinality(1 .. n)
    BY <2>4, <2>5, FS_Product
  <2>. QED
    BY <2>3, <2>4, <2>5, <2>6
<1>. HIDE DEF One
<1>3. {} \in X
  <2>1. Units(sign, g, {}) = {}
    BY DEF Units
  <2>2. IsFiniteSet({}) /\ {} \in SUBSET S
    BY FS_EmptySet
  <2>3. PICK none : none = {}
    OBVIOUS
  <2>4. none \in X
    BY <2>1, <2>2, <2>3
  <2>. QED
    BY <2>3, <2>4
<1>4. ASSUME NEW s \in SUBSET S, NEW c \in s, \A x \in s : s \ {x} \in X
      PROVE  s \in X
  <2>1. IsFiniteSet(Units(sign, g, s \ {c})) /\ IsFiniteSet(One(c))
    BY <1>2, <1>4
  <2>2. IsFiniteSet(Units(sign, g, s \ {c}) \cup One(c))
    BY <2>1, FS_Union
  <2>. QED
    BY <1>1, <2>2
<1>5. \A s \in SUBSET S : s \in X
  <2>. HIDE DEF X
  <2>. QED
    BY <1>3, <1>4, SubsetInduction
<1>6. \A s \in SUBSET S : IsFiniteSet(Units(sign, g, s)) /\ Cardinality(Units(sign, g, s)) \in Nat
  BY <1>5, FS_CardinalityType
<1>7. ASSUME NEW s \in SUBSET S, NEW c \in s
      PROVE  Cardinality(Units(sign, g, s))
               = Cardinality(Units(sign, g, s \ {c})) + Cardinality(One(c))
  <2>1. s \ {c} \in SUBSET S /\ c \in S
    OBVIOUS
  <2>2. /\ IsFiniteSet(Units(sign, g, s \ {c})) /\ IsFiniteSet(One(c))
        /\ Cardinality(Units(sign, g, s \ {c})) \in Nat
        /\ Cardinality(One(c)) \in Nat
    BY <1>2, <1>6, <2>1, FS_CardinalityType
  <2>3. Cardinality(Units(sign, g, s \ {c}) \cap One(c)) = 0
    BY <1>1, FS_EmptySet
  <2>4. Cardinality(Units(sign, g, s))
          = Cardinality(Units(sign, g, s \ {c})) + Cardinality(One(c))
              - Cardinality(Units(sign, g, s \ {c}) \cap One(c))
    BY <1>1, <2>2, FS_Union
  <2>. QED
    BY <2>2, <2>3, <2>4
<1>. QED
  BY <1>2, <1>6, <1>7

Sums(f, S, g) ==
  /\ f \in [SUBSET S -> Int]
  /\ f[{}] = 0
  /\ \A s \in SUBSET S : \A x \in s : f[s] = g[x] + f[s \ {x}]
  /\ \A s \in SUBSET S : IteratedSum(g, s) = f[s]

(* Sums over the parts of a set are one function of the part, and any member may be   *)
(* taken out first.                                                         *)
LEMMA SumsOfParts ==
  ASSUME NEW S, IsFiniteSet(S), NEW g, \A x \in S : g[x] \in Int
  PROVE  \E f : Sums(f, S, g)
<1>. DEFINE f == [s \in SUBSET S |-> Cardinality(Units(1, g, s)) - Cardinality(Units(-1, g, s))]
<1>1. /\ \A s \in SUBSET S :
             /\ Cardinality(Units(1, g, s)) \in Nat
             /\ \A c \in s : Cardinality(Units(1, g, s))
                   = Cardinality(Units(1, g, s \ {c})) + (IF g[c] > 0 THEN g[c] ELSE 0)
      /\ \A s \in SUBSET S :
             /\ Cardinality(Units(-1, g, s)) \in Nat
             /\ \A c \in s : Cardinality(Units(-1, g, s))
                   = Cardinality(Units(-1, g, s \ {c})) + (IF -g[c] > 0 THEN -g[c] ELSE 0)
  <2>1. \A x \in S : 1 * g[x] = g[x] /\ (-1) * g[x] = -g[x]
    OBVIOUS
  <2>2. PICK plus, minus : plus = 1 /\ minus = -1
    OBVIOUS
  <2>3. \A s \in SUBSET S :
           /\ Cardinality(Units(plus, g, s)) \in Nat
           /\ \A c \in s : Cardinality(Units(plus, g, s))
                = Cardinality(Units(plus, g, s \ {c})) + (IF plus * g[c] > 0 THEN plus * g[c] ELSE 0)
    BY <2>2, UnitsAreCounted
  <2>4. \A s \in SUBSET S :
           /\ Cardinality(Units(minus, g, s)) \in Nat
           /\ \A c \in s : Cardinality(Units(minus, g, s))
                = Cardinality(Units(minus, g, s \ {c})) + (IF minus * g[c] > 0 THEN minus * g[c] ELSE 0)
    BY <2>2, UnitsAreCounted
  <2>. QED
    BY <2>1, <2>2, <2>3, <2>4
<1>2. f \in [SUBSET S -> Int]
  BY <1>1
<1>3. f[{}] = 0 /\ \A s \in SUBSET S : \A x \in s : f[s] = g[x] + f[s \ {x}]
  <2>1. f[{}] = 0
    BY FS_EmptySet DEF Units
  <2>2. ASSUME NEW s \in SUBSET S, NEW x \in s
        PROVE  f[s] = g[x] + f[s \ {x}]
    <3>1. s \ {x} \in SUBSET S /\ x \in S
      OBVIOUS
    <3>. QED
      BY <1>1, <3>1
  <2>. HIDE DEF f
  <2>. QED
    BY <2>1, <2>2
<1>. HIDE DEF f
<1>4. ASSUME NEW T \in SUBSET S PROVE IteratedSum(g, T) = f[T]
  <2>. DEFINE Body(h) == [s \in SUBSET T |-> IF s = {} THEN 0 ELSE g[AnyOf(s)] + h[s \ {AnyOf(s)}]]
              k == [s \in SUBSET T |-> f[s]]
  <2>1. k = Body(k)
    <3>1. \A s \in SUBSET T : s # {} => AnyOf(s) \in s
      BY DEF AnyOf
    <3>2. \A s \in SUBSET T : k[s] = Body(k)[s]
      BY <1>3, <3>1
    <3>. QED
      BY <3>2
  <2>2. PICK h : IteratedSum(g, T) = h[T] /\ h = Body(h)
    <3>1. \E h : h = Body(h)
      BY <2>1
    <3>. QED
      BY <3>1 DEF IteratedSum, AnyOf
  <2>. DEFINE X == {s \in SUBSET T : h[s] = f[s]}
  <2>3. \A s \in SUBSET T : h[s] = IF s = {} THEN 0 ELSE g[AnyOf(s)] + h[s \ {AnyOf(s)}]
    BY <2>2
  <2>4. {} \in X
    BY <1>3, <2>3
  <2>5. ASSUME NEW s \in SUBSET T, NEW c \in s, \A x \in s : s \ {x} \in X
        PROVE  s \in X
    <3>1. AnyOf(s) \in s
      BY DEF AnyOf
    <3>2. h[s] = g[AnyOf(s)] + h[s \ {AnyOf(s)}] /\ f[s] = g[AnyOf(s)] + f[s \ {AnyOf(s)}]
      BY <1>3, <2>3, <3>1
    <3>. QED
      BY <2>5, <3>1, <3>2
  <2>6. \A s \in SUBSET T : s \in X
    <3>1. IsFiniteSet(T)
      BY FS_Subset
    <3>. HIDE DEF X
    <3>. QED
      BY <2>4, <2>5, <3>1, SubsetInduction
  <2>. QED
    BY <2>2, <2>6
<1>. QED
  BY <1>2, <1>3, <1>4 DEF Sums

(* The same functions of the members have the same sum.                            *)
LEMMA SumIsInteger ==
  ASSUME NEW S, IsFiniteSet(S), NEW g, \A x \in S : g[x] \in Int
  PROVE  IteratedSum(g, S) \in Int
<1>1. PICK f : Sums(f, S, g)
  BY SumsOfParts
<1>2. IteratedSum(g, S) = f[S] /\ f[S] \in Int
  BY <1>1 DEF Sums
<1>. QED
  BY <1>2

(* A sum of sums, one of which may be no more than a bound.                          *)
LEMMA SumAdds ==
  ASSUME NEW S, IsFiniteSet(S), NEW g, NEW h, NEW k,
         \A x \in S : g[x] \in Int /\ h[x] \in Int /\ k[x] = g[x] + h[x]
  PROVE  IteratedSum(k, S) = IteratedSum(g, S) + IteratedSum(h, S)
<1>1. PICK f : Sums(f, S, g)
  BY SumsOfParts
<1>2. PICK e : Sums(e, S, h)
  BY SumsOfParts
<1>3. PICK d : Sums(d, S, k)
  BY SumsOfParts
<1>. DEFINE X == {s \in SUBSET S : d[s] = f[s] + e[s]}
<1>4. {} \in X
  BY <1>1, <1>2, <1>3 DEF Sums
<1>5. ASSUME NEW s \in SUBSET S, NEW c \in s, \A x \in s : s \ {x} \in X
      PROVE  s \in X
  <2>1. s \ {c} \in SUBSET S /\ c \in S
    OBVIOUS
  <2>2. /\ f[s] = g[c] + f[s \ {c}] /\ e[s] = h[c] + e[s \ {c}]
        /\ d[s] = k[c] + d[s \ {c}] /\ d[s \ {c}] = f[s \ {c}] + e[s \ {c}]
    BY <1>1, <1>2, <1>3, <1>5 DEF Sums
  <2>3. f[s \ {c}] \in Int /\ e[s \ {c}] \in Int
    BY <1>1, <1>2, <2>1 DEF Sums
  <2>. QED
    BY <2>1, <2>2, <2>3
<1>6. \A s \in SUBSET S : s \in X
  <2>. HIDE DEF X
  <2>. QED
    BY <1>4, <1>5, SubsetInduction
<1>. QED
  BY <1>1, <1>2, <1>3, <1>6 DEF Sums

(* A greater value somewhere makes a greater sum, if none is less.                    *)
LEMMA SumGrows ==
  ASSUME NEW S, IsFiniteSet(S), NEW g, NEW h,
         \A x \in S : g[x] \in Int /\ h[x] \in Int /\ g[x] <= h[x]
  PROVE  /\ IteratedSum(g, S) <= IteratedSum(h, S)
         /\ IteratedSum(g, S) = IteratedSum(h, S) <=> \A x \in S : g[x] = h[x]
<1>1. PICK f : Sums(f, S, g)
  BY SumsOfParts
<1>2. PICK e : Sums(e, S, h)
  BY SumsOfParts
<1>. DEFINE X == {s \in SUBSET S : f[s] <= e[s] /\ (f[s] = e[s] <=> \A x \in s : g[x] = h[x])}
<1>3. {} \in X
  BY <1>1, <1>2 DEF Sums
<1>4. ASSUME NEW s \in SUBSET S, NEW c \in s, \A x \in s : s \ {x} \in X
      PROVE  s \in X
  <2>. DEFINE r == s \ {c}
  <2>1. r \in SUBSET S /\ c \in S
    OBVIOUS
  <2>2. f[s] = g[c] + f[r] /\ e[s] = h[c] + e[r]
    BY <1>1, <1>2 DEF Sums
  <2>3. f[r] <= e[r] /\ (f[r] = e[r] <=> \A x \in r : g[x] = h[x])
    BY <1>4
  <2>4. (\A x \in s : g[x] = h[x]) <=> g[c] = h[c] /\ \A x \in r : g[x] = h[x]
    OBVIOUS
  <2>. HIDE DEF r
  <2>5. f[r] \in Int /\ e[r] \in Int /\ g[c] \in Int /\ h[c] \in Int /\ g[c] <= h[c]
    BY <1>1, <1>2, <2>1 DEF Sums
  <2>6. f[s] <= e[s] /\ (f[s] = e[s] <=> g[c] = h[c] /\ f[r] = e[r])
    BY <2>2, <2>3, <2>5
  <2>. QED
    BY <2>3, <2>4, <2>6
<1>5. \A s \in SUBSET S : s \in X
  <2>. HIDE DEF X
  <2>. QED
    BY <1>3, <1>4, SubsetInduction
<1>6. S \in X /\ IteratedSum(g, S) = f[S] /\ IteratedSum(h, S) = e[S]
  BY <1>1, <1>2, <1>5 DEF Sums
<1>. QED
  BY <1>6

LEMMA SumOfZeros ==
  ASSUME NEW S, IsFiniteSet(S), NEW g, \A x \in S : g[x] = 0
  PROVE  IteratedSum(g, S) = 0
<1>1. IteratedSum(g, S) = IteratedSum(g, S) + IteratedSum(g, S)
  BY SumAdds
<1>2. PICK n \in Int : n = IteratedSum(g, S)
  BY SumIsInteger
<1>3. n = n + n
  BY <1>1, <1>2
<1>4. n = 0
  BY <1>3
<1>. QED
  BY <1>2, <1>4

(* A sum over a set is one over the members that a function leads to once each, if     *)
(* the others count nothing.                                                  *)
LEMMA SumOverImage ==
  ASSUME NEW S, IsFiniteSet(S), NEW T, IsFiniteSet(T), NEW g, NEW h, NEW to,
         \A x \in S : g[x] \in Int,
         \A y \in T : to[y] \in S /\ h[y] = g[to[y]],
         \A x, y \in T : to[x] = to[y] => x = y,
         \A x \in S : (\A y \in T : to[y] # x) => g[x] = 0
  PROVE  IteratedSum(g, S) = IteratedSum(h, T)
<1>0. \A y \in T : h[y] \in Int
  OBVIOUS
<1>1. PICK f : Sums(f, S, g)
  BY SumsOfParts
<1>2. PICK e : Sums(e, T, h)
  BY <1>0, SumsOfParts
<1>. DEFINE Led(s) == {y \in T : to[y] \in s}
            X == {s \in SUBSET S : f[s] = e[Led(s)]}
<1>3. {} \in X
  BY <1>1, <1>2 DEF Sums
<1>4. ASSUME NEW s \in SUBSET S, NEW c \in s, \A x \in s : s \ {x} \in X
      PROVE  s \in X
  <2>1. f[s] = g[c] + f[s \ {c}] /\ f[s \ {c}] = e[Led(s \ {c})] /\ f[s \ {c}] \in Int
    BY <1>1, <1>4 DEF Sums
  <2>2. CASE \E y \in T : to[y] = c
    <3>1. PICK y \in T : to[y] = c
      BY <2>2
    <3>2. y \in Led(s) /\ Led(s) \in SUBSET T /\ Led(s \ {c}) = Led(s) \ {y}
      BY <3>1
    <3>3. e[Led(s)] = h[y] + e[Led(s \ {c})]
      <4>1. PICK all, rest : all = Led(s) /\ rest = Led(s \ {c})
        OBVIOUS
      <4>2. y \in all /\ all \in SUBSET T /\ rest = all \ {y}
        BY <3>2, <4>1
      <4>3. e[all] = h[y] + e[rest]
        BY <1>2, <4>2 DEF Sums
      <4>. QED
        BY <4>1, <4>3
    <3>4. h[y] = g[c]
      BY <3>1
    <3>. QED
      BY <2>1, <3>3, <3>4
  <2>3. CASE \A y \in T : to[y] # c
    <3>1. Led(s \ {c}) = Led(s) /\ g[c] = 0
      BY <2>3
    <3>. HIDE DEF Led
    <3>. QED
      BY <2>1, <3>1
  <2>. QED
    BY <2>2, <2>3
<1>5. \A s \in SUBSET S : s \in X
  <2>. HIDE DEF X
  <2>. QED
    BY <1>3, <1>4, SubsetInduction
<1>6. S \in X /\ Led(S) = T
  BY <1>5
<1>. QED
  BY <1>1, <1>2, <1>6 DEF Sums

-------------------------------------------------------------------------------
(* Networks                                                                 *)

IsNetwork(network) ==
  /\ IsFiniteSet(network)
  /\ \A p \in network : p \in Nat \X Nat /\ p[1] < p[2]

LEMMA PairsAreFinite ==
  ASSUME NEW n \in Nat, NEW S, S \subseteq (0 .. n) \X (0 .. n)
  PROVE  IsFiniteSet(S)
<1>1. IsFiniteSet(0 .. n)
  BY FS_Interval
<1>2. IsFiniteSet((0 .. n) \X (0 .. n))
  BY <1>1, FS_Product
<1>. QED
  BY <1>2, FS_Subset

LEMMA DaysAreSorted ==
  ASSUME NEW r \in Runs
  PROVE  /\ r.days \in Seq(Int) /\ Len(r.days) \in Nat /\ DOMAIN r.days = 1 .. Len(r.days)
         /\ \A i \in 1 .. Len(r.days) : r.days[i] \in Int
         /\ \A i, j \in 1 .. Len(r.days) : i < j => r.days[i] <= r.days[j]
<1>1. PICK days : days = r.days
  OBVIOUS
<1>2. days \in Seq(Int) /\ \A i, j \in DOMAIN days : i < j => days[i] <= days[j]
  BY <1>1, RunsAssumption
<1>3. Len(days) \in Nat /\ DOMAIN days = 1 .. Len(days) /\ days \in [1 .. Len(days) -> Int]
  BY <1>2, LenProperties
<1>. QED
  BY <1>1, <1>2, <1>3

LEMMA NetworkIsNetwork ==
  ASSUME NEW r \in Runs
  PROVE  IsNetwork(Network(r.days, r.net))
<1>. DEFINE days == r.days
<1>1. days \in Seq(Int) /\ Len(days) \in Nat /\ IsMode(r.net)
  BY DaysAreSorted, RunsAssumption
<1>2. ASSUME NEW net, IsMode(net)
      PROVE  IsNetwork(BuildNetwork(days, net))
  <2>. DEFINE single == {<< Min({d, net.reference}), Max({d, net.reference}) >> :
                           d \in (0 .. Len(days) - 1) \ {net.reference}}
              star == IF net.reference = Unset THEN {} ELSE single
              near == {p \in AllPairs(days) :
                         \/ net.bandwidth # Unset /\ p[2] - p[1] <= net.bandwidth
                         \/ net.baseline # Unset /\ Baseline(days, p) <= net.baseline}
              listed == IF net.indexes = Unset THEN {} ELSE net.indexes
  <2>1. IsNetwork(star)
    <3>1. CASE net.reference = Unset
      BY <3>1, FS_EmptySet DEF IsNetwork
    <3>2. CASE net.reference # Unset
      <4>1. net.reference \in Nat
        BY <1>2, <3>2 DEF IsMode, Index
      <4>2. PICK ref \in Nat : ref = net.reference
        BY <4>1
      <4>. DEFINE ends == [d \in (0 .. Len(days) - 1) \ {ref} |-> << Min({d, ref}), Max({d, ref}) >>]
      <4>3. single = {ends[d] : d \in (0 .. Len(days) - 1) \ {ref}}
        BY <4>2
      <4>4. \A d \in (0 .. Len(days) - 1) \ {ref} : ends[d] \in Nat \X Nat /\ ends[d][1] < ends[d][2]
        <5>1. \A d \in Nat \ {ref} :
                 /\ Min({d, ref}) \in Nat /\ Max({d, ref}) \in Nat /\ Min({d, ref}) < Max({d, ref})
          <6>1. TAKE d \in Nat \ {ref}
          <6>2. \E x \in {d, ref} : \A y \in {d, ref} : x <= y
            OBVIOUS
          <6>3. \E x \in {d, ref} : \A y \in {d, ref} : x >= y
            OBVIOUS
          <6>4. Min({d, ref}) \in {d, ref} /\ \A y \in {d, ref} : Min({d, ref}) <= y
            BY <6>2 DEF Min
          <6>5. Max({d, ref}) \in {d, ref} /\ \A y \in {d, ref} : Max({d, ref}) >= y
            BY <6>3 DEF Max
          <6>. QED
            BY <6>4, <6>5
        <5>. QED
          BY <1>1, <5>1
      <4>5. IsFiniteSet((0 .. Len(days) - 1) \ {ref})
        <5>1. IsFiniteSet(0 .. Len(days) - 1)
          BY <1>1, FS_Interval
        <5>. QED
          BY <5>1, FS_Difference
      <4>6. IsFiniteSet({ends[d] : d \in (0 .. Len(days) - 1) \ {ref}})
        <5>1. ends \in Surjection((0 .. Len(days) - 1) \ {ref},
                                  {ends[d] : d \in (0 .. Len(days) - 1) \ {ref}})
          BY DEF Surjection
        <5>. HIDE DEF ends
        <5>. QED
          BY <4>5, <5>1, FS_Surjection
      <4>. HIDE DEF ends, single
      <4>. QED
        BY <3>2, <4>3, <4>4, <4>6 DEF IsNetwork
    <3>. QED
      BY <3>1, <3>2
  <2>2. IsNetwork(near)
    <3>1. AllPairs(days) \subseteq (0 .. Len(days)) \X (0 .. Len(days))
      BY <1>1 DEF AllPairs
    <3>2. \A p \in AllPairs(days) : p \in Nat \X Nat /\ p[1] < p[2]
      BY <1>1 DEF AllPairs
    <3>3. near \subseteq AllPairs(days)
      OBVIOUS
    <3>. HIDE DEF near
    <3>4. IsFiniteSet(near)
      BY <1>1, <3>1, <3>3, PairsAreFinite
    <3>. QED
      BY <3>2, <3>3, <3>4 DEF IsNetwork
  <2>3. IsNetwork(listed)
    BY <1>2, FS_EmptySet DEF IsNetwork, IsMode
  <2>4. BuildNetwork(days, net) = star \cup near \cup listed
    BY DEF BuildNetwork
  <2>. HIDE DEF star, near, listed
  <2>5. IsFiniteSet(star \cup near \cup listed)
    BY <2>1, <2>2, <2>3, FS_Union DEF IsNetwork
  <2>. QED
    BY <2>1, <2>2, <2>3, <2>4, <2>5 DEF IsNetwork
<1>3. IsMode([r.net EXCEPT !.reference = 0])
  BY <1>1 DEF IsMode, Index
<1>. QED
  BY <1>1, <1>2, <1>3 DEF Network

(* The fan is in every network of a bandwidth or a temporal baseline.              *)
LEMMA FanInNetwork ==
  ASSUME NEW r \in Runs, r.net.reference = Unset, r.net.indexes = Unset,
         NEW p \in Network(r.days, r.net), p[2] > p[1] + 1
  PROVE  Early(Fan(p)) \in Network(r.days, r.net)
<1>0. PICK days, net : days = r.days /\ net = r.net
  OBVIOUS
<1>. DEFINE e == << p[1], p[2] - 1 >>
<1>1. /\ Len(days) \in Nat /\ IsMode(net)
      /\ \A i \in 1 .. Len(days) : days[i] \in Int
      /\ \A i, j \in 1 .. Len(days) : i < j => days[i] <= days[j]
      /\ net.reference = Unset /\ net.indexes = Unset /\ p \in Network(days, net)
  BY <1>0, DaysAreSorted, RunsAssumption
<1>2. p \in Nat \X Nat /\ p = << p[1], p[2] >> /\ Early(Fan(p)) = e
  BY NetworkIsNetwork DEF IsNetwork, Early, Fan
<1>3. CASE \A mode \in DOMAIN net : net[mode] = Unset
  <2>. DEFINE one == [net EXCEPT !.reference = 0]
  <2>1. /\ Network(days, net) = BuildNetwork(days, one)
        /\ one.reference = 0 /\ one.bandwidth = Unset /\ one.baseline = Unset /\ one.indexes = Unset
    BY <1>1, <1>3 DEF Network, IsMode
  <2>2. \A d \in Nat \ {0} : Min({d, 0}) = 0 /\ Max({d, 0}) = d
    <3>1. TAKE d \in Nat \ {0}
    <3>2. \E x \in {d, 0} : \A y \in {d, 0} : x <= y
      OBVIOUS
    <3>3. \E x \in {d, 0} : \A y \in {d, 0} : x >= y
      OBVIOUS
    <3>4. Min({d, 0}) \in {d, 0} /\ \A y \in {d, 0} : Min({d, 0}) <= y
      BY <3>2 DEF Min
    <3>5. Max({d, 0}) \in {d, 0} /\ \A y \in {d, 0} : Max({d, 0}) >= y
      BY <3>3 DEF Max
    <3>. QED
      BY <3>4, <3>5
  <2>3. PICK net0 : net0 = one
    OBVIOUS
  <2>4. BuildNetwork(days, net0) = {<< Min({d, 0}), Max({d, 0}) >> : d \in (0 .. Len(days) - 1) \ {0}}
    <3>1. 0 # Unset
      BY UnsetAssumption
    <3>2. net0.reference = 0 /\ net0.bandwidth = Unset /\ net0.baseline = Unset /\ net0.indexes = Unset
      BY <2>1, <2>3
    <3>. QED
      BY <3>1, <3>2 DEF BuildNetwork
  <2>5. PICK d \in (0 .. Len(days) - 1) \ {0} : p = << Min({d, 0}), Max({d, 0}) >>
    BY <1>1, <2>1, <2>3, <2>4
  <2>6. p[1] = 0 /\ p[2] = d /\ d - 1 \in (0 .. Len(days) - 1) \ {0}
    <3>1. d \in Nat \ {0} /\ p = << 0, d >>
      BY <1>1, <2>2, <2>5
    <3>2. p[1] = 0 /\ p[2] = d
      BY <3>1
    <3>. QED
      BY <1>1, <3>1, <3>2
  <2>7. e = << Min({d - 1, 0}), Max({d - 1, 0}) >>
    <3>1. d - 1 \in Nat \ {0}
      BY <1>1, <2>6
    <3>2. Min({d - 1, 0}) = 0 /\ Max({d - 1, 0}) = d - 1
      BY <2>2, <3>1
    <3>3. p[1] = 0 /\ p[2] = d
      BY <2>6
    <3>4. e = << 0, d - 1 >>
      BY <3>3
    <3>. QED
      BY <3>2, <3>4
  <2>8. Network(days, net) = {<< Min({c, 0}), Max({c, 0}) >> : c \in (0 .. Len(days) - 1) \ {0}}
    BY <2>1, <2>3, <2>4
  <2>9. PICK c \in (0 .. Len(days) - 1) \ {0} : c = d - 1
    BY <2>6
  <2>10. Early(Fan(p)) = << Min({c, 0}), Max({c, 0}) >>
    BY <1>2, <2>7, <2>9
  <2>. QED
    BY <1>0, <2>8, <2>10
<1>4. CASE ~ \A mode \in DOMAIN net : net[mode] = Unset
  <2>. DEFINE near(q) == \/ net.bandwidth # Unset /\ q[2] - q[1] <= net.bandwidth
                         \/ net.baseline # Unset /\ Baseline(days, q) <= net.baseline
  <2>1. Network(days, net) = {q \in AllPairs(days) : near(q)}
    BY <1>1, <1>4 DEF Network, BuildNetwork
  <2>2. p \in AllPairs(days) /\ near(p)
    BY <1>1, <2>1
  <2>3. e \in AllPairs(days)
    BY <1>1, <1>2, <2>2 DEF AllPairs
  <2>4. near(e)
    <3>1. CASE net.bandwidth # Unset /\ p[2] - p[1] <= net.bandwidth
      <4>1. net.bandwidth \in Int
        BY <1>1, <3>1 DEF IsMode, Index
      <4>. QED
        BY <1>2, <3>1, <4>1
    <3>2. CASE net.baseline # Unset /\ Baseline(days, p) <= net.baseline
      <4>1. net.baseline \in Int
        BY <1>1, <3>2 DEF IsMode
      <4>2. PICK i \in Nat, k \in Nat : p = << i, k >> /\ p[1] = i /\ p[2] = k
        BY <1>2
      <4>3. i + 1 \in 1 .. Len(days) /\ k \in 1 .. Len(days) /\ k + 1 \in 1 .. Len(days)
        BY <1>1, <2>2, <4>2 DEF AllPairs
      <4>4. days[k] <= days[k + 1] /\ days[k] \in Int /\ days[k + 1] \in Int /\ days[i + 1] \in Int
        BY <1>1, <4>3
      <4>5. Baseline(days, e) = days[k] - days[i + 1] /\ Baseline(days, p) = days[k + 1] - days[i + 1]
        BY <4>2 DEF Baseline
      <4>. QED
        BY <3>2, <4>1, <4>4, <4>5
    <3>. QED
      BY <2>2, <3>1, <3>2
  <2>. QED
    BY <1>0, <1>2, <2>1, <2>3, <2>4
<1>. QED
  BY <1>3, <1>4

LEMMA TriangleType ==
  ASSUME NEW network, IsNetwork(network)
  PROVE  /\ IsFiniteSet(Triangles(network))
         /\ \A t \in Triangles(network) :
              /\ t = << t[1], t[2], t[3] >>
              /\ t[1] \in Nat /\ t[2] \in Nat /\ t[3] \in Nat /\ t[1] < t[2] /\ t[2] < t[3]
              /\ Early(t) \in network /\ Late(t) \in network /\ Spanning(t) \in network
<1>. DEFINE corner == [e \in network \X network |-> << e[1][1], e[1][2], e[2][2] >>]
            corners == {corner[e] : e \in network \X network}
<1>1. \A t \in Triangles(network) : \E p, q \in network : t = << p[1], p[2], q[2] >>
  BY DEF Triangles
<1>2. Triangles(network) \subseteq corners
  <2>1. ASSUME NEW t \in Triangles(network) PROVE t \in corners
    <3>1. PICK p \in network, q \in network : t = << p[1], p[2], q[2] >>
      BY <1>1
    <3>2. << p, q >> \in network \X network /\ corner[<< p, q >>] = t
      BY <3>1
    <3>. QED
      BY <3>2
  <2>. QED
    BY <2>1
<1>3. IsFiniteSet(network \X network)
  BY FS_Product DEF IsNetwork
<1>4. IsFiniteSet(corners)
  <2>1. corner \in Surjection(network \X network, corners)
    BY DEF Surjection
  <2>. HIDE DEF corner, corners
  <2>. QED
    BY <1>3, <2>1, FS_Surjection
<1>5. IsFiniteSet(Triangles(network))
  <2>. HIDE DEF corners
  <2>. QED
    BY <1>2, <1>4, FS_Subset
<1>6. ASSUME NEW t \in Triangles(network)
      PROVE  /\ t = << t[1], t[2], t[3] >>
             /\ t[1] \in Nat /\ t[2] \in Nat /\ t[3] \in Nat /\ t[1] < t[2] /\ t[2] < t[3]
             /\ Early(t) \in network /\ Late(t) \in network /\ Spanning(t) \in network
  <2>1. t = << t[1], t[2], t[3] >>
    BY <1>1
  <2>2. Early(t) \in network /\ Late(t) \in network /\ Spanning(t) \in network
    BY DEF Triangles
  <2>3. << t[1], t[2] >> \in Nat \X Nat /\ << t[2], t[3] >> \in Nat \X Nat /\ t[1] < t[2] /\ t[2] < t[3]
    BY <2>2 DEF IsNetwork, Early, Late
  <2>. QED
    BY <2>1, <2>2, <2>3
<1>. QED
  BY <1>5, <1>6
-------------------------------------------------------------------------------
(* Roots                                                                    *)

LEMMA RoundedNear ==
  /\ \A x \in Int : Rounded(x) \in Int
  /\ \A x, y \in Int : x <= y => Rounded(x) <= Rounded(y)
  /\ \A r, x \in Int : Cycle * r - 1 <= x /\ x <= Cycle * r + 1 => Rounded(x) = r
<1>1. \A x \in Int : Rounded(x) = IF x < 0 THEN -((-x + 2) \div 4) ELSE (x + 2) \div 4
  BY DEF Rounded, Cycle
<1>. QED
  BY <1>1 DEF Cycle

Below(S, a, i) == {j \in S : a[j] < a[i] \/ (a[j] = a[i] /\ j < i)}
IsMedian(S, a, i) == i \in S /\ Cardinality(Below(S, a, i)) = Cardinality(S) \div 2

LEMMA BelowIsLess ==
  ASSUME NEW S \in SUBSET Nat, NEW a, \A k \in S : a[k] \in Int, NEW i \in S
  PROVE  /\ \A k \in Below(S, a, i) : k \in S /\ a[k] <= a[i]
         /\ \A k \in S : a[k] < a[i] => k \in Below(S, a, i)
         /\ i \notin Below(S, a, i)
<1>1. ASSUME NEW k \in Below(S, a, i) PROVE k \in S /\ a[k] <= a[i]
  <2>1. k \in S /\ a[k] \in Int /\ a[i] \in Int /\ (a[k] < a[i] \/ a[k] = a[i])
    BY DEF Below
  <2>. QED
    BY <2>1
<1>2. ~ (i < i) /\ ~ (a[i] < a[i])
  OBVIOUS
<1>. QED
  BY <1>1, <1>2 DEF Below

LEMMA MedianExists ==
  ASSUME NEW S \in SUBSET Nat, IsFiniteSet(S), S # {}, NEW a, \A i \in S : a[i] \in Int
  PROVE  \E i \in S : IsMedian(S, a, i)
<1>. DEFINE R == {e \in S \X S : a[e[1]] < a[e[2]] \/ (a[e[1]] = a[e[2]] /\ e[1] < e[2])}
<1>1. Cardinality(S) \in Nat /\ Cardinality(S) # 0
  BY FS_CardinalityType, FS_EmptySet
<1>2. Cardinality(S) \div 2 \in 0 .. Cardinality(S) - 1
  <2>1. PICK n \in Nat : n = Cardinality(S) /\ n # 0
    BY <1>1
  <2>2. n \div 2 \in 0 .. n - 1
    BY <2>1
  <2>. QED
    BY <2>1, <2>2
<1>3. \A x, y \in S : << x, y >> \in R <=> a[x] < a[y] \/ (a[x] = a[y] /\ x < y)
  OBVIOUS
<1>. HIDE DEF R
<1>4. \A x, y, z \in S : << x, y >> \in R /\ << y, z >> \in R => << x, z >> \in R
  <2>1. TAKE x, y, z \in S
  <2>2. HAVE << x, y >> \in R /\ << y, z >> \in R
  <2>3. /\ a[x] < a[y] \/ (a[x] = a[y] /\ x < y)
        /\ a[y] < a[z] \/ (a[y] = a[z] /\ y < z)
    BY <1>3, <2>2
  <2>4. a[x] < a[z] \/ (a[x] = a[z] /\ x < z)
    BY <2>3
  <2>. QED
    BY <1>3, <2>4
<1>8. \A x \in S : << x, x >> \notin R
  BY <1>3
<1>9. \A x, y \in S : x # y => << x, y >> \in R \/ << y, x >> \in R
  <2>1. TAKE x, y \in S
  <2>2. HAVE x # y
  <2>3. \/ a[x] < a[y] \/ (a[x] = a[y] /\ x < y)
        \/ a[y] < a[x] \/ (a[y] = a[x] /\ y < x)
    BY <2>2
  <2>. QED
    BY <1>3, <2>3
<1>5. PICK k \in 0 .. Cardinality(S) - 1 : k = Cardinality(S) \div 2
  BY <1>2
<1>6. PICK i \in S, less \in SUBSET S :
        (\A z \in S : z \in less <=> << z, i >> \in R) /\ Cardinality(less) = k
  BY <1>4, <1>8, <1>9, RankReached
<1>7. less = Below(S, a, i)
  BY <1>3, <1>6 DEF Below
<1>. QED
  BY <1>5, <1>6, <1>7 DEF IsMedian

(* Moving values into an interval that the median is in leaves the median in it.      *)
LEMMA MedianStays ==
  ASSUME NEW S \in SUBSET Nat, IsFiniteSet(S), NEW a, NEW b,
         \A i \in S : a[i] \in Int /\ b[i] \in Int,
         NEW i, IsMedian(S, a, i), NEW j, IsMedian(S, b, j),
         NEW lo \in Int, NEW hi \in Int, lo <= a[i], a[i] <= hi,
         \A k \in S : b[k] = a[k] \/ (lo <= b[k] /\ b[k] <= hi)
  PROVE  lo <= b[j] /\ b[j] <= hi
<1>1. /\ Below(S, a, i) \in SUBSET S /\ Below(S, b, j) \in SUBSET S /\ i \in S /\ j \in S
      /\ Cardinality(Below(S, a, i)) = Cardinality(Below(S, b, j))
  BY DEF IsMedian, Below
<1>2. IsFiniteSet(Below(S, a, i)) /\ IsFiniteSet(Below(S, b, j))
  BY <1>1, FS_Subset
<1>3. ASSUME b[j] < lo PROVE FALSE
  <2>0. ASSUME NEW k \in S, b[k] <= b[j] PROVE a[k] < a[i]
    <3>1. b[k] \in Int /\ a[k] \in Int /\ b[j] \in Int /\ a[i] \in Int
      BY <1>1
    <3>. QED
      BY <1>3, <2>0, <3>1
  <2>1. Below(S, b, j) \subseteq Below(S, a, i) /\ j \in Below(S, a, i) /\ j \notin Below(S, b, j)
    <3>1. j \notin Below(S, b, j) /\ a[j] < a[i]
      BY <1>1, <2>0, BelowIsLess
    <3>2. \A k \in Below(S, b, j) : k \in S /\ a[k] < a[i]
      BY <1>1, <2>0, BelowIsLess
    <3>3. \A k \in S : a[k] < a[i] => k \in Below(S, a, i)
      BY <1>1, BelowIsLess
    <3>. QED
      BY <1>1, <3>1, <3>2, <3>3
  <2>2. PICK less, more : less = Below(S, b, j) /\ more = Below(S, a, i)
    OBVIOUS
  <2>3. less \in SUBSET more /\ less # more /\ IsFiniteSet(more)
    BY <1>2, <2>1, <2>2
  <2>4. Cardinality(less) < Cardinality(more) /\ Cardinality(less) \in Nat /\ Cardinality(more) \in Nat
    BY <2>3, PartIsSmaller
  <2>. QED
    BY <1>1, <2>2, <2>4
<1>4. ASSUME hi < b[j] PROVE FALSE
  <2>0. ASSUME NEW k \in S, a[k] <= a[i] PROVE b[k] < b[j]
    <3>1. b[k] \in Int /\ a[k] \in Int /\ b[j] \in Int /\ a[i] \in Int
      BY <1>1
    <3>. QED
      BY <1>4, <2>0, <3>1
  <2>1. Below(S, a, i) \subseteq Below(S, b, j) /\ i \in Below(S, b, j) /\ i \notin Below(S, a, i)
    <3>1. i \notin Below(S, a, i) /\ b[i] < b[j]
      BY <1>1, <2>0, BelowIsLess
    <3>2. \A k \in Below(S, a, i) : k \in S /\ b[k] < b[j]
      BY <1>1, <2>0, BelowIsLess
    <3>3. \A k \in S : b[k] < b[j] => k \in Below(S, b, j)
      BY <1>1, BelowIsLess
    <3>. QED
      BY <1>1, <3>1, <3>2, <3>3
  <2>2. PICK less, more : less = Below(S, a, i) /\ more = Below(S, b, j)
    OBVIOUS
  <2>3. less \in SUBSET more /\ less # more /\ IsFiniteSet(more)
    BY <1>2, <2>1, <2>2
  <2>4. Cardinality(less) < Cardinality(more) /\ Cardinality(less) \in Nat /\ Cardinality(more) \in Nat
    BY <2>3, PartIsSmaller
  <2>. QED
    BY <1>1, <2>2, <2>4
<1>. QED
  BY <1>1, <1>3, <1>4

LEMMA PixelsAreFinite ==
  ASSUME NEW n \in Nat, NEW S \in SUBSET (1 .. n)
  PROVE  IsFiniteSet(S) /\ S \in SUBSET Nat
<1>1. IsFiniteSet(1 .. n)
  BY FS_Interval
<1>2. IsFiniteSet(S)
  BY <1>1, FS_Subset
<1>3. \A x \in S : x \in Nat
  OBVIOUS
<1>. QED
  BY <1>2, <1>3

LEMMA Ends ==
  ASSUME NEW x \in Int, NEW y \in Int
  PROVE  /\ \E lo \in Int : lo <= x /\ lo <= y /\ (lo = x \/ lo = y)
         /\ \E hi \in Int : x <= hi /\ y <= hi /\ (hi = x \/ hi = y)
<1>1. CASE x <= y
  BY <1>1
<1>2. CASE y <= x
  BY <1>2
<1>. QED
  BY <1>1, <1>2

(* The residuals of the pixels that share a root.                                *)
Residuals(frame, pixel, t) == [i \in Sharing(frame, pixel, t) |-> Residual(frame[i], t)]

LEMMA RootIsMedian ==
  ASSUME NEW frame, NEW pixel, NEW t, NEW n \in Nat, DOMAIN frame = 1 .. n,
         Sharing(frame, pixel, t) # {},
         \A i \in Sharing(frame, pixel, t) : Residual(frame[i], t) \in Int
  PROVE  \E i : /\ IsMedian(Sharing(frame, pixel, t), Residuals(frame, pixel, t), i)
                /\ Root(frame, pixel, t) = Cycle * Rounded(Residuals(frame, pixel, t)[i])
<1>1. PICK S, a : S = Sharing(frame, pixel, t) /\ a = Residuals(frame, pixel, t)
  OBVIOUS
<1>2. S \in SUBSET (1 .. n) /\ S # {}
  BY <1>1 DEF Sharing
<1>3. IsFiniteSet(S) /\ S \in SUBSET Nat
  BY <1>2, PixelsAreFinite
<1>4. \A i \in S : a[i] = Residual(frame[i], t) /\ a[i] \in Int
  BY <1>1 DEF Residuals
<1>. DEFINE below(i) == {j \in S : \/ Residual(frame[j], t) < Residual(frame[i], t)
                                   \/ Residual(frame[j], t) = Residual(frame[i], t) /\ j < i}
            median == CHOOSE i \in S : Cardinality(below(i)) = Cardinality(S) \div 2
<1>5. \A i \in S : below(i) = Below(S, a, i)
  BY <1>4 DEF Below
<1>6. PICK i \in S : IsMedian(S, a, i)
  BY <1>2, <1>3, <1>4, MedianExists
<1>7. IsMedian(S, a, median)
  <2>1. \E k \in S : Cardinality(below(k)) = Cardinality(S) \div 2
    BY <1>5, <1>6 DEF IsMedian
  <2>2. median \in S /\ Cardinality(below(median)) = Cardinality(S) \div 2
    <3>. HIDE DEF below
    <3>. QED
      BY <2>1
  <2>. QED
    BY <1>5, <2>2 DEF IsMedian
<1>8. Root(frame, pixel, t) = Cycle * Rounded(Residual(frame[median], t))
  BY <1>1 DEF Root
<1>. HIDE DEF median
<1>9. median \in S /\ Residual(frame[median], t) = a[median]
  BY <1>4, <1>7 DEF IsMedian
<1>. QED
  BY <1>1, <1>7, <1>8, <1>9

(* A root is not moved by what moves residuals onto it, give or take a quarter cycle.  *)
StaysNear(frame, moved, pixel, t) ==
  \A i \in Sharing(frame, pixel, t) :
    /\ Residual(frame[i], t) \in Int /\ Residual(moved[i], t) \in Int
    /\ \/ Residual(moved[i], t) = Residual(frame[i], t)
       \/ /\ Root(frame, pixel, t) - 1 <= Residual(moved[i], t)
          /\ Residual(moved[i], t) <= Root(frame, pixel, t) + 1

LEMMA RootStays ==
  ASSUME NEW frame, NEW moved, NEW pixel, NEW t, NEW n \in Nat,
         DOMAIN frame = 1 .. n, DOMAIN moved = 1 .. n,
         Sharing(frame, pixel, t) # {}, Sharing(moved, pixel, t) = Sharing(frame, pixel, t),
         StaysNear(frame, moved, pixel, t)
  PROVE  Root(moved, pixel, t) = Root(frame, pixel, t) /\ Root(frame, pixel, t) \in Int
<1>1. PICK S : S = Sharing(frame, pixel, t) /\ S = Sharing(moved, pixel, t)
  OBVIOUS
<1>2. PICK a, b : a = Residuals(frame, pixel, t) /\ b = Residuals(moved, pixel, t)
  OBVIOUS
<1>3. /\ \A k \in S : a[k] = Residual(frame[k], t) /\ b[k] = Residual(moved[k], t)
      /\ \A k \in S : a[k] \in Int /\ b[k] \in Int
  BY <1>1, <1>2 DEF Residuals, StaysNear
<1>4. PICK i : IsMedian(S, a, i) /\ Root(frame, pixel, t) = Cycle * Rounded(a[i])
  <2>1. \A k \in Sharing(frame, pixel, t) : Residual(frame[k], t) \in Int
    BY DEF StaysNear
  <2>. QED
    BY <1>1, <1>2, <2>1, RootIsMedian
<1>5. PICK j : IsMedian(S, b, j) /\ Root(moved, pixel, t) = Cycle * Rounded(b[j])
  <2>1. \A k \in Sharing(moved, pixel, t) : Residual(moved[k], t) \in Int
    BY DEF StaysNear
  <2>. QED
    BY <1>1, <1>2, <2>1, RootIsMedian
<1>6. i \in S /\ j \in S /\ a[i] \in Int /\ b[j] \in Int
  BY <1>3, <1>4, <1>5 DEF IsMedian
<1>7. PICK r \in Int : r = Rounded(a[i])
  BY <1>6, RoundedNear
<1>8. Root(frame, pixel, t) = Cycle * r /\ Cycle * r \in Int
  BY <1>4, <1>7 DEF Cycle
<1>9. PICK lo \in Int, hi \in Int :
        /\ lo <= a[i] /\ a[i] <= hi /\ lo <= Cycle * r - 1 /\ Cycle * r + 1 <= hi
        /\ Rounded(lo) = r /\ Rounded(hi) = r
  <2>1. PICK R \in Int : R = Cycle * r
    BY <1>8
  <2>2. Rounded(R - 1) = r /\ Rounded(R + 1) = r
    <3>1. \A x \in Int : R - 1 <= x /\ x <= R + 1 => Rounded(x) = r
      BY <2>1, RoundedNear
    <3>. QED
      BY <3>1
  <2>3. PICK lo \in Int : lo <= a[i] /\ lo <= R - 1 /\ (lo = a[i] \/ lo = R - 1)
    BY <1>6, Ends
  <2>4. PICK hi \in Int : a[i] <= hi /\ R + 1 <= hi /\ (hi = a[i] \/ hi = R + 1)
    BY <1>6, Ends
  <2>5. Rounded(lo) = r /\ Rounded(hi) = r
    BY <1>7, <2>2, <2>3, <2>4
  <2>. QED
    BY <2>1, <2>3, <2>4, <2>5
<1>10. \A k \in S : b[k] = a[k] \/ (lo <= b[k] /\ b[k] <= hi)
  BY <1>1, <1>3, <1>8, <1>9 DEF StaysNear
<1>11. S \in SUBSET Nat /\ IsFiniteSet(S)
  <2>1. S \in SUBSET (1 .. n)
    BY <1>1 DEF Sharing
  <2>. QED
    BY <2>1, PixelsAreFinite
<1>12. lo <= b[j] /\ b[j] <= hi
  <2>1. IsMedian(S, a, i) /\ IsMedian(S, b, j) /\ lo <= a[i] /\ a[i] <= hi
    BY <1>4, <1>5, <1>9
  <2>2. \A k \in S : a[k] \in Int /\ b[k] \in Int
    BY <1>3
  <2>. QED
    BY <1>10, <1>11, <2>1, <2>2, MedianStays
<1>13. Rounded(b[j]) = r
  <2>1. Rounded(lo) <= Rounded(b[j]) /\ Rounded(b[j]) <= Rounded(hi) /\ Rounded(b[j]) \in Int
    BY <1>6, <1>12, RoundedNear
  <2>. QED
    BY <1>9, <2>1
<1>. QED
  BY <1>5, <1>8, <1>13

-------------------------------------------------------------------------------
(* Pixels                                                                   *)

LEMMA StackType ==
  ASSUME NEW r \in Runs
  PROVE  /\ Len(r.stack) \in Nat /\ DOMAIN r.stack = 1 .. Len(r.stack)
         /\ r.stack = [i \in 1 .. Len(r.stack) |-> r.stack[i]]
         /\ \A i \in 1 .. Len(r.stack) : IsPixel(Network(r.days, r.net), r.stack[i])
<1>1. PICK s, n : s = r.stack /\ n = Len(r.stack)
  OBVIOUS
<1>2. s = [i \in 1 .. n |-> s[i]] /\ n \in Nat
  BY <1>1, RunsAssumption
<1>3. DOMAIN s = 1 .. n
  BY <1>2
<1>. QED
  BY <1>1, <1>2, <1>3, RunsAssumption

(* A repair changes the phases, and a residual by whole cycles.                   *)
LEMMA RepairedPixel ==
  ASSUME NEW network, IsNetwork(network), NEW pixel, IsPixel(network, pixel),
         NEW cycles \in [network -> Int]
  PROVE  /\ IsPixel(network, Repaired(pixel, cycles))
         /\ Repaired(pixel, cycles).missing = pixel.missing
         /\ Repaired(pixel, cycles).label = pixel.label
         /\ \A t \in Triangles(network) :
              /\ Residual(pixel, t) \in Int /\ Misses(cycles, t) \in Int
              /\ Residual(Repaired(pixel, cycles), t) = Residual(pixel, t) + Cycle * Misses(cycles, t)
<1>1. pixel = [phase |-> pixel.phase, missing |-> pixel.missing, label |-> pixel.label]
      /\ pixel.phase \in [network -> Int] /\ pixel.missing \subseteq network
      /\ pixel.label \in [network -> Nat]
  BY DEF IsPixel
<1>. DEFINE phase == [p \in network |-> pixel.phase[p] + Cycle * cycles[p]]
<1>2. Repaired(pixel, cycles)
        = [phase |-> phase, missing |-> pixel.missing, label |-> pixel.label]
  <2>1. PICK ph, mi, la : ph = pixel.phase /\ mi = pixel.missing /\ la = pixel.label
    OBVIOUS
  <2>2. pixel = [phase |-> ph, missing |-> mi, label |-> la] /\ DOMAIN ph = network
    BY <1>1, <2>1
  <2>. QED
    BY <2>1, <2>2 DEF Repaired
<1>3. phase \in [network -> Int]
  BY <1>1 DEF Cycle
<1>4. ASSUME NEW t \in Triangles(network)
      PROVE  /\ Misses(pixel.phase, t) \in Int /\ Misses(cycles, t) \in Int
             /\ Misses(phase, t) = Misses(pixel.phase, t) + Cycle * Misses(cycles, t)
  <2>1. PICK e \in network, l \in network, s \in network : e = Early(t) /\ l = Late(t) /\ s = Spanning(t)
    BY TriangleType
  <2>2. /\ pixel.phase[e] \in Int /\ pixel.phase[l] \in Int /\ pixel.phase[s] \in Int
        /\ cycles[e] \in Int /\ cycles[l] \in Int /\ cycles[s] \in Int
    BY <1>1
  <2>. QED
    BY <2>1, <2>2 DEF Misses, Cycle
<1>. HIDE DEF phase
<1>. QED
  BY <1>1, <1>2, <1>3, <1>4 DEF IsPixel, Residual

(* A problem without an error has none at any loop.                              *)
Solvable(network, frame, pixel) ==
  /\ \A t \in Triangles(network) : WhyNone(frame, pixel, t) = "none"
  /\ Problem(network, frame, pixel).misclosure
       = [t \in Triangles(network) |-> Rounded(Off(frame, pixel, t))]

LEMMA ProblemSolved ==
  ASSUME NEW network, IsNetwork(network), NEW frame, NEW pixel,
         Problem(network, frame, pixel).error = "none"
  PROVE  Solvable(network, frame, pixel)
<1>. DEFINE failing == {t \in Triangles(network) : WhyNone(frame, pixel, t) # "none"}
            first == CHOOSE t \in failing : \A u \in failing \ {t} : Before(t, u)
            R == {e \in failing \X failing : Before(e[1], e[2])}
<1>1. IsFiniteSet(failing) /\ \A t \in failing : /\ t = << t[1], t[2], t[3] >>
                                                 /\ t[1] \in Nat /\ t[2] \in Nat /\ t[3] \in Nat
  <2>1. failing \in SUBSET Triangles(network)
    OBVIOUS
  <2>2. IsFiniteSet(failing)
    BY <2>1, TriangleType, FS_Subset
  <2>. QED
    BY <2>1, <2>2, TriangleType
<1>2. ASSUME failing # {} PROVE first \in failing
  <2>1. \A t, u \in failing : << t, u >> \in R <=> Before(t, u)
    OBVIOUS
  <2>. HIDE DEF failing, R
  <2>2. \A x, y, z \in failing : << x, y >> \in R /\ << y, z >> \in R => << x, z >> \in R
    BY <1>1, <2>1 DEF Before
  <2>3. \A x \in failing : << x, x >> \notin R
    BY <1>1, <2>1 DEF Before
  <2>4. \A x, y \in failing : x # y => << x, y >> \in R \/ << y, x >> \in R
    <3>1. TAKE x, y \in failing
    <3>2. HAVE x # y
    <3>3. x[1] # y[1] \/ x[2] # y[2] \/ x[3] # y[3]
      BY <1>1, <3>2
    <3>. QED
      BY <1>1, <2>1, <3>3 DEF Before
  <2>5. Cardinality(failing) \in Nat /\ Cardinality(failing) # 0
    BY <1>1, <1>2, FS_CardinalityType, FS_EmptySet
  <2>6. PICK k \in 0 .. Cardinality(failing) - 1 : k = 0
    BY <2>5
  <2>7. PICK x \in failing, less \in SUBSET failing :
          (\A z \in failing : z \in less <=> << z, x >> \in R) /\ Cardinality(less) = k
    BY <1>1, <2>2, <2>3, <2>4, RankReached
  <2>8. less = {}
    BY <1>1, <2>6, <2>7, FS_Subset, FS_EmptySet
  <2>9. \A u \in failing \ {x} : Before(x, u)
    BY <2>1, <2>4, <2>7, <2>8
  <2>. QED
    BY <2>9
<1>3. failing = {}
  <2>1. SUFFICES ASSUME failing # {} PROVE FALSE
    OBVIOUS
  <2>2. Problem(network, frame, pixel) = [error |-> WhyNone(frame, pixel, first), misclosure |-> << >>]
    BY <2>1 DEF Problem
  <2>3. WhyNone(frame, pixel, first) = "none"
    <3>. HIDE DEF first
    <3>. QED
      BY <2>2
  <2>. HIDE DEF first
  <2>. QED
    BY <1>2, <2>1, <2>3
<1>. QED
  BY <1>3 DEF Problem, Solvable

(* What a loop has when nothing is wrong with it.                                  *)
LEMMA NothingWrong ==
  ASSUME NEW frame, NEW pixel, NEW t, WhyNone(frame, pixel, t) = "none",
         Off(frame, pixel, t) \in Int
  PROVE  /\ Evaluable(frame, pixel, t)
         /\ Rounded(Off(frame, pixel, t)) \in Int
         /\ Cycle * Rounded(Off(frame, pixel, t)) - 1 <= Off(frame, pixel, t)
         /\ Off(frame, pixel, t) <= Cycle * Rounded(Off(frame, pixel, t)) + 1
<1>1. PICK x \in Int : x = Off(frame, pixel, t)
  OBVIOUS
<1>2. PICK r \in Int : r = Rounded(x)
  BY RoundedNear
<1>3. Evaluable(frame, pixel, t) /\ ~ (Magnitude(x - Cycle * r) > 1)
  BY <1>1, <1>2 DEF WhyNone
<1>. QED
  BY <1>1, <1>2, <1>3 DEF Magnitude, Cycle

-------------------------------------------------------------------------------
(* Nodes and arcs                                                           *)

LEMMA NodesAre ==
  ASSUME NEW network, IsNetwork(network), network # {}
  PROVE  \E m \in Nat \ {0} :
           /\ Nodes(network) = 0 .. m
           /\ \A p \in network : /\ p = << p[1], p[2] >> /\ p[1] \in 0 .. m /\ p[2] \in 1 .. m
                                 /\ p[1] < p[2]
<1>. DEFINE late == [p \in network |-> p[2]]
            ends == {late[p] : p \in network}
            R == {e \in Nat \X Nat : e[1] > e[2]}
<1>1. \A p \in network : p = << p[1], p[2] >> /\ p[1] \in Nat /\ p[2] \in Nat \ {0} /\ p[1] < p[2]
  BY DEF IsNetwork
<1>2. IsFiniteSet(ends) /\ ends # {} /\ ends \in SUBSET (Nat \ {0})
  <2>1. late \in Surjection(network, ends)
    BY DEF Surjection
  <2>2. ends # {} /\ ends \in SUBSET (Nat \ {0})
    BY <1>1
  <2>. HIDE DEF late, ends
  <2>3. IsFiniteSet(ends)
    BY <2>1, FS_Surjection DEF IsNetwork
  <2>. QED
    BY <2>2, <2>3
<1>3. \A x, y \in Nat : << x, y >> \in R <=> x > y
  OBVIOUS
<1>4. PICK m \in ends : \A n \in ends : m >= n
  <2>. HIDE DEF ends, R
  <2>1. Cardinality(ends) \in Nat /\ Cardinality(ends) # 0
    BY <1>2, FS_CardinalityType, FS_EmptySet
  <2>2. PICK k \in 0 .. Cardinality(ends) - 1 : k = 0
    BY <2>1
  <2>3. /\ \A x, y, z \in ends : << x, y >> \in R /\ << y, z >> \in R => << x, z >> \in R
        /\ \A x \in ends : << x, x >> \notin R
        /\ \A x, y \in ends : x # y => << x, y >> \in R \/ << y, x >> \in R
    BY <1>2, <1>3
  <2>4. PICK x \in ends, less \in SUBSET ends :
          (\A z \in ends : z \in less <=> << z, x >> \in R) /\ Cardinality(less) = k
    BY <1>2, <2>3, RankReached
  <2>5. less = {}
    <3>1. IsFiniteSet(less) /\ Cardinality(less) = 0
      BY <1>2, <2>2, <2>4, FS_Subset
    <3>. QED
      BY <3>1, FS_EmptySet
  <2>6. \A z \in ends : x >= z
    <3>1. TAKE z \in ends
    <3>2. << z, x >> \notin R /\ z \in Nat /\ x \in Nat
      BY <1>2, <2>4, <2>5
    <3>. QED
      BY <1>3, <3>2
  <2>. QED
    BY <2>6
<1>5. m \in Nat \ {0} /\ \A p \in network : p[2] <= m
  BY <1>1, <1>2, <1>4
<1>6. ends = {p[2] : p \in network} /\ Max(ends) = m
  <2>1. ends = {p[2] : p \in network}
    OBVIOUS
  <2>. HIDE DEF ends
  <2>2. Max(ends) \in ends /\ \A n \in ends : Max(ends) >= n
    BY <1>4 DEF Max
  <2>3. Max(ends) >= m /\ m >= Max(ends) /\ Max(ends) \in Nat /\ m \in Nat
    BY <1>2, <1>4, <2>2
  <2>. QED
    BY <2>1, <2>3
<1>. HIDE DEF ends
<1>7. Nodes(network) = 0 .. m
  BY <1>6 DEF Nodes
<1>. QED
  BY <1>1, <1>5, <1>7

LEMMA InOrderIs ==
  ASSUME NEW network, IsNetwork(network)
  PROVE  \E n \in Nat :
           /\ InOrder(network) \in [1 .. n -> network] /\ n = Cardinality(network)
           /\ \A p \in network : \E k \in 1 .. n : InOrder(network)[k] = p
<1>. DEFINE before(p) == {q \in network : q[1] < p[1] \/ (q[1] = p[1] /\ q[2] < p[2])}
            R == {e \in network \X network : e[1] \in before(e[2])}
            n == Cardinality(network)
            order == [k \in 1 .. n |-> CHOOSE p \in network : Cardinality(before(p)) = k - 1]
<1>1. \A p \in network : p = << p[1], p[2] >> /\ p[1] \in Nat /\ p[2] \in Nat
  BY DEF IsNetwork
<1>2. n \in Nat /\ IsFiniteSet(network)
  BY FS_CardinalityType DEF IsNetwork
<1>3. \A x, y \in network : << x, y >> \in R <=> x[1] < y[1] \/ (x[1] = y[1] /\ x[2] < y[2])
  OBVIOUS
<1>4. \A x, y \in network : << x, y >> \in R <=> x \in before(y)
  OBVIOUS
<1>5. /\ \A x, y, z \in network : << x, y >> \in R /\ << y, z >> \in R => << x, z >> \in R
      /\ \A x \in network : << x, x >> \notin R
      /\ \A x, y \in network : x # y => << x, y >> \in R \/ << y, x >> \in R
  <2>. HIDE DEF R
  <2>1. \A x, y, z \in network : << x, y >> \in R /\ << y, z >> \in R => << x, z >> \in R
    BY <1>1, <1>3
  <2>2. \A x \in network : << x, x >> \notin R
    BY <1>1, <1>3
  <2>3. \A x, y \in network : x # y => << x, y >> \in R \/ << y, x >> \in R
    <3>1. TAKE x, y \in network
    <3>2. HAVE x # y
    <3>3. x[1] # y[1] \/ x[2] # y[2]
      BY <1>1, <3>2
    <3>. QED
      BY <1>1, <1>3, <3>3
  <2>. QED
    BY <2>1, <2>2, <2>3
<1>6. \A k \in 1 .. n : order[k] \in network /\ Cardinality(before(order[k])) = k - 1
  <2>1. TAKE k \in 1 .. n
  <2>2. PICK j \in 0 .. Cardinality(network) - 1 : j = k - 1
    BY <1>2
  <2>3. \E x \in network : Cardinality(before(x)) = k - 1
    <3>. HIDE DEF R, before
    <3>1. PICK x \in network, less \in SUBSET network :
            (\A z \in network : z \in less <=> << z, x >> \in R) /\ Cardinality(less) = j
      BY <1>2, <1>5, RankReached
    <3>2. before(x) \in SUBSET network
      BY DEF before
    <3>3. less = before(x)
      BY <1>4, <3>1, <3>2
    <3>. QED
      BY <2>2, <3>1, <3>3
  <2>. HIDE DEF before
  <2>. QED
    BY <2>3
<1>7. order \in Injection(1 .. n, network)
  <2>1. order \in [1 .. n -> network]
    BY <1>6
  <2>2. \A j, k \in 1 .. n : order[j] = order[k] => j = k
    <3>. HIDE DEF order, before
    <3>1. TAKE j, k \in 1 .. n
    <3>2. HAVE order[j] = order[k]
    <3>3. j - 1 = k - 1
      BY <1>6, <3>2
    <3>. QED
      BY <1>2, <3>3
  <2>. HIDE DEF order
  <2>. QED
    BY <2>1, <2>2 DEF Injection, IsInjective
<1>8. IsFiniteSet(1 .. n) /\ Cardinality(1 .. n) = n
  <2>1. IsFiniteSet(1 .. n) /\ Cardinality(1 .. n) = IF 1 > n THEN 0 ELSE n - 1 + 1
    BY <1>2, FS_Interval
  <2>. QED
    BY <1>2, <2>1
<1>9. order \in Surjection(1 .. n, network)
  <2>. HIDE DEF order
  <2>. QED
    BY <1>2, <1>7, <1>8, FS_Injection
<1>10. order \in [1 .. n -> network] /\ \A p \in network : \E k \in 1 .. n : order[k] = p
  <2>. HIDE DEF order
  <2>. QED
    BY <1>9 DEF Surjection
<1>11. InOrder(network) = order
  BY DEF InOrder
<1>. QED
  BY <1>2, <1>10, <1>11

(* The sequences of a sequence, one after another.                               *)
LEMMA FlattenSeqIs ==
  ASSUME NEW S, NEW n \in Nat, NEW seqs \in [1 .. n -> Seq(S)]
  PROVE  /\ FlattenSeq(seqs) \in Seq(S)
         /\ \A i \in 1 .. n : \A j \in 1 .. Len(seqs[i]) :
              \E k \in 1 .. Len(FlattenSeq(seqs)) : FlattenSeq(seqs)[k] = seqs[i][j]
<1>1. Len(seqs) = n /\ seqs \in Seq(Seq(S))
  BY LenProperties
<1>2. \A i \in 1 .. n : seqs[i] \in Seq(S) /\ Len(seqs[i]) \in Nat
  BY LenProperties
<1>. DEFINE step == [e \in (1 .. n) \X Seq(S) |-> e[2] \o seqs[e[1]]]
<1>3. step \in [(1 .. n) \X Seq(S) -> Seq(S)]
  <2>1. ASSUME NEW e \in (1 .. n) \X Seq(S) PROVE step[e] \in Seq(S)
    <3>1. e[1] \in 1 .. n /\ e[2] \in Seq(S)
      OBVIOUS
    <3>. QED
      BY <1>2, <3>1, ConcatProperties
  <2>. QED
    BY <2>1
<1>4. PICK f : IsChain(f, n, Seq(S), << >>, step)
  <2>1. << >> \in Seq(S)
    BY EmptySeq
  <2>2. PICK T, none : T = Seq(S) /\ none = << >>
    OBVIOUS
  <2>3. none \in T /\ step \in [(1 .. n) \X T -> T]
    BY <1>3, <2>1, <2>2
  <2>. HIDE DEF step
  <2>4. \E f : IsChain(f, n, T, none, step)
    BY <2>3, ChainExists
  <2>. QED
    BY <2>2, <2>4
<1>12. f \in [0 .. n -> Seq(S)] /\ f[0] = << >> /\ \A k \in 1 .. n : f[k] = step[<< k, f[k - 1] >>]
  <2>. HIDE DEF step
  <2>. QED
    BY <1>4 DEF IsChain
<1>5. \A k \in 1 .. n : f[k] = f[k - 1] \o seqs[k] /\ f[k - 1] \in Seq(S)
  <2>1. TAKE k \in 1 .. n
  <2>2. f[k - 1] \in Seq(S) /\ << k, f[k - 1] >> \in (1 .. n) \X Seq(S)
    <3>1. k - 1 \in 0 .. n
      OBVIOUS
    <3>2. f[k - 1] \in Seq(S)
      BY <1>12, <3>1
    <3>. QED
      BY <3>2
  <2>3. step[<< k, f[k - 1] >>] = f[k - 1] \o seqs[k]
    BY <2>2
  <2>. QED
    BY <1>12, <2>2, <2>3
<1>6. \A k \in 1 .. n : k = 1 => f[k] = seqs[k]
  <2>1. \A s \in Seq(S) : << >> \o s = s
    BY ConcatEmptySeq
  <2>2. ASSUME NEW k \in 1 .. n, k = 1 PROVE f[k] = seqs[k]
    <3>1. k - 1 = 0 /\ seqs[k] \in Seq(S)
      BY <1>2, <2>2
    <3>2. f[k] = f[0] \o seqs[k]
      BY <1>5, <3>1
    <3>3. f[k] = << >> \o seqs[k]
      BY <1>12, <3>2
    <3>. QED
      BY <2>1, <3>1, <3>3
  <2>. QED
    BY <2>2
<1>7. FlattenSeq(seqs) = f[n]
  <2>1. CASE n = 0
    <3>1. seqs = << >>
      BY <1>1, <2>1, EmptySeq
    <3>. QED
      BY <1>1, <1>12, <2>1, <3>1 DEF FlattenSeq
  <2>2. CASE n # 0
    <3>. DEFINE Body(h) == [i \in 1 .. n |-> IF i = 1 THEN seqs[i] ELSE h[i - 1] \o seqs[i]]
                g == [i \in 1 .. n |-> f[i]]
    <3>1. g = Body(g)
      <4>1. \A i \in 1 .. n : i # 1 => i - 1 \in 1 .. n
        OBVIOUS
      <4>2. \A i \in 1 .. n : g[i] = Body(g)[i]
        BY <1>5, <1>6, <4>1
      <4>. QED
        BY <4>2
    <3>2. PICK h : FlattenSeq(seqs) = h[n] /\ h = Body(h)
      <4>1. \E h : h = Body(h)
        BY <3>1
      <4>. QED
        BY <1>1, <2>2, <4>1 DEF FlattenSeq
    <3>3. \A i \in 1 .. n : h[i] = IF i = 1 THEN seqs[i] ELSE h[i - 1] \o seqs[i]
      BY <3>2
    <3>. DEFINE X == {k \in 0 .. n - 1 : h[k + 1] = f[k + 1]}
    <3>4. n - 1 \in Nat
      BY <2>2
    <3>5. 0 \in X
      <4>1. h[1] = seqs[1] /\ f[1] = seqs[1] /\ 0 \in 0 .. n - 1
        BY <1>6, <2>2, <3>3
      <4>. QED
        BY <4>1
    <3>6. ASSUME NEW k \in 0 .. (n - 1) - 1, k \in X PROVE k + 1 \in X
      <4>1. PICK i \in 1 .. n : i = k + 2 /\ i # 1 /\ i - 1 = k + 1 /\ k + 1 \in 0 .. n - 1
                                 /\ (k + 1) + 1 = i
        BY <3>4
      <4>2. h[k + 1] = f[k + 1]
        BY <3>6
      <4>3. h[i] = h[k + 1] \o seqs[i]
        BY <3>3, <4>1
      <4>4. f[i] = f[k + 1] \o seqs[i]
        BY <1>5, <4>1
      <4>5. h[i] = f[i]
        BY <4>2, <4>3, <4>4
      <4>. QED
        BY <4>1, <4>5
    <3>7. \A k \in 0 .. n - 1 : k \in X
      <4>1. PICK m \in Nat : m = n - 1
        BY <3>4
      <4>. HIDE DEF X
      <4>2. \A k \in 0 .. m - 1 : k \in X => k + 1 \in X
        BY <3>6, <4>1
      <4>3. \A k \in 0 .. m : k \in X
        BY <3>5, <4>2, UpTo
      <4>. QED
        BY <4>1, <4>3
    <3>8. n - 1 \in 0 .. n - 1 /\ (n - 1) + 1 = n
      BY <3>4
    <3>9. h[(n - 1) + 1] = f[(n - 1) + 1]
      BY <3>7, <3>8
    <3>. QED
      BY <3>2, <3>8, <3>9
  <2>. QED
    BY <2>1, <2>2
<1>. DEFINE Kept(k) == \A i \in 1 .. k : \A j \in 1 .. Len(seqs[i]) : \E l \in 1 .. Len(f[k]) : f[k][l] = seqs[i][j]
            Y == {k \in 0 .. n : Kept(k)}
<1>8. 0 \in Y
  OBVIOUS
<1>9. ASSUME NEW m \in 0 .. n - 1, m \in Y PROVE m + 1 \in Y
  <2>0. PICK k \in 1 .. n : k = m + 1 /\ m = k - 1
    OBVIOUS
  <2>1. /\ f[k] = f[m] \o seqs[k] /\ f[m] \in Seq(S) /\ seqs[k] \in Seq(S)
    BY <1>2, <1>5, <2>0
  <2>2. /\ Len(f[k]) = Len(f[m]) + Len(seqs[k]) /\ Len(f[m]) \in Nat /\ Len(seqs[k]) \in Nat
        /\ \A l \in 1 .. Len(f[m]) + Len(seqs[k]) :
              f[k][l] = IF l <= Len(f[m]) THEN f[m][l] ELSE seqs[k][l - Len(f[m])]
    BY <2>1, ConcatProperties, LenProperties
  <2>3. ASSUME NEW i \in 1 .. k, NEW j \in 1 .. Len(seqs[i])
        PROVE  \E l \in 1 .. Len(f[k]) : f[k][l] = seqs[i][j]
    <3>1. CASE i = k
      <4>1. PICK a \in Nat, b \in Nat : a = Len(f[m]) /\ b = Len(seqs[k])
        BY <2>2
      <4>2. j \in 1 .. b /\ Len(f[k]) = a + b
        BY <2>2, <3>1, <4>1
      <4>3. a + j \in 1 .. a + b /\ ~ (a + j <= a) /\ (a + j) - a = j
        BY <4>2
      <4>4. f[k][a + j] = seqs[k][(a + j) - a]
        BY <2>2, <4>1, <4>3
      <4>. QED
        BY <3>1, <4>2, <4>3, <4>4
    <3>2. CASE i # k
      <4>1. i \in 1 .. m
        BY <2>0, <3>2
      <4>2. PICK l \in 1 .. Len(f[m]) : f[m][l] = seqs[i][j]
        BY <1>9, <4>1
      <4>3. l \in 1 .. Len(f[k]) /\ l <= Len(f[m])
        BY <2>2
      <4>. QED
        BY <2>2, <4>2, <4>3
    <3>. QED
      BY <3>1, <3>2
  <2>. QED
    BY <2>0, <2>3
<1>10. n \in Y
  <2>. HIDE DEF Y
  <2>1. \A k \in 0 .. n - 1 : k \in Y => k + 1 \in Y
    BY <1>9
  <2>2. \A k \in 0 .. n : k \in Y
    BY <1>8, <2>1, UpTo
  <2>. QED
    BY <2>2
<1>. QED
  BY <1>12, <1>7, <1>10

(* The arcs of a circulation: each pair, each way there is room.                   *)
Arc(p, push) ==
  [from |-> IF push = 1 THEN p[1] ELSE p[2], to |-> IF push = 1 THEN p[2] ELSE p[1],
   cost |-> -push * costs[p], pair |-> p, push |-> push]

Room == {a \in {Arc(p, push) : p \in pairs, push \in {1, -1}} : HasRoom(a)}

LEMMA ResidualArcsAre ==
  ASSUME IsNetwork(pairs)
  PROVE  /\ ResidualArcs \in Seq(Room)
         /\ \A a \in Room : \E k \in 1 .. Len(ResidualArcs) : ResidualArcs[k] = a
<1>. DEFINE room(a) == IF HasRoom(a) THEN << a >> ELSE << >>
            both(p) == room(Arc(p, 1)) \o room(Arc(p, -1))
            sorted == InOrder(pairs)
            seqs == [i \in DOMAIN sorted |-> both(sorted[i])]
<1>1. ResidualArcs = FlattenSeq(seqs)
  BY DEF ResidualArcs, Arc
<1>2. PICK n \in Nat : sorted \in [1 .. n -> pairs] /\ \A p \in pairs : \E k \in 1 .. n : sorted[k] = p
  BY InOrderIs
<1>3. \A p \in pairs : /\ HasRoom(Arc(p, 1)) => Arc(p, 1) \in Room
                       /\ HasRoom(Arc(p, -1)) => Arc(p, -1) \in Room
  BY DEF Room
<1>4. ASSUME NEW p \in pairs
      PROVE  /\ both(p) \in Seq(Room)
             /\ \A a \in {Arc(p, 1), Arc(p, -1)} : HasRoom(a) => \E j \in 1 .. Len(both(p)) : both(p)[j] = a
  <2>1. PICK a, b, x, y, S : a = Arc(p, 1) /\ b = Arc(p, -1) /\ x = room(a) /\ y = room(b) /\ S = Room
    OBVIOUS
  <2>2. (HasRoom(a) => a \in S) /\ (HasRoom(b) => b \in S)
    BY <1>3, <2>1
  <2>3. /\ x \in Seq(S) /\ (HasRoom(a) => Len(x) = 1 /\ x[1] = a) /\ Len(x) \in {0, 1}
        /\ y \in Seq(S) /\ (HasRoom(b) => Len(y) = 1 /\ y[1] = b) /\ Len(y) \in {0, 1}
    BY <2>1, <2>2
  <2>4. /\ x \o y \in Seq(S) /\ Len(x \o y) = Len(x) + Len(y)
        /\ \A i \in 1 .. Len(x) + Len(y) : (x \o y)[i] = IF i <= Len(x) THEN x[i] ELSE y[i - Len(x)]
    BY <2>3, ConcatProperties
  <2>5. ASSUME HasRoom(a) PROVE \E j \in 1 .. Len(x \o y) : (x \o y)[j] = a
    <3>1. 1 \in 1 .. Len(x) + Len(y) /\ 1 <= Len(x)
      BY <2>3, <2>5
    <3>. QED
      BY <2>3, <2>4, <2>5, <3>1
  <2>6. ASSUME HasRoom(b) PROVE \E j \in 1 .. Len(x \o y) : (x \o y)[j] = b
    <3>1. PICK l \in {0, 1} : l = Len(x) /\ Len(y) = 1
      BY <2>3, <2>6
    <3>2. l + 1 \in 1 .. l + 1 /\ ~ (l + 1 <= l) /\ (l + 1) - l = 1
      OBVIOUS
    <3>3. (x \o y)[l + 1] = y[1] /\ l + 1 \in 1 .. Len(x \o y)
      BY <2>4, <3>1, <3>2
    <3>. QED
      BY <2>3, <2>6, <3>3
  <2>. QED
    BY <2>1, <2>4, <2>5, <2>6
<1>5. seqs \in [1 .. n -> Seq(Room)]
  <2>1. DOMAIN sorted = 1 .. n /\ \A i \in 1 .. n : both(sorted[i]) \in Seq(Room)
    BY <1>2, <1>4
  <2>. HIDE DEF both, sorted
  <2>. QED
    BY <2>1
<1>6. /\ FlattenSeq(seqs) \in Seq(Room)
      /\ \A i \in 1 .. n : \A j \in 1 .. Len(seqs[i]) :
           \E k \in 1 .. Len(FlattenSeq(seqs)) : FlattenSeq(seqs)[k] = seqs[i][j]
  <2>1. PICK S : S = Room
    OBVIOUS
  <2>. HIDE DEF seqs
  <2>2. seqs \in [1 .. n -> Seq(S)]
    BY <1>5, <2>1
  <2>3. /\ FlattenSeq(seqs) \in Seq(S)
        /\ \A i \in 1 .. n : \A j \in 1 .. Len(seqs[i]) :
             \E k \in 1 .. Len(FlattenSeq(seqs)) : FlattenSeq(seqs)[k] = seqs[i][j]
    BY <2>2, FlattenSeqIs
  <2>. QED
    BY <2>1, <2>3
<1>7. ASSUME NEW a \in Room
      PROVE  \E k \in 1 .. Len(FlattenSeq(seqs)) : FlattenSeq(seqs)[k] = a
  <2>1. PICK p \in pairs : a \in {Arc(p, 1), Arc(p, -1)} /\ HasRoom(a)
    BY DEF Room
  <2>2. PICK i \in 1 .. n : sorted[i] = p
    BY <1>2
  <2>3. PICK j \in 1 .. Len(both(p)) : both(p)[j] = a
    BY <1>4, <2>1
  <2>4. seqs[i] = both(p)
    <3>1. i \in DOMAIN sorted
      BY <1>2
    <3>. HIDE DEF both, sorted
    <3>. QED
      BY <2>2, <3>1
  <2>. HIDE DEF both, seqs
  <2>. QED
    BY <1>6, <2>2, <2>3, <2>4
<1>. QED
  BY <1>1, <1>6, <1>7

IsGraph(nodes, A) ==
  \A a \in A : a.from \in nodes /\ a.to \in nodes /\ a.from # a.to /\ a.cost \in Int

LEMMA RoomIsGraph ==
  ASSUME IsNetwork(pairs), pairs # {}, costs \in [pairs -> Int]
  PROVE  /\ IsGraph(Nodes(pairs), Room)
         /\ \A a \in Room :
              /\ a.pair \in pairs /\ a.push \in {1, -1} /\ a.cost = -a.push * costs[a.pair]
              /\ flow[a.pair] + a.push \in -1 .. 1
              /\ a.push = 1 => a.from = a.pair[1] /\ a.to = a.pair[2]
              /\ a.push = -1 => a.from = a.pair[2] /\ a.to = a.pair[1]
<1>1. PICK m \in Nat \ {0} :
        /\ Nodes(pairs) = 0 .. m
        /\ \A p \in pairs : p[1] \in 0 .. m /\ p[2] \in 1 .. m /\ p[1] < p[2]
  BY NodesAre
<1>2. ASSUME NEW a \in Room
      PROVE  /\ a.from \in 0 .. m /\ a.to \in 0 .. m /\ a.from # a.to /\ a.cost \in Int
             /\ a.pair \in pairs /\ a.push \in {1, -1} /\ a.cost = -a.push * costs[a.pair]
             /\ flow[a.pair] + a.push \in -1 .. 1
             /\ a.push = 1 => a.from = a.pair[1] /\ a.to = a.pair[2]
             /\ a.push = -1 => a.from = a.pair[2] /\ a.to = a.pair[1]
  <2>1. PICK p \in pairs, push \in {1, -1} : a = Arc(p, push) /\ HasRoom(a)
    BY DEF Room
  <2>2. /\ a.from = (IF push = 1 THEN p[1] ELSE p[2]) /\ a.to = (IF push = 1 THEN p[2] ELSE p[1])
        /\ a.cost = -push * costs[p] /\ a.pair = p /\ a.push = push
    BY <2>1 DEF Arc
  <2>3. p[1] \in 0 .. m /\ p[2] \in 0 .. m /\ p[1] < p[2] /\ costs[p] \in Int
    BY <1>1
  <2>4. a.from \in 0 .. m /\ a.to \in 0 .. m /\ a.from # a.to
    BY <2>2, <2>3
  <2>5. a.cost \in Int
    BY <2>2, <2>3
  <2>. QED
    BY <2>1, <2>2, <2>4, <2>5 DEF HasRoom
<1>. QED
  BY <1>1, <1>2 DEF IsGraph

LEMMA FanIsTriangle ==
  ASSUME NEW network, IsNetwork(network), network # {}, HasFan(network),
         NEW p \in network, p[2] # p[1] + 1
  PROVE  /\ Fan(p) \in Triangles(network) /\ Early(Fan(p)) \in network /\ Late(Fan(p)) \in network
         /\ Fan(p) = << p[1], p[2] - 1, p[2] >>
         /\ Early(Fan(p)) = << p[1], p[2] - 1 >> /\ Late(Fan(p)) = << p[2] - 1, p[2] >>
         /\ Spanning(Fan(p)) = p
<1>1. PICK m \in Nat \ {0} :
        /\ Nodes(network) = 0 .. m
        /\ \A q \in network : q = << q[1], q[2] >> /\ q[1] \in 0 .. m /\ q[2] \in 1 .. m /\ q[1] < q[2]
  BY NodesAre
<1>2. PICK i, k : p = << i, k >> /\ p[1] = i /\ p[2] = k /\ i \in 0 .. m /\ k \in 1 .. m /\ k > i + 1
  BY <1>1
<1>3. Fan(p) = << i, k - 1, k >>
  BY <1>2 DEF Fan
<1>4. /\ Early(Fan(p)) = << i, k - 1 >> /\ Late(Fan(p)) = << k - 1, k >> /\ Spanning(Fan(p)) = << i, k >>
  BY <1>3 DEF Early, Late, Spanning
<1>5. << i, k - 1 >> \in network /\ << k - 1, k >> \in network
  <2>1. k \in Nodes(network) \ {0}
    BY <1>1, <1>2
  <2>2. p[2] > p[1] + 1
    BY <1>2
  <2>. QED
    BY <1>4, <2>1, <2>2 DEF HasFan
<1>6. Fan(p) \in Triangles(network)
  <2>1. PICK a, b : a = << i, k - 1 >> /\ b = << k - 1, k >> /\ a \in network /\ b \in network
    BY <1>5
  <2>2. << a[1], a[2], b[2] >> = Fan(p)
    BY <1>3, <2>1
  <2>. QED
    BY <1>2, <1>4, <1>5, <2>1, <2>2 DEF Triangles
<1>. QED
  BY <1>2, <1>3, <1>4, <1>5, <1>6

LEMMA ParticularIs ==
  ASSUME NEW network, IsNetwork(network), network # {}, HasFan(network),
         NEW misclosure, \A t \in Triangles(network) : misclosure[t] \in Int
  PROVE  /\ Particular(network, misclosure) \in [network -> Int]
         /\ \A p \in network :
              Particular(network, misclosure)[p]
                = IF p[2] = p[1] + 1 THEN 0
                  ELSE Particular(network, misclosure)[Early(Fan(p))] + misclosure[Fan(p)]
<1>1. PICK m \in Nat \ {0} :
        /\ Nodes(network) = 0 .. m
        /\ \A p \in network : p = << p[1], p[2] >> /\ p[1] \in 0 .. m /\ p[2] \in 1 .. m /\ p[1] < p[2]
  BY NodesAre
<1>2. IsFiniteSet(0 .. m)
  BY FS_Interval
<1>. DEFINE gap == [i \in 0 .. m |-> [k \in 0 .. m |->
                     IF << i, k - 1, k >> \in Triangles(network) THEN misclosure[<< i, k - 1, k >>] ELSE 0]]
            k0 == [p \in network |-> IteratedSum(gap[p[1]], p[1] + 2 .. p[2])]
            Body(h) == [p \in network |->
                          IF p[2] = p[1] + 1 THEN 0
                          ELSE h[Early(Fan(p))] + h[Late(Fan(p))] + misclosure[Fan(p)]]
<1>3. \A i \in 0 .. m : \A k \in 0 .. m : gap[i][k] \in Int
  OBVIOUS
<1>4. ASSUME NEW p \in network
      PROVE  /\ k0[p] \in Int
             /\ p[2] = p[1] + 1 => k0[p] = 0
             /\ p[2] # p[1] + 1 => k0[p] = k0[Early(Fan(p))] + misclosure[Fan(p)]
  <2>1. PICK i \in 0 .. m, k \in 1 .. m : p = << i, k >> /\ p[1] = i /\ p[2] = k /\ i < k
    BY <1>1
  <2>2. PICK g : g = gap[i] /\ \A x \in 0 .. m : g[x] \in Int
    BY <1>3
  <2>3. PICK f : Sums(f, 0 .. m, g)
    BY <1>2, <2>2, SumsOfParts
  <2>4. \A l \in 0 .. m : i + 2 .. l \in SUBSET (0 .. m)
    OBVIOUS
  <2>5. \A l \in 0 .. m : IteratedSum(g, i + 2 .. l) = f[i + 2 .. l] /\ f[i + 2 .. l] \in Int
    BY <2>3, <2>4 DEF Sums
  <2>6. k0[p] = f[i + 2 .. k] /\ k0[p] \in Int
    <3>1. k0[p] = IteratedSum(g, i + 2 .. k)
      <4>. HIDE DEF gap
      <4>. QED
        BY <2>1, <2>2
    <3>2. k \in 0 .. m
      OBVIOUS
    <3>. HIDE DEF k0, gap
    <3>. QED
      BY <2>5, <3>1, <3>2
  <2>7. CASE k = i + 1
    <3>1. i + 2 .. k = {}
      BY <2>7
    <3>. HIDE DEF k0, gap
    <3>. QED
      BY <2>1, <2>3, <2>6, <2>7, <3>1 DEF Sums
  <2>8. CASE k # i + 1
    <3>1. PICK s, r : s = i + 2 .. k /\ r = i + 2 .. k - 1 /\ s \in SUBSET (0 .. m) /\ k \in s /\ r = s \ {k}
      BY <2>1, <2>4, <2>8
    <3>2. f[s] = g[k] + f[r]
      <4>1. \A x \in s : f[s] = g[x] + f[s \ {x}]
        BY <2>3, <3>1 DEF Sums
      <4>. QED
        BY <3>1, <4>1
    <3>3. /\ Fan(p) \in Triangles(network) /\ Fan(p) = << i, k - 1, k >>
          /\ Early(Fan(p)) = << i, k - 1 >> /\ Early(Fan(p)) \in network
      BY <2>1, <2>8, FanIsTriangle
    <3>4. g[k] = misclosure[Fan(p)] /\ g[k] \in Int
      BY <2>1, <2>2, <3>3
    <3>5. k0[Early(Fan(p))] = IteratedSum(g, r)
      <4>1. PICK q \in network : q = Early(Fan(p)) /\ q[1] = i /\ q[2] = k - 1
        BY <3>3
      <4>2. k0[q] = IteratedSum(gap[i], i + 2 .. k - 1)
        BY <4>1
      <4>. HIDE DEF k0, gap
      <4>. QED
        BY <2>2, <3>1, <4>1, <4>2
    <3>6. IteratedSum(g, r) = f[r] /\ f[r] \in Int
      <4>1. k - 1 \in 0 .. m
        BY <2>1
      <4>. QED
        BY <2>5, <3>1, <4>1
    <3>. HIDE DEF k0, gap
    <3>7. k0[p] = f[s]
      BY <2>6, <3>1
    <3>8. k0[p] = k0[Early(Fan(p))] + misclosure[Fan(p)]
      BY <3>2, <3>4, <3>5, <3>6, <3>7
    <3>. QED
      BY <2>1, <2>6, <2>8, <3>8
  <2>. HIDE DEF k0, gap
  <2>. QED
    BY <2>1, <2>6, <2>7, <2>8
<1>5. ASSUME NEW p \in network, p[2] # p[1] + 1
      PROVE  /\ Early(Fan(p)) \in network /\ Late(Fan(p)) \in network
             /\ Early(Fan(p)) = << p[1], p[2] - 1 >>
             /\ Late(Fan(p))[2] = Late(Fan(p))[1] + 1
             /\ misclosure[Fan(p)] \in Int
  <2>1. Late(Fan(p)) = << p[2] - 1, p[2] >> /\ p[2] \in 1 .. m
    BY <1>1, <1>5, FanIsTriangle
  <2>2. Late(Fan(p))[2] = Late(Fan(p))[1] + 1
    BY <2>1
  <2>. QED
    BY <1>5, <2>2, FanIsTriangle
<1>6. k0 = Body(k0)
  <2>. HIDE DEF k0
  <2>1. \A p \in network : k0[p] = Body(k0)[p]
    <3>1. TAKE p \in network
    <3>2. CASE p[2] = p[1] + 1
      BY <1>4, <3>2
    <3>3. CASE p[2] # p[1] + 1
      <4>1. k0[Late(Fan(p))] = 0 /\ k0[Early(Fan(p))] \in Int /\ misclosure[Fan(p)] \in Int
        BY <1>4, <1>5, <3>3
      <4>2. k0[p] = k0[Early(Fan(p))] + misclosure[Fan(p)]
        BY <1>4, <3>3
      <4>3. Body(k0)[p] = k0[Early(Fan(p))] + k0[Late(Fan(p))] + misclosure[Fan(p)]
        BY <3>3
      <4>. QED
        BY <4>1, <4>2, <4>3
    <3>. QED
      BY <3>2, <3>3
  <2>2. k0 = [p \in network |-> k0[p]]
    BY DEF k0
  <2>. QED
    BY <2>1, <2>2
<1>. HIDE DEF k0
<1>7. PICK h : Particular(network, misclosure) = h /\ h = Body(h)
  <2>1. \E h : h = Body(h)
    BY <1>6
  <2>. QED
    BY <2>1 DEF Particular
<1>8. \A p \in network : h[p] = IF p[2] = p[1] + 1 THEN 0
                                ELSE h[Early(Fan(p))] + h[Late(Fan(p))] + misclosure[Fan(p)]
  BY <1>7
<1>. DEFINE X == {w \in 0 .. m : \A p \in network : p[2] <= p[1] + w + 1 => h[p] \in Int}
<1>9. 0 \in X
  <2>1. \A p \in network : p[2] <= p[1] + 0 + 1 => p[2] = p[1] + 1
    BY <1>1
  <2>2. \A p \in network : p[2] <= p[1] + 0 + 1 => h[p] \in Int
    BY <1>8, <2>1
  <2>. QED
    BY <2>2
<1>10. ASSUME NEW w \in 0 .. m - 1, w \in X PROVE w + 1 \in X
  <2>1. ASSUME NEW p \in network, p[2] <= p[1] + (w + 1) + 1 PROVE h[p] \in Int
    <3>1. CASE p[2] = p[1] + 1
      BY <1>8, <3>1
    <3>2. CASE p[2] # p[1] + 1
      <4>1. PICK e \in network, l \in network : e = Early(Fan(p)) /\ l = Late(Fan(p)) /\ misclosure[Fan(p)] \in Int
                                                 /\ l[2] = l[1] + 1 /\ e = << p[1], p[2] - 1 >>
        BY <1>5, <3>2
      <4>2. h[l] = 0
        BY <1>8, <4>1
      <4>3. e[2] <= e[1] + w + 1
        <5>1. p[1] \in 0 .. m /\ p[2] \in 1 .. m
          BY <1>1
        <5>. QED
          BY <2>1, <4>1, <5>1
      <4>4. h[e] \in Int
        BY <1>10, <4>3
      <4>5. h[p] = h[e] + h[l] + misclosure[Fan(p)]
        BY <1>8, <3>2, <4>1
      <4>. QED
        BY <4>1, <4>2, <4>4, <4>5
    <3>. QED
      BY <3>1, <3>2
  <2>2. w + 1 \in 0 .. m
    OBVIOUS
  <2>. QED
    BY <2>1, <2>2
<1>11. m \in X
  <2>. HIDE DEF X
  <2>1. \A w \in 0 .. m : w \in X
    BY <1>9, <1>10, UpTo
  <2>. QED
    BY <2>1
<1>12. \A p \in network : h[p] \in Int
  BY <1>1, <1>11
<1>13. h \in [network -> Int]
  <2>1. h = [p \in network |-> Body(h)[p]]
    BY <1>7
  <2>2. DOMAIN h = network
    BY <2>1
  <2>3. h = [p \in network |-> h[p]]
    BY <1>7
  <2>. QED
    BY <1>12, <2>3
<1>14. \A p \in network : h[p] = IF p[2] = p[1] + 1 THEN 0 ELSE h[Early(Fan(p))] + misclosure[Fan(p)]
  <2>1. TAKE p \in network
  <2>2. CASE p[2] = p[1] + 1
    BY <1>8, <2>2
  <2>3. CASE p[2] # p[1] + 1
    <3>1. PICK e \in network, l \in network : e = Early(Fan(p)) /\ l = Late(Fan(p)) /\ misclosure[Fan(p)] \in Int
                                               /\ l[2] = l[1] + 1
      BY <1>5, <2>3
    <3>2. h[l] = 0 /\ h[e] \in Int
      BY <1>8, <1>12, <3>1
    <3>3. h[p] = h[e] + h[l] + misclosure[Fan(p)]
      BY <1>8, <2>3, <3>1
    <3>. QED
      BY <2>3, <3>1, <3>2, <3>3
  <2>. QED
    BY <2>2, <2>3
<1>. QED
  BY <1>7, <1>13, <1>14

-------------------------------------------------------------------------------
(* The search for a negative cycle                                            *)

States(nodes, A) ==
  [distance : [nodes -> Int], via : [nodes -> A \cup {Unset}], last : nodes \cup {Unset}]

Slack(s, v) == s.distance[v] - s.distance[s.via[v].from] - s.via[v].cost

(* Nodes that are led to by one another.                                         *)
IsLoop(s, V) ==
  /\ V # {}
  /\ \A v \in V : s.distance[v] < 0 /\ s.via[v].from \in V
  /\ \A u \in V : \E v \in V : s.via[v].from = u

(* A distance is at least what its arc makes it, and somewhere on every loop more.     *)
Sound(nodes, A, s) ==
  /\ s \in States(nodes, A)
  /\ \A v \in nodes : s.distance[v] <= 0
  /\ \A v \in nodes : s.distance[v] < 0 => s.via[v] \in A /\ s.via[v].to = v /\ Slack(s, v) >= 0
  /\ \A V \in SUBSET nodes : IsLoop(s, V) => \E v \in V : Slack(s, v) > 0

LEMMA StateType ==
  ASSUME NEW nodes, NEW A, NEW s \in States(nodes, A)
  PROVE  /\ s = [distance |-> s.distance, via |-> s.via, last |-> s.last]
         /\ s.distance \in [nodes -> Int] /\ s.via \in [nodes -> A \cup {Unset}]
         /\ s.last \in nodes \cup {Unset}
BY DEF States

LEMMA RelaxKeeps ==
  ASSUME NEW nodes, NEW A, IsGraph(nodes, A), NEW s, Sound(nodes, A, s), NEW a \in A
  PROVE  /\ Sound(nodes, A, Relax(s, a))
         /\ \A v \in nodes : Relax(s, a).distance[v] <= s.distance[v]
         /\ Relax(s, a).distance[a.to] <= s.distance[a.from] + a.cost
         /\ \/ Relax(s, a) = s
            \/ Relax(s, a).last = a.to /\ Relax(s, a).distance[a.to] < s.distance[a.to]
<1>1. PICK d, via, last, x, y, c :
        /\ d = s.distance /\ via = s.via /\ last = s.last /\ x = a.from /\ y = a.to /\ c = a.cost
  OBVIOUS
<1>2. /\ d \in [nodes -> Int] /\ via \in [nodes -> A \cup {Unset}] /\ last \in nodes \cup {Unset}
      /\ s = [distance |-> d, via |-> via, last |-> last]
  BY <1>1, StateType DEF Sound
<1>3. x \in nodes /\ y \in nodes /\ x # y /\ c \in Int
  BY <1>1 DEF IsGraph
<1>4. CASE ~ Shorter(s.distance, a)
  <2>1. Relax(s, a) = s
    BY <1>4 DEF Relax
  <2>2. d[y] <= d[x] + c
    <3>1. ~ (d[x] + c < d[y]) /\ d[x] \in Int /\ d[y] \in Int
      BY <1>1, <1>2, <1>3, <1>4 DEF Shorter
    <3>. QED
      BY <1>3, <3>1
  <2>3. \A v \in nodes : s.distance[v] <= s.distance[v]
    BY <1>1, <1>2
  <2>. QED
    BY <1>1, <2>1, <2>2, <2>3
<1>5. CASE Shorter(s.distance, a)
  <2>1. PICK e, w : e = [d EXCEPT ![y] = d[x] + c] /\ w = [via EXCEPT ![y] = a]
    OBVIOUS
  <2>2. PICK t : t = [distance |-> e, via |-> w, last |-> y]
    OBVIOUS
  <2>3. Relax(s, a) = t
    BY <1>1, <1>5, <2>1, <2>2 DEF Relax, Via
  <2>4. d[x] + c < d[y] /\ d[x] \in Int /\ d[y] \in Int
    BY <1>1, <1>2, <1>3, <1>5 DEF Shorter
  <2>5. /\ e \in [nodes -> Int] /\ e[y] = d[x] + c /\ \A v \in nodes : v # y => e[v] = d[v]
        /\ w \in [nodes -> A \cup {Unset}] /\ w[y] = a /\ \A v \in nodes : v # y => w[v] = via[v]
    BY <1>2, <1>3, <2>1
  <2>6. \A v \in nodes : e[v] <= d[v] /\ e[v] \in Int /\ d[v] \in Int
    BY <1>2, <1>3, <2>4, <2>5
  <2>7. t \in States(nodes, A) /\ t.distance = e /\ t.via = w /\ t.last = y
    BY <1>3, <2>2, <2>5 DEF States
  <2>8. \A v \in nodes : d[v] <= 0
    BY <1>1 DEF Sound
  <2>9. \A v \in nodes : d[v] < 0 =>
          /\ via[v] \in A /\ via[v].to = v
          /\ d[v] - d[via[v].from] - via[v].cost >= 0
    BY <1>1 DEF Sound, Slack
  <2>10. ASSUME NEW v \in nodes, v # y, d[v] < 0
         PROVE  /\ w[v] = via[v] /\ via[v] \in A /\ via[v].to = v /\ via[v].from \in nodes
                /\ via[v].cost \in Int
                /\ e[v] - e[w[v].from] - w[v].cost >= 0
                /\ via[v].from = y => e[v] - e[w[v].from] - w[v].cost > 0
    <3>1. PICK b \in A : b = via[v] /\ b.to = v /\ d[v] - d[b.from] - b.cost >= 0
      BY <2>9, <2>10
    <3>2. b.from \in nodes /\ b.cost \in Int
      BY DEF IsGraph
    <3>3. PICK u \in nodes, k \in Int : u = b.from /\ k = b.cost
      BY <3>2
    <3>4. d[v] \in Int /\ d[u] \in Int /\ e[u] \in Int /\ e[u] <= d[u] /\ (u = y => e[u] < d[u])
      BY <2>4, <2>5, <2>6
    <3>5. e[v] = d[v] /\ w[v] = b /\ d[v] - d[u] - k >= 0
      BY <2>5, <2>10, <3>1, <3>3
    <3>6. d[v] - e[u] - k >= 0 /\ (u = y => d[v] - e[u] - k > 0)
      BY <3>4, <3>5
    <3>. QED
      BY <3>1, <3>2, <3>3, <3>5, <3>6
  <2>11. \A v \in nodes : e[v] <= 0
    <3>1. TAKE v \in nodes
    <3>. QED
      BY <2>6, <2>8
  <2>12. ASSUME NEW v \in nodes, e[v] < 0
         PROVE  w[v] \in A /\ w[v].to = v /\ e[v] - e[w[v].from] - w[v].cost >= 0
    <3>1. CASE v = y
      <4>1. w[v] = a /\ e[v] = d[x] + c /\ e[x] = d[x]
        BY <1>3, <2>5, <3>1
      <4>2. e[v] - e[x] - c >= 0
        BY <1>3, <2>4, <4>1
      <4>. QED
        BY <1>1, <3>1, <4>1, <4>2
    <3>2. CASE v # y
      <4>1. d[v] < 0
        BY <2>5, <2>12, <3>2
      <4>. QED
        BY <2>10, <3>2, <4>1
    <3>. QED
      BY <3>1, <3>2
  <2>13. ASSUME NEW V \in SUBSET nodes, IsLoop(t, V)
         PROVE  \E v \in V : Slack(t, v) > 0
    <3>1. /\ V # {} /\ \A v \in V : e[v] < 0 /\ w[v].from \in V
          /\ \A u \in V : \E v \in V : w[v].from = u
      BY <2>7, <2>13 DEF IsLoop
    <3>2. CASE y \in V
      <4>1. PICK v \in V : w[v].from = y
        BY <3>1, <3>2
      <4>2. v # y
        BY <1>1, <1>3, <2>5, <4>1
      <4>3. d[v] < 0
        BY <2>5, <3>1, <4>2
      <4>4. e[v] - e[w[v].from] - w[v].cost > 0
        BY <2>10, <4>1, <4>2, <4>3
      <4>. QED
        BY <2>7, <4>4 DEF Slack
    <3>3. CASE y \notin V
      <4>1. \A v \in V : v \in nodes /\ e[v] = d[v] /\ w[v] = via[v]
        BY <2>5, <3>3
      <4>2. IsLoop(s, V)
        BY <1>1, <3>1, <4>1 DEF IsLoop
      <4>3. PICK v \in V : Slack(s, v) > 0
        BY <4>2 DEF Sound
      <4>4. via[v].from \in V
        BY <3>1, <4>1
      <4>5. Slack(t, v) = Slack(s, v)
        BY <1>1, <2>7, <4>1, <4>4 DEF Slack
      <4>. QED
        BY <4>3, <4>5
    <3>. QED
      BY <3>2, <3>3
  <2>14. Sound(nodes, A, t)
    BY <2>7, <2>11, <2>12, <2>13 DEF Sound, Slack
  <2>15. e[y] <= d[x] + c /\ e[y] < d[y]
    BY <1>3, <2>4, <2>5
  <2>. QED
    BY <1>1, <2>3, <2>6, <2>7, <2>14, <2>15
<1>. QED
  BY <1>4, <1>5

LEMMA ClearedIsSound ==
  ASSUME NEW nodes, NEW A, NEW s, Sound(nodes, A, s)
  PROVE  /\ Sound(nodes, A, [s EXCEPT !.last = Unset])
         /\ [s EXCEPT !.last = Unset].distance = s.distance
         /\ [s EXCEPT !.last = Unset].last = Unset
<1>1. PICK d, via, last : d = s.distance /\ via = s.via /\ last = s.last
  OBVIOUS
<1>2. /\ d \in [nodes -> Int] /\ via \in [nodes -> A \cup {Unset}]
      /\ s = [distance |-> d, via |-> via, last |-> last]
  BY <1>1, StateType DEF Sound
<1>3. PICK t : t = [distance |-> d, via |-> via, last |-> Unset]
  OBVIOUS
<1>4. [s EXCEPT !.last = Unset] = t
  BY <1>2, <1>3
<1>5. t \in States(nodes, A) /\ t.distance = s.distance /\ t.via = s.via /\ t.last = Unset
  BY <1>1, <1>2, <1>3 DEF States
<1>6. \A V \in SUBSET nodes : IsLoop(t, V) => \E v \in V : Slack(t, v) > 0
  <2>1. TAKE V \in SUBSET nodes
  <2>2. HAVE IsLoop(t, V)
  <2>3. IsLoop(s, V)
    BY <1>5, <2>2 DEF IsLoop
  <2>4. PICK v \in V : Slack(s, v) > 0
    BY <2>3 DEF Sound
  <2>5. Slack(t, v) = Slack(s, v)
    BY <1>5 DEF Slack
  <2>. QED
    BY <2>4, <2>5
<1>7. \A v \in nodes : Slack(t, v) = Slack(s, v)
  BY <1>5 DEF Slack
<1>8. Sound(nodes, A, t)
  BY <1>5, <1>6, <1>7 DEF Sound
<1>. QED
  BY <1>4, <1>5, <1>8

LEMMA PassKeeps ==
  ASSUME NEW nodes, Unset \notin nodes, NEW A, IsGraph(nodes, A), NEW arcs \in Seq(A),
         NEW s, Sound(nodes, A, s)
  PROVE  /\ Sound(nodes, A, Pass(s, arcs))
         /\ \A v \in nodes : Pass(s, arcs).distance[v] <= s.distance[v]
         /\ \A i \in 1 .. Len(arcs) :
              Pass(s, arcs).distance[arcs[i].to] <= s.distance[arcs[i].from] + arcs[i].cost
         /\ \/ Pass(s, arcs).last = Unset /\ Pass(s, arcs).distance = s.distance
            \/ /\ Pass(s, arcs).last \in nodes
               /\ Pass(s, arcs).distance[Pass(s, arcs).last] < s.distance[Pass(s, arcs).last]
<1>. DEFINE T == {t \in States(nodes, A) : Sound(nodes, A, t)}
            first == [s EXCEPT !.last = Unset]
            n == Len(arcs)
            step == [e \in (1 .. n) \X T |-> Relax(e[2], arcs[e[1]])]
            Body(h) == [i \in 0 .. n |-> IF i = 0 THEN first ELSE Relax(h[i - 1], arcs[i])]
<1>1. n \in Nat /\ \A i \in 1 .. n : arcs[i] \in A
  BY LenProperties
<1>14. \A t : t \in T <=> Sound(nodes, A, t)
  BY DEF Sound
<1>15. \A t \in T : t.distance \in [nodes -> Int]
  BY StateType
<1>. HIDE DEF T
<1>2. first \in T /\ first.distance = s.distance /\ first.last = Unset
  BY <1>14, ClearedIsSound
<1>3. \A t \in T : \A i \in 1 .. n : Relax(t, arcs[i]) \in T
  BY <1>1, <1>14, RelaxKeeps
<1>4. step \in [(1 .. n) \X T -> T]
  <2>1. \A e \in (1 .. n) \X T : step[e] \in T
    <3>1. TAKE e \in (1 .. n) \X T
    <3>2. e[1] \in 1 .. n /\ e[2] \in T
      OBVIOUS
    <3>. QED
      BY <1>3, <3>2
  <2>. QED
    BY <2>1
<1>. HIDE DEF first, n
<1>5. PICK f : IsChain(f, n, T, first, step)
  <2>. HIDE DEF step
  <2>. QED
    BY <1>1, <1>2, <1>4, ChainExists
<1>6. f = Body(f)
  <2>1. f \in [0 .. n -> T] /\ f[0] = first /\ \A k \in 1 .. n : f[k] = step[<< k, f[k - 1] >>]
    <3>. HIDE DEF step
    <3>. QED
      BY <1>5 DEF IsChain
  <2>2. \A k \in 0 .. n : f[k] = IF k = 0 THEN first ELSE Relax(f[k - 1], arcs[k])
    <3>1. TAKE k \in 0 .. n
    <3>2. CASE k # 0
      <4>1. k \in 1 .. n /\ k - 1 \in 0 .. n
        BY <1>1, <3>2
      <4>2. << k, f[k - 1] >> \in (1 .. n) \X T
        BY <2>1, <4>1
      <4>. QED
        BY <2>1, <3>2, <4>1, <4>2
    <3>. QED
      BY <2>1, <3>2
  <2>. QED
    BY <2>1, <2>2
<1>7. PICK h : Pass(s, arcs) = h[n] /\ h = Body(h)
  <2>1. \E h : h = Body(h)
    BY <1>6
  <2>. QED
    BY <2>1 DEF Pass, first, n
<1>8. h[0] = first /\ \A i \in 1 .. n : h[i] = Relax(h[i - 1], arcs[i])
  BY <1>1, <1>7
<1>. DEFINE Done(k) ==
              /\ h[k] \in T
              /\ \A v \in nodes : h[k].distance[v] <= s.distance[v]
              /\ \A i \in 1 .. k : h[k].distance[arcs[i].to] <= s.distance[arcs[i].from] + arcs[i].cost
              /\ \/ h[k].last = Unset /\ h[k].distance = s.distance
                 \/ h[k].last \in nodes /\ h[k].distance[h[k].last] < s.distance[h[k].last]
            X == {k \in 0 .. n : Done(k)}
<1>9. \A v \in nodes : s.distance[v] \in Int
  BY <1>14, <1>15
<1>10. 0 \in X
  <2>1. \A v \in nodes : s.distance[v] <= s.distance[v]
    BY <1>9
  <2>2. Done(0)
    BY <1>2, <1>8, <2>1
  <2>. QED
    BY <1>1, <2>2
<1>11. ASSUME NEW j \in 0 .. n - 1, j \in X PROVE j + 1 \in X
  <2>1. PICK k : k = j + 1 /\ k \in 1 .. n /\ k - 1 = j /\ k \in 0 .. n
    BY <1>1
  <2>2. PICK p, t, a : p = h[j] /\ t = h[k] /\ a = arcs[k] /\ a \in A /\ t = Relax(p, a)
    BY <1>1, <1>8, <2>1
  <2>3. Sound(nodes, A, p) /\ p \in T
    BY <1>11, <1>14, <2>2
  <2>4. /\ Sound(nodes, A, t) /\ \A v \in nodes : t.distance[v] <= p.distance[v]
        /\ t.distance[a.to] <= p.distance[a.from] + a.cost
        /\ \/ t = p
           \/ t.last = a.to /\ t.distance[a.to] < p.distance[a.to]
    <3>1. PICK b \in A : b = a
      BY <2>2
    <3>2. /\ Sound(nodes, A, Relax(p, b)) /\ \A v \in nodes : Relax(p, b).distance[v] <= p.distance[v]
          /\ Relax(p, b).distance[b.to] <= p.distance[b.from] + b.cost
          /\ \/ Relax(p, b) = p
             \/ Relax(p, b).last = b.to /\ Relax(p, b).distance[b.to] < p.distance[b.to]
      BY <2>3, RelaxKeeps
    <3>. QED
      BY <2>2, <3>1, <3>2
  <2>5. /\ t \in T /\ \A v \in nodes : t.distance[v] \in Int /\ p.distance[v] \in Int
    BY <1>14, <1>15, <2>3, <2>4
  <2>6. /\ \A v \in nodes : p.distance[v] <= s.distance[v]
        /\ \A i \in 1 .. j : p.distance[arcs[i].to] <= s.distance[arcs[i].from] + arcs[i].cost
        /\ \/ p.last = Unset /\ p.distance = s.distance
           \/ p.last \in nodes /\ p.distance[p.last] < s.distance[p.last]
    BY <1>11, <2>2
  <2>7. \A v \in nodes : t.distance[v] <= s.distance[v]
    <3>1. TAKE v \in nodes
    <3>2. t.distance[v] <= p.distance[v] /\ p.distance[v] <= s.distance[v]
      BY <2>4, <2>6
    <3>. QED
      BY <1>9, <2>5, <3>2
  <2>8. ASSUME NEW i \in 1 .. k
        PROVE  t.distance[arcs[i].to] <= s.distance[arcs[i].from] + arcs[i].cost
    <3>1. PICK b \in A : b = arcs[i]
      BY <1>1, <2>1
    <3>2. b.from \in nodes /\ b.to \in nodes /\ b.cost \in Int
      BY DEF IsGraph
    <3>3. /\ t.distance[b.to] \in Int /\ p.distance[b.to] \in Int /\ p.distance[b.from] \in Int
          /\ s.distance[b.from] \in Int /\ p.distance[b.from] <= s.distance[b.from]
          /\ t.distance[b.to] <= p.distance[b.to]
      BY <1>9, <2>4, <2>5, <2>6, <3>2
    <3>4. CASE i = k
      <4>1. t.distance[b.to] <= p.distance[b.from] + b.cost
        BY <2>2, <2>4, <3>1, <3>4
      <4>. QED
        BY <3>1, <3>2, <3>3, <4>1
    <3>5. CASE i # k
      <4>1. i \in 1 .. j
        BY <2>1, <3>5
      <4>2. p.distance[b.to] <= s.distance[b.from] + b.cost
        BY <2>6, <3>1, <4>1
      <4>. QED
        BY <3>1, <3>2, <3>3, <4>2
    <3>. QED
      BY <3>4, <3>5
  <2>9. \/ t.last = Unset /\ t.distance = s.distance
        \/ t.last \in nodes /\ t.distance[t.last] < s.distance[t.last]
    <3>1. CASE t = p
      BY <2>6, <3>1
    <3>2. CASE t.last = a.to /\ t.distance[a.to] < p.distance[a.to]
      <4>1. a.to \in nodes
        BY <2>2 DEF IsGraph
      <4>2. t.distance[a.to] < s.distance[a.to]
        BY <1>9, <2>5, <2>6, <3>2, <4>1
      <4>. QED
        BY <3>2, <4>1, <4>2
    <3>. QED
      BY <2>4, <3>1, <3>2
  <2>10. Done(k)
    BY <2>2, <2>5, <2>7, <2>8, <2>9
  <2>. HIDE DEF Done
  <2>. QED
    BY <2>1, <2>10
<1>12. n \in X
  <2>. HIDE DEF X
  <2>1. \A k \in 0 .. n : k \in X
    BY <1>1, <1>10, <1>11, UpTo
  <2>. QED
    BY <1>1, <2>1
<1>13. Done(n)
  BY <1>12
<1>. QED
  BY <1>7, <1>13, <1>14 DEF n

LEMMA SearchIs ==
  ASSUME NEW nodes, IsFiniteSet(nodes), Unset \notin nodes, NEW A, IsGraph(nodes, A),
         NEW arcs \in Seq(A)
  PROVE  \E s : /\ s[Cardinality(nodes)] = Search(nodes, arcs)
                /\ \A k \in 0 .. Cardinality(nodes) : Sound(nodes, A, s[k])
                /\ \A k \in 1 .. Cardinality(nodes) : s[k] = Pass(s[k - 1], arcs)
<1>. DEFINE T == {t \in States(nodes, A) : Sound(nodes, A, t)}
            first == [distance |-> [v \in nodes |-> 0], via |-> [v \in nodes |-> Unset], last |-> Unset]
            n == Cardinality(nodes)
            step == [e \in (1 .. n) \X T |-> Pass(e[2], arcs)]
            Body(h) == [k \in 0 .. n |-> IF k = 0 THEN first ELSE Pass(h[k - 1], arcs)]
<1>1. n \in Nat
  BY FS_CardinalityType
<1>2. \A t : t \in T <=> Sound(nodes, A, t)
  BY DEF Sound
<1>. HIDE DEF T, n
<1>3. first \in T
  <2>1. PICK s : s = first
    OBVIOUS
  <2>2. s \in States(nodes, A) /\ \A v \in nodes : s.distance[v] = 0
    BY <2>1 DEF States
  <2>3. \A V \in SUBSET nodes : ~ IsLoop(s, V)
    <3>1. TAKE V \in SUBSET nodes
    <3>2. SUFFICES ASSUME IsLoop(s, V) PROVE FALSE
      OBVIOUS
    <3>3. PICK v \in V : s.distance[v] < 0
      BY <3>2 DEF IsLoop
    <3>. QED
      BY <2>2, <3>3
  <2>4. Sound(nodes, A, s)
    BY <2>2, <2>3 DEF Sound
  <2>. QED
    BY <1>2, <2>1, <2>4
<1>. HIDE DEF first
<1>4. \A t \in T : Pass(t, arcs) \in T
  <2>1. TAKE t \in T
  <2>2. Sound(nodes, A, t)
    BY <1>2
  <2>3. Sound(nodes, A, Pass(t, arcs))
    BY <2>2, PassKeeps
  <2>. QED
    BY <1>2, <2>3
<1>5. step \in [(1 .. n) \X T -> T]
  <2>1. \A e \in (1 .. n) \X T : step[e] \in T
    <3>1. TAKE e \in (1 .. n) \X T
    <3>2. e[2] \in T
      OBVIOUS
    <3>. QED
      BY <1>4, <3>2
  <2>. QED
    BY <2>1
<1>6. PICK f : IsChain(f, n, T, first, step)
  <2>. HIDE DEF step
  <2>. QED
    BY <1>1, <1>3, <1>5, ChainExists
<1>7. f = Body(f)
  <2>1. f \in [0 .. n -> T] /\ f[0] = first /\ \A k \in 1 .. n : f[k] = step[<< k, f[k - 1] >>]
    <3>. HIDE DEF step
    <3>. QED
      BY <1>6 DEF IsChain
  <2>2. \A k \in 0 .. n : f[k] = IF k = 0 THEN first ELSE Pass(f[k - 1], arcs)
    <3>1. TAKE k \in 0 .. n
    <3>2. CASE k # 0
      <4>1. k \in 1 .. n /\ k - 1 \in 0 .. n
        BY <1>1, <3>2
      <4>2. << k, f[k - 1] >> \in (1 .. n) \X T
        BY <2>1, <4>1
      <4>. QED
        BY <2>1, <3>2, <4>1, <4>2
    <3>. QED
      BY <2>1, <3>2
  <2>. QED
    BY <2>1, <2>2
<1>8. PICK h : Search(nodes, arcs) = h[n] /\ h = Body(h)
  <2>1. \E h : h = Body(h)
    BY <1>7
  <2>. QED
    BY <2>1 DEF Search, first, n
<1>9. h[0] = first /\ \A k \in 1 .. n : h[k] = Pass(h[k - 1], arcs)
  BY <1>1, <1>8
<1>. DEFINE X == {k \in 0 .. n : h[k] \in T}
<1>10. 0 \in X
  BY <1>1, <1>3, <1>9
<1>11. ASSUME NEW j \in 0 .. n - 1, j \in X PROVE j + 1 \in X
  <2>1. j + 1 \in 1 .. n /\ (j + 1) - 1 = j /\ j + 1 \in 0 .. n
    BY <1>1
  <2>2. h[j + 1] = Pass(h[j], arcs)
    BY <1>9, <2>1
  <2>. QED
    BY <1>4, <1>11, <2>1, <2>2
<1>12. \A k \in 0 .. n : k \in X
  <2>. HIDE DEF X
  <2>. QED
    BY <1>1, <1>10, <1>11, UpTo
<1>13. \A k \in 0 .. n : Sound(nodes, A, h[k])
  BY <1>2, <1>12
<1>. QED
  BY <1>8, <1>9, <1>13 DEF n

LEMMA InReach ==
  ASSUME NEW n \in Nat, NEW i \in Nat, NEW j \in Nat, NEW r \in Nat, i < j, j + (r + 1) <= n
  PROVE  /\ j + r \in 0 .. 2 * n /\ i + r \in 0 .. 2 * n
         /\ (j + r) + 1 \in 0 .. 2 * n /\ (i + r) + 1 \in 0 .. 2 * n
         /\ (j + r) + 1 = j + (r + 1) /\ (i + r) + 1 = i + (r + 1)
         /\ j + r <= n /\ r + 1 \in 0 .. n
OBVIOUS

LEMMA NextInReach ==
  ASSUME NEW n \in Nat
  PROVE  \A k \in n .. 2 * n - 1 : k + 1 \in n .. 2 * n - 1 \/ k + 1 = 2 * n
OBVIOUS

IsWalk(nodes, n, prev, f) ==
  f \in [0 .. 2 * n -> nodes] /\ \A k \in 1 .. 2 * n : f[k] = prev[f[k - 1]]

GoesRound(n, prev, f) ==
  /\ \A k \in 0 .. 2 * n : \E l \in 0 .. n - 1 : f[k] = f[l]
  /\ \A k \in n .. 2 * n - 1 : \E l \in n .. 2 * n - 1 : prev[f[k]] = f[l]
  /\ \A l \in n .. 2 * n - 1 : \E k \in n .. 2 * n - 1 : prev[f[k]] = f[l]

(* A walk that is longer than there are nodes goes round in the end.                *)
LEMMA WalkGoesRound ==
  ASSUME NEW nodes, IsFiniteSet(nodes), NEW n \in Nat, n = Cardinality(nodes), n # 0,
         NEW prev, NEW f, IsWalk(nodes, n, prev, f)
  PROVE  GoesRound(n, prev, f)
<1>9. f \in [0 .. 2 * n -> nodes] /\ \A k \in 1 .. 2 * n : f[k] = prev[f[k - 1]]
  BY DEF IsWalk
<1>1. PICK i \in 0 .. n, j \in 0 .. n : i < j /\ f[i] = f[j]
  <2>. DEFINE g == [k \in 0 .. n |-> f[k]]
  <2>1. g \in [0 .. n -> nodes]
    BY <1>9
  <2>2. IsFiniteSet(0 .. n) /\ Cardinality(0 .. n) = n + 1
    <3>1. IsFiniteSet(0 .. n) /\ Cardinality(0 .. n) = IF 0 > n THEN 0 ELSE n - 0 + 1
      BY FS_Interval
    <3>. QED
      BY <3>1
  <2>3. Cardinality(nodes) < Cardinality(0 .. n)
    BY <2>2
  <2>4. PICK x \in 0 .. n, y \in 0 .. n : x # y /\ g[x] = g[y]
    <3>1. PICK S : S = 0 .. n
      OBVIOUS
    <3>. HIDE DEF g
    <3>2. g \in [S -> nodes] /\ IsFiniteSet(S) /\ Cardinality(nodes) < Cardinality(S)
      BY <2>1, <2>2, <2>3, <3>1
    <3>3. \E x, y \in S : x # y /\ g[x] = g[y]
      BY <3>2, FS_PigeonHole
    <3>. QED
      BY <3>1, <3>3
  <2>5. CASE x < y
    BY <2>4, <2>5
  <2>6. CASE y < x
    BY <2>4, <2>6
  <2>. QED
    BY <2>4, <2>5, <2>6
<1>2. PICK p \in 1 .. n : p = j - i /\ i + p = j
  BY <1>1
<1>3. \A k \in 0 .. 2 * n : \A l \in 0 .. 2 * n :
        k + 1 \in 0 .. 2 * n /\ l + 1 \in 0 .. 2 * n /\ f[k] = f[l] => f[k + 1] = f[l + 1]
  <2>1. TAKE k \in 0 .. 2 * n
  <2>2. TAKE l \in 0 .. 2 * n
  <2>3. HAVE k + 1 \in 0 .. 2 * n /\ l + 1 \in 0 .. 2 * n /\ f[k] = f[l]
  <2>4. k + 1 \in 1 .. 2 * n /\ l + 1 \in 1 .. 2 * n /\ (k + 1) - 1 = k /\ (l + 1) - 1 = l
    BY <2>3
  <2>5. f[k + 1] = prev[f[k]] /\ f[l + 1] = prev[f[l]]
    BY <1>9, <2>4
  <2>. QED
    BY <2>3, <2>5
<1>4. ASSUME NEW k \in 0 .. 2 * n
      PROVE  \E l \in 0 .. n - 1 : f[k] = f[l]
  <2>. DEFINE X == {q \in 0 .. 2 * n : \E l \in 0 .. n - 1 : f[q] = f[l]}
  <2>1. 0 \in X
    <3>1. 0 \in 0 .. 2 * n /\ 0 \in 0 .. n - 1
      OBVIOUS
    <3>. QED
      BY <3>1
  <2>2. ASSUME NEW q \in 0 .. 2 * n - 1, q \in X PROVE q + 1 \in X
    <3>1. PICK l \in 0 .. n - 1 : f[q] = f[l]
      BY <2>2
    <3>2. q \in 0 .. 2 * n /\ l \in 0 .. 2 * n /\ q + 1 \in 0 .. 2 * n /\ l + 1 \in 0 .. 2 * n
      OBVIOUS
    <3>3. f[q + 1] = f[l + 1]
      BY <1>3, <3>1, <3>2
    <3>4. CASE l + 1 \in 0 .. n - 1
      BY <3>2, <3>3, <3>4
    <3>5. CASE l + 1 = n /\ j = n
      <4>1. f[q + 1] = f[i] /\ i \in 0 .. n - 1
        BY <1>1, <3>3, <3>5
      <4>. QED
        BY <3>2, <4>1
    <3>6. CASE l + 1 = n /\ j # n
      <4>. DEFINE Y == {r \in 0 .. n : j + r <= n => f[j + r] = f[i + r]}
      <4>1. 0 \in Y
        BY <1>1
      <4>2. ASSUME NEW r \in 0 .. n - 1, r \in Y PROVE r + 1 \in Y
        <5>1. CASE j + (r + 1) <= n
          <6>1. /\ j + r \in 0 .. 2 * n /\ i + r \in 0 .. 2 * n
                /\ (j + r) + 1 \in 0 .. 2 * n /\ (i + r) + 1 \in 0 .. 2 * n
                /\ (j + r) + 1 = j + (r + 1) /\ (i + r) + 1 = i + (r + 1)
                /\ j + r <= n /\ r + 1 \in 0 .. n
            BY <1>1, <5>1, InReach
          <6>2. f[j + r] = f[i + r]
            BY <4>2, <6>1
          <6>3. f[(j + r) + 1] = f[(i + r) + 1]
            BY <1>3, <6>1, <6>2
          <6>. QED
            BY <6>1, <6>3
        <5>. QED
          BY <5>1
      <4>3. \A r \in 0 .. n : r \in Y
        <5>. HIDE DEF Y
        <5>. QED
          BY <4>1, <4>2, UpTo
      <4>4. n - j \in 0 .. n /\ j + (n - j) = n /\ i + (n - j) \in 0 .. n - 1
        BY <1>1
      <4>5. f[n] = f[i + (n - j)]
        <5>1. PICK r \in 0 .. n : r = n - j /\ j + r = n /\ i + r = i + (n - j)
          BY <4>4
        <5>2. j + r <= n => f[j + r] = f[i + r]
          BY <4>3
        <5>. QED
          BY <5>1, <5>2
      <4>. QED
        BY <3>2, <3>3, <3>6, <4>4, <4>5
    <3>. QED
      BY <3>4, <3>5, <3>6
  <2>3. \A q \in 0 .. 2 * n : q \in X
    <3>1. PICK m \in Nat : m = 2 * n
      OBVIOUS
    <3>. HIDE DEF X
    <3>2. \A q \in 0 .. m : q \in X
      <4>1. 0 \in X /\ \A q \in 0 .. m - 1 : q \in X => q + 1 \in X
        BY <2>1, <2>2, <3>1
      <4>. QED
        BY <4>1, UpTo
    <3>. QED
      BY <3>1, <3>2
  <2>. QED
    BY <2>3
<1>5. \A k \in n .. 2 * n - p : f[k + p] = f[k]
  <2>. DEFINE X == {q \in 0 .. 2 * n - j : f[j + q] = f[i + q]}
  <2>1. 0 \in X
    BY <1>1
  <2>2. ASSUME NEW q \in 0 .. (2 * n - j) - 1, q \in X PROVE q + 1 \in X
    <3>1. /\ j + q \in 0 .. 2 * n /\ i + q \in 0 .. 2 * n
          /\ (j + q) + 1 \in 0 .. 2 * n /\ (i + q) + 1 \in 0 .. 2 * n
          /\ (j + q) + 1 = j + (q + 1) /\ (i + q) + 1 = i + (q + 1) /\ q + 1 \in 0 .. 2 * n - j
      BY <1>1
    <3>2. f[(j + q) + 1] = f[(i + q) + 1]
      BY <1>3, <2>2, <3>1
    <3>. QED
      BY <3>1, <3>2
  <2>3. \A q \in 0 .. 2 * n - j : q \in X
    <3>1. PICK m \in Nat : m = 2 * n - j
      BY <1>1
    <3>. HIDE DEF X
    <3>2. \A q \in 0 .. m : q \in X
      <4>1. 0 \in X /\ \A q \in 0 .. m - 1 : q \in X => q + 1 \in X
        BY <2>1, <2>2, <3>1
      <4>. QED
        BY <4>1, UpTo
    <3>. QED
      BY <3>1, <3>2
  <2>4. TAKE k \in n .. 2 * n - p
  <2>5. k - i \in 0 .. 2 * n - j /\ j + (k - i) = k + p /\ i + (k - i) = k
    BY <1>1, <1>2
  <2>6. f[j + (k - i)] = f[i + (k - i)]
    BY <2>3, <2>5
  <2>. QED
    BY <2>5, <2>6
<1>6. \A k \in n .. 2 * n - 1 : prev[f[k]] = f[k + 1]
  <2>1. TAKE k \in n .. 2 * n - 1
  <2>2. k + 1 \in 1 .. 2 * n /\ (k + 1) - 1 = k
    OBVIOUS
  <2>. QED
    BY <1>9, <2>2
<1>7. ASSUME NEW k \in n .. 2 * n - 1
      PROVE  \E l \in n .. 2 * n - 1 : prev[f[k]] = f[l]
  <2>1. CASE k + 1 \in n .. 2 * n - 1
    BY <1>6, <2>1
  <2>2. CASE k + 1 = 2 * n
    <3>1. 2 * n - p \in n .. 2 * n - p /\ (2 * n - p) + p = 2 * n /\ 2 * n - p \in n .. 2 * n - 1
      OBVIOUS
    <3>2. f[(2 * n - p) + p] = f[2 * n - p]
      BY <1>5, <3>1
    <3>. QED
      BY <1>6, <2>2, <3>1, <3>2
  <2>3. k + 1 \in n .. 2 * n - 1 \/ k + 1 = 2 * n
    BY NextInReach
  <2>. QED
    BY <2>1, <2>2, <2>3
<1>8. ASSUME NEW l \in n .. 2 * n - 1
      PROVE  \E k \in n .. 2 * n - 1 : prev[f[k]] = f[l]
  <2>1. CASE l = n
    <3>1. n \in n .. 2 * n - p /\ n + p - 1 \in n .. 2 * n - 1 /\ (n + p - 1) + 1 = n + p
      OBVIOUS
    <3>2. f[n + p] = f[n]
      BY <1>5, <3>1
    <3>3. prev[f[n + p - 1]] = f[(n + p - 1) + 1]
      BY <1>6, <3>1
    <3>. QED
      BY <2>1, <3>1, <3>2, <3>3
  <2>2. CASE l # n
    <3>1. l - 1 \in n .. 2 * n - 1 /\ (l - 1) + 1 = l
      BY <2>2
    <3>. QED
      BY <1>6, <3>1
  <2>. QED
    BY <2>1, <2>2
<1>. QED
  BY <1>4, <1>7, <1>8 DEF GoesRound

(* What negative_cycle finds: nodes that lead to one another over arcs whose costs sum  *)
(* to less than nothing, and which do not run both ways between two of them.         *)
IsCycle(A, d, via, V) ==
  /\ V # {}
  /\ \A v \in V : /\ via[v] \in A /\ via[v].to = v /\ via[v].from \in V
                  /\ d[v] \in Int /\ d[v] >= d[via[v].from] + via[v].cost
  /\ \A u \in V : \E v \in V : via[v].from = u
  /\ \E v \in V : d[v] > d[via[v].from] + via[v].cost
  /\ \A u, v \in V : via[u].from = v /\ via[v].from = u =>
       \E x \in {u, v} : d[x] > d[via[x].from] + via[x].cost

Found(cycle, A, d, via, V) == IsCycle(A, d, via, V) /\ cycle = {via[v] : v \in V}

LEMMA CycleFound ==
  ASSUME NEW nodes, IsFiniteSet(nodes), Unset \notin nodes, NEW A, IsGraph(nodes, A),
         NEW arcs \in Seq(A), \A a \in A : \E i \in 1 .. Len(arcs) : arcs[i] = a,
         NegativeCycle(nodes, arcs) # {}
  PROVE  \E d, via : \E V \in SUBSET nodes : Found(NegativeCycle(nodes, arcs), A, d, via, V)
<1>. DEFINE n == Cardinality(nodes)
            end == Search(nodes, arcs)
<1>1. n \in Nat
  BY FS_CardinalityType
<1>2. PICK s : /\ s[n] = end
               /\ \A k \in 0 .. n : Sound(nodes, A, s[k])
               /\ \A k \in 1 .. n : s[k] = Pass(s[k - 1], arcs)
  BY SearchIs
<1>3. end.last # Unset
  BY DEF NegativeCycle
<1>. HIDE DEF n, end
<1>4. PICK e, via, last : e = end.distance /\ via = end.via /\ last = end.last
  OBVIOUS
<1>5. /\ \A k \in 0 .. n : s[k].distance \in [nodes -> Int]
      /\ \A k \in 0 .. n : \A v \in nodes : s[k].distance[v] <= 0
      /\ last \in nodes
  BY <1>1, <1>2, <1>3, <1>4, StateType DEF Sound
<1>6. Sound(nodes, A, end) /\ e \in [nodes -> Int]
  BY <1>1, <1>2, <1>4, <1>5
<1>7. n # 0
  BY <1>5, FS_EmptySet DEF n
<1>8. \A v \in nodes : e[v] < 0 =>
        /\ via[v] \in A /\ via[v].to = v /\ via[v].from \in nodes
        /\ via[v].cost \in Int /\ e[via[v].from] \in Int /\ e[v] \in Int
        /\ e[v] - e[via[v].from] - via[v].cost >= 0
  <2>1. TAKE v \in nodes
  <2>2. HAVE e[v] < 0
  <2>3. via[v] \in A /\ via[v].to = v /\ e[v] - e[via[v].from] - via[v].cost >= 0
    BY <1>4, <1>6, <2>2 DEF Sound, Slack
  <2>4. via[v].from \in nodes /\ via[v].cost \in Int
    BY <2>3 DEF IsGraph
  <2>. QED
    BY <1>6, <2>3, <2>4
<1>. DEFINE prev == [v \in nodes |-> IF e[v] < 0 THEN via[v].from ELSE v]
            step == [c \in (1 .. 2 * n) \X nodes |-> prev[c[2]]]
<1>9. prev \in [nodes -> nodes]
  BY <1>8
<1>. HIDE DEF prev
<1>10. PICK f : IsChain(f, 2 * n, nodes, last, step)
  <2>1. \A c \in (1 .. 2 * n) \X nodes : step[c] \in nodes
    BY <1>9
  <2>2. step \in [(1 .. 2 * n) \X nodes -> nodes] /\ 2 * n \in Nat
    BY <1>1, <2>1
  <2>. HIDE DEF step
  <2>. QED
    BY <1>5, <2>2, ChainExists
<1>11. f \in [0 .. 2 * n -> nodes] /\ f[0] = last /\ \A k \in 1 .. 2 * n : f[k] = prev[f[k - 1]]
  <2>1. f \in [0 .. 2 * n -> nodes] /\ f[0] = last /\ \A k \in 1 .. 2 * n : f[k] = step[<< k, f[k - 1] >>]
    <3>. HIDE DEF step
    <3>. QED
      BY <1>10 DEF IsChain
  <2>2. \A k \in 1 .. 2 * n : step[<< k, f[k - 1] >>] = prev[f[k - 1]]
    <3>1. TAKE k \in 1 .. 2 * n
    <3>2. k - 1 \in 0 .. 2 * n
      BY <1>1
    <3>3. << k, f[k - 1] >> \in (1 .. 2 * n) \X nodes
      BY <2>1, <3>2
    <3>. QED
      BY <3>3
  <2>. QED
    BY <2>1, <2>2
<1>. HIDE DEF step
<1>12. /\ \A k \in 0 .. 2 * n : \E l \in 0 .. n - 1 : f[k] = f[l]
       /\ \A k \in n .. 2 * n - 1 : \E l \in n .. 2 * n - 1 : prev[f[k]] = f[l]
       /\ \A l \in n .. 2 * n - 1 : \E k \in n .. 2 * n - 1 : prev[f[k]] = f[l]
  <2>1. PICK m \in Nat : m = n /\ m = Cardinality(nodes)
    BY <1>1 DEF n
  <2>2. m # 0 /\ IsWalk(nodes, m, prev, f)
    BY <1>7, <1>11, <2>1 DEF IsWalk
  <2>3. GoesRound(m, prev, f)
    BY <2>1, <2>2, WalkGoesRound
  <2>. QED
    BY <2>1, <2>3 DEF GoesRound
<1>. DEFINE X == {i \in 0 .. n - 1 : e[f[i]] < s[n - 1 - i].distance[f[i]]}
<1>13. 0 \in X
  <2>1. n \in 1 .. n /\ n - 1 \in 0 .. n /\ n - 1 - 0 = n - 1 /\ 0 \in 0 .. n - 1
    BY <1>1, <1>7
  <2>2. s[n] = Pass(s[n - 1], arcs) /\ Sound(nodes, A, s[n - 1])
    BY <1>2, <2>1
  <2>3. \/ s[n].last = Unset
        \/ s[n].distance[s[n].last] < s[n - 1].distance[s[n].last]
    BY <2>2, PassKeeps
  <2>4. e[last] < s[n - 1].distance[last]
    BY <1>2, <1>3, <1>4, <2>3
  <2>. QED
    BY <1>11, <2>1, <2>4
<1>14. ASSUME NEW i \in 0 .. (n - 1) - 1, i \in X PROVE i + 1 \in X
  <2>1. PICK k \in 1 .. n : /\ k = n - 1 - i /\ k - 1 = n - 1 - (i + 1) /\ k - 1 \in 0 .. n
                            /\ i \in 0 .. 2 * n /\ i + 1 \in 1 .. 2 * n /\ i + 1 \in 0 .. n - 1
                            /\ (i + 1) - 1 = i
    BY <1>1
  <2>2. PICK v, d, c : v = f[i] /\ d = s[k].distance /\ c = s[k - 1].distance
    OBVIOUS
  <2>3. v \in nodes /\ e[v] < d[v] /\ d \in [nodes -> Int] /\ c \in [nodes -> Int] /\ d[v] <= 0
    <3>1. k \in 0 .. n /\ v \in nodes
      BY <1>1, <1>11, <2>1, <2>2
    <3>2. d \in [nodes -> Int] /\ c \in [nodes -> Int] /\ d[v] <= 0
      BY <1>5, <2>1, <2>2, <3>1
    <3>3. e[f[i]] < s[n - 1 - i].distance[f[i]]
      BY <1>14
    <3>4. d = s[n - 1 - i].distance
      BY <2>1, <2>2
    <3>5. e[v] < d[v]
      BY <2>2, <3>3, <3>4
    <3>. QED
      BY <3>1, <3>2, <3>5
  <2>4. e[v] < 0
    BY <1>6, <2>3
  <2>5. PICK u \in nodes, a \in A :
          u = a.from /\ a = via[v] /\ a.to = v /\ a.cost \in Int /\ e[v] - e[u] - a.cost >= 0
    <3>1. PICK a, u : a = via[v] /\ u = a.from
      OBVIOUS
    <3>2. a \in A /\ u \in nodes /\ a.to = v /\ a.cost \in Int /\ e[v] - e[u] - a.cost >= 0
      BY <1>8, <2>3, <2>4, <3>1
    <3>. QED
      BY <3>1, <3>2
  <2>6. f[i + 1] = u
    BY <1>11, <2>1, <2>2, <2>3, <2>4, <2>5 DEF prev
  <2>7. d[v] <= c[u] + a.cost
    <3>1. PICK j \in 1 .. Len(arcs) : arcs[j] = a
      OBVIOUS
    <3>2. s[k] = Pass(s[k - 1], arcs) /\ Sound(nodes, A, s[k - 1])
      BY <1>2, <2>1
    <3>3. \A l \in 1 .. Len(arcs) :
             Pass(s[k - 1], arcs).distance[arcs[l].to] <= s[k - 1].distance[arcs[l].from] + arcs[l].cost
      BY <3>2, PassKeeps
    <3>4. Pass(s[k - 1], arcs).distance[a.to] <= s[k - 1].distance[a.from] + a.cost
      BY <3>1, <3>3
    <3>. QED
      BY <2>2, <2>5, <3>2, <3>4
  <2>8. e[u] < c[u]
    <3>1. e[v] \in Int /\ e[u] \in Int /\ c[u] \in Int /\ d[v] \in Int
      BY <1>6, <2>3
    <3>2. PICK ev \in Int, eu \in Int, cu \in Int, dv \in Int, b \in Int :
            ev = e[v] /\ eu = e[u] /\ cu = c[u] /\ dv = d[v] /\ b = a.cost
      BY <2>5, <3>1
    <3>3. ev - eu - b >= 0 /\ dv <= cu + b /\ ev < dv
      BY <2>3, <2>5, <2>7, <3>2
    <3>4. eu < cu
      BY <3>3
    <3>. QED
      BY <3>2, <3>4
  <2>9. e[f[i + 1]] < s[n - 1 - (i + 1)].distance[f[i + 1]]
    BY <2>1, <2>2, <2>6, <2>8
  <2>. QED
    BY <2>1, <2>9
<1>15. \A i \in 0 .. n - 1 : i \in X
  <2>1. PICK m \in Nat : m = n - 1
    BY <1>1, <1>7
  <2>. HIDE DEF X
  <2>2. \A i \in 0 .. m : i \in X
    <3>1. 0 \in X /\ \A i \in 0 .. m - 1 : i \in X => i + 1 \in X
      BY <1>13, <1>14, <2>1
    <3>. QED
      BY <3>1, UpTo
  <2>. QED
    BY <2>1, <2>2
<1>16. \A i \in 0 .. n - 1 : e[f[i]] < 0
  <2>1. TAKE i \in 0 .. n - 1
  <2>2. n - 1 - i \in 0 .. n /\ i \in 0 .. 2 * n
    BY <1>1
  <2>3. PICK d : d = s[n - 1 - i].distance /\ d \in [nodes -> Int] /\ \A v \in nodes : d[v] <= 0
    BY <1>5, <2>2
  <2>4. f[i] \in nodes /\ e[f[i]] < d[f[i]]
    BY <1>11, <1>15, <2>2, <2>3
  <2>5. e[f[i]] \in Int /\ d[f[i]] \in Int /\ d[f[i]] <= 0
    BY <1>6, <2>3, <2>4
  <2>. QED
    BY <2>4, <2>5
<1>17. \A k \in 0 .. 2 * n : f[k] \in nodes /\ e[f[k]] < 0 /\ prev[f[k]] = via[f[k]].from
  <2>1. \A k \in 0 .. 2 * n : f[k] \in nodes /\ e[f[k]] < 0
    BY <1>11, <1>12, <1>16
  <2>. QED
    BY <2>1 DEF prev
<1>. DEFINE V == {f[k] : k \in n .. 2 * n - 1}
<1>18. \A k \in n .. 2 * n - 1 : k \in 0 .. 2 * n
  BY <1>1
<1>19. /\ \A v \in V : v \in nodes /\ e[v] < 0 /\ via[v].from \in V
       /\ \A u \in V : \E v \in V : via[v].from = u
  <2>1. ASSUME NEW v \in V PROVE v \in nodes /\ e[v] < 0 /\ via[v].from \in V
    <3>1. PICK k \in n .. 2 * n - 1 : v = f[k]
      OBVIOUS
    <3>2. PICK l \in n .. 2 * n - 1 : prev[f[k]] = f[l]
      BY <1>12
    <3>. QED
      BY <1>17, <1>18, <3>1, <3>2
  <2>2. ASSUME NEW u \in V PROVE \E v \in V : via[v].from = u
    <3>1. PICK l \in n .. 2 * n - 1 : u = f[l]
      OBVIOUS
    <3>2. PICK k \in n .. 2 * n - 1 : prev[f[k]] = f[l]
      BY <1>12
    <3>3. f[k] \in V /\ via[f[k]].from = u
      BY <1>17, <1>18, <3>1, <3>2
    <3>. QED
      BY <3>3
  <2>. QED
    BY <2>1, <2>2
<1>20. V # {} /\ V \in SUBSET nodes
  <2>1. n \in n .. 2 * n - 1
    BY <1>1, <1>7
  <2>2. f[n] \in V
    BY <2>1
  <2>. QED
    BY <1>19, <2>2
<1>21. NegativeCycle(nodes, arcs) = {via[v] : v \in V}
  <2>. DEFINE Body(h) == [k \in 0 .. 2 * n |-> IF k = 0 THEN last ELSE via[h[k - 1]].from]
  <2>1. f = Body(f)
    <3>1. \A k \in 0 .. 2 * n : f[k] = IF k = 0 THEN last ELSE via[f[k - 1]].from
      <4>1. TAKE k \in 0 .. 2 * n
      <4>2. CASE k # 0
        <5>1. k \in 1 .. 2 * n /\ k - 1 \in 0 .. 2 * n
          BY <1>1, <4>2
        <5>. QED
          BY <1>11, <1>17, <4>2, <5>1
      <4>. QED
        BY <1>11, <4>2
    <3>. QED
      BY <1>11, <3>1
  <2>2. PICK h : /\ NegativeCycle(nodes, arcs) = {via[h[k]] : k \in n .. 2 * n - 1}
                 /\ h = Body(h)
    <3>. DEFINE chosen == CHOOSE h : h = Body(h)
    <3>1. chosen = Body(chosen)
      BY <2>1
    <3>2. NegativeCycle(nodes, arcs) = {via[chosen[k]] : k \in n .. 2 * n - 1}
      BY <1>3, <1>4 DEF NegativeCycle, n, end
    <3>. HIDE DEF chosen
    <3>. QED
      BY <3>1, <3>2
  <2>3. h[0] = last /\ \A k \in 1 .. 2 * n : h[k] = via[h[k - 1]].from
    <3>1. \A k \in 0 .. 2 * n : h[k] = IF k = 0 THEN last ELSE via[h[k - 1]].from
      BY <2>2
    <3>2. 0 \in 0 .. 2 * n /\ \A k \in 1 .. 2 * n : k \in 0 .. 2 * n /\ k # 0
      BY <1>1
    <3>. QED
      BY <3>1, <3>2
  <2>. DEFINE Y == {k \in 0 .. 2 * n : h[k] = f[k]}
  <2>4. 0 \in Y
    BY <1>1, <1>11, <2>3
  <2>5. ASSUME NEW k \in 0 .. 2 * n - 1, k \in Y PROVE k + 1 \in Y
    <3>1. k + 1 \in 1 .. 2 * n /\ k + 1 \in 0 .. 2 * n /\ (k + 1) - 1 = k /\ k \in 0 .. 2 * n
      BY <1>1
    <3>2. h[k + 1] = via[h[k]].from /\ f[k + 1] = prev[f[k]]
      BY <1>11, <2>3, <3>1
    <3>. QED
      BY <1>17, <2>5, <3>1, <3>2
  <2>6. \A k \in 0 .. 2 * n : k \in Y
    <3>1. PICK m \in Nat : m = 2 * n
      BY <1>1
    <3>. HIDE DEF Y
    <3>2. 0 \in Y /\ \A k \in 0 .. m - 1 : k \in Y => k + 1 \in Y
      BY <2>4, <2>5, <3>1
    <3>3. \A k \in 0 .. m : k \in Y
      BY <3>2, UpTo
    <3>. QED
      BY <3>1, <3>3
  <2>7. \A k \in n .. 2 * n - 1 : h[k] = f[k]
    BY <1>18, <2>6
  <2>8. {via[h[k]] : k \in n .. 2 * n - 1} = {via[f[k]] : k \in n .. 2 * n - 1}
    BY <2>7
  <2>9. {via[f[k]] : k \in n .. 2 * n - 1} = {via[v] : v \in V}
    <3>1. \A x \in {via[f[k]] : k \in n .. 2 * n - 1} : x \in {via[v] : v \in V}
      OBVIOUS
    <3>2. \A x \in {via[v] : v \in V} : x \in {via[f[k]] : k \in n .. 2 * n - 1}
      OBVIOUS
    <3>. QED
      BY <3>1, <3>2
  <2>. HIDE DEF V
  <2>. QED
    BY <2>2, <2>8, <2>9
<1>. HIDE DEF V
<1>22. IsLoop(end, V)
  BY <1>4, <1>19, <1>20 DEF IsLoop
<1>23. \A v \in V : /\ via[v] \in A /\ via[v].to = v /\ via[v].from \in V /\ e[v] \in Int
                    /\ e[v] >= e[via[v].from] + via[v].cost
                    /\ Slack(end, v) > 0 => e[v] > e[via[v].from] + via[v].cost
  <2>1. TAKE v \in V
  <2>2. /\ via[v] \in A /\ via[v].to = v /\ via[v].from \in V
        /\ via[v].cost \in Int /\ e[via[v].from] \in Int /\ e[v] \in Int
        /\ e[v] - e[via[v].from] - via[v].cost >= 0
    BY <1>8, <1>19
  <2>3. Slack(end, v) = e[v] - e[via[v].from] - via[v].cost
    BY <1>4 DEF Slack
  <2>4. PICK x \in Int, y \in Int, c \in Int : x = e[v] /\ y = e[via[v].from] /\ c = via[v].cost
    BY <2>2
  <2>5. x - y - c >= 0 /\ Slack(end, v) = x - y - c
    BY <2>2, <2>3, <2>4
  <2>6. x >= y + c /\ (Slack(end, v) > 0 => x > y + c)
    BY <2>5
  <2>. QED
    BY <2>2, <2>4, <2>6
<1>24. \E v \in V : Slack(end, v) > 0
  BY <1>6, <1>20, <1>22 DEF Sound
<1>25. ASSUME NEW u \in V, NEW v \in V, via[u].from = v, via[v].from = u
       PROVE  \E x \in {u, v} : e[x] > e[via[x].from] + via[x].cost
  <2>1. PICK W : W = {u, v}
    OBVIOUS
  <2>2. IsLoop(end, W) /\ W \in SUBSET nodes
    BY <1>4, <1>19, <1>25, <2>1 DEF IsLoop
  <2>3. PICK x \in W : Slack(end, x) > 0
    BY <1>6, <2>2 DEF Sound
  <2>. QED
    BY <1>23, <2>1, <2>3
<1>26. IsCycle(A, e, via, V)
  BY <1>19, <1>20, <1>23, <1>24, <1>25 DEF IsCycle
<1>27. Found(NegativeCycle(nodes, arcs), A, e, via, V)
  BY <1>21, <1>26 DEF Found
<1>. QED
  BY <1>20, <1>27

-------------------------------------------------------------------------------
(* Cancelling                                                               *)

LEMMA SumIs ==
  ASSUME NEW g, NEW S
  PROVE  SumFunctionOnSet(g, S) = IteratedSum(g, S)
BY DEF SumFunctionOnSet, FoldFunctionOnSet, MapThenFoldSet, IteratedSum

LEMMA SumOfOne ==
  ASSUME NEW g, NEW a, g[a] \in Int
  PROVE  IteratedSum(g, {a}) = g[a]
<1>1. PICK S : S = {a}
  OBVIOUS
<1>2. IsFiniteSet(S)
  BY <1>1, FS_Singleton
<1>3. PICK f : Sums(f, S, g)
  BY <1>1, <1>2, SumsOfParts
<1>4. PICK none : none = {} /\ none = S \ {a}
  BY <1>1
<1>5. S \in SUBSET S /\ a \in S
  BY <1>1
<1>6. f[S] = g[a] + f[none] /\ f[none] = 0 /\ IteratedSum(g, S) = f[S]
  BY <1>3, <1>4, <1>5 DEF Sums
<1>7. IteratedSum(g, S) = g[a]
  BY <1>6
<1>. QED
  BY <1>1, <1>7

(* Going round, what is gained from one node to the next is nothing.                  *)
LEMMA Telescopes ==
  ASSUME NEW V, IsFiniteSet(V), NEW d, \A v \in V : d[v] \in Int, NEW prev,
         \A v \in V : prev[v] \in V, \A u \in V : \E v \in V : prev[v] = u,
         NEW k, \A v \in V : k[v] = d[v] - d[prev[v]]
  PROVE  IteratedSum(k, V) = 0
<1>. DEFINE g == [v \in V |-> d[v]]
            h == [v \in V |-> d[prev[v]]]
            back == [v \in V |-> prev[v]]
<1>1. back \in Surjection(V, V)
  BY DEF Surjection
<1>2. \A u, v \in V : prev[u] = prev[v] => u = v
  <2>1. back \in Injection(V, V)
    <3>. HIDE DEF back
    <3>. QED
      BY <1>1, FS_Surjection
  <2>2. \A u, v \in V : back[u] = back[v] => u = v
    <3>. HIDE DEF back
    <3>. QED
      BY <2>1 DEF Injection, IsInjective
  <2>. QED
    BY <2>2
<1>3. \A v \in V : g[v] \in Int /\ h[v] = g[prev[v]] /\ h[v] \in Int /\ g[v] = k[v] + h[v] /\ k[v] \in Int
  OBVIOUS
<1>. HIDE DEF g, h
<1>4. IteratedSum(g, V) = IteratedSum(h, V)
  <2>1. \A x \in V : (\A v \in V : prev[v] # x) => g[x] = 0
    OBVIOUS
  <2>2. \A x \in V : g[x] \in Int
    BY <1>3
  <2>3. \A v \in V : prev[v] \in V /\ h[v] = g[prev[v]]
    BY <1>3
  <2>. QED
    BY <1>2, <2>1, <2>2, <2>3, SumOverImage
<1>5. IteratedSum(g, V) = IteratedSum(k, V) + IteratedSum(h, V)
  BY <1>3, SumAdds
<1>6. IteratedSum(h, V) \in Int /\ IteratedSum(k, V) \in Int
  BY <1>3, SumIsInteger
<1>. QED
  BY <1>4, <1>5, <1>6

(* A flow that leaves a date as much as it comes to it has no use for potentials.       *)
Balanced(f) ==
  \A potential \in [Nodes(pairs) -> Int] :
    IteratedSum([p \in pairs |-> f[p] * (potential[p[2]] - potential[p[1]])], pairs) = 0

Carries(C, via, V) ==
  /\ \A u, v \in V : via[u].pair = via[v].pair => u = v
  /\ \A v \in V : Pushed(C, via[v].pair) = via[v].push
  /\ \A p \in pairs : (\A v \in V : via[v].pair # p) => Pushed(C, p) = 0

LEMMA PushedIs ==
  ASSUME IsNetwork(pairs), pairs # {}, costs \in [pairs -> Int],
         NEW d, NEW via, NEW V, NEW C, Found(C, Room, d, via, V)
  PROVE  Carries(C, via, V)
<1>0. IsCycle(Room, d, via, V) /\ C = {via[u] : u \in V}
  BY DEF Found
<1>. DEFINE push == [a \in C |-> a.push]
            On(p) == {a \in C : a.pair = p}
<1>1. \A v \in V : /\ via[v] \in Room /\ via[v].to = v /\ via[v].from \in V
                   /\ d[v] \in Int /\ d[v] >= d[via[v].from] + via[v].cost
  BY <1>0 DEF IsCycle
<1>2. \A a \in Room :
        /\ a.pair \in pairs /\ a.push \in {1, -1} /\ a.cost = -a.push * costs[a.pair]
        /\ a.push = 1 => a.from = a.pair[1] /\ a.to = a.pair[2]
        /\ a.push = -1 => a.from = a.pair[2] /\ a.to = a.pair[1]
  BY RoomIsGraph
<1>3. ASSUME NEW u \in V, NEW v \in V, via[u].pair = via[v].pair
      PROVE  u = v
  <2>1. PICK a \in Room, b \in Room : a = via[u] /\ b = via[v]
    BY <1>1
  <2>2. a.to = u /\ b.to = v /\ a.pair = b.pair
    BY <1>1, <1>3, <2>1
  <2>3. CASE a.push = b.push
    BY <1>2, <2>2, <2>3
  <2>4. CASE a.push # b.push
    <3>1. a.from = b.to /\ b.from = a.to
      BY <1>2, <2>2, <2>4
    <3>2. via[u].from = v /\ via[v].from = u
      BY <2>1, <2>2, <3>1
    <3>3. \E x \in {u, v} : d[x] > d[via[x].from] + via[x].cost
      BY <1>0, <3>2 DEF IsCycle
    <3>4. PICK k \in Int : k = costs[a.pair] /\ k = costs[b.pair]
      BY <1>2, <2>2
    <3>5. a.cost \in Int /\ b.cost = -a.cost
      <4>1. a.cost = -a.push * k /\ b.cost = -b.push * k
        BY <1>2, <3>4
      <4>2. (a.push = 1 /\ b.push = -1) \/ (a.push = -1 /\ b.push = 1)
        BY <1>2, <2>4
      <4>3. CASE a.push = 1 /\ b.push = -1
        <5>1. a.cost = -k /\ b.cost = k
          BY <4>1, <4>3
        <5>. QED
          BY <5>1
      <4>4. CASE a.push = -1 /\ b.push = 1
        <5>1. a.cost = k /\ b.cost = -k
          BY <4>1, <4>4
        <5>. QED
          BY <5>1
      <4>. QED
        BY <4>2, <4>3, <4>4
    <3>6. d[u] >= d[v] + a.cost /\ d[v] >= d[u] + b.cost /\ d[u] \in Int /\ d[v] \in Int
      BY <1>1, <2>1, <3>2
    <3>7. d[u] > d[v] + a.cost \/ d[v] > d[u] + b.cost
      BY <2>1, <3>2, <3>3
    <3>. QED
      BY <3>5, <3>6, <3>7
  <2>. QED
    BY <2>3, <2>4
<1>4. \A p : Pushed(C, p) = IteratedSum(push, On(p))
  BY SumIs DEF Pushed
<1>5. ASSUME NEW v \in V PROVE Pushed(C, via[v].pair) = via[v].push
  <2>1. On(via[v].pair) = {via[v]}
    BY <1>0, <1>3
  <2>2. push[via[v]] = via[v].push /\ push[via[v]] \in Int
    <3>1. PICK a \in Room : a = via[v] /\ a \in C
      BY <1>0, <1>1
    <3>2. push[a] = a.push /\ a.push \in Int
      BY <1>2, <3>1
    <3>. QED
      BY <3>1, <3>2
  <2>. HIDE DEF push, On
  <2>3. PICK a : a = via[v]
    OBVIOUS
  <2>4. IteratedSum(push, {a}) = push[a]
    BY <2>2, <2>3, SumOfOne
  <2>. QED
    BY <1>4, <2>1, <2>2, <2>3, <2>4
<1>6. ASSUME NEW p \in pairs, \A v \in V : via[v].pair # p PROVE Pushed(C, p) = 0
  <2>1. PICK none : none = {} /\ none = On(p)
    BY <1>0, <1>6
  <2>2. IteratedSum(push, none) = 0
    <3>1. IsFiniteSet(none) /\ \A x \in none : push[x] = 0
      BY <2>1, FS_EmptySet
    <3>. HIDE DEF push
    <3>. QED
      BY <3>1, SumOfZeros
  <2>. HIDE DEF push, On
  <2>. QED
    BY <1>4, <2>1, <2>2
<1>. QED
  BY <1>3, <1>5, <1>6 DEF Carries

LEMMA Distributes ==
  ASSUME NEW a \in Int, NEW b \in Int, NEW c \in Int
  PROVE  /\ a * b \in Int /\ c * (a + b) = c * a + c * b /\ (a + b) * c = a * c + b * c
         /\ c * 1 = c /\ c * (-1) = -c /\ c * 0 = 0 /\ 0 * c = 0 /\ -1 * c = -c /\ 1 * c = c
OBVIOUS

(* Pushing a unit round a cycle costs less than it did, and keeps the balance.         *)
LEMMA CancelKeeps ==
  ASSUME IsNetwork(pairs), pairs # {}, costs \in [pairs -> Int], flow \in [pairs -> -1 .. 1],
         Balanced(flow), NegativeCycle(Nodes(pairs), ResidualArcs) # {},
         NEW g, g = [p \in pairs |-> flow[p] + Pushed(NegativeCycle(Nodes(pairs), ResidualArcs), p)]
  PROVE  /\ g \in [pairs -> -1 .. 1]
         /\ Balanced(g)
         /\ IteratedSum([p \in pairs |-> costs[p] * g[p]], pairs)
              > IteratedSum([p \in pairs |-> costs[p] * flow[p]], pairs)
<1>1. PICK m \in Nat \ {0} :
        /\ Nodes(pairs) = 0 .. m
        /\ \A p \in pairs : p[1] \in 0 .. m /\ p[2] \in 0 .. m
  <2>1. PICK m \in Nat \ {0} :
          /\ Nodes(pairs) = 0 .. m
          /\ \A p \in pairs : p[1] \in 0 .. m /\ p[2] \in 1 .. m
    BY NodesAre
  <2>. QED
    BY <2>1
<1>2. IsFiniteSet(0 .. m) /\ Unset \notin 0 .. m
  BY FS_Interval, UnsetAssumption
<1>3. IsGraph(0 .. m, Room)
  BY <1>1, RoomIsGraph
<1>4. ResidualArcs \in Seq(Room) /\ \A a \in Room : \E k \in 1 .. Len(ResidualArcs) : ResidualArcs[k] = a
  BY ResidualArcsAre
<1>5. PICK d, via : \E V \in SUBSET (0 .. m) :
                      Found(NegativeCycle(Nodes(pairs), ResidualArcs), Room, d, via, V)
  <2>1. PICK nodes : nodes = 0 .. m /\ nodes = Nodes(pairs)
    BY <1>1
  <2>2. PICK arcs : arcs = ResidualArcs
    OBVIOUS
  <2>3. IsFiniteSet(nodes) /\ Unset \notin nodes /\ IsGraph(nodes, Room) /\ arcs \in Seq(Room)
        /\ \A a \in Room : \E k \in 1 .. Len(arcs) : arcs[k] = a
    BY <1>2, <1>3, <1>4, <2>1, <2>2
  <2>4. NegativeCycle(nodes, arcs) # {}
    BY <2>1, <2>2
  <2>5. \E d, via : \E V \in SUBSET nodes :
          Found(NegativeCycle(nodes, arcs), Room, d, via, V)
    BY <2>3, <2>4, CycleFound
  <2>. QED
    BY <2>1, <2>2, <2>5
<1>18. PICK V, C : /\ V \in SUBSET (0 .. m) /\ Found(C, Room, d, via, V)
                  /\ C = NegativeCycle(Nodes(pairs), ResidualArcs)
  BY <1>5
<1>19. IsCycle(Room, d, via, V)
  BY <1>18 DEF Found
<1>6. IsFiniteSet(V) /\ IsFiniteSet(pairs)
  BY <1>2, <1>18, FS_Subset DEF IsNetwork
<1>7. PICK pu : /\ pu = [p \in pairs |-> Pushed(C, p)]
                /\ g = [p \in pairs |-> flow[p] + pu[p]]
  <2>1. g = [p \in pairs |-> flow[p] + Pushed(C, p)]
    BY <1>18
  <2>2. PICK pu : pu = [p \in pairs |-> Pushed(C, p)]
    OBVIOUS
  <2>3. [p \in pairs |-> flow[p] + Pushed(C, p)] = [p \in pairs |-> flow[p] + pu[p]]
    BY <2>2
  <2>. QED
    BY <2>1, <2>2, <2>3
<1>8. /\ \A v \in V : /\ via[v].pair \in pairs /\ pu[via[v].pair] = via[v].push
                      /\ via[v].push \in {1, -1} /\ flow[via[v].pair] + via[v].push \in -1 .. 1
                      /\ via[v].cost = -via[v].push * costs[via[v].pair]
                      /\ via[v].push = 1 => via[v].from = via[v].pair[1] /\ v = via[v].pair[2]
                      /\ via[v].push = -1 => via[v].from = via[v].pair[2] /\ v = via[v].pair[1]
      /\ \A u, v \in V : via[u].pair = via[v].pair => u = v
      /\ \A p \in pairs : (\A v \in V : via[v].pair # p) => pu[p] = 0
  <2>1. \A v \in V : via[v] \in Room /\ via[v].to = v
    BY <1>19 DEF IsCycle
  <2>2. \A a \in Room :
              /\ a.pair \in pairs /\ a.push \in {1, -1} /\ a.cost = -a.push * costs[a.pair]
              /\ flow[a.pair] + a.push \in -1 .. 1
              /\ a.push = 1 => a.from = a.pair[1] /\ a.to = a.pair[2]
              /\ a.push = -1 => a.from = a.pair[2] /\ a.to = a.pair[1]
    BY RoomIsGraph
  <2>3. /\ \A u, v \in V : via[u].pair = via[v].pair => u = v
        /\ \A v \in V : Pushed(C, via[v].pair) = via[v].push
        /\ \A p \in pairs : (\A v \in V : via[v].pair # p) => Pushed(C, p) = 0
    <3>1. Carries(C, via, V)
      BY <1>18, PushedIs
    <3>. QED
      BY <3>1 DEF Carries
  <2>4. \A v \in V : via[v].pair \in pairs /\ pu[via[v].pair] = via[v].push
    BY <1>7, <2>1, <2>2, <2>3
  <2>5. \A p \in pairs : (\A v \in V : via[v].pair # p) => pu[p] = 0
    BY <1>7, <2>3
  <2>. QED
    BY <2>1, <2>2, <2>3, <2>4, <2>5
<1>9. \A p \in pairs : pu[p] \in Int /\ flow[p] \in Int /\ flow[p] + pu[p] \in -1 .. 1
  <2>1. TAKE p \in pairs
  <2>2. flow[p] \in -1 .. 1
    OBVIOUS
  <2>3. CASE \E v \in V : via[v].pair = p
    BY <1>8, <2>2, <2>3
  <2>4. CASE \A v \in V : via[v].pair # p
    BY <1>8, <2>2, <2>4
  <2>. QED
    BY <2>3, <2>4
<1>10. g \in [pairs -> -1 .. 1]
  BY <1>7, <1>9
<1>11. ASSUME NEW w, \A p \in pairs : w[p] \in Int,
              NEW before, \A p \in pairs : before[p] = w[p] * flow[p],
              NEW after, \A p \in pairs : after[p] = w[p] * g[p],
              NEW onCycle, \A v \in V : onCycle[v] = w[via[v].pair] * via[v].push
       PROVE  IteratedSum(after, pairs) = IteratedSum(before, pairs) + IteratedSum(onCycle, V)
  <2>1. PICK onPairs, to : /\ onPairs = [p \in pairs |-> w[p] * pu[p]]
                           /\ to = [v \in V |-> via[v].pair]
    OBVIOUS
  <2>2. \A p \in pairs : onPairs[p] \in Int /\ before[p] \in Int /\ after[p] = before[p] + onPairs[p]
    <3>1. TAKE p \in pairs
    <3>2. PICK a \in Int, b \in Int, c \in Int : a = flow[p] /\ b = pu[p] /\ c = w[p]
      BY <1>9, <1>11
    <3>3. c * (a + b) = c * a + c * b /\ c * a \in Int /\ c * b \in Int
      BY Distributes
    <3>4. g[p] = a + b /\ onPairs[p] = c * b /\ before[p] = c * a
      BY <1>7, <1>11, <2>1, <3>2
    <3>5. after[p] = c * (a + b)
      BY <1>11, <3>2, <3>4
    <3>. QED
      BY <3>3, <3>4, <3>5
  <2>3. \A v \in V : to[v] \in pairs
    BY <1>8, <2>1
  <2>4. \A v \in V : onCycle[v] = onPairs[to[v]]
    BY <1>8, <1>11, <2>1
  <2>5. \A u, v \in V : to[u] = to[v] => u = v
    BY <1>8, <2>1
  <2>6. \A p \in pairs : (\A v \in V : to[v] # p) => onPairs[p] = 0
    <3>1. TAKE p \in pairs
    <3>2. HAVE \A v \in V : to[v] # p
    <3>3. pu[p] = 0
      BY <1>8, <2>1, <3>2
    <3>4. w[p] * 0 = 0
      BY <1>11, Distributes
    <3>. QED
      BY <2>1, <3>3, <3>4
  <2>7. \A p \in pairs : onPairs[p] \in Int
    BY <2>2
  <2>8. \A v \in V : to[v] \in pairs /\ onCycle[v] = onPairs[to[v]]
    BY <2>3, <2>4
  <2>9. IteratedSum(onPairs, pairs) = IteratedSum(onCycle, V)
    BY <1>6, <2>5, <2>6, <2>7, <2>8, SumOverImage
  <2>10. IteratedSum(after, pairs) = IteratedSum(before, pairs) + IteratedSum(onPairs, pairs)
    BY <1>6, <2>2, SumAdds
  <2>. QED
    BY <2>9, <2>10
<1>. DEFINE prev == [v \in V |-> via[v].from]
<1>12. /\ \A v \in V : prev[v] \in V /\ prev[v] = via[v].from
       /\ \A u \in V : \E v \in V : prev[v] = u
  BY <1>19 DEF IsCycle
<1>. HIDE DEF prev
<1>13. Balanced(g)
  <2>1. SUFFICES ASSUME NEW potential \in [Nodes(pairs) -> Int]
                 PROVE  IteratedSum([p \in pairs |-> g[p] * (potential[p[2]] - potential[p[1]])], pairs) = 0
    BY DEF Balanced
  <2>2. PICK w : w = [p \in pairs |-> potential[p[2]] - potential[p[1]]]
    OBVIOUS
  <2>3. \A n \in 0 .. m : potential[n] \in Int
    BY <1>1
  <2>4. \A p \in pairs : w[p] \in Int /\ w[p] = potential[p[2]] - potential[p[1]]
    BY <1>1, <2>2, <2>3
  <2>5. PICK before, after, onCycle :
          /\ before = [p \in pairs |-> flow[p] * (potential[p[2]] - potential[p[1]])]
          /\ after = [p \in pairs |-> g[p] * (potential[p[2]] - potential[p[1]])]
          /\ onCycle = [v \in V |-> w[via[v].pair] * via[v].push]
    OBVIOUS
  <2>6. \A p \in pairs : before[p] = w[p] * flow[p]
    BY <1>9, <2>4, <2>5
  <2>7. \A p \in pairs : after[p] = w[p] * g[p]
    <3>1. TAKE p \in pairs
    <3>2. g[p] \in Int
      BY <1>10
    <3>. QED
      BY <2>4, <2>5, <3>2
  <2>8. \A v \in V : onCycle[v] = potential[v] - potential[prev[v]]
    <3>1. TAKE v \in V
    <3>2. PICK c \in Int : c = w[via[v].pair]
      BY <1>8, <2>4
    <3>3. PICK a \in Int, b \in Int : a = potential[v] /\ b = potential[prev[v]]
      BY <1>12, <1>18, <2>3
    <3>4. CASE via[v].push = 1
      <4>1. c = a - b
        BY <1>8, <1>12, <2>4, <3>2, <3>3, <3>4
      <4>2. onCycle[v] = c * 1 /\ c * 1 = c
        BY <2>5, <3>2, <3>4, Distributes
      <4>. QED
        BY <3>3, <4>1, <4>2
    <3>5. CASE via[v].push = -1
      <4>1. c = b - a
        BY <1>8, <1>12, <2>4, <3>2, <3>3, <3>5
      <4>2. onCycle[v] = c * (-1) /\ c * (-1) = -c
        BY <2>5, <3>2, <3>5, Distributes
      <4>. QED
        BY <3>3, <4>1, <4>2
    <3>. QED
      BY <1>8, <3>4, <3>5
  <2>9. \A v \in V : potential[v] \in Int
    BY <1>18, <2>3
  <2>10. IteratedSum(onCycle, V) = 0
    BY <1>6, <1>12, <2>8, <2>9, Telescopes
  <2>11. IteratedSum(before, pairs) = 0
    BY <2>5 DEF Balanced
  <2>12. \A v \in V : onCycle[v] = w[via[v].pair] * via[v].push
    BY <2>5
  <2>13. \A p \in pairs : w[p] \in Int
    BY <2>4
  <2>14. IteratedSum(after, pairs) = IteratedSum(before, pairs) + IteratedSum(onCycle, V)
    BY <1>11, <2>6, <2>7, <2>12, <2>13
  <2>. QED
    BY <2>5, <2>10, <2>11, <2>14
<1>14. ASSUME NEW paid, \A v \in V : paid[v] = costs[via[v].pair] * via[v].push
       PROVE  IteratedSum(paid, V) \in Int /\ IteratedSum(paid, V) > 0
  <2>1. PICK e, gained : e = [v \in V |-> -d[v]] /\ gained = [v \in V |-> e[v] - e[prev[v]]]
    OBVIOUS
  <2>2. \A v \in V : d[v] \in Int /\ e[v] \in Int /\ e[v] = -d[v]
    <3>1. TAKE v \in V
    <3>2. PICK a \in Int : a = d[v]
      BY <1>19 DEF IsCycle
    <3>. QED
      BY <2>1, <3>2
  <2>3. \A v \in V : /\ gained[v] \in Int /\ paid[v] \in Int /\ gained[v] <= paid[v]
                     /\ d[v] > d[via[v].from] + via[v].cost => gained[v] # paid[v]
    <3>1. TAKE v \in V
    <3>2. PICK c \in Int : c = costs[via[v].pair]
      BY <1>8
    <3>3. PICK a \in Int, b \in Int : a = d[v] /\ b = d[prev[v]] /\ gained[v] = b - a
      <4>1. PICK x \in V : x = prev[v]
        BY <1>12
      <4>2. PICK a \in Int, b \in Int : a = d[v] /\ b = d[x] /\ e[v] = -a /\ e[x] = -b
        BY <2>2
      <4>. QED
        BY <2>1, <4>1, <4>2
    <3>4. a >= b + via[v].cost
      BY <1>19, <1>12, <3>3 DEF IsCycle
    <3>5. paid[v] \in Int /\ via[v].cost = -paid[v]
      <4>1. paid[v] = c * via[v].push /\ via[v].cost = -via[v].push * c
        BY <1>8, <1>14, <3>2
      <4>2. CASE via[v].push = 1
        <5>1. paid[v] = c /\ via[v].cost = -c
          BY <4>1, <4>2
        <5>. QED
          BY <5>1
      <4>3. CASE via[v].push = -1
        <5>1. paid[v] = -c /\ via[v].cost = c
          BY <4>1, <4>3
        <5>. QED
          BY <5>1
      <4>. QED
        BY <1>8, <4>2, <4>3
    <3>6. d[via[v].from] = b
      BY <1>12, <3>3
    <3>. QED
      BY <3>3, <3>4, <3>5, <3>6
  <2>4. IteratedSum(gained, V) = 0
    <3>1. \A v \in V : gained[v] = e[v] - e[prev[v]]
      BY <2>1
    <3>2. \A v \in V : e[v] \in Int
      BY <2>2
    <3>. QED
      BY <1>6, <1>12, <3>1, <3>2, Telescopes
  <2>5. \E v \in V : gained[v] # paid[v]
    BY <1>19, <2>3 DEF IsCycle
  <2>6. \A v \in V : gained[v] \in Int /\ paid[v] \in Int /\ gained[v] <= paid[v]
    BY <2>3
  <2>7. /\ IteratedSum(gained, V) <= IteratedSum(paid, V)
        /\ IteratedSum(gained, V) # IteratedSum(paid, V)
    BY <1>6, <2>5, <2>6, SumGrows
  <2>8. IteratedSum(paid, V) \in Int
    BY <1>6, <2>6, SumIsInteger
  <2>. QED
    BY <2>4, <2>7, <2>8
<1>15. IteratedSum([p \in pairs |-> costs[p] * g[p]], pairs)
         > IteratedSum([p \in pairs |-> costs[p] * flow[p]], pairs)
  <2>1. PICK before, after, paid :
          /\ before = [p \in pairs |-> costs[p] * flow[p]]
          /\ after = [p \in pairs |-> costs[p] * g[p]]
          /\ paid = [v \in V |-> costs[via[v].pair] * via[v].push]
    OBVIOUS
  <2>2. \A p \in pairs : costs[p] \in Int /\ before[p] = costs[p] * flow[p] /\ after[p] = costs[p] * g[p]
    BY <2>1
  <2>3. \A v \in V : paid[v] = costs[via[v].pair] * via[v].push
    BY <2>1
  <2>4. IteratedSum(after, pairs) = IteratedSum(before, pairs) + IteratedSum(paid, V)
    BY <1>11, <2>2, <2>3
  <2>5. IteratedSum(before, pairs) \in Int
    <3>1. \A p \in pairs : before[p] \in Int
      BY <1>9, <2>2, Distributes
    <3>. QED
      BY <1>6, <3>1, SumIsInteger
  <2>6. IteratedSum(paid, V) \in Int /\ IteratedSum(paid, V) > 0
    BY <1>14, <2>3
  <2>7. IteratedSum(after, pairs) > IteratedSum(before, pairs)
    BY <2>4, <2>5, <2>6
  <2>. QED
    BY <2>1, <2>7
<1>. QED
  BY <1>10, <1>13, <1>15

(* What balances for every potential leaves a date as much as comes to it.             *)
LEMMA Conserves ==
  ASSUME IsNetwork(pairs), NEW f, \A p \in pairs : f[p] \in Int, Balanced(f), NEW n
  PROVE  SumFunctionOnSet(f, {p \in pairs : p[1] = n}) = SumFunctionOnSet(f, {p \in pairs : p[2] = n})
<1>1. PICK potential : potential = [k \in Nodes(pairs) |-> IF k = n THEN 1 ELSE 0]
  OBVIOUS
<1>2. PICK leaving, coming, both, outside, inside :
        /\ leaving = {p \in pairs : p[1] = n} /\ coming = {p \in pairs : p[2] = n}
        /\ both = [p \in pairs |-> f[p] * (potential[p[2]] - potential[p[1]])]
        /\ outside = [p \in pairs |-> IF p[1] = n THEN f[p] ELSE 0]
        /\ inside = [p \in pairs |-> IF p[2] = n THEN f[p] ELSE 0]
  OBVIOUS
<1>3. IsFiniteSet(pairs) /\ IsFiniteSet(leaving) /\ IsFiniteSet(coming)
  BY <1>2, FS_Subset DEF IsNetwork
<1>4. CASE pairs = {}
  <2>1. leaving = coming
    BY <1>2, <1>4
  <2>. QED
    BY <1>2, <2>1
<1>5. CASE pairs # {}
  <2>1. PICK m \in Nat \ {0} :
          /\ Nodes(pairs) = 0 .. m
          /\ \A p \in pairs : /\ p[1] \in 0 .. m /\ p[2] \in 1 .. m
                              /\ p[1] < p[2]
    <3>1. PICK m \in Nat \ {0} :
           /\ Nodes(pairs) = 0 .. m
           /\ \A p \in pairs : /\ p = << p[1], p[2] >> /\ p[1] \in 0 .. m /\ p[2] \in 1 .. m
                                 /\ p[1] < p[2]
      BY <1>5, NodesAre
    <3>. QED
      BY <3>1
  <2>2. potential \in [Nodes(pairs) -> Int]
    BY <1>1
  <2>3. IteratedSum(both, pairs) = 0
    BY <1>2, <2>2 DEF Balanced
  <2>4. \A p \in pairs : both[p] \in Int /\ outside[p] \in Int /\ inside[p] = both[p] + outside[p]
    <3>1. TAKE p \in pairs
    <3>2. PICK c \in Int : c = f[p]
      OBVIOUS
    <3>3. c * 1 = c /\ c * (-1) = -c /\ c * 0 = 0
      BY Distributes
    <3>4. p[1] \in Nodes(pairs) /\ p[2] \in Nodes(pairs) /\ p[1] # p[2]
      BY <2>1
    <3>5. CASE p[1] = n
      <4>1. potential[p[2]] - potential[p[1]] = -1
        BY <1>1, <3>4, <3>5
      <4>2. both[p] = -c /\ outside[p] = c /\ inside[p] = 0
        BY <1>2, <3>2, <3>3, <3>4, <3>5, <4>1
      <4>. QED
        BY <4>2
    <3>6. CASE p[2] = n
      <4>1. potential[p[2]] - potential[p[1]] = 1
        BY <1>1, <3>4, <3>6
      <4>2. both[p] = c /\ outside[p] = 0 /\ inside[p] = c
        BY <1>2, <3>2, <3>3, <3>4, <3>6, <4>1
      <4>. QED
        BY <4>2
    <3>7. CASE p[1] # n /\ p[2] # n
      <4>1. potential[p[2]] - potential[p[1]] = 0
        BY <1>1, <3>4, <3>7
      <4>2. both[p] = 0 /\ outside[p] = 0 /\ inside[p] = 0
        BY <1>2, <3>2, <3>3, <3>4, <3>7, <4>1
      <4>. QED
        BY <4>2
    <3>. QED
      BY <3>5, <3>6, <3>7
  <2>5. IteratedSum(inside, pairs) = IteratedSum(both, pairs) + IteratedSum(outside, pairs)
    BY <1>3, <2>4, SumAdds
  <2>6. \A p \in pairs : outside[p] \in Int
    BY <2>4
  <2>7. \A p \in pairs : inside[p] \in Int
    BY <2>4
  <2>8. IteratedSum(outside, pairs) \in Int /\ IteratedSum(inside, pairs) \in Int
    BY <1>3, <2>6, <2>7, SumIsInteger
  <2>9. IteratedSum(inside, pairs) = IteratedSum(outside, pairs)
    BY <2>3, <2>5, <2>8
  <2>10. PICK to : to = [p \in pairs |-> p]
    OBVIOUS
  <2>11. IteratedSum(outside, pairs) = IteratedSum(f, leaving)
    <3>1. \A y \in leaving : to[y] \in pairs /\ f[y] = outside[to[y]]
      BY <1>2, <2>10
    <3>2. \A x, y \in leaving : to[x] = to[y] => x = y
      BY <1>2, <2>10
    <3>3. \A x \in pairs : (\A y \in leaving : to[y] # x) => outside[x] = 0
      BY <1>2, <2>10
    <3>. QED
      BY <1>3, <2>6, <3>1, <3>2, <3>3, SumOverImage
  <2>12. IteratedSum(inside, pairs) = IteratedSum(f, coming)
    <3>1. \A y \in coming : to[y] \in pairs /\ f[y] = inside[to[y]]
      BY <1>2, <2>10
    <3>2. \A x, y \in coming : to[x] = to[y] => x = y
      BY <1>2, <2>10
    <3>3. \A x \in pairs : (\A y \in coming : to[y] # x) => inside[x] = 0
      BY <1>2, <2>10
    <3>. QED
      BY <1>3, <2>7, <3>1, <3>2, <3>3, SumOverImage
  <2>13. SumFunctionOnSet(f, leaving) = SumFunctionOnSet(f, coming)
    BY <2>9, <2>11, <2>12, SumIs
  <2>. QED
    BY <1>2, <2>13
<1>. QED
  BY <1>4, <1>5

LEMMA StillIsBalanced ==
  ASSUME IsNetwork(pairs), pairs # {}
  PROVE  Still \in [pairs -> -1 .. 1] /\ Balanced(Still)
<1>1. Still \in [pairs -> -1 .. 1]
  BY DEF Still
<1>2. SUFFICES ASSUME NEW potential \in [Nodes(pairs) -> Int]
               PROVE  IteratedSum([p \in pairs |-> Still[p] * (potential[p[2]] - potential[p[1]])], pairs) = 0
  BY <1>1 DEF Balanced
<1>3. PICK m \in Nat \ {0} : /\ Nodes(pairs) = 0 .. m
                             /\ \A p \in pairs : p[1] \in 0 .. m /\ p[2] \in 0 .. m
  <2>1. PICK m \in Nat \ {0} :
         /\ Nodes(pairs) = 0 .. m
         /\ \A p \in pairs : /\ p = << p[1], p[2] >> /\ p[1] \in 0 .. m /\ p[2] \in 1 .. m
                             /\ p[1] < p[2]
    BY NodesAre
  <2>. QED
    BY <2>1
<1>4. PICK both : both = [p \in pairs |-> Still[p] * (potential[p[2]] - potential[p[1]])]
  OBVIOUS
<1>5. \A p \in pairs : both[p] = 0
  <2>1. TAKE p \in pairs
  <2>2. potential[p[2]] - potential[p[1]] \in Int
    BY <1>3
  <2>3. Still[p] = 0
    BY DEF Still
  <2>. QED
    BY <1>4, <2>2, <2>3
<1>6. IteratedSum(both, pairs) = 0
  BY <1>5, SumOfZeros DEF IsNetwork
<1>. QED
  BY <1>4, <1>6

-------------------------------------------------------------------------------
(* The gate                                                                 *)

(* What is done to a pixel: nothing, or what closes its loops.                      *)
Settles(network, frame, pixel, cycles) ==
  \/ cycles = [p \in network |-> 0]
  \/ /\ Problem(network, frame, pixel).error = "none"
     /\ ClosesEveryLoop(cycles, Problem(network, frame, pixel).misclosure)

(* A loop is as far off as its problem says, within a quarter of a cycle.             *)
LEMMA ClosedIsNear ==
  ASSUME NEW network, IsNetwork(network), NEW frame, NEW pixel, IsPixel(network, pixel),
         NEW cycles \in [network -> Int], NEW t \in Triangles(network),
         Root(frame, pixel, t) \in Int,
         Problem(network, frame, pixel).error = "none",
         ClosesEveryLoop(cycles, Problem(network, frame, pixel).misclosure)
  PROVE  /\ Evaluable(frame, pixel, t)
         /\ Root(frame, pixel, t) - 1 <= Residual(Repaired(pixel, cycles), t)
         /\ Residual(Repaired(pixel, cycles), t) <= Root(frame, pixel, t) + 1
<1>0. Solvable(network, frame, pixel)
  BY ProblemSolved
<1>1. PICK r \in Int, x \in Int, k \in Int :
        r = Residual(pixel, t) /\ x = Root(frame, pixel, t) /\ k = Misses(cycles, t)
  BY RepairedPixel
<1>2. Off(frame, pixel, t) = r - x /\ Off(frame, pixel, t) \in Int
  BY <1>1 DEF Off
<1>3. WhyNone(frame, pixel, t) = "none"
  BY <1>0 DEF Solvable
<1>4. /\ Evaluable(frame, pixel, t)
      /\ Rounded(Off(frame, pixel, t)) \in Int
      /\ Cycle * Rounded(Off(frame, pixel, t)) - 1 <= Off(frame, pixel, t)
      /\ Off(frame, pixel, t) <= Cycle * Rounded(Off(frame, pixel, t)) + 1
  BY <1>2, <1>3, NothingWrong
<1>5. PICK m \in Int : m = Rounded(Off(frame, pixel, t))
  BY <1>4
<1>6. k + m = 0
  <2>1. PICK misclosure : /\ misclosure = Problem(network, frame, pixel).misclosure
                          /\ misclosure = [u \in Triangles(network) |-> Rounded(Off(frame, pixel, u))]
    BY <1>0 DEF Solvable
  <2>2. t \in DOMAIN misclosure /\ misclosure[t] = m
    BY <1>5, <2>1
  <2>3. Misses(cycles, t) + misclosure[t] = 0
    BY <2>1, <2>2 DEF ClosesEveryLoop
  <2>. QED
    BY <1>1, <2>2, <2>3
<1>7. Residual(Repaired(pixel, cycles), t) = r + 4 * k
  BY <1>1, RepairedPixel DEF Cycle
<1>8. 4 * m - 1 <= r - x /\ r - x <= 4 * m + 1
  BY <1>2, <1>4, <1>5 DEF Cycle
<1>. QED
  BY <1>1, <1>4, <1>6, <1>7, <1>8

IsFrame(network, n, frame) ==
  n \in Nat /\ DOMAIN frame = 1 .. n /\ \A k \in 1 .. n : IsPixel(network, frame[k])
Restoring(network, n, frame, cycles) ==
  \A k \in 1 .. n : cycles[k] \in [network -> Int] /\ Settles(network, frame, frame[k], cycles[k])
Restored(n, frame, cycles) == [k \in 1 .. n |-> Repaired(frame[k], cycles[k])]
Unmoved(network, frame, moved, i) ==
  \A t \in Triangles(network) :
    /\ Evaluable(moved, moved[i], t) <=> Evaluable(frame, frame[i], t)
    /\ Withheld(moved, moved[i], t) <=> Withheld(frame, frame[i], t)
    /\ Evaluable(frame, frame[i], t) =>
         Root(moved, moved[i], t) = Root(frame, frame[i], t) /\ Root(frame, frame[i], t) \in Int

(* The repairs of a frame move none of its roots, and none of what is judged.          *)
LEMMA RepairsKeepRoots ==
  ASSUME NEW network, IsNetwork(network), NEW n, NEW frame, IsFrame(network, n, frame),
         NEW cycles, Restoring(network, n, frame, cycles),
         NEW i, i \in 1 .. n
  PROVE  Unmoved(network, frame, Restored(n, frame, cycles), i)
<1>. DEFINE moved == Restored(n, frame, cycles)
<1>0. /\ n \in Nat /\ DOMAIN frame = 1 .. n
      /\ \A k \in 1 .. n : IsPixel(network, frame[k])
      /\ \A k \in 1 .. n : /\ cycles[k] \in [network -> Int]
                            /\ Settles(network, frame, frame[k], cycles[k])
      /\ moved = [k \in 1 .. n |-> Repaired(frame[k], cycles[k])]
  BY DEF IsFrame, Restoring, Restored
<1>. SUFFICES ASSUME NEW t \in Triangles(network)
     PROVE  /\ Evaluable(moved, moved[i], t) <=> Evaluable(frame, frame[i], t)
            /\ Withheld(moved, moved[i], t) <=> Withheld(frame, frame[i], t)
            /\ Evaluable(frame, frame[i], t) =>
                 Root(moved, moved[i], t) = Root(frame, frame[i], t) /\ Root(frame, frame[i], t) \in Int
  BY DEF Unmoved
<1>. HIDE DEF moved
<1>. USE <1>0
<1>1. \A k \in 1 .. n : /\ moved[k] = Repaired(frame[k], cycles[k])
                        /\ moved[k].missing = frame[k].missing /\ moved[k].label = frame[k].label
                        /\ Residual(frame[k], t) \in Int /\ Misses(cycles[k], t) \in Int
                        /\ Residual(moved[k], t) = Residual(frame[k], t) + Cycle * Misses(cycles[k], t)
  BY RepairedPixel
<1>2. DOMAIN moved = 1 .. n
  OBVIOUS
<1>3. /\ Labelled(moved[i], t) <=> Labelled(frame[i], t)
      /\ Finite(moved[i], t) <=> Finite(frame[i], t)
  BY <1>1 DEF Labelled, Finite
<1>4. Sharing(moved, moved[i], t) = Sharing(frame, frame[i], t)
  BY <1>1, <1>2 DEF Sharing, SameKey, Finite
<1>5. (Evaluable(moved, moved[i], t) <=> Evaluable(frame, frame[i], t))
      /\ (Withheld(moved, moved[i], t) <=> Withheld(frame, frame[i], t))
  BY <1>3, <1>4 DEF Evaluable, Rooted, Withheld
<1>6. Root(moved, moved[i], t) = Root(moved, frame[i], t)
  <2>1. Sharing(moved, moved[i], t) = Sharing(moved, frame[i], t)
    BY <1>1, <1>2 DEF Sharing, SameKey
  <2>. QED
    BY <2>1 DEF Root
<1>7. ASSUME Evaluable(frame, frame[i], t)
      PROVE  Root(moved, frame[i], t) = Root(frame, frame[i], t) /\ Root(frame, frame[i], t) \in Int
  <2>1. PICK sharing : /\ sharing = Sharing(frame, frame[i], t)
                       /\ sharing = Sharing(moved, frame[i], t)
    <3>1. Sharing(moved, moved[i], t) = Sharing(moved, frame[i], t)
      BY <1>1, <1>2 DEF Sharing, SameKey
    <3>. QED
      BY <1>4, <3>1
  <2>2. \A k \in sharing : k \in 1 .. n
    BY <2>1 DEF Sharing
  <2>3. sharing # {}
    <3>1. Cardinality(sharing) >= MinRootPixels
      BY <1>7, <2>1 DEF Evaluable, Rooted
    <3>2. PICK none : none = {} /\ Cardinality(none) = 0
      BY FS_EmptySet
    <3>3. PICK least \in Nat : least = MinRootPixels /\ least > 0
      BY RootAssumption
    <3>4. sharing # none
      <4>1. SUFFICES ASSUME sharing = none PROVE FALSE
        OBVIOUS
      <4>2. Cardinality(sharing) = 0
        BY <3>2, <4>1
      <4>. QED
        BY <3>1, <3>3, <4>2
    <3>. QED
      BY <3>2, <3>4
  <2>4. Root(frame, frame[i], t) \in Int
    <3>1. \E k : /\ IsMedian(Sharing(frame, frame[i], t), Residuals(frame, frame[i], t), k)
                /\ Root(frame, frame[i], t) = Cycle * Rounded(Residuals(frame, frame[i], t)[k])
      <4>1. \A k \in Sharing(frame, frame[i], t) : Residual(frame[k], t) \in Int
        BY <1>1, <2>1, <2>2
      <4>2. Sharing(frame, frame[i], t) # {}
        BY <2>1, <2>3
      <4>. QED
        BY <4>1, <4>2, RootIsMedian
    <3>2. PICK k : /\ k \in sharing
                   /\ Root(frame, frame[i], t) = Cycle * Rounded(Residuals(frame, frame[i], t)[k])
      BY <2>1, <3>1 DEF IsMedian
    <3>3. Residuals(frame, frame[i], t)[k] \in Int
      BY <1>1, <2>1, <2>2, <3>2 DEF Residuals
    <3>4. Rounded(Residuals(frame, frame[i], t)[k]) \in Int
      BY <3>3, RoundedNear
    <3>. QED
      BY <3>2, <3>4 DEF Cycle
  <2>5. ASSUME NEW k \in sharing
        PROVE  /\ Residual(frame[k], t) \in Int /\ Residual(moved[k], t) \in Int
               /\ \/ Residual(moved[k], t) = Residual(frame[k], t)
                  \/ /\ Root(frame, frame[i], t) - 1 <= Residual(moved[k], t)
                     /\ Residual(moved[k], t) <= Root(frame, frame[i], t) + 1
    <3>1. k \in 1 .. n
      BY <2>2
    <3>2. Residual(frame[k], t) \in Int /\ Residual(moved[k], t) \in Int
      BY <1>1, <3>1 DEF Cycle
    <3>3. CASE cycles[k] = [p \in network |-> 0]
      <4>1. PICK e \in network, l \in network, s \in network :
              e = Early(t) /\ l = Late(t) /\ s = Spanning(t)
        BY TriangleType
      <4>2. Misses(cycles[k], t) = 0
        BY <3>3, <4>1 DEF Misses
      <4>3. Residual(moved[k], t) = Residual(frame[k], t)
        BY <1>1, <3>1, <3>2, <4>2 DEF Cycle
      <4>. QED
        BY <3>2, <4>3
    <3>4. CASE /\ Problem(network, frame, frame[k]).error = "none"
               /\ ClosesEveryLoop(cycles[k], Problem(network, frame, frame[k]).misclosure)
      <4>1. Root(frame, frame[k], t) = Root(frame, frame[i], t)
        <5>1. SameKey(frame[k], frame[i], t)
          BY <2>1 DEF Sharing
        <5>2. Sharing(frame, frame[k], t) = Sharing(frame, frame[i], t)
          BY <5>1 DEF Sharing, SameKey
        <5>. QED
          BY <5>2 DEF Root
      <4>2. Root(frame, frame[k], t) \in Int
        BY <2>4, <4>1
      <4>3. IsPixel(network, frame[k]) /\ cycles[k] \in [network -> Int]
        BY <3>1
      <4>4. /\ Root(frame, frame[k], t) - 1 <= Residual(Repaired(frame[k], cycles[k]), t)
            /\ Residual(Repaired(frame[k], cycles[k]), t) <= Root(frame, frame[k], t) + 1
        BY <3>4, <4>2, <4>3, ClosedIsNear
      <4>. QED
        BY <1>1, <3>1, <3>2, <4>1, <4>4
    <3>. QED
      BY <3>1, <3>3, <3>4 DEF Settles
  <2>6. Sharing(frame, frame[i], t) # {} /\ Sharing(moved, frame[i], t) = Sharing(frame, frame[i], t)
    BY <2>1, <2>3
  <2>7. StaysNear(frame, moved, frame[i], t)
    BY <2>1, <2>5 DEF StaysNear
  <2>8. Root(moved, frame[i], t) = Root(frame, frame[i], t)
    BY <1>2, <2>6, <2>7, RootStays
  <2>. QED
    BY <2>4, <2>8
<1>. QED
  BY <1>5, <1>6, <1>7

-------------------------------------------------------------------------------
(* Shortest distances                                                       *)

IsExtension(h, distance, arcs, T) ==
  /\ h \in [0 .. Len(arcs) -> T]
  /\ h[0] = distance
  /\ \A i \in 1 .. Len(arcs) : h[i] = Extend(h[i - 1], arcs[i])
  /\ Extended(distance, arcs) = h[Len(arcs)]

LEMMA ExtendedIs ==
  ASSUME NEW A, NEW arcs \in Seq(A), NEW T, \A d \in T : \A a \in A : Extend(d, a) \in T,
         NEW distance \in T
  PROVE  \E h : IsExtension(h, distance, arcs, T)
<1>. DEFINE n == Len(arcs)
            step == [e \in (1 .. n) \X T |-> Extend(e[2], arcs[e[1]])]
            Body(h) == [i \in 0 .. n |-> IF i = 0 THEN distance ELSE Extend(h[i - 1], arcs[i])]
<1>1. n \in Nat /\ \A i \in 1 .. n : arcs[i] \in A
  BY LenProperties
<1>2. \A d \in T : \A i \in 1 .. n : Extend(d, arcs[i]) \in T
  BY <1>1
<1>3. step \in [(1 .. n) \X T -> T]
  <2>1. \A e \in (1 .. n) \X T : step[e] \in T
    <3>1. TAKE e \in (1 .. n) \X T
    <3>2. e[1] \in 1 .. n /\ e[2] \in T
      OBVIOUS
    <3>. QED
      BY <1>2, <3>2
  <2>. QED
    BY <2>1
<1>. HIDE DEF n
<1>4. PICK f : IsChain(f, n, T, distance, step)
  <2>. HIDE DEF step
  <2>. QED
    BY <1>1, <1>3, ChainExists
<1>5. f = Body(f)
  <2>1. f \in [0 .. n -> T] /\ f[0] = distance /\ \A k \in 1 .. n : f[k] = step[<< k, f[k - 1] >>]
    <3>. HIDE DEF step
    <3>. QED
      BY <1>4 DEF IsChain
  <2>2. \A k \in 0 .. n : f[k] = IF k = 0 THEN distance ELSE Extend(f[k - 1], arcs[k])
    <3>1. TAKE k \in 0 .. n
    <3>2. CASE k # 0
      <4>1. k \in 1 .. n /\ k - 1 \in 0 .. n
        BY <1>1, <3>2
      <4>2. << k, f[k - 1] >> \in (1 .. n) \X T
        BY <2>1, <4>1
      <4>. QED
        BY <2>1, <3>2, <4>1, <4>2
    <3>. QED
      BY <2>1, <3>2
  <2>. QED
    BY <2>1, <2>2
<1>6. PICK h : Extended(distance, arcs) = h[n] /\ h = Body(h)
  <2>1. \E h : h = Body(h)
    BY <1>5
  <2>. QED
    BY <2>1 DEF Extended, n
<1>7. h[0] = distance /\ \A i \in 1 .. n : h[i] = Extend(h[i - 1], arcs[i])
  BY <1>1, <1>6
<1>. DEFINE X == {k \in 0 .. n : h[k] \in T}
<1>8. \A k \in 0 .. n : k \in X
  <2>1. 0 \in X
    BY <1>1, <1>7
  <2>2. ASSUME NEW j \in 0 .. n - 1, j \in X PROVE j + 1 \in X
    <3>1. PICK k : k = j + 1 /\ k \in 1 .. n /\ k - 1 = j /\ k \in 0 .. n
      BY <1>1
    <3>2. h[k] = Extend(h[j], arcs[k]) /\ h[j] \in T
      BY <1>7, <2>2, <3>1
    <3>3. h[k] \in T
      BY <1>2, <3>1, <3>2
    <3>. QED
      BY <3>1, <3>3
  <2>. HIDE DEF X
  <2>. QED
    BY <1>1, <2>1, <2>2, UpTo
<1>9. h \in [0 .. n -> T]
  <2>1. DOMAIN h = 0 .. n /\ h = [k \in 0 .. n |-> h[k]]
    BY <1>6
  <2>. QED
    BY <1>8, <2>1
<1>10. IsExtension(h, distance, arcs, T)
  BY <1>6, <1>7, <1>9 DEF IsExtension, n
<1>. QED
  BY <1>10

(* The distances before the first pass, and after each.                             *)
Started(nodes) == [n \in nodes |-> IF n = 0 THEN 0 ELSE Unset]

IsPasses(h, nodes, arcs, T) ==
  /\ h \in [0 .. Cardinality(nodes) - 1 -> T]
  /\ h[0] = Started(nodes)
  /\ \A k \in 1 .. Cardinality(nodes) - 1 : h[k] = Extended(h[k - 1], arcs)
  /\ Distances(nodes, arcs) = h[Cardinality(nodes) - 1]

LEMMA DistancesIs ==
  ASSUME NEW nodes, Cardinality(nodes) \in Nat \ {0}, NEW arcs, NEW T,
         \A d \in T : Extended(d, arcs) \in T, Started(nodes) \in T
  PROVE  \E h : IsPasses(h, nodes, arcs, T)
<1>. DEFINE n == Cardinality(nodes) - 1
            first == Started(nodes)
            step == [e \in (1 .. n) \X T |-> Extended(e[2], arcs)]
            Body(h) == [k \in 0 .. n |-> IF k = 0 THEN first ELSE Extended(h[k - 1], arcs)]
<1>1. n \in Nat /\ first \in T
  OBVIOUS
<1>3. step \in [(1 .. n) \X T -> T]
  <2>1. \A e \in (1 .. n) \X T : step[e] \in T
    <3>1. TAKE e \in (1 .. n) \X T
    <3>2. e[1] \in 1 .. n /\ e[2] \in T
      OBVIOUS
    <3>. QED
      BY <3>2
  <2>. QED
    BY <2>1
<1>. HIDE DEF n, first
<1>4. PICK f : IsChain(f, n, T, first, step)
  <2>. HIDE DEF step
  <2>. QED
    BY <1>1, <1>3, ChainExists
<1>5. f = Body(f)
  <2>1. f \in [0 .. n -> T] /\ f[0] = first /\ \A k \in 1 .. n : f[k] = step[<< k, f[k - 1] >>]
    <3>. HIDE DEF step
    <3>. QED
      BY <1>4 DEF IsChain
  <2>2. \A k \in 0 .. n : f[k] = IF k = 0 THEN first ELSE Extended(f[k - 1], arcs)
    <3>1. TAKE k \in 0 .. n
    <3>2. CASE k # 0
      <4>1. k \in 1 .. n /\ k - 1 \in 0 .. n
        BY <1>1, <3>2
      <4>2. << k, f[k - 1] >> \in (1 .. n) \X T
        BY <2>1, <4>1
      <4>. QED
        BY <2>1, <3>2, <4>1, <4>2
    <3>. QED
      BY <2>1, <3>2
  <2>. QED
    BY <2>1, <2>2
<1>6. PICK h : Distances(nodes, arcs) = h[n] /\ h = Body(h)
  <2>1. \E h : h = Body(h)
    BY <1>5
  <2>. QED
    BY <2>1 DEF Distances, n, first, Started
<1>7. h[0] = first /\ \A i \in 1 .. n : h[i] = Extended(h[i - 1], arcs)
  BY <1>1, <1>6
<1>. DEFINE X == {k \in 0 .. n : h[k] \in T}
<1>8. \A k \in 0 .. n : k \in X
  <2>1. 0 \in X
    BY <1>1, <1>7
  <2>2. ASSUME NEW j \in 0 .. n - 1, j \in X PROVE j + 1 \in X
    <3>1. PICK k : k = j + 1 /\ k \in 1 .. n /\ k - 1 = j /\ k \in 0 .. n
      BY <1>1
    <3>2. h[k] = Extended(h[j], arcs) /\ h[j] \in T
      BY <1>7, <2>2, <3>1
    <3>3. h[k] \in T
      BY <3>2
    <3>. QED
      BY <3>1, <3>3
  <2>. HIDE DEF X
  <2>. QED
    BY <1>1, <2>1, <2>2, UpTo
<1>9. h \in [0 .. n -> T]
  <2>1. DOMAIN h = 0 .. n /\ h = [k \in 0 .. n |-> h[k]]
    BY <1>6
  <2>. QED
    BY <1>8, <2>1
<1>10. IsPasses(h, nodes, arcs, T)
  BY <1>6, <1>7, <1>9 DEF IsPasses, n, first
<1>. QED
  BY <1>10

(* Distances from the first date that no arc shortens.                               *)
Feasible(nodes, A) ==
  {psi \in [nodes -> Int] : psi[0] = 0 /\ \A a \in A : psi[a.to] <= psi[a.from] + a.cost}

Partial(nodes) == [nodes -> Int \cup {Unset}]

(* What is settled at a distance of up to b, with arcs made no shorter than nothing by   *)
(* a potential: no arc changes it any more, and the rest is no nearer.  And no       *)
(* distance is less than a potential says.                                     *)
Ball(nodes, A, pi, S, b, d) ==
  /\ d \in Partial(nodes)
  /\ \A psi \in Feasible(nodes, A) : \A v \in nodes : d[v] \in Int => psi[v] <= d[v]
  /\ \A v \in S : v \in nodes /\ d[v] \in Int /\ d[v] - pi[v] <= b
  /\ \A v \in nodes : v \notin S /\ d[v] \in Int => d[v] - pi[v] >= b
  /\ \A a \in A : a.from \in S /\ a.to \in S => d[a.to] <= d[a.from] + a.cost
  /\ \A a \in A : a.from \in S /\ a.to \notin S => d[a.from] + a.cost - pi[a.to] >= b

Shortens(nodes, d, e, a) ==
  /\ \A v \in nodes : d[v] \in Int => e[v] \in Int /\ e[v] <= d[v]
  /\ d[a.from] \in Int => e[a.to] \in Int /\ e[a.to] <= d[a.from] + a.cost

LEMMA ExtendKeeps ==
  ASSUME NEW nodes, NEW A, IsGraph(nodes, A), NEW pi, pi \in Feasible(nodes, A),
         NEW S, NEW b \in Int, NEW d, Ball(nodes, A, pi, S, b, d), NEW a, a \in A
  PROVE  /\ Ball(nodes, A, pi, S, b, Extend(d, a))
         /\ \A v \in S : Extend(d, a)[v] = d[v]
         /\ Shortens(nodes, d, Extend(d, a), a)
<1>1. PICK u, w, c : /\ u = a.from /\ w = a.to /\ c = a.cost
                     /\ u \in nodes /\ w \in nodes /\ u # w /\ c \in Int
  BY DEF IsGraph
<1>2. /\ d = [v \in nodes |-> d[v]]
      /\ \A v \in nodes : d[v] = Unset \/ d[v] \in Int
      /\ Unset \notin Int
  BY UnsetAssumption DEF Ball, Partial
<1>3. \A v \in nodes : pi[v] \in Int
  BY DEF Feasible
<1>4. \A psi \in Feasible(nodes, A) : /\ psi[u] \in Int /\ psi[w] \in Int /\ psi[w] <= psi[u] + c
  BY <1>1 DEF Feasible
<1>5. PICK e : e = Extend(d, a)
  OBVIOUS
<1>6. CASE d[u] = Unset
  <2>1. e = d
    BY <1>1, <1>5, <1>6 DEF Extend
  <2>. QED
    BY <1>1, <1>2, <1>5, <1>6, <2>1 DEF Shortens
<1>7. CASE d[u] # Unset
  <2>1. PICK x \in Int : x = d[u] + c /\ d[u] \in Int
    BY <1>1, <1>2, <1>7
  <2>2. CASE d[w] # Unset /\ ~ (x < d[w])
    <3>1. e = d
      BY <1>1, <1>5, <1>7, <2>1, <2>2 DEF Extend, Shorter
    <3>2. d[w] \in Int /\ d[w] <= x
      BY <1>1, <1>2, <2>1, <2>2
    <3>. QED
      BY <1>1, <1>2, <1>5, <2>1, <3>1, <3>2 DEF Shortens
  <2>3. CASE d[w] = Unset \/ x < d[w]
    <3>1. e = [v \in nodes |-> IF v = w THEN x ELSE d[v]]
      <4>1. e = [d EXCEPT ![w] = x]
        BY <1>1, <1>5, <1>7, <2>1, <2>3 DEF Extend, Shorter, Via
      <4>. QED
        BY <1>2, <4>1
    <3>2. e[w] = x /\ \A v \in nodes : v # w => e[v] = d[v]
      BY <1>1, <3>1
    <3>3. w \notin S
      <4>1. SUFFICES ASSUME w \in S PROVE FALSE
        OBVIOUS
      <4>2. PICK y \in Int, q \in Int, p \in Int : y = d[w] /\ y - q <= b /\ q = pi[w] /\ p = pi[u]
        BY <1>1, <1>3, <4>1 DEF Ball
      <4>3. x < y
        BY <1>2, <2>3, <4>2
      <4>4. CASE u \in S
        <5>1. y <= x
          BY <1>1, <2>1, <4>1, <4>2, <4>4 DEF Ball
        <5>. QED
          BY <4>3, <5>1
      <4>5. CASE u \notin S
        <5>1. PICK z \in Int : z = d[u] /\ z - p >= b /\ x = z + c
          BY <1>1, <2>1, <4>2, <4>5 DEF Ball
        <5>2. q <= p + c
          BY <1>4, <4>2
        <5>. QED
          BY <1>1, <4>2, <4>3, <5>1, <5>2
      <4>. QED
        BY <4>4, <4>5
    <3>4. x - pi[w] >= b
      <4>1. PICK q \in Int, p \in Int : q = pi[w] /\ p = pi[u]
        BY <1>1, <1>3
      <4>2. CASE u \in S
        <5>1. \A r \in A : r.from \in S /\ r.to \notin S => d[r.from] + r.cost - pi[r.to] >= b
          BY DEF Ball
        <5>2. PICK r \in A : r.from = u /\ r.to = w /\ r.cost = c
          BY <1>1
        <5>3. d[r.from] + r.cost - pi[r.to] >= b
          BY <3>3, <4>2, <5>1, <5>2
        <5>4. PICK z \in Int : z = d[u] /\ x = z + c
          BY <2>1
        <5>5. z + c - q >= b
          BY <4>1, <5>2, <5>3, <5>4
        <5>. QED
          BY <1>1, <4>1, <5>4, <5>5
      <4>3. CASE u \notin S
        <5>1. PICK z \in Int : z = d[u] /\ z - p >= b /\ x = z + c
          BY <1>1, <2>1, <4>1, <4>3 DEF Ball
        <5>2. q <= p + c
          BY <1>4, <4>1
        <5>. QED
          BY <1>1, <4>1, <5>1, <5>2
      <4>. QED
        BY <4>2, <4>3
    <3>5. \A v \in S : e[v] = d[v]
      BY <3>2, <3>3 DEF Ball
    <3>6. e \in Partial(nodes)
      BY <1>2, <3>1 DEF Partial
    <3>7. \A psi \in Feasible(nodes, A) : \A v \in nodes : e[v] \in Int => psi[v] <= e[v]
      <4>1. TAKE psi \in Feasible(nodes, A)
      <4>2. TAKE v \in nodes
      <4>3. CASE v # w
        BY <3>2, <4>3 DEF Ball
      <4>4. CASE v = w
        <5>1. PICK f \in Int, g \in Int, z \in Int : f = psi[u] /\ g = psi[w] /\ z = d[u] /\ x = z + c
          BY <1>4, <2>1
        <5>2. f <= z /\ g <= f + c
          BY <1>1, <1>4, <5>1 DEF Ball
        <5>. QED
          BY <1>1, <3>2, <4>4, <5>1, <5>2
      <4>. QED
        BY <4>3, <4>4
    <3>8. \A v \in S : v \in nodes /\ e[v] \in Int /\ e[v] - pi[v] <= b
      BY <3>5 DEF Ball
    <3>9. \A v \in nodes : v \notin S /\ e[v] \in Int => e[v] - pi[v] >= b
      BY <3>2, <3>4 DEF Ball
    <3>10. \A r \in A : r.from \in S /\ r.to \in S => e[r.to] <= e[r.from] + r.cost
      BY <3>5 DEF Ball
    <3>11. \A r \in A : r.from \in S /\ r.to \notin S => e[r.from] + r.cost - pi[r.to] >= b
      BY <3>5 DEF Ball
    <3>12. Ball(nodes, A, pi, S, b, e)
      BY <3>6, <3>7, <3>8, <3>9, <3>10, <3>11 DEF Ball
    <3>13. \A v \in nodes : d[v] \in Int => e[v] \in Int /\ e[v] <= d[v]
      BY <1>2, <2>1, <2>3, <3>2
    <3>14. e[w] \in Int /\ e[w] <= d[u] + c
      BY <2>1, <3>2
    <3>. QED
      BY <1>1, <1>5, <3>5, <3>12, <3>13, <3>14 DEF Shortens
  <2>. QED
    BY <2>2, <2>3
<1>. QED
  BY <1>6, <1>7

(* A pass keeps what is settled, and brings everything an arc away within reach.         *)
Reached(S, d, e, a) == a.from \in S => e[a.to] \in Int /\ e[a.to] <= d[a.from] + a.cost

PassDone(nodes, A, pi, S, b, d, e) ==
  /\ Ball(nodes, A, pi, S, b, e)
  /\ \A v \in S : e[v] = d[v]
  /\ \A a \in A : Reached(S, d, e, a)

LEMMA ExtendedKeeps ==
  ASSUME NEW nodes, NEW A, IsGraph(nodes, A), NEW arcs \in Seq(A),
         \A a \in A : \E i \in 1 .. Len(arcs) : arcs[i] = a,
         NEW pi, pi \in Feasible(nodes, A),
         NEW S, NEW b \in Int, NEW d, Ball(nodes, A, pi, S, b, d)
  PROVE  PassDone(nodes, A, pi, S, b, d, Extended(d, arcs))
<1>. DEFINE T == {e \in Partial(nodes) : Ball(nodes, A, pi, S, b, e) /\ \A v \in S : e[v] = d[v]}
<1>1. \A e : e \in T <=> Ball(nodes, A, pi, S, b, e) /\ \A v \in S : e[v] = d[v]
  BY DEF Ball
<1>. HIDE DEF T
<1>2. \A e \in T : \A a \in A : Extend(e, a) \in T
  <2>1. TAKE e \in T
  <2>2. TAKE a \in A
  <2>3. Ball(nodes, A, pi, S, b, e) /\ \A v \in S : e[v] = d[v]
    BY <1>1
  <2>4. Ball(nodes, A, pi, S, b, Extend(e, a)) /\ \A v \in S : Extend(e, a)[v] = e[v]
    BY <2>3, ExtendKeeps
  <2>. QED
    BY <1>1, <2>3, <2>4
<1>3. d \in T
  BY <1>1
<1>4. PICK h : IsExtension(h, d, arcs, T)
  BY <1>2, <1>3, ExtendedIs
<1>5. PICK n \in Nat : n = Len(arcs) /\ \A i \in 1 .. n : arcs[i] \in A
  BY LenProperties
<1>6. /\ \A k \in 0 .. n : h[k] \in T
      /\ h[0] = d /\ \A i \in 1 .. n : h[i] = Extend(h[i - 1], arcs[i])
      /\ Extended(d, arcs) = h[n]
  BY <1>4, <1>5 DEF IsExtension
<1>. DEFINE X == {k \in 0 .. n : \A i \in 1 .. k : Reached(S, d, h[k], arcs[i])}
<1>7. \A k \in 0 .. n : k \in X
  <2>1. 0 \in X
    BY <1>5
  <2>2. ASSUME NEW j \in 0 .. n - 1, j \in X PROVE j + 1 \in X
    <3>1. PICK k : k = j + 1 /\ k \in 1 .. n /\ k - 1 = j /\ k \in 0 .. n /\ j \in 0 .. n
      BY <1>5
    <3>2. PICK e, g, a : /\ e = h[j] /\ g = h[k] /\ a = arcs[k] /\ a \in A /\ g = Extend(e, a)
                         /\ e \in T /\ g \in T
      BY <1>5, <1>6, <3>1
    <3>3. Ball(nodes, A, pi, S, b, e) /\ \A v \in S : e[v] = d[v]
      BY <1>1, <3>2
    <3>4. /\ \A v \in nodes : e[v] \in Int => g[v] \in Int /\ g[v] <= e[v]
          /\ e[a.from] \in Int => g[a.to] \in Int /\ g[a.to] <= e[a.from] + a.cost
      <4>1. Shortens(nodes, e, Extend(e, a), a)
        BY <3>2, <3>3, ExtendKeeps
      <4>. QED
        BY <3>2, <4>1 DEF Shortens
    <3>5. \A i \in 1 .. k : Reached(S, d, g, arcs[i])
      <4>1. TAKE i \in 1 .. k
      <4>2. SUFFICES ASSUME arcs[i].from \in S
                     PROVE  g[arcs[i].to] \in Int /\ g[arcs[i].to] <= d[arcs[i].from] + arcs[i].cost
        BY DEF Reached
      <4>3. PICK r \in A : r = arcs[i]
        BY <1>5, <3>1
      <4>4. r.to \in nodes /\ r.cost \in Int /\ r.from \in S /\ d[r.from] \in Int /\ e[r.from] = d[r.from]
        BY <3>3, <4>2, <4>3 DEF IsGraph, Ball
      <4>5. CASE i = k
        BY <3>2, <3>4, <4>3, <4>4, <4>5
      <4>6. CASE i # k
        <5>1. i \in 1 .. j
          BY <3>1, <4>6
        <5>2. Reached(S, d, e, r)
          BY <2>2, <3>2, <4>3, <5>1
        <5>3. e[r.to] \in Int /\ e[r.to] <= d[r.from] + r.cost
          BY <4>4, <5>2 DEF Reached
        <5>4. g[r.to] \in Int /\ g[r.to] <= e[r.to]
          BY <3>4, <4>4, <5>3
        <5>5. g[r.to] <= d[r.from] + r.cost
          <6>1. d[r.from] \in Int /\ r.cost \in Int
            BY <4>4
          <6>2. PICK z \in Int : z = d[r.from] + r.cost
            BY <6>1
          <6>3. PICK x \in Int, y \in Int : x = g[r.to] /\ y = e[r.to]
            BY <5>3, <5>4
          <6>4. x <= y /\ y <= z
            BY <5>3, <5>4, <6>2, <6>3
          <6>5. x <= z
            BY <6>4
          <6>. QED
            BY <6>2, <6>3, <6>5
        <5>. QED
          BY <4>3, <5>4, <5>5
      <4>. QED
        BY <4>5, <4>6
    <3>. QED
      BY <3>1, <3>2, <3>5
  <2>. HIDE DEF X
  <2>. QED
    BY <1>5, <2>1, <2>2, UpTo
<1>8. \A a \in A : Reached(S, d, Extended(d, arcs), a)
  <2>1. TAKE a \in A
  <2>2. PICK i \in 1 .. n : arcs[i] = a
    BY <1>5
  <2>3. n \in X
    BY <1>5, <1>7
  <2>. QED
    BY <1>6, <2>2, <2>3
<1>9. Extended(d, arcs) \in T
  BY <1>5, <1>6
<1>. QED
  BY <1>1, <1>8, <1>9 DEF PassDone

(* The nearest node that is not settled is settled by the next pass.                  *)
BallWith(nodes, A, pi, S, e) ==
  \E v \in nodes \ S : \E c \in Int : Ball(nodes, A, pi, S \cup {v}, c, e)

LEMMA BallGrows ==
  ASSUME NEW nodes, IsFiniteSet(nodes), NEW A, IsGraph(nodes, A),
         NEW pi, pi \in Feasible(nodes, A),
         NEW S, NEW b \in Int, NEW d, Ball(nodes, A, pi, S, b, d),
         NEW e, PassDone(nodes, A, pi, S, b, d, e),
         NEW out, out \in A, out.from \in S, out.to \notin S
  PROVE  BallWith(nodes, A, pi, S, e)
<1>0. /\ Ball(nodes, A, pi, S, b, e)
      /\ \A v \in S : e[v] = d[v]
      /\ \A a \in A : Reached(S, d, e, a)
  BY DEF PassDone
<1>. DEFINE far == [v \in nodes |-> e[v] - pi[v]]
            outside == {v \in nodes \ S : e[v] \in Int}
<1>1. \A v \in nodes : pi[v] \in Int
  BY DEF Feasible
<1>2. outside # {}
  <2>1. PICK v \in nodes : v = out.to /\ v \notin S /\ e[v] \in Int
    BY <1>0 DEF Reached, IsGraph
  <2>. QED
    BY <2>1
<1>3. \A v \in outside : v \in nodes /\ v \notin S /\ e[v] \in Int /\ far[v] \in Int /\ far[v] = e[v] - pi[v]
                         /\ far[v] >= b
  BY <1>0, <1>1 DEF Ball
<1>4. PICK v : /\ v \in outside /\ \A u \in outside : far[v] <= far[u]
  <2>1. PICK N : N = {far[u] - b : u \in outside}
    OBVIOUS
  <2>. HIDE DEF far, outside
  <2>2. N \in SUBSET Nat /\ N # {}
    BY <1>2, <1>3, <2>1
  <2>3. PICK m \in N : \A k \in N : m <= k
    BY <2>2, LeastNatural
  <2>4. PICK v : v \in outside /\ m = far[v] - b
    BY <2>1, <2>3
  <2>5. \A u \in outside : far[v] <= far[u]
    <3>1. TAKE u \in outside
    <3>2. far[u] - b \in N
      BY <2>1
    <3>3. far[v] - b <= far[u] - b
      BY <2>3, <2>4, <3>2
    <3>. QED
      BY <1>3, <2>4, <3>3
  <2>. QED
    BY <2>4, <2>5
<1>5. PICK c \in Int : c = far[v] /\ c = e[v] - pi[v] /\ c >= b
  BY <1>3, <1>4
<1>6. \A u \in nodes : u \notin S /\ e[u] \in Int => e[u] - pi[u] >= c
  <2>1. TAKE u \in nodes
  <2>2. HAVE u \notin S /\ e[u] \in Int
  <2>3. u \in outside /\ far[u] \in Int
    BY <1>1, <2>2
  <2>4. far[v] <= far[u]
    BY <1>4, <2>3
  <2>. QED
    BY <1>5, <2>3, <2>4
<1>7. v \in nodes /\ v \notin S /\ e[v] \in Int /\ e[v] = c + pi[v] /\ pi[v] \in Int
  BY <1>1, <1>4, <1>5
<1>. HIDE DEF far, outside
<1>8. \A u \in S \cup {v} : u \in nodes /\ e[u] \in Int /\ e[u] - pi[u] <= c
  <2>1. TAKE u \in S \cup {v}
  <2>2. CASE u = v
    <3>1. e[v] - pi[v] <= c
      BY <1>5
    <3>. QED
      BY <1>7, <2>2, <3>1
  <2>3. CASE u \in S
    <3>1. u \in nodes /\ e[u] \in Int /\ e[u] - pi[u] <= b
      BY <1>0, <2>3 DEF Ball
    <3>2. PICK x \in Int : x = e[u] - pi[u]
      BY <1>1, <3>1
    <3>. QED
      BY <1>5, <3>1, <3>2
  <2>. QED
    BY <2>2, <2>3
<1>9. ASSUME NEW a \in A PROVE pi[a.to] <= pi[a.from] + a.cost /\ a.from \in nodes /\ a.to \in nodes
                               /\ a.cost \in Int /\ pi[a.to] \in Int /\ pi[a.from] \in Int /\ a.from # a.to
  BY <1>1 DEF Feasible, IsGraph
<1>10. ASSUME NEW a \in A, a.from \in S \cup {v}, a.to \in S \cup {v}
       PROVE  e[a.to] <= e[a.from] + a.cost
  <2>1. CASE a.from \in S /\ a.to \in S
    BY <1>0, <2>1 DEF Ball
  <2>2. CASE a.from \in S /\ a.to \notin S
    <3>1. a.to = v
      BY <1>10, <2>2
    <3>. QED
      BY <1>0, <2>2 DEF Reached
  <2>3. CASE a.from \notin S
    <3>1. a.from = v /\ a.to \in S
      BY <1>9, <1>10, <2>3
    <3>2. PICK x \in Int, y \in Int, p \in Int, q \in Int, k \in Int :
            x = e[a.to] /\ y = e[v] /\ p = pi[a.to] /\ q = pi[v] /\ k = a.cost
      BY <1>7, <1>8, <1>9, <3>1
    <3>3. x - p <= c /\ y - q = c /\ p <= q + k
      BY <1>7, <1>8, <1>9, <3>1, <3>2
    <3>4. x <= y + k
      BY <3>3
    <3>. QED
      BY <3>1, <3>2, <3>4
  <2>. QED
    BY <2>1, <2>2, <2>3
<1>11. ASSUME NEW a \in A, a.from \in S \cup {v}, a.to \notin S \cup {v}
       PROVE  e[a.from] + a.cost - pi[a.to] >= c
  <2>1. CASE a.from \in S
    <3>1. e[a.to] \in Int /\ e[a.to] <= e[a.from] + a.cost
      BY <1>0, <2>1 DEF Reached
    <3>2. e[a.to] - pi[a.to] >= c
      BY <1>6, <1>9, <1>11, <3>1
    <3>3. PICK x \in Int, y \in Int, p \in Int, k \in Int :
            x = e[a.to] /\ y = e[a.from] /\ p = pi[a.to] /\ k = a.cost
      BY <1>8, <1>9, <1>11, <3>1
    <3>4. y + k - p >= c
      BY <3>1, <3>2, <3>3
    <3>. QED
      BY <3>3, <3>4
  <2>2. CASE a.from \notin S
    <3>1. a.from = v
      BY <1>11, <2>2
    <3>2. PICK y \in Int, p \in Int, q \in Int, k \in Int :
            y = e[v] /\ p = pi[a.to] /\ q = pi[v] /\ k = a.cost
      BY <1>7, <1>9, <3>1
    <3>3. y - q = c /\ p <= q + k
      BY <1>7, <1>9, <3>1, <3>2
    <3>4. y + k - p >= c
      BY <3>3
    <3>. QED
      BY <3>1, <3>2, <3>4
  <2>. QED
    BY <2>1, <2>2
<1>12. Ball(nodes, A, pi, S \cup {v}, c, e)
  <2>1. /\ e \in Partial(nodes)
        /\ \A psi \in Feasible(nodes, A) : \A u \in nodes : e[u] \in Int => psi[u] <= e[u]
    BY <1>0 DEF Ball
  <2>2. PICK W : W = S \cup {v}
    OBVIOUS
  <2>3. \A u \in nodes : u \notin W /\ e[u] \in Int => e[u] - pi[u] >= c
    BY <1>6, <2>2
  <2>4. /\ \A u \in W : u \in nodes /\ e[u] \in Int /\ e[u] - pi[u] <= c
        /\ \A a \in A : a.from \in W /\ a.to \in W => e[a.to] <= e[a.from] + a.cost
        /\ \A a \in A : a.from \in W /\ a.to \notin W => e[a.from] + a.cost - pi[a.to] >= c
    BY <1>8, <1>10, <1>11, <2>2
  <2>5. Ball(nodes, A, pi, W, c, e)
    BY <1>0, <2>1, <2>3, <2>4 DEF Ball
  <2>. QED
    BY <2>2, <2>5
<1>. QED
  BY <1>7, <1>12 DEF BallWith

(* Every set of dates that has the first is left by an arc, unless it has all.           *)
Leads(nodes, A) ==
  \A S \in SUBSET nodes : 0 \in S /\ S # nodes => \E a \in A : a.from \in S /\ a.to \notin S

Greatest(nodes, A, d) ==
  /\ d \in Feasible(nodes, A)
  /\ \A psi \in Feasible(nodes, A) : \A v \in nodes : psi[v] <= d[v]

Settled_After(nodes, A, pi, k, d) ==
  \E S, b : /\ S \subseteq nodes /\ b \in Int /\ 0 \in S /\ Cardinality(S) = k + 1 /\ d[0] = 0
            /\ Ball(nodes, A, pi, S, b, d)

(* As many passes as there are nodes settle them all, if there is a potential.          *)
LEMMA DistancesAre ==
  ASSUME NEW nodes, IsFiniteSet(nodes), 0 \in nodes, NEW A, IsGraph(nodes, A),
         NEW arcs \in Seq(A), \A a \in A : \E i \in 1 .. Len(arcs) : arcs[i] = a,
         Leads(nodes, A), NEW pi, pi \in Feasible(nodes, A)
  PROVE  Greatest(nodes, A, Distances(nodes, arcs))
<1>1. PICK size \in Nat \ {0} : size = Cardinality(nodes)
  <2>1. Cardinality(nodes) \in Nat
    BY FS_CardinalityType
  <2>2. Cardinality(nodes) # 0
    BY FS_EmptySet
  <2>. QED
    BY <2>1, <2>2
<1>2. PICK T : T = Partial(nodes)
  OBVIOUS
<1>3. \A d \in T : Extended(d, arcs) \in T
  <2>1. TAKE d \in T
  <2>2. \A e \in T : \A a \in A : Extend(e, a) \in T
    <3>1. TAKE e \in T
    <3>2. TAKE a \in A
    <3>3. PICK u, w, c : /\ u = a.from /\ w = a.to /\ c = a.cost /\ u \in nodes /\ w \in nodes /\ c \in Int
      BY DEF IsGraph
    <3>4. CASE e[u] = Unset
      BY <3>3, <3>4 DEF Extend
    <3>5. CASE e[u] # Unset
      <4>1. PICK x \in Int : x = e[u] + c
        BY <1>2, <3>3, <3>5 DEF Partial
      <4>2. [e EXCEPT ![w] = x] \in T
        BY <1>2 DEF Partial
      <4>3. Extend(e, a) = e \/ Extend(e, a) = [e EXCEPT ![w] = x]
        BY <3>3, <4>1 DEF Extend, Via
      <4>. QED
        BY <4>2, <4>3
    <3>. QED
      BY <3>4, <3>5
  <2>3. PICK h : IsExtension(h, d, arcs, T)
    BY <2>2, ExtendedIs
  <2>4. Len(arcs) \in Nat
    BY LenProperties
  <2>. QED
    BY <2>3, <2>4 DEF IsExtension
<1>4. Started(nodes) \in T
  BY <1>2 DEF Started, Partial
<1>5. PICK h : IsPasses(h, nodes, arcs, T)
  BY <1>1, <1>3, <1>4, DistancesIs
<1>6. /\ h[0] = Started(nodes)
      /\ \A k \in 1 .. size - 1 : h[k] = Extended(h[k - 1], arcs)
      /\ Distances(nodes, arcs) = h[size - 1]
  BY <1>1, <1>5 DEF IsPasses
<1>7. \A v \in nodes : pi[v] \in Int
  BY DEF Feasible
<1>8. Settled_After(nodes, A, pi, 0, h[0])
  <2>0. PICK d, S : d = h[0] /\ S = {0}
    OBVIOUS
  <2>1. PICK b \in Int : d = h[0] /\ S = {0} /\ b = 0 - pi[0]
    BY <1>7, <2>0
  <2>2. d \in Partial(nodes) /\ d[0] = 0 /\ \A v \in nodes : d[v] \in Int => v = 0
    BY <1>2, <1>4, <1>6, <2>1, UnsetAssumption DEF Started
  <2>3. \A psi \in Feasible(nodes, A) : \A v \in nodes : d[v] \in Int => psi[v] <= d[v]
    BY <2>2 DEF Feasible
  <2>4. \A v \in S : v \in nodes /\ d[v] \in Int /\ d[v] - pi[v] <= b
    BY <2>1, <2>2
  <2>5. \A v \in nodes : v \notin S /\ d[v] \in Int => d[v] - pi[v] >= b
    BY <2>1, <2>2
  <2>6. \A a \in A : a.from \in S /\ a.to \in S => d[a.to] <= d[a.from] + a.cost
    BY <2>1 DEF IsGraph
  <2>7. \A a \in A : a.from \in S /\ a.to \notin S => d[a.from] + a.cost - pi[a.to] >= b
    <3>1. TAKE a \in A
    <3>2. HAVE a.from \in S /\ a.to \notin S
    <3>3. PICK k \in Int, p \in Int, q \in Int : /\ k = a.cost /\ p = pi[0] /\ q = pi[a.to] /\ q <= p + k
                                                 /\ a.from = 0 /\ b = 0 - p
      BY <1>7, <2>1, <3>2 DEF Feasible, IsGraph
    <3>4. 0 + k - q >= b
      <4>1. q <= p + k /\ b = 0 - p
        BY <3>3
      <4>. QED
        BY <4>1
    <3>. QED
      BY <2>2, <3>3, <3>4
  <2>8. Ball(nodes, A, pi, S, b, d)
    BY <2>2, <2>3, <2>4, <2>5, <2>6, <2>7 DEF Ball
  <2>9. Cardinality(S) = 0 + 1 /\ S \subseteq nodes /\ 0 \in S
    <3>1. Cardinality({0}) = 1
      BY FS_Singleton
    <3>2. Cardinality(S) = 1
      BY <2>1, <3>1
    <3>. QED
      BY <2>1, <3>2
  <2>. QED
    BY <2>1, <2>2, <2>8, <2>9 DEF Settled_After
<1>9. ASSUME NEW j \in 0 .. size - 2, Settled_After(nodes, A, pi, j, h[j])
      PROVE  Settled_After(nodes, A, pi, j + 1, h[j + 1])
  <2>1. PICK d, e, S, b : /\ d = h[j] /\ e = h[j + 1]
                          /\ S \subseteq nodes /\ b \in Int /\ 0 \in S /\ Cardinality(S) = j + 1 /\ d[0] = 0
                          /\ Ball(nodes, A, pi, S, b, d)
    BY <1>9 DEF Settled_After
  <2>2. e = Extended(d, arcs)
    <3>1. j + 1 \in 1 .. size - 1 /\ (j + 1) - 1 = j
      BY <1>1
    <3>. QED
      BY <1>6, <2>1, <3>1
  <2>3. /\ Ball(nodes, A, pi, S, b, e)
        /\ \A v \in S : e[v] = d[v]
        /\ \A a \in A : Reached(S, d, e, a)
    <3>1. PassDone(nodes, A, pi, S, b, d, Extended(d, arcs))
      BY <2>1, ExtendedKeeps
    <3>. QED
      BY <2>2, <3>1 DEF PassDone
  <2>4. S # nodes
    BY <1>1, <2>1
  <2>5. PICK out \in A : out.from \in S /\ out.to \notin S
    BY <2>1, <2>4 DEF Leads
  <2>6. \E v \in nodes \ S : \E c \in Int : Ball(nodes, A, pi, S \cup {v}, c, e)
    <3>1. PassDone(nodes, A, pi, S, b, d, e)
      BY <2>3 DEF PassDone
    <3>2. BallWith(nodes, A, pi, S, e)
      BY <2>1, <2>5, <3>1, BallGrows
    <3>. QED
      BY <3>2 DEF BallWith
  <2>7. PICK v, c, W : /\ v \in nodes /\ v \notin S /\ c \in Int /\ W = S \cup {v}
                       /\ Ball(nodes, A, pi, W, c, e)
    BY <2>6
  <2>8. W \subseteq nodes /\ 0 \in W /\ e[0] = 0
    BY <2>1, <2>3, <2>7
  <2>9. Cardinality(W) = (j + 1) + 1
    <3>1. IsFiniteSet(S)
      BY <2>1, FS_Subset
    <3>2. Cardinality(S \cup {v}) = Cardinality(S) + 1
      BY <2>7, <3>1, FS_AddElement
    <3>. QED
      BY <2>1, <2>7, <3>2
  <2>. QED
    BY <2>1, <2>7, <2>8, <2>9 DEF Settled_After
<1>10. Settled_After(nodes, A, pi, size - 1, h[size - 1])
  <2>1. PICK m \in Nat : m = size - 1
    BY <1>1
  <2>. DEFINE X == {k \in 0 .. m : Settled_After(nodes, A, pi, k, h[k])}
  <2>2. 0 \in X
    BY <1>8, <2>1
  <2>3. \A k \in 0 .. m - 1 : k \in X => k + 1 \in X
    BY <1>9, <2>1
  <2>4. \A k \in 0 .. m : k \in X
    <3>. HIDE DEF X
    <3>. QED
      BY <2>2, <2>3, UpTo
  <2>5. m \in X
    BY <2>1, <2>4
  <2>. QED
    BY <2>1, <2>5
<1>11. PICK d, S, b : /\ d = Distances(nodes, arcs)
                      /\ S \subseteq nodes /\ b \in Int /\ Cardinality(S) = size /\ d[0] = 0
                      /\ Ball(nodes, A, pi, S, b, d)
  <2>1. PICK S, b : /\ S \subseteq nodes /\ b \in Int /\ Cardinality(S) = (size - 1) + 1
                    /\ h[size - 1][0] = 0 /\ Ball(nodes, A, pi, S, b, h[size - 1])
    BY <1>10 DEF Settled_After
  <2>2. (size - 1) + 1 = size
    BY <1>1
  <2>. QED
    BY <1>6, <2>1, <2>2
<1>12. S = nodes
  BY <1>1, <1>11, FS_Subset
<1>13. \A v \in nodes : d[v] \in Int
  BY <1>11, <1>12 DEF Ball
<1>14. d \in [nodes -> Int]
  BY <1>11, <1>13 DEF Ball, Partial
<1>15. \A a \in A : d[a.to] <= d[a.from] + a.cost
  BY <1>11, <1>12 DEF Ball, IsGraph
<1>16. d \in Feasible(nodes, A)
  BY <1>11, <1>14, <1>15 DEF Feasible
<1>17. \A psi \in Feasible(nodes, A) : \A v \in nodes : psi[v] <= d[v]
  BY <1>11, <1>13 DEF Ball
<1>. QED
  BY <1>11, <1>16, <1>17 DEF Greatest

(* Where no cycle is left there is a potential: the search has nothing more to relax.     *)
LEMMA NoCycleNoGain ==
  ASSUME NEW nodes, IsFiniteSet(nodes), 0 \in nodes, Unset \notin nodes,
         NEW A, IsGraph(nodes, A),
         NEW arcs \in Seq(A), \A a \in A : \E i \in 1 .. Len(arcs) : arcs[i] = a,
         NegativeCycle(nodes, arcs) = {}
  PROVE  \E pi : pi \in Feasible(nodes, A)
<1>. DEFINE n == Cardinality(nodes)
            end == Search(nodes, arcs)
<1>1. n \in Nat \ {0}
  <2>1. Cardinality(nodes) \in Nat
    BY FS_CardinalityType
  <2>2. Cardinality(nodes) # 0
    BY FS_EmptySet
  <2>. QED
    BY <2>1, <2>2
<1>2. PICK s : /\ s[n] = end
               /\ \A k \in 0 .. n : Sound(nodes, A, s[k])
               /\ \A k \in 1 .. n : s[k] = Pass(s[k - 1], arcs)
  BY SearchIs
<1>. HIDE DEF n, end
<1>3. end.last = Unset
  <2>1. PICK last, via : last = end.last /\ via = end.via
    OBVIOUS
  <2>2. SUFFICES ASSUME last # Unset PROVE FALSE
    BY <2>1
  <2>3. n \in n .. 2 * n - 1
    BY <1>1
  <2>. DEFINE Body(h) == [k \in 0 .. 2 * n |-> IF k = 0 THEN last ELSE via[h[k - 1]].from]
              chosen == CHOOSE h : h = Body(h)
  <2>4. NegativeCycle(nodes, arcs) = {via[chosen[k]] : k \in n .. 2 * n - 1}
    BY <2>1, <2>2 DEF NegativeCycle, n, end
  <2>. HIDE DEF chosen
  <2>5. via[chosen[n]] \in {via[chosen[k]] : k \in n .. 2 * n - 1}
    BY <2>3
  <2>6. via[chosen[n]] \in NegativeCycle(nodes, arcs)
    BY <2>4, <2>5
  <2>. QED
    BY <2>6
<1>4. PICK p, e : /\ p = s[n - 1] /\ e = end.distance
                  /\ Sound(nodes, A, p) /\ end = Pass(p, arcs) /\ Sound(nodes, A, end)
  BY <1>1, <1>2
<1>5. /\ \A i \in 1 .. Len(arcs) : e[arcs[i].to] <= p.distance[arcs[i].from] + arcs[i].cost
      /\ \/ end.last = Unset /\ e = p.distance
         \/ end.last \in nodes
  BY <1>4, PassKeeps
<1>6. e = p.distance /\ e \in [nodes -> Int]
  BY <1>3, <1>4, <1>5, StateType DEF Sound
<1>7. \A a \in A : e[a.to] <= e[a.from] + a.cost
  <2>1. TAKE a \in A
  <2>2. PICK i \in 1 .. Len(arcs) : arcs[i] = a
    OBVIOUS
  <2>. QED
    BY <1>5, <1>6, <2>2
<1>8. PICK pi : pi = [v \in nodes |-> e[v] - e[0]]
  OBVIOUS
<1>9. pi \in [nodes -> Int] /\ pi[0] = 0
  BY <1>6, <1>8
<1>10. \A a \in A : pi[a.to] <= pi[a.from] + a.cost
  <2>1. TAKE a \in A
  <2>2. PICK x \in Int, y \in Int, z \in Int, c \in Int :
          x = e[a.to] /\ y = e[a.from] /\ z = e[0] /\ c = a.cost /\ x <= y + c
    BY <1>6, <1>7 DEF IsGraph
  <2>3. x - z <= (y - z) + c
    <3>1. x <= y + c
      BY <2>2
    <3>. QED
      BY <3>1
  <2>4. pi[a.to] = x - z /\ pi[a.from] = y - z
    BY <1>8, <2>2 DEF IsGraph
  <2>. QED
    BY <2>2, <2>3, <2>4
<1>. QED
  BY <1>9, <1>10 DEF Feasible

(* Turned arcs lead the other way, for the potentials' negatives.                     *)
TurnedArc(a) == [a EXCEPT !.from = a.to, !.to = a.from]
TurnedAll(A) == {TurnedArc(a) : a \in A}
Negative(nodes, d) == [v \in nodes |-> -d[v]]

IsArc(a) ==
  a = [from |-> a.from, to |-> a.to, cost |-> a.cost, pair |-> a.pair, push |-> a.push]

LEMMA TurnedArcIs ==
  ASSUME NEW a, IsArc(a)
  PROVE  TurnedArc(a).from = a.to /\ TurnedArc(a).to = a.from /\ TurnedArc(a).cost = a.cost
<1>1. PICK u, w, c, p, r : a = [from |-> u, to |-> w, cost |-> c, pair |-> p, push |-> r]
  BY DEF IsArc
<1>2. TurnedArc(a) = [from |-> w, to |-> u, cost |-> c, pair |-> p, push |-> r]
  <2>1. PICK b : b = [a EXCEPT !.from = a.to] /\ TurnedArc(a) = [b EXCEPT !.to = a.from]
    BY DEF TurnedArc
  <2>2. b = [from |-> w, to |-> w, cost |-> c, pair |-> p, push |-> r]
    <3>1. [a EXCEPT !.from = w] = [from |-> w, to |-> w, cost |-> c, pair |-> p, push |-> r]
      BY <1>1
    <3>. QED
      BY <1>1, <2>1, <3>1
  <2>3. [b EXCEPT !.to = u] = [from |-> w, to |-> u, cost |-> c, pair |-> p, push |-> r]
    BY <2>2
  <2>. QED
    BY <1>1, <2>1, <2>3
<1>. QED
  BY <1>1, <1>2

AreArcs(A) == \A a \in A : IsArc(a)

(* A sequence of arcs has them all.                                              *)
Lists(A, arcs) == arcs \in Seq(A) /\ \A a \in A : \E i \in 1 .. Len(arcs) : arcs[i] = a

Mirrored(nodes, A, arcs) ==
  /\ IsGraph(nodes, TurnedAll(A))
  /\ Lists(TurnedAll(A), Turned(arcs))
  /\ \A d \in Feasible(nodes, A) : Negative(nodes, d) \in Feasible(nodes, TurnedAll(A))
  /\ \A d \in Feasible(nodes, TurnedAll(A)) : Negative(nodes, d) \in Feasible(nodes, A)

LEMMA TurnedIs ==
  ASSUME NEW nodes, 0 \in nodes, NEW A, IsGraph(nodes, A), AreArcs(A), NEW arcs, Lists(A, arcs)
  PROVE  Mirrored(nodes, A, arcs)
<1>. USE DEF Lists, AreArcs
<1>1. \A a \in A : /\ TurnedArc(a).from = a.to /\ TurnedArc(a).to = a.from /\ TurnedArc(a).cost = a.cost
                   /\ a.from \in nodes /\ a.to \in nodes /\ a.from # a.to /\ a.cost \in Int
  BY TurnedArcIs DEF IsGraph
<1>2. \A b \in TurnedAll(A) : \E a \in A : b = TurnedArc(a)
  BY DEF TurnedAll
<1>3. \A a \in A : TurnedArc(a) \in TurnedAll(A)
  BY DEF TurnedAll
<1>4. IsGraph(nodes, TurnedAll(A))
  <2>1. \A b \in TurnedAll(A) : b.from \in nodes /\ b.to \in nodes /\ b.from # b.to /\ b.cost \in Int
    BY <1>1, <1>2
  <2>. QED
    BY <2>1 DEF IsGraph
<1>5. PICK n \in Nat : /\ n = Len(arcs) /\ DOMAIN arcs = 1 .. n /\ \A i \in 1 .. n : arcs[i] \in A
  BY LenProperties
<1>6. PICK seq : seq = [i \in 1 .. n |-> TurnedArc(arcs[i])] /\ seq = Turned(arcs)
  <2>1. Turned(arcs) = [i \in 1 .. n |-> TurnedArc(arcs[i])]
    BY <1>5 DEF Turned, TurnedArc
  <2>. QED
    BY <2>1
<1>7. seq \in [1 .. n -> TurnedAll(A)]
  BY <1>3, <1>5, <1>6
<1>8. seq \in Seq(TurnedAll(A)) /\ Len(seq) = n
  <2>1. PICK B : B = TurnedAll(A)
    OBVIOUS
  <2>2. seq \in Seq(B)
    <3>1. seq \in [1 .. n -> B]
      BY <1>7, <2>1
    <3>. QED
      BY <3>1, SeqDef
  <2>3. DOMAIN seq = 1 .. n /\ DOMAIN seq = 1 .. Len(seq) /\ Len(seq) \in Nat
    BY <1>7, <2>2, LenProperties
  <2>4. Len(seq) = n
    BY <1>5, <2>3
  <2>. QED
    BY <2>1, <2>2, <2>4
<1>9. \A b \in TurnedAll(A) : \E i \in 1 .. n : seq[i] = b
  <2>1. TAKE b \in TurnedAll(A)
  <2>2. PICK a \in A : b = TurnedArc(a)
    BY <1>2
  <2>3. PICK i \in 1 .. n : arcs[i] = a
    BY <1>5
  <2>. QED
    BY <1>6, <2>2, <2>3
<1>10. \A d \in Feasible(nodes, A) : Negative(nodes, d) \in Feasible(nodes, TurnedAll(A))
  <2>1. TAKE d \in Feasible(nodes, A)
  <2>2. d \in [nodes -> Int] /\ d[0] = 0
    BY DEF Feasible
  <2>3. Negative(nodes, d) \in [nodes -> Int] /\ Negative(nodes, d)[0] = 0
    BY <2>2 DEF Negative
  <2>4. \A b \in TurnedAll(A) : Negative(nodes, d)[b.to] <= Negative(nodes, d)[b.from] + b.cost
    <3>1. TAKE b \in TurnedAll(A)
    <3>2. PICK a \in A : b = TurnedArc(a)
      BY <1>2
    <3>3. PICK u \in nodes, w \in nodes, c \in Int :
            /\ u = a.from /\ w = a.to /\ c = a.cost /\ b.from = w /\ b.to = u /\ b.cost = c
      BY <1>1, <3>2
    <3>4. PICK x \in Int, y \in Int : x = d[u] /\ y = d[w] /\ y <= x + c
      BY <2>2, <3>3 DEF Feasible
    <3>5. Negative(nodes, d)[u] = -x /\ Negative(nodes, d)[w] = -y
      BY <3>4 DEF Negative
    <3>6. -x <= -y + c
      <4>1. y <= x + c
        BY <3>4
      <4>. QED
        BY <4>1
    <3>. QED
      BY <3>3, <3>5, <3>6
  <2>. QED
    BY <2>3, <2>4 DEF Feasible
<1>11. \A d \in Feasible(nodes, TurnedAll(A)) : Negative(nodes, d) \in Feasible(nodes, A)
  <2>1. TAKE d \in Feasible(nodes, TurnedAll(A))
  <2>2. d \in [nodes -> Int] /\ d[0] = 0
    BY DEF Feasible
  <2>3. Negative(nodes, d) \in [nodes -> Int] /\ Negative(nodes, d)[0] = 0
    BY <2>2 DEF Negative
  <2>4. \A a \in A : Negative(nodes, d)[a.to] <= Negative(nodes, d)[a.from] + a.cost
    <3>1. TAKE a \in A
    <3>2. PICK b \in TurnedAll(A) : b = TurnedArc(a)
      BY <1>3
    <3>3. PICK u \in nodes, w \in nodes, c \in Int :
            /\ u = a.from /\ w = a.to /\ c = a.cost /\ b.from = w /\ b.to = u /\ b.cost = c
      BY <1>1, <3>2
    <3>4. PICK x \in Int, y \in Int : x = d[u] /\ y = d[w] /\ x <= y + c
      BY <2>2, <3>3 DEF Feasible
    <3>5. Negative(nodes, d)[u] = -x /\ Negative(nodes, d)[w] = -y
      BY <3>4 DEF Negative
    <3>6. -y <= -x + c
      <4>1. x <= y + c
        BY <3>4
      <4>. QED
        BY <4>1
    <3>. QED
      BY <3>3, <3>5, <3>6
  <2>. QED
    BY <2>3, <2>4 DEF Feasible
<1>. QED
  BY <1>4, <1>5, <1>6, <1>8, <1>9, <1>10, <1>11 DEF Mirrored

LEMMA RoomIsArcs ==
  \A a \in Room : IsArc(a)
<1>1. \A p \in pairs : \A push \in {1, -1} : IsArc(Arc(p, push))
  BY DEF IsArc, Arc
<1>. QED
  BY <1>1 DEF Room

(* A circulation that uses up the room out of a set of dates uses it up for nothing:    *)
(* there is room out of every set that a pair crosses.                            *)
LEMMA RoomCrosses ==
  ASSUME IsNetwork(pairs), pairs # {}, costs \in [pairs -> Int], flow \in [pairs -> -1 .. 1],
         Balanced(flow), NEW W, NEW c, c \in pairs, c[1] \in W <=> c[2] \notin W
  PROVE  \E a \in Room : a.from \in W /\ a.to \notin W
<1>1. SUFFICES ASSUME \A a \in Room : a.from \in W => a.to \in W PROVE FALSE
  OBVIOUS
<1>2. PICK m \in Nat \ {0} :
        /\ Nodes(pairs) = 0 .. m
        /\ \A p \in pairs : p[1] \in 0 .. m /\ p[2] \in 1 .. m
  BY NodesAre
<1>3. PICK x : x = [v \in Nodes(pairs) |-> IF v \in W THEN 1 ELSE 0]
  OBVIOUS
<1>4. \A p \in pairs : /\ x[p[1]] = IF p[1] \in W THEN 1 ELSE 0
                       /\ x[p[2]] = IF p[2] \in W THEN 1 ELSE 0
  BY <1>2, <1>3
<1>5. x \in [Nodes(pairs) -> Int]
  BY <1>3
<1>6. PICK g : g = [p \in pairs |-> flow[p] * (x[p[2]] - x[p[1]])]
  OBVIOUS
<1>7. IteratedSum(g, pairs) = 0
  BY <1>5, <1>6 DEF Balanced
<1>8. \A p \in pairs : /\ (p[1] \in W <=> p[2] \in W) => g[p] = 0
                       /\ (p[1] \in W <=> p[2] \notin W) => g[p] = -1
  <2>1. TAKE p \in pairs
  <2>2. flow[p] \in -1 .. 1 /\ g[p] = flow[p] * (x[p[2]] - x[p[1]])
    BY <1>6
  <2>3. CASE p[1] \in W <=> p[2] \in W
    <3>1. x[p[2]] - x[p[1]] = 0
      BY <1>4, <2>3
    <3>. QED
      BY <2>2, <2>3, <3>1
  <2>4. CASE p[1] \in W /\ p[2] \notin W
    <3>1. x[p[2]] - x[p[1]] = -1
      BY <1>4, <2>4
    <3>2. Arc(p, 1).from = p[1] /\ Arc(p, 1).to = p[2] /\ Arc(p, 1).pair = p /\ Arc(p, 1).push = 1
      BY DEF Arc
    <3>3. ~HasRoom(Arc(p, 1))
      BY <1>1, <2>4, <3>2 DEF Room
    <3>4. flow[p] = 1
      BY <2>2, <3>2, <3>3 DEF HasRoom
    <3>. QED
      BY <2>2, <2>4, <3>1, <3>4
  <2>5. CASE p[1] \notin W /\ p[2] \in W
    <3>1. x[p[2]] - x[p[1]] = 1
      BY <1>4, <2>5
    <3>2. Arc(p, -1).from = p[2] /\ Arc(p, -1).to = p[1] /\ Arc(p, -1).pair = p /\ Arc(p, -1).push = -1
      BY DEF Arc
    <3>3. ~HasRoom(Arc(p, -1))
      BY <1>1, <2>5, <3>2 DEF Room
    <3>4. flow[p] = -1
      BY <2>2, <3>2, <3>3 DEF HasRoom
    <3>. QED
      BY <2>2, <2>5, <3>1, <3>4
  <2>. QED
    BY <2>3, <2>4, <2>5
<1>9. PICK h : h = [p \in pairs |-> 0]
  OBVIOUS
<1>10. \A p \in pairs : g[p] \in Int /\ h[p] \in Int /\ g[p] <= h[p] /\ h[p] = 0
  BY <1>8, <1>9
<1>11. IsFiniteSet(pairs) /\ IteratedSum(h, pairs) = 0
  BY <1>10, SumOfZeros DEF IsNetwork
<1>12. g[c] = h[c]
  BY <1>7, <1>10, <1>11, SumGrows
<1>. QED
  BY <1>8, <1>10, <1>12

(* So every date is led to from the first, and leads to it.                          *)
LEMMA RoomLeads ==
  ASSUME IsNetwork(pairs), pairs # {}, HasFan(pairs), costs \in [pairs -> Int],
         flow \in [pairs -> -1 .. 1], Balanced(flow)
  PROVE  Leads(Nodes(pairs), Room) /\ Leads(Nodes(pairs), TurnedAll(Room))
<1>1. PICK m \in Nat \ {0} : Nodes(pairs) = 0 .. m
  BY NodesAre
<1>2. ASSUME NEW S, S \subseteq Nodes(pairs), 0 \in S, S # Nodes(pairs)
      PROVE  \E c \in pairs : c[1] \in S /\ c[2] \in Nodes(pairs) \ S
  <2>1. PICK v \in Nodes(pairs) \ S : \A u \in Nodes(pairs) \ S : v <= u
    <3>1. PICK T : T = Nodes(pairs) \ S
      OBVIOUS
    <3>2. T \in SUBSET Nat
      BY <1>1, <3>1
    <3>3. T # {}
      BY <1>2, <3>1
    <3>. QED
      BY <3>1, <3>2, <3>3, LeastNatural
  <2>2. v \in 1 .. m /\ v - 1 \in 0 .. m /\ v - 1 < v
    BY <1>1, <1>2, <2>1
  <2>3. v - 1 \in S
    BY <1>1, <2>1, <2>2
  <2>4. << v - 1, v >> \in pairs
    BY <1>1, <2>2 DEF HasFan
  <2>. QED
    BY <2>1, <2>3, <2>4
<1>3. Leads(Nodes(pairs), Room)
  <2>1. SUFFICES ASSUME NEW S, S \subseteq Nodes(pairs), 0 \in S, S # Nodes(pairs)
                 PROVE  \E a \in Room : a.from \in S /\ a.to \notin S
    BY DEF Leads
  <2>2. PICK c \in pairs : c[1] \in S /\ c[2] \in Nodes(pairs) \ S
    BY <1>2, <2>1
  <2>. QED
    BY <2>2, RoomCrosses
<1>4. Leads(Nodes(pairs), TurnedAll(Room))
  <2>1. SUFFICES ASSUME NEW S, S \subseteq Nodes(pairs), 0 \in S, S # Nodes(pairs)
                 PROVE  \E b \in TurnedAll(Room) : b.from \in S /\ b.to \notin S
    BY DEF Leads
  <2>2. PICK c \in pairs : c[1] \in S /\ c[2] \in Nodes(pairs) \ S
    BY <1>2, <2>1
  <2>3. PICK W : W = Nodes(pairs) \ S
    OBVIOUS
  <2>4. PICK a \in Room : a.from \in W /\ a.to \notin W
    BY <2>2, <2>3, RoomCrosses
  <2>5. a.to \in Nodes(pairs)
    BY <2>4, RoomIsGraph DEF IsGraph
  <2>6. TurnedArc(a).from = a.to /\ TurnedArc(a).to = a.from /\ TurnedArc(a) \in TurnedAll(Room)
    BY <2>4, TurnedArcIs, RoomIsArcs DEF TurnedAll
  <2>. QED
    BY <2>3, <2>4, <2>5, <2>6
<1>. QED
  BY <1>3, <1>4

(* Where no cycle is left the distances from the first date, and to it, are potentials:  *)
(* the greatest there are.                                                   *)
LEMMA PotentialsAre ==
  ASSUME IsNetwork(pairs), pairs # {}, HasFan(pairs), costs \in [pairs -> Int],
         flow \in [pairs -> -1 .. 1], Balanced(flow),
         NegativeCycle(Nodes(pairs), ResidualArcs) = {}
  PROVE  /\ Greatest(Nodes(pairs), Room, Distances(Nodes(pairs), ResidualArcs))
         /\ Greatest(Nodes(pairs), TurnedAll(Room), Distances(Nodes(pairs), Turned(ResidualArcs)))
<1>1. PICK nodes, A, arcs : nodes = Nodes(pairs) /\ A = Room /\ arcs = ResidualArcs
  OBVIOUS
<1>2. PICK m \in Nat \ {0} : nodes = 0 .. m
  BY <1>1, NodesAre
<1>3. IsFiniteSet(nodes) /\ 0 \in nodes /\ Unset \notin nodes
  BY <1>2, FS_Interval, UnsetAssumption
<1>4. IsGraph(nodes, A) /\ \A a \in A : IsArc(a)
  BY <1>1, RoomIsGraph, RoomIsArcs
<1>5. arcs \in Seq(A) /\ \A a \in A : \E i \in 1 .. Len(arcs) : arcs[i] = a
  BY <1>1, ResidualArcsAre
<1>6. Leads(nodes, A) /\ Leads(nodes, TurnedAll(A))
  BY <1>1, RoomLeads
<1>7. PICK pi : pi \in Feasible(nodes, A)
  BY <1>1, <1>3, <1>4, <1>5, NoCycleNoGain
<1>8. Greatest(nodes, A, Distances(nodes, arcs))
  BY <1>3, <1>4, <1>5, <1>6, <1>7, DistancesAre
<1>9. PICK B, turned : B = TurnedAll(A) /\ turned = Turned(arcs)
  OBVIOUS
<1>10. /\ IsGraph(nodes, B) /\ turned \in Seq(B)
       /\ \A a \in B : \E i \in 1 .. Len(turned) : turned[i] = a
       /\ \A d \in Feasible(nodes, A) : Negative(nodes, d) \in Feasible(nodes, B)
  <2>1. /\ IsGraph(nodes, TurnedAll(A)) /\ Turned(arcs) \in Seq(TurnedAll(A))
        /\ \A a \in TurnedAll(A) : \E i \in 1 .. Len(Turned(arcs)) : Turned(arcs)[i] = a
        /\ \A d \in Feasible(nodes, A) : Negative(nodes, d) \in Feasible(nodes, TurnedAll(A))
    <3>1. AreArcs(A) /\ Lists(A, arcs)
      BY <1>4, <1>5 DEF AreArcs, Lists
    <3>2. Mirrored(nodes, A, arcs)
      BY <1>3, <1>4, <3>1, TurnedIs
    <3>. QED
      BY <3>2 DEF Mirrored, Lists
  <2>. QED
    BY <1>9, <2>1
<1>11. PICK rho : rho \in Feasible(nodes, B)
  BY <1>7, <1>10
<1>12. Greatest(nodes, B, Distances(nodes, turned))
  BY <1>3, <1>6, <1>9, <1>10, <1>11, DistancesAre
<1>. QED
  BY <1>1, <1>8, <1>9, <1>12

(* A potential's differences add up to nothing around every loop.                     *)
MovedBy(network, cycles, psi) == [p \in network |-> cycles[p] + psi[p[2]] - psi[p[1]]]

LEMMA DifferencesClose ==
  ASSUME NEW network, IsNetwork(network), network # {}, NEW cycles, cycles \in [network -> Int],
         NEW psi, psi \in [Nodes(network) -> Int]
  PROVE  /\ MovedBy(network, cycles, psi) \in [network -> Int]
         /\ \A t \in Triangles(network) : Misses(MovedBy(network, cycles, psi), t) = Misses(cycles, t)
<1>. DEFINE moved == MovedBy(network, cycles, psi)
<1>1. PICK m \in Nat \ {0} :
        /\ Nodes(network) = 0 .. m
        /\ \A p \in network : p[1] \in 0 .. m /\ p[2] \in 1 .. m
  BY NodesAre
<1>2. \A p \in network : psi[p[1]] \in Int /\ psi[p[2]] \in Int /\ cycles[p] \in Int
  BY <1>1
<1>3. \A p \in network : moved[p] = cycles[p] + psi[p[2]] - psi[p[1]] /\ moved[p] \in Int
  BY <1>2 DEF MovedBy
<1>4. moved \in [network -> Int]
  BY <1>3 DEF MovedBy
<1>. HIDE DEF moved
<1>5. ASSUME NEW t, t \in Triangles(network) PROVE Misses(moved, t) = Misses(cycles, t)
  <2>1. /\ Early(t) \in network /\ Late(t) \in network /\ Spanning(t) \in network
        /\ Early(t) = << t[1], t[2] >> /\ Late(t) = << t[2], t[3] >> /\ Spanning(t) = << t[1], t[3] >>
    BY <1>5, TriangleType DEF Early, Late, Spanning
  <2>2. PICK a \in Int, b \in Int, c \in Int, x \in Int, y \in Int, z \in Int :
          /\ a = cycles[Early(t)] /\ b = cycles[Late(t)] /\ c = cycles[Spanning(t)]
          /\ x = psi[t[1]] /\ y = psi[t[2]] /\ z = psi[t[3]]
    <3>1. psi[t[1]] \in Int /\ psi[t[2]] \in Int /\ psi[t[3]] \in Int
      BY <1>2, <2>1
    <3>. QED
      BY <1>2, <2>1, <3>1
  <2>3. moved[Early(t)] = a + y - x /\ moved[Late(t)] = b + z - y /\ moved[Spanning(t)] = c + z - x
    BY <1>3, <2>1, <2>2
  <2>4. (a + y - x) + (b + z - y) - (c + z - x) = a + b - c
    OBVIOUS
  <2>. QED
    BY <2>2, <2>3, <2>4 DEF Misses
<1>. QED
  BY <1>4, <1>5 DEF moved

-------------------------------------------------------------------------------
(* The run                                                                  *)

Statuses ==
  {"unevaluable", "non-integer", "closed", "inconsistent", "ambiguous", "corrected"}
Outcome == [status : Statuses, cycles : [pairs -> Int]]

(* What is decided of a pixel closes its loops, or leaves it alone.                   *)
Decided(i) ==
  /\ outcomes[i].status # "corrected" => outcomes[i].cycles = Still
  /\ outcomes[i].status = "corrected" =>
       /\ Problem(pairs, run.stack, run.stack[i]).error = "none"
       /\ ClosesEveryLoop(outcomes[i].cycles,
                          Problem(pairs, run.stack, run.stack[i]).misclosure)

(* A run has the network of what it is given, and a fan of it where it is to correct.  *)
KnowsNetwork ==
  /\ run \in Runs
  /\ stage \in {"unwrapped", "refused", "correcting", "corrected", "done"}
  /\ stage = "unwrapped" => pairs = {}
  /\ stage # "unwrapped" => pairs = Network(run.days, run.net)
  /\ stage = "refused" => pairs = {} \/ ~HasFan(pairs)
  /\ stage = "correcting" => pairs # {} /\ HasFan(pairs)

(* Pixels are decided in turn, on the stack as it was unwrapped, before any is repaired. *)
KnowsOutcomes ==
  /\ outcomes \in Seq(Outcome) /\ Len(outcomes) <= Len(run.stack)
  /\ \A i \in 1 .. Len(outcomes) : Decided(i)
  /\ stage \in {"unwrapped", "refused"} => outcomes = << >>
  /\ stage \in {"unwrapped", "refused", "correcting"} => stack = run.stack
  /\ stage = "corrected" =>
       \/ outcomes = << >> /\ stack = run.stack
       \/ /\ Len(outcomes) = Len(run.stack)
          /\ stack = [i \in 1 .. Len(run.stack) |-> Repaired(run.stack[i], outcomes[i].cycles)]

AnyOff(misclosure) == \E t \in DOMAIN misclosure : misclosure[t] # 0

(* While a pixel is solved its costs close its loops, and a circulation is in hand.    *)
KnowsFlow ==
  flow # Unset =>
    /\ stage = "correcting" /\ Len(outcomes) < Len(run.stack)
    /\ Problem(pairs, run.stack, run.stack[Len(outcomes) + 1]).error = "none"
    /\ AnyOff(Problem(pairs, run.stack, run.stack[Len(outcomes) + 1]).misclosure)
    /\ costs \in [pairs -> Int]
    /\ ClosesEveryLoop(costs, Problem(pairs, run.stack, run.stack[Len(outcomes) + 1]).misclosure)
    /\ flow \in [pairs -> -1 .. 1] /\ Balanced(flow)

LoopInv ==
  /\ KnowsNetwork
  /\ KnowsOutcomes
  /\ KnowsFlow
  /\ qc # Unset => stage = "done"
  /\ JudgedAsWithout

(* What a problem of a stack is: an error with a name, or whole cycles for every loop.  *)
LEMMA RootIsInteger ==
  ASSUME NEW network, IsNetwork(network), NEW n \in Nat, NEW frame, DOMAIN frame = 1 .. n,
         \A i \in 1 .. n : IsPixel(network, frame[i]), NEW i \in 1 .. n,
         NEW t \in Triangles(network), Evaluable(frame, frame[i], t)
  PROVE  Root(frame, frame[i], t) \in Int /\ Off(frame, frame[i], t) \in Int
<1>1. PICK cycles : cycles = [k \in 1 .. n |-> [p \in network |-> 0]]
  OBVIOUS
<1>2. IsFrame(network, n, frame) /\ Restoring(network, n, frame, cycles)
  BY <1>1 DEF IsFrame, Restoring, Settles
<1>3. Root(frame, frame[i], t) \in Int
  <2>1. Unmoved(network, frame, Restored(n, frame, cycles), i)
    BY <1>2, RepairsKeepRoots
  <2>. QED
    BY <2>1 DEF Unmoved
<1>4. PICK pixel : pixel = frame[i]
  OBVIOUS
<1>5. [p \in network |-> 0] \in [network -> Int] /\ IsPixel(network, pixel)
  BY <1>4
<1>6. Residual(pixel, t) \in Int
  BY <1>5, RepairedPixel
<1>. QED
  BY <1>3, <1>4, <1>6 DEF Off

LEMMA ProblemIs ==
  ASSUME NEW network, IsNetwork(network), NEW n \in Nat, NEW frame, DOMAIN frame = 1 .. n,
         \A i \in 1 .. n : IsPixel(network, frame[i]), NEW i \in 1 .. n
  PROVE  /\ Problem(network, frame, frame[i]).error \in {"unevaluable", "non-integer", "none"}
         /\ Problem(network, frame, frame[i]).error = "none" =>
              /\ DOMAIN Problem(network, frame, frame[i]).misclosure = Triangles(network)
              /\ \A t \in Triangles(network) :
                   Problem(network, frame, frame[i]).misclosure[t] \in Int
<1>1. PICK pixel : pixel = frame[i]
  OBVIOUS
<1>2. \A t : WhyNone(frame, pixel, t) \in {"unevaluable", "non-integer", "none"}
  BY DEF WhyNone
<1>3. Problem(network, frame, pixel).error \in {"unevaluable", "non-integer", "none"}
  BY <1>2 DEF Problem
<1>4. ASSUME Problem(network, frame, pixel).error = "none"
      PROVE  /\ DOMAIN Problem(network, frame, pixel).misclosure = Triangles(network)
             /\ \A t \in Triangles(network) : Problem(network, frame, pixel).misclosure[t] \in Int
  <2>1. Solvable(network, frame, pixel)
    BY <1>4, ProblemSolved
  <2>2. PICK m : /\ m = Problem(network, frame, pixel).misclosure
                 /\ m = [t \in Triangles(network) |-> Rounded(Off(frame, pixel, t))]
    BY <2>1 DEF Solvable
  <2>3. \A t \in Triangles(network) : m[t] \in Int
    <3>1. TAKE t \in Triangles(network)
    <3>2. WhyNone(frame, pixel, t) = "none"
      BY <2>1 DEF Solvable
    <3>3. Evaluable(frame, pixel, t)
      BY <3>2 DEF WhyNone
    <3>4. Off(frame, pixel, t) \in Int
      BY <1>1, <3>3, RootIsInteger
    <3>5. Rounded(Off(frame, pixel, t)) \in Int
      BY <3>2, <3>4, NothingWrong
    <3>. QED
      BY <2>2, <3>5
  <2>. QED
    BY <2>2, <2>3
<1>. QED
  BY <1>1, <1>3, <1>4

(* What holds of the stack of a run, as soon as it has a network.                      *)
LEMMA StackOfRun ==
  ASSUME LoopInv
  PROVE  /\ Len(run.stack) \in Nat /\ DOMAIN run.stack = 1 .. Len(run.stack)
         /\ Len(outcomes) \in Nat /\ DOMAIN outcomes = 1 .. Len(outcomes)
         /\ \A i \in 1 .. Len(outcomes) : /\ outcomes[i].cycles \in [pairs -> Int]
                                          /\ outcomes[i].status \in Statuses
         /\ stage # "unwrapped" => /\ IsNetwork(pairs)
                                   /\ \A i \in 1 .. Len(run.stack) : IsPixel(pairs, run.stack[i])
<1>1. run \in Runs /\ outcomes \in Seq(Outcome)
  BY DEF LoopInv, KnowsNetwork, KnowsOutcomes
<1>2. Len(run.stack) \in Nat /\ DOMAIN run.stack = 1 .. Len(run.stack)
  BY <1>1, StackType
<1>3. PICK S : S = Outcome /\ outcomes \in Seq(S)
  BY <1>1
<1>4. /\ Len(outcomes) \in Nat /\ DOMAIN outcomes = 1 .. Len(outcomes)
      /\ \A i \in 1 .. Len(outcomes) : outcomes[i] \in S
  BY <1>3, LenProperties
<1>5. \A o \in Outcome : o.cycles \in [pairs -> Int] /\ o.status \in Statuses
  BY DEF Outcome
<1>6. ASSUME stage # "unwrapped"
      PROVE  /\ IsNetwork(pairs)
             /\ \A i \in 1 .. Len(run.stack) : IsPixel(pairs, run.stack[i])
  <2>1. pairs = Network(run.days, run.net)
    BY <1>6 DEF LoopInv, KnowsNetwork
  <2>. QED
    BY <1>1, <2>1, StackType, NetworkIsNetwork
<1>. QED
  BY <1>2, <1>3, <1>4, <1>5, <1>6

LEMMA InvInit == Init => LoopInv
<1>1. SUFFICES ASSUME Init PROVE LoopInv
  OBVIOUS
<1>2. run \in Runs /\ stage = "unwrapped" /\ pairs = {} /\ stack = run.stack /\ flow = Unset /\ qc = Unset
  BY <1>1 DEF Init
<1>3. Len(run.stack) \in Nat
  BY <1>2, StackType
<1>4. outcomes = << >> /\ Len(outcomes) = 0 /\ outcomes \in Seq(Outcome)
  BY <1>1 DEF Init
<1>5. KnowsNetwork /\ KnowsOutcomes /\ KnowsFlow
  BY <1>2, <1>3, <1>4 DEF KnowsNetwork, KnowsOutcomes, KnowsFlow
<1>. QED
  BY <1>2, <1>5 DEF LoopInv, JudgedAsWithout

LEMMA InvMakeNetwork == LoopInv /\ MakeNetwork => LoopInv'
<1>1. SUFFICES ASSUME LoopInv, MakeNetwork PROVE LoopInv'
  OBVIOUS
<1>2. stage = "unwrapped" /\ flow = Unset /\ qc = Unset /\ outcomes = << >> /\ stack = run.stack /\ run \in Runs
  BY <1>1 DEF MakeNetwork, LoopInv, KnowsNetwork, KnowsOutcomes, KnowsFlow
<1>3. run' = run /\ stack' = stack /\ outcomes' = outcomes /\ flow' = flow /\ qc' = qc
  BY <1>1 DEF MakeNetwork
<1>4. pairs' = Network(run.days, run.net)
  BY <1>1 DEF MakeNetwork
<1>5. KnowsNetwork'
  <2>1. /\ stage' \in {"refused", "correcting", "corrected", "done"}
        /\ stage' = "refused" => pairs' = {} \/ ~HasFan(pairs')
        /\ stage' = "correcting" => pairs' # {} /\ HasFan(pairs')
    BY <1>1, <1>4 DEF MakeNetwork
  <2>. QED
    BY <1>2, <1>3, <1>4, <2>1 DEF KnowsNetwork
<1>6. KnowsOutcomes'
  <2>1. Len(run.stack) \in Nat
    BY <1>2, StackType
  <2>2. outcomes' = << >> /\ Len(outcomes') = 0 /\ outcomes' \in Seq(Outcome')
    BY <1>2, <1>3
  <2>3. stack' = run'.stack /\ Len(outcomes') <= Len(run'.stack)
    BY <1>2, <1>3, <2>1, <2>2
  <2>. QED
    BY <2>2, <2>3 DEF KnowsOutcomes
<1>7. KnowsFlow'
  BY <1>2, <1>3 DEF KnowsFlow
<1>. QED
  BY <1>2, <1>3, <1>5, <1>6, <1>7 DEF LoopInv, JudgedAsWithout

(* A pixel that is decided is added to those that were.                               *)
LEMMA InvSettled ==
  ASSUME LoopInv, stage = "correcting", Len(outcomes) < Len(run.stack),
         NEW status, NEW cycles, Settled(status, cycles),
         status \in Statuses, cycles \in [pairs -> Int],
         status # "corrected" => cycles = Still,
         status = "corrected" =>
           /\ Problem(pairs, run.stack, run.stack[Len(outcomes) + 1]).error = "none"
           /\ ClosesEveryLoop(cycles, Problem(pairs, run.stack, run.stack[Len(outcomes) + 1]).misclosure)
  PROVE  LoopInv'
<1>1. /\ run' = run /\ stage' = stage /\ pairs' = pairs /\ stack' = stack /\ qc' = qc /\ flow' = Unset
      /\ outcomes' = Append(outcomes, [status |-> status, cycles |-> cycles])
  BY DEF Settled
<1>2. KnowsNetwork'
  BY <1>1 DEF LoopInv, KnowsNetwork
<1>3. PICK S, s, n, o :
        /\ S = Outcome /\ s = outcomes /\ o = [status |-> status, cycles |-> cycles]
        /\ n \in Nat /\ n = Len(s) /\ s \in Seq(S) /\ n < Len(run.stack) /\ Len(run.stack) \in Nat
  <2>1. Len(run.stack) \in Nat /\ Len(outcomes) \in Nat
    BY StackOfRun
  <2>2. outcomes \in Seq(Outcome)
    BY DEF LoopInv, KnowsOutcomes
  <2>3. PICK S, s, n : S = Outcome /\ s = outcomes /\ n = Len(s)
    OBVIOUS
  <2>4. PICK o : o = [status |-> status, cycles |-> cycles]
    OBVIOUS
  <2>. QED
    BY <2>1, <2>2, <2>3, <2>4
<1>4. o \in S
  BY <1>3 DEF Outcome
<1>5. /\ Append(s, o) \in Seq(S) /\ Len(Append(s, o)) = n + 1
      /\ \A i \in 1 .. n : Append(s, o)[i] = s[i]
      /\ Append(s, o)[n + 1] = o
  BY <1>3, <1>4, AppendProperties
<1>6. PICK e : /\ e = Append(s, o) /\ outcomes' = e /\ e \in Seq(S) /\ Len(e) = n + 1
               /\ \A i \in 1 .. n : e[i] = outcomes[i]
               /\ e[n + 1].status = status /\ e[n + 1].cycles = cycles
  <2>1. PICK e : e = Append(s, o)
    OBVIOUS
  <2>2. e \in Seq(S) /\ Len(e) = n + 1 /\ (\A i \in 1 .. n : e[i] = s[i]) /\ e[n + 1] = o
    BY <1>5, <2>1
  <2>3. outcomes' = e
    BY <1>1, <1>3, <2>1
  <2>4. o.status = status /\ o.cycles = cycles
    BY <1>3
  <2>. QED
    BY <1>3, <2>1, <2>2, <2>3, <2>4
<1>7. Outcome' = S
  BY <1>1, <1>3 DEF Outcome
<1>8. \A i \in 1 .. n + 1 : Decided(i)'
  <2>1. TAKE i \in 1 .. n + 1
  <2>2. CASE i = n + 1
    BY <1>1, <1>3, <1>6, <2>2 DEF Decided, Still
  <2>3. CASE i # n + 1
    <3>1. i \in 1 .. n
      BY <1>3, <2>3
    <3>2. Decided(i)
      BY <1>3, <3>1 DEF LoopInv, KnowsOutcomes
    <3>. QED
      BY <1>1, <1>6, <3>1, <3>2 DEF Decided, Still
  <2>. QED
    BY <2>2, <2>3
<1>9. KnowsOutcomes'
  <2>1. outcomes' \in Seq(Outcome') /\ Len(outcomes') <= Len(run'.stack)
    BY <1>1, <1>3, <1>6, <1>7
  <2>2. \A i \in 1 .. Len(outcomes') : Decided(i)'
    BY <1>6, <1>8
  <2>3. stage' = "correcting" /\ stack' = run'.stack
    BY <1>1 DEF LoopInv, KnowsOutcomes
  <2>. QED
    BY <2>1, <2>2, <2>3 DEF KnowsOutcomes
<1>10. KnowsFlow'
  BY <1>1 DEF KnowsFlow
<1>11. qc' = Unset
  BY <1>1 DEF LoopInv
<1>. QED
  BY <1>2, <1>9, <1>10, <1>11 DEF LoopInv, JudgedAsWithout

(* What a pixel in hand finds.                                                     *)
LEMMA InHand ==
  ASSUME LoopInv, Judging
  PROVE  /\ stage = "correcting" /\ Len(outcomes) < Len(run.stack) /\ stack = run.stack
         /\ Len(outcomes) + 1 \in 1 .. Len(run.stack) /\ Pixel = Len(outcomes) + 1
         /\ pairs # {} /\ HasFan(pairs) /\ IsNetwork(pairs) /\ qc = Unset
         /\ \A i \in 1 .. Len(run.stack) : IsPixel(pairs, run.stack[i])
         /\ Len(run.stack) \in Nat /\ DOMAIN run.stack = 1 .. Len(run.stack)
<1>1. stage = "correcting" /\ Len(outcomes) + 1 \in DOMAIN stack /\ Pixel = Len(outcomes) + 1
  BY DEF Judging, Pixels, Pixel
<1>2. stack = run.stack /\ pairs # {} /\ HasFan(pairs) /\ qc = Unset
  BY <1>1 DEF LoopInv, KnowsOutcomes, KnowsNetwork
<1>3. PICK n \in Nat, k \in Nat : n = Len(run.stack) /\ k = Len(outcomes) /\ k + 1 \in 1 .. n
  BY <1>1, <1>2, StackOfRun
<1>4. k < n
  BY <1>3
<1>. QED
  BY <1>1, <1>2, <1>3, <1>4, StackOfRun

LEMMA InvCorrectPixel == LoopInv /\ CorrectPixel => LoopInv'
<1>1. SUFFICES ASSUME LoopInv, CorrectPixel PROVE LoopInv'
  OBVIOUS
<1>2. PICK n, i, problem :
        /\ n \in Nat /\ n = Len(run.stack) /\ i = Len(outcomes) + 1 /\ i \in 1 .. n /\ Len(outcomes) < n
        /\ problem = Problem(pairs, run.stack, run.stack[i])
        /\ \/ problem.error # "none" /\ Settled(problem.error, Still)
           \/ Settled("closed", Still)
           \/ Settled("inconsistent", Still)
           \/ /\ problem.error = "none" /\ AnyOff(problem.misclosure)
              /\ ClosesEveryLoop(Particular(pairs, problem.misclosure), problem.misclosure)
              /\ costs' = Particular(pairs, problem.misclosure)
              /\ flow' = Still
              /\ UNCHANGED << run, stage, pairs, stack, outcomes, qc >>
  <2>1. Judging
    BY <1>1 DEF CorrectPixel
  <2>2. stack = run.stack /\ Pixel = Len(outcomes) + 1
    BY <1>1, <2>1, InHand
  <2>. QED
    BY <1>1, <2>1, <2>2, InHand DEF CorrectPixel, AnyOff
<1>3. /\ stage = "correcting" /\ pairs # {} /\ HasFan(pairs) /\ IsNetwork(pairs)
      /\ \A k \in 1 .. n : IsPixel(pairs, run.stack[k])
      /\ stack = run.stack /\ DOMAIN run.stack = 1 .. n /\ qc = Unset
  BY <1>1, <1>2, InHand DEF CorrectPixel
<1>4. /\ problem.error \in {"unevaluable", "non-integer", "none"}
      /\ problem.error = "none" =>
           /\ DOMAIN problem.misclosure = Triangles(pairs)
           /\ \A t \in Triangles(pairs) : problem.misclosure[t] \in Int
  BY <1>2, <1>3, ProblemIs
<1>5. Still \in [pairs -> Int] /\ Still \in [pairs -> -1 .. 1] /\ Balanced(Still)
  BY <1>3, StillIsBalanced DEF Still
<1>6. CASE problem.error # "none" /\ Settled(problem.error, Still)
  <2>1. problem.error \in Statuses /\ problem.error # "corrected"
    BY <1>4, <1>6 DEF Statuses
  <2>. QED
    BY <1>1, <1>2, <1>3, <1>5, <1>6, <2>1, InvSettled
<1>7. CASE Settled("closed", Still)
  <2>1. "closed" \in Statuses /\ "closed" # "corrected"
    BY DEF Statuses
  <2>. QED
    BY <1>1, <1>2, <1>3, <1>5, <1>7, <2>1, InvSettled
<1>8. CASE Settled("inconsistent", Still)
  <2>1. "inconsistent" \in Statuses /\ "inconsistent" # "corrected"
    BY DEF Statuses
  <2>. QED
    BY <1>1, <1>2, <1>3, <1>5, <1>8, <2>1, InvSettled
<1>9. CASE /\ problem.error = "none" /\ AnyOff(problem.misclosure)
           /\ ClosesEveryLoop(Particular(pairs, problem.misclosure), problem.misclosure)
           /\ costs' = Particular(pairs, problem.misclosure)
           /\ flow' = Still
           /\ UNCHANGED << run, stage, pairs, stack, outcomes, qc >>
  <2>1. Particular(pairs, problem.misclosure) \in [pairs -> Int]
    BY <1>3, <1>4, <1>9, ParticularIs
  <2>2. PICK c, f : /\ c = costs' /\ f = flow' /\ c \in [pairs -> Int] /\ f \in [pairs -> -1 .. 1]
                    /\ ClosesEveryLoop(c, problem.misclosure) /\ Balanced(f)
    BY <1>5, <1>9, <2>1
  <2>3. KnowsNetwork' /\ KnowsOutcomes'
    BY <1>1, <1>9 DEF LoopInv, KnowsNetwork, KnowsOutcomes, Decided, Outcome, Still
  <2>4. Balanced(flow)'
    BY <1>9, <2>2 DEF Balanced
  <2>5. KnowsFlow'
    BY <1>2, <1>3, <1>9, <2>2, <2>4 DEF KnowsFlow
  <2>. QED
    BY <1>3, <1>9, <2>3, <2>5 DEF LoopInv, JudgedAsWithout
<1>. QED
  BY <1>2, <1>6, <1>7, <1>8, <1>9

(* A circulation in hand, while a pixel is solved.                                   *)
LEMMA InSolving ==
  ASSUME LoopInv, Judging, Solving
  PROVE  /\ costs \in [pairs -> Int] /\ flow \in [pairs -> -1 .. 1] /\ Balanced(flow)
         /\ Problem(pairs, run.stack, run.stack[Len(outcomes) + 1]).error = "none"
         /\ AnyOff(Problem(pairs, run.stack, run.stack[Len(outcomes) + 1]).misclosure)
         /\ ClosesEveryLoop(costs, Problem(pairs, run.stack, run.stack[Len(outcomes) + 1]).misclosure)
  BY DEF LoopInv, KnowsFlow, Solving

LEMMA InvCancel == LoopInv /\ Cancel => LoopInv'
<1>1. SUFFICES ASSUME LoopInv, Cancel PROVE LoopInv'
  OBVIOUS
<1>2. Judging /\ Solving
  BY <1>1 DEF Cancel
<1>3. /\ stage = "correcting" /\ pairs # {} /\ IsNetwork(pairs) /\ qc = Unset
      /\ Len(outcomes) < Len(run.stack)
      /\ costs \in [pairs -> Int] /\ flow \in [pairs -> -1 .. 1] /\ Balanced(flow)
      /\ Problem(pairs, run.stack, run.stack[Len(outcomes) + 1]).error = "none"
      /\ AnyOff(Problem(pairs, run.stack, run.stack[Len(outcomes) + 1]).misclosure)
      /\ ClosesEveryLoop(costs, Problem(pairs, run.stack, run.stack[Len(outcomes) + 1]).misclosure)
  BY <1>1, <1>2, InHand, InSolving
<1>4. /\ NegativeCycle(Nodes(pairs), ResidualArcs) # {}
      /\ flow' = [p \in pairs |-> flow[p] + Pushed(NegativeCycle(Nodes(pairs), ResidualArcs), p)]
      /\ UNCHANGED << run, stage, pairs, stack, outcomes, costs, qc >>
  BY <1>1 DEF Cancel
<1>5. PICK g : /\ g = [p \in pairs |-> flow[p] + Pushed(NegativeCycle(Nodes(pairs), ResidualArcs), p)]
               /\ flow' = g
  BY <1>4
<1>6. g \in [pairs -> -1 .. 1] /\ Balanced(g)
  BY <1>3, <1>4, <1>5, CancelKeeps
<1>7. KnowsNetwork' /\ KnowsOutcomes'
  BY <1>1, <1>4 DEF LoopInv, KnowsNetwork, KnowsOutcomes, Decided, Outcome, Still
<1>8. Balanced(flow)'
  BY <1>4, <1>5, <1>6 DEF Balanced
<1>9. KnowsFlow'
  BY <1>3, <1>4, <1>5, <1>6, <1>8 DEF KnowsFlow
<1>. QED
  BY <1>3, <1>4, <1>7, <1>9 DEF LoopInv, JudgedAsWithout

LEMMA InvReadPotentials == LoopInv /\ ReadPotentials => LoopInv'
<1>1. SUFFICES ASSUME LoopInv, ReadPotentials PROVE LoopInv'
  OBVIOUS
<1>2. Judging /\ Solving
  BY <1>1 DEF ReadPotentials
<1>3. /\ stage = "correcting" /\ pairs # {} /\ IsNetwork(pairs) /\ HasFan(pairs)
      /\ Len(outcomes) < Len(run.stack)
      /\ costs \in [pairs -> Int] /\ flow \in [pairs -> -1 .. 1] /\ Balanced(flow)
  BY <1>1, <1>2, InHand, InSolving
<1>4. PICK psi, moved :
        /\ NegativeCycle(Nodes(pairs), ResidualArcs) = {}
        /\ psi = Distances(Nodes(pairs), ResidualArcs)
        /\ moved = [p \in pairs |-> costs[p] + psi[p[2]] - psi[p[1]]]
        /\ Settled("ambiguous", Still) \/ Settled("corrected", moved)
  BY <1>1 DEF ReadPotentials
<1>5. CASE Settled("ambiguous", Still)
  <2>1. "ambiguous" \in Statuses /\ "ambiguous" # "corrected" /\ Still \in [pairs -> Int]
    BY DEF Statuses, Still
  <2>. QED
    BY <1>1, <1>3, <1>5, <2>1, InvSettled
<1>6. CASE Settled("corrected", moved)
  <2>1. psi \in [Nodes(pairs) -> Int]
    BY <1>3, <1>4, PotentialsAre DEF Greatest, Feasible
  <2>2. moved \in [pairs -> Int] /\ \A t \in Triangles(pairs) : Misses(moved, t) = Misses(costs, t)
    <3>1. moved = MovedBy(pairs, costs, psi)
      BY <1>4 DEF MovedBy
    <3>. QED
      BY <1>3, <2>1, <3>1, DifferencesClose
  <2>3. PICK problem : problem = Problem(pairs, run.stack, run.stack[Len(outcomes) + 1])
    OBVIOUS
  <2>4. problem.error = "none" /\ ClosesEveryLoop(costs, problem.misclosure)
    BY <1>1, <1>2, <2>3, InSolving
  <2>5. DOMAIN problem.misclosure = Triangles(pairs)
    <3>1. /\ Len(run.stack) \in Nat /\ DOMAIN run.stack = 1 .. Len(run.stack)
          /\ Len(outcomes) + 1 \in 1 .. Len(run.stack)
          /\ \A k \in 1 .. Len(run.stack) : IsPixel(pairs, run.stack[k])
      BY <1>1, <1>2, InHand
    <3>2. PICK frame, n, i :
            /\ frame = run.stack /\ n = Len(run.stack) /\ i = Len(outcomes) + 1
            /\ n \in Nat /\ i \in 1 .. n
      BY <3>1
    <3>3. DOMAIN frame = 1 .. n /\ \A k \in 1 .. n : IsPixel(pairs, frame[k])
      BY <3>1, <3>2
    <3>4. problem = Problem(pairs, frame, frame[i])
      BY <2>3, <3>2
    <3>5. Problem(pairs, frame, frame[i]).error = "none"
      BY <2>4, <3>4
    <3>6. IsNetwork(pairs)
      BY <1>3
    <3>7. DOMAIN Problem(pairs, frame, frame[i]).misclosure = Triangles(pairs)
      BY <3>2, <3>3, <3>5, <3>6, ProblemIs
    <3>. QED
      BY <3>4, <3>7
  <2>6. ClosesEveryLoop(moved, problem.misclosure)
    BY <2>2, <2>4, <2>5 DEF ClosesEveryLoop
  <2>7. "corrected" \in Statuses
    BY DEF Statuses
  <2>. QED
    BY <1>1, <1>3, <1>6, <2>2, <2>3, <2>4, <2>6, <2>7, InvSettled
<1>. QED
  BY <1>4, <1>5, <1>6

LEMMA InvApplyCorrections == LoopInv /\ ApplyCorrections => LoopInv'
<1>1. SUFFICES ASSUME LoopInv, ApplyCorrections PROVE LoopInv'
  OBVIOUS
<1>2. /\ stage = "correcting" /\ Len(outcomes) + 1 \notin DOMAIN stack
      /\ stack' = [i \in DOMAIN stack |-> Repaired(stack[i], outcomes[i].cycles)]
      /\ stage' = "corrected"
      /\ UNCHANGED << run, pairs, outcomes, costs, flow, qc >>
  BY <1>1 DEF ApplyCorrections, Pixel, Pixels
<1>3. /\ stack = run.stack /\ Len(outcomes) <= Len(run.stack) /\ qc = Unset
      /\ pairs = Network(run.days, run.net) /\ run \in Runs
  BY <1>1, <1>2 DEF LoopInv, KnowsOutcomes, KnowsNetwork
<1>4. PICK n \in Nat, k \in Nat :
        n = Len(run.stack) /\ k = Len(outcomes) /\ DOMAIN stack = 1 .. n /\ k <= n /\ k + 1 \notin 1 .. n
  BY <1>1, <1>2, <1>3, StackOfRun
<1>5. k = n
  BY <1>4
<1>6. flow = Unset
  <2>1. flow # Unset => Len(outcomes) < Len(run.stack)
    BY <1>1 DEF LoopInv, KnowsFlow
  <2>. QED
    BY <1>4, <1>5, <2>1
<1>7. KnowsNetwork'
  BY <1>1, <1>2, <1>3 DEF LoopInv, KnowsNetwork
<1>8. KnowsOutcomes'
  <2>1. outcomes' \in Seq(Outcome') /\ \A i \in 1 .. Len(outcomes') : Decided(i)'
    BY <1>1, <1>2 DEF LoopInv, KnowsOutcomes, Outcome, Decided, Still
  <2>2. /\ Len(outcomes') = Len(run'.stack) /\ Len(outcomes') <= Len(run'.stack)
        /\ stack' = [i \in 1 .. Len(run'.stack) |-> Repaired(run'.stack[i], outcomes'[i].cycles)]
    BY <1>2, <1>3, <1>4, <1>5
  <2>. QED
    BY <1>2, <2>1, <2>2 DEF KnowsOutcomes
<1>9. KnowsFlow'
  BY <1>2, <1>6 DEF KnowsFlow
<1>. QED
  BY <1>2, <1>3, <1>7, <1>8, <1>9 DEF LoopInv, JudgedAsWithout

(* The verdict on a pixel of a frame.                                             *)
Judged(frame, pixel) == {t \in Triangles(pairs) : Evaluable(frame, pixel, t)}

LEMMA VerdictIs ==
  ASSUME NEW frame, NEW i, i \in DOMAIN frame
  PROVE  Verdicts(frame)[i] =
           [judged |-> Judged(frame, frame[i]),
            bad |-> {t \in Judged(frame, frame[i]) : Magnitude(Off(frame, frame[i], t)) > Cycle \div 2},
            withheld |-> \E t \in Triangles(pairs) : Withheld(frame, frame[i], t)]
  BY DEF Verdicts, Judged

(* Two pixels whose loops are as they were have one verdict.                          *)
LEMMA SameVerdict ==
  ASSUME NEW frame, NEW moved, NEW i, i \in DOMAIN frame, i \in DOMAIN moved,
         \A t \in Triangles(pairs) :
           /\ Evaluable(moved, moved[i], t) <=> Evaluable(frame, frame[i], t)
           /\ Withheld(moved, moved[i], t) <=> Withheld(frame, frame[i], t)
           /\ Evaluable(frame, frame[i], t) => Off(moved, moved[i], t) = Off(frame, frame[i], t)
  PROVE  Verdicts(moved)[i] = Verdicts(frame)[i]
<1>1. PICK a, b : a = frame[i] /\ b = moved[i]
  OBVIOUS
<1>2. Judged(moved, b) = Judged(frame, a)
  BY <1>1 DEF Judged
<1>3. \A t \in Judged(frame, a) : Off(moved, b, t) = Off(frame, a, t)
  BY <1>1 DEF Judged
<1>4. {t \in Judged(moved, b) : Magnitude(Off(moved, b, t)) > Cycle \div 2}
        = {t \in Judged(frame, a) : Magnitude(Off(frame, a, t)) > Cycle \div 2}
  BY <1>2, <1>3
<1>5. (\E t \in Triangles(pairs) : Withheld(moved, b, t))
        <=> (\E t \in Triangles(pairs) : Withheld(frame, a, t))
  BY <1>1
<1>6. (\E t \in Triangles(pairs) : Withheld(moved, b, t))
        = (\E t \in Triangles(pairs) : Withheld(frame, a, t))
  BY <1>5
<1>. QED
  BY <1>1, <1>2, <1>4, <1>6, VerdictIs

(* The repairs change no verdict but those on the pixels they repair.                  *)
LEMMA RepairsAreJudged ==
  ASSUME LoopInv, stage = "corrected", Len(outcomes) = Len(run.stack),
         stack = [k \in 1 .. Len(run.stack) |-> Repaired(run.stack[k], outcomes[k].cycles)],
         NEW i, i \in 1 .. Len(run.stack)
  PROVE  /\ outcomes[i].status = "corrected" =>
              Verdicts(stack)[i].bad = {} /\ Verdicts(stack)[i].judged = Triangles(pairs)
         /\ outcomes[i].status # "corrected" => Verdicts(stack)[i] = Verdicts(run.stack)[i]
<1>1. /\ Len(run.stack) \in Nat /\ DOMAIN run.stack = 1 .. Len(run.stack) /\ IsNetwork(pairs)
      /\ \A k \in 1 .. Len(run.stack) : IsPixel(pairs, run.stack[k])
      /\ \A k \in 1 .. Len(run.stack) : outcomes[k].cycles \in [pairs -> Int]
      /\ \A k \in 1 .. Len(run.stack) : Decided(k)
  BY StackOfRun DEF LoopInv, KnowsOutcomes
<1>2. PICK n, frame, cycles, moved :
        /\ n = Len(run.stack) /\ frame = run.stack /\ moved = stack
        /\ cycles = [k \in 1 .. n |-> outcomes[k].cycles]
  OBVIOUS
<1>3. /\ n \in Nat /\ DOMAIN frame = 1 .. n /\ \A k \in 1 .. n : IsPixel(pairs, frame[k])
      /\ moved = [k \in 1 .. n |-> Repaired(frame[k], cycles[k])]
  BY <1>1, <1>2
<1>4. \A k \in 1 .. n : /\ cycles[k] \in [pairs -> Int]
                        /\ Settles(pairs, frame, frame[k], cycles[k])
  BY <1>1, <1>2 DEF Settles, Decided, Still
<1>5. i \in 1 .. n /\ i \in DOMAIN frame /\ i \in DOMAIN moved /\ moved[i] = Repaired(frame[i], cycles[i])
  BY <1>2, <1>3
<1>6. \A t \in Triangles(pairs) :
        /\ Evaluable(moved, moved[i], t) <=> Evaluable(frame, frame[i], t)
        /\ Withheld(moved, moved[i], t) <=> Withheld(frame, frame[i], t)
        /\ Evaluable(frame, frame[i], t) =>
             Root(moved, moved[i], t) = Root(frame, frame[i], t) /\ Root(frame, frame[i], t) \in Int
  <2>1. IsFrame(pairs, n, frame) /\ Restoring(pairs, n, frame, cycles)
    BY <1>3, <1>4 DEF IsFrame, Restoring
  <2>2. Unmoved(pairs, frame, moved, i)
    <3>1. moved = Restored(n, frame, cycles)
      BY <1>3 DEF Restored
    <3>. QED
      BY <1>1, <1>5, <2>1, <3>1, RepairsKeepRoots
  <2>. QED
    BY <2>2 DEF Unmoved
<1>7. \A t \in Triangles(pairs) :
        /\ Residual(frame[i], t) \in Int /\ Misses(cycles[i], t) \in Int
        /\ Residual(moved[i], t) = Residual(frame[i], t) + Cycle * Misses(cycles[i], t)
  <2>1. PICK pixel, c : pixel = frame[i] /\ c = cycles[i]
    OBVIOUS
  <2>2. IsNetwork(pairs) /\ IsPixel(pairs, pixel) /\ c \in [pairs -> Int]
    BY <1>1, <1>3, <1>4, <1>5, <2>1
  <2>3. moved[i] = Repaired(pixel, c)
    BY <1>5, <2>1
  <2>. QED
    BY <2>1, <2>2, <2>3, RepairedPixel
<1>8. ASSUME outcomes[i].status # "corrected" PROVE Verdicts(moved)[i] = Verdicts(frame)[i]
  <2>1. cycles[i] = [p \in pairs |-> 0]
    BY <1>1, <1>2, <1>5, <1>8 DEF Decided, Still
  <2>2. \A t \in Triangles(pairs) : Misses(cycles[i], t) = 0
    BY <1>1, <2>1, TriangleType DEF Misses
  <2>3. \A t \in Triangles(pairs) : Residual(moved[i], t) = Residual(frame[i], t)
    BY <1>7, <2>2 DEF Cycle
  <2>4. \A t \in Triangles(pairs) :
          Evaluable(frame, frame[i], t) => Off(moved, moved[i], t) = Off(frame, frame[i], t)
    BY <1>6, <2>3 DEF Off
  <2>. QED
    BY <1>5, <1>6, <2>4, SameVerdict
<1>9. ASSUME outcomes[i].status = "corrected"
      PROVE  Verdicts(moved)[i].bad = {} /\ Verdicts(moved)[i].judged = Triangles(pairs)
  <2>1. /\ Problem(pairs, frame, frame[i]).error = "none"
        /\ ClosesEveryLoop(cycles[i], Problem(pairs, frame, frame[i]).misclosure)
    BY <1>1, <1>2, <1>5, <1>9 DEF Decided
  <2>2. \A t \in Triangles(pairs) : Evaluable(frame, frame[i], t)
    BY <1>1, <2>1, ProblemSolved DEF Solvable, WhyNone
  <2>3. ASSUME NEW t, t \in Triangles(pairs)
        PROVE  Evaluable(moved, moved[i], t) /\ ~(Magnitude(Off(moved, moved[i], t)) > Cycle \div 2)
    <3>1. PICK pixel, c : pixel = frame[i] /\ c = cycles[i]
      OBVIOUS
    <3>2. PICK r \in Int, x \in Int :
            /\ r = Root(frame, pixel, t) /\ r = Root(moved, moved[i], t)
            /\ x = Residual(moved[i], t) /\ x = Residual(Repaired(pixel, c), t)
      BY <1>5, <1>6, <1>7, <2>2, <2>3, <3>1 DEF Cycle
    <3>3. r - 1 <= x /\ x <= r + 1
      <4>1. IsPixel(pairs, pixel) /\ c \in [pairs -> Int] /\ Root(frame, pixel, t) \in Int
        BY <1>3, <1>4, <1>5, <3>1, <3>2
      <4>2. /\ Problem(pairs, frame, pixel).error = "none"
            /\ ClosesEveryLoop(c, Problem(pairs, frame, pixel).misclosure)
        BY <2>1, <3>1
      <4>3. /\ Root(frame, pixel, t) - 1 <= Residual(Repaired(pixel, c), t)
            /\ Residual(Repaired(pixel, c), t) <= Root(frame, pixel, t) + 1
        BY <1>1, <2>3, <4>1, <4>2, ClosedIsNear
      <4>. QED
        BY <3>2, <4>3
    <3>4. Off(moved, moved[i], t) = x - r
      BY <3>2 DEF Off
    <3>5. ~(Magnitude(x - r) > 2)
      BY <3>2, <3>3 DEF Magnitude
    <3>. QED
      BY <1>6, <2>2, <2>3, <3>4, <3>5 DEF Cycle
  <2>4. Judged(moved, moved[i]) = Triangles(pairs)
    BY <2>3 DEF Judged
  <2>5. {t \in Judged(moved, moved[i]) : Magnitude(Off(moved, moved[i], t)) > Cycle \div 2} = {}
    BY <2>3, <2>4
  <2>6. PICK bad, judged, withheld :
          /\ Verdicts(moved)[i] = [judged |-> judged, bad |-> bad, withheld |-> withheld]
          /\ judged = Judged(moved, moved[i])
          /\ bad = {t \in Judged(moved, moved[i]) : Magnitude(Off(moved, moved[i], t)) > Cycle \div 2}
    <3>1. PICK bad : bad = {t \in Judged(moved, moved[i]) : Magnitude(Off(moved, moved[i], t)) > Cycle \div 2}
      OBVIOUS
    <3>2. PICK judged, withheld :
            /\ judged = Judged(moved, moved[i])
            /\ withheld = \E t \in Triangles(pairs) : Withheld(moved, moved[i], t)
      OBVIOUS
    <3>3. Verdicts(moved)[i] = [judged |-> judged, bad |-> bad, withheld |-> withheld]
      BY <1>5, <3>1, <3>2, VerdictIs
    <3>. QED
      BY <3>1, <3>2, <3>3
  <2>. QED
    BY <2>4, <2>5, <2>6
<1>. QED
  BY <1>2, <1>8, <1>9

LEMMA InvGate == LoopInv /\ Gate => LoopInv'
<1>1. SUFFICES ASSUME LoopInv, Gate PROVE LoopInv'
  OBVIOUS
<1>2. /\ stage = "corrected" /\ stage' = "done"
      /\ qc' = Verdicts(stack)
      /\ stack' = [i \in DOMAIN stack |-> IF Verdicts(stack)[i].bad = {} THEN stack[i]
                                          ELSE [stack[i] EXCEPT !.missing = pairs]]
      /\ UNCHANGED << run, pairs, outcomes, costs, flow >>
  BY <1>1 DEF Gate, Pixels
<1>3. /\ Len(run.stack) \in Nat /\ DOMAIN run.stack = 1 .. Len(run.stack) /\ IsNetwork(pairs)
      /\ \A k \in 1 .. Len(run.stack) : IsPixel(pairs, run.stack[k])
      /\ Len(outcomes) \in Nat /\ DOMAIN outcomes = 1 .. Len(outcomes)
      /\ \A k \in 1 .. Len(outcomes) : outcomes[k].cycles \in [pairs -> Int]
  BY <1>1, <1>2, StackOfRun
<1>4. \/ outcomes = << >> /\ stack = run.stack
      \/ /\ Len(outcomes) = Len(run.stack)
         /\ stack = [i \in 1 .. Len(run.stack) |-> Repaired(run.stack[i], outcomes[i].cycles)]
  BY <1>1, <1>2 DEF LoopInv, KnowsOutcomes
<1>5. /\ DOMAIN stack = 1 .. Len(run.stack)
      /\ \A i \in 1 .. Len(run.stack) : /\ IsPixel(pairs, stack[i])
                                        /\ stack[i].missing = run.stack[i].missing
  <2>1. CASE outcomes = << >> /\ stack = run.stack
    BY <1>3, <2>1
  <2>2. CASE /\ Len(outcomes) = Len(run.stack)
             /\ stack = [i \in 1 .. Len(run.stack) |-> Repaired(run.stack[i], outcomes[i].cycles)]
    <3>1. ASSUME NEW i, i \in 1 .. Len(run.stack)
          PROVE  IsPixel(pairs, stack[i]) /\ stack[i].missing = run.stack[i].missing
      <4>1. PICK pixel, c : pixel = run.stack[i] /\ c = outcomes[i].cycles
        OBVIOUS
      <4>2. IsPixel(pairs, pixel) /\ c \in [pairs -> Int] /\ stack[i] = Repaired(pixel, c)
        BY <1>3, <2>2, <3>1, <4>1
      <4>. QED
        BY <1>3, <4>1, <4>2, RepairedPixel
    <3>. QED
      BY <2>2, <3>1
  <2>. QED
    BY <1>4, <2>1, <2>2
<1>6. Verdicts(run.stack)' = Verdicts(run.stack)
  BY <1>2 DEF Verdicts
<1>7. ASSUME NEW i, i \in DOMAIN outcomes
      PROVE  IF outcomes[i].status = "corrected"
             THEN qc'[i].bad = {} /\ qc'[i].judged = Triangles(pairs)
             ELSE qc'[i] = Verdicts(run.stack)[i]
  <2>1. outcomes # << >>
    BY <1>7
  <2>2. /\ Len(outcomes) = Len(run.stack) /\ i \in 1 .. Len(run.stack)
        /\ stack = [k \in 1 .. Len(run.stack) |-> Repaired(run.stack[k], outcomes[k].cycles)]
    BY <1>3, <1>4, <1>7, <2>1
  <2>. QED
    BY <1>1, <1>2, <2>2, RepairsAreJudged
<1>8. ASSUME NEW i, i \in DOMAIN stack
      PROVE  stack'[i].missing = IF qc'[i].bad = {} THEN run.stack[i].missing ELSE pairs
  <2>1. PICK pixel : pixel = stack[i] /\ IsPixel(pairs, pixel) /\ pixel.missing = run.stack[i].missing
    BY <1>5, <1>8
  <2>2. [pixel EXCEPT !.missing = pairs].missing = pairs
    BY <2>1 DEF IsPixel
  <2>3. stack'[i] = IF Verdicts(stack)[i].bad = {} THEN pixel ELSE [pixel EXCEPT !.missing = pairs]
    BY <1>2, <1>8, <2>1
  <2>. QED
    BY <1>2, <2>1, <2>2, <2>3
<1>9. DOMAIN stack' = DOMAIN stack
  BY <1>2
<1>10. JudgedAsWithout'
  <2>1. \A i \in DOMAIN outcomes' :
          IF outcomes'[i].status = "corrected"
          THEN qc'[i].bad = {} /\ qc'[i].judged = Triangles(pairs')
          ELSE qc'[i] = (Verdicts(run.stack)')[i]
    BY <1>2, <1>6, <1>7
  <2>2. \A i \in DOMAIN stack' :
          stack'[i].missing = IF qc'[i].bad = {} THEN run'.stack[i].missing ELSE pairs'
    BY <1>2, <1>8, <1>9
  <2>. QED
    BY <2>1, <2>2 DEF JudgedAsWithout, Pixels
<1>11. KnowsNetwork'
  BY <1>1, <1>2 DEF LoopInv, KnowsNetwork
<1>12. KnowsOutcomes'
  BY <1>1, <1>2 DEF LoopInv, KnowsOutcomes, Decided, Outcome, Still
<1>13. KnowsFlow'
  BY <1>1, <1>2 DEF LoopInv, KnowsFlow
<1>. QED
  BY <1>2, <1>10, <1>11, <1>12, <1>13 DEF LoopInv

LEMMA InvNext == LoopInv /\ [Next]_vars => LoopInv'
<1>1. SUFFICES ASSUME LoopInv, [Next]_vars PROVE LoopInv'
  OBVIOUS
<1>2. CASE UNCHANGED vars
  <2>1. KnowsNetwork' /\ KnowsOutcomes'
    BY <1>1, <1>2 DEF LoopInv, KnowsNetwork, KnowsOutcomes, Decided, Outcome, Still, vars
  <2>2. Balanced(flow)' <=> Balanced(flow)
    BY <1>2 DEF Balanced, vars
  <2>3. KnowsFlow'
    BY <1>1, <1>2, <2>2 DEF LoopInv, KnowsFlow, vars
  <2>4. Verdicts(run.stack)' = Verdicts(run.stack)
    BY <1>2 DEF Verdicts, vars
  <2>5. JudgedAsWithout'
    BY <1>1, <1>2, <2>4 DEF LoopInv, JudgedAsWithout, Pixels, vars
  <2>. QED
    BY <1>1, <1>2, <2>1, <2>3, <2>5 DEF LoopInv, vars
<1>. QED
  BY <1>1, <1>2, InvMakeNetwork, InvCorrectPixel, InvCancel, InvReadPotentials,
     InvApplyCorrections, InvGate DEF Next

(* A run knows its network and its fan, decides its pixels in turn, each left alone or by   *)
(* what closes its loops, and keeps a circulation in hand while it cancels.          *)
THEOREM LoopInvariant == Spec => []LoopInv
<1>. QED
  BY InvInit, InvNext, PTL DEF Spec

(* No correction moves the gate (loop_correction.rs, and the root arithmetic of          *)
(* loop_closure.rs): a pixel that was left alone is judged as if no other had been      *)
(* corrected, a corrected one passes every loop, and only a bad loop blanks.         *)
THEOREM GateJudgesAsWithout == Spec => []JudgedAsWithout
<1>1. LoopInv => JudgedAsWithout
  BY DEF LoopInv
<1>. QED
  BY <1>1, LoopInvariant, PTL

(* A network of a bandwidth or a temporal baseline is refused only where it is empty or    *)
(* has a gap (check_correction_network): every triangle of its fan is there.          *)
THEOREM FanNetworksAreAccepted == Spec => []FanNetworksAccepted
<1>1. LoopInv => FanNetworksAccepted
  <2>1. SUFFICES ASSUME LoopInv, stage = "refused", run.net.reference = Unset, run.net.indexes = Unset,
                        pairs # {}
                 PROVE  \E d \in Nodes(pairs) \ {0} : << d - 1, d >> \notin pairs
    BY DEF FanNetworksAccepted
  <2>2. run \in Runs /\ pairs = Network(run.days, run.net) /\ ~HasFan(pairs)
    BY <2>1 DEF LoopInv, KnowsNetwork
  <2>3. \A p \in pairs : p[2] > p[1] + 1 => Early(Fan(p)) \in pairs
    BY <2>1, <2>2, FanInNetwork
  <2>. QED
    BY <2>2, <2>3 DEF HasFan
<1>. QED
  BY <1>1, LoopInvariant, PTL

(* Every cycle that is cancelled makes the flow cheaper, and leaves at most one unit on   *)
(* every pair, as much at a date as comes to it (unique_optimal_potentials).          *)
THEOREM EveryCyclePays == Spec => CancellingPays
<1>. DEFINE Pays ==
       (flow # Unset /\ flow' # Unset) =>
         /\ SumFunction([p \in pairs |-> costs[p] * flow'[p]])
              > SumFunction([p \in pairs |-> costs[p] * flow[p]])
         /\ \A p \in pairs : flow'[p] \in -1 .. 1
         /\ \A n \in Nodes(pairs) :
              SumFunctionOnSet(flow', {p \in pairs : p[1] = n})
                = SumFunctionOnSet(flow', {p \in pairs : p[2] = n})
<1>1. LoopInv /\ [Next]_vars => [Pays]_flow
  <2>1. SUFFICES ASSUME LoopInv, Next, flow # Unset, flow' # Unset, flow' # flow PROVE Pays
    BY DEF vars
  <2>2. Cancel
    BY <2>1 DEF Next, MakeNetwork, CorrectPixel, Solving, ReadPotentials, Settled, ApplyCorrections, Gate
  <2>3. Judging /\ Solving
    BY <2>2 DEF Cancel
  <2>4. /\ pairs # {} /\ IsNetwork(pairs)
        /\ costs \in [pairs -> Int] /\ flow \in [pairs -> -1 .. 1] /\ Balanced(flow)
    BY <2>1, <2>3, InHand, InSolving
  <2>5. PICK g : /\ NegativeCycle(Nodes(pairs), ResidualArcs) # {}
                 /\ g = [p \in pairs |-> flow[p] + Pushed(NegativeCycle(Nodes(pairs), ResidualArcs), p)]
                 /\ flow' = g
    BY <2>2 DEF Cancel
  <2>6. /\ g \in [pairs -> -1 .. 1]
        /\ Balanced(g)
        /\ IteratedSum([p \in pairs |-> costs[p] * g[p]], pairs)
             > IteratedSum([p \in pairs |-> costs[p] * flow[p]], pairs)
    BY <2>4, <2>5, CancelKeeps
  <2>7. ASSUME NEW h, DOMAIN h = pairs PROVE SumFunction(h) = IteratedSum(h, pairs)
    BY <2>7, SumIs DEF SumFunction
  <2>8. SumFunction([p \in pairs |-> costs[p] * g[p]])
          > SumFunction([p \in pairs |-> costs[p] * flow[p]])
    <3>1. PICK h, k : h = [p \in pairs |-> costs[p] * g[p]] /\ k = [p \in pairs |-> costs[p] * flow[p]]
      OBVIOUS
    <3>2. DOMAIN h = pairs /\ DOMAIN k = pairs
      BY <3>1
    <3>3. IteratedSum(h, pairs) > IteratedSum(k, pairs)
      BY <2>6, <3>1
    <3>4. SumFunction(h) = IteratedSum(h, pairs) /\ SumFunction(k) = IteratedSum(k, pairs)
      BY <2>7, <3>2
    <3>5. SumFunction(h) > SumFunction(k)
      BY <3>3, <3>4
    <3>. QED
      BY <3>1, <3>5
  <2>9. \A p \in pairs : g[p] \in -1 .. 1 /\ g[p] \in Int
    BY <2>6
  <2>10. \A n \in Nodes(pairs) :
           SumFunctionOnSet(g, {p \in pairs : p[1] = n}) = SumFunctionOnSet(g, {p \in pairs : p[2] = n})
    <3>1. IsNetwork(pairs) /\ Balanced(g) /\ \A p \in pairs : g[p] \in Int
      BY <2>4, <2>6, <2>9
    <3>. QED
      BY <3>1, Conserves
  <2>. QED
    BY <2>5, <2>8, <2>9, <2>10
<1>. QED
  BY <1>1, LoopInvariant, PTL DEF Spec, CancellingPays

-------------------------------------------------------------------------------
(* The smallest correction: corrections that close the loops differ by potentials of the  *)
(* dates, and a circulation bounds the size of them all from below.                *)

(* The size of a correction is a sum.                                                *)
LEMMA SizeIs ==
  ASSUME NEW S, IsFiniteSet(S), NEW c, c \in [S -> Int]
  PROVE  Promise!Size(c) = IteratedSum([p \in S |-> Magnitude(c[p])], S)
<1>1. PICK g : g = [p \in S |-> Magnitude(c[p])]
  OBVIOUS
<1>2. DOMAIN c = S /\ \A p \in S : g[p] = (IF c[p] < 0 THEN -c[p] ELSE c[p]) /\ g[p] \in Int
  BY <1>1 DEF Magnitude
<1>3. PICK f : Sums(f, S, g)
  BY <1>2, SumsOfParts
<1>4. /\ f[{}] = 0
      /\ \A s \in SUBSET S : \A x \in s : f[s] = g[x] + f[s \ {x}]
      /\ IteratedSum(g, S) = f[S]
  BY <1>3 DEF Sums
<1>. DEFINE Body(h) == [s \in SUBSET DOMAIN c |->
                          IF s = {} THEN 0
                          ELSE (IF c[AnyOf(s)] < 0 THEN -c[AnyOf(s)] ELSE c[AnyOf(s)]) + h[s \ {AnyOf(s)}]]
            k == [s \in SUBSET DOMAIN c |-> f[s]]
<1>5. \A s \in SUBSET S : s # {} => AnyOf(s) \in s
  BY DEF AnyOf
<1>6. k = Body(k)
  <2>1. ASSUME NEW s \in SUBSET DOMAIN c PROVE k[s] = Body(k)[s]
    <3>1. CASE s = {}
      BY <1>4, <3>1
    <3>2. CASE s # {}
      <4>1. PICK x : x = AnyOf(s) /\ x \in s /\ x \in S
        BY <1>2, <1>5, <3>2
      <4>2. k[s] = f[s] /\ k[s \ {x}] = f[s \ {x}]
        OBVIOUS
      <4>3. f[s] = g[x] + f[s \ {x}]
        BY <1>2, <1>4, <4>1
      <4>. QED
        BY <1>2, <3>2, <4>1, <4>2, <4>3
    <3>. QED
      BY <3>1, <3>2
  <2>. QED
    BY <2>1
<1>7. PICK h : Promise!Size(c) = h[DOMAIN c] /\ h = Body(h)
  <2>1. \E h : h = Body(h)
    BY <1>6
  <2>. QED
    BY <2>1 DEF Promise!Size, Promise!MapThenSumSet, Promise!MapThenFoldSet, AnyOf
<1>. DEFINE X == {s \in SUBSET S : h[s] = f[s]}
<1>8. \A s \in SUBSET S :
        h[s] = IF s = {} THEN 0
               ELSE (IF c[AnyOf(s)] < 0 THEN -c[AnyOf(s)] ELSE c[AnyOf(s)]) + h[s \ {AnyOf(s)}]
  BY <1>2, <1>7
<1>. HIDE DEF Body, k
<1>9. {} \in X
  BY <1>4, <1>8
<1>10. ASSUME NEW s \in SUBSET S, NEW d \in s, \A x \in s : s \ {x} \in X
       PROVE  s \in X
  <2>1. PICK x : x = AnyOf(s) /\ x \in s /\ x \in S
    BY <1>5, <1>10
  <2>2. h[s] = g[x] + h[s \ {x}] /\ f[s] = g[x] + f[s \ {x}]
    BY <1>2, <1>4, <1>8, <2>1
  <2>. QED
    BY <1>10, <2>1, <2>2
<1>11. \A s \in SUBSET S : s \in X
  <2>. HIDE DEF X
  <2>. QED
    BY <1>9, <1>10, SubsetInduction
<1>. QED
  BY <1>1, <1>2, <1>4, <1>7, <1>11

(* What every closing correction has along the fan, and the particular one by its making. *)
FollowsFan(network, misclosure, c) ==
  /\ c \in [network -> Int]
  /\ \A p \in network :
       p[2] # p[1] + 1 => c[p] = c[Early(Fan(p))] + c[Late(Fan(p))] + misclosure[Fan(p)]

IsMisclosure(network, misclosure) ==
  DOMAIN misclosure = Triangles(network) /\ \A t \in Triangles(network) : misclosure[t] \in Int

LEMMA ClosingFollows ==
  ASSUME NEW network, IsNetwork(network), network # {}, HasFan(network),
         NEW misclosure, IsMisclosure(network, misclosure),
         NEW c, c \in [network -> Int], ClosesEveryLoop(c, misclosure)
  PROVE  FollowsFan(network, misclosure, c)
<1>1. ASSUME NEW p \in network, p[2] # p[1] + 1
      PROVE  c[p] = c[Early(Fan(p))] + c[Late(Fan(p))] + misclosure[Fan(p)]
  <2>1. /\ Fan(p) \in Triangles(network) /\ Early(Fan(p)) \in network /\ Late(Fan(p)) \in network
        /\ Spanning(Fan(p)) = p
    BY <1>1, FanIsTriangle
  <2>2. PICK x \in Int, y \in Int, z \in Int, n \in Int :
          x = c[Early(Fan(p))] /\ y = c[Late(Fan(p))] /\ z = c[p] /\ n = misclosure[Fan(p)]
    BY <2>1 DEF IsMisclosure
  <2>3. Misses(c, Fan(p)) + misclosure[Fan(p)] = 0
    BY <2>1 DEF ClosesEveryLoop, IsMisclosure
  <2>4. x + y - z + n = 0
    BY <2>1, <2>2, <2>3 DEF Misses
  <2>5. z = x + y + n
    BY <2>4
  <2>. QED
    BY <2>2, <2>5
<1>. QED
  BY <1>1 DEF FollowsFan

LEMMA ParticularFollows ==
  ASSUME NEW network, IsNetwork(network), network # {}, HasFan(network),
         NEW misclosure, IsMisclosure(network, misclosure)
  PROVE  FollowsFan(network, misclosure, Particular(network, misclosure))
<1>1. PICK c : c = Particular(network, misclosure)
  OBVIOUS
<1>2. /\ c \in [network -> Int]
      /\ \A p \in network : c[p] = IF p[2] = p[1] + 1 THEN 0 ELSE c[Early(Fan(p))] + misclosure[Fan(p)]
  BY <1>1, ParticularIs DEF IsMisclosure
<1>3. ASSUME NEW p \in network, p[2] # p[1] + 1
      PROVE  c[p] = c[Early(Fan(p))] + c[Late(Fan(p))] + misclosure[Fan(p)]
  <2>1. /\ Fan(p) \in Triangles(network) /\ Early(Fan(p)) \in network /\ Late(Fan(p)) \in network
        /\ Late(Fan(p)) = << p[2] - 1, p[2] >>
    BY <1>3, FanIsTriangle
  <2>2. PICK q \in network : q = Late(Fan(p)) /\ q[1] = p[2] - 1 /\ q[2] = p[2]
    BY <2>1
  <2>3. p[2] \in Int
    BY DEF IsNetwork
  <2>4. q[2] = q[1] + 1
    BY <2>2, <2>3
  <2>5. c[q] = 0
    BY <1>2, <2>4
  <2>6. PICK x \in Int, n \in Int : x = c[Early(Fan(p))] /\ n = misclosure[Fan(p)]
    BY <1>2, <2>1 DEF IsMisclosure
  <2>7. c[p] = x + n
    BY <1>2, <1>3, <2>6
  <2>8. x + n = x + 0 + n
    OBVIOUS
  <2>. QED
    BY <2>2, <2>5, <2>6, <2>7, <2>8
<1>. QED
  BY <1>1, <1>2, <1>3 DEF FollowsFan

(* The potentials that are 0 at the first date.                                      *)
Potentials(network) == {psi \in [Nodes(network) -> Int] : psi[0] = 0}

(* Any two of them differ by a potential: the fan leaves one free for each date.         *)
LEMMA FollowersDiffer ==
  ASSUME NEW network, IsNetwork(network), network # {}, HasFan(network), NEW misclosure,
         IsMisclosure(network, misclosure),
         NEW c, FollowsFan(network, misclosure, c), NEW e, FollowsFan(network, misclosure, e)
  PROVE  \E psi : psi \in Potentials(network) /\ c = MovedBy(network, e, psi)
<1>1. PICK m \in Nat \ {0} :
        /\ Nodes(network) = 0 .. m
        /\ \A p \in network : p = << p[1], p[2] >> /\ p[1] \in 0 .. m /\ p[2] \in 1 .. m /\ p[1] < p[2]
  BY NodesAre
<1>2. PICK d : d = [p \in network |-> c[p] - e[p]]
  OBVIOUS
<1>3. \A p \in network : c[p] \in Int /\ e[p] \in Int /\ d[p] \in Int /\ d[p] = c[p] - e[p]
  BY <1>2 DEF FollowsFan
<1>4. ASSUME NEW p \in network, p[2] # p[1] + 1
      PROVE  d[p] = d[Early(Fan(p))] + d[Late(Fan(p))]
  <2>1. Fan(p) \in Triangles(network) /\ Early(Fan(p)) \in network /\ Late(Fan(p)) \in network
    BY <1>4, FanIsTriangle
  <2>2. PICK a, b : a = Early(Fan(p)) /\ b = Late(Fan(p)) /\ a \in network /\ b \in network
    BY <2>1
  <2>3. PICK n \in Int : n = misclosure[Fan(p)]
    BY <2>1 DEF IsMisclosure
  <2>4. c[p] = c[a] + c[b] + n /\ e[p] = e[a] + e[b] + n
    BY <1>4, <2>2, <2>3 DEF FollowsFan
  <2>5. PICK x \in Int, y \in Int, u \in Int, v \in Int : x = c[a] /\ y = c[b] /\ u = e[a] /\ v = e[b]
    BY <1>3, <2>2
  <2>6. d[p] = (x + y + n) - (u + v + n) /\ d[a] = x - u /\ d[b] = y - v
    BY <1>3, <2>2, <2>4, <2>5
  <2>7. (x + y + n) - (u + v + n) = (x - u) + (y - v)
    OBVIOUS
  <2>. QED
    BY <2>2, <2>6, <2>7
<1>5. \A k \in 1 .. m : << k - 1, k >> \in network
  <2>1. TAKE k \in 1 .. m
  <2>2. k \in Nodes(network) \ {0}
    BY <1>1
  <2>. QED
    BY <2>2 DEF HasFan
<1>6. PICK step : step = [k \in 1 .. m |-> d[<< k - 1, k >>]]
  OBVIOUS
<1>7. \A k \in 1 .. m : step[k] \in Int /\ step[k] = d[<< k - 1, k >>]
  BY <1>3, <1>5, <1>6
<1>8. IsFiniteSet(1 .. m)
  BY FS_Interval
<1>9. PICK f : Sums(f, 1 .. m, step)
  BY <1>7, <1>8, SumsOfParts
<1>10. PICK psi : psi = [k \in 0 .. m |-> f[1 .. k]]
  OBVIOUS
<1>11. psi \in [0 .. m -> Int] /\ psi[0] = 0
  <2>1. \A k \in 0 .. m : 1 .. k \in SUBSET (1 .. m)
    OBVIOUS
  <2>2. 1 .. 0 = {} /\ 0 \in 0 .. m
    OBVIOUS
  <2>3. \A k \in 0 .. m : f[1 .. k] \in Int
    BY <1>9, <2>1 DEF Sums
  <2>4. f[1 .. 0] = 0
    BY <1>9, <2>2 DEF Sums
  <2>. QED
    BY <1>10, <2>2, <2>3, <2>4
<1>12. \A k \in 1 .. m : psi[k] = psi[k - 1] + step[k] /\ psi[k - 1] \in Int /\ psi[k] \in Int
  <2>1. TAKE k \in 1 .. m
  <2>2. k \in 0 .. m /\ k - 1 \in 0 .. m
    OBVIOUS
  <2>3. PICK s, r : s = 1 .. k /\ r = 1 .. k - 1 /\ s \in SUBSET (1 .. m) /\ k \in s /\ r = s \ {k}
    OBVIOUS
  <2>4. f[s] = step[k] + f[s \ {k}]
    BY <1>9, <2>3 DEF Sums
  <2>5. psi[k] = f[s] /\ psi[k - 1] = f[r]
    BY <1>10, <2>2, <2>3
  <2>6. psi[k] \in Int /\ psi[k - 1] \in Int
    BY <1>11, <2>2
  <2>7. psi[k] = step[k] + psi[k - 1]
    BY <2>3, <2>4, <2>5
  <2>8. step[k] \in Int
    BY <1>7
  <2>. QED
    BY <2>6, <2>7, <2>8
<1>. DEFINE X == {w \in 0 .. m : \A p \in network : p[2] = p[1] + w => d[p] = psi[p[2]] - psi[p[1]]}
<1>13. 0 \in X
  <2>1. \A p \in network : p[2] # p[1] + 0
    BY <1>1
  <2>. QED
    BY <2>1
<1>14. ASSUME NEW w \in 0 .. m - 1, w \in X PROVE w + 1 \in X
  <2>1. SUFFICES ASSUME NEW p, p \in network, p[2] = p[1] + (w + 1)
                 PROVE  d[p] = psi[p[2]] - psi[p[1]]
    OBVIOUS
  <2>2. PICK i \in 0 .. m, k \in 1 .. m : p = << i, k >> /\ p[1] = i /\ p[2] = k /\ k = i + w + 1
    BY <1>1, <2>1
  <2>3. psi[i] \in Int /\ psi[k] \in Int /\ psi[k - 1] \in Int /\ psi[k] = psi[k - 1] + d[<< k - 1, k >>]
    BY <1>7, <1>11, <1>12
  <2>4. d[<< k - 1, k >>] \in Int
    BY <1>7
  <2>5. CASE w = 0
    <3>1. k - 1 = i
      BY <2>2, <2>5
    <3>2. d[p] = d[<< k - 1, k >>]
      BY <2>2, <3>1
    <3>. QED
      BY <2>2, <2>3, <2>4, <3>1, <3>2
  <2>6. CASE w # 0
    <3>1. p[2] # p[1] + 1
      BY <2>2, <2>6
    <3>2. /\ Early(Fan(p)) \in network /\ Early(Fan(p)) = << i, k - 1 >>
          /\ Late(Fan(p)) = << k - 1, k >>
      BY <2>1, <2>2, <3>1, FanIsTriangle
    <3>3. d[p] = d[<< i, k - 1 >>] + d[<< k - 1, k >>]
      BY <1>4, <2>1, <3>1, <3>2
    <3>4. PICK q \in network : q = << i, k - 1 >> /\ q[1] = i /\ q[2] = k - 1
      BY <3>2
    <3>5. q[2] = q[1] + w
      BY <2>2, <3>4
    <3>6. d[q] = psi[k - 1] - psi[i]
      BY <1>14, <3>4, <3>5
    <3>7. PICK x \in Int, y \in Int, z \in Int, b \in Int :
            x = psi[i] /\ y = psi[k - 1] /\ z = psi[k] /\ b = d[<< k - 1, k >>]
      BY <2>3, <2>4
    <3>8. d[p] = (y - x) + b /\ z = y + b
      BY <2>3, <3>3, <3>4, <3>6, <3>7
    <3>9. (y - x) + b = z - x
      BY <3>8
    <3>. QED
      BY <2>2, <3>7, <3>8, <3>9
  <2>. QED
    BY <2>5, <2>6
<1>15. \A w \in 0 .. m : w \in X
  <2>. HIDE DEF X
  <2>. QED
    BY <1>13, <1>14, UpTo
<1>16. \A p \in network : c[p] = e[p] + psi[p[2]] - psi[p[1]]
  <2>1. TAKE p \in network
  <2>2. PICK i \in 0 .. m, k \in 1 .. m : p[1] = i /\ p[2] = k /\ i < k
    BY <1>1
  <2>3. PICK w \in 0 .. m : k = i + w
    <3>1. k - i \in 0 .. m /\ k = i + (k - i)
      BY <2>2
    <3>. QED
      BY <3>1
  <2>4. d[p] = psi[k] - psi[i]
    BY <1>15, <2>2, <2>3
  <2>5. PICK x \in Int, y \in Int, a \in Int, b \in Int : x = psi[i] /\ y = psi[k] /\ a = c[p] /\ b = e[p]
    BY <1>3, <1>11
  <2>6. a - b = y - x
    BY <1>3, <2>4, <2>5
  <2>7. a = b + y - x
    BY <2>6
  <2>. QED
    BY <2>2, <2>5, <2>7
<1>17. c = MovedBy(network, e, psi)
  <2>1. c = [p \in network |-> c[p]]
    BY DEF FollowsFan
  <2>. QED
    BY <1>16, <2>1 DEF MovedBy
<1>18. psi \in Potentials(network)
  BY <1>1, <1>11 DEF Potentials
<1>. QED
  BY <1>17, <1>18

-------------------------------------------------------------------------------
(* The optimum                                                              *)

(* A pair with room for the flow takes a correction that does not go against it.         *)
Fits(x, p) == (flow[p] < 1 => x[p] <= 0) /\ (flow[p] > -1 => x[p] >= 0)

LEMMA FeasibleFits ==
  ASSUME IsNetwork(pairs), pairs # {}, costs \in [pairs -> Int], flow \in [pairs -> -1 .. 1],
         NEW psi, psi \in Potentials(pairs)
  PROVE  psi \in Feasible(Nodes(pairs), Room)
           <=> \A p \in pairs : Fits(MovedBy(pairs, costs, psi), p)
<1>1. PICK m \in Nat \ {0} :
        /\ Nodes(pairs) = 0 .. m
        /\ \A p \in pairs : p[1] \in 0 .. m /\ p[2] \in 1 .. m
  BY NodesAre
<1>2. PICK x : x = MovedBy(pairs, costs, psi)
  OBVIOUS
<1>3. \A p \in pairs : /\ psi[p[1]] \in Int /\ psi[p[2]] \in Int /\ costs[p] \in Int
                       /\ flow[p] \in -1 .. 1
                       /\ x[p] = costs[p] + psi[p[2]] - psi[p[1]]
  BY <1>1, <1>2 DEF MovedBy, Potentials
<1>. DEFINE Slackens(a) == psi[a.to] <= psi[a.from] + a.cost
<1>4. ASSUME NEW p \in pairs
      PROVE  /\ Arc(p, 1) \in Room <=> flow[p] < 1
             /\ Arc(p, -1) \in Room <=> flow[p] > -1
             /\ Slackens(Arc(p, 1)) <=> x[p] <= 0
             /\ Slackens(Arc(p, -1)) <=> x[p] >= 0
  <2>1. PICK u \in Int, v \in Int, c \in Int, f \in -1 .. 1 :
          u = psi[p[1]] /\ v = psi[p[2]] /\ c = costs[p] /\ f = flow[p]
    BY <1>3
  <2>2. /\ Arc(p, 1).from = p[1] /\ Arc(p, 1).to = p[2] /\ Arc(p, 1).cost = -1 * costs[p]
        /\ Arc(p, 1).pair = p /\ Arc(p, 1).push = 1
    BY DEF Arc
  <2>3. /\ Arc(p, -1).from = p[2] /\ Arc(p, -1).to = p[1] /\ Arc(p, -1).cost = -(-1) * costs[p]
        /\ Arc(p, -1).pair = p /\ Arc(p, -1).push = -1
    BY DEF Arc
  <2>4. -1 * c = -c /\ -(-1) * c = c /\ x[p] = c + v - u
    BY <1>3, <2>1
  <2>5. Arc(p, 1) \in Room <=> HasRoom(Arc(p, 1))
    BY DEF Room
  <2>6. Arc(p, -1) \in Room <=> HasRoom(Arc(p, -1))
    BY DEF Room
  <2>7. (Arc(p, 1) \in Room <=> flow[p] < 1) /\ (Arc(p, -1) \in Room <=> flow[p] > -1)
    BY <2>1, <2>2, <2>3, <2>5, <2>6 DEF HasRoom
  <2>8. (Slackens(Arc(p, 1)) <=> v <= u + -c) /\ (Slackens(Arc(p, -1)) <=> u <= v + c)
    BY <2>1, <2>2, <2>3, <2>4
  <2>9. (v <= u + -c <=> c + v - u <= 0) /\ (u <= v + c <=> c + v - u >= 0)
    OBVIOUS
  <2>. QED
    BY <2>4, <2>7, <2>8, <2>9
<1>5. \A a \in Room : \E p \in pairs : a = Arc(p, 1) \/ a = Arc(p, -1)
  BY DEF Room
<1>. HIDE DEF Slackens
<1>6. (\A a \in Room : Slackens(a)) <=> \A p \in pairs : Fits(x, p)
  <2>1. ASSUME \A a \in Room : Slackens(a), NEW p \in pairs PROVE Fits(x, p)
    BY <1>4, <2>1 DEF Fits
  <2>2. ASSUME \A p \in pairs : Fits(x, p), NEW a \in Room PROVE Slackens(a)
    <3>1. PICK p \in pairs : a = Arc(p, 1) \/ a = Arc(p, -1)
      BY <1>5
    <3>. QED
      BY <1>4, <2>2, <3>1 DEF Fits
  <2>. QED
    BY <2>1, <2>2
<1>. QED
  BY <1>2, <1>6 DEF Feasible, Potentials, Slackens

(* The circulation times a correction: the same for all that close the same loops.     *)
Worth == IteratedSum([p \in pairs |-> flow[p] * costs[p]], pairs)

(* Weak duality: no correction that differs by a potential is smaller than the flow is    *)
(* worth, and what is as small fits the flow.                                      *)
LEMMA Duality ==
  ASSUME IsNetwork(pairs), pairs # {}, costs \in [pairs -> Int], flow \in [pairs -> -1 .. 1],
         Balanced(flow), NEW psi, psi \in Potentials(pairs)
  PROVE  /\ Worth \in Int /\ Promise!Size(MovedBy(pairs, costs, psi)) \in Int
         /\ Worth <= Promise!Size(MovedBy(pairs, costs, psi))
         /\ Worth = Promise!Size(MovedBy(pairs, costs, psi)) <=> psi \in Feasible(Nodes(pairs), Room)
<1>1. PICK m \in Nat \ {0} :
        /\ Nodes(pairs) = 0 .. m
        /\ \A p \in pairs : p[1] \in 0 .. m /\ p[2] \in 1 .. m
  BY NodesAre
<1>2. PICK x : x = MovedBy(pairs, costs, psi)
  OBVIOUS
<1>3. /\ x \in [pairs -> Int] /\ psi \in [Nodes(pairs) -> Int]
      /\ \A p \in pairs : /\ psi[p[1]] \in Int /\ psi[p[2]] \in Int /\ costs[p] \in Int
                          /\ flow[p] \in -1 .. 1
                          /\ x[p] = costs[p] + psi[p[2]] - psi[p[1]] /\ x[p] \in Int
  <2>1. psi \in [Nodes(pairs) -> Int]
    BY DEF Potentials
  <2>2. x \in [pairs -> Int]
    BY <1>2, <2>1, DifferencesClose
  <2>. QED
    BY <1>1, <1>2, <2>1, <2>2 DEF MovedBy
<1>4. PICK g : g = [p \in pairs |-> flow[p] * x[p]]
  OBVIOUS
<1>5. PICK h : h = [p \in pairs |-> Magnitude(x[p])]
  OBVIOUS
<1>6. PICK k : k = [p \in pairs |-> flow[p] * costs[p]]
  OBVIOUS
<1>7. PICK z : z = [p \in pairs |-> flow[p] * (psi[p[2]] - psi[p[1]])]
  OBVIOUS
<1>8. IteratedSum(z, pairs) = 0
  BY <1>3, <1>7 DEF Balanced
<1>9. ASSUME NEW p \in pairs
      PROVE  /\ k[p] \in Int /\ z[p] \in Int /\ g[p] = k[p] + z[p] /\ g[p] \in Int
             /\ h[p] \in Int /\ g[p] <= h[p] /\ (g[p] = h[p] <=> Fits(x, p))
  <2>1. PICK c \in Int, w \in Int, f \in Int, n \in Int :
          /\ c = costs[p] /\ w = psi[p[2]] - psi[p[1]] /\ f = flow[p] /\ n = x[p]
    <3>1. psi[p[1]] \in Int /\ psi[p[2]] \in Int /\ costs[p] \in Int /\ flow[p] \in Int /\ x[p] \in Int
      BY <1>3
    <3>2. psi[p[2]] - psi[p[1]] \in Int
      BY <3>1
    <3>. QED
      BY <3>1, <3>2
  <2>2. f \in {-1, 0, 1}
    BY <1>3, <2>1
  <2>3. n = c + w
    <3>1. PICK u \in Int, v \in Int : u = psi[p[1]] /\ v = psi[p[2]]
      BY <1>3
    <3>2. n = c + v - u /\ w = v - u
      BY <1>3, <2>1, <3>1
    <3>. QED
      BY <3>2
  <2>4. k[p] = f * c /\ z[p] = f * w /\ g[p] = f * n
    BY <1>4, <1>6, <1>7, <2>1
  <2>5. f * c \in Int /\ f * w \in Int /\ f * n = f * c + f * w /\ f * n \in Int
    BY <2>2, <2>3
  <2>6. h[p] = IF n < 0 THEN -n ELSE n
    BY <1>5, <2>1 DEF Magnitude
  <2>7. f * n = (IF f = 0 THEN 0 ELSE IF f = 1 THEN n ELSE -n)
    BY <2>2
  <2>8. Fits(x, p) <=> (f < 1 => n <= 0) /\ (f > -1 => n >= 0)
    BY <2>1 DEF Fits
  <2>9. g[p] <= h[p] /\ h[p] \in Int
    BY <2>2, <2>4, <2>6, <2>7
  <2>10. g[p] = h[p] <=> Fits(x, p)
    BY <2>2, <2>4, <2>6, <2>7, <2>8
  <2>. QED
    BY <2>4, <2>5, <2>9, <2>10
<1>10. IsFiniteSet(pairs)
  BY DEF IsNetwork
<1>11. IteratedSum(g, pairs) = IteratedSum(k, pairs) + IteratedSum(z, pairs)
  BY <1>9, <1>10, SumAdds
<1>12. IteratedSum(k, pairs) \in Int /\ IteratedSum(h, pairs) \in Int
  BY <1>9, <1>10, SumIsInteger
<1>13. /\ IteratedSum(g, pairs) <= IteratedSum(h, pairs)
       /\ IteratedSum(g, pairs) = IteratedSum(h, pairs) <=> \A p \in pairs : g[p] = h[p]
  BY <1>9, <1>10, SumGrows
<1>14. Worth = IteratedSum(k, pairs)
  BY <1>6 DEF Worth
<1>15. Promise!Size(x) = IteratedSum(h, pairs)
  BY <1>3, <1>5, <1>10, SizeIs
<1>16. IteratedSum(g, pairs) = IteratedSum(k, pairs)
  BY <1>8, <1>11, <1>12
<1>17. (\A p \in pairs : g[p] = h[p]) <=> \A p \in pairs : Fits(x, p)
  BY <1>9
<1>18. psi \in Feasible(Nodes(pairs), Room) <=> \A p \in pairs : Fits(x, p)
  BY <1>2, FeasibleFits
<1>. QED
  BY <1>2, <1>12, <1>13, <1>14, <1>15, <1>16, <1>17, <1>18

Closing(network, misclosure) == {c \in [network -> Int] : ClosesEveryLoop(c, misclosure)}

IsSmallest(network, misclosure, c) ==
  /\ c \in Closing(network, misclosure)
  /\ \A e \in Closing(network, misclosure) : Promise!Size(c) <= Promise!Size(e)

InBounds(network, misclosure) ==
  \A c : IsSmallest(network, misclosure, c) => c \in [network -> -Reach .. Reach]

(* A circulation without a negative cycle: what the solver ends with.                   *)
Solved(misclosure) ==
  /\ IsNetwork(pairs) /\ pairs # {} /\ HasFan(pairs)
  /\ costs \in [pairs -> Int] /\ flow \in [pairs -> -1 .. 1] /\ Balanced(flow)
  /\ NegativeCycle(Nodes(pairs), ResidualArcs) = {}
  /\ IsMisclosure(pairs, misclosure) /\ ClosesEveryLoop(costs, misclosure)

LEMMA ClosingAre ==
  ASSUME NEW misclosure, Solved(misclosure)
  PROVE  /\ \A psi \in Potentials(pairs) : MovedBy(pairs, costs, psi) \in Closing(pairs, misclosure)
         /\ \A c \in Closing(pairs, misclosure) :
              \E psi \in Potentials(pairs) : c = MovedBy(pairs, costs, psi)
         /\ Feasible(Nodes(pairs), Room) \subseteq Potentials(pairs)
         /\ \E psi : psi \in Feasible(Nodes(pairs), Room)
<1>. USE DEF Solved
<1>1. ASSUME NEW psi \in Potentials(pairs)
      PROVE  MovedBy(pairs, costs, psi) \in Closing(pairs, misclosure)
  <2>1. PICK x : x = MovedBy(pairs, costs, psi)
    OBVIOUS
  <2>2. psi \in [Nodes(pairs) -> Int]
    BY DEF Potentials
  <2>3. x \in [pairs -> Int] /\ \A t \in Triangles(pairs) : Misses(x, t) = Misses(costs, t)
    BY <2>1, <2>2, DifferencesClose
  <2>4. ClosesEveryLoop(x, misclosure)
    BY <2>3 DEF ClosesEveryLoop, IsMisclosure
  <2>. QED
    BY <2>1, <2>3, <2>4 DEF Closing
<1>2. ASSUME NEW c \in Closing(pairs, misclosure)
      PROVE  \E psi \in Potentials(pairs) : c = MovedBy(pairs, costs, psi)
  <2>1. c \in [pairs -> Int] /\ ClosesEveryLoop(c, misclosure)
    BY DEF Closing
  <2>2. FollowsFan(pairs, misclosure, c)
    BY <2>1, ClosingFollows
  <2>3. FollowsFan(pairs, misclosure, costs)
    BY ClosingFollows
  <2>4. \E psi : psi \in Potentials(pairs) /\ c = MovedBy(pairs, costs, psi)
    BY <2>2, <2>3, FollowersDiffer
  <2>. QED
    BY <2>4
<1>3. Feasible(Nodes(pairs), Room) \subseteq Potentials(pairs)
  BY DEF Feasible, Potentials
<1>4. \E psi : psi \in Feasible(Nodes(pairs), Room)
  <2>1. Greatest(Nodes(pairs), Room, Distances(Nodes(pairs), ResidualArcs))
    BY PotentialsAre
  <2>. QED
    BY <2>1 DEF Greatest
<1>. QED
  BY <1>1, <1>2, <1>3, <1>4

LEMMA MinIs ==
  ASSUME NEW S, NEW n, n \in S, \A k \in S : k \in Int /\ n <= k
  PROVE  Promise!Min(S) = n
<1>1. \A k \in S : (\A l \in S : k <= l) => k = n
  BY SMT
<1>2. \A l \in S : n <= l
  OBVIOUS
<1>. QED
  BY <1>1, <1>2 DEF Promise!Min

(* The smallest corrections are those of the potentials that no arc of the circulation    *)
(* shortens.                                                                *)
LEMMA SmallestAre ==
  ASSUME NEW misclosure, Solved(misclosure), InBounds(pairs, misclosure)
  PROVE  /\ Promise!Corrections(misclosure) # {}
         /\ \A c : c \in Promise!Smallest(Promise!Corrections(misclosure))
                     <=> \E psi \in Feasible(Nodes(pairs), Room) : c = MovedBy(pairs, costs, psi)
<1>1. PICK F, C, P : F = Feasible(Nodes(pairs), Room) /\ C = Closing(pairs, misclosure) /\ P = Potentials(pairs)
  OBVIOUS
<1>2. /\ \A psi \in P : MovedBy(pairs, costs, psi) \in C
      /\ \A c \in C : \E psi \in P : c = MovedBy(pairs, costs, psi)
      /\ F \subseteq P
      /\ \E psi : psi \in F
  BY <1>1, ClosingAre
<1>3. \A psi \in P :
        /\ Worth \in Int /\ Promise!Size(MovedBy(pairs, costs, psi)) \in Int
        /\ Worth <= Promise!Size(MovedBy(pairs, costs, psi))
        /\ Worth = Promise!Size(MovedBy(pairs, costs, psi)) <=> psi \in F
  BY <1>1, Duality DEF Solved
<1>4. ASSUME NEW c \in C
      PROVE  /\ Promise!Size(c) \in Int /\ Worth <= Promise!Size(c)
             /\ Promise!Size(c) = Worth <=> \E psi \in F : c = MovedBy(pairs, costs, psi)
  <2>1. PICK psi \in P : c = MovedBy(pairs, costs, psi)
    BY <1>2
  <2>2. Promise!Size(c) \in Int /\ Worth <= Promise!Size(c) /\ (Worth = Promise!Size(c) <=> psi \in F)
    BY <1>3, <2>1
  <2>3. ASSUME NEW phi \in F, c = MovedBy(pairs, costs, phi) PROVE Promise!Size(c) = Worth
    <3>1. phi \in P
      BY <1>2
    <3>. QED
      BY <1>3, <2>3, <3>1
  <2>. QED
    BY <2>1, <2>2, <2>3
<1>5. PICK best : best \in C /\ Promise!Size(best) = Worth
  <2>1. PICK psi : psi \in F /\ psi \in P
    BY <1>2
  <2>. QED
    BY <1>2, <1>3, <2>1
<1>6. \A c \in C : c \in [pairs -> Int] /\ Promise!ClosesEveryLoop(c, misclosure)
  BY <1>1 DEF Closing, ClosesEveryLoop, Promise!ClosesEveryLoop, Misses, Promise!Misses,
              Early, Late, Spanning, Promise!Early, Promise!Late, Promise!Spanning
<1>7. Promise!Corrections(misclosure) \subseteq C
  <2>1. ASSUME NEW c \in [pairs -> -Reach .. Reach], Promise!ClosesEveryLoop(c, misclosure) PROVE c \in C
    <3>1. c \in [pairs -> Int]
      BY ReachAssumption
    <3>2. ClosesEveryLoop(c, misclosure)
      BY <2>1 DEF ClosesEveryLoop, Promise!ClosesEveryLoop, Misses, Promise!Misses,
              Early, Late, Spanning, Promise!Early, Promise!Late, Promise!Spanning
    <3>. QED
      BY <1>1, <3>1, <3>2 DEF Closing
  <2>. QED
    BY <2>1 DEF Promise!Corrections
<1>8. ASSUME NEW c \in C, Promise!Size(c) = Worth PROVE c \in Promise!Corrections(misclosure)
  <2>1. \A e \in C : Promise!Size(c) <= Promise!Size(e)
    BY <1>4, <1>8
  <2>2. IsSmallest(pairs, misclosure, c)
    BY <1>1, <2>1 DEF IsSmallest
  <2>3. c \in [pairs -> -Reach .. Reach]
    BY <2>2 DEF InBounds
  <2>. QED
    BY <1>6, <2>3 DEF Promise!Corrections
<1>9. PICK A : A = Promise!Corrections(misclosure)
  OBVIOUS
<1>10. A \subseteq C /\ best \in A
  BY <1>5, <1>7, <1>8, <1>9
<1>11. PICK sizes : sizes = {Promise!Size(c) : c \in A}
  OBVIOUS
<1>12. Promise!Min(sizes) = Worth
  <2>1. Worth \in sizes
    BY <1>5, <1>10, <1>11
  <2>2. \A k \in sizes : k \in Int /\ Worth <= k
    BY <1>4, <1>10, <1>11
  <2>. QED
    BY <2>1, <2>2, MinIs
<1>13. \A c : c \in Promise!Smallest(A) <=> c \in A /\ Promise!Size(c) = Worth
  BY <1>11, <1>12 DEF Promise!Smallest
<1>14. \A c : c \in A /\ Promise!Size(c) = Worth <=> \E psi \in F : c = MovedBy(pairs, costs, psi)
  <2>1. ASSUME NEW c, c \in A, Promise!Size(c) = Worth PROVE \E psi \in F : c = MovedBy(pairs, costs, psi)
    BY <1>4, <1>10, <2>1
  <2>2. ASSUME NEW c, NEW psi \in F, c = MovedBy(pairs, costs, psi) PROVE c \in A /\ Promise!Size(c) = Worth
    <3>1. psi \in P
      BY <1>2
    <3>2. c \in C
      BY <1>2, <2>2, <3>1
    <3>3. Promise!Size(c) = Worth
      BY <1>3, <2>2, <3>1
    <3>. QED
      BY <1>8, <1>9, <3>2, <3>3
  <2>. QED
    BY <2>1, <2>2
<1>. QED
  BY <1>1, <1>9, <1>10, <1>13, <1>14

LEMMA PotentialsTold ==
  ASSUME IsNetwork(pairs), pairs # {}, HasFan(pairs), costs \in [pairs -> Int],
         NEW psi, psi \in Potentials(pairs), NEW phi, phi \in Potentials(pairs),
         MovedBy(pairs, costs, psi) = MovedBy(pairs, costs, phi)
  PROVE  psi = phi
<1>1. PICK m \in Nat \ {0} :
        /\ Nodes(pairs) = 0 .. m
        /\ \A p \in pairs : p[1] \in 0 .. m /\ p[2] \in 1 .. m
  BY NodesAre
<1>2. psi \in [0 .. m -> Int] /\ phi \in [0 .. m -> Int] /\ psi[0] = 0 /\ phi[0] = 0
  BY <1>1 DEF Potentials
<1>3. \A p \in pairs : costs[p] + psi[p[2]] - psi[p[1]] = costs[p] + phi[p[2]] - phi[p[1]]
  <2>1. PICK x, y : x = MovedBy(pairs, costs, psi) /\ y = MovedBy(pairs, costs, phi) /\ x = y
    OBVIOUS
  <2>2. \A p \in pairs : /\ x[p] = costs[p] + psi[p[2]] - psi[p[1]]
                         /\ y[p] = costs[p] + phi[p[2]] - phi[p[1]]
    BY <2>1 DEF MovedBy
  <2>. QED
    BY <2>1, <2>2
<1>. DEFINE X == {k \in 0 .. m : psi[k] = phi[k]}
<1>4. 0 \in X
  BY <1>2
<1>5. ASSUME NEW k \in 0 .. m - 1, k \in X PROVE k + 1 \in X
  <2>1. PICK n \in 1 .. m : n = k + 1 /\ n - 1 = k
    OBVIOUS
  <2>2. << n - 1, n >> \in pairs
    <3>1. n \in Nodes(pairs) \ {0}
      BY <1>1
    <3>. QED
      BY <3>1 DEF HasFan
  <2>3. PICK p \in pairs : p = << k, n >> /\ p[1] = k /\ p[2] = n
    BY <2>1, <2>2
  <2>4. PICK a \in Int, b \in Int, c \in Int, d \in Int :
          a = psi[k] /\ b = psi[n] /\ c = phi[n] /\ d = costs[p]
    <3>1. k \in 0 .. m /\ n \in 0 .. m
      BY <2>1
    <3>2. psi[k] \in Int /\ psi[n] \in Int /\ phi[n] \in Int /\ costs[p] \in Int
      BY <1>2, <3>1
    <3>. QED
      BY <3>2
  <2>5. phi[k] = a
    BY <1>5, <2>4
  <2>6. d + b - a = d + c - a
    BY <1>3, <2>3, <2>4, <2>5
  <2>7. b = c
    BY <2>6
  <2>8. psi[n] = phi[n]
    BY <2>4, <2>7
  <2>. QED
    BY <2>1, <2>8
<1>6. \A k \in 0 .. m : k \in X
  <2>. HIDE DEF X
  <2>. QED
    BY <1>4, <1>5, UpTo
<1>. QED
  BY <1>2, <1>6

(* The distances from both sides bound every potential: they meet where there is one.      *)
LEMMA BoundsTell ==
  ASSUME NEW misclosure, Solved(misclosure)
  PROVE  /\ Distances(Nodes(pairs), ResidualArcs) \in Feasible(Nodes(pairs), Room)
         /\ BoundsMeet(Nodes(pairs), ResidualArcs) =>
              \A psi \in Feasible(Nodes(pairs), Room) : psi = Distances(Nodes(pairs), ResidualArcs)
         /\ ~BoundsMeet(Nodes(pairs), ResidualArcs) =>
              \E psi \in Feasible(Nodes(pairs), Room) : psi # Distances(Nodes(pairs), ResidualArcs)
<1>. USE DEF Solved
<1>1. PICK nodes, A, arcs : nodes = Nodes(pairs) /\ A = Room /\ arcs = ResidualArcs
  OBVIOUS
<1>2. PICK upper, lower : upper = Distances(nodes, arcs) /\ lower = Distances(nodes, Turned(arcs))
  OBVIOUS
<1>3. Greatest(nodes, A, upper) /\ Greatest(nodes, TurnedAll(A), lower)
  BY <1>1, <1>2, PotentialsAre
<1>4. PICK m \in Nat \ {0} : nodes = 0 .. m
  BY <1>1, NodesAre
<1>5. Mirrored(nodes, A, arcs)
  <2>1. IsGraph(nodes, A) /\ AreArcs(A)
    BY <1>1, RoomIsGraph, RoomIsArcs DEF AreArcs
  <2>2. Lists(A, arcs)
    BY <1>1, ResidualArcsAre DEF Lists
  <2>. QED
    BY <1>4, <2>1, <2>2, TurnedIs
<1>6. /\ upper \in Feasible(nodes, A) /\ upper \in [nodes -> Int]
      /\ \A psi \in Feasible(nodes, A) : psi \in [nodes -> Int] /\ \A v \in nodes : psi[v] <= upper[v]
  BY <1>3 DEF Greatest, Feasible
<1>7. /\ lower \in Feasible(nodes, TurnedAll(A)) /\ lower \in [nodes -> Int]
      /\ \A psi \in Feasible(nodes, TurnedAll(A)) : \A v \in nodes : psi[v] <= lower[v]
  BY <1>3 DEF Greatest, Feasible
<1>8. BoundsMeet(nodes, arcs) <=> \A v \in nodes : upper[v] + lower[v] = 0
  <2>1. \A v \in nodes : upper[v] # Unset /\ lower[v] # Unset
    BY <1>6, <1>7, UnsetAssumption
  <2>. QED
    BY <1>2, <2>1 DEF BoundsMeet
<1>9. ASSUME BoundsMeet(nodes, arcs), NEW psi \in Feasible(nodes, A) PROVE psi = upper
  <2>1. Negative(nodes, psi) \in Feasible(nodes, TurnedAll(A))
    BY <1>5 DEF Mirrored
  <2>2. \A v \in nodes : -psi[v] <= lower[v]
    <3>1. PICK d : d = Negative(nodes, psi)
      OBVIOUS
    <3>2. \A v \in nodes : d[v] <= lower[v] /\ d[v] = -psi[v]
      BY <1>7, <2>1, <3>1 DEF Negative
    <3>. QED
      BY <3>2
  <2>3. \A v \in nodes : psi[v] = upper[v]
    <3>1. TAKE v \in nodes
    <3>2. PICK a \in Int, b \in Int, c \in Int : a = psi[v] /\ b = upper[v] /\ c = lower[v]
      BY <1>6, <1>7
    <3>3. a <= b /\ -a <= c /\ b + c = 0
      BY <1>6, <1>8, <1>9, <2>2, <3>2
    <3>4. a = b
      BY <3>3
    <3>. QED
      BY <3>2, <3>4
  <2>4. psi \in [nodes -> Int]
    BY <1>6
  <2>. QED
    BY <1>6, <2>3, <2>4
<1>10. ASSUME ~BoundsMeet(nodes, arcs) PROVE \E psi \in Feasible(nodes, A) : psi # upper
  <2>1. PICK v \in nodes : upper[v] + lower[v] # 0
    BY <1>8, <1>10
  <2>2. Negative(nodes, lower) \in Feasible(nodes, A)
    BY <1>5, <1>7 DEF Mirrored
  <2>3. PICK d : d = Negative(nodes, lower)
    OBVIOUS
  <2>4. d[v] = -lower[v]
    BY <2>3 DEF Negative
  <2>5. PICK b \in Int, c \in Int : b = upper[v] /\ c = lower[v]
    BY <1>6, <1>7
  <2>6. b # -c
    BY <2>1, <2>5
  <2>7. d # upper
    BY <2>4, <2>5, <2>6
  <2>. QED
    BY <2>2, <2>3, <2>7
<1>. QED
  BY <1>1, <1>2, <1>6, <1>9, <1>10

LEMMA FinitelyMany ==
  ASSUME NEW S, IsFiniteSet(S), NEW T, IsFiniteSet(T)
  PROVE  IsFiniteSet([S -> T])
<1>. DEFINE graph == [c \in [S -> T] |-> {<< x, c[x] >> : x \in S}]
<1>1. IsFiniteSet(SUBSET (S \X T))
  BY FS_Product, FS_SUBSET
<1>2. graph \in [[S -> T] -> SUBSET (S \X T)]
  OBVIOUS
<1>3. ASSUME NEW c \in [S -> T], NEW d \in [S -> T], graph[c] = graph[d] PROVE c = d
  <2>1. ASSUME NEW x \in S PROVE c[x] = d[x]
    <3>1. << x, c[x] >> \in graph[c]
      OBVIOUS
    <3>2. << x, c[x] >> \in graph[d]
      BY <1>3, <3>1
    <3>3. PICK y \in S : << x, c[x] >> = << y, d[y] >>
      BY <3>2
    <3>. QED
      BY <3>3
  <2>. QED
    BY <2>1
<1>4. graph \in Injection([S -> T], SUBSET (S \X T))
  <2>. HIDE DEF graph
  <2>. QED
    BY <1>2, <1>3 DEF Injection, IsInjective
<1>. QED
  <2>. HIDE DEF graph
  <2>. QED
    BY <1>1, <1>4, FS_Injection

(* What the solver ends with is what is promised.                                     *)
LEMMA SolvedIsPromised ==
  ASSUME NEW problem, problem.error = "none", Solved(problem.misclosure),
         InBounds(pairs, problem.misclosure),
         \E t \in DOMAIN problem.misclosure : problem.misclosure[t] # 0
  PROVE  Promise!Promised(problem) =
           IF BoundsMeet(Nodes(pairs), ResidualArcs)
           THEN [status |-> "corrected",
                 cycles |-> MovedBy(pairs, costs, Distances(Nodes(pairs), ResidualArcs))]
           ELSE [status |-> "ambiguous", cycles |-> Still]
<1>1. PICK misclosure, F, upper :
        /\ misclosure = problem.misclosure /\ F = Feasible(Nodes(pairs), Room)
        /\ upper = Distances(Nodes(pairs), ResidualArcs)
  OBVIOUS
<1>2. PICK corrections, smallest :
        corrections = Promise!Corrections(misclosure) /\ smallest = Promise!Smallest(corrections)
  OBVIOUS
<1>3. /\ corrections # {}
      /\ \A c : c \in smallest <=> \E psi \in F : c = MovedBy(pairs, costs, psi)
  BY <1>1, <1>2, SmallestAre
<1>4. /\ upper \in F
      /\ BoundsMeet(Nodes(pairs), ResidualArcs) => \A psi \in F : psi = upper
      /\ ~BoundsMeet(Nodes(pairs), ResidualArcs) => \E psi \in F : psi # upper
  BY <1>1, BoundsTell
<1>5. PICK best : best = MovedBy(pairs, costs, upper) /\ best \in smallest
  BY <1>3, <1>4
<1>6. IsFiniteSet(smallest)
  <2>1. IsFiniteSet(pairs) /\ IsFiniteSet(-Reach .. Reach)
    BY ReachAssumption, FS_Interval DEF Solved, IsNetwork
  <2>2. PICK S : S = [pairs -> -Reach .. Reach]
    OBVIOUS
  <2>3. IsFiniteSet(S)
    BY <2>1, <2>2, FinitelyMany
  <2>4. smallest \in SUBSET S
    BY <1>2, <2>2 DEF Promise!Smallest, Promise!Corrections
  <2>. QED
    BY <2>3, <2>4, FS_Subset
<1>7. Promise!Promised(problem) =
        IF Cardinality(smallest) > 1 THEN [status |-> "ambiguous", cycles |-> Still]
        ELSE [status |-> "corrected", cycles |-> CHOOSE c \in smallest : TRUE]
  <2>1. problem.error = "none" /\ ~(\A t \in DOMAIN problem.misclosure : problem.misclosure[t] = 0)
    OBVIOUS
  <2>2. Promise!Promised(problem) =
          IF Promise!Corrections(problem.misclosure) = {} THEN Promise!LeftAlone("inconsistent")
          ELSE IF Cardinality(Promise!Smallest(Promise!Corrections(problem.misclosure))) > 1
               THEN Promise!LeftAlone("ambiguous")
          ELSE [status |-> "corrected",
                cycles |-> CHOOSE c \in Promise!Smallest(Promise!Corrections(problem.misclosure)) : TRUE]
    <3>1. \A S : Promise!Cardinality(S) = Cardinality(S)
      BY DEF Promise!Cardinality, Cardinality
    <3>. QED
      BY <2>1, <3>1 DEF Promise!Promised
  <2>3. Promise!LeftAlone("ambiguous") = [status |-> "ambiguous", cycles |-> Still]
    BY DEF Promise!LeftAlone, Still
  <2>. QED
    BY <1>1, <1>2, <1>3, <2>2, <2>3
<1>8. CASE BoundsMeet(Nodes(pairs), ResidualArcs)
  <2>1. smallest = {best}
    <3>1. \A c \in smallest : c = best
      BY <1>3, <1>4, <1>5, <1>8
    <3>. QED
      BY <1>5, <3>1
  <2>2. Cardinality(smallest) = 1
    BY <2>1, FS_Singleton
  <2>3. (CHOOSE c \in smallest : TRUE) = best
    BY <2>1
  <2>4. PICK chosen : chosen = (CHOOSE c \in smallest : TRUE)
    OBVIOUS
  <2>5. Promise!Promised(problem) = [status |-> "corrected", cycles |-> chosen]
    BY <1>7, <2>2, <2>4
  <2>6. chosen = MovedBy(pairs, costs, Distances(Nodes(pairs), ResidualArcs))
    BY <1>1, <1>5, <2>3, <2>4
  <2>. QED
    BY <1>8, <2>5, <2>6
<1>9. CASE ~BoundsMeet(Nodes(pairs), ResidualArcs)
  <2>1. PICK psi \in F : psi # upper
    BY <1>4, <1>9
  <2>2. PICK other : other = MovedBy(pairs, costs, psi) /\ other \in smallest
    BY <1>3, <2>1
  <2>3. psi \in Potentials(pairs) /\ upper \in Potentials(pairs)
    BY <1>1, <1>4, <2>1, ClosingAre
  <2>4. other # best
    BY <1>5, <2>1, <2>2, <2>3, PotentialsTold DEF Solved
  <2>5. Cardinality(smallest) \in Nat
    BY <1>6, FS_CardinalityType
  <2>6. Cardinality(smallest) # 0
    BY <1>5, <1>6, FS_EmptySet
  <2>7. Cardinality(smallest) # 1
    <3>1. Cardinality(smallest) = 1 => \E x : smallest = {x}
      BY <1>6, FS_Singleton
    <3>2. \A x : smallest # {x}
      BY <1>5, <2>2, <2>4
    <3>. QED
      BY <3>1, <3>2
  <2>8. Cardinality(smallest) > 1
    BY <2>5, <2>6, <2>7
  <2>. QED
    BY <1>7, <1>9, <2>8
<1>. QED
  BY <1>8, <1>9

(* Where the particular correction does not close, nothing does.                        *)
LEMMA ParticularCloses ==
  ASSUME NEW network, IsNetwork(network), network # {}, HasFan(network),
         NEW misclosure, IsMisclosure(network, misclosure),
         NEW c, c \in [network -> Int], ClosesEveryLoop(c, misclosure)
  PROVE  Particular(network, misclosure) \in Closing(network, misclosure)
<1>1. PICK e : e = Particular(network, misclosure)
  OBVIOUS
<1>2. FollowsFan(network, misclosure, e) /\ FollowsFan(network, misclosure, c)
  BY <1>1, ParticularFollows, ClosingFollows
<1>3. PICK psi : psi \in Potentials(network) /\ e = MovedBy(network, c, psi)
  BY <1>2, FollowersDiffer
<1>4. psi \in [Nodes(network) -> Int]
  BY <1>3 DEF Potentials
<1>5. \A t \in Triangles(network) : Misses(e, t) = Misses(c, t)
  BY <1>3, <1>4, DifferencesClose
<1>6. ClosesEveryLoop(e, misclosure)
  BY <1>5 DEF ClosesEveryLoop, IsMisclosure
<1>. QED
  BY <1>1, <1>2, <1>6 DEF Closing, FollowsFan

LEMMA NothingCloses ==
  ASSUME IsNetwork(pairs), pairs # {}, HasFan(pairs), NEW misclosure, IsMisclosure(pairs, misclosure),
         ~ClosesEveryLoop(Particular(pairs, misclosure), misclosure)
  PROVE  Promise!Corrections(misclosure) = {}
<1>1. ASSUME NEW c, c \in [pairs -> -Reach .. Reach], Promise!ClosesEveryLoop(c, misclosure)
      PROVE  FALSE
  <2>1. c \in [pairs -> Int]
    BY <1>1, ReachAssumption
  <2>2. ClosesEveryLoop(c, misclosure)
    BY <1>1 DEF ClosesEveryLoop, Promise!ClosesEveryLoop, Misses, Promise!Misses,
                Early, Late, Spanning, Promise!Early, Promise!Late, Promise!Spanning
  <2>. QED
    BY <2>1, <2>2, ParticularCloses DEF Closing
<1>. QED
  BY <1>1 DEF Promise!Corrections

(* Reach is what it is said to be: no smallest correction adds more cycles to a pair.      *)
ReachSuffices ==
  \A r \in Runs : \A i \in 1 .. Len(r.stack) :
    LET network == Network(r.days, r.net)
        problem == Problem(network, r.stack, r.stack[i])
    IN  network # {} /\ HasFan(network) /\ problem.error = "none" =>
          InBounds(network, problem.misclosure)

(* No smallest correction moves a pair by more than the particular one moves them all.     *)
LEMMA SmallestAreBounded ==
  ASSUME NEW network, IsNetwork(network), network # {}, HasFan(network),
         NEW misclosure, IsMisclosure(network, misclosure),
         Promise!Size(Particular(network, misclosure)) <= Reach
  PROVE  InBounds(network, misclosure)
<1>1. SUFFICES ASSUME NEW c, IsSmallest(network, misclosure, c), NEW p \in network
               PROVE  c[p] \in -Reach .. Reach
  <2>1. SUFFICES ASSUME NEW c, IsSmallest(network, misclosure, c)
                 PROVE  c \in [network -> -Reach .. Reach]
    BY DEF InBounds
  <2>2. c \in [network -> Int]
    BY <2>1 DEF IsSmallest, Closing
  <2>3. \A p \in network : c[p] \in -Reach .. Reach
    BY <1>1, <2>1
  <2>. QED
    BY <2>2, <2>3
<1>2. c \in [network -> Int] /\ ClosesEveryLoop(c, misclosure) /\ IsFiniteSet(network)
  BY <1>1 DEF IsSmallest, Closing, IsNetwork
<1>3. Promise!Size(c) <= Promise!Size(Particular(network, misclosure))
  BY <1>1, <1>2, ParticularCloses DEF IsSmallest
<1>4. PICK e : e = Particular(network, misclosure) /\ e \in [network -> Int]
  BY <1>2, ParticularCloses DEF Closing
<1>5. PICK h, k : /\ h = [x \in network |-> Magnitude(c[x])] /\ k = [x \in network |-> Magnitude(e[x])]
                  /\ \A x \in network : h[x] \in Nat /\ k[x] \in Nat
  <2>1. \A i \in Int : Magnitude(i) \in Nat
    BY DEF Magnitude
  <2>2. PICK h, k : h = [x \in network |-> Magnitude(c[x])] /\ k = [x \in network |-> Magnitude(e[x])]
    OBVIOUS
  <2>3. ASSUME NEW x \in network PROVE h[x] \in Nat /\ k[x] \in Nat
    <3>1. h[x] = Magnitude(c[x]) /\ k[x] = Magnitude(e[x]) /\ c[x] \in Int /\ e[x] \in Int
      BY <1>2, <1>4, <2>2
    <3>. QED
      BY <2>1, <3>1
  <2>. QED
    BY <2>2, <2>3
<1>6. PICK m \in Int, n \in Int :
        /\ m = IteratedSum(h, network) /\ n = IteratedSum(k, network)
        /\ Promise!Size(c) = m /\ Promise!Size(e) = n
  <2>1. IteratedSum(h, network) \in Int /\ IteratedSum(k, network) \in Int
    BY <1>2, <1>5, SumIsInteger
  <2>. QED
    BY <1>2, <1>4, <1>5, <2>1, SizeIs
<1>7. h[p] <= m
  <2>1. PICK g : g = [x \in network |-> IF x = p THEN h[p] ELSE 0]
    OBVIOUS
  <2>2. \A x \in network : g[x] \in Int /\ h[x] \in Int /\ g[x] <= h[x]
    BY <1>5, <2>1
  <2>3. IteratedSum(g, network) <= IteratedSum(h, network)
    BY <1>2, <2>2, SumGrows
  <2>4. IteratedSum(g, network) = IteratedSum(g, {p})
    <3>1. PICK T, to : T = {p} /\ to = [x \in T |-> x]
      OBVIOUS
    <3>2. IsFiniteSet(T)
      BY <3>1, FS_Singleton
    <3>3. /\ \A y \in T : to[y] \in network /\ g[y] = g[to[y]]
          /\ \A x, y \in T : to[x] = to[y] => x = y
          /\ \A x \in network : (\A y \in T : to[y] # x) => g[x] = 0
      BY <2>1, <3>1
    <3>4. \A x \in network : g[x] \in Int
      BY <2>2
    <3>5. IteratedSum(g, network) = IteratedSum(g, T)
      BY <1>2, <3>2, <3>3, <3>4, SumOverImage
    <3>. QED
      BY <3>1, <3>5
  <2>5. IteratedSum(g, {p}) = h[p]
    BY <2>1, <2>2, SumOfOne
  <2>. QED
    BY <1>6, <2>3, <2>4, <2>5
<1>8. PICK a \in Int, b \in Int : a = c[p] /\ b = h[p]
  BY <1>2, <1>5
<1>9. b = (IF a < 0 THEN -a ELSE a) /\ b <= m /\ m <= n /\ n <= Reach /\ Reach \in Nat
  BY <1>3, <1>4, <1>5, <1>6, <1>7, <1>8, ReachAssumption DEF Magnitude
<1>10. a \in -Reach .. Reach
  BY <1>9
<1>. QED
  BY <1>8, <1>10

(* So there is such a Reach.                                                       *)
LEMMA EnoughReach ==
  ASSUME \A r \in Runs : \A i \in 1 .. Len(r.stack) :
           LET network == Network(r.days, r.net)
               problem == Problem(network, r.stack, r.stack[i])
           IN  network # {} /\ HasFan(network) /\ problem.error = "none" =>
                 Promise!Size(Particular(network, problem.misclosure)) <= Reach
  PROVE  ReachSuffices
<1>1. SUFFICES ASSUME NEW r \in Runs, NEW i \in 1 .. Len(r.stack),
                      NEW network, network = Network(r.days, r.net),
                      NEW problem, problem = Problem(network, r.stack, r.stack[i]),
                      network # {}, HasFan(network), problem.error = "none"
               PROVE  InBounds(network, problem.misclosure)
  BY DEF ReachSuffices
<1>2. PICK frame, n : frame = r.stack /\ n = Len(r.stack) /\ n \in Nat /\ i \in 1 .. n
  BY <1>1, StackType
<1>3. DOMAIN frame = 1 .. n /\ \A k \in 1 .. n : IsPixel(network, frame[k])
  BY <1>1, <1>2, StackType
<1>4. IsNetwork(network)
  BY <1>1, NetworkIsNetwork
<1>5. IsMisclosure(network, problem.misclosure)
  BY <1>1, <1>2, <1>3, <1>4, ProblemIs DEF IsMisclosure
<1>6. Promise!Size(Particular(network, problem.misclosure)) <= Reach
  BY <1>1
<1>. QED
  BY <1>1, <1>4, <1>5, <1>6, SmallestAreBounded

LEMMA LengthOf ==
  ASSUME NEW n \in Nat, NEW f, f = [i \in 1 .. n |-> f[i]]
  PROVE  Len(f) = n
<1>1. PICK S : S = {f[i] : i \in 1 .. n}
  OBVIOUS
<1>2. \A i \in 1 .. n : f[i] \in S
  BY <1>1
<1>3. f \in [1 .. n -> S]
  BY <1>2
<1>4. f \in Seq(S)
  BY <1>3
<1>5. PICK k \in Nat : k = Len(f) /\ DOMAIN f = 1 .. k
  BY <1>4, LenProperties
<1>6. 1 .. k = 1 .. n
  <2>1. DOMAIN f = 1 .. n
    BY <1>3
  <2>. QED
    BY <1>5, <2>1
<1>7. k = n
  <2>1. k <= n
    <3>1. CASE k = 0
      BY <3>1
    <3>2. CASE k # 0
      <4>1. k \in 1 .. k
        BY <3>2
      <4>. QED
        BY <1>6, <4>1
    <3>. QED
      BY <3>1, <3>2
  <2>2. n <= k
    <3>1. CASE n = 0
      BY <3>1
    <3>2. CASE n # 0
      <4>1. n \in 1 .. n
        BY <3>2
      <4>. QED
        BY <1>6, <4>1
    <3>. QED
      BY <3>1, <3>2
  <2>. QED
    BY <2>1, <2>2
<1>. QED
  BY <1>5, <1>7

(* To settle a pixel as is promised is to decide it.                                  *)
LEMMA SettlingDecides ==
  ASSUME LoopInv, Judging, NEW status, NEW cycles, Settled(status, cycles),
         Promise!Promised(Problem(pairs, run.stack, run.stack[Len(outcomes) + 1]))
           = [status |-> status, cycles |-> cycles]
  PROVE  Promise!Decide
<1>1. PICK n \in Nat, k \in Nat :
        n = Len(run.stack) /\ k = Len(outcomes) /\ DOMAIN run.stack = 1 .. n /\ k < n /\ k + 1 \in 1 .. n
  BY InHand, StackOfRun
<1>2. PICK problems :
        problems = [i \in DOMAIN run.stack |-> Problem(pairs, run.stack, run.stack[i])]
  OBVIOUS
<1>3. Len(problems) = n /\ problems[k + 1] = Problem(pairs, run.stack, run.stack[k + 1])
  <2>1. problems = [i \in 1 .. n |-> problems[i]]
    BY <1>1, <1>2
  <2>2. Len(problems) = n
    BY <2>1, LengthOf
  <2>. QED
    BY <1>1, <1>2, <2>2
<1>4. PICK o : /\ o = [status |-> status, cycles |-> cycles]
               /\ o = Promise!Promised(problems[k + 1]) /\ outcomes' = Append(outcomes, o)
  BY <1>1, <1>3 DEF Settled
<1>5. Len(outcomes') = k + 1
  <2>1. PICK S, T : S = Outcome /\ T = S \cup {o}
    OBVIOUS
  <2>2. outcomes \in Seq(S)
    BY <2>1 DEF LoopInv, KnowsOutcomes
  <2>3. PICK s : s = outcomes /\ s \in Seq(T) /\ o \in T
    BY <2>1, <2>2
  <2>. QED
    BY <1>1, <1>4, <2>3, AppendProperties
<1>. QED
  BY <1>1, <1>2, <1>3, <1>4, <1>5 DEF Promise!Decide

LEMMA StepDecides == ReachSuffices /\ LoopInv /\ [Next]_vars => [Promise!Decide]_outcomes
<1>1. SUFFICES ASSUME ReachSuffices, LoopInv, CorrectPixel \/ ReadPotentials, outcomes' # outcomes
               PROVE  Promise!Decide
  BY DEF Next, vars, MakeNetwork, Cancel, ApplyCorrections, Gate
<1>2. Judging
  BY <1>1 DEF CorrectPixel, ReadPotentials
<1>3. /\ stack = run.stack /\ Pixel = Len(outcomes) + 1
      /\ pairs # {} /\ HasFan(pairs) /\ IsNetwork(pairs)
      /\ Len(outcomes) + 1 \in 1 .. Len(run.stack)
  BY <1>1, <1>2, InHand
<1>4. PICK problem : problem = Problem(pairs, run.stack, run.stack[Len(outcomes) + 1])
  OBVIOUS
<1>5. problem.error = "none" => IsMisclosure(pairs, problem.misclosure)
  <2>1. PICK frame, n, i :
          /\ frame = run.stack /\ n = Len(run.stack) /\ i = Len(outcomes) + 1
          /\ n \in Nat /\ i \in 1 .. n
    BY <1>1, <1>2, InHand
  <2>2. DOMAIN frame = 1 .. n /\ \A k \in 1 .. n : IsPixel(pairs, frame[k])
    BY <1>1, <1>2, <2>1, InHand
  <2>. QED
    BY <1>3, <1>4, <2>1, <2>2, ProblemIs DEF IsMisclosure
<1>6. problem.error = "none" => InBounds(pairs, problem.misclosure)
  <2>1. run \in Runs /\ pairs = Network(run.days, run.net)
    BY <1>1, <1>2 DEF LoopInv, KnowsNetwork, Judging
  <2>. QED
    BY <1>1, <1>3, <1>4, <2>1 DEF ReachSuffices
<1>7. CASE CorrectPixel
  <2>1. \/ problem.error # "none" /\ Settled(problem.error, Still)
        \/ /\ problem.error = "none" /\ ~AnyOff(problem.misclosure)
           /\ Settled("closed", Still)
        \/ /\ problem.error = "none" /\ AnyOff(problem.misclosure)
           /\ ~ClosesEveryLoop(Particular(pairs, problem.misclosure), problem.misclosure)
           /\ Settled("inconsistent", Still)
    BY <1>1, <1>3, <1>4, <1>7 DEF CorrectPixel, AnyOff
  <2>2. \A status : Promise!LeftAlone(status) = [status |-> status, cycles |-> Still]
    BY DEF Promise!LeftAlone, Still
  <2>3. CASE problem.error # "none" /\ Settled(problem.error, Still)
    <3>1. Promise!Promised(problem) = [status |-> problem.error, cycles |-> Still]
      BY <2>2, <2>3 DEF Promise!Promised
    <3>. QED
      BY <1>1, <1>2, <1>4, <2>3, <3>1, SettlingDecides
  <2>4. CASE /\ problem.error = "none" /\ ~AnyOff(problem.misclosure)
             /\ Settled("closed", Still)
    <3>1. Promise!Promised(problem) = [status |-> "closed", cycles |-> Still]
      BY <2>2, <2>4 DEF Promise!Promised, AnyOff
    <3>. QED
      BY <1>1, <1>2, <1>4, <2>4, <3>1, SettlingDecides
  <2>5. CASE /\ problem.error = "none" /\ AnyOff(problem.misclosure)
             /\ ~ClosesEveryLoop(Particular(pairs, problem.misclosure), problem.misclosure)
             /\ Settled("inconsistent", Still)
    <3>1. Promise!Corrections(problem.misclosure) = {}
      <4>1. PICK misclosure : misclosure = problem.misclosure
        OBVIOUS
      <4>. QED
        BY <1>3, <1>5, <2>5, <4>1, NothingCloses
    <3>2. Promise!Promised(problem) = [status |-> "inconsistent", cycles |-> Still]
      BY <2>2, <2>5, <3>1 DEF Promise!Promised, AnyOff
    <3>. QED
      BY <1>1, <1>2, <1>4, <2>5, <3>2, SettlingDecides
  <2>. QED
    BY <2>1, <2>3, <2>4, <2>5
<1>8. CASE ReadPotentials
  <2>1. Solving
    BY <1>8 DEF ReadPotentials
  <2>2. PICK psi :
          /\ NegativeCycle(Nodes(pairs), ResidualArcs) = {}
          /\ psi = Distances(Nodes(pairs), ResidualArcs)
          /\ \/ ~BoundsMeet(Nodes(pairs), ResidualArcs) /\ Settled("ambiguous", Still)
             \/ /\ BoundsMeet(Nodes(pairs), ResidualArcs)
                /\ Settled("corrected", MovedBy(pairs, costs, psi))
    BY <1>8 DEF ReadPotentials, MovedBy
  <2>3. /\ costs \in [pairs -> Int] /\ flow \in [pairs -> -1 .. 1] /\ Balanced(flow)
        /\ problem.error = "none" /\ AnyOff(problem.misclosure)
        /\ ClosesEveryLoop(costs, problem.misclosure)
    BY <1>1, <1>2, <1>4, <2>1, InSolving
  <2>4. Solved(problem.misclosure)
    BY <1>3, <1>5, <2>2, <2>3 DEF Solved
  <2>5. Promise!Promised(problem) =
          IF BoundsMeet(Nodes(pairs), ResidualArcs)
          THEN [status |-> "corrected",
                cycles |-> MovedBy(pairs, costs, Distances(Nodes(pairs), ResidualArcs))]
          ELSE [status |-> "ambiguous", cycles |-> Still]
    <3>1. \E t \in DOMAIN problem.misclosure : problem.misclosure[t] # 0
      BY <2>3 DEF AnyOff
    <3>. QED
      BY <1>6, <2>3, <2>4, <3>1, SolvedIsPromised
  <2>6. CASE ~BoundsMeet(Nodes(pairs), ResidualArcs) /\ Settled("ambiguous", Still)
    BY <1>1, <1>2, <1>4, <2>5, <2>6, SettlingDecides
  <2>7. CASE /\ BoundsMeet(Nodes(pairs), ResidualArcs)
             /\ Settled("corrected", MovedBy(pairs, costs, psi))
    <3>1. PICK moved : moved = MovedBy(pairs, costs, psi)
      OBVIOUS
    <3>2. Promise!Promised(problem) = [status |-> "corrected", cycles |-> moved]
      BY <2>2, <2>5, <2>7, <3>1
    <3>3. Settled("corrected", moved)
      BY <2>7, <3>1
    <3>. QED
      BY <1>1, <1>2, <1>4, <3>2, <3>3, SettlingDecides
  <2>. QED
    BY <2>2, <2>6, <2>7
<1>. QED
  BY <1>1, <1>7, <1>8

(* Cancelling cycles gives each pixel what SmallestCorrection promises: the one smallest   *)
(* correction, or none with the reason (minimal_correction), however large the network.  *)
THEOREM PixelsGetWhatIsPromised ==
  ASSUME ReachSuffices
  PROVE  Spec => NeverGuesses
<1>1. Init => Promise!Init
  BY DEF Init, Promise!Init
<1>2. LoopInv /\ [Next]_vars => [Promise!Decide]_outcomes
  BY StepDecides
<1>. QED
  BY <1>1, <1>2, LoopInvariant, PTL DEF Spec, NeverGuesses, Promise!Spec
===============================================================================
