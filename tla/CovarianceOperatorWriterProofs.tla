-------------------- MODULE CovarianceOperatorWriterProofs --------------------
(***************************************************************************)
(* Every plan, registry and sequence of calls: what a revision of a covariance  *)
(* operator keeps of its parent; that a file marked complete holds the plan,    *)
(* its sources seen alike wherever tiles meet and its nodes all different; and  *)
(* that no honest capture is refused.                                          *)
(***************************************************************************)
EXTENDS CovarianceOperatorWriter, FiniteSetsExt, FiniteSetTheorems, WellFoundedInduction, TLAPS
-------------------------------------------------------------------------------
(* Finite data.  The theorems of the library take the predicate or the equation as *)
(* an operator; here they are sets and functions, which the provers instantiate.   *)

(* The element of a set that a fold takes next.                                 *)
AnyOf(s) == CHOOSE x \in s : TRUE

(* A set of naturals has a least member.                                        *)
LEMMA LeastNatural ==
  ASSUME NEW S \in SUBSET Nat, S # {}
  PROVE  \E m \in S : \A n \in S : m <= n
<1>1. IsWellFoundedOn(OpToRel(<, Nat), Nat)
  BY NatLessThanWellFounded
<1>2. PICK m \in S : \A n \in S : ~ (<< n, m >> \in OpToRel(<, Nat))
  BY <1>1, WFMin
<1>3. \A n \in S : ~ (n < m)
  BY <1>2 DEF OpToRel
<1>4. QED
  BY <1>3

(* Min finds it.                                                                *)
LEMMA MinIsLeast ==
  ASSUME NEW S \in SUBSET Nat, S # {}
  PROVE  Min(S) \in S /\ \A n \in S : Min(S) <= n
  BY LeastNatural DEF Min

(* The image of a finite set is finite.                                          *)
LEMMA ImageIsFinite ==
  ASSUME NEW S, IsFiniteSet(S), NEW f
  PROVE  IsFiniteSet({f[x] : x \in S})
<1>. DEFINE T == {f[x] : x \in S}
            h == [x \in S |-> f[x]]
<1>1. h \in Surjection(S, T)
  BY DEF Surjection
<1>. HIDE DEF T, h
<1>2. IsFiniteSet(T)
  BY <1>1, FS_Surjection
<1>. QED
  BY <1>2 DEF T

(* What holds of the empty set, and of a set whenever it holds of all but one       *)
(* element, holds of every subset of a finite set.                            *)
LEMMA SubsetInduction ==
  ASSUME NEW S, IsFiniteSet(S), NEW X, {} \in X,
         \A s \in SUBSET S : s # {} /\ s \ {AnyOf(s)} \in X => s \in X
  PROVE  \A s \in SUBSET S : s \in X
<1>. DEFINE bad == {s \in SUBSET S : s \notin X}
            sizes == {Cardinality(s) : s \in bad}
<1>1. \A s \in SUBSET S : IsFiniteSet(s) /\ Cardinality(s) \in Nat
  BY FS_Subset, FS_CardinalityType
<1>2. SUFFICES ASSUME bad # {} PROVE FALSE
  OBVIOUS
<1>3. sizes \in SUBSET Nat /\ sizes # {}
  BY <1>1, <1>2
<1>4. PICK m \in sizes : \A n \in sizes : m <= n
  BY <1>3, LeastNatural
<1>5. PICK s \in bad : Cardinality(s) = m
  BY <1>4
<1>6. s # {} /\ s \in SUBSET S
  BY <1>5
<1>. DEFINE c == AnyOf(s)
            r == s \ {c}
<1>7. c \in s
  BY <1>6 DEF AnyOf
<1>8. Cardinality(r) = Cardinality(s) - 1 /\ r \in SUBSET S
  BY <1>1, <1>6, <1>7, FS_RemoveElement
<1>9. Cardinality(r) < m /\ Cardinality(r) \in Nat
  <2>. HIDE DEF r, sizes, bad, c
  <2>. QED
    BY <1>1, <1>3, <1>4, <1>5, <1>6, <1>8
<1>10. r \notin bad
  <2>. HIDE DEF r
  <2>. QED
    BY <1>3, <1>4, <1>9
<1>11. QED
  BY <1>5, <1>6, <1>8, <1>10

(* A part of a finite set is finite, and smaller unless it is all of it.              *)
LEMMA PartIsSmaller ==
  ASSUME NEW S, IsFiniteSet(S), NEW T \in SUBSET S
  PROVE  /\ IsFiniteSet(T) /\ Cardinality(T) \in Nat /\ Cardinality(S) \in Nat
         /\ Cardinality(T) <= Cardinality(S)
         /\ T # S => Cardinality(T) < Cardinality(S)
<1>1. IsFiniteSet(T) /\ Cardinality(T) <= Cardinality(S) /\ (Cardinality(S) = Cardinality(T) => S = T)
  BY FS_Subset
<1>2. Cardinality(T) \in Nat /\ Cardinality(S) \in Nat
  BY <1>1, FS_CardinalityType
<1>3. QED
  BY <1>1, <1>2

(* A function on the subsets of a set, each value made from that of the set without  *)
(* one element, exists if the set is finite.                                   *)
Iterates(f, S, base, step) ==
  /\ f[{}] = base
  /\ \A s \in SUBSET S : s # {} => f[s] = step[<< s, f[s \ {AnyOf(s)}] >>]

LEMMA FiniteRecursion ==
  ASSUME NEW S, IsFiniteSet(S), NEW T, NEW base \in T, NEW step \in [(SUBSET S) \X T -> T]
  PROVE  \E f \in [SUBSET S -> T] : Iterates(f, S, base, step)
<1>. DEFINE Rest(s) == s \ {AnyOf(s)}
            E == (SUBSET S) \X T
            Closed(R) == /\ << {}, base >> \in R
                         /\ \A s \in SUBSET S : \A t \in T :
                              s # {} /\ << Rest(s), t >> \in R => << s, step[<< s, t >>] >> \in R
            G == {e \in E : \A R \in SUBSET E : Closed(R) => e \in R}
            Single == {s \in SUBSET S : \E t \in T : << s, t >> \in G
                                          /\ \A u \in T : << s, u >> \in G => u = t}
<1>1. \A s \in SUBSET S : \A t \in T : << s, t >> \in E /\ step[<< s, t >>] \in T
  OBVIOUS
<1>2. \A s \in SUBSET S : Rest(s) \in SUBSET S /\ (s # {} => Rest(s) # s)
  BY DEF AnyOf
<1>3. Closed(G)
  <2>1. << {}, base >> \in G
    OBVIOUS
  <2>2. ASSUME NEW s \in SUBSET S, NEW t \in T, s # {}, << Rest(s), t >> \in G
        PROVE  << s, step[<< s, t >>] >> \in G
    <3>. HIDE DEF Rest
    <3>. QED
      BY <1>1, <2>2
  <2>. HIDE DEF G, Rest
  <2>. QED
    BY <2>1, <2>2
<1>4. ASSUME NEW t \in T, << {}, t >> \in G
      PROVE  t = base
  <2>. DEFINE R == {e \in E : e[1] = {} => e[2] = base}
  <2>1. Closed(R) /\ R \in SUBSET E
    <3>. HIDE DEF Rest
    <3>. QED
      BY <1>1
  <2>2. << {}, t >> \in R
    <3>. HIDE DEF R, Closed
    <3>. QED
      BY <1>4, <2>1
  <2>3. QED
    BY <2>2
<1>5. ASSUME NEW s \in SUBSET S, s # {}, NEW t \in T, << s, t >> \in G
      PROVE  \E u \in T : << Rest(s), u >> \in G /\ t = step[<< s, u >>]
  <2>. DEFINE R == {e \in E : e \in G /\ (e[1] = s => \E u \in T : << Rest(s), u >> \in G
                                                        /\ e[2] = step[<< s, u >>])}
  <2>1. << {}, base >> \in R
    <3>. HIDE DEF G
    <3>. QED
      BY <1>1, <1>3, <1>5
  <2>2. ASSUME NEW v \in SUBSET S, NEW w \in T, v # {}, << Rest(v), w >> \in R
        PROVE  << v, step[<< v, w >>] >> \in R
    <3>. HIDE DEF G, Rest
    <3>1. << Rest(v), w >> \in G
      BY <2>2
    <3>2. << v, step[<< v, w >>] >> \in G
      BY <1>3, <2>2, <3>1
    <3>3. << v, step[<< v, w >>] >> \in E
      BY <1>1
    <3>. QED
      BY <3>1, <3>2, <3>3
  <2>3. Closed(R) /\ R \in SUBSET E
    <3>. HIDE DEF Rest, G
    <3>1. R \in SUBSET E
      OBVIOUS
    <3>. HIDE DEF R, E
    <3>. QED
      BY <2>1, <2>2, <3>1
  <2>4. << s, t >> \in R
    <3>. HIDE DEF R, Closed
    <3>. QED
      BY <1>5, <2>3
  <2>5. QED
    BY <2>4
<1>6. \A s \in SUBSET S : s \in Single
  <2>1. {} \in Single
    <3>. HIDE DEF G
    <3>. QED
      BY <1>3, <1>4
  <2>2. ASSUME NEW s \in SUBSET S, s # {}, Rest(s) \in Single
        PROVE  s \in Single
    <3>. HIDE DEF G, Rest
    <3>1. PICK u \in T : /\ << Rest(s), u >> \in G
                         /\ \A w \in T : << Rest(s), w >> \in G => w = u
      BY <2>2
    <3>2. << s, step[<< s, u >>] >> \in G /\ step[<< s, u >>] \in T
      BY <1>1, <1>3, <2>2, <3>1
    <3>3. \A w \in T : << s, w >> \in G => w = step[<< s, u >>]
      BY <1>5, <2>2, <3>1
    <3>. QED
      BY <3>2, <3>3
  <2>. HIDE DEF Single
  <2>. QED
    BY <2>1, <2>2, SubsetInduction
<1>. DEFINE f == [s \in SUBSET S |-> CHOOSE t \in T : << s, t >> \in G]
<1>7. \A s \in SUBSET S : /\ f[s] \in T /\ << s, f[s] >> \in G
                          /\ \A u \in T : << s, u >> \in G => u = f[s]
  <2>. HIDE DEF G
  <2>. QED
    BY <1>6
<1>8. f[{}] = base
  <2>. HIDE DEF G, f
  <2>. QED
    BY <1>4, <1>7
<1>9. ASSUME NEW s \in SUBSET S, s # {}
      PROVE  f[s] = step[<< s, f[Rest(s)] >>]
  <2>. HIDE DEF G, f, Rest
  <2>1. Rest(s) \in SUBSET S
    BY <1>2
  <2>2. << s, step[<< s, f[Rest(s)] >>] >> \in G /\ step[<< s, f[Rest(s)] >>] \in T
    BY <1>1, <1>3, <1>7, <1>9, <2>1
  <2>. QED
    BY <1>7, <2>2
<1>10. f \in [SUBSET S -> T]
  BY <1>7
<1>11. QED
  BY <1>8, <1>9, <1>10 DEF Iterates

(* A sum over a finite set, as MapThenSumSet of a function makes it.                *)
IteratedSum(g, S) ==
  LET iter[s \in SUBSET S] ==
        IF s = {} THEN 0
        ELSE LET x == CHOOSE x \in s : TRUE
             IN  g[x] + iter[s \ {x}]
  IN  iter[S]

Sums(f, S, g) ==
  /\ f[{}] = 0
  /\ \A s \in SUBSET S : s # {} => f[s] = g[AnyOf(s)] + f[s \ {AnyOf(s)}]

LEMMA SumIsIterated ==
  ASSUME NEW S, IsFiniteSet(S), NEW g, \A x \in S : g[x] \in Int
  PROVE  \E f \in [SUBSET S -> Int] : IteratedSum(g, S) = f[S] /\ Sums(f, S, g)
<1>. DEFINE Body(f) == [s \in SUBSET S |->
                          IF s = {} THEN 0
                          ELSE g[AnyOf(s)] + f[s \ {AnyOf(s)}]]
            step == [e \in (SUBSET S) \X Int |->
                       IF e[1] = {} THEN 0 ELSE g[AnyOf(e[1])] + e[2]]
<1>0. \A s \in SUBSET S : /\ s # {} => AnyOf(s) \in S
                          /\ s \ {AnyOf(s)} \in SUBSET S
  BY DEF AnyOf
<1>1. step \in [(SUBSET S) \X Int -> Int]
  BY <1>0
<1>2. PICK f \in [SUBSET S -> Int] : Iterates(f, S, 0, step)
  <2>1. PICK T : T = Int
    OBVIOUS
  <2>2. step \in [(SUBSET S) \X T -> T] /\ 0 \in T
    BY <1>1, <2>1
  <2>. HIDE DEF step
  <2>3. \E f \in [SUBSET S -> T] : Iterates(f, S, 0, step)
    BY <2>2, FiniteRecursion
  <2>. QED
    BY <2>1, <2>3
<1>3. \A s \in SUBSET S :
        s # {} => f[s] = g[AnyOf(s)] + f[s \ {AnyOf(s)}]
  <2>1. TAKE s \in SUBSET S
  <2>2. HAVE s # {}
  <2>3. f[s] = step[<< s, f[s \ {AnyOf(s)}] >>]
    BY <1>2, <2>2 DEF Iterates
  <2>4. f[s \ {AnyOf(s)}] \in Int
    BY <1>0
  <2>. QED
    BY <2>2, <2>3, <2>4
<1>4. f = Body(f)
  <2>1. \A s \in SUBSET S : f[s] = Body(f)[s]
    BY <1>2, <1>3 DEF Iterates
  <2>. QED
    BY <2>1
<1>5. \E h : h = Body(h)
  BY <1>4
<1>6. PICK h : IteratedSum(g, S) = h[S] /\ h = Body(h)
  BY <1>5 DEF IteratedSum, AnyOf
<1>7. h = f
  <2>. DEFINE X == {s \in SUBSET S : h[s] = f[s]}
  <2>1. \A s \in SUBSET S :
          h[s] = IF s = {} THEN 0 ELSE g[AnyOf(s)] + h[s \ {AnyOf(s)}]
    BY <1>6
  <2>2. {} \in X
    BY <1>2, <2>1 DEF Iterates
  <2>3. ASSUME NEW s \in SUBSET S, s # {}, s \ {AnyOf(s)} \in X
        PROVE  s \in X
    BY <1>3, <2>1, <2>3
  <2>4. \A s \in SUBSET S : s \in X
    <3>. HIDE DEF X
    <3>. QED
      BY <2>2, <2>3, SubsetInduction
  <2>5. DOMAIN h = SUBSET S /\ h = [s \in SUBSET S |-> h[s]] /\ f = [s \in SUBSET S |-> f[s]]
    BY <1>6
  <2>6. \A s \in SUBSET S : h[s] = f[s]
    BY <2>4
  <2>. QED
    BY <2>5, <2>6
<1>8. QED
  BY <1>2, <1>3, <1>6, <1>7 DEF Iterates, Sums

(* Sums over the parts of a set are one function of the part.                      *)
LEMMA SumsOfParts ==
  ASSUME NEW D, IsFiniteSet(D), NEW g, \A x \in D : g[x] \in Int
  PROVE  \E f \in [SUBSET D -> Int] :
           /\ \A S \in SUBSET D : IteratedSum(g, S) = f[S]
           /\ Sums(f, D, g)
<1>1. PICK f \in [SUBSET D -> Int] : Sums(f, D, g)
  BY SumIsIterated
<1>2. ASSUME NEW S \in SUBSET D PROVE IteratedSum(g, S) = f[S]
  <2>1. IsFiniteSet(S) /\ \A x \in S : g[x] \in Int
    BY FS_Subset
  <2>2. PICK h \in [SUBSET S -> Int] : IteratedSum(g, S) = h[S] /\ Sums(h, S, g)
    BY <2>1, SumIsIterated
  <2>. DEFINE X == {s \in SUBSET S : h[s] = f[s]}
  <2>3. {} \in X
    BY <1>1, <2>2 DEF Sums
  <2>4. ASSUME NEW s \in SUBSET S, s # {}, s \ {AnyOf(s)} \in X
        PROVE  s \in X
    <3>1. s \in SUBSET D
      OBVIOUS
    <3>2. /\ h[s] = g[AnyOf(s)] + h[s \ {AnyOf(s)}]
          /\ f[s] = g[AnyOf(s)] + f[s \ {AnyOf(s)}]
      BY <1>1, <2>2, <2>4, <3>1 DEF Sums
    <3>. QED
      BY <2>4, <3>2
  <2>5. \A s \in SUBSET S : s \in X
    <3>. HIDE DEF X
    <3>. QED
      BY <2>1, <2>3, <2>4, SubsetInduction
  <2>. QED
    BY <2>2, <2>5
<1>. QED
  BY <1>1, <1>2

(* Any element may be taken out first.                                           *)
LEMMA SumTakesOut ==
  ASSUME NEW S, IsFiniteSet(S), NEW g, \A x \in S : g[x] \in Int
  PROVE  /\ IteratedSum(g, {}) = 0
         /\ IteratedSum(g, S) \in Int
         /\ \A x \in S : /\ IteratedSum(g, S \ {x}) \in Int
                         /\ IteratedSum(g, S) = g[x] + IteratedSum(g, S \ {x})
<1>1. PICK f \in [SUBSET S -> Int] :
        (\A s \in SUBSET S : IteratedSum(g, s) = f[s]) /\ Sums(f, S, g)
  BY SumsOfParts
<1>. DEFINE Free(s) == \A x \in s : f[s] = g[x] + f[s \ {x}]
            bad   == {s \in SUBSET S : ~ Free(s)}
            sizes == {Cardinality(s) : s \in bad}
<1>2. bad = {}
  <2>. SUFFICES ASSUME bad # {} PROVE FALSE
    OBVIOUS
  <2>1. sizes \in SUBSET Nat /\ sizes # {}
    BY PartIsSmaller
  <2>2. PICK least \in sizes : \A n \in sizes : least <= n
    <3>. HIDE DEF sizes
    <3>. QED
      BY <2>1, LeastNatural
  <2>3. PICK s \in bad : Cardinality(s) = least
    OBVIOUS
  <2>4. PICK x \in s : f[s] # g[x] + f[s \ {x}]
    BY <2>3
  <2>5. ASSUME NEW t \in SUBSET S, t \subseteq s, t # s PROVE Free(t)
    <3>1. IsFiniteSet(s) /\ t \in SUBSET s
      BY <2>5, FS_Subset
    <3>2. Cardinality(t) < Cardinality(s) /\ Cardinality(t) \in Nat /\ Cardinality(s) \in Nat
      BY <2>5, <3>1, PartIsSmaller
    <3>3. Cardinality(t) \notin sizes
      <4>. HIDE DEF sizes
      <4>. QED
        BY <2>1, <2>2, <2>3, <3>2
    <3>4. t \notin bad
      BY <3>3
    <3>. QED
      BY <3>4
  <2>. DEFINE c == AnyOf(s)
  <2>6. c \in s
    BY <2>4 DEF AnyOf
  <2>7. f[s] = g[c] + f[s \ {c}]
    BY <1>1, <2>4 DEF Sums
  <2>8. c # x
    BY <2>4, <2>7
  <2>. HIDE DEF c
  <2>9. f[s \ {c}] = g[x] + f[(s \ {c}) \ {x}]
    <3>1. s \ {c} \in SUBSET S /\ s \ {c} \subseteq s /\ s \ {c} # s /\ x \in s \ {c}
      BY <2>6, <2>8
    <3>2. Free(s \ {c})
      BY <2>5, <3>1
    <3>. QED
      BY <3>1, <3>2
  <2>10. f[s \ {x}] = g[c] + f[(s \ {x}) \ {c}]
    <3>1. s \ {x} \in SUBSET S /\ s \ {x} \subseteq s /\ s \ {x} # s /\ c \in s \ {x}
      BY <2>6, <2>8
    <3>2. Free(s \ {x})
      BY <2>5, <3>1
    <3>. QED
      BY <3>1, <3>2
  <2>11. (s \ {x}) \ {c} = (s \ {c}) \ {x} /\ (s \ {c}) \ {x} \in SUBSET S
    OBVIOUS
  <2>12. \A i, j, k \in Int : i + (j + k) = j + (i + k)
    OBVIOUS
  <2>13. f[(s \ {c}) \ {x}] \in Int /\ g[c] \in Int /\ g[x] \in Int
    BY <2>6, <2>11
  <2>14. f[s] = g[c] + (g[x] + f[(s \ {c}) \ {x}])
    BY <2>7, <2>9
  <2>15. g[x] + f[s \ {x}] = g[x] + (g[c] + f[(s \ {c}) \ {x}])
    BY <2>10, <2>11
  <2>. QED
    BY <2>4, <2>12, <2>13, <2>14, <2>15
<1>3. S \in SUBSET S /\ \A x \in S : S \ {x} \in SUBSET S
  OBVIOUS
<1>4. Free(S)
  BY <1>2, <1>3
<1>. QED
  BY <1>1, <1>3, <1>4 DEF Sums

(* A sum depends on what is summed, and splits where the set does.                  *)
LEMMA SumAgrees ==
  ASSUME NEW S, IsFiniteSet(S), NEW g, NEW h,
         \A x \in S : g[x] \in Int /\ h[x] = g[x]
  PROVE  IteratedSum(g, S) = IteratedSum(h, S)
<1>1. PICK f \in [SUBSET S -> Int] :
        (\A s \in SUBSET S : IteratedSum(g, s) = f[s]) /\ Sums(f, S, g)
  BY SumsOfParts
<1>2. PICK k \in [SUBSET S -> Int] :
        (\A s \in SUBSET S : IteratedSum(h, s) = k[s]) /\ Sums(k, S, h)
  BY SumsOfParts
<1>. DEFINE X == {s \in SUBSET S : f[s] = k[s]}
<1>3. {} \in X
  BY <1>1, <1>2 DEF Sums
<1>4. ASSUME NEW s \in SUBSET S, s # {}, s \ {AnyOf(s)} \in X
      PROVE  s \in X
  <2>1. AnyOf(s) \in S
    BY <1>4 DEF AnyOf
  <2>. QED
    BY <1>1, <1>2, <1>4, <2>1 DEF Sums
<1>5. \A s \in SUBSET S : s \in X
  <2>. HIDE DEF X
  <2>. QED
    BY <1>3, <1>4, SubsetInduction
<1>. QED
  BY <1>1, <1>2, <1>5

LEMMA SumSplits ==
  ASSUME NEW S, IsFiniteSet(S), NEW T, IsFiniteSet(T), S \cap T = {},
         NEW g, \A x \in S \cup T : g[x] \in Int
  PROVE  IteratedSum(g, S \cup T) = IteratedSum(g, S) + IteratedSum(g, T)
<1>1. IsFiniteSet(S \cup T)
  BY FS_Union
<1>. DEFINE X == {t \in SUBSET T :
                    IteratedSum(g, S \cup t) = IteratedSum(g, S) + IteratedSum(g, t)}
<1>2. {} \in X
  <2>1. IteratedSum(g, {}) = 0 /\ IteratedSum(g, S) \in Int /\ S \cup {} = S
    BY SumTakesOut
  <2>. QED
    BY <2>1
<1>3. ASSUME NEW t \in SUBSET T, t # {}, t \ {AnyOf(t)} \in X
      PROVE  t \in X
  <2>. DEFINE c == AnyOf(t)
  <2>1. c \in t
    BY <1>3 DEF AnyOf
  <2>. HIDE DEF c
  <2>2. IsFiniteSet(t) /\ IsFiniteSet(S \cup t)
    BY FS_Subset, FS_Union
  <2>3. IteratedSum(g, t) = g[c] + IteratedSum(g, t \ {c}) /\ IteratedSum(g, t \ {c}) \in Int
    BY <2>1, <2>2, SumTakesOut
  <2>4. IteratedSum(g, S \cup t) = g[c] + IteratedSum(g, (S \cup t) \ {c})
    <3>1. c \in S \cup t /\ \A x \in S \cup t : g[x] \in Int
      BY <2>1
    <3>. QED
      BY <2>2, <3>1, SumTakesOut
  <2>5. (S \cup t) \ {c} = S \cup (t \ {c})
    BY <2>1
  <2>6. IteratedSum(g, S \cup (t \ {c})) = IteratedSum(g, S) + IteratedSum(g, t \ {c})
    BY <1>3 DEF c
  <2>7. IteratedSum(g, S) \in Int /\ g[c] \in Int
    BY <2>1, SumTakesOut
  <2>8. \A i, j, k \in Int : i + (j + k) = j + (i + k)
    OBVIOUS
  <2>9. IteratedSum(g, S \cup t)
          = g[c] + (IteratedSum(g, S) + IteratedSum(g, t \ {c}))
    BY <2>4, <2>5, <2>6
  <2>10. IteratedSum(g, S \cup t) = IteratedSum(g, S) + IteratedSum(g, t)
    BY <2>3, <2>7, <2>8, <2>9
  <2>. QED
    BY <2>10
<1>4. \A t \in SUBSET T : t \in X
  <2>. HIDE DEF X
  <2>. QED
    BY <1>2, <1>3, SubsetInduction
<1>. QED
  BY <1>4

(* A sum of naturals is a natural, and no less than that of a part.               *)
LEMMA SumIsMonotone ==
  ASSUME NEW T, IsFiniteSet(T), NEW S \in SUBSET T, NEW g, \A x \in T : g[x] \in Nat
  PROVE  /\ IteratedSum(g, S) \in Nat /\ IteratedSum(g, T) \in Nat
         /\ IteratedSum(g, S) <= IteratedSum(g, T)
<1>0. \A x \in T : g[x] \in Int
  OBVIOUS
<1>1. PICK f \in [SUBSET T -> Int] :
        (\A s \in SUBSET T : IteratedSum(g, s) = f[s]) /\ Sums(f, T, g)
  BY <1>0, SumsOfParts
<1>. DEFINE X == {s \in SUBSET T : f[s] \in Nat}
<1>2. {} \in X
  BY <1>1 DEF Sums
<1>3. ASSUME NEW s \in SUBSET T, s # {}, s \ {AnyOf(s)} \in X
      PROVE  s \in X
  <2>1. AnyOf(s) \in T
    BY <1>3 DEF AnyOf
  <2>. QED
    BY <1>1, <1>3, <2>1 DEF Sums
<1>4. \A s \in SUBSET T : s \in X
  <2>. HIDE DEF X
  <2>. QED
    BY <1>2, <1>3, SubsetInduction
<1>5. IsFiniteSet(S) /\ IsFiniteSet(T \ S)
  BY FS_Subset, FS_Difference
<1>6. IteratedSum(g, S \cup (T \ S)) = IteratedSum(g, S) + IteratedSum(g, T \ S)
  <2>1. \A x \in S \cup (T \ S) : g[x] \in Int
    OBVIOUS
  <2>2. S \cap (T \ S) = {}
    OBVIOUS
  <2>. QED
    BY <1>5, <2>1, <2>2, SumSplits
<1>7. S \cup (T \ S) = T /\ T \ S \in SUBSET T /\ T \in SUBSET T
  OBVIOUS
<1>8. IteratedSum(g, S) \in Nat /\ IteratedSum(g, T) \in Nat /\ IteratedSum(g, T \ S) \in Nat
  BY <1>1, <1>4, <1>7
<1>9. \A i, j, k \in Nat : i = j + k => j <= i
  OBVIOUS
<1>10. IteratedSum(g, T) = IteratedSum(g, S) + IteratedSum(g, T \ S)
  BY <1>6, <1>7
<1>. QED
  BY <1>8, <1>9, <1>10

LEMMA SumOfZeros ==
  ASSUME NEW S, IsFiniteSet(S), NEW g, \A x \in S : g[x] = 0
  PROVE  IteratedSum(g, S) = 0
<1>1. PICK f \in [SUBSET S -> Int] :
        (\A s \in SUBSET S : IteratedSum(g, s) = f[s]) /\ Sums(f, S, g)
  <2>1. \A x \in S : g[x] \in Int
    OBVIOUS
  <2>. QED
    BY <2>1, SumsOfParts
<1>. DEFINE X == {s \in SUBSET S : f[s] = 0}
<1>2. {} \in X
  BY <1>1 DEF Sums
<1>3. ASSUME NEW s \in SUBSET S, s # {}, s \ {AnyOf(s)} \in X
      PROVE  s \in X
  <2>1. AnyOf(s) \in S
    BY <1>3 DEF AnyOf
  <2>. QED
    BY <1>1, <1>3, <2>1 DEF Sums
<1>4. \A s \in SUBSET S : s \in X
  <2>. HIDE DEF X
  <2>. QED
    BY <1>2, <1>3, SubsetInduction
<1>. QED
  BY <1>1, <1>4

(* If each of disjoint parts bounds a size, together they bound the sum of sizes.    *)
LEMMA PartsBoundSum ==
  ASSUME NEW J, IsFiniteSet(J), NEW part, NEW g, NEW size,
         \A j, k \in J : j # k => part[j] \cap part[k] = {},
         \A j \in J : /\ IsFiniteSet(part[j])
                      /\ \A x \in part[j] : g[x] \in Int
                      /\ size[j] \in Int
                      /\ size[j] <= IteratedSum(g, part[j])
  PROVE  IteratedSum(size, J) <= IteratedSum(g, UNION {part[j] : j \in J})
<1>. DEFINE Whole(s) == UNION {part[j] : j \in s}
            X == {s \in SUBSET J : IteratedSum(size, s) <= IteratedSum(g, Whole(s))
                                     /\ IsFiniteSet(Whole(s))}
<1>1. {} \in X
  <2>1. Whole({}) = {}
    OBVIOUS
  <2>2. IteratedSum(size, {}) = 0
    BY SumTakesOut
  <2>3. IteratedSum(g, {}) = 0 /\ IsFiniteSet({})
    <3>1. IsFiniteSet({}) /\ \A x \in {} : g[x] \in Int
      BY FS_EmptySet
    <3>2. PICK none : none = {}
      OBVIOUS
    <3>3. IteratedSum(g, {}) = 0
      BY <3>1, <3>2, SumTakesOut
    <3>. QED
      BY <3>1, <3>3
  <2>. QED
    BY <2>1, <2>2, <2>3
<1>2. ASSUME NEW s \in SUBSET J, s # {}, s \ {AnyOf(s)} \in X
      PROVE  s \in X
  <2>. DEFINE c == AnyOf(s)
              r == s \ {c}
  <2>1. c \in s /\ c \in J /\ r \in SUBSET J
    BY <1>2 DEF AnyOf
  <2>2. r \in X
    BY <1>2
  <2>3. Whole(s) = Whole(r) \cup part[c] /\ Whole(r) \cap part[c] = {}
    BY <2>1
  <2>4. IsFiniteSet(Whole(r)) /\ IsFiniteSet(part[c])
    BY <2>1, <2>2
  <2>5. \A x \in Whole(r) \cup part[c] : g[x] \in Int
    BY <2>1
  <2>6. IteratedSum(size, s) = size[c] + IteratedSum(size, r) /\ IteratedSum(size, r) \in Int
    <3>1. IsFiniteSet(s) /\ \A x \in s : size[x] \in Int
      BY FS_Subset
    <3>. QED
      BY <2>1, <3>1, SumTakesOut
  <2>7. IteratedSum(size, r) <= IteratedSum(g, Whole(r))
    BY <2>2
  <2>8. size[c] <= IteratedSum(g, part[c]) /\ size[c] \in Int
    BY <2>1
  <2>. HIDE DEF c, r, Whole
  <2>9. IteratedSum(g, Whole(r) \cup part[c])
          = IteratedSum(g, Whole(r)) + IteratedSum(g, part[c])
    BY <2>3, <2>4, <2>5, SumSplits
  <2>10. IteratedSum(g, Whole(r)) \in Int /\ IteratedSum(g, part[c]) \in Int
    BY <2>4, <2>5, SumTakesOut
  <2>11. \A i, j, k, m \in Int : i <= j /\ k <= m => k + i <= j + m
    OBVIOUS
  <2>12. IteratedSum(size, s) <= IteratedSum(g, Whole(s))
    BY <2>3, <2>6, <2>7, <2>8, <2>9, <2>10, <2>11
  <2>13. IsFiniteSet(Whole(s))
    <3>1. IsFiniteSet(Whole(r) \cup part[c])
      BY <2>4, FS_Union
    <3>. QED
      BY <2>3, <3>1
  <2>. QED
    BY <2>12, <2>13
<1>3. \A s \in SUBSET J : s \in X
  <2>. HIDE DEF X
  <2>. QED
    BY <1>1, <1>2, SubsetInduction
<1>. QED
  BY <1>3

(* Together, sets hold no more than the sum of bounds on each of them.               *)
LEMMA UnionIsBounded ==
  ASSUME NEW S, IsFiniteSet(S), NEW g \in [S -> Int], NEW part,
         \A x \in S : IsFiniteSet(part[x]) /\ Cardinality(part[x]) <= g[x]
  PROVE  LET whole == UNION {part[x] : x \in S}
         IN  IsFiniteSet(whole) /\ Cardinality(whole) <= IteratedSum(g, S)
<1>. DEFINE Whole(s) == UNION {part[x] : x \in s}
<1>1. PICK f \in [SUBSET S -> Int] : IteratedSum(g, S) = f[S] /\ Sums(f, S, g)
  BY SumIsIterated
<1>. DEFINE X == {s \in SUBSET S : IsFiniteSet(Whole(s)) /\ Cardinality(Whole(s)) <= f[s]}
<1>2. {} \in X
  <2>1. PICK none : none = {}
    OBVIOUS
  <2>2. Whole(none) = none /\ none \in SUBSET S
    BY <2>1
  <2>3. f[none] = 0 /\ IsFiniteSet(none) /\ Cardinality(none) = 0
    BY <1>1, <2>1, FS_EmptySet DEF Sums
  <2>. HIDE DEF Whole
  <2>4. none \in X
    BY <2>2, <2>3
  <2>. QED
    BY <2>1, <2>4
<1>3. ASSUME NEW s \in SUBSET S, s # {}, s \ {AnyOf(s)} \in X
      PROVE  s \in X
  <2>. DEFINE b == AnyOf(s)
              r == s \ {b}
  <2>1. b \in s /\ b \in S /\ r \in SUBSET S
    BY <1>3 DEF AnyOf
  <2>2. Whole(s) = Whole(r) \cup part[b]
    BY <2>1
  <2>. HIDE DEF b, Whole
  <2>3. IsFiniteSet(Whole(r)) /\ Cardinality(Whole(r)) <= f[r]
    BY <1>3 DEF b
  <2>. HIDE DEF r
  <2>4. IsFiniteSet(part[b]) /\ Cardinality(part[b]) <= g[b]
    BY <2>1
  <2>5. /\ IsFiniteSet(Whole(s))
        /\ Cardinality(Whole(s)) = Cardinality(Whole(r)) + Cardinality(part[b])
                                     - Cardinality(Whole(r) \cap part[b])
    BY <2>2, <2>3, <2>4, FS_Union
  <2>6. /\ Cardinality(Whole(r)) \in Nat /\ Cardinality(part[b]) \in Nat
        /\ Cardinality(Whole(r) \cap part[b]) \in Nat
    BY <2>3, <2>4, FS_CardinalityType, FS_Intersection
  <2>7. f[s] = g[b] + f[r] /\ f[r] \in Int /\ g[b] \in Int /\ f[s] \in Int
    BY <1>1, <1>3, <2>1 DEF b, r, Sums
  <2>8. Cardinality(Whole(s)) <= f[s]
    BY <2>3, <2>4, <2>5, <2>6, <2>7
  <2>. QED
    BY <2>5, <2>8
<1>4. \A s \in SUBSET S : s \in X
  <2>. HIDE DEF X
  <2>. QED
    BY <1>2, <1>3, SubsetInduction
<1>5. S \in X
  BY <1>4
<1>6. QED
  BY <1>1, <1>5

-------------------------------------------------------------------------------

(* The registry is defined on the planned keys, and bound to the file, to the *)
(* parent and to its own seals.  The last conjunct is what makes the others   *)
(* inductive: a sealed digest is a block, so a write can only repeat it.      *)
RegistryTyped == Registered => digest \in [Keys -> Blocks \cup {Unwritten}]

FileBound ==
  Registered => \A b \in file : Key(b) \in Keys /\ digest[Key(b)] = b

CarriedBound ==
  \A k \in CarriedKeys : parent[k] \in Blocks /\ digest[k] = parent[k]

SealsBound ==
  Registered => \A k \in Keys : << k[1], k[2] >> \in sealed => digest[k] # Unwritten

RegistryInv == RegistryTyped /\ FileBound /\ CarriedBound /\ SealsBound

(* Carried keys are planned, and none exist without a registry.             *)
LEMMA CarriedPlanned == CarriedKeys \subseteq Keys
  BY DEF CarriedKeys

LEMMA CarriedRegistered == ASSUME NEW k \in CarriedKeys PROVE Registered
  BY CarriedAssumption DEF CarriedKeys

(* A fresh writer's registry is the parent's, with nothing else written.     *)
LEMMA RegistryInit == Init => RegistryInv
<1> SUFFICES ASSUME Init PROVE RegistryInv
  OBVIOUS
<1>1. ASSUME NEW k \in CarriedKeys PROVE parent[k] \in Blocks
  <2>1. parent \in SealedParents
    BY DEF Init
  <2> QED BY <2>1 DEF SealedParents
<1>2. Registered => digest = [k \in Keys |-> IF k \in CarriedKeys THEN parent[k]
                                             ELSE Unwritten]
  BY DEF Init
<1>3. file = {} /\ sealed = Bursts \X CarriedGens
  BY DEF Init
<1>4. RegistryTyped
  BY <1>1, <1>2 DEF RegistryTyped
<1>5. FileBound
  BY <1>3 DEF FileBound
<1>6. CarriedBound
  BY <1>1, <1>2, CarriedPlanned, CarriedRegistered DEF CarriedBound
<1>7. SealsBound
  <2> SUFFICES ASSUME Registered, NEW k \in Keys, << k[1], k[2] >> \in sealed
               PROVE  digest[k] # Unwritten
    BY DEF SealsBound
  <2>1. k \in CarriedKeys
    BY <1>3 DEF CarriedKeys
  <2> QED BY <2>1, <1>1, <1>2, UnwrittenAssumption
<1> QED BY <1>4, <1>5, <1>6, <1>7 DEF RegistryInv

(* Writing a block leaves every digest that already was a block as it is.     *)
LEMMA WriteRepeats ==
  ASSUME RegistryTyped, NEW b \in Blocks, WriteBlock(b)
  PROVE  /\ Registered => Key(b) \in Keys /\ digest[Key(b)] \in {Unwritten, b}
         /\ Registered => digest' = [digest EXCEPT ![Key(b)] = b]
         /\ ~ Registered => digest' = digest
         /\ file' = file \cup {b}
         /\ UNCHANGED << sealed, parent >>
<1>1. Accepts(b)
  BY DEF WriteBlock
<1>2. IdentityHolds(b)
  BY <1>1 DEF Accepts, Counted
<1> QED BY <1>2 DEF IdentityHolds, WriteBlock

(* The invariant survives a write.                                          *)
LEMMA RegistryWrite ==
  ASSUME RegistryInv, NEW b \in Blocks, WriteBlock(b)
  PROVE  RegistryInv'
<1> USE DEF RegistryInv
<1>1. /\ Registered => Key(b) \in Keys /\ digest[Key(b)] \in {Unwritten, b}
      /\ Registered => digest' = [digest EXCEPT ![Key(b)] = b]
      /\ ~ Registered => digest' = digest
      /\ file' = file \cup {b}
      /\ UNCHANGED << sealed, parent >>
  BY WriteRepeats
<1>2. RegistryTyped'
  BY <1>1 DEF RegistryTyped
<1>3. Registered => \A k \in Keys : digest'[k] = IF k = Key(b) THEN b ELSE digest[k]
  BY <1>1 DEF RegistryTyped
<1>4. Registered => \A k \in Keys : digest[k] # Unwritten => digest'[k] = digest[k]
  BY <1>1, <1>3
<1>5. FileBound'
  <2> SUFFICES ASSUME Registered, NEW c \in file' PROVE Key(c) \in Keys /\ digest'[Key(c)] = c
    BY DEF FileBound, Key
  <2>1. CASE c = b
    BY <2>1, <1>1, <1>3
  <2>2. CASE c \in file
    <3>1. Key(c) \in Keys /\ digest[Key(c)] = c
      BY <2>2 DEF FileBound
    <3>2. CASE Key(c) # Key(b)
      BY <3>1, <3>2, <1>3
    <3>3. CASE Key(c) = Key(b)
      <4>1. FALSE
        <5>1. Key(b) \notin FileKeys
          BY DEF WriteBlock, Accepts, Counted, Reached
        <5> QED BY <5>1, <3>3, <2>2 DEF FileKeys
      <4> QED BY <4>1
    <3> QED BY <3>2, <3>3
  <2> QED BY <2>1, <2>2, <1>1
<1>6. CarriedBound'
  <2> SUFFICES ASSUME NEW k \in CarriedKeys PROVE parent'[k] \in Blocks /\ digest'[k] = parent'[k]
    BY DEF CarriedBound
  <2>1. parent[k] \in Blocks /\ digest[k] = parent[k]
    BY DEF CarriedBound
  <2>2. digest[k] # Unwritten
    BY <2>1, UnwrittenAssumption
  <2> QED BY <2>1, <2>2, <1>1, <1>4, CarriedPlanned, CarriedRegistered
<1>7. SealsBound'
  BY <1>1, <1>4 DEF SealsBound
<1> QED BY <1>2, <1>5, <1>6, <1>7

(* The invariant survives every step.                                       *)
LEMMA RegistryStep == RegistryInv /\ [Next]_vars => RegistryInv'
<1> SUFFICES ASSUME RegistryInv, [Next]_vars PROVE RegistryInv'
  OBVIOUS
<1>1. ASSUME UNCHANGED << file, digest, sealed, parent >> PROVE RegistryInv'
  BY <1>1 DEF RegistryInv, RegistryTyped, FileBound, CarriedBound, SealsBound
<1>2. ASSUME NEW b \in Blocks, WriteBlock(b) PROVE RegistryInv'
  BY <1>2, RegistryWrite
<1>3. ASSUME NEW b \in Blocks, RefuseBlock(b) PROVE RegistryInv'
  BY <1>3, <1>1 DEF RefuseBlock, registry
<1>4. ASSUME NEW k \in CarriedKeys, NEW read \in Blocks, CopySealedBlock(k, read)
      PROVE  RegistryInv'
  BY <1>4, RegistryWrite DEF CopySealedBlock
<1>5. ASSUME NEW burst \in Bursts, NEW g \in Gens, SealGeneration(burst, g)
      PROVE  RegistryInv'
  <2>1. /\ Registered
        /\ \A k \in Keys : k[1] = burst /\ k[2] = g => digest[k] # Unwritten
        /\ sealed' = sealed \cup { << burst, g >> }
        /\ UNCHANGED << file, digest, parent >>
    BY <1>5 DEF SealGeneration
  <2>2. SealsBound'
    BY <2>1 DEF RegistryInv, SealsBound
  <2>3. RegistryTyped' /\ FileBound' /\ CarriedBound'
    BY <2>1 DEF RegistryInv, RegistryTyped, FileBound, CarriedBound
  <2> QED BY <2>2, <2>3 DEF RegistryInv
<1>6. CASE Finish
  BY <1>6, <1>1 DEF Finish, registry
<1>7. CASE Abandon
  BY <1>7, <1>1 DEF Abandon, registry
<1>8. CASE UNCHANGED vars
  BY <1>8, <1>1 DEF vars, registry
<1> QED BY <1>2, <1>3, <1>4, <1>5, <1>6, <1>7, <1>8 DEF Next

(* The registry, the file and the parent stay bound to one another.          *)
THEOREM RegistryBound == Spec => []RegistryInv
<1>1. Init => RegistryInv
  BY RegistryInit
<1>2. RegistryInv /\ [Next]_vars => RegistryInv'
  BY RegistryStep
<1> QED BY <1>1, <1>2, PTL DEF Spec

(* Blocks of a carried generation are the parent's, however they came        *)
(* (copy_validated_sealed_block or write_block).                             *)
THEOREM CarriedUnchanged == Spec => []CarriedBlocksUnchanged
<1>1. RegistryInv => CarriedBlocksUnchanged
  BY CarriedRegistered DEF RegistryInv, FileBound, CarriedBound, CarriedBlocksUnchanged
<1> QED BY <1>1, RegistryBound, PTL

(* No call changes a digest of a sealed generation or breaks a seal.          *)
THEOREM SealsHold == Spec => SealedForEver
<1> DEFINE Kept == \A k \in DOMAIN digest : << k[1], k[2] >> \in sealed =>
                     << k[1], k[2] >> \in sealed' /\ digest'[k] = digest[k]
<1>1. ASSUME RegistryInv, NEW b \in Blocks, WriteBlock(b) PROVE Kept
  <2>1. /\ Registered => Key(b) \in Keys /\ digest[Key(b)] \in {Unwritten, b}
        /\ Registered => digest' = [digest EXCEPT ![Key(b)] = b]
        /\ ~ Registered => digest' = digest
        /\ sealed' = sealed
    BY <1>1, WriteRepeats DEF RegistryInv
  <2>2. CASE Registered
    <3> SUFFICES ASSUME NEW k \in DOMAIN digest, << k[1], k[2] >> \in sealed
                 PROVE  digest'[k] = digest[k]
      BY <2>1
    <3>1. k \in Keys /\ digest[k] # Unwritten
      BY <1>1, <2>2 DEF RegistryInv, RegistryTyped, SealsBound
    <3> QED BY <3>1, <2>1, <2>2, <1>1 DEF RegistryInv, RegistryTyped
  <2>3. CASE ~ Registered
    BY <2>3, <2>1
  <2> QED BY <2>2, <2>3
<1>2. ASSUME UNCHANGED << digest, sealed >> PROVE Kept
  BY <1>2
<1>3. RegistryInv /\ [Next]_vars => [Kept]_vars
  <2> SUFFICES ASSUME RegistryInv, Next PROVE Kept
    OBVIOUS
  <2>1. ASSUME NEW b \in Blocks, WriteBlock(b) PROVE Kept
    BY <2>1, <1>1
  <2>2. ASSUME NEW b \in Blocks, RefuseBlock(b) PROVE Kept
    BY <2>2, <1>2 DEF RefuseBlock, registry
  <2>3. ASSUME NEW k \in CarriedKeys, NEW read \in Blocks, CopySealedBlock(k, read)
        PROVE  Kept
    BY <2>3, <1>1 DEF CopySealedBlock
  <2>4. ASSUME NEW burst \in Bursts, NEW g \in Gens, SealGeneration(burst, g) PROVE Kept
    BY <2>4 DEF SealGeneration
  <2>5. CASE Finish
    BY <2>5, <1>2 DEF Finish, registry
  <2>6. CASE Abandon
    BY <2>6, <1>2 DEF Abandon, registry
  <2> QED BY <2>1, <2>2, <2>3, <2>4, <2>5, <2>6 DEF Next
<1> QED BY <1>3, RegistryBound, PTL DEF Spec, SealedForEver

(***************************************************************************)
(* The writer's place in the plan                                          *)
(***************************************************************************)

(* Tiles have grids of naturals, and no tile is planned twice for a burst.     *)
LEMMA TilesTyped ==
  ASSUME NEW burst \in Bursts
  PROVE  /\ Len(Tiles[burst]) \in Nat
         /\ DOMAIN Tiles[burst] = 1 .. Len(Tiles[burst])
         /\ \A i \in 1 .. Len(Tiles[burst]) :
              /\ Tiles[burst][i] \in AllTiles
              /\ Tiles[burst][i].native \in Grids
              /\ Tiles[burst][i].owned \in Grids
              /\ \A g \in Gens : << burst, g, Tiles[burst][i] >> \in Keys
<1>. DEFINE T == [native : Grids, owned : Grids]
<1>1. Tiles[burst] \in Seq(T)
  BY GridAssumption
<1>2. \A i \in 1 .. Len(Tiles[burst]) : Tiles[burst][i] \in T
  <2>. HIDE DEF T
  <2>. QED
    BY <1>1
<1>3. /\ Len(Tiles[burst]) \in Nat
      /\ DOMAIN Tiles[burst] = 1 .. Len(Tiles[burst])
  <2>. HIDE DEF T
  <2>. QED
    BY <1>1
<1>. QED
  BY <1>2, <1>3 DEF AllTiles, Keys

LEMMA TilesDiffer ==
  ASSUME NEW burst \in Bursts,
         NEW i \in 1 .. Len(Tiles[burst]), NEW j \in 1 .. Len(Tiles[burst]), i < j
  PROVE  /\ Tiles[burst][i] # Tiles[burst][j]
         /\ RowMajorBefore(Tiles[burst][i].owned, Tiles[burst][j].owned)
         /\ ~ Overlap(Tiles[burst][i].owned, Tiles[burst][j].owned)
<1>1. /\ RowMajorBefore(Tiles[burst][i].owned, Tiles[burst][j].owned)
      /\ ~ Overlap(Tiles[burst][i].owned, Tiles[burst][j].owned)
  BY PlanAssumption, TilesTyped DEF PlanValid
<1>2. Tiles[burst][i].owned \in Grids
  BY TilesTyped
<1>3. ~ RowMajorBefore(Tiles[burst][i].owned, Tiles[burst][i].owned)
  BY <1>2 DEF RowMajorBefore, Grids
<1>. QED
  BY <1>1, <1>3

LEMMA OverlapIsMutual ==
  ASSUME NEW g, NEW h
  PROVE  Overlap(g, h) <=> Overlap(h, g)
  BY DEF Overlap

(* A block is on a tile of some burst, and reads odd cells of its own grid only. *)
LEMMA BlocksTyped ==
  ASSUME NEW b \in Blocks
  PROVE  /\ b.burst \in Bursts /\ b.gen \in Gens /\ b.tile \in AllTiles
         /\ b.parents \subseteq Gens /\ b.form \in Forms
         /\ b.odd \subseteq Cells(b.tile.native)
         /\ b.tile.native \in Grids
<1>1. b.burst \in Bursts /\ b.gen \in Gens /\ b.tile \in AllTiles
      /\ b.parents \subseteq Gens /\ b.form \in Forms
      /\ b.odd \subseteq Cells(b.tile.native)
  BY DEF Blocks
<1>2. PICK burst \in Bursts : \E i \in DOMAIN Tiles[burst] : b.tile = Tiles[burst][i]
  BY <1>1 DEF AllTiles
<1>. QED
  BY <1>1, <1>2, TilesTyped

(* Grids that do not meet share no cell, so blocks on them share no source.      *)
LEMMA ApartAgree ==
  ASSUME NEW b \in Blocks, NEW c \in Blocks, ~ Overlap(b.tile.native, c.tile.native)
  PROVE  SourcesAgree(b, c)
<1>1. b.tile.native \in Grids /\ c.tile.native \in Grids
  BY BlocksTyped
<1>2. Cells(b.tile.native) \cap Cells(c.tile.native) = {}
  BY <1>1 DEF Grids, Overlap, Cells
<1>. QED
  BY <1>2, BlocksTyped DEF SourcesAgree

(* Where the writer is, as a record, with its tile counts within the plan.       *)
AtTyped ==
  /\ file \subseteq Blocks
  /\ IsFiniteSet(file)
  /\ at = [chain |-> at.chain, active |-> at.active, frontier |-> at.frontier,
           overlaps |-> at.overlaps, begun |-> at.begun]
  /\ \A burst \in DOMAIN at.begun :
       /\ burst \in Bursts
       /\ at.begun[burst] = [form |-> at.begun[burst].form, next |-> at.begun[burst].next]
       /\ at.begun[burst].next \in 1 .. Len(Tiles[burst])

(* A block in the file is on a counted tile, in the form its burst began with.   *)
BlocksPlaced ==
  \A b \in file :
    /\ b.burst \in DOMAIN at.begun
    /\ b.form = at.begun[b.burst].form
    /\ \E i \in 1 .. at.begun[b.burst].next : b.tile = Tiles[b.burst][i]

(* The chain is all that was written of the tile counted last, generation after   *)
(* generation.                                                                *)
ChainPlaced ==
  /\ at.chain = {} => DOMAIN at.begun = {} /\ at.active = {}
  /\ at.chain \subseteq file
  /\ \A c \in at.chain :
       /\ at.active = {c.burst}
       /\ c.tile = Tiles[c.burst][at.begun[c.burst].next]
       /\ \A b \in file : b.burst = c.burst /\ b.tile = c.tile => b \in at.chain
       /\ \A g \in 0 .. c.gen : \E d \in at.chain : d.gen = g

(* Every other counted tile has all its generations.                            *)
TilesWritten ==
  \A burst \in DOMAIN at.begun : \A i \in 1 .. at.begun[burst].next :
    \/ \A g \in Gens : << burst, g, Tiles[burst][i] >> \in FileKeys
    \/ i = at.begun[burst].next /\ \E c \in at.chain : c.burst = burst

(* What the frontier has dropped ends above every tile still to come.             *)
FrontierKeeps ==
  \A c \in file : c.burst \in at.active =>
    \/ c \in at.chain
    \/ << c.burst, c.tile >> \in at.frontier
    \/ \A j \in at.begun[c.burst].next + 1 .. Len(Tiles[c.burst]) :
         c.tile.native.bottom <= Tiles[c.burst][j].native.top

FrontierPlaced ==
  \A o \in at.frontier :
    /\ o[1] \in at.active
    /\ \E i \in 1 .. at.begun[o[1]].next - 1 : o[2] = Tiles[o[1]][i]

(* The overlaps are earlier tiles of the burst, and among them all that meet the   *)
(* chain's.                                                                    *)
OverlapsMeet ==
  \A c \in at.chain :
    /\ \A o \in at.overlaps :
         o[1] = c.burst /\ \E i \in 1 .. at.begun[c.burst].next - 1 : o[2] = Tiles[c.burst][i]
    /\ \A b \in file \ at.chain :
         b.burst = c.burst /\ Overlap(b.tile.native, c.tile.native)
           => << b.burst, b.tile >> \in at.overlaps

PlaceInv ==
  /\ AtTyped /\ BlocksPlaced /\ ChainPlaced /\ TilesWritten
  /\ FrontierKeeps /\ FrontierPlaced /\ OverlapsMeet

(* The chain is of one burst and one tile.                                       *)
LEMMA ChainIsOneTile ==
  ASSUME PlaceInv, NEW b \in at.chain, NEW c \in at.chain
  PROVE  b.burst = c.burst /\ b.tile = c.tile
<1>1. at.active = {b.burst} /\ at.active = {c.burst}
  BY DEF PlaceInv, ChainPlaced
<1>2. b.burst = c.burst
  BY <1>1
<1>. QED
  BY <1>2 DEF PlaceInv, ChainPlaced

(* When a chain may close, every counted tile is written.                         *)
LEMMA ClosedIsWritten ==
  ASSUME PlaceInv, ChainComplete, NEW burst \in DOMAIN at.begun,
         NEW i \in 1 .. at.begun[burst].next, NEW g \in Gens
  PROVE  << burst, g, Tiles[burst][i] >> \in FileKeys
<1>1. CASE \A h \in Gens : << burst, h, Tiles[burst][i] >> \in FileKeys
  BY <1>1
<1>2. CASE i = at.begun[burst].next /\ \E c \in at.chain : c.burst = burst
  <2>1. PICK c \in at.chain : c.burst = burst
    BY <1>2
  <2>2. {b.gen : b \in at.chain} = Gens
    BY <2>1 DEF ChainComplete
  <2>3. PICK d \in at.chain : d.gen = g
    BY <2>2
  <2>4. d.burst = burst /\ d.tile = c.tile
    BY <2>1, ChainIsOneTile
  <2>5. c.tile = Tiles[burst][i] /\ d \in file
    BY <1>2, <2>1 DEF PlaceInv, ChainPlaced
  <2>. QED
    BY <2>3, <2>4, <2>5 DEF FileKeys, Key
<1>. QED
  BY <1>1, <1>2 DEF PlaceInv, TilesWritten

(* What an accepted block of generation 0 does to the writer's place.              *)
LEMMA FirstBlockEffect ==
  ASSUME PlaceInv, NEW b \in Blocks, b.gen = 0, WriteBlock(b)
  PROVE  LET n == NextTile(b.burst) IN
         /\ ChainComplete
         /\ b.burst \in at.active \/ b.burst \notin DOMAIN at.begun
         /\ n \in Nat /\ n + 1 \in 1 .. Len(Tiles[b.burst])
         /\ b.tile = Tiles[b.burst][n + 1]
         /\ b.burst \in DOMAIN at.begun => b.form = at.begun[b.burst].form
         /\ at'.chain = {b} /\ at'.active = {b.burst}
         /\ at'.frontier = Begin(b).frontier /\ at'.overlaps = Begin(b).overlaps
         /\ DOMAIN at'.begun = DOMAIN at.begun \cup {b.burst}
         /\ at'.begun[b.burst] = [form |-> b.form, next |-> n + 1]
         /\ \A burst \in DOMAIN at.begun \ {b.burst} : at'.begun[burst] = at.begun[burst]
         /\ at' = [chain |-> at'.chain, active |-> at'.active, frontier |-> at'.frontier,
                   overlaps |-> at'.overlaps, begun |-> at'.begun]
<1>. DEFINE n == NextTile(b.burst)
            w == Begin(b)
<1>1. Counted(b) /\ at' = [Count(Begun(b), b) EXCEPT !.chain = @ \cup {b}]
  BY DEF WriteBlock, Accepts
<1>2. Begun(b) = w
  BY DEF Begun
<1>3. CanBegin(b) /\ CanCount(w, b)
  BY <1>1, <1>2 DEF Counted, Reached
<1>4. b.burst \in Bursts
  BY BlocksTyped
<1>5. /\ w.chain = {} /\ w.active = {b.burst} /\ w.begun = at.begun
      /\ w = [chain |-> w.chain, active |-> w.active, frontier |-> w.frontier,
              overlaps |-> w.overlaps, begun |-> w.begun]
  <2>1. at = [chain |-> at.chain, active |-> at.active, frontier |-> at.frontier,
              overlaps |-> at.overlaps, begun |-> at.begun]
    BY DEF PlaceInv, AtTyped
  <2>2. \E kept, met : w = [at EXCEPT !.chain = {}, !.active = {b.burst},
                                     !.frontier = kept, !.overlaps = met]
    BY DEF Begin
  <2>. HIDE DEF w
  <2>. QED
    BY <2>1, <2>2
<1>. HIDE DEF w
<1>6. /\ b.burst \in DOMAIN at.begun => Place(w, b) = at.begun[b.burst]
      /\ b.burst \notin DOMAIN at.begun => Place(w, b) = [form |-> b.form, next |-> 0]
  BY <1>5 DEF Place
<1>7. n = Place(w, b).next /\ n \in Nat
  BY <1>4, <1>6, TilesTyped DEF NextTile, PlaceInv, AtTyped
<1>8. /\ Place(w, b).form = b.form /\ n < Len(Tiles[b.burst])
      /\ Tiles[b.burst][n + 1] = b.tile
  BY <1>3, <1>7 DEF CanCount
<1>9. Place(w, b) = [form |-> b.form, next |-> n]
  BY <1>6, <1>7, <1>8 DEF PlaceInv, AtTyped
<1>. DEFINE after == [Place(w, b) EXCEPT !.next = @ + 1]
            begun == [burst \in DOMAIN w.begun \cup {b.burst} |->
                        IF burst = b.burst THEN after ELSE w.begun[burst]]
<1>10. after = [form |-> b.form, next |-> n + 1]
  BY <1>7, <1>9
<1>11. Count(w, b) = [w EXCEPT !.begun = begun]
  BY DEF Count
<1>. HIDE DEF after
<1>12. /\ DOMAIN begun = DOMAIN at.begun \cup {b.burst}
       /\ begun[b.burst] = after
       /\ \A burst \in DOMAIN at.begun \ {b.burst} : begun[burst] = at.begun[burst]
  BY <1>5
<1>. HIDE DEF begun
<1>13. at' = [chain |-> {b}, active |-> {b.burst}, frontier |-> w.frontier,
              overlaps |-> w.overlaps, begun |-> begun]
  BY <1>1, <1>2, <1>5, <1>11
<1>14. ChainComplete /\ (b.burst \in at.active \/ b.burst \notin DOMAIN at.begun)
  BY <1>3 DEF CanBegin
<1>15. n + 1 \in 1 .. Len(Tiles[b.burst])
  BY <1>4, <1>7, <1>8, TilesTyped
<1>16. b.burst \in DOMAIN at.begun => b.form = at.begun[b.burst].form
  BY <1>6, <1>8
<1>. QED
  BY <1>7, <1>8, <1>10, <1>12, <1>13, <1>14, <1>15, <1>16 DEF w

(* And of a later generation: it joins the open chain, on whose tile it is.        *)
LEMMA LaterBlockEffect ==
  ASSUME PlaceInv, NEW b \in Blocks, b.gen # 0, WriteBlock(b)
  PROVE  /\ \E c \in at.chain : /\ c.burst = b.burst /\ c.tile = b.tile
                                /\ c.gen = b.gen - 1 /\ c.form = b.form
         /\ at'.chain = at.chain \cup {b}
         /\ at'.active = at.active /\ at'.frontier = at.frontier
         /\ at'.overlaps = at.overlaps
         /\ DOMAIN at'.begun = DOMAIN at.begun
         /\ \A burst \in DOMAIN at.begun : at'.begun[burst] = at.begun[burst]
         /\ at' = [chain |-> at'.chain, active |-> at'.active, frontier |-> at'.frontier,
                   overlaps |-> at'.overlaps, begun |-> at'.begun]
<1>1. Accepts(b) /\ at' = [Count(Begun(b), b) EXCEPT !.chain = @ \cup {b}]
  BY DEF WriteBlock
<1>2. Begun(b) = at
  BY DEF Begun
<1>3. JoinsChain(at, b)
  BY <1>1, <1>2 DEF Accepts
<1>4. b.gen \in Gens /\ b.gen - 1 \in 0 .. b.gen - 1
  BY BlocksTyped, PlanAssumption DEF Gens
<1>5. b.gen - 1 \in b.parents
  <2>1. PICK oldest \in 0 .. b.gen - 1 : b.parents = oldest .. b.gen - 1
    BY <1>3 DEF JoinsChain, ProperParents
  <2>. QED
    BY <2>1, <1>4, PlanAssumption DEF Gens
<1>6. PICK c \in at.chain : Key(c) = << b.burst, b.gen - 1, b.tile >> /\ c.form = b.form
  BY <1>3, <1>5 DEF JoinsChain
<1>7. c.burst = b.burst /\ c.tile = b.tile /\ c.gen = b.gen - 1
  BY <1>6 DEF Key
<1>8. b.burst \in DOMAIN at.begun
  BY <1>6, <1>7 DEF PlaceInv, ChainPlaced, BlocksPlaced
<1>. DEFINE begun == [burst \in DOMAIN at.begun \cup {b.burst} |->
                        IF burst = b.burst THEN Place(at, b) ELSE at.begun[burst]]
<1>9. Count(at, b) = [at EXCEPT !.begun = begun]
  BY DEF Count
<1>10. /\ DOMAIN begun = DOMAIN at.begun
       /\ \A burst \in DOMAIN at.begun : begun[burst] = at.begun[burst]
  BY <1>8 DEF Place
<1>. HIDE DEF begun
<1>11. at' = [chain |-> at.chain \cup {b}, active |-> at.active, frontier |-> at.frontier,
              overlaps |-> at.overlaps, begun |-> begun]
  BY <1>1, <1>2, <1>9 DEF PlaceInv, AtTyped
<1>. QED
  BY <1>6, <1>7, <1>10, <1>11

(* What is dropped ends above the first row any later tile of the burst can read.   *)
LEMMA FutureRowIsFirst ==
  ASSUME NEW burst \in Bursts, NEW n \in Nat, n < Len(Tiles[burst])
  PROVE  /\ FutureMinRow(burst, n) \in Nat
         /\ \A j \in n + 1 .. Len(Tiles[burst]) :
              FutureMinRow(burst, n) <= Tiles[burst][j].native.top
<1>. DEFINE tops == {Tiles[burst][j].native.top : j \in n + 1 .. Len(Tiles[burst])}
<1>1. Len(Tiles[burst]) \in Nat
      /\ \A j \in n + 1 .. Len(Tiles[burst]) : Tiles[burst][j].native.top \in Nat
  BY TilesTyped DEF Grids
<1>2. tops \in SUBSET Nat /\ tops # {}
  <2>1. n + 1 \in n + 1 .. Len(Tiles[burst])
    BY <1>1
  <2>2. Tiles[burst][n + 1].native.top \in tops
    BY <2>1
  <2>. QED
    BY <1>1, <2>2
<1>3. FutureMinRow(burst, n) = Min(tops)
  BY DEF FutureMinRow
<1>. HIDE DEF tops
<1>4. Min(tops) \in tops /\ \A t \in tops : Min(tops) <= t
  BY <1>2, MinIsLeast
<1>. QED
  BY <1>2, <1>3, <1>4 DEF tops

LEMMA FrontierEffect ==
  ASSUME PlaceInv, NEW b \in Blocks, b.gen = 0, WriteBlock(b)
  PROVE  LET n == NextTile(b.burst) IN
         /\ \A o \in at'.frontier :
              /\ b.burst \in at.active
              /\ o \in at.frontier \/ \E c \in at.chain : o = << c.burst, c.tile >>
         /\ \A c \in file :
              c.burst \in at.active /\ b.burst \in at.active
              /\ (c \in at.chain \/ << c.burst, c.tile >> \in at.frontier)
                => \/ << c.burst, c.tile >> \in at'.frontier
                   \/ \A j \in n + 1 .. Len(Tiles[b.burst]) :
                        c.tile.native.bottom <= Tiles[b.burst][j].native.top
         /\ at'.overlaps = {o \in at'.frontier : Overlap(o[2].native, b.tile.native)}
<1>. DEFINE n == NextTile(b.burst)
            finished == {<< c.burst, c.tile >> : c \in at.chain}
            before   == IF b.burst \in at.active THEN at.frontier \cup finished ELSE {}
            kept     == {c \in before : c[2].native.bottom > FutureMinRow(b.burst, n)}
            met      == {c \in kept : Overlap(c[2].native, b.tile.native)}
<1>1. /\ n \in Nat /\ n < Len(Tiles[b.burst])
      /\ at'.frontier = Begin(b).frontier /\ at'.overlaps = Begin(b).overlaps
  <2>1. /\ n \in Nat /\ n + 1 \in 1 .. Len(Tiles[b.burst])
        /\ at'.frontier = Begin(b).frontier /\ at'.overlaps = Begin(b).overlaps
    BY FirstBlockEffect
  <2>. QED
    BY <2>1, BlocksTyped, TilesTyped
<1>2. Begin(b) = [at EXCEPT !.chain = {}, !.active = {b.burst},
                            !.frontier = kept, !.overlaps = met]
  BY DEF Begin
<1>3. at = [chain |-> at.chain, active |-> at.active, frontier |-> at.frontier,
            overlaps |-> at.overlaps, begun |-> at.begun]
  BY DEF PlaceInv, AtTyped
<1>4. at'.frontier = kept /\ at'.overlaps = met
  <2>. HIDE DEF kept, met
  <2>. QED
    BY <1>1, <1>2, <1>3
<1>5. b.burst \in Bursts
  BY BlocksTyped
<1>6. /\ FutureMinRow(b.burst, n) \in Nat
      /\ \A j \in n + 1 .. Len(Tiles[b.burst]) :
           FutureMinRow(b.burst, n) <= Tiles[b.burst][j].native.top
           /\ Tiles[b.burst][j].native.top \in Nat
  <2>1. \A j \in n + 1 .. Len(Tiles[b.burst]) : Tiles[b.burst][j].native.top \in Nat
    BY <1>1, <1>5, TilesTyped DEF Grids
  <2>. HIDE DEF n
  <2>. QED
    BY <1>1, <1>5, <2>1, FutureRowIsFirst
<1>7. ASSUME NEW c \in file, c.burst \in at.active, b.burst \in at.active,
             c \in at.chain \/ << c.burst, c.tile >> \in at.frontier
      PROVE  \/ << c.burst, c.tile >> \in kept
             \/ \A j \in n + 1 .. Len(Tiles[b.burst]) :
                  c.tile.native.bottom <= Tiles[b.burst][j].native.top
  <2>1. << c.burst, c.tile >> \in before
    BY <1>7
  <2>2. c.tile.native.bottom \in Nat
    BY BlocksTyped DEF Grids, PlaceInv, AtTyped
  <2>3. CASE c.tile.native.bottom > FutureMinRow(b.burst, n)
    BY <2>1, <2>3
  <2>4. CASE c.tile.native.bottom <= FutureMinRow(b.burst, n)
    <3>. HIDE DEF n
    <3>. QED
      BY <2>2, <2>4, <1>6
  <2>. HIDE DEF n, before
  <2>. QED
    BY <1>6, <2>2, <2>3, <2>4
<1>8. \A o \in kept : /\ b.burst \in at.active
                      /\ o \in at.frontier \/ \E c \in at.chain : o = << c.burst, c.tile >>
  OBVIOUS
<1>. HIDE DEF n, kept
<1>. QED
  BY <1>4, <1>7, <1>8 DEF n

(* The place of the writer stays right when a tile begins ...                      *)
LEMMA PlaceFirstBlock ==
  ASSUME PlaceInv, NEW b \in Blocks, b.gen = 0, WriteBlock(b)
  PROVE  PlaceInv'
<1>. DEFINE n == NextTile(b.burst)
<1>1. /\ ChainComplete
      /\ b.burst \in at.active \/ b.burst \notin DOMAIN at.begun
      /\ n \in Nat /\ n + 1 \in 1 .. Len(Tiles[b.burst])
      /\ b.tile = Tiles[b.burst][n + 1]
      /\ b.burst \in DOMAIN at.begun => b.form = at.begun[b.burst].form
      /\ at'.chain = {b} /\ at'.active = {b.burst}
      /\ DOMAIN at'.begun = DOMAIN at.begun \cup {b.burst}
      /\ at'.begun[b.burst] = [form |-> b.form, next |-> n + 1]
      /\ \A burst \in DOMAIN at.begun \ {b.burst} : at'.begun[burst] = at.begun[burst]
      /\ at' = [chain |-> at'.chain, active |-> at'.active, frontier |-> at'.frontier,
                overlaps |-> at'.overlaps, begun |-> at'.begun]
  BY FirstBlockEffect
<1>2. /\ \A o \in at'.frontier :
           /\ b.burst \in at.active
           /\ o \in at.frontier \/ \E c \in at.chain : o = << c.burst, c.tile >>
      /\ \A c \in file :
           c.burst \in at.active /\ b.burst \in at.active
           /\ (c \in at.chain \/ << c.burst, c.tile >> \in at.frontier)
             => \/ << c.burst, c.tile >> \in at'.frontier
                \/ \A j \in n + 1 .. Len(Tiles[b.burst]) :
                     c.tile.native.bottom <= Tiles[b.burst][j].native.top
      /\ at'.overlaps = {o \in at'.frontier : Overlap(o[2].native, b.tile.native)}
  BY FrontierEffect
<1>3. file' = file \cup {b} /\ b.burst \in Bursts /\ Len(Tiles[b.burst]) \in Nat
  BY BlocksTyped, TilesTyped DEF WriteBlock
<1>4. b.burst \in DOMAIN at.begun => n = at.begun[b.burst].next
  BY DEF NextTile
<1>5. b.burst \in at.active => at.active = {b.burst} /\ b.burst \in DOMAIN at.begun
  <2>. SUFFICES ASSUME b.burst \in at.active
                PROVE  at.active = {b.burst} /\ b.burst \in DOMAIN at.begun
    OBVIOUS
  <2>1. PICK c \in at.chain : TRUE
    BY DEF PlaceInv, ChainPlaced
  <2>2. at.active = {c.burst} /\ c \in file
    BY <2>1 DEF PlaceInv, ChainPlaced
  <2>. QED
    BY <2>2 DEF PlaceInv, BlocksPlaced
<1>. HIDE DEF n
<1>6. AtTyped'
  <2>1. file' \subseteq Blocks /\ IsFiniteSet(file')
    BY <1>3, FS_AddElement DEF PlaceInv, AtTyped
  <2>2. \A burst \in DOMAIN at'.begun :
          /\ burst \in Bursts
          /\ at'.begun[burst] = [form |-> at'.begun[burst].form, next |-> at'.begun[burst].next]
          /\ at'.begun[burst].next \in 1 .. Len(Tiles[burst])
    BY <1>1, <1>3 DEF PlaceInv, AtTyped
  <2>. QED
    BY <1>1, <2>1, <2>2 DEF AtTyped
<1>7. BlocksPlaced'
  <2>. SUFFICES ASSUME NEW c \in file'
                PROVE  /\ c.burst \in DOMAIN at'.begun /\ c.form = at'.begun[c.burst].form
                       /\ \E i \in 1 .. at'.begun[c.burst].next : c.tile = Tiles[c.burst][i]
    BY DEF BlocksPlaced
  <2>1. CASE c = b
    BY <1>1, <1>3, <2>1
  <2>2. CASE c \in file
    <3>1. /\ c.burst \in DOMAIN at.begun /\ c.form = at.begun[c.burst].form
          /\ \E i \in 1 .. at.begun[c.burst].next : c.tile = Tiles[c.burst][i]
      BY <2>2 DEF PlaceInv, BlocksPlaced
    <3>2. CASE c.burst # b.burst
      BY <1>1, <3>1, <3>2
    <3>3. CASE c.burst = b.burst
      <4>1. PICK i \in 1 .. n : c.tile = Tiles[c.burst][i]
        BY <1>4, <3>1, <3>3
      <4>2. i \in 1 .. n + 1
        BY <1>1
      <4>3. at'.begun[c.burst].next = n + 1 /\ c.form = at'.begun[c.burst].form
        BY <1>1, <3>1, <3>3
      <4>. QED
        BY <1>1, <3>1, <4>1, <4>2, <4>3
    <3>. QED
      BY <3>2, <3>3
  <2>. QED
    BY <1>3, <2>1, <2>2
<1>8. \A c \in file : c.burst = b.burst => c.tile # b.tile
  <2>. SUFFICES ASSUME NEW c \in file, c.burst = b.burst PROVE c.tile # b.tile
    OBVIOUS
  <2>1. b.burst \in DOMAIN at.begun
        /\ \E i \in 1 .. at.begun[b.burst].next : c.tile = Tiles[b.burst][i]
    BY DEF PlaceInv, BlocksPlaced
  <2>2. PICK i \in 1 .. n : c.tile = Tiles[b.burst][i]
    BY <1>4, <2>1
  <2>3. i \in 1 .. Len(Tiles[b.burst]) /\ i < n + 1
    BY <1>1, <1>3
  <2>4. Tiles[b.burst][i] # Tiles[b.burst][n + 1]
    BY <1>1, <1>3, <2>3, TilesDiffer
  <2>. QED
    BY <1>1, <2>2, <2>4
<1>9. ChainPlaced'
  <2>1. \A g \in 0 .. b.gen : g = b.gen
    OBVIOUS
  <2>2. \A c \in file' : c.burst = b.burst /\ c.tile = b.tile => c = b
    BY <1>3, <1>8
  <2>3. b.tile = Tiles[b.burst][at'.begun[b.burst].next]
    BY <1>1
  <2>. QED
    BY <1>1, <1>3, <2>1, <2>2, <2>3 DEF ChainPlaced
<1>10. TilesWritten'
  <2>. SUFFICES ASSUME NEW burst \in DOMAIN at'.begun, NEW i \in 1 .. at'.begun[burst].next
                PROVE  \/ \A g \in Gens : << burst, g, Tiles[burst][i] >> \in FileKeys'
                       \/ i = at'.begun[burst].next /\ \E c \in at'.chain : c.burst = burst
    BY DEF TilesWritten
  <2>1. FileKeys \subseteq FileKeys'
    BY <1>3 DEF FileKeys, Key
  <2>2. CASE burst = b.burst /\ i = n + 1
    BY <1>1, <2>2
  <2>3. CASE ~ (burst = b.burst /\ i = n + 1)
    <3>1. burst \in DOMAIN at.begun /\ i \in 1 .. at.begun[burst].next
      <4>1. CASE burst # b.burst
        BY <1>1, <4>1
      <4>2. CASE burst = b.burst
        <5>1. i \in 1 .. n
          BY <1>1, <2>3, <4>2
        <5>2. burst \in DOMAIN at.begun
          BY <4>2, <5>1 DEF n, NextTile
        <5>. QED
          BY <1>4, <4>2, <5>1, <5>2
      <4>. QED
        BY <4>1, <4>2
    <3>2. \A g \in Gens : << burst, g, Tiles[burst][i] >> \in FileKeys
      BY <1>1, <3>1, ClosedIsWritten
    <3>. QED
      BY <2>1, <3>2
  <2>. QED
    BY <2>2, <2>3
<1>11. ASSUME NEW c \in file, c.burst = b.burst
       PROVE  \/ << c.burst, c.tile >> \in at'.frontier
              \/ \A j \in n + 1 .. Len(Tiles[b.burst]) :
                   c.tile.native.bottom <= Tiles[b.burst][j].native.top
  <2>1. c.burst \in DOMAIN at.begun
    BY DEF PlaceInv, BlocksPlaced
  <2>2. c.burst \in at.active /\ b.burst \in at.active
    BY <1>1, <1>11, <2>1
  <2>3. \/ c \in at.chain
        \/ << c.burst, c.tile >> \in at.frontier
        \/ \A j \in at.begun[c.burst].next + 1 .. Len(Tiles[c.burst]) :
             c.tile.native.bottom <= Tiles[c.burst][j].native.top
    BY <2>2 DEF PlaceInv, FrontierKeeps
  <2>4. CASE c \in at.chain \/ << c.burst, c.tile >> \in at.frontier
    BY <1>2, <2>2, <2>4
  <2>5. CASE \A j \in at.begun[c.burst].next + 1 .. Len(Tiles[c.burst]) :
               c.tile.native.bottom <= Tiles[c.burst][j].native.top
    BY <1>4, <1>11, <2>1, <2>5
  <2>. QED
    BY <2>3, <2>4, <2>5
<1>12. FrontierKeeps'
  <2>. SUFFICES ASSUME NEW c \in file', c.burst \in at'.active
                PROVE  \/ c \in at'.chain
                       \/ << c.burst, c.tile >> \in at'.frontier
                       \/ \A j \in at'.begun[c.burst].next + 1 .. Len(Tiles[c.burst]) :
                            c.tile.native.bottom <= Tiles[c.burst][j].native.top
    BY DEF FrontierKeeps
  <2>1. c.burst = b.burst /\ at'.begun[c.burst].next = n + 1
    BY <1>1
  <2>2. n + 2 .. Len(Tiles[b.burst]) \subseteq n + 1 .. Len(Tiles[b.burst]) /\ (n + 1) + 1 = n + 2
    BY <1>1, <1>3
  <2>3. CASE c = b
    BY <1>1, <2>3
  <2>4. CASE c \in file
    BY <1>11, <2>1, <2>2, <2>4
  <2>. QED
    BY <1>3, <2>3, <2>4
<1>13. ASSUME NEW o \in at'.frontier
       PROVE  o[1] = b.burst /\ \E i \in 1 .. n : o[2] = Tiles[b.burst][i]
  <2>1. b.burst \in at.active /\ at.active = {b.burst} /\ b.burst \in DOMAIN at.begun
    BY <1>2, <1>5
  <2>2. CASE o \in at.frontier
    <3>1. o[1] = b.burst /\ \E i \in 1 .. at.begun[o[1]].next - 1 : o[2] = Tiles[o[1]][i]
      BY <2>1, <2>2 DEF PlaceInv, FrontierPlaced
    <3>2. PICK i \in 1 .. n - 1 : o[2] = Tiles[b.burst][i]
      BY <1>4, <2>1, <3>1
    <3>3. i \in 1 .. n
      BY <1>1
    <3>. QED
      BY <3>1, <3>2, <3>3
  <2>3. CASE \E c \in at.chain : o = << c.burst, c.tile >>
    <3>1. PICK c \in at.chain : o = << c.burst, c.tile >>
      BY <2>3
    <3>2. at.active = {c.burst} /\ c.tile = Tiles[c.burst][at.begun[c.burst].next]
      BY DEF PlaceInv, ChainPlaced
    <3>3. c.burst = b.burst
      BY <2>1, <3>2
    <3>4. n \in 1 .. n
      BY <1>1, <1>4, <2>1 DEF PlaceInv, AtTyped
    <3>. QED
      BY <1>4, <2>1, <3>1, <3>2, <3>3, <3>4
  <2>. QED
    BY <1>2, <2>2, <2>3
<1>14. at'.begun[b.burst].next - 1 = n
  BY <1>1
<1>15. FrontierPlaced'
  BY <1>1, <1>13, <1>14 DEF FrontierPlaced
<1>16. OverlapsMeet'
  <2>1. ASSUME NEW o \in at'.overlaps
        PROVE  o[1] = b.burst
               /\ \E i \in 1 .. at'.begun[b.burst].next - 1 : o[2] = Tiles[b.burst][i]
    BY <1>2, <1>13, <1>14, <2>1
  <2>2. ASSUME NEW c \in file' \ at'.chain, c.burst = b.burst,
               Overlap(c.tile.native, b.tile.native)
        PROVE  << c.burst, c.tile >> \in at'.overlaps
    <3>1. c \in file
      BY <1>1, <1>3, <2>2
    <3>2. << c.burst, c.tile >> \in at'.frontier
          \/ c.tile.native.bottom <= b.tile.native.top
      BY <1>1, <1>11, <2>2, <3>1
    <3>3. c.tile.native.bottom \in Nat /\ b.tile.native.top \in Nat
      BY <3>1, BlocksTyped DEF Grids, PlaceInv, AtTyped
    <3>4. << c.burst, c.tile >> \in at'.frontier
      BY <2>2, <3>2, <3>3 DEF Overlap
    <3>. QED
      BY <1>2, <2>2, <3>4
  <2>. QED
    BY <1>1, <2>1, <2>2 DEF OverlapsMeet
<1>. QED
  BY <1>6, <1>7, <1>9, <1>10, <1>12, <1>15, <1>16 DEF PlaceInv

(* ... and when a generation joins it.                                            *)
LEMMA PlaceLaterBlock ==
  ASSUME PlaceInv, NEW b \in Blocks, b.gen # 0, WriteBlock(b)
  PROVE  PlaceInv'
<1>1. PICK d \in at.chain : /\ d.burst = b.burst /\ d.tile = b.tile
                            /\ d.gen = b.gen - 1 /\ d.form = b.form
  BY LaterBlockEffect
<1>2. /\ at'.chain = at.chain \cup {b}
      /\ at'.active = at.active /\ at'.frontier = at.frontier
      /\ at'.overlaps = at.overlaps
      /\ DOMAIN at'.begun = DOMAIN at.begun
      /\ \A burst \in DOMAIN at.begun : at'.begun[burst] = at.begun[burst]
      /\ at' = [chain |-> at'.chain, active |-> at'.active, frontier |-> at'.frontier,
                overlaps |-> at'.overlaps, begun |-> at'.begun]
  BY LaterBlockEffect
<1>3. file' = file \cup {b} /\ b.gen \in Gens
  BY BlocksTyped DEF WriteBlock
<1>4. /\ d \in file /\ at.active = {b.burst}
      /\ b.tile = Tiles[b.burst][at.begun[b.burst].next]
      /\ \A c \in file : c.burst = b.burst /\ c.tile = b.tile => c \in at.chain
      /\ \A g \in 0 .. b.gen - 1 : \E c \in at.chain : c.gen = g
  BY <1>1 DEF PlaceInv, ChainPlaced
<1>5. b.burst \in DOMAIN at.begun /\ b.form = at.begun[b.burst].form
      /\ \E i \in 1 .. at.begun[b.burst].next : b.tile = Tiles[b.burst][i]
  BY <1>1, <1>4 DEF PlaceInv, BlocksPlaced
<1>6. AtTyped'
  <2>1. file' \subseteq Blocks /\ IsFiniteSet(file')
    BY <1>3, FS_AddElement DEF PlaceInv, AtTyped
  <2>. QED
    BY <1>2, <2>1 DEF PlaceInv, AtTyped
<1>7. BlocksPlaced'
  BY <1>2, <1>3, <1>5 DEF PlaceInv, BlocksPlaced
<1>8. ChainPlaced'
  <2>1. ASSUME NEW c \in at'.chain
        PROVE  /\ at'.active = {c.burst}
               /\ c.tile = Tiles[c.burst][at'.begun[c.burst].next]
               /\ \A e \in file' : e.burst = c.burst /\ e.tile = c.tile => e \in at'.chain
               /\ \A g \in 0 .. c.gen : \E e \in at'.chain : e.gen = g
    <3>1. CASE c = b
      <4>1. \A g \in 0 .. b.gen : g \in 0 .. b.gen - 1 \/ g = b.gen
        BY <1>3, PlanAssumption DEF Gens
      <4>2. \A g \in 0 .. c.gen : \E e \in at'.chain : e.gen = g
        BY <1>2, <1>4, <3>1, <4>1
      <4>. QED
        BY <1>2, <1>3, <1>4, <1>5, <3>1, <4>2
    <3>2. CASE c \in at.chain
      <4>1. c.burst = b.burst /\ c.tile = b.tile
        BY <1>1, <3>2, ChainIsOneTile
      <4>2. \A g \in 0 .. c.gen : \E e \in at.chain : e.gen = g
        BY <3>2 DEF PlaceInv, ChainPlaced
      <4>. QED
        BY <1>2, <1>3, <1>4, <1>5, <4>1, <4>2
    <3>. QED
      BY <1>2, <3>1, <3>2
  <2>2. at'.chain \subseteq file' /\ at'.chain # {}
    BY <1>2, <1>3 DEF PlaceInv, ChainPlaced
  <2>. QED
    BY <2>1, <2>2 DEF ChainPlaced
<1>9. TilesWritten'
  <2>1. FileKeys \subseteq FileKeys'
    BY <1>3 DEF FileKeys, Key
  <2>. QED
    BY <1>2, <2>1 DEF PlaceInv, TilesWritten
<1>10. FrontierKeeps'
  <2>. SUFFICES ASSUME NEW c \in file', c.burst \in at'.active
                PROVE  \/ c \in at'.chain
                       \/ << c.burst, c.tile >> \in at'.frontier
                       \/ \A j \in at'.begun[c.burst].next + 1 .. Len(Tiles[c.burst]) :
                            c.tile.native.bottom <= Tiles[c.burst][j].native.top
    BY DEF FrontierKeeps
  <2>1. CASE c = b
    BY <1>2, <2>1
  <2>2. CASE c \in file
    <3>1. \/ c \in at.chain
          \/ << c.burst, c.tile >> \in at.frontier
          \/ \A j \in at.begun[c.burst].next + 1 .. Len(Tiles[c.burst]) :
               c.tile.native.bottom <= Tiles[c.burst][j].native.top
      BY <1>2, <2>2 DEF PlaceInv, FrontierKeeps
    <3>2. at'.begun[c.burst] = at.begun[c.burst]
      BY <1>2, <2>2 DEF PlaceInv, BlocksPlaced
    <3>. QED
      BY <1>2, <3>1, <3>2
  <2>. QED
    BY <1>3, <2>1, <2>2
<1>11. FrontierPlaced'
  <2>. SUFFICES ASSUME NEW o \in at.frontier
                PROVE  /\ o[1] \in at'.active
                       /\ \E i \in 1 .. at'.begun[o[1]].next - 1 : o[2] = Tiles[o[1]][i]
    BY <1>2 DEF FrontierPlaced
  <2>1. /\ o[1] \in at.active
        /\ \E i \in 1 .. at.begun[o[1]].next - 1 : o[2] = Tiles[o[1]][i]
    BY DEF PlaceInv, FrontierPlaced
  <2>2. o[1] = b.burst
    BY <1>4, <2>1
  <2>. QED
    BY <1>2, <1>5, <2>1, <2>2
<1>12. OverlapsMeet'
  <2>1. at'.begun[b.burst] = at.begun[b.burst]
    BY <1>2, <1>5
  <2>2. \A c \in at'.chain : c.burst = b.burst /\ c.tile = b.tile
    BY <1>1, <1>2, ChainIsOneTile
  <2>3. /\ \A o \in at.overlaps :
             o[1] = b.burst
             /\ \E i \in 1 .. at.begun[b.burst].next - 1 : o[2] = Tiles[b.burst][i]
        /\ \A c \in file \ at.chain :
             c.burst = b.burst /\ Overlap(c.tile.native, b.tile.native)
               => << c.burst, c.tile >> \in at.overlaps
    BY <1>1 DEF PlaceInv, OverlapsMeet
  <2>. QED
    BY <1>2, <1>3, <2>1, <2>2, <2>3 DEF OverlapsMeet
<1>. QED
  BY <1>6, <1>7, <1>8, <1>9, <1>10, <1>11, <1>12 DEF PlaceInv

(***************************************************************************)
(* The identity index                                                      *)
(***************************************************************************)

(* Blocks list finitely many records, and a run no more than its blocks together.   *)
LEMMA RecordsAreFinite ==
  ASSUME NEW run \in SUBSET Blocks, IsFiniteSet(run)
  PROVE  IsFiniteSet(Records(run)) /\ Size(run) \in Nat
<1>. DEFINE nodes == [b \in run |-> << Node(b) >>]
            listed(b) == [cell \in Cells(b.tile.native) |->
                            << b.burst, b.gen, cell, cell \in b.odd >>]
            source(b) == {<< b.burst, b.gen, cell, cell \in b.odd >> :
                            cell \in Cells(b.tile.native)}
            sources == [b \in run |-> source(b)]
<1>1. IsFiniteSet({nodes[b] : b \in run})
  <2>. HIDE DEF nodes
  <2>. QED
    BY ImageIsFinite
<1>2. ASSUME NEW b \in run PROVE IsFiniteSet(source(b))
  <2>1. b.tile.native \in Grids
    BY BlocksTyped
  <2>2. IsFiniteSet(Cells(b.tile.native))
    <3>1. /\ b.tile.native.top \in Int /\ b.tile.native.bottom - 1 \in Int
          /\ b.tile.native.left \in Int /\ b.tile.native.right - 1 \in Int
      BY <2>1 DEF Grids
    <3>. QED
      BY <3>1, FS_Interval, FS_Product DEF Cells
  <2>3. IsFiniteSet({listed(b)[cell] : cell \in Cells(b.tile.native)})
    <3>. HIDE DEF listed
    <3>. QED
      BY <2>2, ImageIsFinite
  <2>4. {listed(b)[cell] : cell \in Cells(b.tile.native)} = source(b)
    OBVIOUS
  <2>. HIDE DEF listed, source
  <2>. QED
    BY <2>3, <2>4
<1>3. IsFiniteSet({sources[b] : b \in run})
  <2>. HIDE DEF sources
  <2>. QED
    BY ImageIsFinite
<1>4. {sources[b] : b \in run} = {source(b) : b \in run}
      /\ {nodes[b] : b \in run} = {<< Node(b) >> : b \in run}
  OBVIOUS
<1>5. IsFiniteSet(UNION {source(b) : b \in run})
  <2>1. \A s \in {source(b) : b \in run} : IsFiniteSet(s)
    BY <1>2
  <2>2. IsFiniteSet({source(b) : b \in run})
    BY <1>3, <1>4
  <2>. HIDE DEF source
  <2>. QED
    BY <2>1, <2>2, FS_UNION
<1>6. Records(run) = {<< Node(b) >> : b \in run} \cup UNION {source(b) : b \in run}
  BY DEF Records
<1>7. IsFiniteSet(Records(run))
  <2>1. IsFiniteSet({<< Node(b) >> : b \in run})
    BY <1>1, <1>4
  <2>. DEFINE listing == UNION {source(b) : b \in run}
  <2>2. IsFiniteSet(listing) /\ Records(run) = {<< Node(b) >> : b \in run} \cup listing
    BY <1>5, <1>6
  <2>. HIDE DEF listing
  <2>3. IsFiniteSet({<< Node(b) >> : b \in run} \cup listing)
    BY <2>1, <2>2, FS_Union
  <2>. QED
    BY <2>2, <2>3
<1>. QED
  BY <1>7, FS_CardinalityType DEF Size

LEMMA RecordsOfUnion ==
  ASSUME NEW left, NEW right
  PROVE  Records(left \cup right) = Records(left) \cup Records(right)
  BY DEF Records

LEMMA SizeOfUnion ==
  ASSUME NEW left \in SUBSET Blocks, NEW right \in SUBSET Blocks,
         IsFiniteSet(left), IsFiniteSet(right)
  PROVE  Size(left \cup right) <= Size(left) + Size(right)
<1>1. IsFiniteSet(Records(left)) /\ IsFiniteSet(Records(right))
  BY RecordsAreFinite
<1>2. Size(left \cup right)
        = Size(left) + Size(right) - Cardinality(Records(left) \cap Records(right))
  BY <1>1, FS_Union, RecordsOfUnion DEF Size
<1>3. Size(left) \in Nat /\ Size(right) \in Nat
  BY RecordsAreFinite
<1>4. Cardinality(Records(left) \cap Records(right)) \in Nat
  BY <1>1, FS_Intersection, FS_CardinalityType
<1>. QED
  BY <1>2, <1>3, <1>4

LEMMA SizeOfNothing == Size({}) = 0
  BY FS_EmptySet DEF Size, Records

(* The runs of the index hold the file, each block in one run and with no other      *)
(* block of its node; the space it counts is theirs.                               *)
Sizes == [j \in DOMAIN levels |-> Size(levels[j])]

IndexTyped  == levels \in Seq(SUBSET Blocks) /\ used \in Int /\ cap \in Nat
RunsAreFile == UNION {levels[i] : i \in DOMAIN levels} = file
RunsApart   == \A i, j \in DOMAIN levels : i # j => levels[i] \cap levels[j] = {}
RunsUnique  == \A i \in DOMAIN levels : \A b, c \in levels[i] : b # c => Node(b) # Node(c)
SpaceCounted == used = IteratedSum(Sizes, 1 .. Len(levels)) /\ used <= cap

IndexInv == IndexTyped /\ RunsAreFile /\ RunsApart /\ RunsUnique /\ SpaceCounted

LEMMA LevelsTyped ==
  ASSUME IndexTyped
  PROVE  /\ Len(levels) \in Nat /\ DOMAIN levels = 1 .. Len(levels)
         /\ \A i \in 1 .. Len(levels) : levels[i] \in SUBSET Blocks
<1>. DEFINE T == SUBSET Blocks
<1>1. levels \in Seq(T)
  BY DEF IndexTyped
<1>2. \A i \in 1 .. Len(levels) : levels[i] \in T
  <2>. HIDE DEF T
  <2>. QED
    BY <1>1
<1>3. Len(levels) \in Nat /\ DOMAIN levels = 1 .. Len(levels)
  <2>. HIDE DEF T
  <2>. QED
    BY <1>1
<1>. QED
  BY <1>2, <1>3

LEMMA LevelsFinite ==
  ASSUME IndexTyped, RunsAreFile, IsFiniteSet(file)
  PROVE  \A i \in 1 .. Len(levels) :
           IsFiniteSet(levels[i]) /\ Size(levels[i]) \in Nat /\ Sizes[i] = Size(levels[i])
<1>. SUFFICES ASSUME NEW i \in 1 .. Len(levels)
              PROVE  IsFiniteSet(levels[i]) /\ Size(levels[i]) \in Nat
                     /\ Sizes[i] = Size(levels[i])
  OBVIOUS
<1>1. i \in DOMAIN levels /\ levels[i] \in SUBSET Blocks
  BY LevelsTyped
<1>2. levels[i] \subseteq file
  BY <1>1 DEF RunsAreFile
<1>3. IsFiniteSet(levels[i])
  BY <1>2, FS_Subset
<1>. QED
  BY <1>1, <1>3, RecordsAreFinite DEF Sizes

LEMMA SizeBelowIsSum ==
  ASSUME NEW i
  PROVE  SizeBelow(i) = IteratedSum(Sizes, 1 .. i - 1)
  BY DEF SizeBelow, Sizes, SumFunctionOnSet, FoldFunctionOnSet, MapThenFoldSet, IteratedSum

(* The first free level, or one more than there are.                               *)
LEMMA FirstFree ==
  ASSUME IndexTyped
  PROVE  /\ FreeLevel \in 1 .. Len(levels) + 1
         /\ FreeLevel \in 1 .. Len(levels) => levels[FreeLevel] = {}
         /\ \A i \in 1 .. FreeLevel - 1 : i \in 1 .. Len(levels) /\ levels[i] # {}
<1>. DEFINE free == {i \in 1 .. Len(levels) + 1 : i \in DOMAIN levels => levels[i] = {}}
<1>1. Len(levels) \in Nat /\ DOMAIN levels = 1 .. Len(levels)
  BY LevelsTyped
<1>2. free \in SUBSET Nat /\ free # {}
  <2>1. Len(levels) + 1 \in free
    BY <1>1
  <2>. QED
    BY <1>1, <2>1
<1>3. FreeLevel = Min(free)
  BY DEF FreeLevel
<1>. HIDE DEF free
<1>4. FreeLevel \in free /\ \A n \in free : FreeLevel <= n
  BY <1>2, <1>3, MinIsLeast
<1>5. FreeLevel \in 1 .. Len(levels) + 1
      /\ (FreeLevel \in DOMAIN levels => levels[FreeLevel] = {})
  BY <1>4 DEF free
<1>6. ASSUME NEW i \in 1 .. FreeLevel - 1
      PROVE  i \in 1 .. Len(levels) /\ levels[i] # {}
  <2>1. i \in 1 .. Len(levels) /\ i < FreeLevel
    BY <1>1, <1>5
  <2>2. i \notin free
    BY <1>4, <1>5, <2>1
  <2>. QED
    BY <1>1, <2>1, <2>2 DEF free
<1>. QED
  BY <1>1, <1>5, <1>6

(* What adding a block does to the runs.                                          *)
LEMMA AddEffect ==
  ASSUME IndexTyped, NEW b \in Blocks, AddToIndex(b)
  PROVE  /\ levels' \in Seq(SUBSET Blocks)
         /\ Len(levels') \in Nat /\ DOMAIN levels' = 1 .. Len(levels')
         /\ Len(levels') = IF FreeLevel > Len(levels) THEN FreeLevel ELSE Len(levels)
         /\ \A i \in 1 .. Len(levels') :
              levels'[i] = IF i < FreeLevel THEN {}
                           ELSE IF i = FreeLevel THEN Carry({b}, FreeLevel) ELSE levels[i]
         /\ used' = used + Size(Carry({b}, FreeLevel)) - SizeBelow(FreeLevel)
<1>. DEFINE F == FreeLevel
            carry == Carry({b}, F)
            n == IF F > Len(levels) THEN F ELSE Len(levels)
            longer == [i \in 1 .. n |->
                         IF i < F THEN {} ELSE IF i = F THEN carry ELSE levels[i]]
<1>1. levels' = longer /\ used' = used + Size(carry) - SizeBelow(F)
  BY DEF AddToIndex
<1>2. /\ F \in 1 .. Len(levels) + 1 /\ Len(levels) \in Nat
      /\ \A i \in 1 .. Len(levels) : levels[i] \in SUBSET Blocks
  BY FirstFree, LevelsTyped
<1>3. n \in Nat
  BY <1>2
<1>4. carry \in SUBSET Blocks
  <2>1. \A j \in 1 .. F - 1 : j \in 1 .. Len(levels)
    BY <1>2
  <2>. QED
    BY <1>2, <2>1 DEF Carry
<1>5. \A i \in 1 .. n : longer[i] \in SUBSET Blocks
  <2>. SUFFICES ASSUME NEW i \in 1 .. n PROVE longer[i] \in SUBSET Blocks
    OBVIOUS
  <2>1. i < F \/ i = F \/ i \in 1 .. Len(levels)
    BY <1>2
  <2>. HIDE DEF carry
  <2>. QED
    BY <1>2, <1>4, <2>1
<1>6. longer \in Seq(SUBSET Blocks) /\ Len(longer) = n
  <2>. DEFINE T == SUBSET Blocks
  <2>1. longer \in [1 .. n -> T]
    BY <1>5
  <2>. HIDE DEF n, T, longer
  <2>2. longer \in Seq(T)
    BY <1>3, <2>1
  <2>3. Len(longer) = n
    BY <1>3, <2>1, <2>2
  <2>. QED
    BY <2>2, <2>3 DEF T
<1>7. DOMAIN longer = 1 .. n
      /\ \A i \in 1 .. n : longer[i] = IF i < F THEN {} ELSE IF i = F THEN carry ELSE levels[i]
  OBVIOUS
<1>. HIDE DEF longer
<1>. QED
  BY <1>1, <1>3, <1>6, <1>7

(* A merge that is admitted mixes no nodes.                                        *)
LEMMA MergedIsUnique ==
  ASSUME IndexInv, NEW run, \A b, c \in run : b # c => Node(b) # Node(c),
         NEW f \in 1 .. Len(levels) + 1,
         \A i \in 1 .. f - 1 : MergeAdmits(run, i)
  PROVE  \A b, c \in Carry(run, f) : b # c => Node(b) # Node(c)
<1>. SUFFICES ASSUME NEW b \in Carry(run, f), NEW c \in Carry(run, f), b # c,
                     Node(b) = Node(c)
              PROVE  FALSE
  OBVIOUS
<1>1. Len(levels) \in Nat /\ DOMAIN levels = 1 .. Len(levels)
  BY LevelsTyped DEF IndexInv
<1>2. ASSUME NEW i \in 1 .. f - 1, NEW x \in levels[i], NEW y \in Carry(run, i)
      PROVE  Node(x) # Node(y)
  <2>1. {Node(z) : z \in levels[i]} \cap {Node(z) : z \in Carry(run, i)} = {}
    BY <1>2 DEF MergeAdmits
  <2>. QED
    BY <2>1
<1>3. ASSUME NEW i \in 1 .. f - 1, NEW x \in levels[i], NEW j \in 1 .. f - 1,
             NEW y \in levels[j], x # y
      PROVE  Node(x) # Node(y)
  <2>1. CASE i = j
    BY <1>1, <1>3, <2>1 DEF IndexInv, RunsUnique
  <2>2. CASE i < j
    <3>1. x \in Carry(run, j)
      BY <1>1, <2>2 DEF Carry
    <3>. QED
      BY <1>2, <3>1
  <2>3. CASE j < i
    <3>1. y \in Carry(run, i)
      BY <1>1, <2>3 DEF Carry
    <3>. QED
      BY <1>2, <3>1
  <2>. QED
    BY <1>1, <2>1, <2>2, <2>3
<1>4. ASSUME NEW i \in 1 .. f - 1, NEW x \in levels[i], NEW y \in run
      PROVE  Node(x) # Node(y)
  BY <1>2 DEF Carry
<1>5. \A x \in Carry(run, f) : x \in run \/ \E i \in 1 .. f - 1 : x \in levels[i]
  BY DEF Carry
<1>. QED
  BY <1>3, <1>4, <1>5

(* The index stays right when it takes a block in.                                 *)
LEMMA IndexWrite ==
  ASSUME IndexInv, IsFiniteSet(file), NEW b \in Blocks, b \notin file, WriteBlock(b)
  PROVE  IndexInv'
<1>. DEFINE F == FreeLevel
            carry == Carry({b}, F)
            n == Len(levels)
<1>1. /\ file' = file \cup {b} /\ cap' = cap
      /\ AddToIndex(b) /\ IndexAdmits(b)
  BY DEF WriteBlock, Accepts
<1>2. /\ n \in Nat /\ DOMAIN levels = 1 .. n
      /\ \A i \in 1 .. n : levels[i] \in SUBSET Blocks
  BY LevelsTyped DEF IndexInv
<1>3. /\ F \in 1 .. n + 1
      /\ F \in 1 .. n => levels[F] = {}
      /\ \A i \in 1 .. F - 1 : i \in 1 .. n /\ levels[i] # {}
  BY FirstFree DEF IndexInv
<1>4. /\ levels' \in Seq(SUBSET Blocks)
      /\ Len(levels') \in Nat /\ DOMAIN levels' = 1 .. Len(levels')
      /\ Len(levels') = IF F > n THEN F ELSE n
      /\ \A i \in 1 .. Len(levels') :
           levels'[i] = IF i < F THEN {} ELSE IF i = F THEN carry ELSE levels[i]
      /\ used' = used + Size(carry) - SizeBelow(F)
  BY <1>1, AddEffect DEF IndexInv
<1>5. \A i \in 1 .. n :
        IsFiniteSet(levels[i]) /\ Size(levels[i]) \in Nat /\ Sizes[i] = Size(levels[i])
  BY LevelsFinite DEF IndexInv
<1>6. carry \in SUBSET Blocks /\ carry \subseteq file'
  BY <1>1, <1>2, <1>3 DEF Carry, IndexInv, RunsAreFile
<1>7. IsFiniteSet(carry) /\ Size(carry) \in Nat
  <2>1. IsFiniteSet(file')
    BY <1>1, FS_AddElement
  <2>2. IsFiniteSet(carry)
    BY <1>6, <2>1, FS_Subset
  <2>. QED
    BY <1>6, <2>2, RecordsAreFinite
<1>. DEFINE g == Sizes
            h == [j \in DOMAIN levels' |-> Size(levels'[j])]
<1>8. /\ \A i \in 1 .. n : g[i] \in Nat
      /\ F \in 1 .. n => g[F] = 0
      /\ \A i \in 1 .. F - 1 : h[i] = 0
      /\ h[F] = Size(carry)
      /\ \A i \in F + 1 .. n : h[i] = g[i]
  <2>1. F \in 1 .. n => g[F] = 0
    BY <1>3, <1>5, SizeOfNothing
  <2>2. \A i \in 1 .. F - 1 : i \in 1 .. Len(levels')
    BY <1>2, <1>3, <1>4
  <2>3. \A i \in F + 1 .. n : i \in 1 .. Len(levels') /\ i \in 1 .. n
    BY <1>2, <1>3, <1>4
  <2>4. F \in 1 .. Len(levels')
    BY <1>2, <1>3, <1>4
  <2>. HIDE DEF F, carry
  <2>5. \A i \in 1 .. F - 1 : h[i] = 0
    BY <1>4, <2>2, SizeOfNothing, <1>3
  <2>6. h[F] = Size(carry)
    BY <1>3, <1>4, <2>4
  <2>7. \A i \in F + 1 .. n : h[i] = g[i]
    BY <1>3, <1>4, <1>5, <2>3
  <2>. QED
    BY <1>5, <2>1, <2>5, <2>6, <2>7
<1>9. h = Sizes'
  BY DEF Sizes
<1>10. SizeBelow(F) = IteratedSum(g, 1 .. F - 1)
  BY SizeBelowIsSum
<1>. HIDE DEF F, carry, g, h
<1>11. /\ IteratedSum(g, 1 .. n) = IteratedSum(g, 1 .. F - 1) + IteratedSum(g, F + 1 .. n)
       /\ IteratedSum(g, 1 .. F - 1) \in Int /\ IteratedSum(g, F + 1 .. n) \in Int
  <2>1. /\ 1 .. n = (1 .. F - 1) \cup (F .. n)
        /\ (1 .. F - 1) \cap (F .. n) = {}
    BY <1>2, <1>3
  <2>2. IsFiniteSet(1 .. F - 1) /\ IsFiniteSet(F .. n) /\ IsFiniteSet(F + 1 .. n)
    <3>1. F \in Int /\ F + 1 \in Int /\ F - 1 \in Int /\ n \in Int
      BY <1>2, <1>3
    <3>. QED
      BY <3>1, FS_Interval
  <2>3. /\ \A i \in (1 .. F - 1) \cup (F .. n) : g[i] \in Int
        /\ \A i \in F + 1 .. n : g[i] \in Int
    BY <1>2, <1>3, <1>8
  <2>4. IteratedSum(g, 1 .. n) = IteratedSum(g, 1 .. F - 1) + IteratedSum(g, F .. n)
    <3>1. IteratedSum(g, (1 .. F - 1) \cup (F .. n))
            = IteratedSum(g, 1 .. F - 1) + IteratedSum(g, F .. n)
      BY <2>1, <2>2, <2>3, SumSplits
    <3>. QED
      BY <2>1, <3>1
  <2>5. IteratedSum(g, F .. n) = IteratedSum(g, F + 1 .. n)
    <3>1. CASE F \in 1 .. n
      <4>1. F \in F .. n /\ (F .. n) \ {F} = F + 1 .. n /\ g[F] = 0
        BY <1>2, <1>8, <3>1
      <4>2. IteratedSum(g, F .. n) = g[F] + IteratedSum(g, (F .. n) \ {F})
            /\ IteratedSum(g, (F .. n) \ {F}) \in Int
        BY <2>2, <2>3, <4>1, SumTakesOut
      <4>3. IteratedSum(g, F .. n) = 0 + IteratedSum(g, F + 1 .. n)
            /\ IteratedSum(g, F + 1 .. n) \in Int
        BY <4>1, <4>2
      <4>4. \A i \in Int : 0 + i = i
        OBVIOUS
      <4>. QED
        BY <4>3, <4>4
    <3>2. CASE F = n + 1
      <4>1. F .. n = F + 1 .. n
        BY <1>2, <3>2
      <4>. QED
        BY <4>1
    <3>. QED
      BY <1>2, <1>3, <3>1, <3>2
  <2>6. IteratedSum(g, 1 .. F - 1) \in Int
    BY <2>2, <2>3, SumTakesOut
  <2>7. IteratedSum(g, F + 1 .. n) \in Int
    BY <2>2, <2>3, SumTakesOut
  <2>. QED
    BY <2>4, <2>5, <2>6, <2>7
<1>12. IteratedSum(h, 1 .. Len(levels')) = Size(carry) + IteratedSum(g, F + 1 .. n)
  <2>. DEFINE m == Len(levels')
  <2>1. /\ m \in Nat /\ F \in 1 .. m
        /\ (1 .. m) \ {F} = (1 .. F - 1) \cup (F + 1 .. m)
        /\ (1 .. F - 1) \cap (F + 1 .. m) = {}
        /\ F + 1 .. m = F + 1 .. n
    BY <1>2, <1>3, <1>4
  <2>. HIDE DEF m
  <2>2. IsFiniteSet(1 .. F - 1) /\ IsFiniteSet(F + 1 .. m) /\ IsFiniteSet(1 .. m)
    <3>1. F + 1 \in Int /\ F - 1 \in Int /\ m \in Int
      BY <1>3, <2>1
    <3>. QED
      BY <3>1, FS_Interval
  <2>3. /\ \A i \in (1 .. F - 1) \cup (F + 1 .. m) : h[i] \in Int
        /\ \A i \in 1 .. m : h[i] \in Int
    <3>1. \A i \in F + 1 .. n : i \in 1 .. n
      BY <1>3
    <3>2. \A i \in (1 .. F - 1) \cup (F + 1 .. m) : h[i] \in Int
      BY <1>8, <2>1, <3>1
    <3>. QED
      BY <1>7, <1>8, <2>1, <3>2
  <2>4. IteratedSum(h, 1 .. m) = h[F] + IteratedSum(h, (1 .. m) \ {F})
    BY <2>1, <2>2, <2>3, SumTakesOut
  <2>5. IteratedSum(h, (1 .. F - 1) \cup (F + 1 .. m))
          = IteratedSum(h, 1 .. F - 1) + IteratedSum(h, F + 1 .. m)
    BY <2>1, <2>2, <2>3, SumSplits
  <2>6. IteratedSum(h, 1 .. F - 1) = 0
    BY <1>8, <2>2, SumOfZeros
  <2>7. IteratedSum(g, F + 1 .. m) = IteratedSum(h, F + 1 .. m)
    <3>1. \A i \in F + 1 .. m : g[i] \in Int /\ h[i] = g[i]
      <4>1. \A i \in F + 1 .. n : i \in 1 .. n
        BY <1>3
      <4>. QED
        BY <1>8, <2>1, <4>1
    <3>. QED
      BY <2>2, <3>1, SumAgrees
  <2>8. IteratedSum(g, F + 1 .. n) \in Int
    BY <1>11
  <2>9. 0 + IteratedSum(g, F + 1 .. n) = IteratedSum(g, F + 1 .. n)
    BY <2>8
  <2>. QED
    BY <1>8, <2>1, <2>4, <2>5, <2>6, <2>7, <2>9 DEF m
<1>13. used = IteratedSum(g, 1 .. n) /\ used <= cap /\ used \in Int /\ cap \in Nat
  BY DEF IndexInv, SpaceCounted, IndexTyped, g
<1>14. used' = IteratedSum(Sizes', 1 .. Len(levels'))
  BY <1>4, <1>7, <1>9, <1>10, <1>11, <1>12, <1>13
<1>15. used' <= cap
  <2>1. CASE F = 1
    <3>1. carry = {b}
      BY <2>1 DEF carry, Carry, F
    <3>2. IteratedSum(g, 1 .. F - 1) = 0
      <4>1. 1 .. F - 1 = {}
        BY <2>1
      <4>. QED
        BY <1>11, <2>1, <4>1, SumOfZeros, FS_EmptySet
    <3>3. used + Size({b}) <= cap
      BY <1>1 DEF IndexAdmits
    <3>. QED
      BY <1>4, <1>7, <1>10, <1>13, <3>1, <3>2, <3>3
  <2>2. CASE F # 1
    <3>. DEFINE i == F - 1
                left == levels[i]
                right == Carry({b}, i)
    <3>1. i \in 1 .. F - 1 /\ i \in 1 .. n /\ F = i + 1
      BY <1>3, <2>2
    <3>2. MergeAdmits({b}, i) /\ left # {} /\ b \in right
      BY <1>1, <1>3, <3>1 DEF IndexAdmits, Carry, F
    <3>3. used + Size(right) - SizeBelow(i) + Size(left) + Size(right) <= cap
      BY <3>2 DEF MergeAdmits
    <3>4. carry = right \cup left
      <4>1. 1 .. F - 1 = (1 .. i - 1) \cup {i}
        BY <1>3, <3>1
      <4>. QED
        BY <4>1 DEF carry, Carry
    <3>5. IsFiniteSet(right) /\ IsFiniteSet(left) /\ right \in SUBSET Blocks
          /\ left \in SUBSET Blocks
      <4>1. right \in SUBSET carry /\ left \in SUBSET carry
        BY <3>4
      <4>. HIDE DEF right, left
      <4>. QED
        BY <1>6, <1>7, <4>1, FS_Subset
    <3>6. Size(right) \in Nat /\ Size(left) \in Nat
      BY <3>5, RecordsAreFinite
    <3>7. Size(carry) <= Size(right) + Size(left)
      BY <3>4, <3>5, SizeOfUnion
    <3>8. /\ IteratedSum(g, 1 .. F - 1) = Size(left) + IteratedSum(g, 1 .. i - 1)
          /\ IteratedSum(g, 1 .. i - 1) \in Int
      <4>1. i \in 1 .. F - 1 /\ (1 .. F - 1) \ {i} = 1 .. i - 1 /\ g[i] = Size(left)
        <5>1. (1 .. F - 1) \ {i} = 1 .. i - 1
          BY <1>3, <3>1
        <5>. QED
          BY <1>5, <3>1, <5>1 DEF g
      <4>2. IsFiniteSet(1 .. F - 1) /\ \A k \in 1 .. F - 1 : g[k] \in Int
        <5>1. F - 1 \in Int
          BY <1>3
        <5>2. IsFiniteSet(1 .. F - 1)
          BY <5>1, FS_Interval
        <5>3. \A k \in 1 .. F - 1 : k \in 1 .. n
          BY <1>3
        <5>. QED
          BY <1>8, <5>2, <5>3
      <4>. HIDE DEF i
      <4>3. IteratedSum(g, 1 .. F - 1) = g[i] + IteratedSum(g, (1 .. F - 1) \ {i})
            /\ IteratedSum(g, (1 .. F - 1) \ {i}) \in Int
        BY <4>1, <4>2, SumTakesOut
      <4>. QED
        BY <4>1, <4>3
    <3>9. SizeBelow(i) = IteratedSum(g, 1 .. i - 1)
      BY SizeBelowIsSum DEF g
    <3>. HIDE DEF i, left, right
    <3>. QED
      BY <1>4, <1>7, <1>10, <1>13, <3>3, <3>6, <3>7, <3>8, <3>9
  <2>. QED
    BY <2>1, <2>2
<1>16. SpaceCounted' /\ IndexTyped'
  <2>1. used' \in Int
    BY <1>4, <1>7, <1>10, <1>11, <1>13
  <2>. QED
    BY <1>1, <1>4, <1>13, <1>14, <1>15, <2>1 DEF SpaceCounted, IndexTyped
<1>17. RunsAreFile'
  <2>1. carry = {b} \cup UNION {levels[j] : j \in 1 .. F - 1}
    BY DEF carry, Carry, F
  <2>2. UNION {levels'[i] : i \in DOMAIN levels'} \subseteq file \cup {b}
    <3>. SUFFICES ASSUME NEW i \in 1 .. Len(levels'), NEW x \in levels'[i]
                  PROVE  x \in file \cup {b}
      BY <1>4
    <3>1. CASE i > F
      <4>1. x \in levels[i] /\ i \in 1 .. n
        BY <1>2, <1>3, <1>4, <3>1
      <4>. QED
        BY <1>2, <4>1 DEF IndexInv, RunsAreFile
    <3>2. CASE i <= F
      BY <1>1, <1>3, <1>4, <1>6, <3>2
    <3>. QED
      BY <1>3, <3>1, <3>2
  <2>3. file \cup {b} \subseteq UNION {levels'[i] : i \in DOMAIN levels'}
    <3>. SUFFICES ASSUME NEW x \in file \cup {b}
                  PROVE  \E i \in 1 .. Len(levels') : x \in levels'[i]
      BY <1>4
    <3>0. F \in 1 .. Len(levels') /\ levels'[F] = carry
      BY <1>2, <1>3, <1>4
    <3>1. CASE x \in carry
      BY <3>0, <3>1
    <3>2. CASE x \notin carry
      <4>1. PICK i \in 1 .. n : x \in levels[i]
        BY <1>2, <2>1, <3>2 DEF IndexInv, RunsAreFile
      <4>2. ~ i < F
        BY <2>1, <3>2, <4>1, <1>3
      <4>3. i # F
        BY <1>3, <4>1
      <4>4. i \in 1 .. Len(levels') /\ levels'[i] = levels[i]
        BY <1>2, <1>3, <1>4, <4>1, <4>2, <4>3
      <4>. QED
        BY <4>1, <4>4
    <3>. QED
      BY <3>1, <3>2
  <2>. QED
    BY <1>1, <2>2, <2>3 DEF RunsAreFile
<1>18. ASSUME NEW i \in 1 .. Len(levels'), i > F
       PROVE  /\ i \in 1 .. n /\ levels'[i] = levels[i] /\ levels[i] \cap carry = {}
  <2>1. i \in 1 .. n /\ levels'[i] = levels[i]
    BY <1>2, <1>3, <1>4, <1>18
  <2>2. \A j \in 1 .. F - 1 : levels[i] \cap levels[j] = {}
    BY <1>2, <1>3, <1>18, <2>1 DEF IndexInv, RunsApart
  <2>3. b \notin levels[i]
    BY <1>2, <2>1 DEF IndexInv, RunsAreFile
  <2>. QED
    BY <2>1, <2>2, <2>3 DEF carry, Carry
<1>19. RunsApart'
  <2>. SUFFICES ASSUME NEW i \in 1 .. Len(levels'), NEW j \in 1 .. Len(levels'), i < j
                PROVE  levels'[i] \cap levels'[j] = {}
    BY <1>4 DEF RunsApart
  <2>1. CASE i < F
    BY <1>4, <2>1
  <2>2. CASE i = F
    <3>1. j > F
      BY <2>2
    <3>. QED
      BY <1>4, <1>18, <2>2, <3>1, <1>3
  <2>3. CASE i > F
    <3>1. j > F
      BY <1>3, <2>3
    <3>. QED
      BY <1>2, <1>18, <2>3, <3>1 DEF IndexInv, RunsApart
  <2>. QED
    BY <1>3, <2>1, <2>2, <2>3
<1>20. RunsUnique'
  <2>1. \A x, y \in carry : x # y => Node(x) # Node(y)
    <3>1. \A x, y \in {b} : x # y => Node(x) # Node(y)
      OBVIOUS
    <3>2. F \in 1 .. Len(levels) + 1 /\ \A i \in 1 .. F - 1 : MergeAdmits({b}, i)
      BY <1>1, <1>3 DEF IndexAdmits, F
    <3>. QED
      BY <3>1, <3>2, MergedIsUnique DEF carry, F
  <2>. SUFFICES ASSUME NEW i \in 1 .. Len(levels'), NEW x \in levels'[i], NEW y \in levels'[i],
                       x # y
                PROVE  Node(x) # Node(y)
    BY <1>4 DEF RunsUnique, Node, Key
  <2>2. CASE i < F
    BY <1>4, <2>2
  <2>3. CASE i = F
    BY <1>3, <1>4, <2>1, <2>3
  <2>4. CASE i > F
    BY <1>2, <1>18, <2>4 DEF IndexInv, RunsUnique
  <2>. QED
    BY <1>3, <2>2, <2>3, <2>4
<1>. QED
  BY <1>16, <1>17, <1>19, <1>20 DEF IndexInv

(***************************************************************************)
(* The writer                                                              *)
(***************************************************************************)

(* The inductive invariant.  A poisoned or closed writer writes no more, so what      *)
(* is said of its place and its index need hold while it is live only.              *)
KeysUnique == \A b, c \in file : Key(b) = Key(c) => b = c

WriterInv ==
  /\ file \subseteq Blocks /\ IsFiniteSet(file) /\ KeysUnique
  /\ Live => PlaceInv /\ IndexInv
  /\ SharedSourcesAgree /\ CompleteFileHoldsThePlan /\ NodesUnique

LEMMA WriterInit == Init => WriterInv
<1>. SUFFICES ASSUME Init PROVE WriterInv
  OBVIOUS
<1>1. /\ phase = "open" /\ file = {} /\ levels = << >> /\ used = 0 /\ cap \in Nat
      /\ at = [chain |-> {}, active |-> {}, frontier |-> {}, overlaps |-> {},
               begun |-> << >>]
  BY GridAssumption DEF Init
<1>2. DOMAIN at.begun = {} /\ at.chain = {} /\ at.frontier = {} /\ at.active = {}
  BY <1>1
<1>3. IsFiniteSet(file)
  BY <1>1, FS_EmptySet
<1>4. PlaceInv
  BY <1>1, <1>2, <1>3
     DEF PlaceInv, AtTyped, BlocksPlaced, ChainPlaced, TilesWritten, FrontierKeeps,
         FrontierPlaced, OverlapsMeet
<1>5. IndexInv
  <2>1. levels \in Seq(SUBSET Blocks) /\ DOMAIN levels = {} /\ Len(levels) = 0
    BY <1>1
  <2>2. IteratedSum(Sizes, 1 .. Len(levels)) = 0
    <3>1. 1 .. Len(levels) = {}
      BY <2>1
    <3>2. IsFiniteSet(1 .. Len(levels)) /\ \A x \in 1 .. Len(levels) : Sizes[x] = 0
      BY <3>1, FS_EmptySet
    <3>. QED
      BY <3>2, SumOfZeros
  <2>. QED
    BY <1>1, <2>1, <2>2
       DEF IndexInv, IndexTyped, RunsAreFile, RunsApart, RunsUnique, SpaceCounted
<1>. QED
  BY <1>1, <1>3, <1>4, <1>5
     DEF WriterInv, KeysUnique, SharedSourcesAgree, CompleteFileHoldsThePlan, NodesUnique

(* A block is compared with every block of its generation it shares a source with:    *)
(* with the chain's tile as it begins, or with none.                                *)
LEMMA WrittenAgrees ==
  ASSUME PlaceInv, NEW b \in Blocks, WriteBlock(b), NEW c \in file, SameGeneration(b, c)
  PROVE  SourcesAgree(b, c)
<1>1. PlaceInv' /\ file' = file \cup {b} /\ Accepts(b) /\ c \in Blocks
  BY PlaceFirstBlock, PlaceLaterBlock DEF WriteBlock, PlaceInv, AtTyped
<1>2. CASE ~ Overlap(b.tile.native, c.tile.native)
  BY <1>1, <1>2, ApartAgree
<1>3. CASE Overlap(b.tile.native, c.tile.native)
  <2>1. b \in at'.chain /\ at'.overlaps = Begun(b).overlaps
    <3>1. CASE b.gen = 0
      BY <3>1, FirstBlockEffect DEF Begun
    <3>2. CASE b.gen # 0
      BY <3>2, LaterBlockEffect DEF Begun
    <3>. QED
      BY <3>1, <3>2
  <2>2. c \notin at'.chain
    <3>1. Key(b) \notin FileKeys
      BY <1>1 DEF Accepts, Counted, Reached
    <3>2. c.burst = b.burst /\ c.gen = b.gen
      BY DEF SameGeneration
    <3>3. c.tile # b.tile
      BY <3>1, <3>2 DEF FileKeys, Key
    <3>. QED
      BY <1>1, <2>1, <3>2, <3>3 DEF PlaceInv, ChainPlaced
  <2>3. << c.burst, c.tile >> \in at'.overlaps
    <3>1. c \in file' \ at'.chain /\ c.burst = b.burst
          /\ Overlap(c.tile.native, b.tile.native)
      BY <1>1, <1>3, <2>2, OverlapIsMutual DEF SameGeneration
    <3>. QED
      BY <1>1, <2>1, <3>1 DEF PlaceInv, OverlapsMeet
  <2>. QED
    BY <1>1, <2>1, <2>3 DEF Accepts, AgreesWithOverlaps
<1>. QED
  BY <1>2, <1>3

LEMMA WriterWrite ==
  ASSUME WriterInv, NEW b \in Blocks, WriteBlock(b)
  PROVE  WriterInv'
<1>1. /\ file' = file \cup {b} /\ phase' = phase /\ poisoned' = poisoned
      /\ Live /\ Key(b) \notin FileKeys
  BY DEF WriteBlock, Accepts, Counted, Reached
<1>2. PlaceInv /\ IndexInv /\ IsFiniteSet(file) /\ file \subseteq Blocks
  BY <1>1 DEF WriterInv
<1>3. b \notin file
  BY <1>1 DEF FileKeys
<1>4. PlaceInv'
  BY <1>2, PlaceFirstBlock, PlaceLaterBlock
<1>5. IndexInv'
  BY <1>2, <1>3, IndexWrite
<1>6. KeysUnique'
  BY <1>1 DEF WriterInv, KeysUnique, FileKeys, Key
<1>7. SharedSourcesAgree'
  <2>. SUFFICES ASSUME NEW c \in file', NEW d \in file', SameGeneration(c, d)
                PROVE  SourcesAgree(c, d)
    BY DEF SharedSourcesAgree, SameGeneration, SourcesAgree, Cells
  <2>1. CASE c \in file /\ d \in file
    BY <2>1 DEF WriterInv, SharedSourcesAgree
  <2>2. CASE c = b /\ d \in file
    BY <1>2, <2>2, WrittenAgrees
  <2>3. CASE c \in file /\ d = b
    <3>1. SourcesAgree(d, c)
      BY <1>2, <2>3, WrittenAgrees DEF SameGeneration
    <3>. QED
      BY <3>1 DEF SourcesAgree
  <2>4. CASE c = b /\ d = b
    BY <2>4 DEF SourcesAgree
  <2>. QED
    BY <1>1, <2>1, <2>2, <2>3, <2>4
<1>8. CompleteFileHoldsThePlan' /\ NodesUnique'
  BY <1>1 DEF CompleteFileHoldsThePlan, NodesUnique, Live
<1>9. file' \subseteq Blocks /\ IsFiniteSet(file')
  BY <1>1, <1>2, FS_AddElement
<1>. QED
  BY <1>4, <1>5, <1>6, <1>7, <1>8, <1>9 DEF WriterInv

(* The counts finish compares stand for the blocks.                                 *)
LEMMA FinishedHoldsPlan ==
  ASSUME WriterInv, Live, CanFinish
  PROVE  FileKeys = Keys /\ Cardinality(file) = Cardinality(Keys)
<1>1. PlaceInv /\ KeysUnique /\ IsFiniteSet(file) /\ file \subseteq Blocks
  BY DEF WriterInv
<1>2. FileKeys \subseteq Keys
  <2>. SUFFICES ASSUME NEW b \in file PROVE Key(b) \in Keys
    BY DEF FileKeys
  <2>1. PICK i \in 1 .. at.begun[b.burst].next : b.tile = Tiles[b.burst][i]
    BY <1>1 DEF PlaceInv, BlocksPlaced
  <2>2. b.burst \in Bursts /\ b.gen \in Gens /\ b.burst \in DOMAIN at.begun
    BY <1>1, BlocksTyped DEF PlaceInv, BlocksPlaced
  <2>3. i \in 1 .. Len(Tiles[b.burst])
    BY <1>1, <2>2, TilesTyped DEF PlaceInv, AtTyped
  <2>. QED
    BY <2>1, <2>2, <2>3, TilesTyped DEF Key
<1>3. Keys \subseteq FileKeys
  <2>. SUFFICES ASSUME NEW k \in Keys PROVE k \in FileKeys
    OBVIOUS
  <2>1. PICK burst \in Bursts : \E g \in Gens : \E i \in DOMAIN Tiles[burst] :
          k = << burst, g, Tiles[burst][i] >>
    BY DEF Keys
  <2>2. PICK g \in Gens : \E i \in DOMAIN Tiles[burst] :
          k = << burst, g, Tiles[burst][i] >>
    BY <2>1
  <2>3. PICK i \in DOMAIN Tiles[burst] : k = << burst, g, Tiles[burst][i] >>
    BY <2>2
  <2>4. i \in 1 .. at.begun[burst].next /\ burst \in DOMAIN at.begun
    BY TilesTyped DEF CanFinish
  <2>5. << burst, g, Tiles[burst][i] >> \in FileKeys
    BY <1>1, <2>4, ClosedIsWritten DEF CanFinish
  <2>. QED
    BY <2>3, <2>5
<1>4. Cardinality(file) = Cardinality(Keys)
  <2>. DEFINE key == [b \in file |-> Key(b)]
  <2>1. key \in Bijection(file, Keys)
    <3>1. key \in [file -> Keys]
      BY <1>2 DEF FileKeys
    <3>2. \A b, c \in file : key[b] = key[c] => b = c
      BY <1>1 DEF KeysUnique
    <3>3. \A k \in Keys : \E b \in file : key[b] = k
      BY <1>3 DEF FileKeys
    <3>. HIDE DEF key
    <3>. QED
      BY <3>1, <3>2, <3>3 DEF Bijection, Injection, IsInjective, Surjection
  <2>2. ExistsBijection(file, Keys)
    BY <2>1 DEF ExistsBijection
  <2>. QED
    BY <1>1, <2>2, FS_Bijection
<1>. QED
  BY <1>2, <1>3, <1>4

(* The runs left at the end are merged once more, all together.                       *)
LEMMA FinishedNodesUnique ==
  ASSUME IndexInv, IndexFinishes
  PROVE  \A b, c \in file : b # c => Node(b) # Node(c)
<1>1. Len(levels) \in Nat /\ DOMAIN levels = 1 .. Len(levels)
  BY LevelsTyped DEF IndexInv
<1>2. PICK f \in 1 .. Len(levels) + 1 : f = Len(levels) + 1
  BY <1>1
<1>3. 1 .. f - 1 = DOMAIN levels
  BY <1>1, <1>2
<1>4. \A i \in 1 .. f - 1 : MergeAdmits({}, i)
  BY <1>3 DEF IndexFinishes
<1>5. PICK none : none = {}
  OBVIOUS
<1>6. \A b, c \in Carry(none, f) : b # c => Node(b) # Node(c)
  <2>1. \A b, c \in none : b # c => Node(b) # Node(c)
    BY <1>5
  <2>2. \A i \in 1 .. f - 1 : MergeAdmits(none, i)
    BY <1>4, <1>5
  <2>. QED
    BY <2>1, <2>2, MergedIsUnique
<1>7. Carry(none, f) = file
  BY <1>3, <1>5 DEF Carry, IndexInv, RunsAreFile
<1>. QED
  BY <1>6, <1>7

LEMMA WriterStep == WriterInv /\ [Next]_vars => WriterInv'
<1>. SUFFICES ASSUME WriterInv, [Next]_vars PROVE WriterInv'
  OBVIOUS
<1>1. ASSUME file' = file, ~ Live', phase' = "complete" => phase = "complete"
      PROVE  WriterInv'
  BY <1>1 DEF WriterInv, KeysUnique, SharedSourcesAgree, CompleteFileHoldsThePlan,
              NodesUnique, FileKeys
<1>2. ASSUME UNCHANGED << phase, poisoned, file, at, index, cap >> PROVE WriterInv'
  <2>1. Live' = Live /\ FileKeys' = FileKeys
    BY <1>2 DEF Live, FileKeys
  <2>2. PlaceInv => PlaceInv'
    BY <1>2, <2>1
       DEF PlaceInv, AtTyped, BlocksPlaced, ChainPlaced, TilesWritten, FrontierKeeps,
           FrontierPlaced, OverlapsMeet
  <2>3. IndexInv => IndexInv'
    BY <1>2 DEF index, IndexInv, IndexTyped, RunsAreFile, RunsApart, RunsUnique,
                SpaceCounted, Sizes
  <2>. QED
    BY <1>2, <2>1, <2>2, <2>3
       DEF WriterInv, KeysUnique, SharedSourcesAgree, CompleteFileHoldsThePlan, NodesUnique
<1>3. ASSUME NEW b \in Blocks, WriteBlock(b) PROVE WriterInv'
  BY <1>3, WriterWrite
<1>4. ASSUME NEW b \in Blocks, RefuseBlock(b) PROVE WriterInv'
  BY <1>4, <1>1 DEF RefuseBlock, Live
<1>5. ASSUME NEW k \in CarriedKeys, NEW read \in Blocks, CopySealedBlock(k, read)
      PROVE  WriterInv'
  BY <1>5, WriterWrite DEF CopySealedBlock
<1>6. ASSUME NEW burst \in Bursts, NEW g \in Gens, SealGeneration(burst, g)
      PROVE  WriterInv'
  BY <1>6, <1>2 DEF SealGeneration, index
<1>7. CASE Finish
  <2>1. Live /\ CanFinish /\ phase' = "complete" /\ file' = file
    BY <1>7 DEF Finish
  <2>2. FileKeys = Keys /\ Cardinality(file) = Cardinality(Keys)
    BY <2>1, FinishedHoldsPlan
  <2>3. \A b, c \in file : b # c => Node(b) # Node(c)
    BY <2>1, FinishedNodesUnique DEF CanFinish, WriterInv
  <2>4. ~ Live'
    BY <2>1 DEF Live
  <2>. QED
    BY <2>1, <2>2, <2>3, <2>4
       DEF WriterInv, KeysUnique, SharedSourcesAgree, CompleteFileHoldsThePlan, NodesUnique,
           FileKeys
<1>8. CASE Abandon
  BY <1>8, <1>1 DEF Abandon, Live
<1>9. CASE UNCHANGED vars
  BY <1>9, <1>2 DEF vars
<1>. QED
  BY <1>3, <1>4, <1>5, <1>6, <1>7, <1>8, <1>9 DEF Next

THEOREM WriterInvariant == Spec => []WriterInv
<1>1. Init => WriterInv
  BY WriterInit
<1>2. WriterInv /\ [Next]_vars => WriterInv'
  BY WriterStep
<1>. QED
  BY <1>1, <1>2, PTL DEF Spec

(* A file is marked complete only when it holds every planned block, each once         *)
(* (CovarianceOperatorWriter::finish).                                             *)
THEOREM CompleteHoldsThePlan == Spec => []CompleteFileHoldsThePlan
<1>1. WriterInv => CompleteFileHoldsThePlan
  BY DEF WriterInv
<1>. QED
  BY <1>1, WriterInvariant, PTL

(* The frontier evicts no chain that a later block of the burst shares sources with     *)
(* (begin_tile_chain, validate_active_overlaps).                                   *)
THEOREM SharedSourcesAlways == Spec => []SharedSourcesAgree
<1>1. WriterInv => SharedSourcesAgree
  BY DEF WriterInv
<1>. QED
  BY <1>1, WriterInvariant, PTL

(* No two blocks of a complete file hash to one node (CovarianceIdentityIndex).         *)
THEOREM NodesAlwaysUnique == Spec => []NodesUnique
<1>1. WriterInv => NodesUnique
  BY DEF WriterInv
<1>. QED
  BY <1>1, WriterInvariant, PTL

(* The index loses no run and leaks no space (insert_run).                             *)
THEOREM IndexAlwaysLists == Spec => []IndexListsTheFile
<1>1. WriterInv => IndexListsTheFile
  <2>. SUFFICES ASSUME WriterInv, Live PROVE IndexListsTheFile
    BY DEF IndexListsTheFile
  <2>1. IndexInv /\ Len(levels) \in Nat
    BY LevelsTyped DEF WriterInv, IndexInv
  <2>2. SizeBelow(Len(levels) + 1) = IteratedSum(Sizes, 1 .. Len(levels))
    <3>1. (Len(levels) + 1) - 1 = Len(levels)
      BY <2>1
    <3>2. PICK n : n = Len(levels) + 1
      OBVIOUS
    <3>3. SizeBelow(n) = IteratedSum(Sizes, 1 .. n - 1)
      BY SizeBelowIsSum
    <3>. QED
      BY <3>1, <3>2, <3>3
  <2>. QED
    BY <2>1, <2>2 DEF IndexListsTheFile, IndexInv, RunsAreFile, SpaceCounted
<1>. QED
  BY <1>1, WriterInvariant, PTL

(***************************************************************************)
(* An honest capture is accepted                                           *)
(***************************************************************************)

(* A counted tile has at least its generation 0.                                    *)
LEMMA FirstsWritten ==
  ASSUME PlaceInv, NEW burst \in DOMAIN at.begun, NEW i \in 1 .. at.begun[burst].next
  PROVE  << burst, 0, Tiles[burst][i] >> \in FileKeys
<1>1. 0 \in Gens
  BY PlanAssumption DEF Gens
<1>2. CASE \A g \in Gens : << burst, g, Tiles[burst][i] >> \in FileKeys
  BY <1>1, <1>2
<1>3. CASE i = at.begun[burst].next /\ \E c \in at.chain : c.burst = burst
  <2>1. PICK c \in at.chain : c.burst = burst
    BY <1>3
  <2>2. c \in file /\ c.gen \in Nat /\ c.tile = Tiles[burst][i]
    BY <1>3, <2>1, BlocksTyped, PlanAssumption DEF PlaceInv, ChainPlaced, AtTyped, Gens
  <2>3. PICK d \in at.chain : d.gen = 0
    <3>1. 0 \in 0 .. c.gen
      BY <2>2
    <3>. QED
      BY <3>1 DEF PlaceInv, ChainPlaced
  <2>4. d.burst = burst /\ d.tile = c.tile /\ d \in file
    BY <2>1, ChainIsOneTile DEF PlaceInv, ChainPlaced
  <2>. QED
    BY <2>2, <2>3, <2>4 DEF FileKeys, Key
<1>. QED
  BY <1>2, <1>3 DEF PlaceInv, TilesWritten

(* The tiles written of a burst are those counted.                                   *)
LEMMA WrittenAreCounted ==
  ASSUME PlaceInv, NEW burst \in Bursts
  PROVE  LET written == {c.tile : c \in {d \in file : d.burst = burst}} IN
         /\ NextTile(burst) \in 0 .. Len(Tiles[burst])
         /\ Cardinality(written) = NextTile(burst)
         /\ written = {} => burst \notin DOMAIN at.begun
<1>. DEFINE written == {c.tile : c \in {d \in file : d.burst = burst}}
            n == NextTile(burst)
            plan == [i \in 1 .. n |-> Tiles[burst][i]]
<1>1. n \in 0 .. Len(Tiles[burst]) /\ Len(Tiles[burst]) \in Nat
  BY TilesTyped DEF PlaceInv, AtTyped, NextTile
<1>2. ASSUME NEW i \in 1 .. n PROVE Tiles[burst][i] \in written
  <2>1. burst \in DOMAIN at.begun /\ i \in 1 .. at.begun[burst].next
    BY <1>2 DEF NextTile
  <2>2. << burst, 0, Tiles[burst][i] >> \in FileKeys
    BY <2>1, FirstsWritten
  <2>3. PICK c \in file : Key(c) = << burst, 0, Tiles[burst][i] >>
    BY <2>2 DEF FileKeys
  <2>. QED
    BY <2>3 DEF Key
<1>3. ASSUME NEW t \in written PROVE \E i \in 1 .. n : t = Tiles[burst][i]
  BY DEF PlaceInv, BlocksPlaced, NextTile
<1>4. plan \in Bijection(1 .. n, written)
  <2>1. plan \in [1 .. n -> written]
    BY <1>2
  <2>2. \A i, j \in 1 .. n : plan[i] = plan[j] => i = j
    <3>. SUFFICES ASSUME NEW i \in 1 .. n, NEW j \in 1 .. n, i < j
                  PROVE  Tiles[burst][i] # Tiles[burst][j]
      BY <1>1
    <3>1. i \in 1 .. Len(Tiles[burst]) /\ j \in 1 .. Len(Tiles[burst])
      BY <1>1
    <3>. QED
      BY <3>1, TilesDiffer
  <2>3. \A t \in written : \E i \in 1 .. n : plan[i] = t
    BY <1>3
  <2>. HIDE DEF plan, written, n
  <2>. QED
    BY <2>1, <2>2, <2>3 DEF Bijection, Injection, IsInjective, Surjection
<1>5. Cardinality(written) = n
  <2>. HIDE DEF plan, written, n
  <2>1. IsFiniteSet(1 .. n) /\ Cardinality(1 .. n) = n
    BY <1>1, FS_Interval
  <2>2. ExistsBijection(1 .. n, written)
    BY <1>4 DEF ExistsBijection
  <2>. QED
    BY <2>1, <2>2, FS_Bijection
<1>6. ASSUME burst \in DOMAIN at.begun PROVE written # {}
  <2>1. 1 \in 1 .. n
    BY <1>6 DEF PlaceInv, AtTyped, NextTile
  <2>. QED
    BY <1>2, <2>1
<1>. QED
  BY <1>1, <1>5, <1>6

(* The space: each block is at most twice in what an insertion holds at a time, once    *)
(* in a run to be merged and once in the merged one.                                *)
Weight == [c \in Blocks |-> Size({c})]

LEMMA RunWeighs ==
  ASSUME NEW run \in SUBSET Blocks, IsFiniteSet(run)
  PROVE  Size(run) <= IteratedSum(Weight, run) /\ Size(run) \in Nat
<1>. DEFINE part == [c \in run |-> Records({c})]
<1>1. \A c \in run : IsFiniteSet(part[c]) /\ Cardinality(part[c]) <= Weight[c]
  <2>. SUFFICES ASSUME NEW c \in run
                PROVE  IsFiniteSet(Records({c})) /\ Cardinality(Records({c})) <= Weight[c]
    OBVIOUS
  <2>1. {c} \in SUBSET Blocks /\ IsFiniteSet({c})
    BY FS_Singleton
  <2>2. IsFiniteSet(Records({c})) /\ Size({c}) \in Nat
    BY <2>1, RecordsAreFinite
  <2>. QED
    BY <2>2 DEF Weight, Size
<1>2. Records(run) = UNION {part[c] : c \in run}
  <2>1. \A c \in run : part[c] = {<< Node(c) >>} \cup
                         {<< c.burst, c.gen, cell, cell \in c.odd >> :
                            cell \in Cells(c.tile.native)}
    BY DEF Records
  <2>. HIDE DEF part
  <2>. QED
    BY <2>1 DEF Records
<1>3. \A c \in run : Weight[c] \in Nat
  <2>. SUFFICES ASSUME NEW c \in run PROVE Size({c}) \in Nat
    BY DEF Weight
  <2>1. {c} \in SUBSET Blocks /\ IsFiniteSet({c})
    BY FS_Singleton
  <2>. QED
    BY <2>1, RecordsAreFinite
<1>. DEFINE w == [c \in run |-> Weight[c]]
<1>4. w \in [run -> Int] /\ \A c \in run : w[c] = Weight[c] /\ w[c] \in Int
  BY <1>3
<1>5. IteratedSum(w, run) = IteratedSum(Weight, run)
  <2>. HIDE DEF w
  <2>1. \A c \in run : w[c] \in Int /\ Weight[c] = w[c]
    BY <1>4
  <2>. QED
    BY <2>1, SumAgrees
<1>6. Cardinality(UNION {part[c] : c \in run}) <= IteratedSum(w, run)
  <2>1. \A c \in run : IsFiniteSet(part[c]) /\ Cardinality(part[c]) <= w[c]
    BY <1>1, <1>4
  <2>. HIDE DEF w, part
  <2>. QED
    BY <1>4, <2>1, UnionIsBounded
<1>. HIDE DEF part, w
<1>. QED
  BY <1>2, <1>5, <1>6, RecordsAreFinite DEF Size

LEMMA WeightsTyped == \A c \in Blocks : Weight[c] \in Nat
<1>. SUFFICES ASSUME NEW c \in Blocks PROVE Size({c}) \in Nat
  BY DEF Weight
<1>1. {c} \in SUBSET Blocks /\ IsFiniteSet({c})
  BY FS_Singleton
<1>. QED
  BY <1>1, RecordsAreFinite

LEMMA SpaceSuffices ==
  ASSUME IndexInv, IsFiniteSet(file), file \subseteq Blocks, NEW b \in Blocks, b \notin file,
         2 * IteratedSum(Weight, file \cup {b}) <= cap
  PROVE  /\ used + Size({b}) <= cap
         /\ \A i \in 1 .. FreeLevel - 1 :
              used + Size(Carry({b}, i)) - SizeBelow(i) + Size(levels[i])
                + Size(Carry({b}, i)) <= cap
<1>. DEFINE n == Len(levels)
            W(run) == IteratedSum(Weight, run)
<1>1. /\ n \in Nat /\ DOMAIN levels = 1 .. n
      /\ \A i \in 1 .. n : levels[i] \in SUBSET Blocks
  BY LevelsTyped DEF IndexInv
<1>2. \A i \in 1 .. n :
        IsFiniteSet(levels[i]) /\ Size(levels[i]) \in Nat /\ Sizes[i] = Size(levels[i])
  BY LevelsFinite DEF IndexInv
<1>. HIDE DEF n
<1>3. ASSUME NEW run \in SUBSET (file \cup {b})
      PROVE  IsFiniteSet(run) /\ run \in SUBSET Blocks /\ (\A c \in run : Weight[c] \in Nat)
             /\ W(run) \in Nat /\ Size(run) <= W(run) /\ Size(run) \in Nat
  <2>1. IsFiniteSet(file \cup {b})
    BY FS_AddElement
  <2>2. IsFiniteSet(run) /\ run \in SUBSET Blocks
    BY <2>1, FS_Subset
  <2>3. \A c \in run : Weight[c] \in Nat
    BY <2>2, WeightsTyped
  <2>4. W(run) \in Nat
    BY <2>2, <2>3, SumIsMonotone
  <2>. QED
    BY <2>2, <2>3, <2>4, RunWeighs
<1>. HIDE DEF W
<1>4. ASSUME NEW i \in 1 .. n + 1
      PROVE  /\ IteratedSum(Sizes, i .. n) <= W(UNION {levels[j] : j \in i .. n})
             /\ IteratedSum(Sizes, 1 .. n)
                  = IteratedSum(Sizes, 1 .. i - 1) + IteratedSum(Sizes, i .. n)
             /\ IteratedSum(Sizes, 1 .. i - 1) \in Int /\ IteratedSum(Sizes, i .. n) \in Int
  <2>1. \A j \in i .. n : j \in 1 .. n
    BY <1>1
  <2>2. IsFiniteSet(i .. n) /\ IsFiniteSet(1 .. i - 1)
    <3>1. i \in Int /\ i - 1 \in Int /\ n \in Int
      BY <1>1
    <3>2. IsFiniteSet(i .. n)
      BY <3>1, FS_Interval
    <3>3. IsFiniteSet(1 .. i - 1)
      BY <3>1, FS_Interval
    <3>. QED
      BY <3>2, <3>3
  <2>3. \A j \in i .. n : /\ IsFiniteSet(levels[j])
                          /\ \A c \in levels[j] : Weight[c] \in Int
                          /\ Sizes[j] \in Int
                          /\ Sizes[j] <= IteratedSum(Weight, levels[j])
    <3>. SUFFICES ASSUME NEW j \in i .. n
                  PROVE  /\ IsFiniteSet(levels[j])
                         /\ \A c \in levels[j] : Weight[c] \in Int
                         /\ Sizes[j] \in Int
                         /\ Sizes[j] <= IteratedSum(Weight, levels[j])
      OBVIOUS
    <3>1. levels[j] \in SUBSET (file \cup {b})
      BY <1>1, <2>1 DEF IndexInv, RunsAreFile
    <3>2. /\ IsFiniteSet(levels[j])
          /\ \A c \in levels[j] : Weight[c] \in Nat
          /\ Size(levels[j]) <= W(levels[j])
      BY <1>3, <3>1
    <3>. QED
      BY <1>2, <2>1, <3>2 DEF W
  <2>4. \A j, k \in i .. n : j # k => levels[j] \cap levels[k] = {}
    BY <1>1, <2>1 DEF IndexInv, RunsApart
  <2>5. IteratedSum(Sizes, i .. n) <= IteratedSum(Weight, UNION {levels[j] : j \in i .. n})
    <3>. DEFINE J == i .. n
    <3>1. IsFiniteSet(J)
      BY <2>2
    <3>2. \A j, k \in J : j # k => levels[j] \cap levels[k] = {}
      BY <2>4
    <3>3. \A j \in J : /\ IsFiniteSet(levels[j])
                       /\ \A c \in levels[j] : Weight[c] \in Int
                       /\ Sizes[j] \in Int
                       /\ Sizes[j] <= IteratedSum(Weight, levels[j])
      BY <2>3
    <3>. HIDE DEF J
    <3>4. IteratedSum(Sizes, J) <= IteratedSum(Weight, UNION {levels[j] : j \in J})
      BY <3>1, <3>2, <3>3, PartsBoundSum
    <3>. QED
      BY <3>4 DEF J
  <2>6. 1 .. n = (1 .. i - 1) \cup (i .. n) /\ (1 .. i - 1) \cap (i .. n) = {}
    BY <1>1
  <2>7. \A j \in 1 .. n : Sizes[j] \in Int
    BY <1>2
  <2>8. IteratedSum(Sizes, (1 .. i - 1) \cup (i .. n))
          = IteratedSum(Sizes, 1 .. i - 1) + IteratedSum(Sizes, i .. n)
    BY <2>2, <2>6, <2>7, SumSplits
  <2>9. IteratedSum(Sizes, 1 .. i - 1) \in Int /\ IteratedSum(Sizes, i .. n) \in Int
    BY <2>2, <2>6, <2>7, SumTakesOut
  <2>. QED
    BY <2>5, <2>6, <2>8, <2>9 DEF W
<1>5. used = IteratedSum(Sizes, 1 .. n) /\ used \in Int /\ cap \in Nat
  BY DEF IndexInv, SpaceCounted, IndexTyped, n
<1>6. ASSUME NEW s \in SUBSET (file \cup {b}), NEW t \in SUBSET (file \cup {b}),
             s \cap t = {}, s \cup t = file \cup {b}
      PROVE  W(file \cup {b}) = W(s) + W(t) /\ W(s) \in Nat /\ W(t) \in Nat
  <2>1. IsFiniteSet(s) /\ IsFiniteSet(t) /\ W(s) \in Nat /\ W(t) \in Nat
    BY <1>3
  <2>2. \A c \in s \cup t : Weight[c] \in Int
    <3>1. (\A c \in s : Weight[c] \in Nat) /\ (\A c \in t : Weight[c] \in Nat)
      BY <1>3
    <3>. QED
      BY <3>1
  <2>3. IteratedSum(Weight, s \cup t) = IteratedSum(Weight, s) + IteratedSum(Weight, t)
    BY <1>6, <2>1, <2>2, SumSplits
  <2>. QED
    BY <1>6, <2>1, <2>3 DEF W
<1>7. used + Size({b}) <= cap
  <2>1. UNION {levels[j] : j \in 1 .. n} = file
    BY <1>1 DEF IndexInv, RunsAreFile
  <2>2. used <= W(file)
    <3>1. 1 \in 1 .. n + 1
      BY <1>1
    <3>. QED
      BY <1>4, <1>5, <2>1, <3>1
  <2>3. W(file \cup {b}) = W(file) + W({b}) /\ W(file) \in Nat /\ W({b}) \in Nat
    <3>1. file \in SUBSET (file \cup {b}) /\ {b} \in SUBSET (file \cup {b})
          /\ file \cap {b} = {}
      OBVIOUS
    <3>. HIDE DEF W
    <3>. QED
      BY <1>6, <3>1
  <2>4. Size({b}) <= W({b}) /\ Size({b}) \in Nat
    <3>1. {b} \in SUBSET (file \cup {b})
      OBVIOUS
    <3>. HIDE DEF W
    <3>. QED
      BY <1>3, <3>1
  <2>. HIDE DEF W
  <2>5. 2 * W(file \cup {b}) <= cap
    BY DEF W
  <2>. QED
    BY <1>5, <2>2, <2>3, <2>4, <2>5
<1>8. ASSUME NEW i \in 1 .. FreeLevel - 1
      PROVE  used + Size(Carry({b}, i)) - SizeBelow(i) + Size(levels[i])
               + Size(Carry({b}, i)) <= cap
  <2>. DEFINE right == Carry({b}, i)
              left  == levels[i]
              rest  == UNION {levels[j] : j \in i .. n}
  <2>1. i \in 1 .. n /\ i \in 1 .. n + 1
    BY <1>1, FirstFree DEF IndexInv
  <2>2. /\ right = {b} \cup UNION {levels[j] : j \in 1 .. i - 1}
        /\ right \cup rest = file \cup {b} /\ right \cap rest = {}
        /\ right \in SUBSET (file \cup {b}) /\ rest \in SUBSET (file \cup {b})
        /\ left \in SUBSET rest
    <3>1. 1 .. n = (1 .. i - 1) \cup (i .. n) /\ (1 .. i - 1) \cap (i .. n) = {} /\ i \in i .. n
      BY <1>1, <2>1
    <3>2. file = UNION {levels[j] : j \in 1 .. n}
      BY <1>1 DEF IndexInv, RunsAreFile
    <3>3. right = {b} \cup UNION {levels[j] : j \in 1 .. i - 1}
      BY DEF Carry
    <3>4. \A j \in 1 .. i - 1 : \A k \in i .. n : levels[j] \cap levels[k] = {}
      BY <1>1, <3>1 DEF IndexInv, RunsApart
    <3>. HIDE DEF right
    <3>. QED
      BY <3>1, <3>2, <3>3, <3>4
  <2>3. SizeBelow(i) = IteratedSum(Sizes, 1 .. i - 1)
    BY SizeBelowIsSum
  <2>4. used - SizeBelow(i) = IteratedSum(Sizes, i .. n) /\ SizeBelow(i) \in Int
        /\ IteratedSum(Sizes, i .. n) \in Int
    <3>1. /\ IteratedSum(Sizes, 1 .. n)
              = IteratedSum(Sizes, 1 .. i - 1) + IteratedSum(Sizes, i .. n)
          /\ IteratedSum(Sizes, 1 .. i - 1) \in Int /\ IteratedSum(Sizes, i .. n) \in Int
      BY <1>4, <2>1
    <3>2. \A x, y, z \in Int : x = y + z => x - y = z
      OBVIOUS
    <3>. QED
      BY <1>5, <2>3, <3>1, <3>2
  <2>5. IteratedSum(Sizes, i .. n) <= W(rest)
    BY <1>4, <2>1
  <2>. HIDE DEF right, left, rest
  <2>6. Size(right) <= W(right) /\ Size(right) \in Nat
    BY <1>3, <2>2
  <2>7. W(file \cup {b}) = W(right) + W(rest) /\ W(right) \in Nat /\ W(rest) \in Nat
    BY <1>6, <2>2
  <2>8. Size(left) <= W(rest) /\ Size(left) \in Nat
    <3>1. left \in SUBSET (file \cup {b})
      BY <2>2
    <3>2. Size(left) <= W(left) /\ Size(left) \in Nat /\ W(left) \in Nat
      BY <1>3, <3>1
    <3>3. W(left) <= W(rest)
      <4>1. IsFiniteSet(rest) /\ \A c \in rest : Weight[c] \in Nat
        BY <1>3, <2>2
      <4>. QED
        BY <2>2, <4>1, SumIsMonotone DEF W
    <3>. QED
      BY <2>7, <3>2, <3>3
  <2>. HIDE DEF W
  <2>9. 2 * W(file \cup {b}) <= cap
    BY DEF W
  <2>10. used + Size(right) - SizeBelow(i) + Size(left) + Size(right) <= cap
    <3>1. \A u, r, sb, l, x, wr, wt \in Int :
            u - sb = x /\ x <= wt /\ l <= wt /\ r <= wr /\ 2 * (wr + wt) <= cap
              => u + r - sb + l + r <= cap
      BY <1>5
    <3>2. 2 * (W(right) + W(rest)) <= cap
      BY <2>7, <2>9
    <3>3. /\ Size(right) \in Int /\ Size(left) \in Int
          /\ W(right) \in Int /\ W(rest) \in Int
      BY <2>6, <2>7, <2>8
    <3>. QED
      BY <1>5, <2>4, <2>5, <2>6, <2>8, <3>1, <3>2, <3>3
  <2>. QED
    BY <2>10 DEF right, left
<1>. QED
  BY <1>7, <1>8

(* A block still to come of generation 0 is the next tile of its burst ...               *)
LEMMA NextTileIsFree ==
  ASSUME WriterInv, Live, NEW b \in Blocks, b.gen = 0, NextInOrder(b)
  PROVE  LET n == NextTile(b.burst) IN
         /\ n \in Nat /\ n + 1 \in 1 .. Len(Tiles[b.burst])
         /\ b.tile = Tiles[b.burst][n + 1]
         /\ ChainComplete
         /\ b.burst \in at.active \/ b.burst \notin DOMAIN at.begun
<1>. DEFINE n == NextTile(b.burst)
            written == {c.tile : c \in {d \in file : d.burst = b.burst}}
<1>1. PlaceInv /\ file \subseteq Blocks
  BY DEF WriterInv
<1>2. b.burst \in Bursts /\ Len(Tiles[b.burst]) \in Nat
      /\ DOMAIN Tiles[b.burst] = 1 .. Len(Tiles[b.burst])
  BY BlocksTyped, TilesTyped
<1>3. /\ n \in 0 .. Len(Tiles[b.burst])
      /\ Cardinality(written) = n
      /\ written = {} => b.burst \notin DOMAIN at.begun
  BY <1>1, <1>2, WrittenAreCounted
<1>4. /\ Key(b) \in Keys \ FileKeys
      /\ \A c \in file : \A g \in Gens : << c.burst, g, c.tile >> \in FileKeys
      /\ b.tile = Tiles[b.burst][Cardinality(written) + 1]
      /\ written = {} \/ b.burst \in at.active
  BY DEF NextInOrder
<1>5. n # Len(Tiles[b.burst])
  <2>. SUFFICES ASSUME n = Len(Tiles[b.burst]) PROVE FALSE
    OBVIOUS
  <2>1. PICK i \in 1 .. n : b.tile = Tiles[b.burst][i]
    <3>1. \E burst \in Bursts : \E g \in Gens : \E i \in DOMAIN Tiles[burst] :
            Key(b) = << burst, g, Tiles[burst][i] >>
      BY <1>4 DEF Keys
    <3>. QED
      BY <1>2, <3>1 DEF Key
  <2>2. b.burst \in DOMAIN at.begun /\ i \in 1 .. at.begun[b.burst].next
    BY DEF NextTile
  <2>3. << b.burst, 0, b.tile >> \in FileKeys
    BY <1>1, <2>1, <2>2, FirstsWritten
  <2>. QED
    BY <1>4, <2>3 DEF Key
<1>6. ChainComplete
  <2>. SUFFICES ASSUME NEW c \in at.chain PROVE {d.gen : d \in at.chain} = Gens
    BY DEF ChainComplete
  <2>1. c \in file /\ \A d \in at.chain : d.gen \in Gens
    BY <1>1, BlocksTyped DEF PlaceInv, ChainPlaced
  <2>2. ASSUME NEW g \in Gens PROVE \E d \in at.chain : d.gen = g
    <3>1. PICK d \in file : Key(d) = << c.burst, g, c.tile >>
      BY <1>4, <2>1 DEF FileKeys
    <3>2. d.burst = c.burst /\ d.tile = c.tile /\ d.gen = g
      BY <3>1 DEF Key
    <3>. QED
      BY <1>1, <3>2 DEF PlaceInv, ChainPlaced
  <2>. QED
    BY <2>1, <2>2
<1>. HIDE DEF written
<1>. QED
  BY <1>2, <1>3, <1>4, <1>5, <1>6

(* ... and of a later generation is on the open chain's.                              *)
LEMMA NextJoinsChain ==
  ASSUME WriterInv, Live, NEW b \in Blocks, b.gen # 0, NextInOrder(b)
  PROVE  \E d \in at.chain : /\ Key(d) = << b.burst, b.gen - 1, b.tile >>
                             /\ d.burst = b.burst /\ d.gen = b.gen - 1 /\ d.tile = b.tile
<1>1. PlaceInv /\ Key(b) \notin FileKeys
  BY DEF WriterInv, NextInOrder
<1>2. PICK d \in file : Key(d) = << b.burst, b.gen - 1, b.tile >>
  BY DEF NextInOrder, FileKeys
<1>3. d.burst = b.burst /\ d.gen = b.gen - 1 /\ d.tile = b.tile
  BY <1>2 DEF Key
<1>4. PICK i \in 1 .. at.begun[b.burst].next : b.tile = Tiles[b.burst][i]
  BY <1>1, <1>3 DEF PlaceInv, BlocksPlaced
<1>5. b.burst \in DOMAIN at.begun
  BY <1>1, <1>3 DEF PlaceInv, BlocksPlaced
<1>6. ~ \A g \in Gens : << b.burst, g, Tiles[b.burst][i] >> \in FileKeys
  BY <1>1, <1>4, BlocksTyped DEF Key
<1>7. PICK c \in at.chain : i = at.begun[b.burst].next /\ c.burst = b.burst
  BY <1>1, <1>5, <1>6 DEF PlaceInv, TilesWritten
<1>8. c.tile = b.tile
  BY <1>1, <1>4, <1>7 DEF PlaceInv, ChainPlaced
<1>9. d \in at.chain
  BY <1>1, <1>3, <1>7, <1>8 DEF PlaceInv, ChainPlaced
<1>. QED
  BY <1>2, <1>3, <1>9

LEMMA HonestAccepted ==
  ASSUME WriterInv, Live, NEW b \in Blocks, NextInOrder(b), Coherent(file \cup {b}),
         Registered => digest[Key(b)] \in {Unwritten, b},
         2 * SumFunction([c \in file \cup {b} |-> Size({c})]) <= cap
  PROVE  Accepts(b)
<1>1. PlaceInv /\ IndexInv /\ IsFiniteSet(file) /\ file \subseteq Blocks
  BY DEF WriterInv
<1>2. Key(b) \in Keys /\ Key(b) \notin FileKeys
  BY DEF NextInOrder
<1>3. b \notin file
  BY <1>2 DEF FileKeys
<1>4. /\ b.ours /\ ProperParents(b)
      /\ \A c \in file : Node(b) # Node(c)
      /\ \A c \in file : c.burst = b.burst => b.form = c.form
      /\ \A c \in file : SameGeneration(b, c) => SourcesAgree(b, c)
  BY <1>3 DEF Coherent
<1>5. b.burst \in Bursts /\ b.gen \in Gens /\ b.gen \in Nat
  BY BlocksTyped, PlanAssumption DEF Gens
<1>6. ASSUME NEW c \in file, SameGeneration(b, c)
      PROVE  ~ Overlap(b.tile.owned, c.tile.owned)
  <2>1. PICK i \in DOMAIN Tiles[b.burst] : c.tile = Tiles[b.burst][i]
    <3>1. /\ c.burst \in DOMAIN at.begun /\ c.burst = b.burst
          /\ \E i \in 1 .. at.begun[c.burst].next : c.tile = Tiles[c.burst][i]
      BY <1>1, <1>6 DEF PlaceInv, BlocksPlaced, SameGeneration
    <3>2. at.begun[c.burst].next \in 1 .. Len(Tiles[c.burst])
      BY <1>1, <3>1 DEF PlaceInv, AtTyped
    <3>. QED
      BY <1>5, <3>1, <3>2, TilesTyped
  <2>2. PICK j \in DOMAIN Tiles[b.burst] : b.tile = Tiles[b.burst][j]
    <3>1. \E burst \in Bursts : \E g \in Gens : \E j \in DOMAIN Tiles[burst] :
            Key(b) = << burst, g, Tiles[burst][j] >>
      BY <1>2 DEF Keys
    <3>. QED
      BY <3>1 DEF Key
  <2>3. c.tile # b.tile
    BY <1>2, <1>6 DEF FileKeys, Key, SameGeneration
  <2>4. i \in 1 .. Len(Tiles[b.burst]) /\ j \in 1 .. Len(Tiles[b.burst]) /\ i # j
    BY <1>5, <2>1, <2>2, <2>3, TilesTyped
  <2>5. CASE i < j
    BY <1>5, <2>1, <2>2, <2>4, <2>5, TilesDiffer, OverlapIsMutual
  <2>6. CASE j < i
    BY <1>5, <2>1, <2>2, <2>4, <2>6, TilesDiffer
  <2>. QED
    BY <1>5, <2>4, <2>5, <2>6, TilesTyped
<1>7. \A w : AgreesWithOverlaps(w, b)
  BY <1>4, <1>6 DEF AgreesWithOverlaps, SameGeneration
<1>8. IdentityHolds(b)
  BY <1>2, <1>4 DEF IdentityHolds
<1>9. IndexAdmits(b)
  <2>1. 2 * IteratedSum(Weight, file \cup {b}) <= cap
    <3>. DEFINE size == [c \in file \cup {b} |-> Size({c})]
    <3>1. SumFunction(size) = IteratedSum(size, DOMAIN size)
      BY DEF SumFunction, SumFunctionOnSet, FoldFunctionOnSet, MapThenFoldSet, IteratedSum
    <3>2. DOMAIN size = file \cup {b}
      OBVIOUS
    <3>3. \A c \in file \cup {b} : size[c] \in Int /\ Weight[c] = size[c]
      BY <1>1, WeightsTyped DEF Weight
    <3>4. IsFiniteSet(file \cup {b})
      BY <1>1, FS_AddElement
    <3>5. 2 * SumFunction(size) <= cap
      OBVIOUS
    <3>. HIDE DEF size
    <3>6. IteratedSum(size, file \cup {b}) = IteratedSum(Weight, file \cup {b})
      BY <3>3, <3>4, SumAgrees
    <3>. QED
      BY <3>1, <3>2, <3>5, <3>6
  <2>2. /\ used + Size({b}) <= cap
        /\ \A i \in 1 .. FreeLevel - 1 :
             used + Size(Carry({b}, i)) - SizeBelow(i) + Size(levels[i])
               + Size(Carry({b}, i)) <= cap
    BY <1>1, <1>3, <2>1, SpaceSuffices
  <2>3. ASSUME NEW i \in 1 .. FreeLevel - 1
        PROVE  {Node(c) : c \in levels[i]} \cap {Node(c) : c \in Carry({b}, i)} = {}
    <3>. SUFFICES ASSUME NEW x \in levels[i], NEW y \in Carry({b}, i) PROVE Node(x) # Node(y)
      OBVIOUS
    <3>1. /\ Len(levels) \in Nat /\ DOMAIN levels = 1 .. Len(levels)
          /\ i \in DOMAIN levels
      BY <1>1, LevelsTyped, FirstFree DEF IndexInv
    <3>2. x \in file
      BY <1>1, <3>1 DEF IndexInv, RunsAreFile
    <3>3. CASE y = b
      BY <1>4, <3>2, <3>3
    <3>4. CASE y # b
      <4>1. PICK j \in 1 .. i - 1 : y \in levels[j]
        BY <3>4 DEF Carry
      <4>2. j \in DOMAIN levels /\ j # i
        BY <3>1
      <4>3. y \in file /\ x # y
        BY <1>1, <3>1, <4>1, <4>2 DEF IndexInv, RunsAreFile, RunsApart
      <4>. QED
        BY <3>2, <4>3 DEF Coherent
    <3>. QED
      BY <3>3, <3>4
  <2>. QED
    BY <2>2, <2>3 DEF IndexAdmits, MergeAdmits
<1>10. CASE b.gen = 0
  <2>. DEFINE n == NextTile(b.burst)
              w == Begin(b)
  <2>1. /\ n \in Nat /\ n + 1 \in 1 .. Len(Tiles[b.burst])
        /\ b.tile = Tiles[b.burst][n + 1]
        /\ ChainComplete
        /\ b.burst \in at.active \/ b.burst \notin DOMAIN at.begun
    BY <1>10, NextTileIsFree
  <2>2. Begun(b) = w /\ w.chain = {} /\ w.begun = at.begun
    <3>1. at = [chain |-> at.chain, active |-> at.active, frontier |-> at.frontier,
                overlaps |-> at.overlaps, begun |-> at.begun]
      BY <1>1 DEF PlaceInv, AtTyped
    <3>2. \E kept, met : w = [at EXCEPT !.chain = {}, !.active = {b.burst},
                                       !.frontier = kept, !.overlaps = met]
      BY DEF Begin
    <3>3. Begun(b) = w
      BY <1>10 DEF Begun
    <3>. HIDE DEF w
    <3>. QED
      BY <3>1, <3>2, <3>3
  <2>3. Len(Tiles[b.burst]) \in Nat
    BY <1>5, TilesTyped
  <2>4. Reached(b)
    BY <1>2, <2>1, <2>3 DEF Reached, CanBegin
  <2>. HIDE DEF w
  <2>5. Place(w, b).next = n /\ Place(w, b).form = b.form
    <3>1. CASE b.burst \in DOMAIN at.begun
      <4>1. 1 \in 1 .. at.begun[b.burst].next
        BY <1>1, <3>1 DEF PlaceInv, AtTyped
      <4>2. << b.burst, 0, Tiles[b.burst][1] >> \in FileKeys
        BY <1>1, <3>1, <4>1, FirstsWritten
      <4>3. PICK c \in file : Key(c) = << b.burst, 0, Tiles[b.burst][1] >>
        BY <4>2 DEF FileKeys
      <4>4. c.burst = b.burst
        BY <4>3 DEF Key
      <4>5. b.form = at.begun[b.burst].form
        BY <1>1, <1>4, <4>4 DEF PlaceInv, BlocksPlaced
      <4>. QED
        BY <2>2, <3>1, <4>5 DEF Place, NextTile
    <3>2. CASE b.burst \notin DOMAIN at.begun
      BY <2>2, <3>2 DEF Place, NextTile
    <3>. QED
      BY <3>1, <3>2
  <2>. HIDE DEF n
  <2>6. CanCount(w, b)
    <3>1. n > 0 => RowMajorBefore(Tiles[b.burst][n].owned, b.tile.owned)
      <4>. SUFFICES ASSUME n > 0 PROVE RowMajorBefore(Tiles[b.burst][n].owned, b.tile.owned)
        OBVIOUS
      <4>1. n \in 1 .. Len(Tiles[b.burst]) /\ n < n + 1
        BY <2>1, <2>3
      <4>. QED
        BY <1>5, <2>1, <4>1, TilesDiffer
    <3>. QED
      BY <2>1, <2>3, <2>5, <3>1 DEF CanCount
  <2>7. NotRepeated(b)
    BY <2>2 DEF NotRepeated
  <2>8. JoinsChain(w, b)
    BY <1>4, <1>10, <2>2 DEF JoinsChain, ProperParents
  <2>. QED
    BY <1>7, <1>8, <1>9, <2>2, <2>4, <2>6, <2>7, <2>8 DEF Accepts, Counted
<1>11. CASE b.gen # 0
  <2>1. PICK d \in at.chain : /\ Key(d) = << b.burst, b.gen - 1, b.tile >>
                              /\ d.burst = b.burst /\ d.gen = b.gen - 1 /\ d.tile = b.tile
    BY <1>11, NextJoinsChain
  <2>2. Begun(b) = at
    BY <1>11 DEF Begun
  <2>3. \A e \in at.chain : e.burst = b.burst /\ e.tile = b.tile /\ e \in file
    BY <1>1, <2>1, ChainIsOneTile DEF PlaceInv, ChainPlaced
  <2>4. Reached(b)
    BY <1>2, <1>11 DEF Reached
  <2>5. NotRepeated(b)
    BY <1>2, <2>2, <2>3 DEF NotRepeated, FileKeys, Key
  <2>6. CanCount(at, b)
    <3>1. b.burst \in DOMAIN at.begun /\ d.form = at.begun[b.burst].form
      BY <1>1, <2>1, <2>3 DEF PlaceInv, BlocksPlaced
    <3>2. d.form = b.form
      BY <1>4, <2>3
    <3>. QED
      BY <1>11, <3>1, <3>2 DEF CanCount, Place
  <2>7. JoinsChain(at, b)
    <3>1. ASSUME NEW p \in b.parents
          PROVE  \E c \in at.chain : Key(c) = << b.burst, p, b.tile >> /\ c.form = b.form
      <4>1. p \in 0 .. d.gen
        BY <1>4, <1>5, <1>11, <2>1 DEF ProperParents
      <4>2. PICK c \in at.chain : c.gen = p
        BY <1>1, <4>1 DEF PlaceInv, ChainPlaced
      <4>. QED
        BY <1>4, <2>3, <4>2 DEF Key
    <3>2. \A c \in at.chain : Node(c) # Node(b)
      BY <1>4, <2>3
    <3>. QED
      BY <1>4, <3>1, <3>2 DEF JoinsChain
  <2>. QED
    BY <1>7, <1>8, <1>9, <2>2, <2>4, <2>5, <2>6, <2>7 DEF Accepts, Counted
<1>. QED
  BY <1>10, <1>11

(* A block that comes in order and agrees with what was written is never refused        *)
(* (write_block and all it calls).                                                  *)
THEOREM HonestAlwaysAccepted == Spec => []HonestBlockAccepted
<1>1. WriterInv => HonestBlockAccepted
  BY HonestAccepted DEF HonestBlockAccepted
<1>. QED
  BY <1>1, WriterInvariant, PTL
===============================================================================
