------------------------ MODULE FramePublicationProofs ------------------------
(***************************************************************************)
(* Theorems about FramePublication, for frames and targets of every size, with    *)
(* any number of dates, bands and unwrap components.  The inductive invariant      *)
(* says what the layers hold at each stage, as a function of the frame that was    *)
(* read; that a reference is found when there is one rests on the order of the     *)
(* regions being total.                                                       *)
(***************************************************************************)
EXTENDS FramePublication, FiniteSetsExt, FiniteSetTheorems, WellFoundedInduction, TLAPS
-------------------------------------------------------------------------------
(* Finite data.  The theorems of the library take the predicate or the equation as *)
(* an operator; here they are sets and functions, which the provers instantiate.   *)

(* The element of a set that a fold takes next.                                 *)
AnyOf(s) == CHOOSE x \in s : TRUE

(* A set of naturals has a least member.                                        *)
LEMMA LeastNatural ==
  ASSUME NEW S \in SUBSET Nat, S # {}
  PROVE  \E m \in S : \A n \in S : m <= n
<1>1. IsWellFoundedOn(OpToRel(<, Nat), Nat)
  BY NatLessThanWellFounded
<1>2. PICK m \in S : \A n \in S : ~ (<< n, m >> \in OpToRel(<, Nat))
  BY <1>1, WFMin
<1>3. \A n \in S : ~ (n < m)
  BY <1>2 DEF OpToRel
<1>4. QED
  BY <1>3

(* What holds of the empty set, and of a set whenever it holds of all but one       *)
(* element, holds of every subset of a finite set.                            *)
LEMMA SubsetInduction ==
  ASSUME NEW S, IsFiniteSet(S), NEW X, {} \in X,
         \A s \in SUBSET S : s # {} /\ s \ {AnyOf(s)} \in X => s \in X
  PROVE  \A s \in SUBSET S : s \in X
<1>. DEFINE bad == {s \in SUBSET S : s \notin X}
            sizes == {Cardinality(s) : s \in bad}
<1>1. \A s \in SUBSET S : IsFiniteSet(s) /\ Cardinality(s) \in Nat
  BY FS_Subset, FS_CardinalityType
<1>2. SUFFICES ASSUME bad # {} PROVE FALSE
  OBVIOUS
<1>3. sizes \in SUBSET Nat /\ sizes # {}
  BY <1>1, <1>2
<1>4. PICK m \in sizes : \A n \in sizes : m <= n
  BY <1>3, LeastNatural
<1>5. PICK s \in bad : Cardinality(s) = m
  BY <1>4
<1>6. s # {} /\ s \in SUBSET S
  BY <1>5
<1>. DEFINE c == AnyOf(s)
            r == s \ {c}
<1>7. c \in s
  BY <1>6 DEF AnyOf
<1>8. Cardinality(r) = Cardinality(s) - 1 /\ r \in SUBSET S
  BY <1>1, <1>6, <1>7, FS_RemoveElement
<1>9. Cardinality(r) < m /\ Cardinality(r) \in Nat
  <2>. HIDE DEF r, sizes, bad, c
  <2>. QED
    BY <1>1, <1>3, <1>4, <1>5, <1>6, <1>8
<1>10. r \notin bad
  <2>. HIDE DEF r
  <2>. QED
    BY <1>3, <1>4, <1>9
<1>11. QED
  BY <1>5, <1>6, <1>8, <1>10

(* A part of a finite set is finite, and smaller unless it is all of it.              *)
LEMMA PartIsSmaller ==
  ASSUME NEW S, IsFiniteSet(S), NEW T \in SUBSET S
  PROVE  /\ IsFiniteSet(T) /\ Cardinality(T) \in Nat /\ Cardinality(S) \in Nat
         /\ Cardinality(T) <= Cardinality(S)
         /\ T # S => Cardinality(T) < Cardinality(S)
<1>1. IsFiniteSet(T) /\ Cardinality(T) <= Cardinality(S) /\ (Cardinality(S) = Cardinality(T) => S = T)
  BY FS_Subset
<1>2. Cardinality(T) \in Nat /\ Cardinality(S) \in Nat
  BY <1>1, FS_CardinalityType
<1>3. QED
  BY <1>1, <1>2

(* A strict total order of a finite set has a first member.                      *)
LEMMA FirstExists ==
  ASSUME NEW S, IsFiniteSet(S), S # {}, NEW R,
         \A x, y, z \in S : << x, y >> \in R /\ << y, z >> \in R => << x, z >> \in R,
         \A x \in S : << x, x >> \notin R,
         \A x, y \in S : x # y => << x, y >> \in R \/ << y, x >> \in R
  PROVE  \E x \in S : \A y \in S \ {x} : << x, y >> \in R
<1>. DEFINE below(x) == {y \in S : << y, x >> \in R}
            sizes == {Cardinality(below(x)) : x \in S}
<1>1. \A x \in S : IsFiniteSet(below(x)) /\ Cardinality(below(x)) \in Nat
  <2>1. \A x \in S : below(x) \in SUBSET S
    OBVIOUS
  <2>. HIDE DEF below
  <2>. QED
    BY <2>1, PartIsSmaller
<1>2. sizes \in SUBSET Nat /\ sizes # {}
  <2>. HIDE DEF below
  <2>. QED
    BY <1>1
<1>3. PICK m \in sizes : \A n \in sizes : m <= n
  BY <1>2, LeastNatural
<1>4. PICK x \in S : Cardinality(below(x)) = m
  BY <1>3
<1>5. ASSUME NEW y \in S, << y, x >> \in R
      PROVE  FALSE
  <2>1. below(y) \subseteq below(x) /\ y \in below(x) /\ y \notin below(y)
    BY <1>5
  <2>2. Cardinality(below(y)) < Cardinality(below(x))
    <3>1. below(y) # below(x)
      BY <2>1
    <3>. HIDE DEF below
    <3>. QED
      BY <1>1, <2>1, <3>1, PartIsSmaller
  <2>3. Cardinality(below(y)) \in sizes
    OBVIOUS
  <2>. HIDE DEF below, sizes
  <2>. QED
    BY <1>1, <1>2, <1>3, <1>4, <2>2, <2>3
<1>6. QED
  BY <1>5

(* And the number of members before one tells it from the others.               *)
LEMMA RanksDiffer ==
  ASSUME NEW S, IsFiniteSet(S), NEW R,
         \A x, y, z \in S : << x, y >> \in R /\ << y, z >> \in R => << x, z >> \in R,
         \A x \in S : << x, x >> \notin R,
         NEW x \in S, NEW y \in S, << x, y >> \in R
  PROVE  Cardinality({z \in S : << z, x >> \in R}) < Cardinality({z \in S : << z, y >> \in R})
<1>. DEFINE below(t) == {z \in S : << z, t >> \in R}
<1>1. IsFiniteSet(below(x)) /\ IsFiniteSet(below(y))
  BY FS_Subset
<1>2. below(x) \subseteq below(y) /\ x \in below(y) /\ x \notin below(x)
  OBVIOUS
<1>3. below(x) # below(y)
  BY <1>2
<1>. HIDE DEF below
<1>4. Cardinality(below(x)) < Cardinality(below(y))
  BY <1>1, <1>2, <1>3, PartIsSmaller
<1>5. QED
  BY <1>4 DEF below

(* A function on the subsets of a set, each value made from that of the set without  *)
(* one element, exists if the set is finite.                                   *)
Iterates(f, S, base, step) ==
  /\ f[{}] = base
  /\ \A s \in SUBSET S : s # {} => f[s] = step[<< s, f[s \ {AnyOf(s)}] >>]

LEMMA FiniteRecursion ==
  ASSUME NEW S, IsFiniteSet(S), NEW T, NEW base \in T, NEW step \in [(SUBSET S) \X T -> T]
  PROVE  \E f \in [SUBSET S -> T] : Iterates(f, S, base, step)
<1>. DEFINE Rest(s) == s \ {AnyOf(s)}
            E == (SUBSET S) \X T
            Closed(R) == /\ << {}, base >> \in R
                         /\ \A s \in SUBSET S : \A t \in T :
                              s # {} /\ << Rest(s), t >> \in R => << s, step[<< s, t >>] >> \in R
            G == {e \in E : \A R \in SUBSET E : Closed(R) => e \in R}
            Single == {s \in SUBSET S : \E t \in T : << s, t >> \in G
                                          /\ \A u \in T : << s, u >> \in G => u = t}
<1>1. \A s \in SUBSET S : \A t \in T : << s, t >> \in E /\ step[<< s, t >>] \in T
  OBVIOUS
<1>2. \A s \in SUBSET S : Rest(s) \in SUBSET S /\ (s # {} => Rest(s) # s)
  BY DEF AnyOf
<1>3. Closed(G)
  <2>1. << {}, base >> \in G
    OBVIOUS
  <2>2. ASSUME NEW s \in SUBSET S, NEW t \in T, s # {}, << Rest(s), t >> \in G
        PROVE  << s, step[<< s, t >>] >> \in G
    <3>. HIDE DEF Rest
    <3>. QED
      BY <1>1, <2>2
  <2>. HIDE DEF G, Rest
  <2>. QED
    BY <2>1, <2>2
<1>4. ASSUME NEW t \in T, << {}, t >> \in G
      PROVE  t = base
  <2>. DEFINE R == {e \in E : e[1] = {} => e[2] = base}
  <2>1. Closed(R) /\ R \in SUBSET E
    <3>. HIDE DEF Rest
    <3>. QED
      BY <1>1
  <2>2. << {}, t >> \in R
    <3>. HIDE DEF R, Closed
    <3>. QED
      BY <1>4, <2>1
  <2>3. QED
    BY <2>2
<1>5. ASSUME NEW s \in SUBSET S, s # {}, NEW t \in T, << s, t >> \in G
      PROVE  \E u \in T : << Rest(s), u >> \in G /\ t = step[<< s, u >>]
  <2>. DEFINE R == {e \in E : e \in G /\ (e[1] = s => \E u \in T : << Rest(s), u >> \in G
                                                        /\ e[2] = step[<< s, u >>])}
  <2>1. << {}, base >> \in R
    <3>. HIDE DEF G
    <3>. QED
      BY <1>1, <1>3, <1>5
  <2>2. ASSUME NEW v \in SUBSET S, NEW w \in T, v # {}, << Rest(v), w >> \in R
        PROVE  << v, step[<< v, w >>] >> \in R
    <3>. HIDE DEF G, Rest
    <3>1. << Rest(v), w >> \in G
      BY <2>2
    <3>2. << v, step[<< v, w >>] >> \in G
      BY <1>3, <2>2, <3>1
    <3>3. << v, step[<< v, w >>] >> \in E
      BY <1>1
    <3>. QED
      BY <3>1, <3>2, <3>3
  <2>3. Closed(R) /\ R \in SUBSET E
    <3>. HIDE DEF Rest, G
    <3>1. R \in SUBSET E
      OBVIOUS
    <3>. HIDE DEF R, E
    <3>. QED
      BY <2>1, <2>2, <3>1
  <2>4. << s, t >> \in R
    <3>. HIDE DEF R, Closed
    <3>. QED
      BY <1>5, <2>3
  <2>5. QED
    BY <2>4
<1>6. \A s \in SUBSET S : s \in Single
  <2>1. {} \in Single
    <3>. HIDE DEF G
    <3>. QED
      BY <1>3, <1>4
  <2>2. ASSUME NEW s \in SUBSET S, s # {}, Rest(s) \in Single
        PROVE  s \in Single
    <3>. HIDE DEF G, Rest
    <3>1. PICK u \in T : /\ << Rest(s), u >> \in G
                         /\ \A w \in T : << Rest(s), w >> \in G => w = u
      BY <2>2
    <3>2. << s, step[<< s, u >>] >> \in G /\ step[<< s, u >>] \in T
      BY <1>1, <1>3, <2>2, <3>1
    <3>3. \A w \in T : << s, w >> \in G => w = step[<< s, u >>]
      BY <1>5, <2>2, <3>1
    <3>. QED
      BY <3>2, <3>3
  <2>. HIDE DEF Single
  <2>. QED
    BY <2>1, <2>2, SubsetInduction
<1>. DEFINE f == [s \in SUBSET S |-> CHOOSE t \in T : << s, t >> \in G]
<1>7. \A s \in SUBSET S : /\ f[s] \in T /\ << s, f[s] >> \in G
                          /\ \A u \in T : << s, u >> \in G => u = f[s]
  <2>. HIDE DEF G
  <2>. QED
    BY <1>6
<1>8. f[{}] = base
  <2>. HIDE DEF G, f
  <2>. QED
    BY <1>4, <1>7
<1>9. ASSUME NEW s \in SUBSET S, s # {}
      PROVE  f[s] = step[<< s, f[Rest(s)] >>]
  <2>. HIDE DEF G, f, Rest
  <2>1. Rest(s) \in SUBSET S
    BY <1>2
  <2>2. << s, step[<< s, f[Rest(s)] >>] >> \in G /\ step[<< s, f[Rest(s)] >>] \in T
    BY <1>1, <1>3, <1>7, <1>9, <2>1
  <2>. QED
    BY <1>7, <2>2
<1>10. f \in [SUBSET S -> T]
  BY <1>7
<1>11. QED
  BY <1>8, <1>9, <1>10 DEF Iterates

(* A sum over a finite set, as MapThenSumSet of a function makes it.                *)
IteratedSum(g, S) ==
  LET iter[s \in SUBSET S] ==
        IF s = {} THEN 0
        ELSE LET x == CHOOSE x \in s : TRUE
             IN  g[x] + iter[s \ {x}]
  IN  iter[S]

Sums(f, S, g) ==
  /\ f[{}] = 0
  /\ \A s \in SUBSET S : s # {} => f[s] = g[AnyOf(s)] + f[s \ {AnyOf(s)}]

LEMMA SumIsIterated ==
  ASSUME NEW S, IsFiniteSet(S), NEW g, \A x \in S : g[x] \in Int
  PROVE  \E f \in [SUBSET S -> Int] : IteratedSum(g, S) = f[S] /\ Sums(f, S, g)
<1>. DEFINE Body(f) == [s \in SUBSET S |->
                          IF s = {} THEN 0
                          ELSE g[AnyOf(s)] + f[s \ {AnyOf(s)}]]
            step == [e \in (SUBSET S) \X Int |->
                       IF e[1] = {} THEN 0 ELSE g[AnyOf(e[1])] + e[2]]
<1>0. \A s \in SUBSET S : /\ s # {} => AnyOf(s) \in S
                          /\ s \ {AnyOf(s)} \in SUBSET S
  BY DEF AnyOf
<1>1. step \in [(SUBSET S) \X Int -> Int]
  BY <1>0
<1>2. PICK f \in [SUBSET S -> Int] : Iterates(f, S, 0, step)
  <2>1. PICK T : T = Int
    OBVIOUS
  <2>2. step \in [(SUBSET S) \X T -> T] /\ 0 \in T
    BY <1>1, <2>1
  <2>. HIDE DEF step
  <2>3. \E f \in [SUBSET S -> T] : Iterates(f, S, 0, step)
    BY <2>2, FiniteRecursion
  <2>. QED
    BY <2>1, <2>3
<1>3. \A s \in SUBSET S :
        s # {} => f[s] = g[AnyOf(s)] + f[s \ {AnyOf(s)}]
  <2>1. TAKE s \in SUBSET S
  <2>2. HAVE s # {}
  <2>3. f[s] = step[<< s, f[s \ {AnyOf(s)}] >>]
    BY <1>2, <2>2 DEF Iterates
  <2>4. f[s \ {AnyOf(s)}] \in Int
    BY <1>0
  <2>. QED
    BY <2>2, <2>3, <2>4
<1>4. f = Body(f)
  <2>1. \A s \in SUBSET S : f[s] = Body(f)[s]
    BY <1>2, <1>3 DEF Iterates
  <2>. QED
    BY <2>1
<1>5. \E h : h = Body(h)
  BY <1>4
<1>6. PICK h : IteratedSum(g, S) = h[S] /\ h = Body(h)
  BY <1>5 DEF IteratedSum, AnyOf
<1>7. h = f
  <2>. DEFINE X == {s \in SUBSET S : h[s] = f[s]}
  <2>1. \A s \in SUBSET S :
          h[s] = IF s = {} THEN 0 ELSE g[AnyOf(s)] + h[s \ {AnyOf(s)}]
    BY <1>6
  <2>2. {} \in X
    BY <1>2, <2>1 DEF Iterates
  <2>3. ASSUME NEW s \in SUBSET S, s # {}, s \ {AnyOf(s)} \in X
        PROVE  s \in X
    BY <1>3, <2>1, <2>3
  <2>4. \A s \in SUBSET S : s \in X
    <3>. HIDE DEF X
    <3>. QED
      BY <2>2, <2>3, SubsetInduction
  <2>5. DOMAIN h = SUBSET S /\ h = [s \in SUBSET S |-> h[s]] /\ f = [s \in SUBSET S |-> f[s]]
    BY <1>6
  <2>6. \A s \in SUBSET S : h[s] = f[s]
    BY <2>4
  <2>. QED
    BY <2>5, <2>6
<1>8. QED
  BY <1>2, <1>3, <1>6, <1>7 DEF Iterates, Sums

(* Together, sets hold no more than the sum of bounds on each of them.               *)
LEMMA UnionIsBounded ==
  ASSUME NEW S, IsFiniteSet(S), NEW g \in [S -> Int], NEW part,
         \A x \in S : IsFiniteSet(part[x]) /\ Cardinality(part[x]) <= g[x]
  PROVE  LET whole == UNION {part[x] : x \in S}
         IN  IsFiniteSet(whole) /\ Cardinality(whole) <= IteratedSum(g, S)
<1>. DEFINE Whole(s) == UNION {part[x] : x \in s}
<1>1. PICK f \in [SUBSET S -> Int] : IteratedSum(g, S) = f[S] /\ Sums(f, S, g)
  BY SumIsIterated
<1>. DEFINE X == {s \in SUBSET S : IsFiniteSet(Whole(s)) /\ Cardinality(Whole(s)) <= f[s]}
<1>2. {} \in X
  <2>1. PICK none : none = {}
    OBVIOUS
  <2>2. Whole(none) = none /\ none \in SUBSET S
    BY <2>1
  <2>3. f[none] = 0 /\ IsFiniteSet(none) /\ Cardinality(none) = 0
    BY <1>1, <2>1, FS_EmptySet DEF Sums
  <2>. HIDE DEF Whole
  <2>4. none \in X
    BY <2>2, <2>3
  <2>. QED
    BY <2>1, <2>4
<1>3. ASSUME NEW s \in SUBSET S, s # {}, s \ {AnyOf(s)} \in X
      PROVE  s \in X
  <2>. DEFINE b == AnyOf(s)
              r == s \ {b}
  <2>1. b \in s /\ b \in S /\ r \in SUBSET S
    BY <1>3 DEF AnyOf
  <2>2. Whole(s) = Whole(r) \cup part[b]
    BY <2>1
  <2>. HIDE DEF b, Whole
  <2>3. IsFiniteSet(Whole(r)) /\ Cardinality(Whole(r)) <= f[r]
    BY <1>3 DEF b
  <2>. HIDE DEF r
  <2>4. IsFiniteSet(part[b]) /\ Cardinality(part[b]) <= g[b]
    BY <2>1
  <2>5. /\ IsFiniteSet(Whole(s))
        /\ Cardinality(Whole(s)) = Cardinality(Whole(r)) + Cardinality(part[b])
                                     - Cardinality(Whole(r) \cap part[b])
    BY <2>2, <2>3, <2>4, FS_Union
  <2>6. /\ Cardinality(Whole(r)) \in Nat /\ Cardinality(part[b]) \in Nat
        /\ Cardinality(Whole(r) \cap part[b]) \in Nat
    BY <2>3, <2>4, FS_CardinalityType, FS_Intersection
  <2>7. f[s] = g[b] + f[r] /\ f[r] \in Int /\ g[b] \in Int /\ f[s] \in Int
    BY <1>1, <1>3, <2>1 DEF b, r, Sums
  <2>8. Cardinality(Whole(s)) <= f[s]
    BY <2>3, <2>4, <2>5, <2>6, <2>7
  <2>. QED
    BY <2>5, <2>8
<1>4. \A s \in SUBSET S : s \in X
  <2>. HIDE DEF X
  <2>. QED
    BY <1>2, <1>3, SubsetInduction
<1>5. S \in X
  BY <1>4
<1>6. QED
  BY <1>1, <1>5

-------------------------------------------------------------------------------

USE DEF NaN, Low, Fair, Good
-------------------------------------------------------------------------------
(* Regions                                                                  *)

LEMMA RowMajorOrder ==
  ASSUME NEW p \in Nat \X Nat, NEW q \in Nat \X Nat
  PROVE  /\ ~RowMajor(p, p)
         /\ p # q => RowMajor(p, q) \/ RowMajor(q, p)
         /\ \A r \in Nat \X Nat : RowMajor(p, q) /\ RowMajor(q, r) => RowMajor(p, r)
  BY DEF RowMajor

(* A region has a first pixel.                                                *)
LEMMA FirstOfRegion ==
  ASSUME NEW region \in SUBSET (Nat \X Nat), IsFiniteSet(region), region # {}
  PROVE  FirstOf(region) \in region
<1>. DEFINE R == {e \in region \X region : RowMajor(e[1], e[2])}
<1>1. \A p, q \in region : << p, q >> \in R <=> RowMajor(p, q)
  OBVIOUS
<1>2. /\ \A x, y, z \in region : << x, y >> \in R /\ << y, z >> \in R => << x, z >> \in R
      /\ \A x \in region : << x, x >> \notin R
      /\ \A x, y \in region : x # y => << x, y >> \in R \/ << y, x >> \in R
  <2>. HIDE DEF R
  <2>. QED
    BY <1>1, RowMajorOrder
<1>3. PICK p \in region : \A q \in region \ {p} : << p, q >> \in R
  <2>. HIDE DEF R
  <2>. QED
    BY <1>2, FirstExists
<1>4. \A q \in region : ~RowMajor(q, p)
  <2>1. \A q \in region \ {p} : RowMajor(p, q)
    BY <1>1, <1>3
  <2>. QED
    BY <2>1, RowMajorOrder
<1>5. QED
  BY <1>4 DEF FirstOf

(* Of regions that share no pixel, one precedes the other.                       *)
LEMMA RegionOrder ==
  ASSUME NEW regions,
         \A r \in regions : r \in SUBSET (Nat \X Nat) /\ IsFiniteSet(r) /\ r # {},
         \A r, s \in regions : r # s => r \cap s = {}
  PROVE  /\ \A r \in regions : ~Precedes(r, r)
         /\ \A r, s \in regions : r # s => Precedes(r, s) \/ Precedes(s, r)
         /\ \A r, s, t \in regions : Precedes(r, s) /\ Precedes(s, t) => Precedes(r, t)
<1>1. \A r \in regions : /\ FirstOf(r) \in r
                         /\ FirstOf(r) \in Nat \X Nat
                         /\ Cardinality(r) \in Nat
  BY FirstOfRegion, FS_CardinalityType
<1>2. \A r, s \in regions : r # s => FirstOf(r) # FirstOf(s)
  BY <1>1
<1>3. \A r \in regions : ~Precedes(r, r)
  BY <1>1, RowMajorOrder DEF Precedes
<1>4. \A r, s \in regions : r # s => Precedes(r, s) \/ Precedes(s, r)
  <2>1. TAKE r, s \in regions
  <2>2. HAVE r # s
  <2>3. RowMajor(FirstOf(r), FirstOf(s)) \/ RowMajor(FirstOf(s), FirstOf(r))
    BY <1>1, <1>2, <2>2, RowMajorOrder
  <2>4. QED
    BY <1>1, <2>3 DEF Precedes
<1>5. ASSUME NEW r \in regions, NEW s \in regions, NEW t \in regions,
             Precedes(r, s), Precedes(s, t)
      PROVE  Precedes(r, t)
  <2>1. RowMajor(FirstOf(r), FirstOf(s)) /\ RowMajor(FirstOf(s), FirstOf(t))
          => RowMajor(FirstOf(r), FirstOf(t))
    BY <1>1, RowMajorOrder
  <2>2. Cardinality(r) \in Nat /\ Cardinality(s) \in Nat /\ Cardinality(t) \in Nat
    BY <1>1
  <2>3. QED
    BY <1>5, <2>1, <2>2 DEF Precedes
<1>6. QED
  BY <1>3, <1>4, <1>5

(* The regions of a pool are parts of it that share no pixel.                    *)
LEMMA RegionsArePartition ==
  ASSUME NEW pool, IsFiniteSet(pool), pool # {}, NEW edges \in SUBSET (pool \X pool)
  PROVE  /\ Regions(pool, edges) # {}
         /\ \A r \in Regions(pool, edges) : r \in SUBSET pool /\ r # {}
         /\ \A r, s \in Regions(pool, edges) : r # s => r \cap s = {}
<1>. DEFINE apart == {s \in SUBSET pool : s # {} /\ \A e \in edges : (e[1] \in s) = (e[2] \in s)}
            sizes == {Cardinality(s) : s \in apart}
<1>1. Regions(pool, edges) = {r \in apart : \A s \in apart : s \subseteq r => s = r}
  BY DEF Regions
<1>2. pool \in apart
  OBVIOUS
<1>3. \A s \in apart : IsFiniteSet(s) /\ Cardinality(s) \in Nat
  BY PartIsSmaller
<1>4. PICK m \in sizes : \A n \in sizes : m <= n
  <2>1. sizes \in SUBSET Nat /\ sizes # {}
    <3>. HIDE DEF apart
    <3>. QED
      BY <1>2, <1>3
  <2>. QED
    BY <2>1, LeastNatural
<1>5. PICK r \in apart : Cardinality(r) = m
  BY <1>4
<1>6. \A s \in apart : s \subseteq r => s = r
  <2>1. TAKE s \in apart
  <2>2. HAVE s \subseteq r
  <2>3. Cardinality(s) >= Cardinality(r)
    BY <1>4, <1>5
  <2>. HIDE DEF apart
  <2>4. s # r => Cardinality(s) < Cardinality(r)
    BY <1>3, <2>2, PartIsSmaller
  <2>5. QED
    BY <1>3, <2>3, <2>4
<1>7. ASSUME NEW s \in apart, NEW t \in apart, s \cap t # {}
      PROVE  s \cap t \in apart
  BY <1>7
<1>8. \A s \in apart : s \in SUBSET pool /\ s # {}
  OBVIOUS
<1>. HIDE DEF apart
<1>9. r \in Regions(pool, edges)
  BY <1>1, <1>5, <1>6
<1>10. ASSUME NEW s \in Regions(pool, edges), NEW t \in Regions(pool, edges), s \cap t # {}
       PROVE  s = t
  <2>1. s \in apart /\ t \in apart
    BY <1>1
  <2>2. s \cap t \in apart
    BY <1>7, <1>10, <2>1
  <2>3. s \cap t = s /\ s \cap t = t
    BY <1>1, <2>2
  <2>4. QED
    BY <2>3
<1>11. \A s \in Regions(pool, edges) : s \in SUBSET pool /\ s # {}
  BY <1>1, <1>8
<1>12. QED
  BY <1>9, <1>10, <1>11

LEMMA GridIsFinite ==
  ASSUME NEW rows \in Nat, NEW cols \in Nat
  PROVE  /\ Grid(rows, cols) \in SUBSET (Nat \X Nat)
         /\ IsFiniteSet(Grid(rows, cols))
         /\ Cardinality(Grid(rows, cols)) = rows * cols
<1>1. \A n \in Nat : IsFiniteSet(0 .. n - 1) /\ Cardinality(0 .. n - 1) = n
  BY FS_Interval
<1>2. Grid(rows, cols) = (0 .. rows - 1) \X (0 .. cols - 1)
  BY DEF Grid
<1>. DEFINE R == 0 .. rows - 1
            C == 0 .. cols - 1
<1>3. IsFiniteSet(R) /\ IsFiniteSet(C) /\ Cardinality(R) = rows /\ Cardinality(C) = cols
  BY <1>1
<1>4. R \X C \in SUBSET (Nat \X Nat)
  OBVIOUS
<1>. HIDE DEF R, C
<1>5. IsFiniteSet(R \X C) /\ Cardinality(R \X C) = rows * cols
  BY <1>3, FS_Product
<1>6. QED
  BY <1>2, <1>4, <1>5 DEF R, C

(* The largest component of a pool that is not empty is a part of it.             *)
LEMMA LargestIsPart ==
  ASSUME NEW rows \in Nat, NEW cols \in Nat, NEW pool \in SUBSET Grid(rows, cols),
         NEW edges \in SUBSET (pool \X pool)
  PROVE  /\ LargestComponent(pool, edges) \in SUBSET pool
         /\ pool # {} => LargestComponent(pool, edges) # {}
<1>1. CASE pool = {}
  BY <1>1 DEF LargestComponent
<1>2. CASE pool # {}
  <2>. DEFINE regions == Regions(pool, edges)
              R == {e \in regions \X regions : Precedes(e[1], e[2])}
  <2>1. IsFiniteSet(pool) /\ pool \in SUBSET (Nat \X Nat)
    BY GridIsFinite, PartIsSmaller
  <2>2. /\ regions # {}
        /\ \A r \in regions : r \in SUBSET pool /\ r # {}
        /\ \A r, s \in regions : r # s => r \cap s = {}
    BY <1>2, <2>1, RegionsArePartition
  <2>3. IsFiniteSet(regions)
    <3>1. regions \in SUBSET (SUBSET pool)
      BY <2>2
    <3>2. IsFiniteSet(SUBSET pool)
      BY <2>1, FS_SUBSET
    <3>. HIDE DEF regions
    <3>. QED
      BY <3>1, <3>2, PartIsSmaller
  <2>. HIDE DEF regions
  <2>4. \A r \in regions : r \in SUBSET (Nat \X Nat) /\ IsFiniteSet(r) /\ r # {}
    BY <2>1, <2>2, PartIsSmaller
  <2>5. /\ \A r \in regions : ~Precedes(r, r)
        /\ \A r, s \in regions : r # s => Precedes(r, s) \/ Precedes(s, r)
        /\ \A r, s, t \in regions : Precedes(r, s) /\ Precedes(s, t) => Precedes(r, t)
    BY <2>2, <2>4, RegionOrder
  <2>6. \A r, s \in regions : << r, s >> \in R <=> Precedes(r, s)
    OBVIOUS
  <2>7. PICK r \in regions : \A s \in regions \ {r} : << r, s >> \in R
    <3>1. /\ \A x, y, z \in regions : << x, y >> \in R /\ << y, z >> \in R => << x, z >> \in R
          /\ \A x \in regions : << x, x >> \notin R
          /\ \A x, y \in regions : x # y => << x, y >> \in R \/ << y, x >> \in R
      <4>. HIDE DEF R
      <4>. QED
        BY <2>5, <2>6
    <3>2. regions # {} /\ IsFiniteSet(regions)
      BY <2>2, <2>3
    <3>. HIDE DEF R
    <3>. QED
      BY <3>1, <3>2, FirstExists
  <2>8. \A s \in regions \ {r} : Precedes(r, s)
    BY <2>6, <2>7
  <2>9. LargestComponent(pool, edges) \in regions
    BY <1>2, <2>8 DEF LargestComponent, regions
  <2>10. QED
    BY <2>2, <2>9
<1>3. QED
  BY <1>1, <1>2

-------------------------------------------------------------------------------
(* The reference                                                            *)

(* What is chosen could be a reference, and only when nothing could be one is      *)
(* nothing chosen, coherent support or not.                                   *)
LEMMA CandidatesFound ==
  ASSUME NEW s, s.rows \in Nat, s.cols \in Nat, NEW at, NEW rows, NEW cols
  PROVE  /\ \A c \in Candidates(s, at, rows, cols) :
              /\ c.point \in Grid(s.rows, s.cols)
              /\ Referenceable(s, c.point)
              /\ s.layers[c.point].quality >= Fair
         /\ Candidates(s, at, rows, cols) = {} =>
              \A p \in Grid(s.rows, s.cols) :
                ~(Referenceable(s, p) /\ s.layers[p].quality >= Fair)
<1>. DEFINE grid == Grid(s.rows, s.cols)
            support == SupportPool(s, at, rows, cols)
            legacy == {p \in grid : Referenceable(s, p) /\ s.layers[p].quality >= Fair}
            coherent == LargestComponent(support, Touching(support))
            plain == LargestComponent(legacy, Adjacent(legacy))
            choose(region, fellBack) == {[point |-> p, fellBack |-> fellBack] : p \in region}
<1>1. support \in SUBSET legacy
  BY DEF SupportPool
<1>2. /\ coherent \in SUBSET support
      /\ support # {} => coherent # {}
  <2>1. Touching(support) \in SUBSET (support \X support)
    BY DEF Touching
  <2>2. support \in SUBSET Grid(s.rows, s.cols)
    BY <1>1
  <2>. HIDE DEF support
  <2>. QED
    BY <2>1, <2>2, LargestIsPart
<1>3. /\ plain \in SUBSET legacy
      /\ legacy # {} => plain # {}
  <2>1. Adjacent(legacy) \in SUBSET (legacy \X legacy)
    BY DEF Adjacent
  <2>2. legacy \in SUBSET Grid(s.rows, s.cols)
    OBVIOUS
  <2>. HIDE DEF legacy
  <2>. QED
    BY <2>1, <2>2, LargestIsPart
<1>4. Candidates(s, at, rows, cols) =
        IF setting.coherent /\ support # {}
        THEN choose(coherent, FALSE)
        ELSE choose(plain, setting.coherent)
  BY DEF Candidates
<1>5. \A c \in Candidates(s, at, rows, cols) : c.point \in legacy
  <2>. HIDE DEF coherent, plain, legacy, support
  <2>. QED
    BY <1>1, <1>2, <1>3, <1>4
<1>6. Candidates(s, at, rows, cols) = {} => legacy = {}
  <2>1. \A region, fellBack : region # {} => choose(region, fellBack) # {}
    OBVIOUS
  <2>. HIDE DEF coherent, plain, legacy, support, choose
  <2>. QED
    BY <1>2, <1>3, <1>4, <2>1
<1>7. QED
  BY <1>5, <1>6
-------------------------------------------------------------------------------
(* The frame                                                                *)

(* Where the run ends: the published grid, and what it holds of the frame.        *)
Bounded == frame.target # NoTarget
Start == IF Bounded THEN frame.target.start ELSE << 0, 0 >>
Rows == IF Bounded THEN frame.target.rows ELSE frame.rows
Cols == IF Bounded THEN frame.target.cols ELSE frame.cols
Area == Grid(Rows, Cols)
Lands(p) == Plus(Start, p)
Labels(p) == frame.pixel[Lands(p)].labels

LayerAt(q) ==
  [dates |-> frame.pixel[q].dates, velocity |-> Cardinality(frame.pixel[q].dates) >= 2,
   quality |-> frame.pixel[q].quality, up |-> frame.pixel[q].up,
   labels |-> frame.pixel[q].labels]

Kept(p) ==
  LET pixel == frame.pixel[Lands(p)]
  IN  pixel.valid /\ pixel.up /\ pixel.dates = Dates /\ frame.dates >= 2

Eligible == {p \in Area : Qualifies(Lands(p))}
Survivors == {p \in Eligible : \A b \in Bands : Labels(p)[b] # 0}
Component == {p \in Survivors : reference \in Survivors /\ Labels(p) = Labels(reference)}

(* The layers, as each stage leaves them.                                      *)
Inverted ==
  [rows |-> frame.rows, cols |-> frame.cols,
   valid |-> {p \in DOMAIN frame.pixel : frame.pixel[p].valid},
   layers |-> [p \in DOMAIN frame.pixel |-> LayerAt(p)]]

Trimmed ==
  [rows |-> Rows, cols |-> Cols,
   valid |-> {p \in Area : frame.pixel[Lands(p)].valid},
   layers |-> [p \in Area |-> LayerAt(Lands(p))]]

Masked(valid) ==
  [rows |-> Rows, cols |-> Cols, valid |-> valid,
   layers |-> [p \in Area |-> IF Kept(p) THEN LayerAt(Lands(p)) ELSE Blank]]

Final ==
  [rows |-> Rows, cols |-> Cols, valid |-> Component,
   layers |-> [p \in Area |-> IF p \in Component THEN LayerAt(Lands(p)) ELSE Blank]]

AfterTrim == {"trimmed", "masked", "settled", "restricted", "published"}
AfterMasks == AfterTrim \ {"trimmed"}
AfterChoice == AfterMasks \ {"masked"}
AfterComponent == {"restricted", "published"}

(* How far the layers and the grid are.                                       *)
Course ==
  /\ stage \in AfterTrim \cup {"corrected", "referenced", "failed"}
  /\ stage = "corrected" => spatial = AsUnwrapped /\ origin = << 0, 0 >> /\ reference = NoPoint
                             /\ datum = NoPoint /\ fitted = NoPoint
  /\ stage = "referenced" => /\ spatial = Inverted /\ origin = << 0, 0 >>
                             /\ reference \in DOMAIN frame.pixel \cup {NoPoint}
  /\ stage \in AfterTrim => origin = Start /\ reference \in Area \cup {NoPoint}
  /\ stage = "trimmed" => spatial = Trimmed
  /\ stage \in {"masked", "settled"} => spatial = Masked(Survivors)
  /\ stage = "restricted" => spatial = Masked(Component)
  /\ stage = "published" => spatial = Final

(* What has been counted on the way, and of which pixels.                       *)
NoLabel(b) == {p \in Eligible : Labels(p)[b] = 0}
Elsewhere(b) == {p \in Survivors : Labels(p)[b] # Labels(reference)[b]}

Counts ==
  /\ stage \in AfterMasks => /\ eligible = Eligible
                             /\ census = UnwrapComponents(Masked(Survivors))
  /\ stage \in {"masked", "settled"} => rejected = [b \in Bands |-> Cardinality(NoLabel(b))]
  /\ stage \in AfterComponent =>
       rejected = [b \in Bands |-> Cardinality(NoLabel(b)) + Cardinality(Elsewhere(b))]

(* A reference is a survivor of the masks, or there is none to be had.            *)
Verdict ==
  /\ stage \in AfterChoice => \/ status = "selected" /\ reference \in Survivors
                              \/ status = "unavailable" /\ Survivors = {}
  /\ stage = "published" => Connected

FrameInv ==
  /\ frame \in Frames /\ setting \in Settings
  /\ stage # "failed" => reason = "none"
  /\ Course /\ Counts /\ Verdict /\ OneDatum /\ RefusedHasNoReference

(* What the assumptions say of the frame at hand.                               *)
LEMMA PixelFacts ==
  ASSUME frame \in Frames
  PROVE  /\ frame.rows \in Nat /\ frame.cols \in Nat /\ frame.dates \in Nat
         /\ DOMAIN frame.pixel = Grid(frame.rows, frame.cols)
         /\ NoPoint \notin DOMAIN frame.pixel
         /\ IsFiniteSet(Bands)
         /\ \A q \in DOMAIN frame.pixel : frame.pixel[q].labels \in [Bands -> Nat]
<1>1. /\ frame.rows \in Nat \ {0} /\ frame.cols \in Nat \ {0} /\ frame.dates \in Nat
      /\ DOMAIN frame.pixel = Grid(frame.rows, frame.cols)
      /\ NoPoint \notin DOMAIN frame.pixel
      /\ \A p \in DOMAIN frame.pixel :
           /\ frame.pixel[p].labels \in Seq(Nat)
           /\ Len(frame.pixel[p].labels) = Len(frame.pixel[<< 0, 0 >>].labels)
  BY FramesAssumption
<1>2. << 0, 0 >> \in DOMAIN frame.pixel
  <2>1. 0 \in 0 .. frame.rows - 1 /\ 0 \in 0 .. frame.cols - 1
    BY <1>1
  <2>. QED
    BY <1>1, <2>1 DEF Grid
<1>. DEFINE n == Len(frame.pixel[<< 0, 0 >>].labels)
<1>3. Bands = 1 .. n /\ n \in Nat
  BY <1>1, <1>2 DEF Bands
<1>4. \A p \in DOMAIN frame.pixel : frame.pixel[p].labels \in [1 .. n -> Nat]
  BY <1>1
<1>5. IsFiniteSet(1 .. n)
  BY <1>3, FS_Interval
<1>6. QED
  BY <1>1, <1>3, <1>4, <1>5

LEMMA AreaFacts ==
  ASSUME frame \in Frames
  PROVE  /\ Rows \in Nat /\ Cols \in Nat /\ Start \in Nat \X Nat
         /\ Area \in SUBSET (Nat \X Nat) /\ IsFiniteSet(Area)
         /\ Area \in SUBSET DOMAIN frame.pixel /\ NoPoint \notin Area
         /\ \A p \in Area : Lands(p) \in DOMAIN frame.pixel
         /\ ~Bounded => \A p \in Area : Lands(p) = p
         /\ \A p \in DOMAIN frame.pixel : Plus(<< 0, 0 >>, p) = p
<1>1. /\ frame.rows \in Nat \ {0} /\ frame.cols \in Nat \ {0}
      /\ Bounded => /\ frame.target.start \in Nat \X Nat
                    /\ frame.target.rows \in Nat \ {0} /\ frame.target.cols \in Nat \ {0}
                    /\ frame.target.start[1] + frame.target.rows <= frame.rows
                    /\ frame.target.start[2] + frame.target.cols <= frame.cols
  BY FramesAssumption DEF Bounded
<1>2. DOMAIN frame.pixel = Grid(frame.rows, frame.cols) /\ NoPoint \notin DOMAIN frame.pixel
  BY PixelFacts
<1>3. /\ Rows \in Nat /\ Cols \in Nat /\ Start \in Nat \X Nat
      /\ Start[1] + Rows <= frame.rows /\ Start[2] + Cols <= frame.cols
  BY <1>1 DEF Rows, Cols, Start
<1>4. /\ Area \in SUBSET (Nat \X Nat) /\ IsFiniteSet(Area)
  BY <1>3, GridIsFinite DEF Area
<1>5. \A p \in Area : /\ p = << p[1], p[2] >> /\ p[1] \in 0 .. Rows - 1 /\ p[2] \in 0 .. Cols - 1
  BY DEF Area, Grid
<1>6. \A i, j \in Nat : i < frame.rows /\ j < frame.cols => << i, j >> \in DOMAIN frame.pixel
  BY <1>1, <1>2 DEF Grid
<1>7. Area \in SUBSET DOMAIN frame.pixel
  <2>1. \A p \in Area : p[1] \in Nat /\ p[2] \in Nat /\ p[1] < frame.rows /\ p[2] < frame.cols
    BY <1>1, <1>3, <1>5
  <2>. QED
    BY <1>5, <1>6, <2>1
<1>8. \A p \in Area : Lands(p) \in DOMAIN frame.pixel
  <2>1. TAKE p \in Area
  <2>2. /\ Start[1] + p[1] \in Nat /\ Start[1] + p[1] < frame.rows
        /\ Start[2] + p[2] \in Nat /\ Start[2] + p[2] < frame.cols
    BY <1>1, <1>3, <1>5
  <2>3. QED
    BY <1>6, <2>2 DEF Lands, Plus
<1>9. \A p \in DOMAIN frame.pixel : Plus(<< 0, 0 >>, p) = p
  <2>1. \A p \in DOMAIN frame.pixel : p = << p[1], p[2] >> /\ p[1] \in Nat /\ p[2] \in Nat
    BY <1>1, <1>2 DEF Grid
  <2>. QED
    BY <2>1 DEF Plus
<1>10. ~Bounded => \A p \in Area : Lands(p) = p
  BY <1>7, <1>9 DEF Lands, Start
<1>11. QED
  BY <1>2, <1>3, <1>4, <1>7, <1>8, <1>9, <1>10

-------------------------------------------------------------------------------
(* What the steps make of the layers                                          *)

LEMMA FittedTwice ==
  ASSUME frame \in Frames
  PROVE  /\ Fitted(AsUnwrapped) = Inverted
         /\ Fitted(Inverted) = Inverted
         /\ \A valid : Fitted(Masked(valid)) = Masked(valid)
<1>1. Fitted(AsUnwrapped) = Inverted
  <2>. DEFINE raw(p) == [dates |-> frame.pixel[p].dates, velocity |-> FALSE,
                         quality |-> frame.pixel[p].quality, up |-> frame.pixel[p].up,
                         labels |-> frame.pixel[p].labels]
  <2>1. \A p \in DOMAIN frame.pixel :
          [raw(p) EXCEPT !.velocity = Cardinality(raw(p).dates) >= 2] = LayerAt(p)
    BY DEF LayerAt
  <2>2. AsUnwrapped.layers = [p \in DOMAIN frame.pixel |-> raw(p)]
    BY DEF AsUnwrapped
  <2>. HIDE DEF raw
  <2>3. [p \in DOMAIN AsUnwrapped.layers |->
           [AsUnwrapped.layers[p] EXCEPT
              !.velocity = Cardinality(AsUnwrapped.layers[p].dates) >= 2]]
          = [p \in DOMAIN frame.pixel |-> LayerAt(p)]
    BY <2>1, <2>2
  <2>4. Fitted(AsUnwrapped) =
          [AsUnwrapped EXCEPT !.layers = [p \in DOMAIN frame.pixel |-> LayerAt(p)]]
    BY <2>3 DEF Fitted
  <2>. QED
    BY <2>4 DEF AsUnwrapped, Inverted
<1>2. Fitted(Inverted) = Inverted
  <2>1. \A p : [LayerAt(p) EXCEPT !.velocity = Cardinality(LayerAt(p).dates) >= 2] = LayerAt(p)
    BY DEF LayerAt
  <2>2. Inverted.layers = [p \in DOMAIN frame.pixel |-> LayerAt(p)]
    BY DEF Inverted
  <2>3. [p \in DOMAIN Inverted.layers |->
           [Inverted.layers[p] EXCEPT
              !.velocity = Cardinality(Inverted.layers[p].dates) >= 2]]
          = [p \in DOMAIN frame.pixel |-> LayerAt(p)]
    BY <2>1, <2>2
  <2>4. Fitted(Inverted) = [Inverted EXCEPT !.layers = [p \in DOMAIN frame.pixel |-> LayerAt(p)]]
    BY <2>3 DEF Fitted
  <2>. QED
    BY <2>4 DEF Inverted
<1>3. ASSUME NEW valid
      PROVE  Fitted(Masked(valid)) = Masked(valid)
  <2>1. ~(Cardinality({}) >= 2)
    BY FS_EmptySet
  <2>3. [Blank EXCEPT !.velocity = Cardinality(Blank.dates) >= 2] = Blank
    <3>1. Blank.dates = {} /\ Blank.velocity = FALSE
      BY DEF Blank
    <3>2. (Cardinality(Blank.dates) >= 2) = FALSE
      BY <2>1, <3>1
    <3>. QED
      BY <3>1, <3>2 DEF Blank
  <2>4. \A q : [LayerAt(q) EXCEPT !.velocity = Cardinality(LayerAt(q).dates) >= 2] = LayerAt(q)
    BY DEF LayerAt
  <2>5. Fitted(Masked(valid)) =
          [Masked(valid) EXCEPT !.layers =
             [p \in Area |-> [Masked(valid).layers[p] EXCEPT
                                !.velocity = Cardinality(Masked(valid).layers[p].dates) >= 2]]]
    BY DEF Fitted, Masked
  <2>6. \A p \in Area :
          [Masked(valid).layers[p] EXCEPT
             !.velocity = Cardinality(Masked(valid).layers[p].dates) >= 2]
            = Masked(valid).layers[p]
    <3>1. \A p \in Area : Masked(valid).layers[p] = IF Kept(p) THEN LayerAt(Lands(p)) ELSE Blank
      BY DEF Masked
    <3>. QED
      BY <2>3, <2>4, <3>1
  <2>7. Masked(valid).layers = [p \in Area |-> Masked(valid).layers[p]]
    BY DEF Masked
  <2>8. Fitted(Masked(valid)) = [Masked(valid) EXCEPT !.layers = Masked(valid).layers]
    BY <2>5, <2>6, <2>7
  <2>9. QED
    BY <2>8 DEF Masked
<1>4. QED
  BY <1>1, <1>2, <1>3

LEMMA CutToTarget ==
  ASSUME frame \in Frames
  PROVE  /\ Bounded => Cut(Inverted) = Trimmed
         /\ ~Bounded => Inverted = Trimmed
<1>1. CASE Bounded
  <2>1. Area = Grid(frame.target.rows, frame.target.cols) /\ Rows = frame.target.rows
        /\ Cols = frame.target.cols /\ \A p : Lands(p) = Plus(frame.target.start, p)
    BY <1>1 DEF Area, Rows, Cols, Lands, Start
  <2>2. \A p \in Area : /\ Inverted.layers[Lands(p)] = LayerAt(Lands(p))
                        /\ Lands(p) \in Inverted.valid <=> frame.pixel[Lands(p)].valid
    BY AreaFacts DEF Inverted
  <2>3. Cut(Inverted) =
          [rows |-> Rows, cols |-> Cols,
           valid |-> {p \in Area : Lands(p) \in Inverted.valid},
           layers |-> [p \in Area |-> Inverted.layers[Lands(p)]]]
    BY <2>1 DEF Cut
  <2>4. QED
    BY <1>1, <2>2, <2>3 DEF Trimmed
<1>2. CASE ~Bounded
  <2>1. Area = DOMAIN frame.pixel /\ Rows = frame.rows /\ Cols = frame.cols
    BY <1>2, PixelFacts DEF Area, Rows, Cols
  <2>2. \A p \in Area : Lands(p) = p
    BY <1>2, AreaFacts
  <2>3. QED
    BY <1>2, <2>1, <2>2 DEF Trimmed, Inverted
<1>3. QED
  BY <1>1, <1>2

(* apply_validity_mask, the mask file and the first restriction leave the           *)
(* survivors.                                                               *)
LEMMA MasksLeaveSurvivors ==
  ASSUME frame \in Frames, origin = Start
  PROVE  LET masked == WithinPublicationMask(ApplyValidityMask(Trimmed))
         IN  /\ masked.valid = Eligible
             /\ \A b \in Bands : RejectedBy(masked, b, NoPoint) = NoLabel(b)
             /\ Restricted(masked, NoPoint) = Masked(Survivors)
<1>. DEFINE masked == WithinPublicationMask(ApplyValidityMask(Trimmed))
<1>1. \A p \in Area : /\ Trimmed.layers[p] = LayerAt(Lands(p))
                      /\ p \in Trimmed.valid <=> frame.pixel[Lands(p)].valid
  BY DEF Trimmed
<1>2. \A q : frame.pixel[q].dates = Dates
               => (LayerAt(q).velocity <=> frame.dates >= 2)
  <2>1. Cardinality(Dates) = frame.dates /\ frame.dates \in Nat
    <3>1. frame.dates \in Nat
      BY PixelFacts
    <3>2. Cardinality(1 .. frame.dates) = frame.dates
      BY <3>1, FS_Interval
    <3>. QED
      BY <3>1, <3>2 DEF Dates
  <2>. QED
    BY <2>1 DEF LayerAt
<1>3. {p \in Trimmed.valid : /\ Trimmed.layers[p].velocity
                             /\ Trimmed.layers[p].dates = Dates
                             /\ Trimmed.layers[p].up} = {p \in Area : Kept(p)}
  <2>1. \A p \in Area : /\ Trimmed.layers[p].dates = frame.pixel[Lands(p)].dates
                        /\ Trimmed.layers[p].up = frame.pixel[Lands(p)].up
                        /\ Trimmed.layers[p].velocity = LayerAt(Lands(p)).velocity
    <3>1. \A q : LayerAt(q).dates = frame.pixel[q].dates /\ LayerAt(q).up = frame.pixel[q].up
      BY DEF LayerAt
    <3>. QED
      BY <1>1, <3>1
  <2>2. \A p \in Trimmed.valid : p \in Area
    BY DEF Trimmed
  <2>. QED
    BY <1>1, <1>2, <2>1, <2>2 DEF Kept
<1>4. ApplyValidityMask(Trimmed) = Masked({p \in Area : Kept(p)})
  <2>1. DOMAIN Trimmed.layers = Area
    BY DEF Trimmed
  <2>2. ApplyValidityMask(Trimmed) =
          [Trimmed EXCEPT !.valid = {p \in Area : Kept(p)},
                          !.layers = [p \in Area |-> IF p \in {q \in Area : Kept(q)}
                                                     THEN Trimmed.layers[p] ELSE Blank]]
    BY <1>3, <2>1 DEF ApplyValidityMask
  <2>3. [p \in Area |-> IF p \in {q \in Area : Kept(q)} THEN Trimmed.layers[p] ELSE Blank]
          = [p \in Area |-> IF Kept(p) THEN LayerAt(Lands(p)) ELSE Blank]
    BY <1>1
  <2>4. QED
    BY <2>2, <2>3 DEF Masked, Trimmed
<1>5. masked = Masked(Eligible)
  <2>1. {p \in {q \in Area : Kept(q)} : frame.pixel[Lands(p)].keep} = Eligible
    BY DEF Eligible, Qualifies, Kept
  <2>2. masked = [Masked({p \in Area : Kept(p)}) EXCEPT
                    !.valid = {p \in {q \in Area : Kept(q)} : frame.pixel[Lands(p)].keep}]
    BY <1>4 DEF WithinPublicationMask, Masked, Source, Lands
  <2>3. QED
    BY <2>1, <2>2 DEF Masked
<1>6. \A p \in Eligible : p \in Area /\ Kept(p)
  BY DEF Eligible, Qualifies, Kept
<1>7. \A p \in Eligible : Masked(Eligible).layers[p].labels = Labels(p)
  BY <1>6 DEF Masked, LayerAt, Labels
<1>8. \A b : RejectedBy(masked, b, NoPoint) = NoLabel(b)
  <2>1. Masked(Eligible).valid = Eligible
    BY DEF Masked
  <2>2. QED
    BY <1>5, <1>7, <2>1 DEF RejectedBy, Keeps, NoLabel
<1>9. Restricted(masked, NoPoint) = Masked(Survivors)
  <2>1. Eligible \ UNION {NoLabel(b) : b \in Bands} = Survivors
    BY DEF Survivors, NoLabel
  <2>2. Restricted(masked, NoPoint) =
          [Masked(Eligible) EXCEPT !.valid = Eligible \ UNION {NoLabel(b) : b \in Bands}]
    <3>1. Masked(Eligible).valid = Eligible
      BY DEF Masked
    <3>2. {RejectedBy(masked, b, NoPoint) : b \in Bands} = {NoLabel(b) : b \in Bands}
      BY <1>8
    <3>. HIDE DEF masked
    <3>. QED
      BY <1>5, <3>1, <3>2 DEF Restricted
  <2>3. QED
    BY <2>1, <2>2 DEF Masked
<1>10. QED
  BY <1>5, <1>8, <1>9 DEF Masked

LEMMA SurvivorFacts ==
  ASSUME frame \in Frames
  PROVE  /\ IsFiniteSet(Eligible) /\ IsFiniteSet(Survivors)
         /\ Eligible \in SUBSET Area /\ Survivors \in SUBSET Eligible
         /\ Component \in SUBSET Survivors
         /\ NoPoint \notin Survivors
         /\ \A p \in Area : Labels(p) \in [Bands -> Nat]
         /\ \A p \in Eligible : Kept(p)
         /\ \A valid : \A p \in Eligible : Masked(valid).layers[p] = LayerAt(Lands(p))
         /\ \A q : LayerAt(q).labels = frame.pixel[q].labels
         /\ \A p \in Survivors : 0 \notin Range(Labels(p))
         /\ \A p \in Eligible : 0 \notin Range(Labels(p)) => p \in Survivors
<1>1. Eligible \in SUBSET Area /\ Survivors \in SUBSET Eligible /\ Component \in SUBSET Survivors
  BY DEF Eligible, Survivors, Component
<1>2. IsFiniteSet(Area) /\ NoPoint \notin Area
  BY AreaFacts
<1>3. IsFiniteSet(Eligible) /\ IsFiniteSet(Survivors) /\ NoPoint \notin Survivors
  BY <1>1, <1>2, PartIsSmaller
<1>4. \A p \in Area : Labels(p) \in [Bands -> Nat]
  BY AreaFacts, PixelFacts DEF Labels
<1>5. \A p \in Eligible : Kept(p)
  BY DEF Eligible, Qualifies, Kept
<1>6. \A valid : \A p \in Eligible : Masked(valid).layers[p] = LayerAt(Lands(p))
  BY <1>1, <1>5 DEF Masked
<1>7. \A q : LayerAt(q).labels = frame.pixel[q].labels
  BY DEF LayerAt
<1>8. \A p \in Eligible : 0 \notin Range(Labels(p)) <=> p \in Survivors
  <2>1. TAKE p \in Eligible
  <2>2. DOMAIN Labels(p) = Bands
    BY <1>1, <1>4
  <2>3. QED
    BY <2>2 DEF Range, Survivors
<1>9. QED
  BY <1>1, <1>3, <1>4, <1>5, <1>6, <1>7, <1>8

(* The second restriction leaves the reference's component, and the last mask       *)
(* blanks the rest.                                                         *)
LEMMA ComponentIsLeft ==
  ASSUME frame \in Frames, reference \in Survivors \/ Survivors = {}
  PROVE  /\ \A b \in Bands : RejectedBy(Masked(Survivors), b, reference) = Elsewhere(b)
         /\ Restricted(Masked(Survivors), reference) = Masked(Component)
         /\ ApplyValidityMask(Masked(Component)) = Final
         /\ reference \in Survivors =>
              0 \notin Range(Masked(Survivors).layers[reference].labels)
<1>1. \A p \in Survivors : Masked(Survivors).layers[p].labels = Labels(p)
  BY SurvivorFacts DEF Labels
<1>2. Masked(Survivors).valid = Survivors /\ Masked(Component).valid = Component
  BY DEF Masked
<1>3. \A b \in Bands : RejectedBy(Masked(Survivors), b, reference) = Elsewhere(b)
  <2>1. CASE Survivors = {}
    BY <1>2, <2>1 DEF RejectedBy, Elsewhere
  <2>2. CASE reference \in Survivors
    <3>1. reference # NoPoint
      BY <2>2, SurvivorFacts
    <3>2. \A p \in Survivors : \A b \in Bands : Labels(p)[b] # 0
      BY DEF Survivors
    <3>3. \A p \in Survivors : \A b \in Bands :
            Keeps(Masked(Survivors), b, p, reference) <=> Labels(p)[b] = Labels(reference)[b]
      BY <1>1, <2>2, <3>1, <3>2 DEF Keeps
    <3>4. QED
      BY <1>2, <3>3 DEF RejectedBy, Elsewhere
  <2>3. QED
    BY <2>1, <2>2
<1>4. Restricted(Masked(Survivors), reference) = Masked(Component)
  <2>1. {RejectedBy(Masked(Survivors), b, reference) : b \in Bands} = {Elsewhere(b) : b \in Bands}
    BY <1>3
  <2>2. Survivors \ UNION {Elsewhere(b) : b \in Bands} = Component
    <3>1. CASE Survivors = {}
      BY <3>1 DEF Component
    <3>2. CASE reference \in Survivors
      <4>1. \A p \in Survivors : Labels(p) \in [Bands -> Nat]
        BY SurvivorFacts
      <4>2. \A p \in Survivors :
              Labels(p) = Labels(reference) <=> \A b \in Bands : Labels(p)[b] = Labels(reference)[b]
        BY <3>2, <4>1
      <4>3. QED
        BY <3>2, <4>2 DEF Component, Elsewhere
    <3>3. QED
      BY <3>1, <3>2
  <2>3. Restricted(Masked(Survivors), reference) =
          [Masked(Survivors) EXCEPT !.valid = Survivors \ UNION {Elsewhere(b) : b \in Bands}]
    BY <1>2, <2>1 DEF Restricted
  <2>4. QED
    BY <2>2, <2>3 DEF Masked
<1>5. ApplyValidityMask(Masked(Component)) = Final
  <2>1. \A p \in Component : Masked(Component).layers[p] = LayerAt(Lands(p)) /\ Kept(p) /\ p \in Area
    BY SurvivorFacts
  <2>2. \A p : Kept(p) => /\ LayerAt(Lands(p)).velocity
                          /\ LayerAt(Lands(p)).dates = Dates
                          /\ LayerAt(Lands(p)).up
    <3>1. Cardinality(Dates) = frame.dates /\ frame.dates \in Nat
      <4>1. frame.dates \in Nat
        BY PixelFacts
      <4>2. Cardinality(1 .. frame.dates) = frame.dates
        BY <4>1, FS_Interval
      <4>. QED
        BY <4>1, <4>2 DEF Dates
    <3>2. QED
      BY <3>1 DEF Kept, LayerAt
  <2>3. {p \in Component : /\ Masked(Component).layers[p].velocity
                           /\ Masked(Component).layers[p].dates = Dates
                           /\ Masked(Component).layers[p].up} = Component
    BY <2>1, <2>2
  <2>4. DOMAIN Masked(Component).layers = Area
    BY DEF Masked
  <2>5. [p \in Area |-> IF p \in Component THEN Masked(Component).layers[p] ELSE Blank]
          = [p \in Area |-> IF p \in Component THEN LayerAt(Lands(p)) ELSE Blank]
    BY <2>1
  <2>6. ApplyValidityMask(Masked(Component)) =
          [Masked(Component) EXCEPT !.valid = Component,
             !.layers = [p \in Area |-> IF p \in Component THEN Masked(Component).layers[p]
                                        ELSE Blank]]
    BY <1>2, <2>3, <2>4 DEF ApplyValidityMask
  <2>7. QED
    BY <2>5, <2>6 DEF Masked, Final
<1>6. QED
  BY <1>1, <1>3, <1>4, <1>5, SurvivorFacts

(* No band rejects more pixels than are lost, and every lost pixel was rejected.      *)
LEMMA RejectionsAddUp ==
  ASSUME frame \in Frames, reference \in Survivors \/ Survivors = {},
         NEW count, count = [b \in Bands |-> Cardinality(NoLabel(b)) + Cardinality(Elsewhere(b))]
  PROVE  LET lost == Cardinality(Eligible) - Cardinality(Component)
         IN  /\ \A b \in Bands : count[b] <= lost
             /\ lost <= IteratedSum(count, Bands)
<1>. DEFINE gone == Eligible \ Component
            part == [b \in Bands |-> NoLabel(b) \cup Elsewhere(b)]
<1>1. /\ Component \in SUBSET Eligible /\ Survivors \in SUBSET Eligible
      /\ IsFiniteSet(Eligible) /\ IsFiniteSet(Survivors)
  BY SurvivorFacts
<1>2. /\ IsFiniteSet(gone) /\ Cardinality(gone) \in Nat
      /\ Cardinality(gone) = Cardinality(Eligible) - Cardinality(Component)
  <2>1. IsFiniteSet(gone) /\ Cardinality(gone) = Cardinality(Eligible) - Cardinality(Eligible \cap Component)
    BY <1>1, FS_Difference, PartIsSmaller
  <2>2. Eligible \cap Component = Component
    BY <1>1
  <2>3. QED
    BY <2>1, <2>2, FS_CardinalityType
<1>3. \A b \in Bands : /\ NoLabel(b) \in SUBSET Eligible /\ Elsewhere(b) \in SUBSET Survivors
                       /\ NoLabel(b) \cap Elsewhere(b) = {}
                       /\ part[b] \in SUBSET gone
  <2>1. \A b \in Bands : NoLabel(b) \in SUBSET Eligible /\ Elsewhere(b) \in SUBSET Survivors
    BY DEF NoLabel, Elsewhere
  <2>2. \A b \in Bands : NoLabel(b) \cap Survivors = {}
    BY DEF NoLabel, Survivors
  <2>3. \A b \in Bands : Elsewhere(b) \cap Component = {}
    BY DEF Elsewhere, Component
  <2>4. Component \in SUBSET Survivors
    BY SurvivorFacts
  <2>5. QED
    BY <1>1, <2>1, <2>2, <2>3, <2>4
<1>4. \A b \in Bands : /\ IsFiniteSet(part[b]) /\ Cardinality(part[b]) = count[b]
                       /\ count[b] \in Nat
  <2>1. TAKE b \in Bands
  <2>2. IsFiniteSet(NoLabel(b)) /\ IsFiniteSet(Elsewhere(b))
    BY <1>1, <1>3, PartIsSmaller
  <2>3. /\ IsFiniteSet(NoLabel(b) \cup Elsewhere(b))
        /\ Cardinality(NoLabel(b) \cup Elsewhere(b)) =
             Cardinality(NoLabel(b)) + Cardinality(Elsewhere(b))
               - Cardinality(NoLabel(b) \cap Elsewhere(b))
    BY <2>2, FS_Union
  <2>4. Cardinality(NoLabel(b) \cap Elsewhere(b)) = 0
    BY <1>3, FS_EmptySet
  <2>5. Cardinality(NoLabel(b)) \in Nat /\ Cardinality(Elsewhere(b)) \in Nat
    BY <2>2, FS_CardinalityType
  <2>6. QED
    BY <2>3, <2>4, <2>5
<1>5. \A b \in Bands : Cardinality(part[b]) <= Cardinality(gone)
  <2>. HIDE DEF part, gone
  <2>. QED
    BY <1>2, <1>3, PartIsSmaller
<1>6. UNION {part[b] : b \in Bands} = gone
  <2>1. ASSUME NEW p \in gone
        PROVE  \E b \in Bands : p \in part[b]
    <3>1. CASE p \notin Survivors
      BY <3>1 DEF Survivors, NoLabel
    <3>2. CASE p \in Survivors
      <4>1. reference \in Survivors /\ Labels(p) # Labels(reference)
        BY <2>1, <3>2 DEF Component
      <4>2. Labels(p) \in [Bands -> Nat] /\ Labels(reference) \in [Bands -> Nat]
        BY <1>1, <3>2, <4>1, SurvivorFacts
      <4>3. \E b \in Bands : Labels(p)[b] # Labels(reference)[b]
        BY <4>1, <4>2
      <4>4. QED
        BY <3>2, <4>3 DEF Elsewhere
    <3>3. QED
      BY <3>1, <3>2
  <2>. HIDE DEF part, gone
  <2>2. QED
    BY <1>3, <2>1
<1>7. Cardinality(gone) <= IteratedSum(count, Bands)
  <2>1. count \in [Bands -> Int]
    <3>1. DOMAIN count = Bands /\ count = [b \in Bands |-> count[b]]
      OBVIOUS
    <3>. HIDE DEF part
    <3>. QED
      BY <1>4, <3>1
  <2>2. \A b \in Bands : IsFiniteSet(part[b]) /\ Cardinality(part[b]) <= count[b]
    <3>. HIDE DEF part
    <3>. QED
      BY <1>4
  <2>3. IsFiniteSet(Bands)
    BY PixelFacts
  <2>. HIDE DEF part, gone
  <2>4. Cardinality(UNION {part[b] : b \in Bands}) <= IteratedSum(count, Bands)
    BY <2>1, <2>2, <2>3, UnionIsBounded
  <2>5. QED
    BY <1>6, <2>4
<1>8. QED
  <2>. HIDE DEF part, gone
  <2>. QED
    BY <1>2, <1>4, <1>5, <1>7

(* unwrap_component numbers the components so that no two share a number, and numbers *)
(* nothing else.                                                            *)
LEMMA CensusTellsComponents ==
  ASSUME frame \in Frames
  PROVE  LET numbers == UnwrapComponents(Masked(Survivors))
         IN  /\ \A p \in Area \ Survivors : numbers[p] = 0
             /\ \A p \in Survivors : numbers[p] # 0
             /\ \A p, q \in Survivors : numbers[p] = numbers[q] <=> Labels(p) = Labels(q)
<1>. DEFINE like(p) == {q \in Survivors : Labels(q) = Labels(p)}
            groups == {like(p) : p \in Survivors}
            before(g) == {h \in groups : Precedes(h, g)}
            numbers == [p \in Area |-> IF p \in Survivors THEN 1 + Cardinality(before(like(p)))
                                       ELSE 0]
<1>1. UnwrapComponents(Masked(Survivors)) = numbers
  <2>1. \A p \in Survivors : Masked(Survivors).layers[p].labels = Labels(p)
    BY SurvivorFacts DEF Labels
  <2>2. {p \in Masked(Survivors).valid : 0 \notin Range(Masked(Survivors).layers[p].labels)}
          = Survivors
    <3>1. Masked(Survivors).valid = Survivors
      BY DEF Masked
    <3>2. \A p \in Survivors : 0 \notin Range(Labels(p))
      BY SurvivorFacts
    <3>3. QED
      BY <2>1, <3>1, <3>2
  <2>3. \A p \in Survivors :
          {q \in Survivors : Masked(Survivors).layers[q].labels = Masked(Survivors).layers[p].labels}
            = like(p)
    BY <2>1
  <2>4. Grid(Masked(Survivors).rows, Masked(Survivors).cols) = Area
    BY DEF Masked, Area
  <2>. DEFINE raw(p) == {q \in Survivors : Masked(Survivors).layers[q].labels
                                             = Masked(Survivors).layers[p].labels}
              rawGroups == {raw(p) : p \in Survivors}
  <2>5. rawGroups = groups
    BY <2>3
  <2>6. UnwrapComponents(Masked(Survivors)) =
          [p \in Area |-> IF p \in Survivors
                          THEN 1 + Cardinality({g \in rawGroups : Precedes(g, raw(p))})
                          ELSE 0]
    BY <2>2, <2>4 DEF UnwrapComponents
  <2>7. \A p \in Survivors : {g \in rawGroups : Precedes(g, raw(p))} = before(like(p))
    BY <2>3, <2>5
  <2>. HIDE DEF raw, rawGroups, before, like, groups
  <2>8. QED
    BY <2>6, <2>7
<1>2. /\ \A g \in groups : g \in SUBSET (Nat \X Nat) /\ IsFiniteSet(g) /\ g # {}
      /\ \A g, h \in groups : g # h => g \cap h = {}
      /\ IsFiniteSet(groups)
  <2>1. Survivors \in SUBSET (Nat \X Nat) /\ IsFiniteSet(Survivors)
    BY SurvivorFacts, AreaFacts
  <2>2. \A g \in groups : g \in SUBSET Survivors /\ g # {}
    OBVIOUS
  <2>3. \A g, h \in groups : g # h => g \cap h = {}
    OBVIOUS
  <2>4. IsFiniteSet(SUBSET Survivors)
    BY <2>1, FS_SUBSET
  <2>5. groups \in SUBSET (SUBSET Survivors)
    BY <2>2
  <2>. HIDE DEF groups
  <2>6. QED
    BY <2>1, <2>2, <2>3, <2>4, <2>5, PartIsSmaller
<1>3. /\ \A r \in groups : ~Precedes(r, r)
      /\ \A r, s \in groups : r # s => Precedes(r, s) \/ Precedes(s, r)
      /\ \A r, s, t \in groups : Precedes(r, s) /\ Precedes(s, t) => Precedes(r, t)
  <2>. HIDE DEF groups
  <2>. QED
    BY <1>2, RegionOrder
<1>4. \A g, h \in groups : Precedes(g, h) => Cardinality(before(g)) < Cardinality(before(h))
  <2>. DEFINE R == {e \in groups \X groups : Precedes(e[1], e[2])}
  <2>1. \A g, h \in groups : << g, h >> \in R <=> Precedes(g, h)
    OBVIOUS
  <2>2. \A g \in groups : before(g) = {h \in groups : << h, g >> \in R}
    BY <2>1
  <2>. HIDE DEF groups, R, before
  <2>3. /\ \A x, y, z \in groups : << x, y >> \in R /\ << y, z >> \in R => << x, z >> \in R
        /\ \A x \in groups : << x, x >> \notin R
    BY <1>3, <2>1
  <2>4. TAKE g, h \in groups
  <2>5. HAVE Precedes(g, h)
  <2>6. << g, h >> \in R /\ IsFiniteSet(groups)
    BY <1>2, <2>1, <2>5
  <2>7. Cardinality({z \in groups : << z, g >> \in R}) < Cardinality({z \in groups : << z, h >> \in R})
    BY <2>3, <2>6, RanksDiffer
  <2>8. QED
    BY <2>2, <2>7
<1>5. \A g \in groups : Cardinality(before(g)) \in Nat
  <2>1. \A g \in groups : before(g) \in SUBSET groups
    OBVIOUS
  <2>. HIDE DEF groups, before
  <2>. QED
    BY <1>2, <2>1, PartIsSmaller
<1>6. \A p \in Survivors : p \in Area /\ like(p) \in groups /\ p \in like(p)
  BY SurvivorFacts
<1>7. \A p, q \in Survivors : like(p) = like(q) <=> Labels(p) = Labels(q)
  OBVIOUS
<1>8. \A p \in Survivors : numbers[p] = 1 + Cardinality(before(like(p)))
  <2>. HIDE DEF before, like
  <2>. QED
    BY <1>6
<1>9. \A p \in Area \ Survivors : numbers[p] = 0
  OBVIOUS
<1>. HIDE DEF numbers, before, like, groups
<1>10. \A p \in Survivors : numbers[p] # 0
  BY <1>5, <1>6, <1>8
<1>11. \A p, q \in Survivors : numbers[p] = numbers[q] <=> Labels(p) = Labels(q)
  <2>1. TAKE p, q \in Survivors
  <2>2. like(p) # like(q) => Cardinality(before(like(p))) # Cardinality(before(like(q)))
    BY <1>3, <1>4, <1>5, <1>6
  <2>3. QED
    BY <1>5, <1>6, <1>7, <1>8, <2>2
<1>12. QED
  BY <1>1, <1>9, <1>10, <1>11

-------------------------------------------------------------------------------
(* The invariant                                                            *)

LEMMA FrameStays ==
  ASSUME frame' = frame
  PROVE  /\ Bounded' = Bounded /\ Start' = Start /\ Area' = Area /\ Bands' = Bands
         /\ Eligible' = Eligible /\ Survivors' = Survivors
         /\ Inverted' = Inverted /\ Trimmed' = Trimmed /\ Masked(Survivors)' = Masked(Survivors)
         /\ UnwrapComponents(Masked(Survivors))' = UnwrapComponents(Masked(Survivors))
         /\ \A b : NoLabel(b)' = NoLabel(b)
         /\ AsUnwrapped' = AsUnwrapped
<1>1. Bounded' = Bounded /\ Start' = Start /\ Area' = Area /\ Bands' = Bands
  BY DEF Bounded, Start, Area, Rows, Cols, Bands
<1>2. Eligible' = Eligible /\ Survivors' = Survivors
  BY DEF Eligible, Survivors, Qualifies, Dates, Labels, Lands, Bounded, Start, Area, Rows, Cols,
         Bands
<1>3. Inverted' = Inverted /\ Trimmed' = Trimmed /\ AsUnwrapped' = AsUnwrapped
  BY DEF Inverted, Trimmed, AsUnwrapped, LayerAt, Lands, Bounded, Start, Area, Rows, Cols
<1>4. Masked(Survivors)' = Masked(Survivors)
  BY <1>2 DEF Masked, LayerAt, Blank, Kept, Dates, Lands, Bounded, Start, Area, Rows, Cols, Bands
<1>5. UnwrapComponents(Masked(Survivors))' = UnwrapComponents(Masked(Survivors))
  BY <1>4 DEF UnwrapComponents
<1>6. \A b : NoLabel(b)' = NoLabel(b)
  BY <1>2 DEF NoLabel, Labels, Lands, Bounded, Start
<1>7. QED
  BY <1>1, <1>2, <1>3, <1>4, <1>5, <1>6

LEMMA ReferenceStays ==
  ASSUME frame' = frame, reference' = reference
  PROVE  /\ Component' = Component /\ Masked(Component)' = Masked(Component)
         /\ Final' = Final
         /\ \A b : Elsewhere(b)' = Elsewhere(b)
<1>1. Survivors' = Survivors
  BY FrameStays
<1>2. Component' = Component
  BY <1>1 DEF Component, Labels, Lands, Bounded, Start
<1>3. Masked(Component)' = Masked(Component)
  BY <1>2 DEF Masked, LayerAt, Blank, Kept, Dates, Lands, Bounded, Start, Area, Rows, Cols, Bands
<1>4. Final' = Final
  BY <1>2 DEF Final, LayerAt, Blank, Lands, Bounded, Start, Area, Rows, Cols, Bands
<1>5. \A b : Elsewhere(b)' = Elsewhere(b)
  BY <1>1 DEF Elsewhere, Labels, Lands, Bounded, Start
<1>6. QED
  BY <1>2, <1>3, <1>4, <1>5

LEMMA RefusalStays ==
  ASSUME frame' = frame, reason' = reason, RefusedHasNoReference
  PROVE  RefusedHasNoReference'
  BY DEF RefusedHasNoReference, Published, Qualifies, Dates

(* A survivor that is coherent enough would have been a reference.                 *)
LEMMA NoSurvivorNoReference ==
  ASSUME frame \in Frames,
         \A p \in Survivors : ~(frame.pixel[Lands(p)].quality >= Fair)
  PROVE  \A q \in Published :
           ~(Qualifies(q) /\ 0 \notin Range(frame.pixel[q].labels) /\ frame.pixel[q].quality >= Fair)
<1>1. \A q \in Published : \E p \in Area : q = Lands(p)
  <2>1. CASE Bounded
    <3>1. \A p \in Area : Plus(p, frame.target.start) = Lands(p)
      <4>1. \A p \in Area : p[1] \in Nat /\ p[2] \in Nat
        BY AreaFacts
      <4>2. Start = frame.target.start /\ Start[1] \in Nat /\ Start[2] \in Nat
        BY <2>1, AreaFacts DEF Start
      <4>3. QED
        BY <4>1, <4>2 DEF Lands, Plus
    <3>2. Area = Grid(frame.target.rows, frame.target.cols)
      BY <2>1 DEF Area, Rows, Cols
    <3>3. QED
      BY <2>1, <3>1, <3>2 DEF Published, Bounded
  <2>2. CASE ~Bounded
    <3>1. Area = DOMAIN frame.pixel
      BY <2>2, PixelFacts DEF Area, Rows, Cols
    <3>2. QED
      BY <2>2, <3>1, AreaFacts DEF Published, Bounded
  <2>3. QED
    BY <2>1, <2>2
<1>2. \A p \in Area : Qualifies(Lands(p)) /\ 0 \notin Range(frame.pixel[Lands(p)].labels)
                        => p \in Survivors
  BY SurvivorFacts DEF Eligible, Labels
<1>3. QED
  BY <1>1, <1>2

LEMMA InitInv == Init => FrameInv
<1>. SUFFICES ASSUME Init PROVE FrameInv
  OBVIOUS
<1>1. Course /\ Counts /\ Verdict
  BY DEF Init, Course, Counts, Verdict, AfterTrim, AfterMasks, AfterChoice, AfterComponent
<1>2. OneDatum /\ RefusedHasNoReference
  BY DEF Init, OneDatum, RefusedHasNoReference
<1>3. QED
  BY <1>1, <1>2 DEF Init, FrameInv

(* A run that fails must only have had cause.                                   *)
LEMMA FailedInv ==
  ASSUME FrameInv, NEW check, Fail(check), RefusedHasNoReference'
  PROVE  FrameInv'
<1>1. /\ frame' = frame /\ setting' = setting /\ stage' = "failed" /\ reason' = check
      /\ origin' = origin /\ reference' = reference /\ datum' = datum /\ fitted' = fitted
  BY DEF Fail, given, place, report
<1>2. OneDatum'
  BY <1>1 DEF FrameInv, Course, OneDatum, Plus
<1>3. Course' /\ Counts' /\ Verdict'
  BY <1>1 DEF Course, Counts, Verdict, AfterTrim, AfterMasks, AfterChoice, AfterComponent
<1>4. QED
  BY <1>1, <1>2, <1>3 DEF FrameInv

LEMMA FinalSpatialReferenceInv ==
  ASSUME FrameInv, FinalSpatialReference
  PROVE  FrameInv'
<1>. DEFINE chosen == IF setting.configured = NoPoint
                      THEN Candidates(spatial, << 0, 0 >>, frame.rows, frame.cols)
                      ELSE {c \in {[point |-> setting.configured, fellBack |-> FALSE]} :
                              Referenceable(spatial, c.point)}
<1>1. /\ frame \in Frames /\ setting \in Settings /\ stage = "corrected" /\ reason = "none"
      /\ spatial = AsUnwrapped /\ origin = << 0, 0 >> /\ reference = NoPoint
      /\ datum = NoPoint /\ fitted = NoPoint
  BY DEF FrameInv, FinalSpatialReference, Course
<1>2. /\ spatial.rows = frame.rows /\ spatial.cols = frame.cols
      /\ spatial.valid = {p \in DOMAIN frame.pixel : frame.pixel[p].valid}
      /\ \A p \in DOMAIN frame.pixel : /\ spatial.layers[p].dates = frame.pixel[p].dates
                                       /\ spatial.layers[p].quality = frame.pixel[p].quality
  BY <1>1 DEF AsUnwrapped
<1>3. Grid(spatial.rows, spatial.cols) = DOMAIN frame.pixel
      /\ spatial.rows \in Nat /\ spatial.cols \in Nat
  BY <1>1, <1>2, PixelFacts
<1>4. /\ \A c \in chosen : c.point \in DOMAIN frame.pixel
      /\ chosen = {} /\ setting.configured = NoPoint =>
           \A p \in DOMAIN frame.pixel :
             ~(Referenceable(spatial, p) /\ spatial.layers[p].quality >= Fair)
  <2>1. CASE setting.configured = NoPoint
    <3>1. chosen = Candidates(spatial, << 0, 0 >>, frame.rows, frame.cols)
      BY <2>1
    <3>. HIDE DEF chosen
    <3>2. QED
      BY <1>3, <2>1, <3>1, CandidatesFound
  <2>2. CASE setting.configured # NoPoint
    BY <1>2, <2>2 DEF Referenceable
  <2>3. QED
    BY <2>1, <2>2
<1>5. FinalSpatialReference <=>
        /\ stage = "corrected"
        /\ \/ \E c \in chosen :
                /\ RereferenceTo(spatial, c.point, c.fellBack)
                /\ stage' = "referenced"
                /\ UNCHANGED << given, reason, origin, report >>
           \/ /\ chosen = {}
              /\ setting.configured = NoPoint
              /\ setting.uncertainty => \A p \in Local : ~Referenceable(spatial, p)
              /\ spatial' = Fitted(spatial)
              /\ stage' = "referenced"
              /\ UNCHANGED << given, reason, origin, reference, selection, datum, fitted, report >>
           \/ /\ chosen = {}
              /\ setting.configured # NoPoint
              /\ Fail("configured")
           \/ /\ chosen = {}
              /\ setting.configured = NoPoint
              /\ setting.uncertainty /\ \E p \in Local : Referenceable(spatial, p)
              /\ Fail("uncertainty")
  BY DEF FinalSpatialReference
<1>. HIDE DEF chosen
<1>6. ASSUME frame' = frame, setting' = setting, reason' = reason, stage' = "referenced",
             origin' = origin, spatial' = Fitted(spatial),
             reference' \in DOMAIN frame.pixel \cup {NoPoint},
             reference' = NoPoint => datum' = NoPoint,
             reference' # NoPoint => datum' = Plus(origin', reference'),
             fitted' = datum'
      PROVE  FrameInv'
  <2>1. spatial' = Inverted' /\ DOMAIN frame'.pixel = DOMAIN frame.pixel
    BY <1>1, <1>6, FittedTwice, FrameStays
  <2>2. Course' /\ Counts' /\ Verdict'
    BY <1>1, <1>6, <2>1 DEF Course, Counts, Verdict, AfterTrim, AfterMasks, AfterChoice,
                            AfterComponent
  <2>3. OneDatum'
    BY <1>6 DEF OneDatum
  <2>4. RefusedHasNoReference'
    BY <1>6, RefusalStays DEF FrameInv
  <2>5. QED
    BY <1>1, <1>6, <2>2, <2>3, <2>4 DEF FrameInv
<1>7. ASSUME NEW c \in chosen, RereferenceTo(spatial, c.point, c.fellBack),
             stage' = "referenced", UNCHANGED << given, reason, origin, report >>
      PROVE  FrameInv'
  <2>1. c.point # NoPoint
    BY <1>1, <1>4, PixelFacts
  <2>2. QED
    BY <1>4, <1>6, <1>7, <2>1 DEF RereferenceTo, given
<1>8. ASSUME chosen = {}, spatial' = Fitted(spatial), stage' = "referenced",
             UNCHANGED << given, reason, origin, reference, selection, datum, fitted, report >>
      PROVE  FrameInv'
  BY <1>1, <1>6, <1>8 DEF given
<1>9. ASSUME chosen = {}, setting.configured # NoPoint, Fail("configured")
      PROVE  FrameInv'
  <2>1. RefusedHasNoReference'
    BY <1>9 DEF Fail, RefusedHasNoReference
  <2>2. QED
    BY <1>9, <2>1, FailedInv
<1>10. ASSUME chosen = {}, setting.configured = NoPoint, Fail("uncertainty")
       PROVE  FrameInv'
  <2>1. \A p \in Survivors : ~(frame.pixel[Lands(p)].quality >= Fair)
    <3>1. \A p \in Survivors : /\ Lands(p) \in DOMAIN frame.pixel
                               /\ frame.pixel[Lands(p)].valid
                               /\ frame.pixel[Lands(p)].dates = Dates
      <4>1. \A p \in Survivors : p \in Eligible /\ p \in Area
        BY <1>1, SurvivorFacts
      <4>2. QED
        BY <1>1, <4>1, AreaFacts DEF Eligible, Qualifies
    <3>2. QED
      BY <1>2, <1>4, <1>10, <3>1 DEF Referenceable
  <2>2. \A q \in Published :
          ~(Qualifies(q) /\ 0 \notin Range(frame.pixel[q].labels) /\ frame.pixel[q].quality >= Fair)
    BY <1>1, <2>1, NoSurvivorNoReference
  <2>3. RefusedHasNoReference'
    <3>1. frame' = frame
      BY <1>10 DEF Fail, given
    <3>2. QED
      BY <2>2, <3>1 DEF RefusedHasNoReference, Published, Qualifies, Dates
  <2>4. QED
    BY <1>10, <2>3, FailedInv
<1>11. QED
  BY <1>5, <1>7, <1>8, <1>9, <1>10

LEMMA PixelArithmetic ==
  ASSUME NEW p \in Nat \X Nat, NEW q \in Nat \X Nat
  PROVE  Minus(Plus(q, p), q) = p /\ Plus(q, Minus(p, q)) = p
  BY DEF Plus, Minus

LEMMA TrimInv ==
  ASSUME FrameInv, Trim
  PROVE  FrameInv'
<1>. DEFINE start == frame.target.start
            chosen == Candidates(Cut(spatial), start, spatial.rows, spatial.cols)
            inside == reference # NoPoint /\ InTarget(reference)
<1>1. /\ frame \in Frames /\ setting \in Settings /\ stage = "referenced" /\ reason = "none"
      /\ spatial = Inverted /\ origin = << 0, 0 >>
      /\ reference \in DOMAIN frame.pixel \cup {NoPoint}
      /\ Bounded
  BY DEF FrameInv, Trim, Course, Bounded
<1>2. /\ start = Start /\ Start \in Nat \X Nat /\ Rows \in Nat /\ Cols \in Nat
      /\ Grid(frame.target.rows, frame.target.cols) = Area
      /\ Area \in SUBSET (Nat \X Nat) /\ NoPoint \notin Area
      /\ DOMAIN frame.pixel \in SUBSET (Nat \X Nat)
      /\ \A p \in DOMAIN frame.pixel : Plus(<< 0, 0 >>, p) = p
  <2>1. DOMAIN frame.pixel \in SUBSET (Nat \X Nat)
    BY <1>1, PixelFacts, GridIsFinite
  <2>2. QED
    BY <1>1, <2>1, AreaFacts DEF Start, Area, Rows, Cols
<1>3. Cut(spatial) = Trimmed /\ Cut(Fitted(spatial)) = Trimmed
  BY <1>1, CutToTarget, FittedTwice
<1>4. /\ \A c \in chosen : c.point \in Area
      /\ chosen = {} =>
           \A p \in Area : ~(Referenceable(Trimmed, p) /\ Trimmed.layers[p].quality >= Fair)
  <2>1. Trimmed.rows = Rows /\ Trimmed.cols = Cols /\ Grid(Rows, Cols) = Area
    BY DEF Trimmed, Area
  <2>2. chosen = Candidates(Trimmed, start, spatial.rows, spatial.cols)
    BY <1>3
  <2>. HIDE DEF chosen
  <2>3. QED
    BY <1>2, <2>1, <2>2, CandidatesFound
<1>5. ASSUME frame' = frame, setting' = setting, reason' = reason, stage' = "trimmed",
             origin' = start, spatial' = Trimmed, reference' \in Area,
             datum' = Plus(start, reference'), fitted' = datum'
      PROVE  FrameInv'
  <2>1. /\ spatial' = Trimmed' /\ origin' = Start' /\ reference' \in Area' /\ reference' # NoPoint
    BY <1>2, <1>5, FrameStays
  <2>2. Course' /\ Counts' /\ Verdict'
    BY <1>5, <2>1 DEF Course, Counts, Verdict, AfterTrim, AfterMasks, AfterChoice,
                      AfterComponent
  <2>3. OneDatum'
    BY <1>5, <2>1 DEF OneDatum
  <2>4. RefusedHasNoReference'
    BY <1>5, RefusalStays DEF FrameInv
  <2>5. QED
    BY <1>1, <1>5, <2>2, <2>3, <2>4 DEF FrameInv
<1>6. Trim <=>
        /\ stage = "referenced" /\ frame.target # NoTarget
        /\ \/ /\ inside
              /\ spatial' = Cut(spatial)
              /\ reference' = Minus(reference, start)
              /\ origin' = start
              /\ stage' = "trimmed"
              /\ UNCHANGED << given, reason, selection, datum, fitted, report >>
           \/ /\ ~inside
              /\ \E c \in chosen :
                   /\ spatial' = Cut(Fitted(spatial))
                   /\ reference' = Minus(Plus(start, c.point), start)
                   /\ selection' = [fellBack |-> c.fellBack, at |-> stage]
                   /\ datum' = Plus(start, c.point)
                   /\ fitted' = datum'
              /\ origin' = start
              /\ stage' = "trimmed"
              /\ UNCHANGED << given, reason, report >>
           \/ /\ ~inside
              /\ chosen = {}
              /\ Fail("target")
  BY DEF Trim
<1>7. ASSUME inside, spatial' = Cut(spatial), reference' = Minus(reference, start),
             origin' = start, stage' = "trimmed",
             UNCHANGED << given, reason, selection, datum, fitted, report >>
      PROVE  FrameInv'
  <2>1. reference \in DOMAIN frame.pixel /\ Minus(reference, start) \in Area
    BY <1>1, <1>2, <1>7 DEF InTarget
  <2>2. datum = reference /\ fitted = datum
    BY <1>1, <1>2, <1>7, <2>1 DEF FrameInv, OneDatum
  <2>3. reference = Plus(start, reference')
    BY <1>2, <1>7, <2>1, PixelArithmetic
  <2>4. QED
    BY <1>3, <1>5, <1>7, <2>1, <2>2, <2>3 DEF given
<1>. HIDE DEF chosen, inside
<1>8. ASSUME NEW c \in chosen, spatial' = Cut(Fitted(spatial)),
             reference' = Minus(Plus(start, c.point), start), datum' = Plus(start, c.point),
             fitted' = datum', origin' = start, stage' = "trimmed",
             UNCHANGED << given, reason, report >>
      PROVE  FrameInv'
  <2>1. reference' = c.point /\ c.point \in Area
    BY <1>2, <1>4, <1>8, PixelArithmetic
  <2>2. QED
    BY <1>3, <1>5, <1>8, <2>1 DEF given
<1>9. ASSUME chosen = {}, Fail("target")
      PROVE  FrameInv'
  <2>1. \A p \in Survivors : ~(frame.pixel[Lands(p)].quality >= Fair)
    <3>1. \A p \in Survivors : /\ p \in Area
                               /\ frame.pixel[Lands(p)].valid
                               /\ frame.pixel[Lands(p)].dates = Dates
      <4>1. \A p \in Survivors : p \in Eligible /\ p \in Area
        BY <1>1, SurvivorFacts
      <4>2. QED
        BY <4>1 DEF Eligible, Qualifies
    <3>2. \A p \in Area : /\ p \in Trimmed.valid <=> frame.pixel[Lands(p)].valid
                          /\ Trimmed.layers[p] = LayerAt(Lands(p))
      BY DEF Trimmed
    <3>3. \A q : /\ LayerAt(q).dates = frame.pixel[q].dates
                 /\ LayerAt(q).quality = frame.pixel[q].quality
      BY DEF LayerAt
    <3>4. QED
      BY <1>4, <1>9, <3>1, <3>2, <3>3 DEF Referenceable
  <2>2. \A q \in Published :
          ~(Qualifies(q) /\ 0 \notin Range(frame.pixel[q].labels) /\ frame.pixel[q].quality >= Fair)
    BY <1>1, <2>1, NoSurvivorNoReference
  <2>3. RefusedHasNoReference'
    <3>1. frame' = frame
      BY <1>9 DEF Fail, given
    <3>2. QED
      BY <2>2, <3>1 DEF RefusedHasNoReference, Published, Qualifies, Dates
  <2>4. QED
    BY <1>9, <2>3, FailedInv
<1>10. QED
  BY <1>6, <1>7, <1>8, <1>9

LEMMA KeepWholeInv ==
  ASSUME FrameInv, KeepWhole
  PROVE  FrameInv'
<1>1. /\ frame \in Frames /\ stage = "referenced" /\ stage' = "trimmed" /\ ~Bounded
      /\ frame' = frame /\ setting' = setting /\ reason' = reason /\ reason = "none"
      /\ spatial' = spatial /\ origin' = origin /\ reference' = reference
      /\ datum' = datum /\ fitted' = fitted
      /\ spatial = Inverted /\ origin = << 0, 0 >>
      /\ reference \in DOMAIN frame.pixel \cup {NoPoint}
  BY DEF FrameInv, KeepWhole, Course, Bounded, given, place
<1>2. Trimmed = Inverted /\ Start = << 0, 0 >> /\ Area = DOMAIN frame.pixel
  BY <1>1, CutToTarget, PixelFacts DEF Start, Area, Rows, Cols
<1>3. spatial' = Trimmed' /\ origin' = Start' /\ reference' \in Area' \cup {NoPoint}
  BY <1>1, <1>2, FrameStays
<1>4. Course' /\ Counts' /\ Verdict'
  BY <1>1, <1>3 DEF Course, Counts, Verdict, AfterTrim, AfterMasks, AfterChoice, AfterComponent
<1>5. OneDatum'
  BY <1>1 DEF FrameInv, OneDatum, Plus
<1>6. RefusedHasNoReference'
  BY <1>1, RefusalStays DEF FrameInv
<1>7. QED
  BY <1>1, <1>4, <1>5, <1>6 DEF FrameInv

LEMMA ApplyMasksInv ==
  ASSUME FrameInv, ApplyMasks
  PROVE  FrameInv'
<1>. DEFINE masked == WithinPublicationMask(ApplyValidityMask(spatial))
            restricted == Restricted(masked, NoPoint)
<1>1. /\ frame \in Frames /\ stage = "trimmed" /\ stage' = "masked"
      /\ frame' = frame /\ setting' = setting /\ reason' = reason /\ reason = "none"
      /\ origin' = origin /\ reference' = reference
      /\ datum' = datum /\ fitted' = fitted
      /\ spatial = Trimmed /\ origin = Start /\ reference \in Area \cup {NoPoint}
  BY DEF FrameInv, ApplyMasks, Course, given, AfterTrim
<1>2. /\ eligible' = masked.valid
      /\ rejected' = [b \in Bands |-> Cardinality(RejectedBy(masked, b, NoPoint))]
      /\ spatial' = restricted
      /\ census' = UnwrapComponents(restricted)
  BY DEF ApplyMasks
<1>3. /\ masked.valid = Eligible
      /\ \A b \in Bands : RejectedBy(masked, b, NoPoint) = NoLabel(b)
      /\ restricted = Masked(Survivors)
  BY <1>1, MasksLeaveSurvivors
<1>. HIDE DEF masked, restricted
<1>4. /\ eligible' = Eligible' /\ spatial' = Masked(Survivors)'
      /\ census' = UnwrapComponents(Masked(Survivors))'
      /\ origin' = Start' /\ reference' \in Area' \cup {NoPoint}
  BY <1>1, <1>2, <1>3, FrameStays
<1>5. rejected' = [b \in Bands' |-> Cardinality(NoLabel(b)')]
  <2>1. \A b : NoLabel(b)' = NoLabel(b)
    BY <1>1, FrameStays
  <2>2. rejected' = [b \in Bands |-> Cardinality(NoLabel(b))]
    BY <1>2, <1>3
  <2>3. Bands' = Bands
    BY <1>1, FrameStays
  <2>4. QED
    BY <2>1, <2>2, <2>3
<1>6. Course' /\ Counts' /\ Verdict'
  BY <1>1, <1>4, <1>5 DEF Course, Counts, Verdict, AfterTrim, AfterMasks, AfterChoice,
                          AfterComponent
<1>7. OneDatum'
  BY <1>1 DEF FrameInv, OneDatum, Plus
<1>8. RefusedHasNoReference'
  BY <1>1, RefusalStays DEF FrameInv
<1>9. QED
  BY <1>1, <1>6, <1>7, <1>8 DEF FrameInv

LEMMA CountsStay ==
  ASSUME frame' = frame, stage \in {"masked", "settled"}, stage' \in {"masked", "settled"},
         Counts, eligible' = eligible, rejected' = rejected, census' = census
  PROVE  Counts'
<1>1. /\ eligible' = Eligible' /\ census' = UnwrapComponents(Masked(Survivors))'
  BY FrameStays DEF Counts, AfterMasks, AfterTrim
<1>2. rejected' = [b \in Bands' |-> Cardinality(NoLabel(b)')]
  <2>1. rejected' = [b \in Bands |-> Cardinality(NoLabel(b))]
    BY DEF Counts
  <2>2. Bands' = Bands /\ \A b : NoLabel(b)' = NoLabel(b)
    BY FrameStays
  <2>3. QED
    BY <2>1, <2>2
<1>3. stage' \notin AfterComponent
  BY DEF AfterComponent
<1>4. QED
  BY <1>1, <1>2, <1>3 DEF Counts, AfterComponent

LEMMA SelectSurvivingReferenceInv ==
  ASSUME FrameInv, SelectSurvivingReference
  PROVE  FrameInv'
<1>. DEFINE chosen == Candidates(spatial, << 0, 0 >>, spatial.rows, spatial.cols)
            survives == reference # NoPoint /\ reference \in spatial.valid
<1>1. /\ frame \in Frames /\ setting \in Settings /\ stage = "masked" /\ reason = "none"
      /\ spatial = Masked(Survivors) /\ origin = Start /\ reference \in Area \cup {NoPoint}
      /\ frame' = frame /\ setting' = setting
      /\ eligible' = eligible /\ rejected' = rejected /\ census' = census
  BY DEF FrameInv, SelectSurvivingReference, Course, given, AfterTrim
<1>2. /\ spatial.valid = Survivors /\ spatial.rows = Rows /\ spatial.cols = Cols
      /\ Rows \in Nat /\ Cols \in Nat /\ Grid(Rows, Cols) = Area /\ NoPoint \notin Area
      /\ Survivors \in SUBSET Area
      /\ Fitted(spatial) = spatial
  BY <1>1, AreaFacts, SurvivorFacts, FittedTwice DEF Masked, Area
<1>3. /\ \A c \in chosen : c.point \in Survivors
      /\ chosen = {} => \A p \in Survivors : ~(frame.pixel[Lands(p)].quality >= Fair)
  <2>1. /\ \A c \in chosen : c.point \in Area /\ Referenceable(spatial, c.point)
        /\ chosen = {} =>
             \A p \in Area : ~(Referenceable(spatial, p) /\ spatial.layers[p].quality >= Fair)
    BY <1>2, CandidatesFound
  <2>2. \A p \in Survivors : /\ spatial.layers[p].quality = frame.pixel[Lands(p)].quality
                             /\ spatial.layers[p].dates = Dates
    <3>1. \A p \in Survivors : spatial.layers[p] = LayerAt(Lands(p)) /\ Kept(p)
      BY <1>1, SurvivorFacts
    <3>2. \A q : /\ LayerAt(q).dates = frame.pixel[q].dates
                 /\ LayerAt(q).quality = frame.pixel[q].quality
      BY DEF LayerAt
    <3>3. QED
      BY <3>1, <3>2 DEF Kept
  <2>3. QED
    BY <1>2, <2>1, <2>2 DEF Referenceable
<1>4. ASSUME stage' = "settled", reason' = reason, origin' = origin, spatial' = spatial,
             reference' \in Area \cup {NoPoint},
             \/ status' = "selected" /\ reference' \in Survivors
             \/ status' = "unavailable" /\ Survivors = {},
             reference' = NoPoint => datum' = NoPoint,
             reference' # NoPoint => datum' = Plus(origin', reference'),
             fitted' = datum'
      PROVE  FrameInv'
  <2>1. /\ spatial' = Masked(Survivors)' /\ origin' = Start'
        /\ reference' \in Area' \cup {NoPoint} /\ Survivors' = Survivors
    BY <1>1, <1>4, FrameStays
  <2>2. Course' /\ Verdict'
    BY <1>4, <2>1 DEF Course, Verdict, AfterTrim, AfterMasks, AfterChoice, AfterComponent
  <2>3. Counts'
    BY <1>1, <1>4, CountsStay DEF FrameInv
  <2>4. OneDatum'
    BY <1>4 DEF OneDatum
  <2>5. RefusedHasNoReference'
    BY <1>1, <1>4, RefusalStays DEF FrameInv
  <2>6. QED
    BY <1>1, <1>4, <2>2, <2>3, <2>4, <2>5 DEF FrameInv
<1>5. /\ \/ /\ survives
            /\ status' = "selected"
            /\ UNCHANGED << reason, place >>
         \/ /\ ~survives
            /\ \E c \in chosen : RereferenceTo(spatial, c.point, c.fellBack)
            /\ status' = "selected"
            /\ UNCHANGED << reason, origin >>
         \/ /\ ~survives /\ chosen = {} /\ spatial.valid = {}
            /\ status' = "unavailable"
            /\ UNCHANGED << reason, place >>
         \/ /\ ~survives /\ chosen = {} /\ spatial.valid # {}
            /\ reason' = "threshold"
            /\ UNCHANGED << place, status >>
      /\ stage' = IF reason' = "none" THEN "settled" ELSE "failed"
  BY DEF SelectSurvivingReference
<1>6. /\ reference = NoPoint => datum = NoPoint
      /\ reference # NoPoint => datum = Plus(origin, reference)
      /\ fitted = datum
  BY <1>1 DEF FrameInv, OneDatum
<1>. HIDE DEF chosen
<1>7. ASSUME survives, status' = "selected", UNCHANGED << reason, place >>
      PROVE  FrameInv'
  BY <1>1, <1>2, <1>4, <1>5, <1>6, <1>7 DEF place, Plus
<1>8. ASSUME NEW c \in chosen, RereferenceTo(spatial, c.point, c.fellBack),
             status' = "selected", UNCHANGED << reason, origin >>
      PROVE  FrameInv'
  <2>1. c.point \in Survivors /\ c.point # NoPoint /\ c.point \in Area
    BY <1>2, <1>3
  <2>2. /\ spatial' = spatial /\ reference' = c.point /\ datum' = Plus(origin, c.point)
        /\ fitted' = datum' /\ stage' = "settled"
    BY <1>1, <1>2, <1>5, <1>8 DEF RereferenceTo
  <2>3. QED
    BY <1>4, <1>8, <2>1, <2>2 DEF Plus
<1>9. ASSUME spatial.valid = {}, status' = "unavailable", UNCHANGED << reason, place >>
      PROVE  FrameInv'
  BY <1>1, <1>2, <1>4, <1>5, <1>6, <1>9 DEF place, Plus
<1>10. ASSUME chosen = {}, reason' = "threshold", UNCHANGED << place, status >>
       PROVE  FrameInv'
  <2>1. \A q \in Published :
          ~(Qualifies(q) /\ 0 \notin Range(frame.pixel[q].labels) /\ frame.pixel[q].quality >= Fair)
    BY <1>1, <1>3, <1>10, NoSurvivorNoReference
  <2>2. RefusedHasNoReference'
    BY <1>1, <2>1 DEF RefusedHasNoReference, Published, Qualifies, Dates
  <2>3. stage' = "failed"
    BY <1>5, <1>10
  <2>4. Course' /\ Counts' /\ Verdict'
    BY <2>3 DEF Course, Counts, Verdict, AfterTrim, AfterMasks, AfterChoice, AfterComponent
  <2>5. OneDatum'
    BY <1>6, <1>10 DEF OneDatum, place, Plus
  <2>6. QED
    BY <1>1, <2>2, <2>3, <2>4, <2>5 DEF FrameInv
<1>11. QED
  BY <1>5, <1>7, <1>8, <1>9, <1>10

LEMMA RestrictToReferenceInv ==
  ASSUME FrameInv, RestrictToReference
  PROVE  FrameInv'
<1>1. /\ frame \in Frames /\ setting \in Settings /\ stage = "settled" /\ reason = "none"
      /\ spatial = Masked(Survivors) /\ origin = Start /\ reference \in Area \cup {NoPoint}
      /\ \/ status = "selected" /\ reference \in Survivors
         \/ status = "unavailable" /\ Survivors = {}
      /\ eligible = Eligible /\ census = UnwrapComponents(Masked(Survivors))
      /\ rejected = [b \in Bands |-> Cardinality(NoLabel(b))]
  BY DEF FrameInv, RestrictToReference, Course, Verdict, Counts, AfterTrim, AfterMasks,
         AfterChoice
<1>2. /\ \A b \in Bands : RejectedBy(Masked(Survivors), b, reference) = Elsewhere(b)
      /\ Restricted(Masked(Survivors), reference) = Masked(Component)
      /\ reference \in Survivors => 0 \notin Range(Masked(Survivors).layers[reference].labels)
  BY <1>1, ComponentIsLeft
<1>3. CASE /\ spatial' = Restricted(spatial, reference)
           /\ rejected' = [b \in Bands |->
                             rejected[b] + Cardinality(RejectedBy(spatial, b, reference))]
           /\ stage' = "restricted"
           /\ UNCHANGED << given, reason, origin, reference, selection, datum, fitted,
                           eligible, census, status >>
  <2>1. /\ frame' = frame /\ setting' = setting /\ reason' = reason /\ origin' = origin
        /\ reference' = reference /\ datum' = datum /\ fitted' = fitted
        /\ eligible' = eligible /\ census' = census /\ status' = status
        /\ stage' = "restricted"
    BY <1>3 DEF given
  <2>2. /\ spatial' = Masked(Component)' /\ origin' = Start'
        /\ reference' \in Area' \cup {NoPoint} /\ Survivors' = Survivors
        /\ eligible' = Eligible' /\ census' = UnwrapComponents(Masked(Survivors))'
    BY <1>1, <1>2, <1>3, <2>1, FrameStays, ReferenceStays
  <2>3. rejected' = [b \in Bands' |-> Cardinality(NoLabel(b)') + Cardinality(Elsewhere(b)')]
    <3>1. rejected' = [b \in Bands |-> Cardinality(NoLabel(b)) + Cardinality(Elsewhere(b))]
      BY <1>1, <1>2, <1>3
    <3>2. /\ Bands' = Bands
          /\ \A b : NoLabel(b)' = NoLabel(b)
          /\ \A b : Elsewhere(b)' = Elsewhere(b)
      BY <2>1, FrameStays, ReferenceStays
    <3>3. QED
      BY <3>1, <3>2
  <2>4. Course'
    BY <2>1, <2>2 DEF Course, AfterTrim
  <2>5. Verdict'
    BY <1>1, <2>1, <2>2 DEF Verdict, AfterTrim, AfterMasks, AfterChoice
  <2>6. Counts'
    BY <2>1, <2>2, <2>3 DEF Counts, AfterTrim, AfterMasks, AfterComponent
  <2>7. OneDatum'
    BY <1>1, <2>1 DEF FrameInv, OneDatum, Plus
  <2>8. RefusedHasNoReference'
    BY <2>1, RefusalStays DEF FrameInv
  <2>9. QED
    BY <1>1, <2>1, <2>4, <2>5, <2>6, <2>7, <2>8 DEF FrameInv
<1>4. CASE /\ reference # NoPoint /\ 0 \in Range(spatial.layers[reference].labels)
           /\ Fail("component")
  <2>1. Survivors = {}
    BY <1>1, <1>2, <1>4
  <2>2. \A q \in Published :
          ~(Qualifies(q) /\ 0 \notin Range(frame.pixel[q].labels) /\ frame.pixel[q].quality >= Fair)
    BY <1>1, <2>1, NoSurvivorNoReference
  <2>3. RefusedHasNoReference'
    <3>1. frame' = frame
      BY <1>4 DEF Fail, given
    <3>2. QED
      BY <2>2, <3>1 DEF RefusedHasNoReference, Published, Qualifies, Dates
  <2>4. QED
    BY <1>4, <2>3, FailedInv
<1>5. QED
  BY <1>3, <1>4 DEF RestrictToReference

LEMMA PublishInv ==
  ASSUME FrameInv, Publish
  PROVE  FrameInv'
<1>1. /\ frame \in Frames /\ setting \in Settings /\ stage = "restricted" /\ reason = "none"
      /\ spatial = Masked(Component) /\ origin = Start /\ reference \in Area \cup {NoPoint}
      /\ \/ status = "selected" /\ reference \in Survivors
         \/ status = "unavailable" /\ Survivors = {}
      /\ eligible = Eligible /\ census = UnwrapComponents(Masked(Survivors))
      /\ rejected = [b \in Bands |-> Cardinality(NoLabel(b)) + Cardinality(Elsewhere(b))]
  BY DEF FrameInv, Publish, Course, Verdict, Counts, AfterTrim, AfterMasks, AfterChoice,
         AfterComponent
<1>2. CASE /\ Connected
           /\ spatial' = ApplyValidityMask(spatial)
           /\ stage' = "published"
           /\ UNCHANGED << given, reason, origin, reference, selection, datum, fitted, report >>
  <2>1. /\ frame' = frame /\ setting' = setting /\ reason' = reason /\ origin' = origin
        /\ reference' = reference /\ datum' = datum /\ fitted' = fitted
        /\ eligible' = eligible /\ census' = census /\ status' = status /\ rejected' = rejected
        /\ stage' = "published"
    BY <1>2 DEF given, report
  <2>2. /\ spatial' = Final' /\ origin' = Start'
        /\ reference' \in Area' \cup {NoPoint} /\ Survivors' = Survivors
        /\ eligible' = Eligible' /\ census' = UnwrapComponents(Masked(Survivors))'
    BY <1>1, <1>2, <2>1, ComponentIsLeft, FrameStays, ReferenceStays
  <2>3. rejected' = [b \in Bands' |-> Cardinality(NoLabel(b)') + Cardinality(Elsewhere(b)')]
    <3>1. /\ Bands' = Bands
          /\ \A b : NoLabel(b)' = NoLabel(b)
          /\ \A b : Elsewhere(b)' = Elsewhere(b)
      BY <2>1, FrameStays, ReferenceStays
    <3>2. QED
      BY <1>1, <2>1, <3>1
  <2>4. Connected'
    <3>1. spatial'.rows = spatial.rows /\ spatial'.cols = spatial.cols
      BY <1>1, <1>2, ComponentIsLeft DEF Masked, Final
    <3>2. QED
      BY <1>2, <2>1, <3>1 DEF Connected, ReferenceComponent, Local
  <2>5. Course'
    BY <2>1, <2>2 DEF Course, AfterTrim
  <2>6. Verdict'
    BY <1>1, <2>1, <2>2, <2>4 DEF Verdict, AfterTrim, AfterMasks, AfterChoice
  <2>7. Counts'
    BY <2>1, <2>2, <2>3 DEF Counts, AfterTrim, AfterMasks, AfterComponent
  <2>8. OneDatum'
    BY <1>1, <2>1 DEF FrameInv, OneDatum, Plus
  <2>9. RefusedHasNoReference'
    BY <2>1, RefusalStays DEF FrameInv
  <2>10. QED
    BY <1>1, <2>1, <2>5, <2>6, <2>7, <2>8, <2>9 DEF FrameInv
<1>3. ASSUME NEW check \in {"disconnected", "covariance"}, Fail(check)
      PROVE  FrameInv'
  <2>1. RefusedHasNoReference'
    BY <1>3 DEF Fail, RefusedHasNoReference
  <2>2. QED
    BY <1>3, <2>1, FailedInv
<1>4. QED
  BY <1>2, <1>3 DEF Publish

-------------------------------------------------------------------------------
(* Theorems                                                                 *)

LEMMA PublishedComponent ==
  ASSUME FrameInv, stage = "published"
  PROVE  MaskIsOneComponent /\ CensusIsOfTheMask /\ RejectionsExplained
<1>1. /\ frame \in Frames /\ setting \in Settings
      /\ spatial = Final /\ origin = Start /\ reference \in Area \cup {NoPoint}
      /\ \/ status = "selected" /\ reference \in Survivors
         \/ status = "unavailable" /\ Survivors = {}
      /\ eligible = Eligible /\ census = UnwrapComponents(Masked(Survivors))
      /\ rejected = [b \in Bands |-> Cardinality(NoLabel(b)) + Cardinality(Elsewhere(b))]
      /\ Connected
  BY DEF FrameInv, Course, Verdict, Counts, AfterTrim, AfterMasks, AfterChoice, AfterComponent
<1>2. /\ Local = Area /\ spatial.valid = Component
      /\ \A p \in Area : spatial.layers[p] = IF p \in Component THEN LayerAt(Lands(p)) ELSE Blank
      /\ \A p : Source(p) = frame.pixel[Lands(p)] /\ Source(p).labels = Labels(p)
      /\ \A p : Plus(origin, p) = Lands(p)
  BY <1>1 DEF Local, Area, Final, Source, Lands, Labels
<1>3. /\ Component \in SUBSET Survivors /\ Survivors \in SUBSET Eligible /\ Eligible \in SUBSET Area
      /\ reference \in Survivors => reference \in Component
  BY <1>1, SurvivorFacts DEF Component
<1>4. MaskIsOneComponent
  <2>1. ASSUME status = "selected"
        PROVE  /\ reference \in spatial.valid
               /\ 0 \notin Range(Source(reference).labels)
               /\ spatial.valid = {p \in Local : /\ Qualifies(Plus(origin, p))
                                                 /\ Source(p).labels = Source(reference).labels}
    <3>1. reference \in Survivors /\ reference \in Component
      BY <1>1, <1>3, <2>1
    <3>2. 0 \notin Range(Labels(reference))
      BY <1>1, <3>1, SurvivorFacts
    <3>3. \A p \in Area : Qualifies(Lands(p)) /\ Labels(p) = Labels(reference) => p \in Survivors
      BY <1>1, <3>2, SurvivorFacts DEF Eligible
    <3>4. Component = {p \in Area : Qualifies(Lands(p)) /\ Labels(p) = Labels(reference)}
      BY <1>3, <3>1, <3>3 DEF Component, Eligible
    <3>5. QED
      BY <1>2, <3>1, <3>2, <3>4
  <2>2. ASSUME status = "unavailable"
        PROVE  spatial.valid = {}
    BY <1>1, <1>2, <1>3, <2>2
  <2>3. \A p \in Local \ spatial.valid : spatial.layers[p] = Blank
    BY <1>2
  <2>4. \A p \in spatial.valid : spatial.layers[p].quality = Source(p).quality
    <3>1. \A q : LayerAt(q).quality = frame.pixel[q].quality
      BY DEF LayerAt
    <3>2. QED
      BY <1>2, <1>3, <3>1
  <2>5. QED
    BY <2>1, <2>2, <2>3, <2>4 DEF MaskIsOneComponent
<1>5. CensusIsOfTheMask
  <2>. SUFFICES ASSUME status = "selected"
                PROVE  /\ ReferenceComponent = spatial.valid
                       /\ frame.target # NoTarget =>
                            Cardinality(spatial.valid) * setting.minimum[2]
                              >= setting.minimum[1] * frame.target.rows * frame.target.cols
    BY DEF CensusIsOfTheMask
  <2>1. reference \in Survivors /\ reference \in Component /\ reference # NoPoint
    BY <1>1, <1>3, SurvivorFacts
  <2>2. /\ \A p \in Area \ Survivors : census[p] = 0
        /\ \A p \in Survivors : census[p] # 0
        /\ \A p, q \in Survivors : census[p] = census[q] <=> Labels(p) = Labels(q)
    BY <1>1, CensusTellsComponents
  <2>3. ReferenceComponent = {p \in Area : census[p] = census[reference]}
    BY <1>2, <2>1, <2>2 DEF ReferenceComponent
  <2>4. \A p \in Area : census[p] = census[reference] <=> p \in Component
    BY <1>3, <2>1, <2>2 DEF Component
  <2>5. ReferenceComponent = Component
    BY <1>3, <2>3, <2>4
  <2>6. ASSUME Bounded
        PROVE  Cardinality(Component) * setting.minimum[2]
                 >= setting.minimum[1] * frame.target.rows * frame.target.cols
    <3>1. Cardinality(Component) * setting.minimum[2] >= setting.minimum[1] * Cardinality(Local)
      BY <1>1, <2>1, <2>5, <2>6 DEF Connected, Bounded
    <3>2. /\ Rows = frame.target.rows /\ Cols = frame.target.cols
          /\ Rows \in Nat /\ Cols \in Nat
      BY <1>1, <2>6, AreaFacts DEF Rows, Cols
    <3>3. Cardinality(Local) = Rows * Cols
      BY <1>2, <3>2, GridIsFinite DEF Area
    <3>4. setting.minimum[1] \in Nat
      BY <1>1, SettingsAssumption
    <3>5. \A a, b, c \in Nat : a * (b * c) = a * b * c
      OBVIOUS
    <3>6. setting.minimum[1] * (Rows * Cols) = setting.minimum[1] * Rows * Cols
      BY <3>2, <3>4, <3>5
    <3>7. QED
      BY <3>1, <3>2, <3>3, <3>6
  <2>7. QED
    BY <1>2, <2>5, <2>6 DEF Bounded
<1>6. RejectionsExplained
  <2>1. /\ \A b \in Bands : rejected[b] <= Cardinality(Eligible) - Cardinality(Component)
        /\ Cardinality(Eligible) - Cardinality(Component) <= IteratedSum(rejected, Bands)
    BY <1>1, RejectionsAddUp
  <2>2. MapThenSumSet(LAMBDA b : rejected[b], Bands) = IteratedSum(rejected, Bands)
    BY DEF MapThenSumSet, MapThenFoldSet, IteratedSum
  <2>3. /\ \A b \in Bands : rejected[b] <= Cardinality(eligible) - Cardinality(spatial.valid)
        /\ Cardinality(eligible) - Cardinality(spatial.valid)
             <= MapThenSumSet(LAMBDA b : rejected[b], Bands)
    BY <1>1, <1>2, <2>1, <2>2
  <2>4. QED
    BY <2>3 DEF RejectionsExplained
<1>7. QED
  BY <1>4, <1>5, <1>6

LEMMA NextInv == FrameInv /\ [Next]_vars => FrameInv'
<1>. SUFFICES ASSUME FrameInv, [Next]_vars
              PROVE  FrameInv'
  OBVIOUS
<1>1. CASE UNCHANGED vars
  <2>1. /\ frame' = frame /\ setting' = setting /\ stage' = stage /\ reason' = reason
        /\ spatial' = spatial /\ origin' = origin /\ reference' = reference
        /\ datum' = datum /\ fitted' = fitted /\ eligible' = eligible
        /\ rejected' = rejected /\ census' = census /\ status' = status
    BY <1>1 DEF vars, given, place, report
  <2>2. Course'
    BY <2>1, FrameStays, ReferenceStays DEF FrameInv, Course
  <2>3. Counts'
    <3>1. stage \in AfterMasks => /\ eligible' = Eligible'
                                  /\ census' = UnwrapComponents(Masked(Survivors))'
      BY <2>1, FrameStays DEF FrameInv, Counts
    <3>2. stage \in {"masked", "settled"} =>
            rejected' = [b \in Bands' |-> Cardinality(NoLabel(b)')]
      BY <2>1, FrameStays DEF FrameInv, Counts
    <3>3. stage \in AfterComponent =>
            rejected' = [b \in Bands' |-> Cardinality(NoLabel(b)') + Cardinality(Elsewhere(b)')]
      BY <2>1, FrameStays, ReferenceStays DEF FrameInv, Counts
    <3>4. QED
      BY <2>1, <3>1, <3>2, <3>3 DEF Counts, AfterMasks, AfterTrim, AfterComponent
  <2>4. Verdict'
    BY <2>1, FrameStays DEF FrameInv, Verdict, Connected, ReferenceComponent, Local, AfterChoice,
                            AfterMasks, AfterTrim
  <2>5. OneDatum'
    BY <2>1 DEF FrameInv, OneDatum, Plus
  <2>6. RefusedHasNoReference'
    BY <2>1, RefusalStays DEF FrameInv
  <2>7. QED
    BY <2>1, <2>2, <2>3, <2>4, <2>5, <2>6 DEF FrameInv
<1>2. QED
  BY <1>1, FinalSpatialReferenceInv, TrimInv, KeepWholeInv, ApplyMasksInv,
     SelectSurvivingReferenceInv, RestrictToReferenceInv, PublishInv DEF Next

THEOREM FrameInvariant == Spec => []FrameInv
<1>1. Init => FrameInv
  BY InitInv
<1>2. FrameInv /\ [Next]_vars => FrameInv'
  BY NextInv
<1>3. QED
  BY <1>1, <1>2, PTL DEF Spec

(* Series, velocity and the reported reference agree on one pixel of the frame, in    *)
(* every run of every frame (rereference_to, trim).                            *)
THEOREM OneDatumAlways == Spec => []OneDatum
<1>1. FrameInv => OneDatum
  BY DEF FrameInv
<1>2. QED
  BY <1>1, FrameInvariant, PTL

(* What is published with a reference is the reference's unwrap component, all of    *)
(* it that qualifies and nothing else; the census counts it, in a bounded product it *)
(* is enough of the target, and every pixel lost to membership is accounted for     *)
(* (emit_displacement).                                                     *)
THEOREM PublishedComponentOnly == Spec => []PublishedIsOneComponent
<1>1. FrameInv => PublishedIsOneComponent
  BY PublishedComponent DEF PublishedIsOneComponent
<1>2. QED
  BY <1>1, FrameInvariant, PTL

(* Refused for want of a reference, a run has no pixel that could be published and   *)
(* was coherent enough to be one: no fallback gives up while a candidate is left      *)
(* (select_valid_reference_point).                                            *)
THEOREM RefusedOnlyWithoutReference == Spec => []RefusedHasNoReference
<1>1. FrameInv => RefusedHasNoReference
  BY DEF FrameInv
<1>2. QED
  BY <1>1, FrameInvariant, PTL
===============================================================================
