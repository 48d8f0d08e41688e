-------------------------- MODULE NrtRevisionProofs --------------------------
(***************************************************************************)
(* Proofs about NrtRevision, for every ministack size, carry limit, series,  *)
(* kernel and number of revisions.  References are first dates, because the  *)
(* code refuses to capture under any other plan (assess_support).            *)
(***************************************************************************)
EXTENDS NrtRevision, FiniteSetsExt, FiniteSetTheorems, SequenceTheorems, WellFoundedInduction, TLAPS
-------------------------------------------------------------------------------
(* Finite data.  The theorems of the library take the predicate or the equation as *)
(* an operator; here they are sets and functions, which the provers instantiate.   *)

(* The element of a set that a fold takes next.                                 *)
AnyOf(s) == CHOOSE x \in s : TRUE

(* A set of naturals has a least member.                                        *)
LEMMA LeastNatural ==
  ASSUME NEW S \in SUBSET Nat, S # {}
  PROVE  \E m \in S : \A n \in S : m <= n
<1>1. IsWellFoundedOn(OpToRel(<, Nat), Nat)
  BY NatLessThanWellFounded
<1>2. PICK m \in S : \A n \in S : ~ (<< n, m >> \in OpToRel(<, Nat))
  BY <1>1, WFMin
<1>3. \A n \in S : ~ (n < m)
  BY <1>2 DEF OpToRel
<1>4. QED
  BY <1>3

(* What holds of the empty set, and of a set whenever it holds of all but one       *)
(* element, holds of every subset of a finite set.                            *)
LEMMA SubsetInduction ==
  ASSUME NEW S, IsFiniteSet(S), NEW X, {} \in X,
         \A s \in SUBSET S : s # {} /\ s \ {AnyOf(s)} \in X => s \in X
  PROVE  \A s \in SUBSET S : s \in X
<1>. DEFINE bad == {s \in SUBSET S : s \notin X}
            sizes == {Cardinality(s) : s \in bad}
<1>1. \A s \in SUBSET S : IsFiniteSet(s) /\ Cardinality(s) \in Nat
  BY FS_Subset, FS_CardinalityType
<1>2. SUFFICES ASSUME bad # {} PROVE FALSE
  OBVIOUS
<1>3. sizes \in SUBSET Nat /\ sizes # {}
  BY <1>1, <1>2
<1>4. PICK m \in sizes : \A n \in sizes : m <= n
  BY <1>3, LeastNatural
<1>5. PICK s \in bad : Cardinality(s) = m
  BY <1>4
<1>6. s # {} /\ s \in SUBSET S
  BY <1>5
<1>. DEFINE c == AnyOf(s)
            r == s \ {c}
<1>7. c \in s
  BY <1>6 DEF AnyOf
<1>8. Cardinality(r) = Cardinality(s) - 1 /\ r \in SUBSET S
  BY <1>1, <1>6, <1>7, FS_RemoveElement
<1>9. Cardinality(r) < m /\ Cardinality(r) \in Nat
  <2>. HIDE DEF r, sizes, bad, c
  <2>. QED
    BY <1>1, <1>3, <1>4, <1>5, <1>6, <1>8
<1>10. r \notin bad
  <2>. HIDE DEF r
  <2>. QED
    BY <1>3, <1>4, <1>9
<1>11. QED
  BY <1>5, <1>6, <1>8, <1>10

(* A sum over a finite set, as MapThenSumSet of a function makes it.                *)
IteratedSum(g, S) ==
  LET iter[s \in SUBSET S] ==
        IF s = {} THEN 0
        ELSE LET x == CHOOSE x \in s : TRUE
             IN  g[x] + iter[s \ {x}]
  IN  iter[S]

-------------------------------------------------------------------------------

(***************************************************************************)
(* Sequences, as the functions they are                                    *)
(***************************************************************************)

IsList(s, n) == n \in Nat /\ s = [k \in 1 .. n |-> s[k]]

LEMMA ListIsSequence ==
  ASSUME NEW n, NEW s, IsList(s, n)
  PROVE  s \in Seq({s[k] : k \in 1 .. n}) /\ Len(s) = n /\ DOMAIN s = 1 .. n
<1>. DEFINE S == {s[k] : k \in 1 .. n}
<1>1. n \in Nat /\ s \in [1 .. n -> S]
  BY DEF IsList
<1>. HIDE DEF S
<1>2. s \in Seq(S)
  BY <1>1
<1>. QED
  BY <1>1, <1>2 DEF S

LEMMA SequenceIsList ==
  ASSUME NEW S, NEW s \in Seq(S)
  PROVE  IsList(s, Len(s))
  BY DEF IsList

LEMMA AppendList ==
  ASSUME NEW n, NEW s, IsList(s, n), NEW x
  PROVE  /\ IsList(Append(s, x), n + 1)
         /\ Append(s, x) = [k \in 1 .. n + 1 |-> IF k <= n THEN s[k] ELSE x]
<1>. DEFINE S == {s[k] : k \in 1 .. n} \cup {x}
<1>1. n \in Nat /\ s \in [1 .. n -> S]
  BY DEF IsList
<1>. HIDE DEF S
<1>2. s \in Seq(S) /\ x \in S /\ Len(s) = n
  BY <1>1 DEF S
<1>. DEFINE t == Append(s, x)
<1>3. /\ t \in Seq(S) /\ Len(t) = n + 1
      /\ \A k \in 1 .. n : t[k] = s[k]
      /\ t[n + 1] = x
  BY <1>1, <1>2
<1>. HIDE DEF t
<1>4. n + 1 \in Nat /\ t \in [1 .. n + 1 -> S]
  BY <1>1, <1>3
<1>5. \A k \in 1 .. n + 1 : t[k] = IF k <= n THEN s[k] ELSE x
  BY <1>1, <1>3
<1>6. t = [k \in 1 .. n + 1 |-> IF k <= n THEN s[k] ELSE x]
  BY <1>4, <1>5
<1>7. IsList(t, n + 1)
  BY <1>4 DEF IsList
<1>. QED
  BY <1>6, <1>7 DEF t

LEMMA ConcatList ==
  ASSUME NEW m, NEW s, IsList(s, m), NEW n, NEW t, IsList(t, n)
  PROVE  /\ IsList(s \o t, m + n)
         /\ s \o t = [k \in 1 .. m + n |-> IF k <= m THEN s[k] ELSE t[k - m]]
<1>. DEFINE S == {s[k] : k \in 1 .. m} \cup {t[k] : k \in 1 .. n}
<1>1. /\ m \in Nat /\ s \in [1 .. m -> S]
      /\ n \in Nat /\ t \in [1 .. n -> S]
  BY DEF IsList
<1>. HIDE DEF S
<1>2. s \in Seq(S) /\ Len(s) = m /\ t \in Seq(S) /\ Len(t) = n
  BY <1>1
<1>. DEFINE u == s \o t
<1>3. /\ u \in Seq(S) /\ Len(u) = m + n
      /\ \A k \in 1 .. m : u[k] = s[k]
      /\ \A k \in 1 .. n : u[m + k] = t[k]
  BY <1>1, <1>2
<1>. HIDE DEF u
<1>4. m + n \in Nat /\ u \in [1 .. m + n -> S]
  BY <1>1, <1>3
<1>5. \A k \in 1 .. m + n : u[k] = IF k <= m THEN s[k] ELSE t[k - m]
  <2>1. SUFFICES ASSUME NEW k \in 1 .. m + n, k > m PROVE u[k] = t[k - m]
    BY <1>1, <1>3
  <2>2. k - m \in 1 .. n /\ m + (k - m) = k
    BY <1>1, <2>1
  <2>. QED
    BY <1>3, <2>2
<1>6. u = [k \in 1 .. m + n |-> IF k <= m THEN s[k] ELSE t[k - m]]
  BY <1>4, <1>5
<1>7. IsList(u, m + n)
  BY <1>4 DEF IsList
<1>. QED
  BY <1>6, <1>7 DEF u

(* A part of a list that starts within it, or right behind its end.             *)
LEMMA PartList ==
  ASSUME NEW n, NEW s, IsList(s, n), NEW a \in Nat, NEW b \in Nat, a >= 1, b <= n, a <= b + 1
  PROVE  /\ IsList(SubSeq(s, a, b), b + 1 - a)
         /\ SubSeq(s, a, b) = [k \in 1 .. b + 1 - a |-> s[a + k - 1]]
<1>. DEFINE S == {s[k] : k \in 1 .. n}
<1>1. n \in Nat /\ s \in Seq(S) /\ Len(s) = n
  BY ListIsSequence DEF IsList
<1>. HIDE DEF S
<1>2. SubSeq(s, a, b) = [k \in 1 .. b + 1 - a |-> s[a + k - 1]]
  BY <1>1
<1>3. b + 1 - a \in Nat
  OBVIOUS
<1>. QED
  BY <1>2, <1>3 DEF IsList
-------------------------------------------------------------------------------
(***************************************************************************)
(* Plans                                                                   *)
(***************************************************************************)

LEMMA Products ==
  /\ \A a, b \in Nat : a * b \in Nat
  /\ \A a, b, c \in Nat : a <= b => a * c <= b * c
  /\ \A a, b, c \in Nat : (a + b) * c = a * c + b * c
  /\ \A a, c \in Nat : a >= 1 => (a - 1) * c \in Nat /\ (a - 1) * c + c = a * c
<1>1. \A a, b \in Nat : a * b \in Nat
  OBVIOUS
<1>2. \A a, b, c \in Nat : a <= b => a * c <= b * c
  OBVIOUS
<1>3. \A a, b, c \in Nat : (a + b) * c = a * c + b * c
  OBVIOUS
<1>4. \A a, c \in Nat : a >= 1 => (a - 1) * c \in Nat /\ (a - 1) * c + c = a * c
  OBVIOUS
<1>. QED
  BY <1>1, <1>2, <1>3, <1>4

(* Equal values sum up to their number times one of them.                          *)
LEMMA SumOfEquals ==
  ASSUME NEW S, IsFiniteSet(S), NEW g, NEW m \in Nat, \A x \in S : g[x] = m
  PROVE  IteratedSum(g, S) = Cardinality(S) * m
<1>. DEFINE Body(h) == [s \in SUBSET S |-> IF s = {} THEN 0 ELSE g[AnyOf(s)] + h[s \ {AnyOf(s)}]]
<1>1. PICK f : f = [s \in SUBSET S |-> Cardinality(s) * m]
  OBVIOUS
<1>2. ASSUME NEW s \in SUBSET S, s # {}
      PROVE  f[s] = g[AnyOf(s)] + f[s \ {AnyOf(s)}]
  <2>1. PICK c, r : c = AnyOf(s) /\ c \in s /\ r = s \ {c} /\ r \in SUBSET S
    <3>1. AnyOf(s) \in s
      BY <1>2 DEF AnyOf
    <3>2. PICK c : c = AnyOf(s)
      OBVIOUS
    <3>3. PICK r : r = s \ {c}
      OBVIOUS
    <3>. QED
      BY <3>1, <3>2, <3>3
  <2>2. IsFiniteSet(s) /\ Cardinality(s) \in Nat /\ Cardinality(r) = Cardinality(s) - 1
    BY <2>1, FS_Subset, FS_CardinalityType, FS_RemoveElement
  <2>3. Cardinality(s) >= 1
    BY <2>1, <2>2, FS_EmptySet
  <2>4. PICK k \in Nat, x \in Nat : k = Cardinality(s) /\ k >= 1 /\ x = (k - 1) * m /\ x + m = k * m
    BY <2>2, <2>3, Products
  <2>5. g[c] = m
    BY <2>1
  <2>6. f[s] = k * m /\ f[r] = x
    BY <1>1, <2>1, <2>2, <2>4
  <2>7. k * m = m + x
    BY <2>4
  <2>. QED
    BY <2>1, <2>5, <2>6, <2>7
<1>3. f[{}] = 0
  BY <1>1, FS_EmptySet
<1>4. f = Body(f)
  BY <1>1, <1>2, <1>3
<1>5. PICK h : IteratedSum(g, S) = h[S] /\ h = Body(h)
  <2>1. \E h : h = Body(h)
    BY <1>4
  <2>. QED
    BY <2>1 DEF IteratedSum, AnyOf
<1>. DEFINE X == {s \in SUBSET S : h[s] = f[s]}
<1>6. \A s \in SUBSET S : h[s] = IF s = {} THEN 0 ELSE g[AnyOf(s)] + h[s \ {AnyOf(s)}]
  BY <1>5
<1>7. {} \in X
  BY <1>3, <1>6
<1>8. ASSUME NEW s \in SUBSET S, s # {}, s \ {AnyOf(s)} \in X PROVE s \in X
  BY <1>2, <1>6, <1>8
<1>9. \A s \in SUBSET S : s \in X
  <2>. HIDE DEF X
  <2>. QED
    BY <1>7, <1>8, SubsetInduction
<1>10. h[S] = f[S]
  BY <1>9
<1>. QED
  BY <1>1, <1>5, <1>10

(* How many ministacks a series has: as many as start within it.              *)
LEMMA CountIs ==
  ASSUME NEW n \in Nat, NEW c \in Nat, MinistackSize >= 2,
         n <= c * MinistackSize, c >= 1 => (c - 1) * MinistackSize < n
  PROVE  BatchIndices(n) = 1 .. c /\ NumGenerations(n) = c
<1>. DEFINE M == MinistackSize
<1>1. M \in Nat /\ M >= 2
  BY PlannerAssumption
<1>. HIDE DEF M
<1>2. ASSUME NEW i \in BatchIndices(n)
      PROVE  i \in 1 .. c
  <2>1. i \in Nat /\ i >= 1 /\ (i - 1) * M < n
    BY DEF BatchIndices, M
  <2>2. SUFFICES ASSUME i > c PROVE FALSE
    BY <2>1
  <2>3. i - 1 \in Nat /\ c <= i - 1
    BY <2>1, <2>2
  <2>4. c * M <= (i - 1) * M /\ c * M \in Nat /\ (i - 1) * M \in Nat
    BY <1>1, <2>3, Products
  <2>. QED
    BY <2>1, <2>4 DEF M
<1>3. ASSUME NEW i \in 1 .. c
      PROVE  i \in BatchIndices(n)
  <2>1. i - 1 \in Nat /\ c - 1 \in Nat /\ i - 1 <= c - 1
    OBVIOUS
  <2>2. (i - 1) * M <= (c - 1) * M /\ (i - 1) * M \in Nat /\ (c - 1) * M \in Nat
    BY <1>1, <2>1, Products
  <2>3. (i - 1) * M < n
    BY <2>2 DEF M
  <2>4. i - 1 <= (i - 1) * M
    <3>1. \A a, b \in Nat : b >= 1 => a <= a * b
      OBVIOUS
    <3>. QED
      BY <1>1, <2>1, <3>1
  <2>. QED
    BY <2>2, <2>3, <2>4 DEF BatchIndices, M
<1>4. BatchIndices(n) = 1 .. c
  BY <1>2, <1>3
<1>. QED
  BY <1>4, FS_Interval DEF NumGenerations

LEMMA CountOf ==
  ASSUME NEW n \in Nat, MinistackSize >= 2
  PROVE  LET c == NumGenerations(n)
         IN  /\ c \in Nat /\ BatchIndices(n) = 1 .. c
             /\ n <= c * MinistackSize
             /\ c >= 1 => (c - 1) * MinistackSize < n
             /\ n >= 1 => c >= 1
<1>. DEFINE M == MinistackSize
            enough == {c \in Nat : n <= c * M}
<1>1. M \in Nat /\ M >= 2
  BY PlannerAssumption
<1>2. n \in enough
  <2>1. \A a, b \in Nat : b >= 1 => a <= a * b
    OBVIOUS
  <2>. QED
    BY <1>1, <2>1
<1>3. PICK c \in enough : \A d \in enough : c <= d
  <2>. HIDE DEF enough
  <2>1. enough \in SUBSET Nat
    BY DEF enough
  <2>. QED
    BY <1>2, <2>1, LeastNatural
<1>4. c \in Nat /\ n <= c * M
  BY <1>3
<1>5. c >= 1 => (c - 1) * M < n
  <2>1. SUFFICES ASSUME c >= 1, ~ ((c - 1) * M < n) PROVE FALSE
    OBVIOUS
  <2>2. c - 1 \in Nat /\ (c - 1) * M \in Nat
    BY <1>1, <1>4, <2>1, Products
  <2>3. c - 1 \in enough
    <3>1. n <= (c - 1) * M
      <4>. DEFINE x == (c - 1) * M
      <4>1. x \in Nat /\ ~ (x < n)
        BY <2>1, <2>2
      <4>. HIDE DEF x
      <4>2. n <= x
        BY <4>1
      <4>. QED
        BY <4>2 DEF x
    <3>. QED
      BY <2>2, <3>1
  <2>4. c <= c - 1
    BY <1>3, <2>3
  <2>. QED
    BY <1>4, <2>4
<1>6. NumGenerations(n) = c /\ BatchIndices(n) = 1 .. c
  BY <1>1, <1>4, <1>5, CountIs
<1>7. n >= 1 => c >= 1
  <2>1. 0 * M = 0
    BY <1>1
  <2>. QED
    BY <1>4, <2>1
<1>. QED
  BY <1>4, <1>5, <1>6, <1>7

-------------------------------------------------------------------------------
(* assess_support and plan_with_offset, of whatever was accepted.             *)
Plannable ==
  MinistackSize >= 2 /\ CompressedSlcPlan = "AlwaysFirst" /\ OutputReferenceIdx = 0

LEMMA BlockIs ==
  ASSUME Plannable, NEW n \in Nat, NEW off \in Nat, NEW i \in 1 .. NumGenerations(n)
  PROVE  LET ms == PlanWithOffset(n, off)[i]
             start == (i - 1) * MinistackSize
             carried == Smaller(off + i - 1, MaxNumCompressed)
         IN  /\ ms = [block_id |-> off + i - 1, num_compressed |-> carried,
                      real_start |-> start,
                      num_real |-> Smaller(MinistackSize, n - start),
                      output_reference_idx |-> 0, compressed_reference_idx |-> 0]
             /\ start \in Nat /\ start < n /\ start + Smaller(MinistackSize, n - start) <= n
             /\ Smaller(MinistackSize, n - start) \in 1 .. MinistackSize
             /\ carried \in 0 .. off + i - 1
<1>. DEFINE start == (i - 1) * MinistackSize
<1>1. MinistackSize \in Nat /\ MinistackSize >= 2 /\ MaxNumCompressed \in Nat
  BY PlannerAssumption DEF Plannable
<1>2. i \in BatchIndices(n) /\ i \in Nat /\ i >= 1 /\ off + i - 1 \in Nat
  BY <1>1, CountOf
<1>3. start \in Nat /\ start < n
  <2>1. i - 1 \in Nat
    BY <1>2
  <2>2. start \in Nat
    BY <1>1, <2>1, Products
  <2>. QED
    BY <1>2, <2>2 DEF BatchIndices
<1>4. PlanWithOffset(n, off)[i] = Batch(n, off + i - 1, start)
  BY <1>2 DEF PlanWithOffset
<1>. HIDE DEF start
<1>5. /\ Smaller(MinistackSize, n - start) \in 1 .. MinistackSize
      /\ start + Smaller(MinistackSize, n - start) <= n
      /\ Smaller(off + i - 1, MaxNumCompressed) \in 0 .. off + i - 1
  BY <1>1, <1>2, <1>3 DEF Smaller
<1>6. \A nc : References(nc) = [output |-> 0, compressed |-> 0]
  BY DEF References, Plannable
<1>7. PlanWithOffset(n, off)[i] =
        [block_id |-> off + i - 1,
         num_compressed |-> Smaller(off + i - 1, MaxNumCompressed), real_start |-> start,
         num_real |-> Smaller(MinistackSize, n - start),
         output_reference_idx |-> 0, compressed_reference_idx |-> 0]
  BY <1>4, <1>6 DEF Batch
<1>. QED
  BY <1>3, <1>5, <1>7 DEF start

(* A full block is planned alike, whatever follows it.                         *)
LEMMA FullBlock ==
  ASSUME Plannable, NEW n \in Nat, NEW longer \in Nat, n <= longer,
         NEW k \in Nat, k >= 1, k * MinistackSize <= n
  PROVE  /\ k \in 1 .. NumGenerations(n) /\ k \in 1 .. NumGenerations(longer)
         /\ PlanWithOffset(n, 0)[k] = PlanWithOffset(longer, 0)[k]
         /\ PlanWithOffset(n, 0)[k].real_start + MinistackSize = k * MinistackSize
         /\ PlanWithOffset(n, 0)[k].num_real = MinistackSize
<1>. DEFINE start == (k - 1) * MinistackSize
            end == k * MinistackSize
<1>1. MinistackSize \in Nat /\ MinistackSize >= 2
  BY PlannerAssumption DEF Plannable
<1>2. start \in Nat /\ end \in Nat /\ start + MinistackSize = end
  BY <1>1, Products
<1>3. ASSUME NEW l \in Nat, n <= l
      PROVE  k \in 1 .. NumGenerations(l)
  <2>1. start < l
    <3>. HIDE DEF start, end
    <3>1. end <= n
      BY DEF end
    <3>. QED
      BY <1>1, <1>2, <1>3, <3>1
  <2>2. k \in 1 .. l
    <3>1. \A a, b \in Nat : b >= 1 => a <= a * b
      OBVIOUS
    <3>2. k <= end
      BY <1>1, <3>1
    <3>3. end <= n
      OBVIOUS
    <3>. HIDE DEF end
    <3>. QED
      BY <1>2, <1>3, <3>2, <3>3
  <2>3. k \in BatchIndices(l)
    BY <2>1, <2>2 DEF BatchIndices
  <2>. QED
    BY <1>1, <1>3, <2>3, CountOf
<1>4. k \in 1 .. NumGenerations(n) /\ k \in 1 .. NumGenerations(longer)
  BY <1>3
<1>5. ASSUME NEW l \in Nat, n <= l
      PROVE  PlanWithOffset(l, 0)[k] =
               [block_id |-> k - 1, num_compressed |-> Smaller(k - 1, MaxNumCompressed),
                real_start |-> start, num_real |-> MinistackSize,
                output_reference_idx |-> 0, compressed_reference_idx |-> 0]
  <2>1. k \in 1 .. NumGenerations(l) /\ 0 \in Nat
    BY <1>3, <1>5
  <2>2. PlanWithOffset(l, 0)[k] =
          [block_id |-> 0 + k - 1, num_compressed |-> Smaller(0 + k - 1, MaxNumCompressed),
           real_start |-> start, num_real |-> Smaller(MinistackSize, l - start),
           output_reference_idx |-> 0, compressed_reference_idx |-> 0]
    BY <2>1, BlockIs
  <2>3. Smaller(MinistackSize, l - start) = MinistackSize
    <3>. HIDE DEF start, end
    <3>1. end <= n
      BY DEF end
    <3>. QED
      BY <1>1, <1>2, <1>5, <3>1 DEF Smaller
  <2>4. 0 + k - 1 = k - 1
    OBVIOUS
  <2>. QED
    BY <2>2, <2>3, <2>4
<1>6. /\ PlanWithOffset(n, 0)[k].real_start = start
      /\ PlanWithOffset(n, 0)[k].num_real = MinistackSize
      /\ PlanWithOffset(n, 0)[k] = PlanWithOffset(longer, 0)[k]
  BY <1>5
<1>. QED
  BY <1>2, <1>4, <1>6

(* Numbered on from the sealed blocks, a tail is planned as the end of the whole    *)
(* series is.                                                               *)
LEMMA TailPlanned ==
  ASSUME Plannable, NEW s \in Nat, NEW n \in Nat, n >= 1
  PROVE  /\ NumGenerations(s * MinistackSize + n) = s + NumGenerations(n)
         /\ \A i \in 1 .. NumGenerations(n) :
              LET t == PlanWithOffset(n, s)[i]
                  w == PlanWithOffset(s * MinistackSize + n, 0)[s + i]
              IN  /\ t.block_id = s + i - 1 /\ w.block_id = s + i - 1
                  /\ t.num_compressed = w.num_compressed
                  /\ t.num_real = w.num_real
                  /\ t.output_reference_idx = w.output_reference_idx
                  /\ t.compressed_reference_idx = w.compressed_reference_idx
                  /\ w.real_start = s * MinistackSize + t.real_start
                  /\ t.real_start \in Nat /\ t.num_real \in Nat
                  /\ t.real_start + t.num_real <= n
                  /\ t.num_compressed \in 0 .. s + i - 1
<1>. DEFINE M == MinistackSize
            c == NumGenerations(n)
            front == s * M
            N == front + n
<1>1. M \in Nat /\ M >= 2 /\ MinistackSize >= 2
  BY PlannerAssumption DEF Plannable
<1>2. c \in Nat /\ c >= 1 /\ n <= c * M /\ (c - 1) * M < n
  BY <1>1, CountOf
<1>3. /\ front \in Nat /\ N \in Nat /\ c * M \in Nat /\ (c - 1) * M \in Nat
      /\ (s + c) * M = front + c * M
      /\ (s + (c - 1)) * M = front + (c - 1) * M
  <2>1. c - 1 \in Nat
    BY <1>2
  <2>. QED
    BY <1>1, <1>2, <2>1, Products
<1>4. NumGenerations(N) = s + c
  <2>1. s + c \in Nat /\ (s + c) - 1 = s + (c - 1)
    BY <1>2
  <2>2. N <= (s + c) * M /\ ((s + c) - 1) * M < N
    <3>. DEFINE a == c * M
                b == (c - 1) * M
    <3>1. a \in Nat /\ b \in Nat /\ n <= a /\ b < n
      BY <1>2, <1>3
    <3>2. (s + c) * M = front + a /\ ((s + c) - 1) * M = front + b
      BY <1>3, <2>1
    <3>. HIDE DEF a, b, front
    <3>. QED
      BY <1>3, <3>1, <3>2
  <2>. HIDE DEF N, c
  <2>. QED
    BY <1>1, <1>3, <2>1, <2>2, CountIs
<1>5. ASSUME NEW i \in 1 .. c
      PROVE  LET t == PlanWithOffset(n, s)[i]
                 w == PlanWithOffset(N, 0)[s + i]
             IN  /\ t.block_id = s + i - 1 /\ w.block_id = s + i - 1
                 /\ t.num_compressed = w.num_compressed
                 /\ t.num_real = w.num_real
                 /\ t.output_reference_idx = w.output_reference_idx
                 /\ t.compressed_reference_idx = w.compressed_reference_idx
                 /\ w.real_start = front + t.real_start
                 /\ t.real_start \in Nat /\ t.num_real \in Nat
                 /\ t.real_start + t.num_real <= n
                 /\ t.num_compressed \in 0 .. s + i - 1
  <2>. DEFINE start == (i - 1) * M
              t == PlanWithOffset(n, s)[i]
              w == PlanWithOffset(N, 0)[s + i]
  <2>1. /\ t = [block_id |-> s + i - 1, num_compressed |-> Smaller(s + i - 1, MaxNumCompressed),
                real_start |-> start, num_real |-> Smaller(M, n - start),
                output_reference_idx |-> 0, compressed_reference_idx |-> 0]
        /\ start \in Nat /\ start + Smaller(M, n - start) <= n
        /\ Smaller(M, n - start) \in 1 .. M
        /\ Smaller(s + i - 1, MaxNumCompressed) \in 0 .. s + i - 1
    BY BlockIs
  <2>2. s + i \in 1 .. NumGenerations(N) /\ 0 \in Nat
    BY <1>2, <1>4
  <2>3. w = [block_id |-> 0 + (s + i) - 1,
             num_compressed |-> Smaller(0 + (s + i) - 1, MaxNumCompressed),
             real_start |-> ((s + i) - 1) * M, num_real |-> Smaller(M, N - ((s + i) - 1) * M),
             output_reference_idx |-> 0, compressed_reference_idx |-> 0]
    <3>. HIDE DEF N
    <3>. QED
      BY <1>3, <2>2, BlockIs
  <2>4. 0 + (s + i) - 1 = s + i - 1 /\ ((s + i) - 1) * M = front + start
    <3>1. i - 1 \in Nat /\ 0 + (s + i) - 1 = s + i - 1 /\ (s + i) - 1 = s + (i - 1)
      OBVIOUS
    <3>2. (s + (i - 1)) * M = front + start
      BY <1>1, <3>1, Products
    <3>. QED
      BY <3>1, <3>2
  <2>5. N - (front + start) = n - start
    <3>. HIDE DEF front, start
    <3>. QED
      BY <1>3, <2>1
  <2>6. w = [block_id |-> s + i - 1, num_compressed |-> Smaller(s + i - 1, MaxNumCompressed),
             real_start |-> front + start, num_real |-> Smaller(M, n - start),
             output_reference_idx |-> 0, compressed_reference_idx |-> 0]
    BY <2>3, <2>4, <2>5
  <2>7. Smaller(M, n - start) \in Nat
    BY <2>1
  <2>. HIDE DEF front, start, N, t, w
  <2>8. /\ t.block_id = s + i - 1 /\ w.block_id = s + i - 1
        /\ t.num_compressed = w.num_compressed
        /\ t.num_real = w.num_real
        /\ t.output_reference_idx = w.output_reference_idx
        /\ t.compressed_reference_idx = w.compressed_reference_idx
        /\ w.real_start = front + t.real_start
        /\ t.real_start = start /\ t.num_real = Smaller(M, n - start)
        /\ t.num_compressed = Smaller(s + i - 1, MaxNumCompressed)
    BY <2>1, <2>6
  <2>9. /\ t.real_start \in Nat /\ t.num_real \in Nat
        /\ t.real_start + t.num_real <= n
        /\ t.num_compressed \in 0 .. s + i - 1
    BY <2>1, <2>7, <2>8
  <2>. QED
    BY <2>8, <2>9 DEF t, w
<1>. QED
  BY <1>4, <1>5

(* The sealed generations of a series are its full ones.                      *)
LEMMA FullOnes ==
  ASSUME Plannable, NEW n \in Nat, NEW s \in Nat,
         s * MinistackSize <= n, n < (s + 1) * MinistackSize
  PROVE  /\ s <= NumGenerations(n) /\ NumGenerations(n) <= s + 1
         /\ s * MinistackSize < n => NumGenerations(n) = s + 1
         /\ s * MinistackSize = n => NumGenerations(n) = s
         /\ \A k \in 1 .. NumGenerations(n) :
              (PlanWithOffset(n, 0)[k].num_real = MinistackSize) <=> k <= s
<1>. DEFINE M == MinistackSize
            full == s * M
<1>1. M \in Nat /\ M >= 2 /\ MinistackSize >= 2
  BY PlannerAssumption DEF Plannable
<1>2. full \in Nat /\ (s + 1) * M = full + M
  <2>1. 1 * M = M
    BY <1>1
  <2>. QED
    BY <1>1, <2>1, Products
<1>3. CASE full = n
  <2>1. s >= 1 => (s - 1) * M < n
    <3>1. SUFFICES ASSUME s >= 1 PROVE (s - 1) * M < n
      OBVIOUS
    <3>2. (s - 1) * M \in Nat /\ (s - 1) * M + M = full
      BY <1>1, <3>1, Products
    <3>. DEFINE x == (s - 1) * M
    <3>. HIDE DEF x, full
    <3>3. x \in Nat /\ x + M = full
      BY <3>2 DEF x
    <3>4. x < n
      BY <1>1, <1>3, <3>3
    <3>. QED
      BY <3>4 DEF x
  <2>2. n <= s * M
    BY <1>3
  <2>3. NumGenerations(n) = s
    BY <1>1, <2>1, <2>2, CountIs
  <2>4. ASSUME NEW k \in 1 .. s PROVE PlanWithOffset(n, 0)[k].num_real = M
    <3>1. k \in Nat /\ k >= 1 /\ k <= s
      OBVIOUS
    <3>2. k * M <= n
      BY <1>1, <1>3, <3>1, Products
    <3>. QED
      BY <3>1, <3>2, FullBlock
  <2>. QED
    BY <1>3, <2>3, <2>4
<1>4. CASE full < n
  <2>1. s + 1 \in Nat /\ n <= (s + 1) * M /\ (s + 1) - 1 = s
    <3>1. (s + 1) * M \in Nat
      BY <1>1, Products
    <3>. DEFINE e == (s + 1) * M
    <3>2. e \in Nat /\ n < e
      BY <3>1
    <3>. HIDE DEF e
    <3>3. n <= e
      BY <3>2
    <3>. QED
      BY <3>3 DEF e
  <2>2. NumGenerations(n) = s + 1
    BY <1>1, <1>4, <2>1, CountIs
  <2>3. ASSUME NEW k \in 1 .. s PROVE PlanWithOffset(n, 0)[k].num_real = M
    <3>1. k \in Nat /\ k >= 1 /\ k <= s
      OBVIOUS
    <3>2. k * M <= full /\ k * M \in Nat
      BY <1>1, <3>1, Products
    <3>3. k * M <= n
      <4>. DEFINE x == k * M
      <4>. HIDE DEF x, full
      <4>1. x <= full /\ x \in Nat
        BY <3>2 DEF x
      <4>2. x <= n
        BY <1>2, <1>4, <4>1
      <4>. QED
        BY <4>2 DEF x
    <3>. QED
      BY <3>1, <3>3, FullBlock
  <2>4. PlanWithOffset(n, 0)[s + 1].num_real # M
    <3>1. s + 1 \in 1 .. NumGenerations(n) /\ 0 \in Nat
      BY <2>2
    <3>2. PlanWithOffset(n, 0)[s + 1] =
            [block_id |-> 0 + (s + 1) - 1,
             num_compressed |-> Smaller(0 + (s + 1) - 1, MaxNumCompressed),
             real_start |-> ((s + 1) - 1) * M,
             num_real |-> Smaller(M, n - ((s + 1) - 1) * M),
             output_reference_idx |-> 0, compressed_reference_idx |-> 0]
      BY <3>1, BlockIs
    <3>3. PlanWithOffset(n, 0)[s + 1].num_real = Smaller(M, n - full)
      BY <2>1, <3>2
    <3>4. Smaller(M, n - full) # M
      <4>1. n < full + M
        BY <1>2
      <4>. HIDE DEF full
      <4>. QED
        BY <1>1, <1>2, <4>1 DEF Smaller
    <3>. QED
      BY <3>3, <3>4
  <2>. QED
    BY <1>4, <2>2, <2>3, <2>4
<1>5. full = n \/ full < n
  <2>1. full <= n
    OBVIOUS
  <2>. HIDE DEF full
  <2>. QED
    BY <1>2, <2>1
<1>. QED
  BY <1>3, <1>4, <1>5

-------------------------------------------------------------------------------
(***************************************************************************)
(* Batch runs                                                              *)
(***************************************************************************)

Before(blocks, k) == [j \in 1 .. k - 1 |-> blocks[j].compressed]

(* What block k of a stack is, given those before it.                         *)
LinkedAt(stack, m, blocks, k) ==
  LinkAndCompress(Assemble(Before(blocks, k), stack, PlanWithOffset(Len(stack), 0)[k], m))

Links(stack, m, blocks, n) ==
  IsList(blocks, n) /\ \A k \in 1 .. n : blocks[k] = LinkedAt(stack, m, blocks, k)

(* Blocks can be linked one after the other.                                  *)
LEMMA LinksExist ==
  ASSUME NEW stack, NEW m, NEW n \in Nat
  PROVE  \E blocks : Links(stack, m, blocks, n)
<1>. DEFINE bad == {k \in Nat : ~ \E blocks : Links(stack, m, blocks, k)}
<1>1. SUFFICES ASSUME bad # {} PROVE FALSE
  OBVIOUS
<1>2. PICK least \in bad : \A k \in bad : least <= k
  <2>1. bad \in SUBSET Nat
    OBVIOUS
  <2>. HIDE DEF bad
  <2>. QED
    BY <1>1, <2>1, LeastNatural
<1>3. least # 0
  <2>1. Links(stack, m, << >>, 0)
    BY DEF Links, IsList
  <2>. QED
    BY <1>2, <2>1
<1>4. least - 1 \in Nat /\ least - 1 \notin bad /\ least \in Nat
  BY <1>2, <1>3
<1>5. PICK blocks : Links(stack, m, blocks, least - 1)
  BY <1>4
<1>. DEFINE x == LinkedAt(stack, m, blocks, least)
            more == [k \in 1 .. least |-> IF k <= least - 1 THEN blocks[k] ELSE x]
<1>6. \A k \in 1 .. least : Before(more, k) = Before(blocks, k)
  BY <1>4 DEF Before
<1>7. \A k \in 1 .. least : LinkedAt(stack, m, more, k) = LinkedAt(stack, m, blocks, k)
  BY <1>6 DEF LinkedAt
<1>8. \A k \in 1 .. least : more[k] = LinkedAt(stack, m, blocks, k)
  <2>1. \A k \in 1 .. least - 1 : blocks[k] = LinkedAt(stack, m, blocks, k)
    BY <1>5 DEF Links
  <2>. QED
    BY <1>4, <2>1
<1>9. Links(stack, m, more, least)
  BY <1>4, <1>7, <1>8 DEF Links, IsList
<1>. QED
  BY <1>2, <1>9

(* What is linked one after the other is determined.                          *)
LEMMA LinksAgree ==
  ASSUME NEW stack, NEW m, NEW n \in Nat, NEW x, NEW y,
         Links(stack, m, x, n), Links(stack, m, y, n)
  PROVE  x = y
<1>. DEFINE bad == {k \in 1 .. n : x[k] # y[k]}
<1>1. ASSUME bad # {} PROVE FALSE
  <2>1. PICK least \in bad : \A k \in bad : least <= k
    <3>1. bad \in SUBSET Nat
      OBVIOUS
    <3>. HIDE DEF bad
    <3>. QED
      BY <1>1, <3>1, LeastNatural
  <2>2. \A k \in 1 .. least - 1 : x[k] = y[k]
    BY <2>1
  <2>3. Before(x, least) = Before(y, least)
    BY <2>2 DEF Before
  <2>4. LinkedAt(stack, m, x, least) = LinkedAt(stack, m, y, least)
    BY <2>3 DEF LinkedAt
  <2>. QED
    BY <2>1, <2>4 DEF Links
<1>2. \A k \in 1 .. n : x[k] = y[k]
  BY <1>1
<1>. QED
  BY <1>2 DEF Links, IsList

(* run_sequential computes just these.                                        *)
LEMMA BatchLinks ==
  ASSUME Plannable, NEW stack, Len(stack) \in Nat, NEW m
  PROVE  Links(stack, m, BatchBlocks(stack, m), NumGenerations(Len(stack)))
<1>. DEFINE plans == PlanWithOffset(Len(stack), 0)
            n == NumGenerations(Len(stack))
            LinkNextTo(g, k) == LinkAndCompress(Assemble(CompressedOf(g), stack, plans[k], m))
            Grown(f) == [k \in 0 .. n |-> IF k = 0 THEN << >>
                                          ELSE Append(f[k - 1], LinkNextTo(f[k - 1], k))]
            upTo == CHOOSE f : f = Grown(f)
<1>1. n \in Nat /\ DOMAIN plans = 1 .. n /\ Cardinality(DOMAIN plans) = n
  <2>1. MinistackSize >= 2
    BY DEF Plannable
  <2>2. n \in Nat /\ BatchIndices(Len(stack)) = 1 .. n
    BY <2>1, CountOf
  <2>3. DOMAIN plans = BatchIndices(Len(stack))
    BY DEF PlanWithOffset
  <2>. QED
    BY <2>2, <2>3 DEF NumGenerations
<1>2. BatchBlocks(stack, m) = upTo[n]
  BY <1>1 DEF BatchBlocks
<1>3. PICK blocks : Links(stack, m, blocks, n)
  BY <1>1, LinksExist
<1>. DEFINE f0 == [k \in 0 .. n |-> [j \in 1 .. k |-> blocks[j]]]
<1>4. ASSUME NEW k \in 1 .. n
      PROVE  /\ Append([j \in 1 .. k - 1 |-> blocks[j]], blocks[k]) = [j \in 1 .. k |-> blocks[j]]
             /\ LinkNextTo([j \in 1 .. k - 1 |-> blocks[j]], k) = blocks[k]
  <2>. DEFINE g == [j \in 1 .. k - 1 |-> blocks[j]]
  <2>1. IsList(g, k - 1) /\ k \in Nat /\ k - 1 \in Nat
    BY DEF IsList
  <2>2. Append(g, blocks[k]) = [j \in 1 .. (k - 1) + 1 |-> IF j <= k - 1 THEN g[j] ELSE blocks[k]]
    <3>. HIDE DEF g
    <3>. QED
      BY <2>1, AppendList
  <2>3. [j \in 1 .. (k - 1) + 1 |-> IF j <= k - 1 THEN g[j] ELSE blocks[k]]
          = [j \in 1 .. k |-> blocks[j]]
    BY <2>1
  <2>4. CompressedOf(g) = Before(blocks, k)
    <3>1. Len(g) = k - 1
      <4>. HIDE DEF g
      <4>. QED
        BY <2>1, ListIsSequence
    <3>2. CompressedOf(g) = [j \in 1 .. k - 1 |-> g[j].compressed]
      BY <3>1 DEF CompressedOf
    <3>. QED
      BY <3>2 DEF Before
  <2>5. LinkNextTo(g, k) = blocks[k]
    BY <1>3, <2>4 DEF Links, LinkedAt
  <2>. QED
    BY <2>2, <2>3, <2>5
<1>5. f0 = Grown(f0)
  <2>1. ASSUME NEW k \in 0 .. n
        PROVE  f0[k] = IF k = 0 THEN << >> ELSE Append(f0[k - 1], LinkNextTo(f0[k - 1], k))
    <3>1. CASE k = 0
      BY <3>1
    <3>2. CASE k # 0
      <4>1. k \in 1 .. n /\ k - 1 \in 0 .. n
        BY <1>1, <3>2
      <4>2. f0[k - 1] = [j \in 1 .. k - 1 |-> blocks[j]] /\ f0[k] = [j \in 1 .. k |-> blocks[j]]
        BY <4>1
      <4>. HIDE DEF f0, LinkNextTo
      <4>. QED
        BY <1>4, <3>2, <4>1, <4>2
    <3>. QED
      BY <3>1, <3>2
  <2>. HIDE DEF LinkNextTo
  <2>. QED
    BY <2>1
<1>6. upTo = Grown(upTo)
  <2>. HIDE DEF f0, Grown
  <2>. QED
    BY <1>5
<1>7. ASSUME NEW k \in 0 .. n
      PROVE  upTo[k] = IF k = 0 THEN << >> ELSE Append(upTo[k - 1], LinkNextTo(upTo[k - 1], k))
  <2>. HIDE DEF upTo, LinkNextTo
  <2>. QED
    BY <1>6
<1>. HIDE DEF upTo
<1>. DEFINE bad == {k \in 0 .. n : upTo[k] # [j \in 1 .. k |-> blocks[j]]}
<1>8. ASSUME bad # {} PROVE FALSE
  <2>1. PICK least \in bad : \A k \in bad : least <= k
    <3>1. bad \in SUBSET Nat
      BY <1>1
    <3>. HIDE DEF bad
    <3>. QED
      BY <1>8, <3>1, LeastNatural
  <2>2. least # 0
    <3>1. 0 \in 0 .. n
      BY <1>1
    <3>2. upTo[0] = << >>
      BY <1>7, <3>1
    <3>. QED
      BY <2>1, <3>2
  <2>3. least \in 1 .. n /\ least - 1 \in 0 .. n /\ least - 1 \notin bad
    BY <1>1, <2>1, <2>2
  <2>4. upTo[least - 1] = [j \in 1 .. least - 1 |-> blocks[j]]
    BY <2>3
  <2>5. upTo[least] = Append(upTo[least - 1], LinkNextTo(upTo[least - 1], least))
    BY <1>7, <2>2, <2>3
  <2>6. upTo[least] = [j \in 1 .. least |-> blocks[j]]
    <3>. HIDE DEF LinkNextTo
    <3>. QED
      BY <1>4, <2>3, <2>4, <2>5
  <2>. QED
    BY <2>1, <2>6
<1>9. upTo[n] = blocks
  <2>1. n \in 0 .. n
    BY <1>1
  <2>2. upTo[n] = [j \in 1 .. n |-> blocks[j]]
    BY <1>8, <2>1
  <2>. QED
    BY <1>3, <2>2 DEF Links, IsList
<1>. QED
  BY <1>2, <1>3, <1>9

(* What arrives later changes no full block.                                  *)
LEMMA FullBlocksStay ==
  ASSUME Plannable, NEW stack, NEW longer, NEW m,
         Len(stack) \in Nat, Len(longer) \in Nat, Len(stack) <= Len(longer),
         \A i \in 1 .. Len(stack) : longer[i] = stack[i],
         NEW s \in Nat, s * MinistackSize <= Len(stack), NEW k \in 1 .. s
  PROVE  BatchBlocks(longer, m)[k] = BatchBlocks(stack, m)[k]
<1>. DEFINE b == BatchBlocks(stack, m)
            l == BatchBlocks(longer, m)
            bad == {j \in 1 .. s : l[j] # b[j]}
<1>1. Links(stack, m, b, NumGenerations(Len(stack)))
      /\ Links(longer, m, l, NumGenerations(Len(longer)))
  BY BatchLinks
<1>. HIDE DEF b, l
<1>2. ASSUME bad # {} PROVE FALSE
  <2>1. PICK least \in bad : \A j \in bad : least <= j
    <3>1. bad \in SUBSET Nat
      OBVIOUS
    <3>. HIDE DEF bad
    <3>. QED
      BY <1>2, <3>1, LeastNatural
  <2>2. least \in Nat /\ least >= 1 /\ least <= s /\ \A j \in 1 .. least - 1 : l[j] = b[j]
    BY <2>1
  <2>3. Before(l, least) = Before(b, least)
    BY <2>2 DEF Before
  <2>4. least * MinistackSize <= Len(stack)
    <3>1. MinistackSize \in Nat
      BY PlannerAssumption
    <3>2. /\ least * MinistackSize <= s * MinistackSize
          /\ least * MinistackSize \in Nat /\ s * MinistackSize \in Nat
      BY <2>2, <3>1, Products
    <3>. QED
      BY <3>2
  <2>. DEFINE p == PlanWithOffset(Len(stack), 0)[least]
              q == PlanWithOffset(Len(longer), 0)[least]
  <2>5. /\ least \in 1 .. NumGenerations(Len(stack)) /\ least \in 1 .. NumGenerations(Len(longer))
        /\ p = q
    BY <2>2, <2>4, FullBlock
  <2>6. p.real_start \in Nat /\ p.num_real \in Nat /\ p.real_start + p.num_real <= Len(stack)
    <3>1. p = [block_id |-> 0 + least - 1,
               num_compressed |-> Smaller(0 + least - 1, MaxNumCompressed),
               real_start |-> (least - 1) * MinistackSize,
               num_real |-> Smaller(MinistackSize, Len(stack) - (least - 1) * MinistackSize),
               output_reference_idx |-> 0, compressed_reference_idx |-> 0]
          /\ (least - 1) * MinistackSize \in Nat
          /\ (least - 1) * MinistackSize
               + Smaller(MinistackSize, Len(stack) - (least - 1) * MinistackSize) <= Len(stack)
          /\ Smaller(MinistackSize, Len(stack) - (least - 1) * MinistackSize) \in 1 .. MinistackSize
      BY <2>5, BlockIs
    <3>2. MinistackSize \in Nat
      BY PlannerAssumption
    <3>. QED
      BY <3>1, <3>2
  <2>. HIDE DEF p, q
  <2>7. Assemble(Before(b, least), stack, p, m) = Assemble(Before(l, least), longer, q, m)
    <3>1. \A j \in 1 .. p.num_real : stack[p.real_start + j] = longer[p.real_start + j]
      <4>1. SUFFICES ASSUME NEW j \in 1 .. p.num_real
            PROVE  stack[p.real_start + j] = longer[p.real_start + j]
        OBVIOUS
      <4>2. p.real_start + j \in 1 .. Len(stack)
        BY <2>6
      <4>. QED
        BY <4>2
    <3>2. [j \in 1 .. p.num_real |-> stack[p.real_start + j]]
            = [j \in 1 .. q.num_real |-> longer[q.real_start + j]]
      BY <2>5, <3>1
    <3>. QED
      BY <2>3, <2>5, <3>2 DEF Assemble
  <2>8. b[least] = l[least]
    BY <1>1, <2>5, <2>7 DEF Links, LinkedAt, p, q
  <2>. QED
    BY <2>1, <2>8
<1>. QED
  BY <1>2 DEF b, l

-------------------------------------------------------------------------------
(***************************************************************************)
(* The inductive invariant                                                 *)
(***************************************************************************)

(* What decides a capture: c is [series, mask, config, model, frame, tolerance].   *)
Product(c, k) == BatchBlocks(c.series, c.mask)[k]

IdOf(c, k) == << k, MembersOf(c.series)[k], c.model, c.frame >>

(* The block, and the generation, that one capture of the whole series makes.      *)
Recaptured(c, k) ==
  LET ms == PlanWithOffset(Len(c.series), 0)[k]
  IN  [k |-> k, id |-> IdOf(c, k), start |-> ms.real_start, count |-> ms.num_real,
       parents |-> {IdOf(c, p + 1) : p \in CarriedParentIds(ms)},
       member |-> MembersOf(c.series)[k], model |-> c.model,
       tolerance |-> c.tolerance, product |-> Product(c, k)]

(* A generation of that capture, as far as it has been written and sealed.        *)
Stage(c, k, digest, sealed) ==
  LET b == Recaptured(c, k)
  IN  [member |-> b.member, start |-> b.start, count |-> b.count,
       model |-> c.model, config |-> c.config, mask |-> c.mask,
       id |-> b.id, digest |-> digest, sealed |-> sealed]

Generation(c, k) == Stage(c, k, Recaptured(c, k), IsSealed(Recaptured(c, k).count))

(* A generation as the writer of a call registers it, before it is sealed.       *)
Begun(c, k, written) ==
  Stage(c, k, IF written THEN Recaptured(c, k) ELSE Unwritten, FALSE)

OpenPart(series, s) == SubSeq(series, s * MinistackSize + 1, Len(series))

(* A revision is what one capture of its series under its own terms makes.      *)
TermsOf(r) ==
  [series |-> r.series, mask |-> r.state.mask, config |-> r.state.config,
   model |-> r.state.model, frame |-> r.state.registry[1].id[4],
   tolerance |-> r.state.registry[1].digest.tolerance]

IsRevision(r) ==
  r = [series |-> r.series, state |-> r.state, file |-> r.file, output |-> r.output]

Prefix(blocks, c, s) == blocks = [k \in 1 .. s |-> Product(c, k)]

Generations(registry, c, n) == registry = [k \in 1 .. n |-> Generation(c, k)]

IsFile(file, registry, c, n) ==
  file = [registry |-> registry, blocks |-> [k \in 1 .. n |-> Recaptured(c, k)]]

(* s generations are full, s * MinistackSize of the length acquisitions.            *)
FullIn(s, length) ==
  /\ s \in Nat /\ length \in Nat
  /\ s * MinistackSize <= length /\ length < (s + 1) * MinistackSize

RevisedAs(r, c, s, n) ==  \* s of n generations sealed
  /\ IsRevision(r) /\ r.series \in Seq(Slcs) /\ r.series # << >>
  /\ r.state.manifest = r.series
  /\ FullIn(s, Len(r.series)) /\ Prefix(r.state.sealed, c, s)
  /\ r.state.open = OpenPart(r.series, s)
  /\ Generations(r.state.registry, c, n)
  /\ r.output = RunSequential(r.series, r.state.mask)
  /\ r.file # None => IsFile(r.file, r.state.registry, c, n)

Revised(r) ==
  RevisedAs(r, TermsOf(r), Len(r.state.sealed), NumGenerations(Len(r.series)))

Revisions ==
  /\ IsList(revisions, Len(revisions))
  /\ \A i \in DOMAIN revisions : Plannable /\ Revised(revisions[i])

IsWriter(w) ==
  w = [registry |-> w.registry, written |-> w.written, poisoned |-> w.poisoned,
       frame |-> w.frame, manifest |-> w.manifest]

(* A writer registers what it has written, and the last generation last.       *)
Registered(w) ==
  LET n == Len(w.registry)
      k == Len(w.written)
  IN  /\ IsWriter(w)
      /\ IsList(w.registry, n) /\ IsList(w.written, k)
      /\ n >= 1 /\ k <= n
      /\ \A j \in 1 .. k : w.written[j] = w.registry[j].digest
      /\ k < n => w.registry[n].digest = Unwritten

Registers == writer # None => Registered(writer)

IsCall(a) ==
  a = [from |-> a.from, parent |-> a.parent, series |-> a.series, tail |-> a.tail,
       seed |-> a.seed, kept |-> a.kept, out |-> a.out, req |-> a.req]

(* During a call: it was given the start of a capture of the whole series, and has *)
(* copied and linked the blocks of that capture so far.                       *)
TermsIn(a) ==
  [series |-> a.series, mask |-> a.req.mask, config |-> a.req.config,
   model |-> a.req.model, frame |-> a.req.frame,
   tolerance |-> IF Len(a.seed) = 0 THEN a.req.tolerance ELSE a.kept[1].digest.tolerance]

Handed(a, c, s) ==
  /\ IsCall(a) /\ Plannable
  /\ a.series \in Seq(Slcs) /\ s \in Nat /\ s * MinistackSize < Len(a.series)
  /\ a.req.members = MembersOf(a.series) /\ a.req.manifest = a.series
  /\ a.seed = [k \in 1 .. s |-> Product(c, k)]
  /\ a.tail = OpenPart(a.series, s)
  /\ a.kept = [k \in 1 .. s |-> Generation(c, k)]

LinkedOf(s, w) == IF w > s THEN w - s ELSE 0

LinkedSoFar(a, c, s, w) ==
  /\ w > s => c.tolerance = a.req.tolerance
  /\ a.out = [j \in 1 .. LinkedOf(s, w) |-> Product(c, s + j)]

WrittenSoFar(x, c, s, w, n) ==
  /\ Registered(x) /\ w <= n
  /\ x.written = [k \in 1 .. w |-> Recaptured(c, k)]
  /\ x.registry =
       [k \in 1 .. n |-> IF k <= s THEN Generation(c, k) ELSE Begun(c, k, k <= w)]

ContinuesAs(a, x, c, s, w, n) ==  \* s blocks sealed before, w written, n planned
  Handed(a, c, s) /\ LinkedSoFar(a, c, s, w) /\ WrittenSoFar(x, c, s, w, n)

Continues(a, x) ==
  ContinuesAs(a, x, TermsIn(a), Len(a.seed), Len(x.written), NumGenerations(Len(a.series)))

Revising == call # None => Continues(call, writer)

RevisionInv == Revisions /\ Registers /\ Revising
-------------------------------------------------------------------------------
LEMMA RecapturedIs ==
  ASSUME NEW c, NEW k
  PROVE  LET b == Recaptured(c, k)
             ms == PlanWithOffset(Len(c.series), 0)[k]
         IN  /\ b.k = k /\ b.id = IdOf(c, k) /\ b.member = MembersOf(c.series)[k]
             /\ b.model = c.model /\ b.tolerance = c.tolerance
             /\ b.product = Product(c, k)
             /\ b.start = ms.real_start /\ b.count = ms.num_real
             /\ b.parents = {IdOf(c, p + 1) : p \in CarriedParentIds(ms)}
<1>. DEFINE b == Recaptured(c, k)
            ms == PlanWithOffset(Len(c.series), 0)[k]
<1>1. b = [k |-> k, id |-> IdOf(c, k), start |-> ms.real_start, count |-> ms.num_real,
           parents |-> {IdOf(c, p + 1) : p \in CarriedParentIds(ms)},
           member |-> MembersOf(c.series)[k], model |-> c.model,
           tolerance |-> c.tolerance, product |-> Product(c, k)]
  BY DEF Recaptured
<1>. HIDE DEF b, ms
<1>2. /\ b.k = k /\ b.id = IdOf(c, k) /\ b.member = MembersOf(c.series)[k]
      /\ b.model = c.model /\ b.tolerance = c.tolerance /\ b.product = Product(c, k)
      /\ b.start = ms.real_start /\ b.count = ms.num_real
      /\ b.parents = {IdOf(c, p + 1) : p \in CarriedParentIds(ms)}
  BY <1>1
<1>. QED
  BY <1>2 DEF b, ms

LEMMA RecapturedRecord ==
  ASSUME NEW c, NEW k, NEW b, b = Recaptured(c, k)
  PROVE  b = [k |-> k, id |-> b.id, start |-> b.start, count |-> b.count,
              parents |-> b.parents, member |-> b.member, model |-> b.model,
              tolerance |-> b.tolerance, product |-> Product(c, k)]
<1>1. PICK ms : ms = PlanWithOffset(Len(c.series), 0)[k]
  OBVIOUS
<1>2. PICK i, p, m, o, t : /\ i = IdOf(c, k) /\ m = MembersOf(c.series)[k]
                           /\ p = {IdOf(c, q + 1) : q \in CarriedParentIds(ms)}
                           /\ o = c.model /\ t = c.tolerance
  OBVIOUS
<1>3. b = [k |-> k, id |-> i, start |-> ms.real_start, count |-> ms.num_real, parents |-> p,
           member |-> m, model |-> o, tolerance |-> t, product |-> Product(c, k)]
  BY <1>1, <1>2 DEF Recaptured
<1>. QED
  BY <1>3

(* What a generation is at each stage, field by field.                         *)
LEMMA StageIs ==
  ASSUME NEW c, NEW k, NEW digest, NEW sealed
  PROVE  LET b == Recaptured(c, k)
             g == Stage(c, k, digest, sealed)
         IN  /\ g.member = b.member /\ g.start = b.start /\ g.count = b.count
             /\ g.model = c.model /\ g.config = c.config /\ g.mask = c.mask
             /\ g.id = b.id /\ g.digest = digest /\ g.sealed = sealed
<1>. DEFINE b == Recaptured(c, k)
            g == Stage(c, k, digest, sealed)
<1>1. g = [member |-> b.member, start |-> b.start, count |-> b.count,
           model |-> c.model, config |-> c.config, mask |-> c.mask,
           id |-> b.id, digest |-> digest, sealed |-> sealed]
  BY DEF Stage
<1>. HIDE DEF b, g
<1>2. /\ g.member = b.member /\ g.start = b.start /\ g.count = b.count
      /\ g.model = c.model /\ g.config = c.config /\ g.mask = c.mask
      /\ g.id = b.id /\ g.digest = digest /\ g.sealed = sealed
  BY <1>1
<1>. QED
  BY <1>2 DEF b, g

LEMMA GenerationIs ==
  ASSUME NEW c, NEW k
  PROVE  LET b == Recaptured(c, k)
             g == Generation(c, k)
         IN  /\ g.member = b.member /\ g.start = b.start /\ g.count = b.count
             /\ g.model = c.model /\ g.config = c.config /\ g.mask = c.mask
             /\ g.id = b.id /\ g.digest = b /\ g.sealed = IsSealed(b.count)
<1>. DEFINE b == Recaptured(c, k)
            d == IsSealed(b.count)
<1>1. Generation(c, k) = Stage(c, k, b, d)
  BY DEF Generation
<1>. HIDE DEF b, d
<1>2. LET g == Stage(c, k, b, d)
      IN  /\ g.member = Recaptured(c, k).member /\ g.start = Recaptured(c, k).start
          /\ g.count = Recaptured(c, k).count
          /\ g.model = c.model /\ g.config = c.config /\ g.mask = c.mask
          /\ g.id = Recaptured(c, k).id /\ g.digest = b /\ g.sealed = d
  BY StageIs
<1>. QED
  BY <1>1, <1>2 DEF b, d

WithDigest(g, x) == [g EXCEPT !.digest = x]

WithSeal(g, y) == [g EXCEPT !.sealed = y]

WithBoth(g, x, y) == [g EXCEPT !.digest = x, !.sealed = y]

LEMMA StageChanges ==
  /\ \A c, k, digest, sealed, x :
       WithDigest(Stage(c, k, digest, sealed), x) = Stage(c, k, x, sealed)
  /\ \A c, k, digest, sealed, y :
       WithSeal(Stage(c, k, digest, sealed), y) = Stage(c, k, digest, y)
  /\ \A c, k, digest, sealed, x, y :
       WithBoth(Stage(c, k, digest, sealed), x, y) = Stage(c, k, x, y)
<1>. SUFFICES ASSUME NEW c, NEW k, NEW digest, NEW sealed, NEW x, NEW y
     PROVE  /\ WithDigest(Stage(c, k, digest, sealed), x) = Stage(c, k, x, sealed)
            /\ WithSeal(Stage(c, k, digest, sealed), y) = Stage(c, k, digest, y)
            /\ WithBoth(Stage(c, k, digest, sealed), x, y) = Stage(c, k, x, y)
  OBVIOUS
<1>. DEFINE b == Recaptured(c, k)
<1>1. PICK g : g = Stage(c, k, digest, sealed)
  OBVIOUS
<1>2. \A d, s : Stage(c, k, d, s) =
         [member |-> b.member, start |-> b.start, count |-> b.count,
          model |-> c.model, config |-> c.config, mask |-> c.mask,
          id |-> b.id, digest |-> d, sealed |-> s]
  BY DEF Stage
<1>. HIDE DEF b
<1>3. g = [member |-> b.member, start |-> b.start, count |-> b.count,
           model |-> c.model, config |-> c.config, mask |-> c.mask,
           id |-> b.id, digest |-> digest, sealed |-> sealed]
  BY <1>1, <1>2
<1>4. [g EXCEPT !.digest = x] = Stage(c, k, x, sealed)
  <2>1. PICK q : q = [g EXCEPT !.digest = x]
    OBVIOUS
  <2>2. q = [member |-> b.member, start |-> b.start, count |-> b.count,
             model |-> c.model, config |-> c.config, mask |-> c.mask,
             id |-> b.id, digest |-> x, sealed |-> sealed]
    BY <1>3, <2>1
  <2>. QED
    BY <1>2, <2>1, <2>2
<1>5. [g EXCEPT !.sealed = y] = Stage(c, k, digest, y)
  <2>1. PICK q : q = [g EXCEPT !.sealed = y]
    OBVIOUS
  <2>2. q = [member |-> b.member, start |-> b.start, count |-> b.count,
             model |-> c.model, config |-> c.config, mask |-> c.mask,
             id |-> b.id, digest |-> digest, sealed |-> y]
    BY <1>3, <2>1
  <2>. QED
    BY <1>2, <2>1, <2>2
<1>6. [g EXCEPT !.digest = x, !.sealed = y] = Stage(c, k, x, y)
  <2>1. PICK q : q = [g EXCEPT !.digest = x, !.sealed = y]
    OBVIOUS
  <2>2. q = [member |-> b.member, start |-> b.start, count |-> b.count,
             model |-> c.model, config |-> c.config, mask |-> c.mask,
             id |-> b.id, digest |-> x, sealed |-> y]
    BY <1>3, <2>1
  <2>. QED
    BY <1>2, <2>1, <2>2
<1>7. WithDigest(g, x) = Stage(c, k, x, sealed)
  BY <1>4 DEF WithDigest
<1>8. WithSeal(g, y) = Stage(c, k, digest, y)
  BY <1>5 DEF WithSeal
<1>9. WithBoth(g, x, y) = Stage(c, k, x, y)
  BY <1>6 DEF WithBoth
<1>. QED
  BY <1>1, <1>7, <1>8, <1>9

LEMMA SameBlock ==
  ASSUME Plannable, NEW c, NEW d,
         c.series \in Seq(Slcs), d.series \in Seq(Slcs), Len(c.series) <= Len(d.series),
         \A i \in 1 .. Len(c.series) : d.series[i] = c.series[i],
         d.mask = c.mask, d.config = c.config, d.model = c.model, d.frame = c.frame,
         d.tolerance = c.tolerance,
         NEW s \in Nat, s * MinistackSize <= Len(c.series), NEW k \in 1 .. s
  PROVE  /\ Recaptured(d, k) = Recaptured(c, k) /\ Generation(d, k) = Generation(c, k)
         /\ MembersOf(d.series)[k] = MembersOf(c.series)[k]
         /\ Product(d, k) = Product(c, k)
<1>. DEFINE M == MinistackSize
<1>1. M \in Nat /\ M >= 2 /\ MinistackSize >= 2
  BY PlannerAssumption DEF Plannable
<1>2. Len(c.series) \in Nat /\ Len(d.series) \in Nat
  OBVIOUS
<1>3. ASSUME NEW j \in 1 .. s
      PROVE  /\ j \in 1 .. NumGenerations(Len(c.series)) /\ j \in 1 .. NumGenerations(Len(d.series))
             /\ PlanWithOffset(Len(c.series), 0)[j] = PlanWithOffset(Len(d.series), 0)[j]
             /\ MembersOf(d.series)[j] = MembersOf(c.series)[j]
  <2>. DEFINE start == (j - 1) * M
              end == j * M
  <2>1. j \in Nat /\ j >= 1 /\ j <= s
    OBVIOUS
  <2>2. start \in Nat /\ end \in Nat /\ start + M = end /\ end <= s * M /\ s * M \in Nat
    BY <1>1, <2>1, Products
  <2>3. end <= Len(c.series) /\ end <= Len(d.series)
    <3>. DEFINE full == s * M
    <3>1. end <= full /\ full <= Len(c.series) /\ full \in Nat
      BY <2>2
    <3>. HIDE DEF end, full
    <3>. QED
      BY <1>2, <2>2, <3>1
  <2>4. /\ j \in 1 .. NumGenerations(Len(c.series)) /\ j \in 1 .. NumGenerations(Len(d.series))
        /\ PlanWithOffset(Len(c.series), 0)[j] = PlanWithOffset(Len(d.series), 0)[j]
    BY <1>2, <2>1, <2>3, FullBlock
  <2>5. Smaller(end, Len(c.series)) = end /\ Smaller(end, Len(d.series)) = end
    BY <2>3 DEF Smaller
  <2>6. /\ MembersOf(c.series)[j] = SubSeq(c.series, start + 1, end)
        /\ MembersOf(d.series)[j] = SubSeq(d.series, start + 1, end)
    BY <2>4, <2>5 DEF MembersOf
  <2>7. IsList(c.series, Len(c.series)) /\ IsList(d.series, Len(d.series))
    BY SequenceIsList
  <2>. HIDE DEF start, end
  <2>8. /\ SubSeq(c.series, start + 1, end)
             = [i \in 1 .. end + 1 - (start + 1) |-> c.series[(start + 1) + i - 1]]
        /\ SubSeq(d.series, start + 1, end)
             = [i \in 1 .. end + 1 - (start + 1) |-> d.series[(start + 1) + i - 1]]
    <3>1. start + 1 \in Nat /\ start + 1 >= 1 /\ start + 1 <= end + 1
      BY <1>1, <2>2
    <3>. QED
      BY <2>2, <2>3, <2>7, <3>1, PartList
  <2>9. \A i \in 1 .. end + 1 - (start + 1) :
          (start + 1) + i - 1 \in 1 .. Len(c.series)
    BY <1>1, <1>2, <2>2, <2>3
  <2>. QED
    BY <2>4, <2>6, <2>8, <2>9
<1>. DEFINE ms == PlanWithOffset(Len(c.series), 0)[k]
            ns == PlanWithOffset(Len(d.series), 0)[k]
<1>4. ms = ns /\ MembersOf(d.series)[k] = MembersOf(c.series)[k]
  BY <1>3
<1>5. CarriedParentIds(ms) \subseteq 0 .. k - 2
  <2>1. k \in 1 .. NumGenerations(Len(c.series)) /\ 0 \in Nat
    BY <1>3
  <2>2. ms.block_id = k - 1 /\ ms.num_compressed \in 0 .. k - 1
    <3>1. /\ ms = [block_id |-> 0 + k - 1,
                   num_compressed |-> Smaller(0 + k - 1, MaxNumCompressed),
                   real_start |-> (k - 1) * MinistackSize,
                   num_real |-> Smaller(MinistackSize, Len(c.series) - (k - 1) * MinistackSize),
                   output_reference_idx |-> 0, compressed_reference_idx |-> 0]
          /\ Smaller(0 + k - 1, MaxNumCompressed) \in 0 .. 0 + k - 1
      BY <1>2, <2>1, BlockIs
    <3>2. 0 + k - 1 = k - 1
      OBVIOUS
    <3>. HIDE DEF ms
    <3>. QED
      BY <3>1, <3>2
  <2>. HIDE DEF ms
  <2>. QED
    BY <2>2 DEF CarriedParentIds
<1>6. \A p \in CarriedParentIds(ms) : IdOf(d, p + 1) = IdOf(c, p + 1)
  <2>1. SUFFICES ASSUME NEW p \in CarriedParentIds(ms) PROVE IdOf(d, p + 1) = IdOf(c, p + 1)
    OBVIOUS
  <2>2. p + 1 \in 1 .. s
    BY <1>5
  <2>. QED
    BY <1>3, <2>2 DEF IdOf
<1>7. Product(d, k) = Product(c, k)
  BY <1>2, FullBlocksStay DEF Product
<1>8. IdOf(d, k) = IdOf(c, k)
  BY <1>4 DEF IdOf
<1>9. {IdOf(d, p + 1) : p \in CarriedParentIds(ns)} = {IdOf(c, p + 1) : p \in CarriedParentIds(ms)}
  BY <1>4, <1>6
<1>. HIDE DEF ms, ns
<1>10. Recaptured(d, k) = Recaptured(c, k)
  BY <1>4, <1>7, <1>8, <1>9 DEF Recaptured, ms, ns
<1>11. Generation(d, k) = Generation(c, k)
  BY <1>10, <1>4 DEF Generation, Stage
<1>. QED
  BY <1>4, <1>7, <1>10, <1>11

(* The generations of a series add up to it.                                  *)
LEMMA SealedAre ==
  ASSUME Plannable, NEW c, Len(c.series) \in Nat, NEW s \in Nat,
         s * MinistackSize <= Len(c.series), Len(c.series) < (s + 1) * MinistackSize,
         NEW registry, registry = [k \in 1 .. NumGenerations(Len(c.series)) |-> Generation(c, k)]
  PROVE  /\ Sealed(registry) = 1 .. s /\ Cardinality(Sealed(registry)) = s
         /\ DOMAIN registry = 1 .. NumGenerations(Len(c.series))
         /\ SealedDates(registry) = s * MinistackSize
<1>. DEFINE M == MinistackSize
            n == NumGenerations(Len(c.series))
            counts == [k \in DOMAIN registry |-> registry[k].count]
<1>1. M \in Nat /\ M >= 2 /\ s <= n /\ n \in Nat
  BY PlannerAssumption, FullOnes, CountOf DEF Plannable
<1>2. DOMAIN registry = 1 .. n
  OBVIOUS
<1>3. \A k \in 1 .. n : /\ registry[k].count = PlanWithOffset(Len(c.series), 0)[k].num_real
                        /\ registry[k].sealed <=> registry[k].count = M
  <2>1. SUFFICES ASSUME NEW k \in 1 .. n
        PROVE  /\ registry[k].count = PlanWithOffset(Len(c.series), 0)[k].num_real
               /\ registry[k].sealed <=> registry[k].count = M
    OBVIOUS
  <2>2. registry[k] = Generation(c, k)
    OBVIOUS
  <2>3. /\ Generation(c, k).count = PlanWithOffset(Len(c.series), 0)[k].num_real
        /\ Generation(c, k).sealed <=> Generation(c, k).count = M
    <3>1. /\ Recaptured(c, k).count = PlanWithOffset(Len(c.series), 0)[k].num_real
          /\ Generation(c, k).count = Recaptured(c, k).count
          /\ Generation(c, k).sealed = IsSealed(Recaptured(c, k).count)
      BY GenerationIs, RecapturedIs
    <3>2. IsSealed(Recaptured(c, k).count) <=> Recaptured(c, k).count = M
      BY DEF IsSealed
    <3>. QED
      BY <3>1, <3>2
  <2>. QED
    BY <2>2, <2>3
<1>4. \A k \in 1 .. n : registry[k].count = M <=> k <= s
  BY <1>3, FullOnes
<1>5. Sealed(registry) = 1 .. s
  BY <1>1, <1>2, <1>3, <1>4 DEF Sealed
<1>6. Cardinality(Sealed(registry)) = s
  BY <1>5, FS_Interval
<1>7. SealedDates(registry) = IteratedSum(counts, 1 .. s)
  BY <1>5 DEF SealedDates, SumFunctionOnSet, FoldFunctionOnSet, MapThenFoldSet, IteratedSum
<1>8. \A k \in 1 .. s : counts[k] = M
  BY <1>1, <1>2, <1>4
<1>. HIDE DEF counts
<1>9. IteratedSum(counts, 1 .. s) = s * M
  <2>1. IsFiniteSet(1 .. s) /\ Cardinality(1 .. s) = s
    BY FS_Interval
  <2>. QED
    BY <1>1, <1>8, <2>1, SumOfEquals
<1>. QED
  BY <1>2, <1>5, <1>6, <1>7, <1>9

-------------------------------------------------------------------------------
(***************************************************************************)
(* Requests                                                                *)
(***************************************************************************)

LEMMA Accepted ==
  ASSUME NEW n, NEW req, TopologyAccepted(n, req)
  PROVE  Plannable
  BY DEF TopologyAccepted, Supported, PlanAccepted, Plannable

LEMMA StackIsSeries ==
  ASSUME NEW n \in Int, NEW stack \in Stacks(n)
  PROVE  stack \in Seq(Slcs) /\ Len(stack) \in Nat /\ Len(stack) >= 1 /\ stack # << >>
<1>1. PICK k \in 1 .. n : stack \in [1 .. k -> Slcs]
  BY DEF Stacks
<1>2. k \in Nat /\ k >= 1
  OBVIOUS
<1>3. stack \in Seq(Slcs) /\ Len(stack) = k
  BY <1>1, <1>2
<1>. QED
  BY <1>2, <1>3

LEMMA BlocksAreWritten ==
  ASSUME NEW c, NEW k
  PROVE  Recaptured(c, k) # Unwritten
<1>1. "k" \in DOMAIN Recaptured(c, k)
  BY DEF Recaptured
<1>2. "k" \notin DOMAIN Unwritten
  BY DEF Unwritten
<1>. QED
  BY <1>1, <1>2

(* An honest request plans the generations as a capture begins them.            *)
LEMMA PlannedIsBegun ==
  ASSUME NEW c, NEW req, Plannable, Len(c.series) \in Nat,
         req.members = MembersOf(c.series), req.model = c.model, req.frame = c.frame,
         req.config = c.config, NEW k \in 1 .. NumGenerations(Len(c.series))
  PROVE  /\ Provisional(Len(c.series), c.mask, req)[k] = Begun(c, k, FALSE)
         /\ Topology(Len(c.series), req)[k] =
              [id |-> IdOf(c, k), start |-> Recaptured(c, k).start,
               count |-> Recaptured(c, k).count, parents |-> Recaptured(c, k).parents]
<1>. DEFINE n == Len(c.series)
            ms == PlanWithOffset(n, 0)[k]
            b == Recaptured(c, k)
<1>1. k \in BatchIndices(n)
  BY CountOf DEF Plannable
<1>2. \A j : BlockId(j, req) = IdOf(c, j)
  BY DEF BlockId, IdOf
<1>3. b.parents = {IdOf(c, p + 1) : p \in CarriedParentIds(ms)}
  BY DEF Recaptured
<1>4. {BlockId(p + 1, req) : p \in CarriedParentIds(ms)} = b.parents
  BY <1>2, <1>3
<1>5. Topology(n, req)[k] =
        [id |-> BlockId(k, req), start |-> ms.real_start, count |-> ms.num_real,
         parents |-> {BlockId(p + 1, req) : p \in CarriedParentIds(ms)}]
  BY <1>1 DEF Topology
<1>6. b.start = ms.real_start /\ b.count = ms.num_real /\ b.id = IdOf(c, k)
      /\ b.member = MembersOf(c.series)[k]
  BY RecapturedIs
<1>7. Topology(n, req)[k] =
        [id |-> IdOf(c, k), start |-> b.start, count |-> b.count, parents |-> b.parents]
  BY <1>2, <1>4, <1>5, <1>6
<1>. DEFINE planned == Topology(n, req)[k]
<1>71. /\ planned.id = IdOf(c, k) /\ planned.start = b.start /\ planned.count = b.count
  BY <1>7
<1>72. Provisional(n, c.mask, req)[k] =
        [member |-> req.members[k], start |-> planned.start, count |-> planned.count,
         model |-> req.model, config |-> req.config, mask |-> c.mask,
         id |-> planned.id, digest |-> Unwritten, sealed |-> FALSE]
  BY DEF Provisional
<1>. HIDE DEF planned
<1>8. Provisional(n, c.mask, req)[k] =
        [member |-> req.members[k], start |-> b.start, count |-> b.count,
         model |-> req.model, config |-> req.config, mask |-> c.mask,
         id |-> IdOf(c, k), digest |-> Unwritten, sealed |-> FALSE]
  BY <1>71, <1>72
<1>9. Begun(c, k, FALSE) =
        [member |-> b.member, start |-> b.start, count |-> b.count,
         model |-> c.model, config |-> c.config, mask |-> c.mask,
         id |-> b.id, digest |-> Unwritten, sealed |-> FALSE]
  BY DEF Begun, Stage
<1>. QED
  BY <1>6, <1>7, <1>8, <1>9

-------------------------------------------------------------------------------
(***************************************************************************)
(* Writing                                                                 *)
(***************************************************************************)

Wrote(x, b) == [x EXCEPT !.written = Append(@, b), !.registry[b.k].digest = b]

LEMMA WriteIs ==
  ASSUME NEW x, NEW n, IsList(x.registry, n), IsWriter(x), NEW b, b.k \in 1 .. n
  PROVE  LET y == Wrote(x, b)
         IN  /\ IsWriter(y)
             /\ y.written = Append(x.written, b)
             /\ y.registry = [k \in 1 .. n |-> IF k = b.k THEN WithDigest(x.registry[k], b)
                                               ELSE x.registry[k]]
             /\ y.frame = x.frame /\ y.manifest = x.manifest
<1>1. PICK g : g = [x.registry[b.k] EXCEPT !.digest = b]
  OBVIOUS
<1>2. PICK r : r = [x.registry EXCEPT ![b.k] = g]
  OBVIOUS
<1>3. PICK v : v = Append(x.written, b)
  OBVIOUS
<1>4. PICK y : y = Wrote(x, b)
  OBVIOUS
<1>5. y = [[x EXCEPT !.written = v] EXCEPT !.registry = r]
  BY <1>1, <1>2, <1>3, <1>4 DEF Wrote
<1>6. PICK p, f, m : p = x.poisoned /\ f = x.frame /\ m = x.manifest
  OBVIOUS
<1>7. PICK a, c : a = x.registry /\ c = x.written
  OBVIOUS
<1>8. x = [registry |-> a, written |-> c, poisoned |-> p, frame |-> f, manifest |-> m]
  BY <1>6, <1>7 DEF IsWriter
<1>9. y = [registry |-> r, written |-> v, poisoned |-> p, frame |-> f, manifest |-> m]
  BY <1>5, <1>8
<1>10. y.registry = r /\ y.written = v /\ y.poisoned = p /\ y.frame = f /\ y.manifest = m
  BY <1>9
<1>11. IsWriter(y)
  BY <1>9, <1>10 DEF IsWriter
<1>12. r = [k \in 1 .. n |-> IF k = b.k THEN g ELSE x.registry[k]]
  <2>1. DOMAIN x.registry = 1 .. n
    BY DEF IsList
  <2>. QED
    BY <1>2, <2>1
<1>13. r = [k \in 1 .. n |-> IF k = b.k THEN WithDigest(x.registry[k], b)
                              ELSE x.registry[k]]
  BY <1>1, <1>12 DEF WithDigest
<1>. QED
  BY <1>3, <1>4, <1>6, <1>10, <1>11, <1>13

Grew(a, product) == [a EXCEPT !.out = Append(@, product)]

LEMMA GrewIs ==
  ASSUME NEW a, IsCall(a), NEW product
  PROVE  LET e == Grew(a, product)
         IN  /\ IsCall(e) /\ e.out = Append(a.out, product)
             /\ e.from = a.from /\ e.parent = a.parent /\ e.series = a.series
             /\ e.tail = a.tail /\ e.seed = a.seed /\ e.kept = a.kept /\ e.req = a.req
<1>1. PICK v : v = Append(a.out, product)
  OBVIOUS
<1>2. PICK f, p, s, t : f = a.from /\ p = a.parent /\ s = a.series /\ t = a.tail
  OBVIOUS
<1>3. PICK d, k, o, r : d = a.seed /\ k = a.kept /\ o = a.out /\ r = a.req
  OBVIOUS
<1>4. a = [from |-> f, parent |-> p, series |-> s, tail |-> t,
           seed |-> d, kept |-> k, out |-> o, req |-> r]
  BY <1>2, <1>3 DEF IsCall
<1>5. PICK e : e = [a EXCEPT !.out = v]
  OBVIOUS
<1>6. e = [from |-> f, parent |-> p, series |-> s, tail |-> t,
           seed |-> d, kept |-> k, out |-> v, req |-> r]
  BY <1>4, <1>5
<1>7. /\ e.from = f /\ e.parent = p /\ e.series = s /\ e.tail = t
      /\ e.seed = d /\ e.kept = k /\ e.out = v /\ e.req = r
  BY <1>6
<1>8. IsCall(e)
  BY <1>6, <1>7 DEF IsCall
<1>9. e = Grew(a, product)
  BY <1>1, <1>5 DEF Grew
<1>. QED
  BY <1>1, <1>2, <1>3, <1>7, <1>8, <1>9

(* The call behind the block it has copied, or linked.                        *)
Follows(a, x, e) ==
  LET c == TermsIn(a)
      next == Len(x.written) + 1
  IN  IF next > Len(a.seed)
      THEN c.tolerance = a.req.tolerance /\ e = Grew(a, Product(c, next))
      ELSE e = a

(* Whatever writes the next block of the capture, copied or linked, keeps the      *)
(* call and the writer on their way.                                        *)
LEMMA Written ==
  ASSUME NEW a, NEW x, Continues(a, x), Len(x.written) < NumGenerations(Len(a.series)),
         NEW e, Follows(a, x, e)
  PROVE  Continues(e, Wrote(x, Recaptured(TermsIn(a), Len(x.written) + 1)))
<1>1. PICK c, s, w, n : /\ c = TermsIn(a) /\ s = Len(a.seed)
                        /\ w = Len(x.written) /\ n = NumGenerations(Len(a.series))
  OBVIOUS
<1>2. /\ IsCall(a) /\ Plannable /\ Registered(x)
      /\ a.series \in Seq(Slcs) /\ s \in Nat /\ s * MinistackSize < Len(a.series)
      /\ a.req.members = MembersOf(a.series) /\ a.req.manifest = a.series
      /\ a.seed = [k \in 1 .. s |-> Product(c, k)]
      /\ a.tail = OpenPart(a.series, s)
      /\ a.kept = [k \in 1 .. s |-> Generation(c, k)]
      /\ w <= n
      /\ w > s => c.tolerance = a.req.tolerance
      /\ a.out = [j \in 1 .. LinkedOf(s, w) |-> Product(c, s + j)]
      /\ x.written = [k \in 1 .. w |-> Recaptured(c, k)]
      /\ x.registry =
           [k \in 1 .. n |-> IF k <= s THEN Generation(c, k) ELSE Begun(c, k, k <= w)]
  <2>1. ContinuesAs(a, x, c, s, w, n)
    BY <1>1 DEF Continues
  <2>. QED
    BY <2>1 DEF ContinuesAs, Handed, LinkedSoFar, WrittenSoFar
<1>3. /\ IsWriter(x)
      /\ Len(x.registry) \in Nat /\ w \in Nat /\ IsList(x.written, w)
      /\ IsList(x.registry, Len(x.registry))
  BY <1>1, <1>2 DEF Registered, IsList
<1>4. n \in Nat
  <2>1. Len(a.series) \in Nat /\ MinistackSize >= 2
    BY <1>2 DEF Plannable
  <2>. QED
    BY <1>1, <2>1, CountOf
<1>5. IsList(x.registry, n) /\ Len(x.registry) = n
  <2>1. IsList(x.registry, n)
    BY <1>2, <1>4 DEF IsList
  <2>. QED
    BY <2>1, ListIsSequence
<1>5b. PICK b : b = Recaptured(c, w + 1)
  OBVIOUS
<1>6. b.k = w + 1 /\ w + 1 \in 1 .. n /\ b = Recaptured(c, w + 1)
  BY <1>1, <1>3, <1>4, <1>5b, RecapturedIs
<1>. DEFINE y == Wrote(x, b)
<1>7. /\ IsWriter(y) /\ y.written = Append(x.written, b)
      /\ y.registry = [k \in 1 .. n |-> IF k = b.k THEN WithDigest(x.registry[k], b)
                                        ELSE x.registry[k]]
  BY <1>3, <1>5, <1>6, WriteIs
<1>. HIDE DEF y
<1>8. y.written = [k \in 1 .. w + 1 |-> Recaptured(c, k)] /\ Len(y.written) = w + 1
      /\ IsList(y.written, w + 1)
  <2>1. /\ IsList(y.written, w + 1)
        /\ y.written = [k \in 1 .. w + 1 |-> IF k <= w THEN x.written[k] ELSE b]
    <3>1. PICK v : v = x.written
      OBVIOUS
    <3>2. IsList(v, w)
      BY <1>3, <3>1
    <3>3. /\ IsList(Append(v, b), w + 1)
          /\ Append(v, b) = [k \in 1 .. w + 1 |-> IF k <= w THEN v[k] ELSE b]
      BY <3>2, AppendList
    <3>. QED
      BY <1>7, <3>1, <3>3
  <2>2. ASSUME NEW k \in 1 .. w + 1
        PROVE  (IF k <= w THEN x.written[k] ELSE b) = Recaptured(c, k)
    <3>1. CASE k <= w
      <4>1. k \in 1 .. w
        BY <1>3, <3>1
      <4>. QED
        BY <1>2, <3>1, <4>1
    <3>2. CASE ~ (k <= w)
      <4>1. k = w + 1
        BY <1>3, <3>2
      <4>. QED
        BY <1>6, <3>2, <4>1
    <3>. QED
      BY <3>1, <3>2
  <2>3. y.written = [k \in 1 .. w + 1 |-> Recaptured(c, k)]
    BY <2>1, <2>2
  <2>. QED
    BY <2>1, <2>3, ListIsSequence
<1>9. y.registry =
        [k \in 1 .. n |-> IF k <= s THEN Generation(c, k) ELSE Begun(c, k, k <= w + 1)]
  <2>1. ASSUME NEW k \in 1 .. n
        PROVE  (IF k = b.k THEN WithDigest(x.registry[k], b) ELSE x.registry[k])
                 = IF k <= s THEN Generation(c, k) ELSE Begun(c, k, k <= w + 1)
    <3>1. x.registry[k] = IF k <= s THEN Generation(c, k) ELSE Begun(c, k, k <= w)
      BY <1>2
    <3>2. CASE k = b.k /\ k <= s
      <4>1. Generation(c, k) = Stage(c, k, Recaptured(c, k), IsSealed(Recaptured(c, k).count))
        BY DEF Generation
      <4>2. b = Recaptured(c, k)
        BY <1>6, <3>2
      <4>3. PICK d : d = IsSealed(Recaptured(c, k).count)
        OBVIOUS
      <4>4. WithDigest(Stage(c, k, b, d), b) = Stage(c, k, b, d)
        BY StageChanges
      <4>. QED
        BY <3>1, <3>2, <4>1, <4>2, <4>3, <4>4
    <3>3. CASE k = b.k /\ ~ (k <= s)
      <4>1. b = Recaptured(c, k) /\ ~ (k <= w) /\ k <= w + 1
        BY <1>3, <1>6, <3>3
      <4>2. Begun(c, k, k <= w) = Stage(c, k, Unwritten, FALSE)
            /\ Begun(c, k, k <= w + 1) = Stage(c, k, b, FALSE)
        BY <4>1 DEF Begun
      <4>3. WithDigest(Stage(c, k, Unwritten, FALSE), b) = Stage(c, k, b, FALSE)
        <5>1. \A g, j, digest, sealed, d :
                WithDigest(Stage(g, j, digest, sealed), d) = Stage(g, j, d, sealed)
          BY StageChanges
        <5>. QED
          BY <5>1
      <4>. QED
        BY <3>1, <3>3, <4>2, <4>3
    <3>4. CASE k # b.k
      <4>1. (k <= w) = (k <= w + 1)
        BY <1>3, <1>6, <3>4
      <4>. QED
        BY <3>1, <3>4, <4>1
    <3>. QED
      BY <3>2, <3>3, <3>4
  <2>. QED
    BY <1>7, <2>1
<1>10. Registered(y)
  <2>1. IsList(y.registry, n) /\ Len(y.registry) = n
    <3>1. IsList(y.registry, n)
      BY <1>4, <1>9 DEF IsList
    <3>. QED
      BY <3>1, ListIsSequence
  <2>2. n >= 1 /\ w + 1 <= n
    BY <1>3, <1>4, <1>6
  <2>3. \A j \in 1 .. w + 1 : y.written[j] = y.registry[j].digest
    <3>1. SUFFICES ASSUME NEW j \in 1 .. w + 1 PROVE y.registry[j].digest = Recaptured(c, j)
      BY <1>8
    <3>2. j \in 1 .. n /\ j <= w + 1
      BY <1>3, <1>4, <2>2
    <3>3. CASE j <= s
      BY <1>9, <3>2, <3>3, GenerationIs
    <3>4. CASE ~ (j <= s)
      <4>1. y.registry[j] = Stage(c, j, Recaptured(c, j), FALSE)
        BY <1>9, <3>2, <3>4 DEF Begun
      <4>2. \A d : Stage(c, j, Recaptured(c, j), d).digest = Recaptured(c, j)
        BY StageIs
      <4>. QED
        BY <4>1, <4>2
    <3>. QED
      BY <3>3, <3>4
  <2>4. w + 1 < n => y.registry[n].digest = Unwritten
    <3>1. SUFFICES ASSUME w + 1 < n PROVE y.registry[n].digest = Unwritten
      OBVIOUS
    <3>2. n \in 1 .. n /\ n # b.k /\ w < n
      BY <1>3, <1>4, <1>6, <3>1
    <3>3. x.registry[n].digest = Unwritten
      BY <1>1, <1>2, <1>5, <3>2 DEF Registered
    <3>. QED
      BY <1>7, <3>2, <3>3
  <2>. QED
    BY <1>7, <1>8, <2>1, <2>2, <2>3, <2>4 DEF Registered
<1>11. /\ IsCall(e) /\ e.series = a.series /\ e.tail = a.tail /\ e.seed = a.seed
       /\ e.kept = a.kept /\ e.req = a.req
       /\ e.out = IF w + 1 > s THEN Append(a.out, Product(c, w + 1)) ELSE a.out
       /\ w + 1 > s => c.tolerance = a.req.tolerance
  <2>1. CASE w + 1 > s
    <3>1. c.tolerance = a.req.tolerance /\ e = Grew(a, Product(c, w + 1))
      BY <1>1, <2>1 DEF Follows
    <3>2. IsCall(a)
      BY <1>2
    <3>3. PICK p : p = Product(c, w + 1)
      OBVIOUS
    <3>4. /\ IsCall(Grew(a, p)) /\ Grew(a, p).out = Append(a.out, p)
          /\ Grew(a, p).series = a.series /\ Grew(a, p).tail = a.tail
          /\ Grew(a, p).seed = a.seed /\ Grew(a, p).kept = a.kept /\ Grew(a, p).req = a.req
      BY <3>2, GrewIs
    <3>. QED
      BY <2>1, <3>1, <3>3, <3>4
  <2>2. CASE ~ (w + 1 > s)
    <3>1. e = a
      BY <1>1, <2>2 DEF Follows
    <3>. QED
      BY <1>2, <2>2, <3>1
  <2>. QED
    BY <2>1, <2>2
<1>12. TermsIn(e) = c
  BY <1>1, <1>11 DEF TermsIn
<1>13. e.out = [j \in 1 .. LinkedOf(s, w + 1) |-> Product(c, s + j)]
  <2>1. CASE w + 1 > s
    <3>1. PICK l : l = w - s
      OBVIOUS
    <3>2. l \in Nat /\ s + (l + 1) = w + 1 /\ LinkedOf(s, w + 1) = l + 1
          /\ LinkedOf(s, w) = l
      <4>1. s \in Nat /\ w \in Nat /\ w >= s
        <5>1. s \in Nat /\ w \in Nat
          BY <1>2, <1>3
        <5>. QED
          BY <2>1, <5>1
      <4>. QED
        BY <3>1, <4>1 DEF LinkedOf
    <3>3. a.out = [j \in 1 .. l |-> Product(c, s + j)] /\ IsList(a.out, l)
      BY <1>2, <3>2 DEF IsList
    <3>4. Append(a.out, Product(c, w + 1))
            = [j \in 1 .. l + 1 |-> IF j <= l THEN a.out[j] ELSE Product(c, w + 1)]
      <4>1. PICK v, p : v = a.out /\ p = Product(c, w + 1)
        OBVIOUS
      <4>2. IsList(v, l)
        BY <3>3, <4>1
      <4>3. Append(v, p) = [j \in 1 .. l + 1 |-> IF j <= l THEN v[j] ELSE p]
        BY <4>2, AppendList
      <4>. QED
        BY <4>1, <4>3
    <3>5. ASSUME NEW j \in 1 .. l + 1
          PROVE  (IF j <= l THEN a.out[j] ELSE Product(c, w + 1)) = Product(c, s + j)
      <4>1. CASE j <= l
        <5>1. j \in 1 .. l
          BY <3>2, <4>1
        <5>. QED
          BY <3>3, <4>1, <5>1
      <4>2. CASE ~ (j <= l)
        <5>1. j = l + 1
          BY <3>2, <4>2
        <5>. QED
          BY <3>2, <4>2, <5>1
      <4>. QED
        BY <4>1, <4>2
    <3>6. e.out = [j \in 1 .. l + 1 |-> Product(c, s + j)]
      BY <1>11, <2>1, <3>4, <3>5
    <3>. QED
      BY <2>1, <3>2, <3>6
  <2>2. CASE ~ (w + 1 > s)
    <3>1. s \in Nat /\ w \in Nat
      BY <1>2, <1>3
    <3>2. LinkedOf(s, w + 1) = LinkedOf(s, w)
      BY <2>2, <3>1 DEF LinkedOf
    <3>. QED
      BY <1>2, <1>11, <2>2, <3>2
  <2>. QED
    BY <2>1, <2>2
<1>14. w + 1 <= n
  BY <1>3, <1>4, <1>6
<1>. QED
  <2>1. Handed(e, c, s)
    <3>1. Handed(a, c, s)
      BY <1>1 DEF Continues, ContinuesAs
    <3>. QED
      BY <1>11, <3>1 DEF Handed
  <2>2. LinkedSoFar(e, c, s, w + 1) /\ WrittenSoFar(y, c, s, w + 1, n)
    <3>1. LinkedSoFar(e, c, s, w + 1)
      <4>1. PICK v : v = w + 1
        OBVIOUS
      <4>2. e.out = [j \in 1 .. LinkedOf(s, v) |-> Product(c, s + j)]
        BY <1>13, <4>1
      <4>3. v > s => c.tolerance = e.req.tolerance
        BY <1>11, <4>1
      <4>4. LinkedSoFar(e, c, s, v)
        BY <4>2, <4>3 DEF LinkedSoFar
      <4>. QED
        BY <4>1, <4>4
    <3>2. WrittenSoFar(y, c, s, w + 1, n)
      <4>1. PICK v : v = w + 1
        OBVIOUS
      <4>2. y.written = [k \in 1 .. v |-> Recaptured(c, k)]
        BY <1>8, <4>1
      <4>3. y.registry =
              [k \in 1 .. n |-> IF k <= s THEN Generation(c, k) ELSE Begun(c, k, k <= v)]
        BY <1>9, <4>1
      <4>4. WrittenSoFar(y, c, s, v, n)
        BY <1>10, <1>14, <4>1, <4>2, <4>3 DEF WrittenSoFar
      <4>. QED
        BY <4>1, <4>4
    <3>. QED
      BY <3>1, <3>2
  <2>3. TermsIn(e) = c /\ Len(e.seed) = s /\ Len(y.written) = w + 1
        /\ NumGenerations(Len(e.series)) = n
    BY <1>1, <1>8, <1>11, <1>12
  <2>4. ContinuesAs(e, y, c, s, w + 1, n)
    BY <2>1, <2>2 DEF ContinuesAs
  <2>5. Continues(e, y)
    BY <2>3, <2>4 DEF Continues
  <2>. QED
    BY <1>1, <1>6, <2>5 DEF y

(* What a call in progress knows.                                           *)
LEMMA CallIs ==
  ASSUME NEW a, NEW x, Continues(a, x),
         NEW c, NEW s, NEW w, NEW n, c = TermsIn(a), s = Len(a.seed), w = Len(x.written),
         n = NumGenerations(Len(a.series))
  PROVE  /\ Handed(a, c, s) /\ LinkedSoFar(a, c, s, w) /\ WrittenSoFar(x, c, s, w, n)
         /\ Plannable /\ n \in Nat /\ s \in Nat /\ w \in Nat /\ w <= n
         /\ a.series \in Seq(Slcs) /\ Len(a.series) \in Nat
         /\ BatchIndices(Len(a.series)) = 1 .. n
         /\ DOMAIN a.kept = 1 .. s /\ Cardinality(DOMAIN a.kept) = s
<1>1. ContinuesAs(a, x, c, s, w, n)
  BY DEF Continues
<1>2. /\ Handed(a, c, s) /\ LinkedSoFar(a, c, s, w) /\ WrittenSoFar(x, c, s, w, n)
  BY <1>1 DEF ContinuesAs
<1>3. Plannable /\ s \in Nat /\ a.series \in Seq(Slcs)
      /\ a.kept = [k \in 1 .. s |-> Generation(c, k)]
  BY <1>2 DEF Handed
<1>4. Len(a.series) \in Nat /\ MinistackSize >= 2
  BY <1>3 DEF Plannable
<1>5. n \in Nat /\ BatchIndices(Len(a.series)) = 1 .. n
  BY <1>4, CountOf
<1>6. Registered(x) /\ w <= n
  BY <1>2 DEF WrittenSoFar
<1>7. w \in Nat
  BY <1>6 DEF Registered, IsList
<1>8. DOMAIN a.kept = 1 .. s
  BY <1>3
<1>9. Cardinality(DOMAIN a.kept) = s
  <2>1. s \in Nat
    BY <1>3
  <2>2. Cardinality(1 .. s) = s
    BY <2>1, FS_Interval
  <2>. QED
    BY <1>8, <2>2
<1>. QED
  BY <1>2, <1>3, <1>4, <1>5, <1>6, <1>7, <1>8, <1>9

(* copy_validated_sealed_block, when the parent's file holds what the writer plans. *)
LEMMA CopyStep ==
  ASSUME NEW a, NEW x, Continues(a, x), Len(x.written) + 1 \in DOMAIN a.kept
  PROVE  Continues(a, Wrote(x, x.registry[Len(x.written) + 1].digest))
<1>1. PICK c, s, w, n : /\ c = TermsIn(a) /\ s = Len(a.seed)
                        /\ w = Len(x.written) /\ n = NumGenerations(Len(a.series))
  OBVIOUS
<1>2. /\ Handed(a, c, s) /\ WrittenSoFar(x, c, s, w, n)
      /\ Plannable /\ n \in Nat /\ s \in Nat /\ w \in Nat /\ w <= n
      /\ a.series \in Seq(Slcs) /\ Len(a.series) \in Nat
      /\ DOMAIN a.kept = 1 .. s
  BY <1>1, CallIs
<1>3. w + 1 \in 1 .. s
  BY <1>1, <1>2
<1>4. w + 1 \in 1 .. n
  <2>1. s * MinistackSize < Len(a.series)
    BY <1>2 DEF Handed
  <2>2. MinistackSize \in Nat
    BY PlannerAssumption
  <2>. DEFINE full == s * MinistackSize
              end == (w + 1) * MinistackSize
  <2>3. w + 1 \in Nat /\ w + 1 <= s /\ w + 1 >= 1
    BY <1>2, <1>3
  <2>4. end <= full /\ end \in Nat /\ full \in Nat
    BY <1>2, <2>2, <2>3, Products
  <2>5. end <= Len(a.series)
    <3>1. full < Len(a.series)
      BY <2>1
    <3>. HIDE DEF end, full
    <3>. QED
      BY <1>2, <2>4, <3>1
  <2>. QED
    BY <1>1, <1>2, <2>3, <2>5, FullBlock
<1>5. x.registry[w + 1].digest = Recaptured(c, w + 1)
  <2>1. x.registry[w + 1] = Generation(c, w + 1)
    <3>1. x.registry =
            [k \in 1 .. n |-> IF k <= s THEN Generation(c, k) ELSE Begun(c, k, k <= w)]
      BY <1>2 DEF WrittenSoFar
    <3>. QED
      BY <1>2, <1>3, <1>4, <3>1
  <2>. QED
    BY <2>1, GenerationIs
<1>6. Follows(a, x, a)
  <2>1. ~ (w + 1 > s)
    BY <1>2, <1>3
  <2>. QED
    BY <1>1, <2>1 DEF Follows
<1>7. Len(x.written) < NumGenerations(Len(a.series))
  BY <1>1, <1>2, <1>4
<1>8. Continues(a, Wrote(x, Recaptured(TermsIn(a), Len(x.written) + 1)))
  BY <1>6, <1>7, Written
<1>. QED
  BY <1>1, <1>5, <1>8

(* The tail is the series behind its sealed generations.                       *)
LEMMA OpenPartIs ==
  ASSUME NEW series \in Seq(Slcs), NEW s \in Nat, s * MinistackSize <= Len(series)
  PROVE  LET m == Len(series) - s * MinistackSize
             part == OpenPart(series, s)
         IN  /\ m \in Nat /\ s * MinistackSize \in Nat /\ s * MinistackSize + m = Len(series)
             /\ IsList(part, m) /\ Len(part) = m
             /\ part = [i \in 1 .. m |-> series[s * MinistackSize + i]]
<1>1. PICK f : f = s * MinistackSize
  OBVIOUS
<1>2. PICK l : l = Len(series)
  OBVIOUS
<1>3. f \in Nat /\ l \in Nat /\ f <= l
  BY <1>1, <1>2, Products, PlannerAssumption
<1>4. IsList(series, l)
  BY <1>2, SequenceIsList
<1>5. f + 1 \in Nat /\ f + 1 >= 1 /\ f + 1 <= l + 1 /\ l + 1 - (f + 1) = l - f /\ l - f \in Nat
  BY <1>3
<1>6. SubSeq(series, f + 1, l) = [i \in 1 .. l + 1 - (f + 1) |-> series[(f + 1) + i - 1]]
  BY <1>3, <1>4, <1>5, PartList
<1>7. PICK m : m = l - f
  OBVIOUS
<1>8. \A i \in 1 .. m : (f + 1) + i - 1 = f + i
  BY <1>3, <1>7
<1>9. PICK part : part = OpenPart(series, s)
  OBVIOUS
<1>10. part = [i \in 1 .. m |-> series[(f + 1) + i - 1]]
  BY <1>1, <1>2, <1>5, <1>6, <1>7, <1>9 DEF OpenPart
<1>11. part = [i \in 1 .. m |-> series[f + i]]
  BY <1>8, <1>10
<1>12. m \in Nat /\ f + m = l
  BY <1>3, <1>5, <1>7
<1>13. IsList(part, m)
  BY <1>11, <1>12 DEF IsList
<1>14. Len(part) = m
  BY <1>13, ListIsSequence
<1>. QED
  BY <1>1, <1>2, <1>3, <1>7, <1>9, <1>11, <1>12, <1>13, <1>14

(* Ministack t of the l acquisitions behind the first f, as ministack w of all.   *)
Alike(t, w, f, l) ==
  /\ t.num_compressed = w.num_compressed /\ t.num_real = w.num_real
  /\ t.output_reference_idx = w.output_reference_idx
  /\ t.compressed_reference_idx = w.compressed_reference_idx
  /\ w.real_start = f + t.real_start
  /\ t.real_start \in Nat /\ t.num_real \in Nat /\ t.real_start + t.num_real <= l

(* A block of the tail is linked from what its block of the series is.            *)
LEMMA AssembledAlike ==
  ASSUME NEW series, NEW tail, NEW carry, NEW m, NEW f \in Nat, NEW l \in Nat,
         NEW t, NEW w, Alike(t, w, f, l),
         \A i \in 1 .. l : tail[i] = series[f + i]
  PROVE  Assemble(carry, tail, t, m) = Assemble(carry, series, w, m)
<1>0. /\ t.num_compressed = w.num_compressed /\ t.num_real = w.num_real
      /\ t.output_reference_idx = w.output_reference_idx
      /\ t.compressed_reference_idx = w.compressed_reference_idx
      /\ w.real_start = f + t.real_start
      /\ t.real_start \in Nat /\ t.num_real \in Nat /\ t.real_start + t.num_real <= l
  BY DEF Alike
<1>1. ASSUME NEW j \in 1 .. t.num_real
      PROVE  tail[t.real_start + j] = series[w.real_start + j]
  <2>1. t.real_start + j \in 1 .. l /\ w.real_start + j = f + (t.real_start + j)
    BY <1>0
  <2>. QED
    BY <2>1
<1>2. [j \in 1 .. t.num_real |-> tail[t.real_start + j]]
        = [j \in 1 .. w.num_real |-> series[w.real_start + j]]
  BY <1>0, <1>1
<1>3. Size(t) = Size(w)
  BY <1>0 DEF Size
<1>4. [j \in 1 .. t.num_compressed |-> carry[Len(carry) - t.num_compressed + j]]
        = [j \in 1 .. w.num_compressed |-> carry[Len(carry) - w.num_compressed + j]]
  BY <1>0
<1>5. /\ ResolveReferenceIndex(t.output_reference_idx, Size(t))
           = ResolveReferenceIndex(w.output_reference_idx, Size(w))
      /\ ResolveReferenceIndex(t.compressed_reference_idx, Size(t))
           = ResolveReferenceIndex(w.compressed_reference_idx, Size(w))
  BY <1>0, <1>3
<1>. QED
  BY <1>2, <1>4, <1>5 DEF Assemble

(* What a call sealed and linked so far, as the start of the capture.             *)
Behind(out, c, s, w) == out = [j \in 1 .. LinkedOf(s, w) |-> Product(c, s + j)]

LEMMA SoFar ==
  ASSUME NEW c, NEW s \in Nat, NEW w \in Nat, s <= w, NEW seed, NEW out,
         Prefix(seed, c, s), Behind(out, c, s, w)
  PROVE  /\ Prefix(seed \o out, c, w)
         /\ IsList(out, w - s) /\ IsList(seed, s) /\ IsList(seed \o out, w)
<1>1. LinkedOf(s, w) = w - s
  BY DEF LinkedOf
<1>2. PICK l : l = w - s
  OBVIOUS
<1>3. l \in Nat /\ s + l = w
  BY <1>2
<1>4. out = [j \in 1 .. l |-> Product(c, s + j)]
  BY <1>1, <1>2 DEF Behind
<1>5. IsList(out, l) /\ IsList(seed, s)
  BY <1>3, <1>4 DEF IsList, Prefix
<1>6. /\ IsList(seed \o out, s + l)
      /\ seed \o out = [k \in 1 .. s + l |-> IF k <= s THEN seed[k] ELSE out[k - s]]
  <2>1. PICK u, v : u = seed /\ v = out
    OBVIOUS
  <2>2. IsList(u, s) /\ IsList(v, l)
    BY <1>5, <2>1
  <2>3. /\ IsList(u \o v, s + l)
        /\ u \o v = [k \in 1 .. s + l |-> IF k <= s THEN u[k] ELSE v[k - s]]
    BY <2>2, ConcatList
  <2>. QED
    BY <2>1, <2>3
<1>7. ASSUME NEW k \in 1 .. s + l
      PROVE  (IF k <= s THEN seed[k] ELSE out[k - s]) = Product(c, k)
  <2>1. CASE k <= s
    <3>1. k \in 1 .. s
      BY <1>3, <2>1
    <3>. QED
      BY <2>1, <3>1 DEF Prefix
  <2>2. CASE ~ (k <= s)
    <3>1. k - s \in 1 .. l /\ s + (k - s) = k
      BY <1>3, <2>2
    <3>2. out[k - s] = Product(c, s + (k - s))
      BY <1>4, <3>1
    <3>. QED
      BY <2>2, <3>1, <3>2
  <2>. QED
    BY <2>1, <2>2
<1>8. seed \o out = [k \in 1 .. s + l |-> Product(c, k)]
  BY <1>6, <1>7
<1>9. Prefix(seed \o out, c, w)
  BY <1>3, <1>8 DEF Prefix
<1>. QED
  BY <1>2, <1>3, <1>5, <1>6, <1>9

(* The plan of the tail, next to that of the series.                          *)
Tailed(a, s, f, m, n) ==
  /\ s \in Nat /\ f \in Nat /\ m \in Nat /\ m >= 1 /\ f + m = Len(a.series)
  /\ IsList(a.tail, m) /\ \A i \in 1 .. m : a.tail[i] = a.series[f + i]
  /\ NumGenerations(m) \in Nat /\ NumGenerations(m) >= 1
  /\ n = s + NumGenerations(m)
  /\ DOMAIN PlanWithOffset(m, s) = 1 .. NumGenerations(m)
  /\ \A i \in 1 .. NumGenerations(m) :
       /\ PlanWithOffset(m, s)[i].block_id = s + i - 1
       /\ Alike(PlanWithOffset(m, s)[i], PlanWithOffset(Len(a.series), 0)[s + i], f, m)

LEMMA TailIs ==
  ASSUME NEW a, NEW c, NEW s, NEW f, NEW m, NEW n, Handed(a, c, s), f = s * MinistackSize,
         m = Len(a.tail), n = NumGenerations(Len(a.series))
  PROVE  Tailed(a, s, f, m, n)
<1>1. /\ Plannable /\ a.series \in Seq(Slcs) /\ s \in Nat
      /\ s * MinistackSize < Len(a.series) /\ a.tail = OpenPart(a.series, s)
  BY DEF Handed
<1>2. PICK l : l = Len(a.series)
  OBVIOUS
<1>3. l \in Nat /\ f < l
  BY <1>1, <1>2
<1>4. PICK series : series = a.series
  OBVIOUS
<1>5. f \in Nat
  BY <1>1, Products, PlannerAssumption
<1>6. s * MinistackSize <= Len(series) /\ series \in Seq(Slcs)
  BY <1>1, <1>2, <1>3, <1>4, <1>5
<1>7. LET d == Len(series) - s * MinistackSize
          part == OpenPart(series, s)
      IN  /\ d \in Nat /\ s * MinistackSize \in Nat /\ s * MinistackSize + d = Len(series)
          /\ IsList(part, d) /\ Len(part) = d
          /\ part = [i \in 1 .. d |-> series[s * MinistackSize + i]]
  BY <1>1, <1>6, OpenPartIs
<1>8. m = l - f /\ IsList(a.tail, m) /\ a.tail = [i \in 1 .. m |-> a.series[f + i]]
  BY <1>1, <1>2, <1>4, <1>7
<1>9. m \in Nat /\ m >= 1 /\ f + m = l
  BY <1>3, <1>5, <1>8
<1>10. \A i \in 1 .. m : a.tail[i] = a.series[f + i]
  BY <1>8
<1>11. /\ NumGenerations(m) \in Nat /\ NumGenerations(m) >= 1
       /\ DOMAIN PlanWithOffset(m, s) = 1 .. NumGenerations(m)
  <2>1. MinistackSize >= 2
    BY <1>1 DEF Plannable
  <2>2. NumGenerations(m) \in Nat /\ BatchIndices(m) = 1 .. NumGenerations(m)
        /\ NumGenerations(m) >= 1
    BY <1>9, <2>1, CountOf
  <2>. QED
    BY <2>2 DEF PlanWithOffset
<1>12. /\ NumGenerations(s * MinistackSize + m) = s + NumGenerations(m)
       /\ \A i \in 1 .. NumGenerations(m) :
            LET t == PlanWithOffset(m, s)[i]
                w == PlanWithOffset(s * MinistackSize + m, 0)[s + i]
            IN  /\ t.block_id = s + i - 1 /\ w.block_id = s + i - 1
                /\ t.num_compressed = w.num_compressed
                /\ t.num_real = w.num_real
                /\ t.output_reference_idx = w.output_reference_idx
                /\ t.compressed_reference_idx = w.compressed_reference_idx
                /\ w.real_start = s * MinistackSize + t.real_start
                /\ t.real_start \in Nat /\ t.num_real \in Nat
                /\ t.real_start + t.num_real <= m
                /\ t.num_compressed \in 0 .. s + i - 1
  BY <1>1, <1>9, TailPlanned
<1>13. s * MinistackSize + m = Len(a.series)
  BY <1>2, <1>9
<1>14. n = s + NumGenerations(m)
  BY <1>12, <1>13
<1>15. \A i \in 1 .. NumGenerations(m) :
         /\ PlanWithOffset(m, s)[i].block_id = s + i - 1
         /\ Alike(PlanWithOffset(m, s)[i], PlanWithOffset(Len(a.series), 0)[s + i], f, m)
  BY <1>12, <1>13 DEF Alike
<1>. QED
  BY <1>1, <1>2, <1>5, <1>8, <1>9, <1>10, <1>11, <1>14, <1>15 DEF Tailed

(* One turn of drive_with_covariance_capture links the block that the capture      *)
(* of the whole series links there.                                         *)
LEMMA LinkStep ==
  ASSUME NEW a, NEW x, Continues(a, x),
         Len(x.written) + 1 \notin DOMAIN a.kept,
         NEW at, at = Len(x.written) + 1 - Cardinality(DOMAIN a.kept),
         NEW plan, plan = PlanWithOffset(Len(a.tail), Len(a.seed)), at \in DOMAIN plan
  PROVE  LET c == TermsIn(a)
             k == Len(x.written) + 1
             ms == plan[at]
             planned == Topology(Len(a.series), a.req)[ms.block_id + 1]
             b == Recaptured(c, k)
         IN  /\ k <= NumGenerations(Len(a.series)) /\ k > Len(a.seed)
             /\ ms.block_id + 1 = k
             /\ planned = [id |-> b.id, start |-> b.start, count |-> b.count,
                           parents |-> b.parents]
             /\ ms.num_real = b.count
             /\ a.req.members[k] = b.member /\ a.req.model = b.model
             /\ LinkAndCompress(Assemble(CompressedOf(a.seed \o a.out), a.tail, ms, a.req.mask))
                  = Product(c, k)
<1>1. PICK c, s, w, n : /\ c = TermsIn(a) /\ s = Len(a.seed)
                        /\ w = Len(x.written) /\ n = NumGenerations(Len(a.series))
  OBVIOUS
<1>2. /\ Handed(a, c, s) /\ LinkedSoFar(a, c, s, w) /\ WrittenSoFar(x, c, s, w, n)
      /\ Plannable /\ n \in Nat /\ s \in Nat /\ w \in Nat /\ w <= n
      /\ a.series \in Seq(Slcs) /\ Len(a.series) \in Nat
      /\ DOMAIN a.kept = 1 .. s /\ Cardinality(DOMAIN a.kept) = s
  BY <1>1, CallIs
<1>3. PICK f, m, l : f = s * MinistackSize /\ m = Len(a.tail) /\ l = Len(a.series)
  OBVIOUS
<1>4. Tailed(a, s, f, m, n)
  BY <1>1, <1>2, <1>3, TailIs
<1>5. /\ at = w + 1 - s /\ at \in 1 .. NumGenerations(m) /\ w >= s
      /\ s + at = w + 1 /\ w + 1 \in 1 .. n /\ s + at - 1 = w
  <2>1. at = w + 1 - s /\ w + 1 \notin 1 .. s /\ at \in 1 .. NumGenerations(m)
    BY <1>1, <1>2, <1>3, <1>4 DEF Tailed
  <2>2. s \in Nat /\ w \in Nat /\ n \in Nat /\ NumGenerations(m) \in Nat
        /\ n = s + NumGenerations(m)
    BY <1>2, <1>4 DEF Tailed
  <2>. QED
    BY <2>1, <2>2
<1>6. PICK t, v : t = PlanWithOffset(m, s)[at] /\ v = PlanWithOffset(l, 0)[w + 1]
  OBVIOUS
<1>7. t.block_id = w /\ Alike(t, v, f, m)
  <2>1. \A i \in 1 .. NumGenerations(m) :
           /\ PlanWithOffset(m, s)[i].block_id = s + i - 1
           /\ Alike(PlanWithOffset(m, s)[i], PlanWithOffset(l, 0)[s + i], f, m)
    BY <1>3, <1>4 DEF Tailed
  <2>. QED
    BY <1>5, <1>6, <2>1
<1>8. plan[at] = t
  BY <1>1, <1>3, <1>6
<1>9. /\ c.series = a.series /\ c.mask = a.req.mask /\ c.config = a.req.config
      /\ c.model = a.req.model /\ c.frame = a.req.frame
  BY <1>1 DEF TermsIn
<1>10. a.req.members = MembersOf(c.series)
  BY <1>2, <1>9 DEF Handed
<1>11. PICK b : b = Recaptured(c, w + 1)
  OBVIOUS
<1>12. /\ b.id = IdOf(c, w + 1) /\ b.member = MembersOf(c.series)[w + 1]
       /\ b.model = c.model /\ b.count = v.num_real
  <2>1. PICK k : k = w + 1
    OBVIOUS
  <2>2. /\ Recaptured(c, k).id = IdOf(c, k)
        /\ Recaptured(c, k).member = MembersOf(c.series)[k]
        /\ Recaptured(c, k).model = c.model
        /\ Recaptured(c, k).count = PlanWithOffset(Len(c.series), 0)[k].num_real
    BY RecapturedIs
  <2>3. v = PlanWithOffset(Len(c.series), 0)[k]
    BY <1>3, <1>6, <1>9, <2>1
  <2>. QED
    BY <1>11, <2>1, <2>2, <2>3
<1>13. Topology(l, a.req)[w + 1] =
         [id |-> b.id, start |-> b.start, count |-> b.count, parents |-> b.parents]
  <2>1. Len(c.series) \in Nat /\ w + 1 \in 1 .. NumGenerations(Len(c.series))
    BY <1>1, <1>2, <1>5, <1>9
  <2>2. PICK req, k : req = a.req /\ k = w + 1
    OBVIOUS
  <2>3. /\ Plannable /\ Len(c.series) \in Nat /\ k \in 1 .. NumGenerations(Len(c.series))
        /\ req.members = MembersOf(c.series) /\ req.model = c.model /\ req.frame = c.frame
        /\ req.config = c.config
    BY <1>2, <1>9, <1>10, <2>1, <2>2
  <2>4. Topology(Len(c.series), req)[k] =
          [id |-> IdOf(c, k), start |-> Recaptured(c, k).start,
           count |-> Recaptured(c, k).count, parents |-> Recaptured(c, k).parents]
    BY <2>3, PlannedIsBegun
  <2>. QED
    BY <1>3, <1>9, <1>11, <1>12, <2>2, <2>4
<1>14. PICK B : B = BatchBlocks(c.series, c.mask)
  OBVIOUS
<1>15. CompressedOf(a.seed \o a.out) = Before(B, w + 1)
  <2>1. Prefix(a.seed, c, s) /\ Behind(a.out, c, s, w)
    BY <1>2 DEF Handed, LinkedSoFar, Prefix, Behind
  <2>2. s \in Nat /\ w \in Nat /\ s <= w
    BY <1>2, <1>5
  <2>3. PICK carried : carried = a.seed \o a.out
    OBVIOUS
  <2>4. Prefix(carried, c, w) /\ IsList(carried, w)
    BY <2>1, <2>2, <2>3, SoFar
  <2>5. Len(carried) = w
    BY <2>4, ListIsSequence
  <2>6. \A k \in 1 .. w : carried[k] = B[k]
    BY <1>14, <2>4 DEF Product, Prefix
  <2>7. (w + 1) - 1 = w
    BY <2>2
  <2>. QED
    BY <2>3, <2>5, <2>6, <2>7 DEF CompressedOf, Before
<1>16. B[w + 1] = LinkAndCompress(Assemble(Before(B, w + 1), a.series, v, a.req.mask))
  <2>1. Links(a.series, a.req.mask, B, n)
    BY <1>1, <1>2, <1>9, <1>14, BatchLinks
  <2>2. B[w + 1] = LinkedAt(a.series, a.req.mask, B, w + 1)
    BY <1>5, <2>1 DEF Links
  <2>. QED
    BY <1>3, <1>6, <2>2 DEF LinkedAt
<1>17. \A carry : Assemble(carry, a.tail, t, a.req.mask) = Assemble(carry, a.series, v, a.req.mask)
  <2>1. SUFFICES ASSUME NEW carry
        PROVE  Assemble(carry, a.tail, t, a.req.mask) = Assemble(carry, a.series, v, a.req.mask)
    OBVIOUS
  <2>2. PICK tail, series, mask : tail = a.tail /\ series = a.series /\ mask = a.req.mask
    OBVIOUS
  <2>3. f \in Nat /\ m \in Nat /\ \A i \in 1 .. m : tail[i] = series[f + i]
    BY <1>4, <2>2 DEF Tailed
  <2>4. Assemble(carry, tail, t, mask) = Assemble(carry, series, v, mask)
    BY <1>7, <2>3, AssembledAlike
  <2>. QED
    BY <2>2, <2>4
<1>18. LinkAndCompress(Assemble(CompressedOf(a.seed \o a.out), a.tail, t, a.req.mask))
         = Product(c, w + 1)
  BY <1>14, <1>15, <1>16, <1>17 DEF Product
<1>19. t.block_id + 1 = w + 1 /\ w + 1 <= n /\ w + 1 > s
  BY <1>2, <1>5, <1>7
<1>20. a.req.members[w + 1] = b.member /\ a.req.model = b.model /\ t.num_real = b.count
  BY <1>7, <1>9, <1>10, <1>12 DEF Alike
<1>. QED
  BY <1>1, <1>3, <1>8, <1>11, <1>13, <1>18, <1>19, <1>20

-------------------------------------------------------------------------------
(***************************************************************************)
(* Returning                                                               *)
(***************************************************************************)

Unsealed(c, k) == Stage(c, k, Recaptured(c, k), FALSE)

PartlySealed(registry, c, s, n) ==
  registry = [k \in 1 .. n |-> IF k <= s THEN Generation(c, k) ELSE Unsealed(c, k)]

(* The capture a call is part of, and how far it is.                           *)
Counts(a, x, c, s, w, n) ==
  /\ c = TermsIn(a) /\ s = Len(a.seed) /\ w = Len(x.written)
  /\ n = NumGenerations(Len(a.series))

LEMMA AllLinkedIs ==
  ASSUME Continues(call, writer), AllLinked,
         NEW c, NEW s, NEW w, NEW n, Counts(call, writer, c, s, w, n)
  PROVE  /\ w = n /\ n \in Nat /\ s \in Nat /\ s < n
         /\ Prefix(call.seed, c, s) /\ Behind(call.out, c, s, n)
         /\ c.tolerance = call.req.tolerance
         /\ DOMAIN call.kept = 1 .. s
         /\ call.kept = [k \in 1 .. s |-> Generation(c, k)]
         /\ Registered(writer)
         /\ writer.written = [k \in 1 .. n |-> Recaptured(c, k)]
         /\ PartlySealed(writer.registry, c, s, n)
<1>1. /\ Handed(call, c, s) /\ LinkedSoFar(call, c, s, w) /\ WrittenSoFar(writer, c, s, w, n)
      /\ Plannable /\ n \in Nat /\ s \in Nat /\ w \in Nat /\ w <= n
      /\ DOMAIN call.kept = 1 .. s /\ Cardinality(DOMAIN call.kept) = s
  BY CallIs DEF Counts
<1>2. PICK f, m : f = s * MinistackSize /\ m = Len(call.tail)
  OBVIOUS
<1>3. Tailed(call, s, f, m, n)
  BY <1>1, <1>2, TailIs DEF Counts
<1>4. /\ w + 1 \notin 1 .. s
      /\ w + 1 - s \notin 1 .. NumGenerations(m)
      /\ NumGenerations(m) \in Nat /\ NumGenerations(m) >= 1 /\ n = s + NumGenerations(m)
  <2>1. /\ NumGenerations(m) \in Nat /\ NumGenerations(m) >= 1 /\ n = s + NumGenerations(m)
        /\ DOMAIN PlanWithOffset(m, s) = 1 .. NumGenerations(m)
    BY <1>3 DEF Tailed
  <2>2. TailPlan = PlanWithOffset(m, s)
    BY <1>2 DEF TailPlan, Counts
  <2>3. NextBlock = w + 1
    BY DEF NextBlock, Counts
  <2>4. Linked = w + 1 - s
    BY <1>1, <2>3 DEF Linked
  <2>5. NextBlock \notin DOMAIN call.kept /\ Linked \notin DOMAIN TailPlan
    BY DEF AllLinked, Copying
  <2>6. w + 1 \notin 1 .. s /\ w + 1 - s \notin 1 .. NumGenerations(m)
    <3>1. w + 1 \notin 1 .. s
      BY <1>1, <2>3, <2>5
    <3>2. w + 1 - s \notin DOMAIN PlanWithOffset(m, s)
      BY <2>2, <2>4, <2>5
    <3>. QED
      BY <2>1, <3>1, <3>2
  <2>. QED
    BY <2>1, <2>6
<1>5. w = n /\ s < n
  <2>1. s \in Nat /\ w \in Nat /\ w <= n
    BY <1>1
  <2>. QED
    BY <1>4, <2>1
<1>6. /\ Prefix(call.seed, c, s)
      /\ call.kept = [k \in 1 .. s |-> Generation(c, k)]
  BY <1>1 DEF Handed, Prefix
<1>7. /\ Behind(call.out, c, s, n)
      /\ c.tolerance = call.req.tolerance
  <2>1. /\ call.out = [j \in 1 .. LinkedOf(s, w) |-> Product(c, s + j)]
        /\ w > s => c.tolerance = call.req.tolerance
    BY <1>1 DEF LinkedSoFar
  <2>2. w > s
    BY <1>1, <1>5
  <2>. QED
    BY <1>5, <2>1, <2>2 DEF Behind
<1>8. /\ Registered(writer)
      /\ writer.written = [k \in 1 .. w |-> Recaptured(c, k)]
      /\ writer.registry =
           [k \in 1 .. n |-> IF k <= s THEN Generation(c, k) ELSE Begun(c, k, k <= w)]
  BY <1>1 DEF WrittenSoFar
<1>9. \A k \in 1 .. n : Begun(c, k, k <= w) = Unsealed(c, k)
  <2>1. SUFFICES ASSUME NEW k \in 1 .. n PROVE Begun(c, k, k <= w) = Unsealed(c, k)
    OBVIOUS
  <2>2. k <= w
    BY <1>1, <1>5
  <2>. QED
    BY <2>2 DEF Begun, Unsealed
<1>10. PartlySealed(writer.registry, c, s, n)
  BY <1>8, <1>9 DEF PartlySealed
<1>11. writer.written = [k \in 1 .. n |-> Recaptured(c, k)]
  BY <1>5, <1>8
<1>12. n \in Nat /\ s \in Nat /\ DOMAIN call.kept = 1 .. s
  BY <1>1
<1>13. Registered(writer)
  BY <1>8
<1>. QED
  BY <1>5, <1>6, <1>7, <1>10, <1>11, <1>12, <1>13

(* build_covariance_generation_registry builds the generations of the capture.      *)
LEMMA BuiltIs ==
  ASSUME Continues(call, writer), AllLinked,
         NEW c, NEW s, NEW w, NEW n, Counts(call, writer, c, s, w, n)
  PROVE  BuiltRegistry = [k \in 1 .. n |-> Generation(c, k)]
<1>2. /\ n \in Nat /\ s \in Nat
      /\ DOMAIN call.kept = 1 .. s
      /\ call.kept = [k \in 1 .. s |-> Generation(c, k)]
      /\ writer.written = [k \in 1 .. n |-> Recaptured(c, k)]
  BY AllLinkedIs
<1>3. /\ c.series = call.series /\ c.mask = call.req.mask /\ c.config = call.req.config
      /\ c.model = call.req.model /\ c.frame = call.req.frame
  BY DEF TermsIn, Counts
<1>4. Handed(call, c, s) /\ Plannable /\ Len(call.series) \in Nat
  BY CallIs DEF Counts
<1>5. call.req.members = MembersOf(c.series)
  BY <1>3, <1>4 DEF Handed
<1>6. ASSUME NEW k \in 1 .. n
      PROVE  LET planned == Provisional(Len(call.series), call.req.mask, call.req)[k]
             IN  [planned EXCEPT
                    !.digest = IF k \in DOMAIN call.kept THEN call.kept[k].digest
                               ELSE writer.written[k],
                    !.sealed = IsSealed(planned.count)] = Generation(c, k)
  <2>1. PICK req, mask, l : req = call.req /\ mask = call.req.mask /\ l = Len(call.series)
    OBVIOUS
  <2>2. /\ Plannable /\ Len(c.series) \in Nat /\ k \in 1 .. NumGenerations(Len(c.series))
        /\ req.members = MembersOf(c.series) /\ req.model = c.model /\ req.frame = c.frame
        /\ req.config = c.config
    BY <1>3, <1>4, <1>5, <2>1 DEF Counts
  <2>3. Provisional(Len(c.series), c.mask, req)[k] = Begun(c, k, FALSE)
    BY <2>2, PlannedIsBegun
  <2>4. PICK planned : planned = Provisional(l, mask, req)[k]
    OBVIOUS
  <2>5. planned = Stage(c, k, Unwritten, FALSE)
    BY <1>3, <2>1, <2>3, <2>4 DEF Begun
  <2>6. planned.count = Recaptured(c, k).count
    <3>1. \A d : Stage(c, k, Unwritten, d).count = Recaptured(c, k).count
      BY StageIs
    <3>. QED
      BY <2>5, <3>1
  <2>7. (IF k \in DOMAIN call.kept THEN call.kept[k].digest ELSE writer.written[k])
          = Recaptured(c, k)
    <3>1. CASE k \in 1 .. s
      <4>1. call.kept[k] = Generation(c, k)
        BY <1>2, <3>1
      <4>2. Generation(c, k).digest = Recaptured(c, k)
        BY GenerationIs
      <4>. QED
        BY <1>2, <3>1, <4>1, <4>2
    <3>2. CASE k \notin 1 .. s
      BY <1>2, <3>2
    <3>. QED
      BY <3>1, <3>2
  <2>8. PICK x, y, z : x = Recaptured(c, k) /\ y = IsSealed(planned.count)
                       /\ z = [planned EXCEPT !.digest = x, !.sealed = y]
    OBVIOUS
  <2>9. z = Stage(c, k, x, y)
    <3>1. \A u, v : WithBoth(Stage(c, k, Unwritten, u), x, v) = Stage(c, k, x, v)
      BY StageChanges
    <3>2. WithBoth(planned, x, y) = Stage(c, k, x, y)
      BY <2>5, <3>1
    <3>. QED
      BY <2>8, <3>2 DEF WithBoth
  <2>10. Stage(c, k, x, y) = Generation(c, k)
    BY <2>6, <2>8 DEF Generation
  <2>. QED
    BY <2>1, <2>4, <2>7, <2>8, <2>9, <2>10
<1>. QED
  BY <1>6 DEF BuiltRegistry, Counts

(* seal_writer_generations finds the writer's registry where the state's is.      *)
LEMMA SealedByIs ==
  ASSUME Continues(call, writer), AllLinked, NEW state,
         NEW c, NEW s, NEW w, NEW n, Counts(call, writer, c, s, w, n),
         Generations(state.registry, c, n)
  PROVE  Generations(SealedBy(state), c, n)
<1>1. /\ n \in Nat /\ s \in Nat
      /\ writer.registry =
           [k \in 1 .. n |-> IF k <= s THEN Generation(c, k) ELSE Unsealed(c, k)]
  <2>1. n \in Nat /\ s \in Nat /\ PartlySealed(writer.registry, c, s, n)
    BY AllLinkedIs
  <2>. QED
    BY <2>1 DEF PartlySealed
<1>2. ASSUME NEW k \in 1 .. n
      PROVE  [writer.registry[k] EXCEPT
                !.sealed = writer.registry[k].sealed \/ state.registry[k].sealed]
               = Generation(c, k)
  <2>1. PICK b, q : b = Recaptured(c, k) /\ q = IsSealed(b.count)
    OBVIOUS
  <2>2. q \in BOOLEAN
    BY <2>1 DEF IsSealed
  <2>3. PICK g : g = writer.registry[k]
    OBVIOUS
  <2>4. Generation(c, k) = Stage(c, k, b, q)
    BY <2>1 DEF Generation
  <2>5. state.registry[k].sealed = q
    <3>1. state.registry[k] = Stage(c, k, b, q)
      BY <2>4 DEF Generations
    <3>2. \A d : Stage(c, k, b, d).sealed = d
      BY StageIs
    <3>. QED
      BY <3>1, <3>2
  <2>6. \E p \in BOOLEAN : g = Stage(c, k, b, p) /\ (p => q)
    <3>1. CASE k <= s
      BY <1>1, <2>2, <2>3, <2>4, <3>1
    <3>2. CASE ~ (k <= s)
      <4>1. g = Stage(c, k, b, FALSE)
        BY <1>1, <2>1, <2>3, <3>2 DEF Unsealed
      <4>. QED
        BY <4>1
    <3>. QED
      BY <3>1, <3>2
  <2>7. PICK p \in BOOLEAN : g = Stage(c, k, b, p) /\ (p => q)
    BY <2>6
  <2>8. g.sealed = p
    <3>1. \A d : Stage(c, k, b, d).sealed = d
      BY StageIs
    <3>. QED
      BY <2>7, <3>1
  <2>9. (g.sealed \/ state.registry[k].sealed) = q
    BY <2>2, <2>5, <2>7, <2>8
  <2>10. WithSeal(g, q) = Stage(c, k, b, q)
    <3>1. \A d, e : WithSeal(Stage(c, k, b, d), e) = Stage(c, k, b, e)
      BY StageChanges
    <3>. QED
      BY <2>7, <3>1
  <2>11. [g EXCEPT !.sealed = q] = Stage(c, k, b, q)
    BY <2>10 DEF WithSeal
  <2>. QED
    BY <2>3, <2>4, <2>9, <2>11
<1>3. DOMAIN writer.registry = 1 .. n
  BY <1>1
<1>. QED
  BY <1>2, <1>3 DEF SealedBy, Generations

(* Which generations of a series are full, from its last ministack.               *)
LEMMA LastIs ==
  ASSUME Plannable, NEW l \in Nat, l >= 1, NEW n, n = NumGenerations(l),
         NEW last, last = PlanWithOffset(l, 0)[n]
  PROVE  /\ n \in Nat /\ n >= 1
         /\ last.num_real < MinistackSize =>
              /\ FullIn(n - 1, l) /\ last.real_start = (n - 1) * MinistackSize
              /\ (n - 1) * MinistackSize + last.num_real = l
         /\ ~ (last.num_real < MinistackSize) => FullIn(n, l) /\ n * MinistackSize = l
<1>. DEFINE M == MinistackSize
<1>1. M \in Nat /\ M >= 2 /\ MinistackSize >= 2
  BY PlannerAssumption DEF Plannable
<1>2. n \in Nat /\ n >= 1 /\ l <= n * M /\ (n - 1) * M < l
  BY <1>1, CountOf
<1>3. PICK f, g, h : f = (n - 1) * M /\ g = n * M /\ h = (n + 1) * M
  OBVIOUS
<1>4. f \in Nat /\ g \in Nat /\ f + M = g /\ g + M = h /\ f < l /\ l <= g
  <2>1. f \in Nat /\ f + M = g
    BY <1>1, <1>2, <1>3, Products
  <2>2. (n + 1) * M = n * M + 1 * M
    BY <1>1, <1>2, Products
  <2>3. 1 * M = M
    BY <1>1
  <2>4. g \in Nat
    BY <1>1, <1>2, <1>3, Products
  <2>. QED
    BY <1>1, <1>2, <1>3, <2>1, <2>2, <2>3, <2>4
<1>5. last.real_start = f /\ last.num_real = Smaller(M, l - f)
  <2>1. n \in 1 .. NumGenerations(l) /\ 0 \in Nat
    BY <1>2
  <2>2. last = [block_id |-> 0 + n - 1, num_compressed |-> Smaller(0 + n - 1, MaxNumCompressed),
                real_start |-> (n - 1) * MinistackSize,
                num_real |-> Smaller(MinistackSize, l - (n - 1) * MinistackSize),
                output_reference_idx |-> 0, compressed_reference_idx |-> 0]
    BY <2>1, BlockIs
  <2>3. last.real_start = (n - 1) * MinistackSize
        /\ last.num_real = Smaller(MinistackSize, l - (n - 1) * MinistackSize)
    BY <2>2
  <2>. QED
    BY <1>3, <2>3
<1>6. (n - 1) + 1 = n /\ n - 1 \in Nat
  BY <1>2
<1>7. CASE l - f < M
  <2>1. last.num_real = l - f /\ last.num_real < M
    <3>1. Smaller(M, l - f) = l - f
      BY <1>1, <1>4, <1>7 DEF Smaller
    <3>. QED
      BY <1>5, <1>7, <3>1
  <2>2. f <= l /\ l < g /\ f + (l - f) = l
    BY <1>1, <1>4, <1>7
  <2>3. FullIn(n - 1, l)
    BY <1>3, <1>6, <2>2 DEF FullIn
  <2>. QED
    BY <1>2, <1>3, <1>5, <2>1, <2>2, <2>3
<1>8. CASE ~ (l - f < M)
  <2>1. last.num_real = M /\ ~ (M < M)
    <3>1. Smaller(M, l - f) = M
      BY <1>1, <1>4, <1>8 DEF Smaller
    <3>. QED
      BY <1>1, <1>5, <3>1
  <2>2. l = g /\ g <= l /\ l < h
    BY <1>1, <1>4, <1>8
  <2>3. FullIn(n, l)
    BY <1>2, <1>3, <2>2 DEF FullIn
  <2>. QED
    BY <1>2, <1>3, <2>1, <2>2, <2>3
<1>. QED
  BY <1>7, <1>8

(* The open acquisitions, cut from the tail.                                   *)
(* The last count acquisitions of a tail that starts behind the first f.           *)
Cut(series, z, tail, f, m, start, count) ==
  /\ series \in Seq(Slcs) /\ {z, f, start, count} \subseteq Nat
  /\ IsList(tail, m) /\ \A i \in 1 .. m : tail[i] = series[f + i]
  /\ start + count <= m /\ f + start = z * MinistackSize
  /\ z * MinistackSize + count = Len(series)

LEMMA OpenCut ==
  ASSUME NEW series, NEW z, NEW tail, NEW f, NEW m, NEW start, NEW count,
         Cut(series, z, tail, f, m, start, count)
  PROVE  SubSeq(tail, start + 1, start + count) = OpenPart(series, z)
<1>1. PICK g, l : g = z * MinistackSize /\ l = Len(series)
  OBVIOUS
<1>. /\ series \in Seq(Slcs) /\ z \in Nat /\ f \in Nat /\ start \in Nat /\ count \in Nat
     /\ IsList(tail, m) /\ \A i \in 1 .. m : tail[i] = series[f + i]
     /\ start + count <= m /\ f + start = g /\ g + count = l
  BY <1>1 DEF Cut
<1>2. /\ m \in Nat /\ g \in Nat /\ l \in Nat /\ f + start = g /\ g + count = l
  BY <1>1 DEF IsList
<1>3. PICK x, y : x = start + 1 /\ y = start + count
  OBVIOUS
<1>4. x \in Nat /\ y \in Nat /\ x >= 1 /\ y <= m /\ x <= y + 1 /\ y + 1 - x = count
  BY <1>2, <1>3
<1>5. SubSeq(tail, x, y) = [k \in 1 .. y + 1 - x |-> tail[x + k - 1]]
  BY <1>4, PartList
<1>6. ASSUME NEW k \in 1 .. count
      PROVE  tail[x + k - 1] = series[g + k]
  <2>1. x + k - 1 \in 1 .. m /\ f + (x + k - 1) = g + k
    BY <1>2, <1>3
  <2>. QED
    BY <2>1
<1>7. SubSeq(tail, x, y) = [k \in 1 .. count |-> series[g + k]]
  BY <1>4, <1>5, <1>6
<1>8. z * MinistackSize <= Len(series)
  BY <1>1, <1>2
<1>9. OpenPart(series, z) =
        [i \in 1 .. Len(series) - z * MinistackSize |-> series[z * MinistackSize + i]]
  BY <1>8, OpenPartIs
<1>10. l - g = count
  BY <1>2
<1>. QED
  BY <1>1, <1>3, <1>7, <1>9, <1>10

(* All but the last of the blocks a call linked.                               *)
LEMMA FrontIs ==
  ASSUME NEW c, NEW s \in Nat, NEW n \in Nat, s < n, NEW out, Behind(out, c, s, n)
  PROVE  Behind(Front(out), c, s, n - 1) /\ Len(out) = n - s
<1>1. PICK l : l = n - s
  OBVIOUS
<1>2. l \in Nat /\ l >= 1 /\ LinkedOf(s, n) = l /\ LinkedOf(s, n - 1) = l - 1
  BY <1>1 DEF LinkedOf
<1>3. PICK v : v = [j \in 1 .. l |-> Product(c, s + j)]
  OBVIOUS
<1>4. IsList(v, l)
  BY <1>2, <1>3 DEF IsList
<1>5. Len(v) = l
  BY <1>4, ListIsSequence
<1>6. 1 \in Nat /\ l - 1 \in Nat /\ l - 1 <= l /\ 1 <= (l - 1) + 1 /\ (l - 1) + 1 - 1 = l - 1
  BY <1>2
<1>7. PICK b : b = l - 1
  OBVIOUS
<1>8. SubSeq(v, 1, b) = [k \in 1 .. b + 1 - 1 |-> v[1 + k - 1]]
  <2>1. b \in Nat /\ 1 \in Nat /\ 1 >= 1 /\ b <= l /\ 1 <= b + 1
    BY <1>6, <1>7
  <2>2. PICK a : a = 1
    OBVIOUS
  <2>3. SubSeq(v, a, b) = [k \in 1 .. b + 1 - a |-> v[a + k - 1]]
    BY <1>4, <2>1, <2>2, PartList
  <2>. QED
    BY <2>2, <2>3
<1>9. \A k \in 1 .. b : 1 + k - 1 = k /\ k \in 1 .. l
  BY <1>2, <1>7
<1>10. SubSeq(v, 1, b) = [k \in 1 .. b |-> Product(c, s + k)]
  BY <1>3, <1>6, <1>7, <1>8, <1>9
<1>11. Front(v) = SubSeq(v, 1, b)
  BY <1>5, <1>7 DEF Front
<1>12. out = v
  BY <1>2, <1>3 DEF Behind
<1>13. Front(v) = [k \in 1 .. LinkedOf(s, n - 1) |-> Product(c, s + k)]
  BY <1>2, <1>7, <1>10, <1>11
<1>. QED
  BY <1>1, <1>5, <1>12, <1>13 DEF Behind

(* seal_state leaves the full generations, and the acquisitions behind them.       *)
LEMMA StateIs ==
  ASSUME Continues(call, writer), AllLinked,
         NEW c, NEW s, NEW w, NEW n, Counts(call, writer, c, s, w, n)
  PROVE  /\ \E z : /\ FullIn(z, Len(call.series))
                   /\ Prefix(StateAfter.sealed, c, z)
                   /\ StateAfter.open = OpenPart(call.series, z)
         /\ Prefix(call.seed \o call.out, c, n)
<1>1. /\ n \in Nat /\ s \in Nat /\ s < n
      /\ Prefix(call.seed, c, s) /\ Behind(call.out, c, s, n)
  BY AllLinkedIs
<1>2. Handed(call, c, s) /\ Plannable /\ call.series \in Seq(Slcs)
  BY CallIs DEF Counts
<1>3. PICK f, m, l : f = s * MinistackSize /\ m = Len(call.tail) /\ l = Len(call.series)
  OBVIOUS
<1>4. Tailed(call, s, f, m, n)
  BY <1>2, <1>3, TailIs DEF Counts
<1>5. /\ f \in Nat /\ m \in Nat /\ m >= 1 /\ f + m = l /\ l \in Nat /\ l >= 1
      /\ IsList(call.tail, m) /\ \A i \in 1 .. m : call.tail[i] = call.series[f + i]
      /\ n = s + NumGenerations(m) /\ NumGenerations(m) \in Nat /\ NumGenerations(m) >= 1
  BY <1>3, <1>4 DEF Tailed
<1>6. PICK at : at = NumGenerations(m)
  OBVIOUS
<1>7. at \in 1 .. NumGenerations(m) /\ s + at = n
  BY <1>5, <1>6
<1>8. PICK out : out = call.out
  OBVIOUS
<1>9. Behind(out, c, s, n)
  BY <1>1, <1>8
<1>10. Behind(Front(out), c, s, n - 1) /\ Len(out) = n - s
  BY <1>1, <1>9, FrontIs
<1>11. PICK t, v : t = PlanWithOffset(m, s)[at] /\ v = PlanWithOffset(l, 0)[n]
  OBVIOUS
<1>12. Alike(t, v, f, m)
  <2>1. \A i \in 1 .. NumGenerations(m) :
          Alike(PlanWithOffset(m, s)[i], PlanWithOffset(l, 0)[s + i], f, m)
    BY <1>3, <1>4 DEF Tailed
  <2>. QED
    BY <1>7, <1>11, <2>1
<1>13. TailPlan[Len(call.out)] = t
  <2>1. Len(out) = at
    BY <1>1, <1>5, <1>6, <1>10
  <2>2. TailPlan = PlanWithOffset(m, s)
    BY <1>3 DEF TailPlan, Counts
  <2>. QED
    BY <1>8, <1>11, <2>1, <2>2
<1>14. /\ v.num_real < MinistackSize =>
            /\ FullIn(n - 1, l) /\ v.real_start = (n - 1) * MinistackSize
            /\ (n - 1) * MinistackSize + v.num_real = l
       /\ ~ (v.num_real < MinistackSize) => FullIn(n, l) /\ n * MinistackSize = l
  <2>1. n = NumGenerations(l)
    BY <1>3 DEF Counts
  <2>. QED
    BY <1>2, <1>5, <1>11, <2>1, LastIs
<1>15. LastIsOpen <=> v.num_real < MinistackSize
  BY <1>12, <1>13 DEF LastIsOpen, Alike
<1>16. /\ StateAfter.sealed = call.seed \o (IF LastIsOpen THEN Front(out) ELSE out)
       /\ StateAfter.open = IF LastIsOpen
                            THEN SubSeq(call.tail, t.real_start + 1, t.real_start + t.num_real)
                            ELSE << >>
  BY <1>8, <1>13 DEF StateAfter, OpenRealSlcs
<1>17. PICK seed, series, tail : seed = call.seed /\ series = call.series /\ tail = call.tail
  OBVIOUS
<1>18. Prefix(seed \o out, c, n)
  <2>1. s <= n /\ Prefix(seed, c, s)
    BY <1>1, <1>17
  <2>. QED
    BY <1>1, <1>9, <2>1, SoFar
<1>19. CASE LastIsOpen
  <2>1. PICK z : z = n - 1
    OBVIOUS
  <2>2. z \in Nat /\ s <= z
    BY <1>1, <2>1
  <2>3. FullIn(z, l) /\ v.real_start = z * MinistackSize /\ z * MinistackSize + v.num_real = l
    BY <1>14, <1>15, <1>19, <2>1
  <2>4. PICK front : front = Front(out)
    OBVIOUS
  <2>5. Behind(front, c, s, z) /\ Prefix(seed, c, s)
    BY <1>1, <1>10, <1>17, <2>1, <2>4
  <2>6. Prefix(seed \o front, c, z)
    BY <1>1, <2>2, <2>5, SoFar
  <2>7. PICK start, count : start = t.real_start /\ count = t.num_real
    OBVIOUS
  <2>8. /\ start \in Nat /\ count \in Nat /\ start + count <= m
        /\ f + start = z * MinistackSize /\ z * MinistackSize + count = l
    BY <1>12, <2>3, <2>7 DEF Alike
  <2>9. SubSeq(tail, start + 1, start + count) = OpenPart(series, z)
    <3>1. series \in Seq(Slcs) /\ IsList(tail, m) /\ l = Len(series)
          /\ \A i \in 1 .. m : tail[i] = series[f + i]
      BY <1>2, <1>3, <1>5, <1>17
    <3>2. {z, f, start, count} \subseteq Nat
      BY <1>5, <2>2, <2>8
    <3>3. Cut(series, z, tail, f, m, start, count)
      BY <2>8, <3>1, <3>2 DEF Cut
    <3>. QED
      BY <3>3, OpenCut
  <2>. QED
    BY <1>3, <1>8, <1>16, <1>17, <1>18, <1>19, <2>3, <2>4, <2>6, <2>7, <2>9
<1>20. CASE ~ LastIsOpen
  <2>1. FullIn(n, l) /\ n * MinistackSize = l
    BY <1>14, <1>15, <1>20
  <2>2. OpenPart(series, n) = << >>
    <3>1. n * MinistackSize <= Len(series) /\ Len(series) - n * MinistackSize = 0
      BY <1>3, <1>5, <1>17, <2>1
    <3>2. OpenPart(series, n) =
            [i \in 1 .. Len(series) - n * MinistackSize |-> series[n * MinistackSize + i]]
      BY <1>1, <1>2, <1>17, <3>1, OpenPartIs
    <3>3. 1 .. 0 = {}
      OBVIOUS
    <3>. QED
      BY <3>1, <3>2, <3>3
  <2>. QED
    BY <1>3, <1>8, <1>16, <1>17, <1>18, <1>20, <2>1, <2>2
<1>. QED
  BY <1>19, <1>20

(* The terms of a revision can be read off it.                                  *)
LEMMA TermsAre ==
  ASSUME NEW r, NEW c, NEW n \in Nat, n >= 1, Generations(r.state.registry, c, n),
         c = [series |-> r.series, mask |-> r.state.mask, config |-> r.state.config,
              model |-> r.state.model, frame |-> c.frame, tolerance |-> c.tolerance]
  PROVE  TermsOf(r) = c
<1>1. PICK g : g = r.state.registry[1]
  OBVIOUS
<1>2. g = Generation(c, 1)
  <2>1. 1 \in 1 .. n
    OBVIOUS
  <2>. QED
    BY <1>1, <2>1 DEF Generations
<1>3. PICK b : b = Recaptured(c, 1)
  OBVIOUS
<1>4. g.id = b.id /\ g.digest = b
  BY <1>2, <1>3, GenerationIs
<1>5. b.id = IdOf(c, 1) /\ b.tolerance = c.tolerance
  BY <1>3, RecapturedIs
<1>6. IdOf(c, 1)[4] = c.frame
  BY DEF IdOf
<1>7. r.state.registry[1].id[4] = c.frame /\ r.state.registry[1].digest.tolerance = c.tolerance
  BY <1>1, <1>4, <1>5, <1>6
<1>8. TermsOf(r) =
        [series |-> r.series, mask |-> r.state.mask, config |-> r.state.config,
         model |-> r.state.model, frame |-> c.frame, tolerance |-> c.tolerance]
  BY <1>7 DEF TermsOf
<1>. QED
  BY <1>8

(* Every call that linked all blocks returns a recapture.                       *)
LEMMA ReturnedIs ==
  ASSUME Continues(call, writer), AllLinked,
         NEW r, r = [series |-> call.series, state |-> StateAfter, file |-> None,
                     output |-> BuildOutput(call.seed \o call.out, call.req.mask)]
  PROVE  Revised(r)
<1>1. PICK c, s, w, n : Counts(call, writer, c, s, w, n)
  BY DEF Counts
<1>2. /\ Handed(call, c, s) /\ Plannable /\ call.series \in Seq(Slcs)
      /\ n \in Nat /\ s \in Nat /\ s < n
  BY <1>1, CallIs, AllLinkedIs DEF Counts
<1>3. PICK state : state = StateAfter
  OBVIOUS
<1>4. r.series = call.series /\ r.state = state /\ r.file = None
      /\ r.output = BuildOutput(call.seed \o call.out, call.req.mask)
      /\ IsRevision(r)
  BY <1>3 DEF IsRevision
<1>5. /\ state.mask = call.req.mask /\ state.config = call.req.config
      /\ state.model = call.req.model /\ state.manifest = call.req.manifest
      /\ state.registry = BuiltRegistry
      /\ state.sealed = StateAfter.sealed /\ state.open = StateAfter.open
  BY <1>3 DEF StateAfter
<1>6. Generations(state.registry, c, n)
  BY <1>1, <1>5, BuiltIs DEF Generations
<1>7. /\ c.series = call.series /\ c.mask = call.req.mask
      /\ c = [series |-> call.series, mask |-> call.req.mask, config |-> call.req.config,
              model |-> call.req.model, frame |-> c.frame, tolerance |-> c.tolerance]
  BY <1>1 DEF Counts, TermsIn
<1>8. TermsOf(r) = c
  <2>1. n >= 1 /\ Generations(r.state.registry, c, n)
    BY <1>2, <1>4, <1>6
  <2>2. c = [series |-> r.series, mask |-> r.state.mask, config |-> r.state.config,
             model |-> r.state.model, frame |-> c.frame, tolerance |-> c.tolerance]
    BY <1>4, <1>5, <1>7
  <2>. QED
    BY <1>2, <2>1, <2>2, TermsAre
<1>9. PICK z : /\ FullIn(z, Len(call.series)) /\ Prefix(state.sealed, c, z)
               /\ state.open = OpenPart(call.series, z)
  BY <1>1, <1>5, StateIs
<1>10. Len(state.sealed) = z
  <2>1. PICK v : v = state.sealed
    OBVIOUS
  <2>2. z \in Nat /\ v = [k \in 1 .. z |-> Product(c, k)]
    BY <1>9, <2>1 DEF FullIn, Prefix
  <2>3. IsList(v, z)
    BY <2>2 DEF IsList
  <2>. QED
    BY <2>1, <2>3, ListIsSequence
<1>11. NumGenerations(Len(r.series)) = n
  BY <1>1, <1>4 DEF Counts
<1>12. r.output = RunSequential(call.series, call.req.mask)
  <2>1. PICK whole : whole = BatchBlocks(call.series, call.req.mask)
    OBVIOUS
  <2>2. IsList(whole, n)
    <3>1. Links(call.series, call.req.mask, whole, NumGenerations(Len(call.series)))
      BY <1>2, <2>1, BatchLinks
    <3>. QED
      BY <1>1, <3>1 DEF Links, Counts
  <2>3. \A k \in 1 .. n : Product(c, k) = whole[k]
    BY <1>7, <2>1 DEF Product
  <2>4. Prefix(call.seed \o call.out, c, n)
    BY <1>1, StateIs
  <2>5. call.seed \o call.out = whole
    BY <2>2, <2>3, <2>4 DEF Prefix, IsList
  <2>. QED
    BY <1>4, <2>1, <2>5 DEF RunSequential
<1>13. call.series # << >> /\ call.req.manifest = call.series
  <2>1. s * MinistackSize < Len(call.series) /\ call.req.manifest = call.series
    BY <1>2 DEF Handed
  <2>2. s * MinistackSize \in Nat
    BY <1>2, PlannerAssumption, Products
  <2>. QED
    BY <1>2, <2>1, <2>2
<1>14. RevisedAs(r, c, z, n)
  BY <1>2, <1>4, <1>5, <1>6, <1>9, <1>12, <1>13 DEF RevisedAs
<1>. QED
  BY <1>4, <1>8, <1>10, <1>11, <1>14 DEF Revised

(* seal_writer_generations finds what build_covariance_generation_registry built.  *)
LEMMA SealsAgree ==
  ASSUME Continues(call, writer), AllLinked
  PROVE  SealAgrees(StateAfter)
<1>1. PICK c, s, w, n : Counts(call, writer, c, s, w, n)
  BY DEF Counts
<1>2. PICK state : state = StateAfter
  OBVIOUS
<1>3. state.registry = BuiltRegistry
  BY <1>2 DEF StateAfter
<1>4. Generations(state.registry, c, n)
  BY <1>1, <1>3, BuiltIs DEF Generations
<1>5. Generations(SealedBy(state), c, n)
  BY <1>1, <1>4, SealedByIs
<1>. QED
  BY <1>2, <1>4, <1>5 DEF SealAgrees, Generations

-------------------------------------------------------------------------------
(***************************************************************************)
(* The steps                                                               *)
(***************************************************************************)

LEMMA RevisionsKept ==
  ASSUME Revisions, revisions' = revisions
  PROVE  Revisions'
  BY DEF Revisions, Revised, RevisedAs, TermsOf, IsRevision, IsFile,
     Generations, Prefix, FullIn, OpenPart, Plannable, IsList

LEMMA WriterRegisters ==
  ASSUME NEW y, Registered(y), writer' = y
  PROVE  Registers'
<1>1. Registered(writer')
  OBVIOUS
<1>. QED
  BY <1>1 DEF Registers, Registered, IsWriter, IsList

LEMMA RevisionsGrow ==
  ASSUME Revisions, Plannable, NEW r, Revised(r), revisions' = Append(revisions, r)
  PROVE  Revisions'
<1>1. PICK l : l = Len(revisions)
  OBVIOUS
<1>2. IsList(revisions, l) /\ \A i \in 1 .. l : Revised(revisions[i])
  BY <1>1, ListIsSequence DEF Revisions
<1>3. /\ IsList(Append(revisions, r), l + 1)
      /\ Append(revisions, r) = [k \in 1 .. l + 1 |-> IF k <= l THEN revisions[k] ELSE r]
  BY <1>2, AppendList
<1>4. PICK v : v = revisions'
  OBVIOUS
<1>5. IsList(v, l + 1) /\ v = [k \in 1 .. l + 1 |-> IF k <= l THEN revisions[k] ELSE r]
  BY <1>3, <1>4
<1>6. Len(v) = l + 1 /\ DOMAIN v = 1 .. l + 1 /\ l \in Nat
  BY <1>2, <1>5, ListIsSequence DEF IsList
<1>7. \A i \in 1 .. l + 1 : Revised(v[i])
  <2>1. SUFFICES ASSUME NEW i \in 1 .. l + 1 PROVE Revised(v[i])
    OBVIOUS
  <2>2. CASE i <= l
    <3>1. i \in 1 .. l /\ v[i] = revisions[i]
      BY <1>5, <2>2
    <3>. QED
      BY <1>2, <3>1
  <2>3. CASE ~ (i <= l)
    <3>1. v[i] = r
      BY <1>5, <2>3
    <3>. QED
      BY <3>1
  <2>. QED
    BY <2>2, <2>3
<1>8. IsList(revisions', Len(revisions')) /\ \A i \in DOMAIN revisions' : Revised(revisions'[i])
  BY <1>4, <1>5, <1>6, <1>7
<1>. QED
  BY <1>8 DEF Revisions, Revised, RevisedAs, TermsOf, IsRevision, IsFile, Generations, Prefix,
     FullIn, OpenPart, Plannable

LEMMA ReturnStep ==
  ASSUME RevisionInv, Return
  PROVE  RevisionInv'
<1>1. AllLinked /\ Continues(call, writer) /\ call' = None
  BY DEF RevisionInv, Revising, Return, AllLinked
<1>2. PICK r : r = [series |-> call.series, state |-> StateAfter, file |-> None,
                    output |-> BuildOutput(call.seed \o call.out, call.req.mask)]
  OBVIOUS
<1>3. Revised(r) /\ Plannable /\ revisions' = Append(revisions, r)
  BY <1>1, <1>2, ReturnedIs, CallIs DEF Return
<1>4. Revisions'
  BY <1>3, RevisionsGrow DEF RevisionInv
<1>5. Registers'
  <2>1. PICK c, s, w, n : Counts(call, writer, c, s, w, n)
    BY DEF Counts
  <2>0. /\ n \in Nat /\ s \in Nat /\ s < n /\ Registered(writer)
        /\ writer.written = [k \in 1 .. n |-> Recaptured(c, k)]
    BY <1>1, <2>1, AllLinkedIs
  <2>2. /\ n \in Nat /\ n >= 1 /\ Registered(writer)
        /\ writer.written = [k \in 1 .. n |-> Recaptured(c, k)]
    BY <2>0
  <2>3. PICK state : state = StateAfter
    OBVIOUS
  <2>4. state.registry = BuiltRegistry
    BY <2>3 DEF StateAfter
  <2>5. Generations(state.registry, c, n)
    BY <1>1, <2>1, <2>4, BuiltIs DEF Generations
  <2>6. PICK g : g = SealedBy(state)
    OBVIOUS
  <2>7. Generations(g, c, n)
    BY <1>1, <2>1, <2>5, <2>6, SealedByIs
  <2>8. PICK b, p, f, m : /\ b = writer.written /\ p = writer.poisoned
                          /\ f = writer.frame /\ m = writer.manifest
    OBVIOUS
  <2>9. PICK y : y = [writer EXCEPT !.registry = g]
    OBVIOUS
  <2>10. y = [registry |-> g, written |-> b, poisoned |-> p, frame |-> f, manifest |-> m]
    <3>1. writer = [registry |-> writer.registry, written |-> b, poisoned |-> p,
                    frame |-> f, manifest |-> m]
      BY <2>2, <2>8 DEF Registered, IsWriter
    <3>2. PICK h : h = writer.registry
      OBVIOUS
    <3>3. writer = [registry |-> h, written |-> b, poisoned |-> p, frame |-> f, manifest |-> m]
      BY <3>1, <3>2
    <3>. QED
      BY <2>9, <3>3
  <2>11. /\ y.registry = g /\ y.written = b /\ IsWriter(y)
    BY <2>10 DEF IsWriter
  <2>12. IsList(g, n) /\ IsList(b, n)
    BY <2>2, <2>7, <2>8 DEF IsList, Generations
  <2>13. \A j \in 1 .. n : b[j] = g[j].digest
    <3>1. SUFFICES ASSUME NEW j \in 1 .. n PROVE b[j] = g[j].digest
      OBVIOUS
    <3>2. g[j] = Generation(c, j) /\ b[j] = Recaptured(c, j)
      BY <2>2, <2>7, <2>8 DEF Generations
    <3>. QED
      BY <3>2, GenerationIs
  <2>14. Len(g) = n /\ Len(b) = n
    BY <2>12, ListIsSequence
  <2>15. Registered(y)
    BY <2>2, <2>11, <2>12, <2>13, <2>14 DEF Registered
  <2>16. writer' = y
    BY <2>3, <2>6, <2>9 DEF Return
  <2>. QED
    BY <2>15, <2>16, WriterRegisters
<1>6. Revising'
  BY <1>1 DEF Revising
<1>. QED
  BY <1>4, <1>5, <1>6 DEF RevisionInv

(* The file of a revision is finished with every block of its capture.           *)
LEMMA FinishedIs ==
  ASSUME Plannable, NEW r, Revised(r), r.file = None, NEW x, Registered(x),
         x.registry = r.state.registry,
         NEW file, file = [registry |-> x.registry, blocks |-> x.written],
         NEW q, q = [r EXCEPT !.file = file]
  PROVE  Revised(q)
<1>1. PICK c, s, n : /\ c = TermsOf(r) /\ s = Len(r.state.sealed)
                     /\ n = NumGenerations(Len(r.series))
  OBVIOUS
<1>2. RevisedAs(r, c, s, n)
  BY <1>1 DEF Revised
<1>3. IsRevision(r) /\ Generations(r.state.registry, c, n)
  BY <1>2 DEF RevisedAs
<1>4. PICK a, b, o, f : a = r.series /\ b = r.state /\ o = r.output /\ f = r.file
  OBVIOUS
<1>5. r = [series |-> a, state |-> b, file |-> f, output |-> o]
  BY <1>3, <1>4 DEF IsRevision
<1>6. q = [series |-> a, state |-> b, file |-> file, output |-> o]
  BY <1>5
<1>60. q.series = a /\ q.state = b /\ q.file = file /\ q.output = o
  BY <1>6
<1>61. q = [series |-> q.series, state |-> q.state, file |-> q.file, output |-> q.output]
  <2>1. PICK t : t = file
    OBVIOUS
  <2>2. q = [series |-> a, state |-> b, file |-> t, output |-> o]
    BY <1>6, <2>1
  <2>. QED
    BY <2>2
<1>7. q.series = a /\ q.state = b /\ q.file = file /\ q.output = o /\ IsRevision(q)
  BY <1>60, <1>61 DEF IsRevision
<1>8. TermsOf(q) = c
  BY <1>1, <1>4, <1>7 DEF TermsOf
<1>9. IsFile(file, b.registry, c, n)
  <2>1. PICK g, v, e : g = x.registry /\ v = x.written /\ e = Len(v)
    OBVIOUS
  <2>2. g = [k \in 1 .. n |-> Generation(c, k)]
    BY <1>3, <2>1 DEF Generations
  <2>3. /\ IsList(g, Len(g)) /\ IsList(v, e) /\ Len(g) >= 1 /\ e <= Len(g)
        /\ \A j \in 1 .. e : v[j] = g[j].digest
        /\ e < Len(g) => g[Len(g)].digest = Unwritten
    BY <2>1 DEF Registered
  <2>4. n = Len(g) /\ n \in Nat
    <3>1. DOMAIN g = 1 .. Len(g) /\ Len(g) \in Nat
      BY <2>3, ListIsSequence DEF IsList
    <3>2. DOMAIN g = 1 .. n
      BY <2>2
    <3>3. n \in Nat
      <4>1. a \in Seq(Slcs) /\ Plannable
        BY <1>2, <1>4 DEF RevisedAs
      <4>. QED
        BY <1>1, <1>4, <4>1, CountOf DEF Plannable
    <3>. QED
      BY <3>1, <3>2, <3>3
  <2>5. \A k \in 1 .. n : g[k].digest = Recaptured(c, k)
    <3>1. SUFFICES ASSUME NEW k \in 1 .. n PROVE g[k].digest = Recaptured(c, k)
      OBVIOUS
    <3>2. g[k] = Generation(c, k)
      BY <2>2
    <3>. QED
      BY <3>2, GenerationIs
  <2>6. e = n
    <3>0. e \in Nat
      BY <2>3 DEF IsList
    <3>1. e \in Nat /\ e <= n /\ n >= 1
      BY <2>3, <2>4, <3>0
    <3>2. SUFFICES ASSUME e < n PROVE FALSE
      BY <2>4, <3>1
    <3>3. g[n].digest = Unwritten
      BY <2>3, <2>4, <3>2
    <3>4. n \in 1 .. n
      BY <2>4, <3>1
    <3>5. g[n].digest = Recaptured(c, n)
      BY <2>5, <3>4
    <3>. QED
      BY <3>3, <3>5, BlocksAreWritten
  <2>7. v = [k \in 1 .. n |-> Recaptured(c, k)]
    BY <2>3, <2>5, <2>6 DEF IsList
  <2>. QED
    BY <1>4, <2>1, <2>7 DEF IsFile
<1>10. RevisedAs(q, c, s, n)
  BY <1>2, <1>4, <1>7, <1>9 DEF RevisedAs
<1>. QED
  BY <1>1, <1>4, <1>7, <1>8, <1>10 DEF Revised

LEMMA FinishStep ==
  ASSUME RevisionInv, Finish
  PROVE  RevisionInv'
<1>1. /\ call = None /\ call' = None /\ writer' = None /\ writer # None
      /\ Registered(writer) /\ Revisions
  BY DEF RevisionInv, Registers, Finish
<1>2. PICK l : l = Len(revisions)
  OBVIOUS
<1>3. IsList(revisions, l) /\ \A i \in 1 .. l : Plannable /\ Revised(revisions[i])
  BY <1>1, <1>2, ListIsSequence DEF Revisions
<1>4. l \in Nat /\ l >= 1 /\ l \in 1 .. l
  <2>1. l \in Nat /\ revisions # << >>
    BY <1>3 DEF IsList, Finish
  <2>2. revisions \in Seq({revisions[k] : k \in 1 .. l})
    BY <1>3, ListIsSequence
  <2>3. l # 0
    BY <1>2, <2>1, <2>2
  <2>. QED
    BY <2>1, <2>3
<1>5. PICK r, x : r = revisions[l] /\ x = writer
  OBVIOUS
<1>6. /\ Last(revisions) = r
      /\ r.file = None /\ x.registry = r.state.registry
  BY <1>2, <1>5 DEF Last, Finish
<1>7. PICK file : file = [registry |-> x.registry, blocks |-> x.written]
  OBVIOUS
<1>8. PICK q : q = [r EXCEPT !.file = file]
  OBVIOUS
<1>9. Revised(q) /\ Plannable
  <2>1. Plannable /\ Revised(r) /\ Registered(x)
    BY <1>1, <1>3, <1>4, <1>5
  <2>. QED
    BY <1>6, <1>7, <1>8, <2>1, FinishedIs
<1>10. PICK v : v = revisions'
  OBVIOUS
<1>11. v = [k \in 1 .. l |-> IF k = l THEN q ELSE revisions[k]]
  <2>1. v = [revisions EXCEPT ![l] = q]
    BY <1>2, <1>5, <1>7, <1>8, <1>10 DEF Finish
  <2>. QED
    BY <1>3, <2>1 DEF IsList
<1>12. IsList(v, l) /\ \A i \in 1 .. l : Revised(v[i])
  <2>1. IsList(v, l)
    BY <1>4, <1>11 DEF IsList
  <2>2. \A i \in 1 .. l : v[i] = q \/ v[i] = revisions[i]
    BY <1>11
  <2>. QED
    BY <1>3, <1>9, <2>1, <2>2
<1>13. Len(v) = l /\ DOMAIN v = 1 .. l
  BY <1>12, ListIsSequence
<1>14. Revisions'
  <2>1. IsList(revisions', Len(revisions')) /\ \A i \in DOMAIN revisions' : Revised(revisions'[i])
    BY <1>10, <1>12, <1>13
  <2>. QED
    BY <1>9, <2>1 DEF Revisions, Revised, RevisedAs, TermsOf, IsRevision, IsFile,
       Generations, Prefix, FullIn, OpenPart, Plannable
<1>15. Registers' /\ Revising'
  BY <1>1 DEF Registers, Revising
<1>. QED
  BY <1>14, <1>15 DEF RevisionInv

LEMMA FailStep ==
  ASSUME RevisionInv, Fail
  PROVE  RevisionInv'
<1>1. PICK z : writer' = [writer EXCEPT !.poisoned = z]
  BY DEF Fail
<1>2. Revisions /\ Continues(call, writer) /\ call' = None /\ revisions' = revisions
  BY DEF RevisionInv, Revising, Fail
<1>3. Registered(writer)
  <2>1. PICK c, s, w, n : Counts(call, writer, c, s, w, n)
    BY DEF Counts
  <2>2. WrittenSoFar(writer, c, s, w, n)
    BY <1>2, <2>1, CallIs DEF Counts
  <2>. QED
    BY <2>2 DEF WrittenSoFar
<1>4. PICK g, b, f, m, p : /\ g = writer.registry /\ b = writer.written /\ f = writer.frame
                           /\ m = writer.manifest /\ p = writer.poisoned
  OBVIOUS
<1>5. writer = [registry |-> g, written |-> b, poisoned |-> p, frame |-> f, manifest |-> m]
  BY <1>3, <1>4 DEF Registered, IsWriter
<1>6. PICK y : y = [writer EXCEPT !.poisoned = z]
  OBVIOUS
<1>7. y = [registry |-> g, written |-> b, poisoned |-> z, frame |-> f, manifest |-> m]
  BY <1>5, <1>6
<1>8. y.registry = g /\ y.written = b /\ IsWriter(y)
  BY <1>7 DEF IsWriter
<1>9. Registered(y)
  BY <1>3, <1>4, <1>8 DEF Registered
<1>10. Registers'
  BY <1>1, <1>6, <1>9, WriterRegisters
<1>11. Revisions'
  BY <1>2, RevisionsKept
<1>12. Revising'
  BY <1>2 DEF Revising
<1>. QED
  BY <1>10, <1>11, <1>12 DEF RevisionInv

(* What the primes of the parts are, when they are given what they are about.     *)
LEMMA Continued ==
  ASSUME Revisions, revisions' = revisions, NEW e, NEW y, call' = e, writer' = y,
         Continues(e, y)
  PROVE  RevisionInv'
<1>1. Registered(y)
  <2>1. PICK c, s, w, n : Counts(e, y, c, s, w, n)
    BY DEF Counts
  <2>2. WrittenSoFar(y, c, s, w, n)
    BY <2>1, CallIs DEF Counts
  <2>. QED
    BY <2>2 DEF WrittenSoFar
<1>2. Continues(call', writer') /\ Registered(writer')
  BY <1>1
<1>3. Revising' /\ Registers'
  BY <1>2 DEF Revising, Registers, Continues, ContinuesAs, Handed, LinkedSoFar, WrittenSoFar,
     Registered, IsWriter, IsList, IsCall, TermsIn, Begun, Stage, Generation, Recaptured,
     Product, LinkedOf, OpenPart, Plannable
<1>4. Revisions'
  BY RevisionsKept
<1>. QED
  BY <1>3, <1>4 DEF RevisionInv

LEMMA CopyNextStep ==
  ASSUME RevisionInv, CopyNext
  PROVE  RevisionInv'
<1>1. /\ Revisions /\ Continues(call, writer)
      /\ call' = call /\ revisions' = revisions
      /\ Len(writer.written) + 1 \in DOMAIN call.kept
  BY DEF RevisionInv, Revising, CopyNext, Copying, NextBlock
<1>2. writer' = Wrote(writer, writer.registry[Len(writer.written) + 1].digest)
  BY DEF CopyNext, Write, NextBlock, Wrote
<1>3. Continues(call, Wrote(writer, writer.registry[Len(writer.written) + 1].digest))
  BY <1>1, CopyStep
<1>. QED
  BY <1>1, <1>2, <1>3, Continued

(* drive_with_covariance_capture links the block that the capture has there.       *)
LEMMA LinkNextStep ==
  ASSUME RevisionInv, LinkNext
  PROVE  RevisionInv'
<1>1. /\ Revisions /\ Continues(call, writer) /\ revisions' = revisions
      /\ Len(writer.written) + 1 \notin DOMAIN call.kept
      /\ Linked \in DOMAIN TailPlan
  BY DEF RevisionInv, Revising, LinkNext, Copying, NextBlock
<1>2. PICK k, at, plan : /\ k = Len(writer.written) + 1
                         /\ at = k - Cardinality(DOMAIN call.kept)
                         /\ plan = PlanWithOffset(Len(call.tail), Len(call.seed))
  OBVIOUS
<1>3. TailPlan = plan /\ Linked = at /\ NextBlock = k
  <2>1. TailPlan = plan
    BY <1>2 DEF TailPlan
  <2>2. NextBlock = k
    BY <1>2 DEF NextBlock
  <2>3. Linked = k - Cardinality(DOMAIN call.kept)
    BY <2>2 DEF Linked
  <2>. QED
    BY <1>2, <2>1, <2>2, <2>3
<1>4. PICK c, s, w, n : Counts(call, writer, c, s, w, n)
  BY DEF Counts
<1>5. PICK ms, r : ms = plan[at] /\ r = Recaptured(c, k)
  OBVIOUS
<1>6. PICK planned : planned = Topology(Len(call.series), call.req)[ms.block_id + 1]
  OBVIOUS
<1>7. PICK product :
        product = LinkAndCompress(Assemble(CompressedOf(call.seed \o call.out), call.tail, ms,
                                           call.req.mask))
  OBVIOUS
<1>8. /\ k <= NumGenerations(Len(call.series)) /\ k > Len(call.seed)
      /\ ms.block_id + 1 = k
      /\ planned = [id |-> r.id, start |-> r.start, count |-> r.count, parents |-> r.parents]
      /\ ms.num_real = r.count
      /\ call.req.members[k] = r.member /\ call.req.model = r.model
      /\ product = Product(c, k)
  <2>1. c = TermsIn(call)
    BY <1>4 DEF Counts
  <2>2. at \in DOMAIN plan
    BY <1>1, <1>3
  <2>3. /\ k = Len(writer.written) + 1
        /\ at = Len(writer.written) + 1 - Cardinality(DOMAIN call.kept)
        /\ plan = PlanWithOffset(Len(call.tail), Len(call.seed))
    <3>1. PICK l, d : l = Len(writer.written) /\ d = Cardinality(DOMAIN call.kept)
      OBVIOUS
    <3>2. l \in Nat /\ d \in Nat
      BY <1>1, <1>4, <3>1, CallIs DEF Counts
    <3>3. k = l + 1 /\ at = k - d /\ plan = PlanWithOffset(Len(call.tail), Len(call.seed))
      BY <1>2, <3>1
    <3>4. at = l + 1 - d
      BY <3>2, <3>3
    <3>. QED
      BY <3>1, <3>3, <3>4
  <2>. QED
    BY <1>1, <1>5, <1>6, <1>7, <2>1, <2>2, <2>3, LinkStep
<1>9. PICK t : t = call.req.tolerance
  OBVIOUS
<1>10. PICK b : b = [k |-> ms.block_id + 1, id |-> planned.id, start |-> planned.start,
                     count |-> ms.num_real, parents |-> planned.parents,
                     member |-> call.req.members[ms.block_id + 1], model |-> call.req.model,
                     tolerance |-> t, product |-> product]
  OBVIOUS
<1>11. /\ WriterAccepts(b) /\ Write(b)
       /\ call' = [call EXCEPT !.out = Append(@, product)]
  BY <1>3, <1>5, <1>6, <1>7, <1>9, <1>10 DEF LinkNext
<1>12. b.tolerance = t
  BY <1>10
<1>13. /\ Handed(call, c, s) /\ LinkedSoFar(call, c, s, w) /\ WrittenSoFar(writer, c, s, w, n)
       /\ s \in Nat /\ w \in Nat
  BY <1>1, <1>4, CallIs DEF Counts
<1>14. c.tolerance = t
  <2>1. w + 1 > s
    BY <1>2, <1>4, <1>8 DEF Counts
  <2>2. CASE w > s
    BY <1>9, <1>13, <2>2 DEF LinkedSoFar
  <2>3. CASE s = 0
    <3>1. Len(call.seed) = 0
      BY <1>4, <2>3 DEF Counts
    <3>2. TermsIn(call).tolerance = call.req.tolerance
      BY <3>1 DEF TermsIn
    <3>. QED
      BY <1>4, <1>9, <3>2 DEF Counts
  <2>4. CASE w = s /\ s # 0
    <3>1. PICK v : v = writer.written
      OBVIOUS
    <3>2. v = [j \in 1 .. w |-> Recaptured(c, j)]
      BY <1>13, <3>1 DEF WrittenSoFar
    <3>3. 1 \in 1 .. w
      BY <1>13, <2>4
    <3>4. v[1] = Recaptured(c, 1) /\ 1 \in DOMAIN v
      BY <3>2, <3>3
    <3>5. v[1] \in Range(v)
      BY <3>4 DEF Range
    <3>6. \A d \in Range(v) : d.tolerance = b.tolerance
      BY <1>11, <3>1 DEF WriterAccepts
    <3>7. v[1].tolerance = c.tolerance
      BY <3>4, RecapturedIs
    <3>. QED
      BY <1>12, <3>5, <3>6, <3>7
  <2>. QED
    BY <1>13, <2>1, <2>2, <2>3, <2>4
<1>15. b = r
  <2>1. /\ planned.id = r.id /\ planned.start = r.start /\ planned.parents = r.parents
    BY <1>8
  <2>2. b = [k |-> k, id |-> r.id, start |-> r.start, count |-> r.count, parents |-> r.parents,
             member |-> r.member, model |-> r.model, tolerance |-> t, product |-> Product(c, k)]
    BY <1>8, <1>10, <2>1
  <2>3. r.tolerance = t
    BY <1>5, <1>14, RecapturedIs
  <2>4. r = [k |-> k, id |-> r.id, start |-> r.start, count |-> r.count, parents |-> r.parents,
             member |-> r.member, model |-> r.model, tolerance |-> r.tolerance,
             product |-> Product(c, k)]
    BY <1>5, RecapturedRecord
  <2>. QED
    BY <2>2, <2>3, <2>4
<1>16. writer' = Wrote(writer, Recaptured(TermsIn(call), Len(writer.written) + 1))
  <2>1. r = Recaptured(TermsIn(call), Len(writer.written) + 1)
    BY <1>2, <1>4, <1>5 DEF Counts
  <2>. QED
    BY <1>11, <1>15, <2>1 DEF Write, Wrote
<1>17. PICK e : e = call'
  OBVIOUS
<1>18. Follows(call, writer, e)
  <2>1. c = TermsIn(call)
    BY <1>4 DEF Counts
  <2>2. e = Grew(call, Product(c, k))
    BY <1>8, <1>11, <1>17 DEF Grew
  <2>. QED
    BY <1>2, <1>8, <1>9, <1>14, <2>1, <2>2 DEF Follows
<1>19. Len(writer.written) < NumGenerations(Len(call.series))
  <2>1. w = Len(writer.written) /\ n = NumGenerations(Len(call.series)) /\ n \in Nat
    BY <1>1, <1>4, CallIs DEF Counts
  <2>. QED
    BY <1>2, <1>8, <1>13, <2>1
<1>20. Continues(e, Wrote(writer, Recaptured(TermsIn(call), Len(writer.written) + 1)))
  BY <1>1, <1>18, <1>19, Written
<1>. QED
  BY <1>1, <1>16, <1>17, <1>20, Continued

-------------------------------------------------------------------------------
(***************************************************************************)
(* Extending a revision                                                    *)
(***************************************************************************)

(* What an update makes of a revision of s sealed generations: longer is its       *)
(* series with the arrivals.                                                 *)
Extends(r, new, longer, s) ==
  /\ longer = r.series \o new /\ longer \in Seq(Slcs)
  /\ r.series \in Seq(Slcs) /\ Len(r.series) <= Len(longer)
  /\ \A i \in 1 .. Len(r.series) : longer[i] = r.series[i]
  /\ TotalDates(r.state, new) = Len(longer)
  /\ FullIn(s, Len(r.series)) /\ s * MinistackSize < Len(longer)
  /\ Sealed(r.state.registry) = 1 .. s /\ Cardinality(Sealed(r.state.registry)) = s
  /\ r.state.open \o new = OpenPart(longer, s)
  /\ Len(r.state.open) + Len(new) = Len(longer) - s * MinistackSize
  /\ s < NumGenerations(Len(longer)) /\ s <= NumGenerations(Len(r.series))

LEMMA ExtendedIs ==
  ASSUME Plannable, NEW r, Revised(r), NEW new \in Seq(Slcs), Len(new) >= 1,
         NEW longer, longer = r.series \o new, NEW s, s = Len(r.state.sealed)
  PROVE  Extends(r, new, longer, s)
<1>1. PICK c, n : c = TermsOf(r) /\ n = NumGenerations(Len(r.series))
  OBVIOUS
<1>2. RevisedAs(r, c, s, n)
  BY <1>1 DEF Revised
<1>3. PICK a, g, o : a = r.series /\ g = r.state.registry /\ o = r.state.open
  OBVIOUS
<1>4. PICK l, m, f : l = Len(a) /\ m = Len(new) /\ f = s * MinistackSize
  OBVIOUS
<1>5. a \in Seq(Slcs) /\ FullIn(s, l) /\ Generations(g, c, n) /\ o = OpenPart(a, s)
  BY <1>2, <1>3, <1>4 DEF RevisedAs
<1>6. PICK h : h = (s + 1) * MinistackSize
  OBVIOUS
<1>7. s \in Nat /\ l \in Nat /\ f <= l /\ l < h
  BY <1>4, <1>5, <1>6 DEF FullIn
<1>8. m \in Nat /\ m >= 1 /\ f \in Nat
  BY <1>4, <1>7, PlannerAssumption, Products
<1>9. c.series = a
  BY <1>1, <1>3 DEF TermsOf
<1>10. /\ Sealed(g) = 1 .. s /\ Cardinality(Sealed(g)) = s /\ SealedDates(g) = f
  <2>1. Len(c.series) \in Nat /\ s * MinistackSize <= Len(c.series)
        /\ Len(c.series) < (s + 1) * MinistackSize
    BY <1>4, <1>6, <1>7, <1>9
  <2>2. g = [k \in 1 .. NumGenerations(Len(c.series)) |-> Generation(c, k)]
    BY <1>1, <1>3, <1>5, <1>9 DEF Generations
  <2>. QED
    BY <1>4, <1>7, <2>1, <2>2, SealedAre
<1>11. /\ l - f \in Nat /\ IsList(o, l - f) /\ Len(o) = l - f
       /\ o = [i \in 1 .. l - f |-> a[f + i]]
  <2>1. s * MinistackSize <= Len(a)
    BY <1>4, <1>7
  <2>2. LET y == Len(a) - s * MinistackSize
            part == OpenPart(a, s)
        IN  /\ y \in Nat
            /\ IsList(part, y) /\ Len(part) = y
            /\ part = [i \in 1 .. y |-> a[s * MinistackSize + i]]
    BY <1>5, <1>7, <2>1, OpenPartIs
  <2>. QED
    BY <1>4, <1>5, <2>2
<1>12. PICK d : d = a \o new
  OBVIOUS
<1>13. /\ d \in Seq(Slcs) /\ Len(d) = l + m
       /\ \A i \in 1 .. l : d[i] = a[i]
       /\ \A i \in 1 .. m : d[l + i] = new[i]
  BY <1>4, <1>5, <1>12
<1>29. Len(d) \in Nat /\ Len(d) = l + m
  BY <1>7, <1>8, <1>13
<1>14. PICK y : y = l - f
  OBVIOUS
<1>24. IsList(o, y) /\ Len(o) = y /\ y \in Nat /\ o = [i \in 1 .. y |-> a[f + i]]
  BY <1>11, <1>14
<1>25. y \in Nat /\ f + y = l
  BY <1>7, <1>8, <1>14, <1>24
<1>26. IsList(new, m)
  BY <1>4, SequenceIsList
<1>27. \A i \in 1 .. y : o[i] = a[f + i]
  BY <1>24
<1>28. Len(o) = y
  BY <1>24
<1>15. y \in Nat /\ f + y = l /\ Len(o) = y /\ \A i \in 1 .. y : o[i] = a[f + i]
  BY <1>25, <1>27, <1>28
<1>16. o \o new = [i \in 1 .. y + m |-> IF i <= y THEN o[i] ELSE new[i - y]]
  <2>1. PICK u, v : u = o /\ v = new
    OBVIOUS
  <2>2. IsList(u, y) /\ IsList(v, m)
    BY <1>24, <1>26, <2>1
  <2>3. u \o v = [i \in 1 .. y + m |-> IF i <= y THEN u[i] ELSE v[i - y]]
    BY <2>2, ConcatList
  <2>. QED
    BY <2>1, <2>3
<1>17. \A i \in 1 .. y + m : (IF i <= y THEN o[i] ELSE new[i - y]) = d[f + i]
  <2>1. SUFFICES ASSUME NEW i \in 1 .. y + m
        PROVE (IF i <= y THEN o[i] ELSE new[i - y]) = d[f + i]
    OBVIOUS
  <2>2. CASE i <= y
    <3>1. i \in 1 .. y /\ f + i \in 1 .. l
      BY <1>7, <1>8, <1>15, <2>2
    <3>. QED
      BY <1>13, <1>15, <2>2, <3>1
  <2>3. CASE ~ (i <= y)
    <3>1. i - y \in 1 .. m /\ l + (i - y) = f + i
      BY <1>7, <1>8, <1>15, <2>3
    <3>2. \A j \in 1 .. m : d[l + j] = new[j]
      BY <1>13
    <3>3. d[l + (i - y)] = new[i - y]
      BY <3>1, <3>2
    <3>. QED
      BY <2>3, <3>1, <3>3
  <2>. QED
    BY <2>2, <2>3
<1>18. o \o new = [i \in 1 .. y + m |-> d[f + i]]
  BY <1>16, <1>17
<1>19. OpenPart(d, s) = [i \in 1 .. y + m |-> d[f + i]]
  <2>0. f <= Len(d) /\ Len(d) - f = y + m
    BY <1>7, <1>8, <1>29, <1>25
  <2>1. s * MinistackSize <= Len(d) /\ Len(d) - s * MinistackSize = y + m
    BY <1>4, <2>0
  <2>2. OpenPart(d, s) =
          [i \in 1 .. Len(d) - s * MinistackSize |-> d[s * MinistackSize + i]]
    BY <1>7, <1>13, <2>1, OpenPartIs
  <2>. QED
    BY <1>4, <2>1, <2>2
<1>20. s < NumGenerations(Len(d))
  <2>1. PICK e : e = y + m
    OBVIOUS
  <2>0. e \in Nat /\ e >= 1 /\ f + e = Len(d)
    BY <1>7, <1>8, <1>29, <1>25, <2>1
  <2>2. e \in Nat /\ e >= 1 /\ s * MinistackSize + e = Len(d)
    BY <1>4, <2>0
  <2>3. NumGenerations(s * MinistackSize + e) = s + NumGenerations(e)
    BY <1>7, <2>2, TailPlanned
  <2>4. NumGenerations(e) \in Nat /\ NumGenerations(e) >= 1
    BY <2>2, CountOf DEF Plannable
  <2>. QED
    BY <1>7, <2>2, <2>3, <2>4
<1>21. s <= n
  <2>1. s * MinistackSize <= l /\ l < (s + 1) * MinistackSize
    BY <1>4, <1>6, <1>7
  <2>. QED
    BY <1>1, <1>3, <1>4, <1>7, <2>1, FullOnes
<1>22. TotalDates(r.state, new) = Len(d)
  <2>1. TotalDates(r.state, new) = SealedDates(g) + Len(o) + Len(new)
    BY <1>3 DEF TotalDates
  <2>2. SealedDates(g) = f /\ Len(o) = y /\ Len(new) = m
    BY <1>4, <1>10, <1>28
  <2>3. f + y + m = Len(d)
    BY <1>7, <1>8, <1>25, <1>29
  <2>. QED
    BY <2>1, <2>2, <2>3
<1>23. Len(o) + Len(new) = Len(d) - f /\ f < Len(d) /\ l <= Len(d)
  <2>1. y + m = Len(d) - f /\ f < Len(d) /\ l <= Len(d)
    BY <1>7, <1>8, <1>25, <1>29
  <2>2. Len(o) = y /\ Len(new) = m
    BY <1>4, <1>28
  <2>. QED
    BY <2>1, <2>2
<1>. QED
  BY <1>1, <1>3, <1>4, <1>5, <1>10, <1>12, <1>13, <1>18, <1>19, <1>20, <1>21, <1>22, <1>23
     DEF Extends

(* A call starts where a capture of the whole series would stand, had it sealed s   *)
(* generations and planned the others.                                       *)
LEMMA Starts ==
  ASSUME NEW e, NEW y, NEW c, NEW s, NEW n, c = TermsIn(e), s = Len(e.seed),
         n = NumGenerations(Len(e.series)), Handed(e, c, s), e.out = << >>,
         IsWriter(y), y.written = << >>,
         y.registry = [k \in 1 .. n |-> IF k <= s THEN Generation(c, k) ELSE Begun(c, k, FALSE)]
  PROVE  Continues(e, y)
<1>1. PICK f, m : f = s * MinistackSize /\ m = Len(e.tail)
  OBVIOUS
<1>2. Tailed(e, s, f, m, n)
  BY <1>1, TailIs
<1>3. s \in Nat /\ n \in Nat /\ s < n
  <2>1. /\ s \in Nat /\ NumGenerations(m) \in Nat /\ NumGenerations(m) >= 1
        /\ n = s + NumGenerations(m)
    BY <1>2 DEF Tailed
  <2>. QED
    BY <2>1
<1>4. PICK v, g : v = y.written /\ g = y.registry
  OBVIOUS
<1>5. v = << >> /\ Len(v) = 0 /\ IsList(v, 0)
  BY <1>4 DEF IsList
<1>6. g = [k \in 1 .. n |-> IF k <= s THEN Generation(c, k) ELSE Begun(c, k, FALSE)]
  BY <1>4
<1>7. IsList(g, n)
  BY <1>3, <1>6 DEF IsList
<1>8. Len(g) = n
  BY <1>7, ListIsSequence
<1>9. g[n].digest = Unwritten
  <2>1. n \in 1 .. n /\ ~ (n <= s)
    BY <1>3
  <2>2. g[n] = Begun(c, n, FALSE)
    BY <1>6, <2>1
  <2>3. Begun(c, n, FALSE) = Stage(c, n, Unwritten, FALSE)
    BY DEF Begun
  <2>4. PICK no : no = FALSE
    OBVIOUS
  <2>5. Stage(c, n, Unwritten, no).digest = Unwritten
    BY StageIs
  <2>. QED
    BY <2>2, <2>3, <2>4, <2>5
<1>10. Registered(y)
  <2>1. \A j \in 1 .. 0 : v[j] = g[j].digest
    OBVIOUS
  <2>2. n >= 1 /\ 0 <= n /\ 0 < n
    BY <1>3
  <2>. QED
    BY <1>4, <1>5, <1>7, <1>8, <1>9, <2>1, <2>2 DEF Registered
<1>11. WrittenSoFar(y, c, s, 0, n)
  <2>0. PICK w : w = 0
    OBVIOUS
  <2>1. v = [k \in 1 .. w |-> Recaptured(c, k)]
    BY <1>5, <2>0
  <2>2. \A k \in 1 .. n : Begun(c, k, FALSE) = Begun(c, k, k <= w)
    <3>1. SUFFICES ASSUME NEW k \in 1 .. n PROVE Begun(c, k, FALSE) = Begun(c, k, k <= w)
      OBVIOUS
    <3>2. ~ (k <= w)
      BY <2>0
    <3>. QED
      BY <3>2 DEF Begun
  <2>3. g = [k \in 1 .. n |-> IF k <= s THEN Generation(c, k) ELSE Begun(c, k, k <= w)]
    BY <1>6, <2>2
  <2>4. w <= n
    BY <1>3, <2>0
  <2>5. y.written = [k \in 1 .. w |-> Recaptured(c, k)]
    BY <1>4, <2>1
  <2>6. y.registry = [k \in 1 .. n |-> IF k <= s THEN Generation(c, k) ELSE Begun(c, k, k <= w)]
    BY <1>4, <2>3
  <2>7. WrittenSoFar(y, c, s, w, n)
    BY <1>10, <2>4, <2>5, <2>6 DEF WrittenSoFar
  <2>. QED
    BY <2>0, <2>7
<1>12. LinkedSoFar(e, c, s, 0)
  <2>1. LinkedOf(s, 0) = 0 /\ ~ (0 > s)
    BY <1>3 DEF LinkedOf
  <2>2. << >> = [j \in 1 .. 0 |-> Product(c, s + j)]
    OBVIOUS
  <2>. QED
    BY <2>1, <2>2 DEF LinkedSoFar
<1>13. ContinuesAs(e, y, c, s, 0, n)
  BY <1>11, <1>12 DEF ContinuesAs
<1>. QED
  BY <1>4, <1>5, <1>13 DEF Continues

(* What a plan leaves to be written is registered as unwritten.                  *)
LEMMA PlannedUnwritten ==
  ASSUME NEW n, NEW mask, NEW req, NEW k \in 1 .. NumGenerations(n)
  PROVE  Provisional(n, mask, req)[k].digest = Unwritten
<1>1. PICK block, u : block = Topology(n, req)[k] /\ u = Unwritten
  OBVIOUS
<1>2. PICK m, s, c, o, g, i : /\ m = req.members[k] /\ s = block.start /\ c = block.count
                              /\ o = req.model /\ g = req.config /\ i = block.id
  OBVIOUS
<1>3. Provisional(n, mask, req)[k] =
        [member |-> m, start |-> s, count |-> c, model |-> o, config |-> g, mask |-> mask,
         id |-> i, digest |-> u, sealed |-> FALSE]
  BY <1>1, <1>2 DEF Provisional
<1>. QED
  BY <1>1, <1>3

LEMMA ArrivalsAre ==
  ASSUME Revisions, NEW i \in DOMAIN revisions, NEW new \in Arrivals(i)
  PROVE  /\ Plannable /\ Revised(revisions[i])
         /\ new \in Seq(Slcs) /\ Len(new) \in Nat /\ Len(new) >= 1
<1>1. Plannable /\ Revised(revisions[i])
  BY DEF Revisions
<1>2. PICK r : r = revisions[i]
  OBVIOUS
<1>3. r.series \in Seq(Slcs)
  BY <1>1, <1>2 DEF Revised, RevisedAs
<1>4. PICK l : l = Len(r.series)
  OBVIOUS
<1>5. l \in Nat /\ MaxArrivals \in Nat /\ MaxAcquisitions \in Nat
  BY <1>3, <1>4, RevisionAssumption
<1>6. PICK m : m = Smaller(MaxArrivals, MaxAcquisitions - l)
  OBVIOUS
<1>7. m \in Int
  BY <1>5, <1>6 DEF Smaller
<1>8. new \in Stacks(m)
  BY <1>2, <1>4, <1>6 DEF Arrivals
<1>. QED
  BY <1>1, <1>7, <1>8, StackIsSeries

LEMMA CreateDestinationStep ==
  ASSUME RevisionInv, NEW i \in DOMAIN revisions, NEW new \in Arrivals(i), NEW req,
         CreateDestination(i, new, req)
  PROVE  RevisionInv'
<1>1. /\ Revisions /\ call = None /\ call' = None /\ revisions' = revisions
  BY DEF RevisionInv, CreateDestination
<1>2. PICK r, longer, s : /\ r = revisions[i] /\ longer = r.series \o new
                          /\ s = Len(r.state.sealed)
  OBVIOUS
<1>3. Plannable /\ Revised(r) /\ new \in Seq(Slcs) /\ Len(new) >= 1
  BY <1>1, <1>2, ArrivalsAre
<1>4. Extends(r, new, longer, s)
  BY <1>2, <1>3, ExtendedIs
<1>5. PICK state, n : state = r.state /\ n = NumGenerations(Len(longer))
  OBVIOUS
<1>6. /\ Sealed(state.registry) = 1 .. s /\ s < n /\ TotalDates(state, new) = Len(longer)
      /\ longer \in Seq(Slcs) /\ s \in Nat
  BY <1>4, <1>5 DEF Extends, FullIn
<1>7. n \in Nat /\ n >= 1 /\ n \in 1 .. n /\ n \notin 1 .. s
  <2>1. Len(longer) \in Nat
    BY <1>6
  <2>2. n \in Nat
    BY <1>3, <1>5, <2>1, CountOf DEF Plannable
  <2>. QED
    BY <1>6, <2>2
<1>8. PICK g : g = UpdatePlan(state, new, req)
  OBVIOUS
<1>9. g = [k \in 1 .. n |-> IF k \in 1 .. s THEN state.registry[k]
                            ELSE Provisional(Len(longer), state.mask, req)[k]]
  BY <1>5, <1>6, <1>8 DEF UpdatePlan
<1>10. IsList(g, n)
  BY <1>7, <1>9 DEF IsList
<1>11. g[n].digest = Unwritten
  <2>1. g[n] = Provisional(Len(longer), state.mask, req)[n]
    BY <1>7, <1>9
  <2>. QED
    BY <1>5, <1>7, <2>1, PlannedUnwritten
<1>12. PICK y : y = NewWriter(g, req)
  OBVIOUS
<1>13. y = [registry |-> g, written |-> << >>, poisoned |-> FALSE,
            frame |-> req.frame, manifest |-> req.manifest]
  BY <1>12 DEF NewWriter
<1>14. y.registry = g /\ y.written = << >> /\ IsWriter(y)
  BY <1>13 DEF IsWriter
<1>15. Registered(y)
  <2>1. Len(g) = n
    BY <1>10, ListIsSequence
  <2>2. PICK v : v = << >>
    OBVIOUS
  <2>3. IsList(v, 0) /\ Len(v) = 0 /\ \A j \in 1 .. 0 : v[j] = g[j].digest
    BY <2>2 DEF IsList
  <2>4. n >= 1 /\ 0 <= n
    BY <1>7
  <2>. QED
    BY <1>10, <1>11, <1>14, <2>1, <2>2, <2>3, <2>4 DEF Registered
<1>16. writer' = y
  BY <1>2, <1>5, <1>8, <1>12 DEF CreateDestination
<1>17. Registers'
  BY <1>15, <1>16, WriterRegisters
<1>18. Revisions' /\ Revising'
  BY <1>1, RevisionsKept DEF Revising
<1>. QED
  BY <1>17, <1>18 DEF RevisionInv

LEMMA CaptureStep ==
  ASSUME RevisionInv, NEW stack \in Stacks(MaxArrivals), NEW req \in CaptureRequests(stack),
         Capture(stack, req)
  PROVE  RevisionInv'
<1>1. /\ Revisions /\ revisions' = revisions /\ TopologyAccepted(Len(stack), req)
  BY DEF RevisionInv, Capture, CaptureAccepted
<1>2. Plannable
  BY <1>1, Accepted
<1>3. stack \in Seq(Slcs) /\ Len(stack) \in Nat /\ Len(stack) >= 1
  BY RevisionAssumption, StackIsSeries
<1>4. req.members = MembersOf(stack) /\ req.manifest = stack
  <2>1. PICK mask, t, g, m, f : req = Honest(stack, mask, g, m, None, f, t)
    BY DEF CaptureRequests
  <2>2. PICK members : members = MembersOf(stack)
    OBVIOUS
  <2>3. req = [mask |-> mask, config |-> g, model |-> m, prior |-> None,
               manifest |-> stack, members |-> members, frame |-> f,
               tolerance |-> t, cap |-> "enough"]
    BY <2>1, <2>2 DEF Honest
  <2>. QED
    BY <2>2, <2>3
<1>5. PICK e, y, n : e = call' /\ y = writer' /\ n = NumGenerations(Len(stack))
  OBVIOUS
<1>6. e = [from |-> None, parent |-> None, series |-> stack, tail |-> stack,
           seed |-> << >>, kept |-> << >>, out |-> << >>, req |-> req]
  BY <1>5 DEF Capture
<1>7. /\ e.series = stack /\ e.tail = stack /\ e.seed = << >> /\ e.kept = << >>
      /\ e.out = << >> /\ e.req = req /\ IsCall(e)
  BY <1>6 DEF IsCall
<1>8. PICK c : c = TermsIn(e)
  OBVIOUS
<1>9. /\ c.series = stack /\ c.mask = req.mask /\ c.config = req.config
      /\ c.model = req.model /\ c.frame = req.frame
  BY <1>7, <1>8 DEF TermsIn
<1>10. PICK s, f : s = 0 /\ f = s * MinistackSize
  OBVIOUS
<1>11. f = 0 /\ s \in Nat
  BY <1>10, PlannerAssumption
<1>12. stack = OpenPart(stack, s)
  <2>1. f <= Len(stack) /\ Len(stack) - f = Len(stack)
    BY <1>3, <1>11
  <2>2. OpenPart(stack, s) = [i \in 1 .. Len(stack) - f |-> stack[f + i]]
    <3>1. s * MinistackSize <= Len(stack)
      BY <1>10, <2>1
    <3>2. OpenPart(stack, s) =
            [i \in 1 .. Len(stack) - s * MinistackSize |-> stack[s * MinistackSize + i]]
      BY <1>3, <1>11, <3>1, OpenPartIs
    <3>. QED
      BY <1>10, <3>2
  <2>3. \A i \in 1 .. Len(stack) : f + i = i
    BY <1>11
  <2>4. OpenPart(stack, s) = [i \in 1 .. Len(stack) |-> stack[i]]
    BY <2>1, <2>2, <2>3
  <2>5. stack = [i \in 1 .. Len(stack) |-> stack[i]]
    BY <1>3, SequenceIsList DEF IsList
  <2>. QED
    BY <2>4, <2>5
<1>13. Handed(e, c, s)
  <2>1. << >> = [k \in 1 .. s |-> Product(c, k)] /\ << >> = [k \in 1 .. s |-> Generation(c, k)]
    BY <1>10
  <2>2. s * MinistackSize < Len(stack)
    BY <1>3, <1>10, <1>11
  <2>3. e.seed = [k \in 1 .. s |-> Product(c, k)] /\ e.kept = [k \in 1 .. s |-> Generation(c, k)]
    BY <1>7, <2>1
  <2>4. e.tail = OpenPart(e.series, s)
    BY <1>7, <1>12
  <2>. QED
    BY <1>2, <1>3, <1>4, <1>7, <1>11, <2>2, <2>3, <2>4 DEF Handed
<1>14. PICK g : g = Provisional(Len(stack), req.mask, req)
  OBVIOUS
<1>15. y = [registry |-> g, written |-> << >>, poisoned |-> FALSE,
            frame |-> req.frame, manifest |-> req.manifest]
  BY <1>5, <1>14 DEF Capture, NewWriter
<1>16. y.registry = g /\ y.written = << >> /\ IsWriter(y)
  BY <1>15 DEF IsWriter
<1>17. g = [k \in 1 .. n |-> IF k <= s THEN Generation(c, k) ELSE Begun(c, k, FALSE)]
  <2>1. \A k \in 1 .. n : g[k] = Begun(c, k, FALSE)
    <3>1. SUFFICES ASSUME NEW k \in 1 .. n PROVE g[k] = Begun(c, k, FALSE)
      OBVIOUS
    <3>2. /\ Len(c.series) \in Nat /\ req.members = MembersOf(c.series) /\ req.model = c.model
          /\ req.frame = c.frame /\ req.config = c.config
          /\ k \in 1 .. NumGenerations(Len(c.series))
      BY <1>3, <1>4, <1>5, <1>9
    <3>3. Provisional(Len(c.series), c.mask, req)[k] = Begun(c, k, FALSE)
      BY <1>2, <3>2, PlannedIsBegun
    <3>. QED
      BY <1>9, <1>14, <3>3
  <2>2. g = [k \in 1 .. n |-> g[k]]
    BY <1>5, <1>14 DEF Provisional
  <2>3. \A k \in 1 .. n : ~ (k <= s)
    BY <1>10
  <2>. QED
    BY <2>1, <2>2, <2>3
<1>18. Continues(e, y)
  <2>1. s = Len(e.seed)
    BY <1>7, <1>10
  <2>2. n = NumGenerations(Len(e.series))
    BY <1>5, <1>7
  <2>3. y.registry = [k \in 1 .. n |-> IF k <= s THEN Generation(c, k) ELSE Begun(c, k, FALSE)]
    BY <1>16, <1>17
  <2>. QED
    BY <1>7, <1>8, <1>13, <1>16, <2>1, <2>2, <2>3, Starts
<1>. QED
  BY <1>1, <1>5, <1>18, Continued

(* A request names the acquisitions it was made for; what an update may differ in   *)
(* is its first member, or how many there are.                                *)
RequestFor(req, i, new, longer, members, n) ==
  /\ req \in UpdateRequests(i, new) /\ longer = revisions[i].series \o new
  /\ members = MembersOf(longer) /\ IsList(members, n) /\ n >= 1

Differs(req, members, n) ==
  req.members[1] = Append(members[1], members[1][1]) \/ Len(req.members) # n

LEMMA RequestsAre ==
  ASSUME NEW i, NEW new, NEW req, NEW longer, NEW members, NEW n,
         RequestFor(req, i, new, longer, members, n)
  PROVE  req.manifest = longer /\ (req.members = members \/ Differs(req, members, n))
<1>. /\ req \in UpdateRequests(i, new) /\ longer = revisions[i].series \o new
     /\ members = MembersOf(longer) /\ IsList(members, n) /\ n >= 1
  BY DEF RequestFor
<1>. SUFFICES /\ req.manifest = longer
              /\ \/ req.members = members
                 \/ req.members[1] = Append(members[1], members[1][1])
                 \/ Len(req.members) # n
  BY DEF Differs
<1>1. PICK state, h : state = revisions[i].state /\ h = HonestUpdate(i, new)
  OBVIOUS
<1>2. PICK a, g, m, p, f, t :
        /\ a = state.mask /\ g = state.config /\ m = state.model /\ p = state.manifest
        /\ f = state.registry[1].id[4] /\ t = state.registry[1].digest.tolerance
  OBVIOUS
<1>3. h = [mask |-> a, config |-> g, model |-> m, prior |-> p, manifest |-> longer,
           members |-> members, frame |-> f, tolerance |-> t, cap |-> "enough"]
  BY <1>1, <1>2 DEF HonestUpdate, Honest
<1>4. CASE req = h
  BY <1>3, <1>4
<1>5. CASE \E x : req = [h EXCEPT !.cap = x]
  BY <1>3, <1>5
<1>6. CASE \E x : req = [h EXCEPT !.prior = x]
  BY <1>3, <1>6
<1>7. CASE req = [h EXCEPT !.members[1] = Append(@, @[1])]
  <2>1. PICK q : q = Append(members[1], members[1][1])
    OBVIOUS
  <2>2. PICK v : v = [members EXCEPT ![1] = q]
    OBVIOUS
  <2>3. h.members = members
    BY <1>3
  <2>4. req = [h EXCEPT !.members = v]
    BY <1>7, <2>1, <2>2, <2>3
  <2>5. req.members = v /\ req.manifest = longer
    BY <1>3, <2>4
  <2>6. 1 \in DOMAIN members
    <3>1. DOMAIN members = 1 .. n
      BY ListIsSequence
    <3>2. n \in Nat
      BY DEF IsList
    <3>. QED
      BY <3>1, <3>2
  <2>7. v[1] = q
    BY <2>2, <2>6
  <2>. QED
    BY <2>1, <2>5, <2>7
<1>8. CASE req = [h EXCEPT !.members = Front(@)]
  <2>1. PICK v : v = Front(members)
    OBVIOUS
  <2>2. h.members = members
    BY <1>3
  <2>3. req = [h EXCEPT !.members = v]
    BY <1>8, <2>1, <2>2
  <2>4. req.members = v /\ req.manifest = longer
    BY <1>3, <2>3
  <2>5. Len(v) = n - 1
    <3>1. members \in Seq({members[k] : k \in 1 .. n}) /\ Len(members) = n /\ n \in Nat
      BY ListIsSequence DEF IsList
    <3>2. PICK S : members \in Seq(S)
      BY <3>1
    <3>. QED
      BY <2>1, <3>1, <3>2 DEF Front
  <2>6. n - 1 # n
    BY DEF IsList
  <2>. QED
    BY <2>4, <2>5, <2>6
<1>9. CASE \E x : req = [h EXCEPT !.mask = x]
  BY <1>3, <1>9
<1>10. CASE \E x : req = [h EXCEPT !.config = x]
  BY <1>3, <1>10
<1>11. CASE \E x : req = [h EXCEPT !.model = x]
  BY <1>3, <1>11
<1>12. CASE \E x : req = [h EXCEPT !.frame = x]
  BY <1>3, <1>12
<1>13. CASE \E x : req = [h EXCEPT !.tolerance = x]
  BY <1>3, <1>13
<1>14. \/ req = h \/ (\E x : req = [h EXCEPT !.cap = x]) \/ (\E x : req = [h EXCEPT !.prior = x])
       \/ req = [h EXCEPT !.members[1] = Append(@, @[1])] \/ req = [h EXCEPT !.members = Front(@)]
       \/ (\E x : req = [h EXCEPT !.mask = x]) \/ (\E x : req = [h EXCEPT !.config = x])
       \/ (\E x : req = [h EXCEPT !.model = x]) \/ (\E x : req = [h EXCEPT !.frame = x])
       \/ (\E x : req = [h EXCEPT !.tolerance = x])
  BY <1>1, Zenon DEF UpdateRequests
<1>. QED
  BY <1>4, <1>5, <1>6, <1>7, <1>8, <1>9, <1>10, <1>11, <1>12, <1>13, <1>14

(* The first member of an honest digest, and how many members there are.          *)
LEMMA MembersAre ==
  ASSUME Plannable, NEW series \in Seq(Slcs), Len(series) >= 1,
         NEW n, n = NumGenerations(Len(series)), NEW members, members = MembersOf(series)
  PROVE  /\ n \in Nat /\ n >= 1 /\ IsList(members, n) /\ Len(members) = n
         /\ Append(members[1], members[1][1]) # members[1]
<1>1. PICK l : l = Len(series)
  OBVIOUS
<1>2. l \in Nat /\ l >= 1 /\ MinistackSize \in Nat /\ MinistackSize >= 2
  BY <1>1, PlannerAssumption DEF Plannable
<1>3. n \in Nat /\ n >= 1
  BY <1>1, <1>2, CountOf
<1>4. members = [k \in 1 .. n |-> SubSeq(series, (k - 1) * MinistackSize + 1,
                                         Smaller(k * MinistackSize, l))]
  BY <1>1 DEF MembersOf
<1>5. IsList(members, n)
  BY <1>3, <1>4 DEF IsList
<1>6. Len(members) = n
  BY <1>5, ListIsSequence
<1>7. PICK b : b = Smaller(MinistackSize, l)
  OBVIOUS
<1>8. b \in Nat /\ b <= l
  BY <1>2, <1>7 DEF Smaller
<1>9. members[1] = SubSeq(series, 1, b)
  <2>1. (1 - 1) * MinistackSize + 1 = 1 /\ 1 * MinistackSize = MinistackSize
    BY <1>2
  <2>2. 1 \in 1 .. n
    BY <1>3
  <2>3. members[1] = SubSeq(series, (1 - 1) * MinistackSize + 1, Smaller(1 * MinistackSize, l))
    BY <1>4, <2>2
  <2>. QED
    BY <1>7, <2>1, <2>3
<1>10. SubSeq(series, 1, b) \in Seq(Slcs)
  BY <1>1, <1>8
<1>11. \A x : Append(SubSeq(series, 1, b), x) # SubSeq(series, 1, b)
  <2>1. PICK v : v = SubSeq(series, 1, b)
    OBVIOUS
  <2>2. SUFFICES ASSUME NEW x PROVE Append(v, x) # v
    BY <2>1
  <2>3. v \in Seq(Slcs \cup {x})
    BY <1>10, <2>1
  <2>4. Len(Append(v, x)) = Len(v) + 1 /\ Len(v) \in Nat
    BY <2>3
  <2>. QED
    BY <2>4
<1>. QED
  BY <1>3, <1>5, <1>6, <1>9, <1>11

(* An update that is accepted goes on from a capture of what came before, whatever   *)
(* its request got wrong was refused.                                        *)
LEMMA UpdateStep ==
  ASSUME RevisionInv, NEW i \in DOMAIN revisions, NEW parent \in DOMAIN revisions,
         NEW new \in Arrivals(i), NEW req \in UpdateRequests(i, new),
         Update(i, parent, new, req)
  PROVE  RevisionInv'
<1>1. /\ Revisions /\ Registers /\ revisions' = revisions /\ writer' = writer
      /\ UpdateAccepted(i, parent, new, req)
  BY DEF RevisionInv, Update
<1>2. PICK r, q, state, file : /\ r = revisions[i] /\ q = revisions[parent]
                               /\ state = r.state /\ file = q.file
  OBVIOUS
<1>3. PICK s, longer, y : /\ s = Len(state.sealed) /\ longer = r.series \o new
                          /\ y = writer
  OBVIOUS
<1>4. /\ Plannable /\ Revised(r) /\ new \in Seq(Slcs) /\ Len(new) >= 1
  BY <1>1, <1>2, ArrivalsAre
<1>5. Extends(r, new, longer, s)
  BY <1>2, <1>3, <1>4, ExtendedIs
<1>6. PICK n, h : n = NumGenerations(Len(longer)) /\ h = NumGenerations(Len(r.series))
  OBVIOUS
<1>7. /\ Sealed(state.registry) = 1 .. s /\ s \in Nat /\ s < n /\ s <= h
      /\ TotalDates(state, new) = Len(longer) /\ longer \in Seq(Slcs)
      /\ r.series \in Seq(Slcs) /\ Len(r.series) <= Len(longer)
      /\ \A j \in 1 .. Len(r.series) : longer[j] = r.series[j]
      /\ s * MinistackSize <= Len(r.series) /\ s * MinistackSize < Len(longer)
      /\ state.open \o new = OpenPart(longer, s)
  BY <1>2, <1>5, <1>6 DEF Extends, FullIn
<1>8. PICK d : d = TermsOf(r)
  OBVIOUS
<1>9. RevisedAs(r, d, s, h)
  BY <1>2, <1>3, <1>4, <1>6, <1>8 DEF Revised
<1>10. Prefix(state.sealed, d, s) /\ Generations(state.registry, d, h)
  BY <1>2, <1>9 DEF RevisedAs
<1>11. /\ d.series = r.series /\ d.mask = state.mask /\ d.config = state.config
       /\ d.model = state.model
  BY <1>2, <1>8 DEF TermsOf
<1>12. /\ IdentityAgrees(state, file, req) /\ TopologyAccepted(Len(longer), req)
       /\ y # None /\ y.written = << >> /\ y.registry = UpdatePlan(state, new, req)
       /\ FitsPlan(y.registry, Len(longer), req)
       /\ \A k \in 1 .. s : req.members[k] = state.registry[k].member
       /\ Sealed(file.registry) # {}
  BY <1>1, <1>2, <1>3, <1>7 DEF UpdateAccepted, UpdatePlanned, DestinationUntouched,
     ReceiptsCarried, SealedBlocksValid
<1>13. /\ req.mask = state.mask /\ req.config = state.config /\ req.model = state.model
       /\ file.registry = state.registry
  BY <1>12 DEF IdentityAgrees
<1>14. s >= 1 /\ 1 \in 1 .. s /\ 1 \in 1 .. h
  <2>1. 1 .. s # {}
    BY <1>7, <1>12, <1>13
  <2>2. h \in Nat
    <3>1. Len(r.series) \in Nat
      BY <1>7
    <3>. QED
      BY <1>4, <1>6, <3>1, CountOf DEF Plannable
  <2>. QED
    BY <1>7, <2>1, <2>2
<1>15. state.registry[1] = Generation(d, 1)
  BY <1>10, <1>14 DEF Generations
<1>16. PICK one : one = Recaptured(d, 1)
  OBVIOUS
<1>17. /\ state.registry[1].id = one.id /\ state.registry[1].member = one.member
       /\ state.registry[1].digest = one /\ one.id = IdOf(d, 1)
       /\ one.member = MembersOf(r.series)[1] /\ one.tolerance = d.tolerance
  BY <1>11, <1>15, <1>16, GenerationIs, RecapturedIs
<1>18. \A k \in 1 .. s : y.registry[k] = state.registry[k]
  <2>1. y.registry = [k \in 1 .. n |-> IF k \in 1 .. s THEN state.registry[k]
                                       ELSE Provisional(Len(longer), state.mask, req)[k]]
    BY <1>6, <1>7, <1>12 DEF UpdatePlan
  <2>2. n \in Nat
    <3>1. Len(longer) \in Nat
      BY <1>7
    <3>. QED
      BY <1>4, <1>6, <3>1, CountOf DEF Plannable
  <2>3. \A k \in 1 .. s : k \in 1 .. n
    BY <1>7, <2>2
  <2>. QED
    BY <2>1, <2>3
<1>19. req.frame = d.frame
  <2>1. 1 \in DOMAIN y.registry
    <3>1. Registered(y)
      BY <1>1, <1>3, <1>12 DEF Registers
    <3>2. PICK g : g = y.registry
      OBVIOUS
    <3>3. IsList(g, Len(g)) /\ Len(g) >= 1
      BY <3>1, <3>2 DEF Registered
    <3>4. DOMAIN g = 1 .. Len(g) /\ Len(g) \in Nat
      BY <3>3, ListIsSequence DEF IsList
    <3>. QED
      BY <3>2, <3>3, <3>4
  <2>2. y.registry[1].id = << 1, y.registry[1].member, y.registry[1].model, req.frame >>
    BY <1>12, <2>1 DEF FitsPlan
  <2>3. IdOf(d, 1) = << 1, y.registry[1].member, y.registry[1].model, req.frame >>
    BY <1>14, <1>17, <1>18, <2>2
  <2>. QED
    BY <2>3 DEF IdOf
<1>20. PICK a, g, m, f, t : /\ a = req.mask /\ g = req.config /\ m = req.model
                            /\ f = req.frame /\ t = d.tolerance
  OBVIOUS
<1>21. PICK c : c = [series |-> longer, mask |-> a, config |-> g, model |-> m,
                     frame |-> f, tolerance |-> t]
  OBVIOUS
<1>22. /\ c.series = longer /\ c.mask = a /\ c.config = g /\ c.model = m
       /\ c.frame = f /\ c.tolerance = t
  BY <1>21
<1>23. ASSUME NEW k \in 1 .. s
       PROVE  /\ Generation(c, k) = Generation(d, k) /\ Product(c, k) = Product(d, k)
              /\ MembersOf(longer)[k] = MembersOf(r.series)[k]
  <2>1. /\ d.series \in Seq(Slcs) /\ c.series \in Seq(Slcs)
        /\ Len(d.series) <= Len(c.series)
        /\ \A j \in 1 .. Len(d.series) : c.series[j] = d.series[j]
        /\ s * MinistackSize <= Len(d.series)
    BY <1>7, <1>11, <1>22
  <2>2. /\ c.mask = d.mask /\ c.config = d.config /\ c.model = d.model /\ c.frame = d.frame
        /\ c.tolerance = d.tolerance
    BY <1>11, <1>13, <1>19, <1>20, <1>22
  <2>3. /\ Generation(c, k) = Generation(d, k) /\ Product(c, k) = Product(d, k)
        /\ MembersOf(c.series)[k] = MembersOf(d.series)[k]
    BY <1>4, <1>7, <2>1, <2>2, SameBlock
  <2>. QED
    BY <1>11, <1>22, <2>3
<1>24. req.manifest = longer /\ req.members = MembersOf(longer)
  <2>1. PICK members : members = MembersOf(longer)
    OBVIOUS
  <2>2. Len(longer) >= 1 /\ longer \in Seq(Slcs)
    <3>1. PICK z : z = s * MinistackSize
      OBVIOUS
    <3>2. z \in Nat /\ z < Len(longer) /\ Len(longer) \in Nat
      BY <1>7, <3>1, PlannerAssumption, Products
    <3>. QED
      BY <1>7, <3>2
  <2>3. /\ n \in Nat /\ n >= 1 /\ IsList(members, n)
        /\ Append(members[1], members[1][1]) # members[1]
    BY <1>4, <1>6, <2>1, <2>2, MembersAre
  <2>4. longer = revisions[i].series \o new
    BY <1>2, <1>3
  <2>5. /\ req.manifest = longer
        /\ req.members = members \/ Differs(req, members, n)
    <3>1. RequestFor(req, i, new, longer, members, n)
      BY <2>1, <2>3, <2>4 DEF RequestFor
    <3>. QED
      BY <3>1, RequestsAre
  <2>6. Len(req.members) = n
    BY <1>6, <1>12 DEF TopologyAccepted
  <2>7. req.members[1] = members[1]
    <3>1. req.members[1] = MembersOf(r.series)[1]
      BY <1>12, <1>14, <1>17
    <3>. QED
      BY <1>14, <1>23, <2>1, <3>1
  <2>. QED
    BY <2>1, <2>3, <2>5, <2>6, <2>7 DEF Differs
<1>25. PICK e : e = call'
  OBVIOUS
<1>26. PICK tail, seed, kept : /\ tail = state.open \o new /\ seed = state.sealed
                               /\ kept = [k \in 1 .. s |-> state.registry[k]]
  OBVIOUS
<1>27. e = [from |-> i, parent |-> parent, series |-> longer, tail |-> tail,
            seed |-> seed, kept |-> kept, out |-> << >>, req |-> req]
  <2>1. kept = [k \in Sealed(state.registry) |-> state.registry[k]]
    BY <1>7, <1>26
  <2>. QED
    BY <1>2, <1>3, <1>25, <1>26, <2>1 DEF Update
<1>28. /\ e.series = longer /\ e.tail = tail /\ e.seed = seed /\ e.kept = kept
       /\ e.out = << >> /\ e.req = req /\ IsCall(e)
  BY <1>27 DEF IsCall
<1>29. kept = [k \in 1 .. s |-> Generation(c, k)] /\ seed = [k \in 1 .. s |-> Product(c, k)]
  <2>1. \A k \in 1 .. s : state.registry[k] = Generation(c, k)
    <3>1. SUFFICES ASSUME NEW k \in 1 .. s PROVE state.registry[k] = Generation(c, k)
      OBVIOUS
    <3>2. k \in 1 .. h
      <4>1. h \in Nat
        <5>1. Len(r.series) \in Nat
          BY <1>7
        <5>. QED
          BY <1>4, <1>6, <5>1, CountOf DEF Plannable
      <4>. QED
        BY <1>7, <4>1
    <3>3. state.registry[k] = Generation(d, k)
      BY <1>10, <3>2 DEF Generations
    <3>. QED
      BY <1>23, <3>3
  <2>2. seed = [k \in 1 .. s |-> Product(d, k)]
    BY <1>10, <1>26 DEF Prefix
  <2>3. seed = [k \in 1 .. s |-> Product(c, k)]
    BY <1>23, <2>2
  <2>. QED
    BY <1>26, <2>1, <2>3
<1>30. TermsIn(e) = c
  <2>1. Len(e.seed) # 0
    BY <1>3, <1>14, <1>26, <1>28
  <2>2. e.kept[1].digest.tolerance = t
    <3>1. kept[1] = state.registry[1]
      BY <1>14, <1>26
    <3>. QED
      BY <1>17, <1>20, <1>28, <3>1
  <2>3. TermsIn(e) = [series |-> longer, mask |-> a, config |-> g, model |-> m,
                      frame |-> f, tolerance |-> t]
    BY <1>20, <1>28, <2>1, <2>2 DEF TermsIn
  <2>. QED
    BY <1>21, <2>3
<1>31. Handed(e, c, s)
  <2>1. e.seed = [k \in 1 .. s |-> Product(c, k)] /\ e.kept = [k \in 1 .. s |-> Generation(c, k)]
    BY <1>28, <1>29
  <2>2. e.tail = OpenPart(e.series, s)
    BY <1>7, <1>26, <1>28
  <2>3. /\ e.series \in Seq(Slcs) /\ s \in Nat /\ s * MinistackSize < Len(e.series)
        /\ e.req.members = MembersOf(e.series) /\ e.req.manifest = e.series
    BY <1>7, <1>24, <1>28
  <2>. QED
    BY <1>4, <1>28, <2>1, <2>2, <2>3 DEF Handed
<1>32. y.registry = [k \in 1 .. n |-> IF k <= s THEN Generation(c, k) ELSE Begun(c, k, FALSE)]
  <2>1. y.registry = [k \in 1 .. n |-> IF k \in 1 .. s THEN state.registry[k]
                                       ELSE Provisional(Len(longer), state.mask, req)[k]]
    BY <1>6, <1>7, <1>12 DEF UpdatePlan
  <2>2. \A k \in 1 .. n : ~ (k <= s) =>
          Provisional(Len(longer), state.mask, req)[k] = Begun(c, k, FALSE)
    <3>1. SUFFICES ASSUME NEW k \in 1 .. n
          PROVE Provisional(Len(longer), state.mask, req)[k] = Begun(c, k, FALSE)
      OBVIOUS
    <3>2. /\ Len(c.series) \in Nat /\ req.members = MembersOf(c.series) /\ req.model = c.model
          /\ req.frame = c.frame /\ req.config = c.config
          /\ k \in 1 .. NumGenerations(Len(c.series))
      BY <1>6, <1>7, <1>20, <1>22, <1>24
    <3>3. Provisional(Len(c.series), c.mask, req)[k] = Begun(c, k, FALSE)
      BY <1>4, <3>2, PlannedIsBegun
    <3>. QED
      BY <1>13, <1>20, <1>22, <3>3
  <2>3. \A k \in 1 .. n : k \in 1 .. s <=> k <= s
    BY <1>7
  <2>4. \A k \in 1 .. s : state.registry[k] = Generation(c, k)
    BY <1>26, <1>29
  <2>. QED
    BY <2>1, <2>2, <2>3, <2>4
<1>33. Continues(e, y)
  <2>1. IsWriter(y)
    BY <1>1, <1>3, <1>12 DEF Registers, Registered
  <2>2. s = Len(e.seed) /\ n = NumGenerations(Len(e.series)) /\ c = TermsIn(e)
    BY <1>3, <1>6, <1>26, <1>28, <1>30
  <2>3. /\ Handed(e, c, s) /\ e.out = << >> /\ y.written = << >>
        /\ y.registry = [k \in 1 .. n |-> IF k <= s THEN Generation(c, k) ELSE Begun(c, k, FALSE)]
    BY <1>12, <1>28, <1>31, <1>32
  <2>. QED
    BY ONLY <2>1, <2>2, <2>3, Starts
<1>. QED
  BY <1>1, <1>3, <1>25, <1>33, Continued

-------------------------------------------------------------------------------
(***************************************************************************)
(* The theorems                                                            *)
(***************************************************************************)

(* Every revision, writer and call in progress is, at every step, what one capture    *)
(* of its whole series under one set of terms makes of it, or has made so far.     *)
THEOREM RevisionInvariant == Spec => []RevisionInv
<1>1. Init => RevisionInv
  <2>1. SUFFICES ASSUME Init PROVE RevisionInv
    OBVIOUS
  <2>2. revisions = << >> /\ writer = None /\ call = None
    BY <2>1 DEF Init
  <2>3. IsList(revisions, Len(revisions)) /\ DOMAIN revisions = {}
    BY <2>2 DEF IsList
  <2>. QED
    BY <2>2, <2>3 DEF RevisionInv, Revisions, Registers, Revising
<1>2. RevisionInv /\ [Next]_vars => RevisionInv'
  <2>1. SUFFICES ASSUME RevisionInv, [Next]_vars PROVE RevisionInv'
    OBVIOUS
  <2>2. CASE \E stack \in Stacks(MaxArrivals) :
               \E req \in CaptureRequests(stack) : Capture(stack, req)
    BY <2>1, <2>2, CaptureStep
  <2>3. CASE \E i \in DOMAIN revisions : \E new \in Arrivals(i) :
               \E req \in UpdateRequests(i, new) : CreateDestination(i, new, req)
    BY <2>1, <2>3, CreateDestinationStep
  <2>4. CASE \E i, parent \in DOMAIN revisions : \E new \in Arrivals(i) :
               \E req \in UpdateRequests(i, new) : Update(i, parent, new, req)
    BY <2>1, <2>4, UpdateStep
  <2>5. CASE CopyNext
    BY <2>1, <2>5, CopyNextStep
  <2>6. CASE LinkNext
    BY <2>1, <2>6, LinkNextStep
  <2>7. CASE Fail
    BY <2>1, <2>7, FailStep
  <2>8. CASE Return
    BY <2>1, <2>8, ReturnStep
  <2>9. CASE Finish
    BY <2>1, <2>9, FinishStep
  <2>10. CASE Drop
    <3>1. revisions' = revisions /\ writer' = None /\ call' = None /\ Revisions
      BY <2>1, <2>10 DEF Drop, RevisionInv
    <3>2. Revisions'
      BY <3>1, RevisionsKept
    <3>. QED
      BY <3>1, <3>2 DEF RevisionInv, Registers, Revising
  <2>11. CASE UNCHANGED vars
    <3>1. revisions' = revisions /\ writer' = writer /\ call' = call
      BY <2>11 DEF vars
    <3>2. Revisions'
      BY <2>1, <3>1, RevisionsKept DEF RevisionInv
    <3>3. Registers'
      BY <2>1, <3>1 DEF RevisionInv, Registers, Registered, IsWriter, IsList
    <3>4. Revising'
      <4>1. CASE call = None
        BY <3>1, <4>1 DEF Revising
      <4>2. CASE call # None
        <5>1. Continues(call, writer) /\ Revisions
          BY <2>1, <4>2 DEF RevisionInv, Revising
        <5>. QED
          BY <3>1, <5>1, Continued DEF RevisionInv
      <4>. QED
        BY <4>1, <4>2
    <3>. QED
      BY <3>2, <3>3, <3>4 DEF RevisionInv
  <2>. QED
    BY <2>1, <2>2, <2>3, <2>4, <2>5, <2>6, <2>7, <2>8, <2>9, <2>10, <2>11 DEF Next
<1>. QED
  BY <1>1, <1>2, PTL DEF Spec

(* The revision that was finished last.                                        *)
LEMMA FinishedOnes ==
  ASSUME RevisionInv, JustFinished, NEW i, i = Len(revisions), NEW r, r = revisions[i]
  PROVE  Plannable /\ Revised(r) /\ r.file # None /\ Last(revisions) = r
<1>1. IsList(revisions, i) /\ \A j \in 1 .. i : Plannable /\ Revised(revisions[j])
  BY ListIsSequence DEF RevisionInv, Revisions
<1>2. revisions \in Seq({revisions[k] : k \in 1 .. i}) /\ i \in Nat
  BY <1>1, ListIsSequence DEF IsList
<1>3. revisions # << >>
  BY DEF JustFinished
<1>4. i # 0
  BY <1>2, <1>3
<1>5. i \in 1 .. i
  BY <1>2, <1>4
<1>6. Last(revisions) = r
  BY DEF Last
<1>. QED
  BY <1>1, <1>5, <1>6 DEF JustFinished

(* Whatever parents a revision was copied from and however often a call failed, what   *)
(* is finished is the capture of the whole series                             *)
(* (update_sequential_with_covariance_capture_impl).                          *)
THEOREM RevisionsAreRecaptures == Spec => []RevisionIsRecapture
<1>1. RevisionInv => RevisionIsRecapture
  <2>1. SUFFICES ASSUME RevisionInv, JustFinished PROVE RevisionIsRecapture
    BY DEF RevisionIsRecapture
  <2>2. PICK i, r : i = Len(revisions) /\ r = revisions[i]
    OBVIOUS
  <2>3. Plannable /\ Revised(r) /\ r.file # None
    BY <2>1, <2>2, FinishedOnes
  <2>4. PICK c, s, n, registry, blocks :
          /\ c = TermsOf(r) /\ s = Len(r.state.sealed) /\ n = NumGenerations(Len(r.series))
          /\ registry = r.file.registry /\ blocks = r.file.blocks
    OBVIOUS
  <2>5. RevisedAs(r, c, s, n)
    BY <2>3, <2>4 DEF Revised
  <2>6. /\ r.series \in Seq(Slcs) /\ Generations(r.state.registry, c, n)
        /\ r.output = RunSequential(r.series, r.state.mask)
        /\ IsFile(r.file, r.state.registry, c, n)
    BY <2>3, <2>5 DEF RevisedAs
  <2>7. /\ registry = [k \in 1 .. n |-> Generation(c, k)]
        /\ blocks = [k \in 1 .. n |-> Recaptured(c, k)]
    BY <2>4, <2>6 DEF IsFile, Generations
  <2>8. PICK whole : whole = BatchBlocks(r.series, r.state.mask)
    OBVIOUS
  <2>9. IsList(whole, n) /\ Len(whole) = n /\ DOMAIN whole = 1 .. n
    <3>1. Len(r.series) \in Nat
      BY <2>6
    <3>2. Links(r.series, r.state.mask, whole, n)
      BY <2>3, <2>4, <2>8, <3>1, BatchLinks
    <3>3. IsList(whole, n)
      BY <3>2 DEF Links
    <3>. QED
      BY <3>3, ListIsSequence
  <2>10. Len(blocks) = n
    <3>1. IsList(blocks, n)
      BY <2>7, <2>9 DEF IsList
    <3>. QED
      BY <3>1, ListIsSequence
  <2>11. PICK members, req : /\ members = MembersOf(r.series)
                             /\ req = [HonestUpdate(i, << >>) EXCEPT !.members = members]
    OBVIOUS
  <2>12. /\ c.series = r.series /\ c.mask = r.state.mask /\ c.config = r.state.config
         /\ c.model = r.state.model /\ c.frame = r.state.registry[1].id[4]
    BY <2>4 DEF TermsOf
  <2>13. /\ req.members = MembersOf(c.series) /\ req.model = c.model /\ req.frame = c.frame
         /\ req.config = c.config
    <3>1. PICK h, a, g, m, p, f, t, l, o :
            /\ h = HonestUpdate(i, << >>)
            /\ a = r.state.mask /\ g = r.state.config /\ m = r.state.model
            /\ p = r.state.manifest /\ f = r.state.registry[1].id[4]
            /\ t = r.state.registry[1].digest.tolerance
            /\ l = r.series \o << >> /\ o = MembersOf(l)
      OBVIOUS
    <3>2. h = [mask |-> a, config |-> g, model |-> m, prior |-> p, manifest |-> l,
               members |-> o, frame |-> f, tolerance |-> t, cap |-> "enough"]
      BY <2>2, <3>1 DEF HonestUpdate, Honest
    <3>3. req = [h EXCEPT !.members = members]
      BY <2>11, <3>1
    <3>4. req.members = members /\ req.model = m /\ req.frame = f /\ req.config = g
      BY <3>2, <3>3
    <3>. QED
      BY <2>11, <2>12, <3>1, <3>4
  <2>14. PICK topology : topology = Topology(Len(r.series), req)
    OBVIOUS
  <2>15. ASSUME NEW k \in 1 .. n
         PROVE  /\ blocks[k].product = whole[k]
                /\ blocks[k].id = topology[k].id /\ blocks[k].parents = topology[k].parents
                /\ blocks[k].tolerance = blocks[1].tolerance
                /\ registry[k].digest = blocks[k] /\ registry[k].id = blocks[k].id
                /\ registry[k].sealed = (registry[k].count = MinistackSize)
                /\ registry[k].mask = r.state.mask /\ registry[k].config = r.state.config
    <3>1. PICK b, g : b = Recaptured(c, k) /\ g = Generation(c, k)
      OBVIOUS
    <3>2. blocks[k] = b /\ registry[k] = g
      BY <2>7, <3>1
    <3>3. /\ b.product = Product(c, k) /\ b.id = IdOf(c, k) /\ b.tolerance = c.tolerance
      BY <3>1, RecapturedIs
    <3>4. /\ g.digest = b /\ g.id = b.id /\ g.count = b.count /\ g.sealed = IsSealed(b.count)
          /\ g.mask = c.mask /\ g.config = c.config
      BY <3>1, GenerationIs
    <3>5. topology[k].id = IdOf(c, k) /\ topology[k].parents = b.parents
      <4>1. Len(c.series) \in Nat /\ k \in 1 .. NumGenerations(Len(c.series))
        BY <2>4, <2>6, <2>12
      <4>2. Topology(Len(c.series), req)[k] =
              [id |-> IdOf(c, k), start |-> Recaptured(c, k).start,
               count |-> Recaptured(c, k).count, parents |-> Recaptured(c, k).parents]
        BY <2>3, <2>13, <4>1, PlannedIsBegun
      <4>3. topology[k] = Topology(Len(c.series), req)[k]
        BY <2>12, <2>14
      <4>. QED
        BY <3>1, <4>2, <4>3
    <3>6. Product(c, k) = whole[k]
      BY <2>8, <2>12 DEF Product
    <3>7. blocks[1].tolerance = c.tolerance
      <4>1. 1 \in 1 .. n
        BY <2>9 DEF IsList
      <4>2. blocks[1] = Recaptured(c, 1)
        BY <2>7, <4>1
      <4>. QED
        BY <4>2, RecapturedIs
    <3>8. IsSealed(b.count) = (b.count = MinistackSize)
      BY DEF IsSealed
    <3>. QED
      BY <2>12, <3>2, <3>3, <3>4, <3>5, <3>6, <3>7, <3>8
  <2>. QED
    BY <2>2, <2>4, <2>6, <2>8, <2>9, <2>10, <2>11, <2>14, <2>15 DEF RevisionIsRecapture
<1>. QED
  BY <1>1, RevisionInvariant, PTL

(* seal_writer_generations refuses no call that has linked everything: the two ways    *)
(* the registry is built meet.                                               *)
THEOREM RegistriesAlwaysMeet == Spec => []RegistriesMeet
<1>1. RevisionInv => RegistriesMeet
  <2>1. SUFFICES ASSUME RevisionInv, AllLinked PROVE SealAgrees(StateAfter)
    BY DEF RegistriesMeet
  <2>2. Continues(call, writer)
    BY <2>1 DEF RevisionInv, Revising, AllLinked
  <2>. QED
    BY <2>1, <2>2, SealsAgree
<1>. QED
  BY <1>1, RevisionInvariant, PTL

(* The blocks of a tail always resolve their references.                         *)
LEMMA TailAccepted ==
  ASSUME Plannable, NEW n \in Nat, NEW s \in Nat
  PROVE  PlanAccepted(n, s)
<1>1. MinistackSize >= 2 /\ MinistackSize \in Nat
  BY PlannerAssumption DEF Plannable
<1>2. SUFFICES ASSUME NEW i \in BatchIndices(n)
      PROVE  LET ms == PlanWithOffset(n, s)[i]
             IN  /\ ReferenceResolves(ms.output_reference_idx, Size(ms))
                 /\ ReferenceResolves(ms.compressed_reference_idx, Size(ms))
  BY <1>1 DEF PlanAccepted
<1>3. i \in 1 .. NumGenerations(n)
  BY <1>1, CountOf
<1>4. PICK ms, carried, start, real :
        /\ ms = PlanWithOffset(n, s)[i] /\ start = (i - 1) * MinistackSize
        /\ carried = Smaller(s + i - 1, MaxNumCompressed)
        /\ real = Smaller(MinistackSize, n - start)
  OBVIOUS
<1>5. /\ ms = [block_id |-> s + i - 1, num_compressed |-> carried, real_start |-> start,
               num_real |-> real, output_reference_idx |-> 0, compressed_reference_idx |-> 0]
      /\ real \in 1 .. MinistackSize /\ carried \in 0 .. s + i - 1
  BY <1>3, <1>4, BlockIs
<1>6. /\ ms.output_reference_idx = 0 /\ ms.compressed_reference_idx = 0
      /\ ms.num_compressed = carried /\ ms.num_real = real
  BY <1>5
<1>7. Size(ms) = carried + real
  BY <1>6 DEF Size
<1>8. real >= 1 /\ real \in Nat /\ carried \in Nat
  <2>1. s + i - 1 \in Int
    BY <1>3
  <2>. QED
    BY <1>1, <1>5, <2>1
<1>9. \A z \in Nat : z >= 1 => ReferenceResolves(0, z)
  BY DEF ReferenceResolves
<1>. QED
  BY <1>4, <1>6, <1>7, <1>8, <1>9

(* A sealed generation is planned as it was.                                   *)
LEMMA SameGenerations ==
  ASSUME NEW d, NEW k, NEW planned, planned = Begun(d, k, FALSE),
         NEW kept, kept = Generation(d, k), kept.sealed
  PROVE  SameGeneration(planned, kept)
<1>1. PICK b, y : b = Recaptured(d, k) /\ y = IsSealed(b.count)
  OBVIOUS
<1>2. kept.sealed = y /\ kept.digest = b /\ kept.id = b.id
  BY <1>1, GenerationIs
<1>3. y = TRUE
  BY <1>1, <1>2 DEF IsSealed
<1>4. PICK m, s, c, o, g, a, i, u :
        /\ m = b.member /\ s = b.start /\ c = b.count /\ o = d.model /\ g = d.config
        /\ a = d.mask /\ i = b.id /\ u = Unwritten
  OBVIOUS
<1>5. kept = [member |-> m, start |-> s, count |-> c, model |-> o, config |-> g, mask |-> a,
              id |-> i, digest |-> b, sealed |-> TRUE]
  <2>1. kept = Stage(d, k, b, y)
    BY <1>1 DEF Generation
  <2>. QED
    BY <1>1, <1>3, <1>4, <2>1 DEF Stage
<1>6. planned = [member |-> m, start |-> s, count |-> c, model |-> o, config |-> g, mask |-> a,
                 id |-> i, digest |-> u, sealed |-> FALSE]
  BY <1>1, <1>4 DEF Begun, Stage
<1>7. kept.id = i /\ kept.digest = b
  BY <1>2, <1>4
<1>8. PICK no, yes, j, e : /\ no = FALSE /\ yes = TRUE /\ j = kept.id /\ e = kept.digest
  OBVIOUS
<1>9. PICK q : q = [planned EXCEPT !.id = j, !.digest = e, !.sealed = yes]
  OBVIOUS
<1>10. planned = [member |-> m, start |-> s, count |-> c, model |-> o, config |-> g,
                  mask |-> a, id |-> i, digest |-> u, sealed |-> no]
  BY <1>6, <1>8
<1>11. q = [member |-> m, start |-> s, count |-> c, model |-> o, config |-> g,
            mask |-> a, id |-> j, digest |-> e, sealed |-> yes]
  <2>1. PICK v : v = [planned EXCEPT !.id = j]
    OBVIOUS
  <2>2. v = [member |-> m, start |-> s, count |-> c, model |-> o, config |-> g,
             mask |-> a, id |-> j, digest |-> u, sealed |-> no]
    BY <1>10, <2>1
  <2>3. PICK w : w = [v EXCEPT !.digest = e]
    OBVIOUS
  <2>4. w = [member |-> m, start |-> s, count |-> c, model |-> o, config |-> g,
             mask |-> a, id |-> j, digest |-> e, sealed |-> no]
    BY <2>2, <2>3
  <2>5. PICK x : x = [w EXCEPT !.sealed = yes]
    OBVIOUS
  <2>6. x = [member |-> m, start |-> s, count |-> c, model |-> o, config |-> g,
             mask |-> a, id |-> j, digest |-> e, sealed |-> yes]
    BY <2>4, <2>5
  <2>7. q = x
    BY ONLY <1>9, <2>1, <2>3, <2>5
  <2>. QED
    BY <2>6, <2>7
<1>12. q = kept
  BY <1>5, <1>7, <1>8, <1>11
<1>. QED
  BY <1>8, <1>9, <1>12 DEF SameGeneration

(* A chain of updates never locks a series out: what a revision carries is accepted     *)
(* for its next arrivals exactly when the longer series would be from scratch      *)
(* (plan_sequential_covariance_update).                                      *)
THEOREM RevisionsExtendLikeCaptures == Spec => []ExtendsLikeACapture
<1>1. RevisionInv => ExtendsLikeACapture
  <2>1. SUFFICES ASSUME RevisionInv, JustFinished,
                        Sealed(Last(revisions).state.registry) # {},
                        NEW i, i = Len(revisions), NEW new \in Stacks(MaxArrivals),
                        NEW state, state = revisions[i].state,
                        NEW req, req = HonestUpdate(i, new)
        PROVE  CaptureAccepted(revisions[i].series \o new, [req EXCEPT !.prior = None])
               <=> /\ UpdatePlanned(state, new, req)
                   /\ FitsPlan(UpdatePlan(state, new, req), TotalDates(state, new), req)
                   /\ IdentityAgrees(state, revisions[i].file, req)
                   /\ ReceiptsCarried(state, req)
                   /\ PlanAccepted(Len(state.open) + Len(new), Len(state.sealed))
    BY DEF ExtendsLikeACapture
  <2>2. PICK r, longer, s : /\ r = revisions[i] /\ longer = r.series \o new
                            /\ s = Len(state.sealed)
    OBVIOUS
  <2>3. Plannable /\ Revised(r) /\ r.file # None
    BY <2>1, <2>2, FinishedOnes
  <2>4. new \in Seq(Slcs) /\ Len(new) \in Nat /\ Len(new) >= 1 /\ new # << >>
    BY RevisionAssumption, StackIsSeries
  <2>5. Extends(r, new, longer, s)
    BY <2>1, <2>2, <2>3, <2>4, ExtendedIs
  <2>6. PICK n, h, l : /\ n = NumGenerations(Len(longer)) /\ h = NumGenerations(Len(r.series))
                       /\ l = Len(longer)
    OBVIOUS
  <2>7. /\ Sealed(state.registry) = 1 .. s /\ Cardinality(Sealed(state.registry)) = s
        /\ s \in Nat /\ s < n /\ s <= h
        /\ TotalDates(state, new) = l /\ longer \in Seq(Slcs)
        /\ r.series \in Seq(Slcs) /\ Len(r.series) <= Len(longer)
        /\ \A j \in 1 .. Len(r.series) : longer[j] = r.series[j]
        /\ s * MinistackSize <= Len(r.series) /\ s * MinistackSize < Len(longer)
        /\ Len(state.open) + Len(new) = Len(longer) - s * MinistackSize
    BY <2>1, <2>2, <2>5, <2>6 DEF Extends, FullIn
  <2>8. PICK c : c = TermsOf(r)
    OBVIOUS
  <2>9. RevisedAs(r, c, s, h)
    BY <2>1, <2>2, <2>3, <2>6, <2>8 DEF Revised
  <2>10. /\ Generations(state.registry, c, h) /\ r.state.manifest = r.series
         /\ IsFile(r.file, state.registry, c, h)
    BY <2>1, <2>2, <2>3, <2>9 DEF RevisedAs
  <2>11. /\ c.series = r.series /\ c.mask = state.mask /\ c.config = state.config
         /\ c.model = state.model /\ c.frame = state.registry[1].id[4]
    BY <2>1, <2>2, <2>8 DEF TermsOf
  <2>12. PICK a, g, m, p, f, t, members :
           /\ a = state.mask /\ g = state.config /\ m = state.model /\ p = state.manifest
           /\ f = state.registry[1].id[4] /\ t = state.registry[1].digest.tolerance
           /\ members = MembersOf(longer)
    OBVIOUS
  <2>13. req = [mask |-> a, config |-> g, model |-> m, prior |-> p, manifest |-> longer,
                members |-> members, frame |-> f, tolerance |-> t, cap |-> "enough"]
    BY <2>1, <2>2, <2>12 DEF HonestUpdate, Honest
  <2>14. /\ req.mask = a /\ req.config = g /\ req.model = m /\ req.prior = p
         /\ req.members = members /\ req.frame = f
    BY <2>13
  <2>15. PICK q : q = [req EXCEPT !.prior = None]
    OBVIOUS
  <2>16. q.prior = None /\ q.members = members
    BY <2>13, <2>15
  <2>17. TopologyAccepted(l, q) <=> TopologyAccepted(l, req)
    BY <2>14, <2>16 DEF TopologyAccepted
  <2>18. CaptureAccepted(longer, q) <=> TopologyAccepted(l, req)
    BY <2>6, <2>16, <2>17 DEF CaptureAccepted
  <2>19. PICK d : d = [series |-> longer, mask |-> a, config |-> g, model |-> m, frame |-> f,
                       tolerance |-> c.tolerance]
    OBVIOUS
  <2>20. /\ d.series = longer /\ d.mask = a /\ d.config = g /\ d.model = m /\ d.frame = f
         /\ d.tolerance = c.tolerance
    BY <2>19
  <2>21. n \in Nat /\ h \in Nat /\ l \in Nat
    <3>1. Len(longer) \in Nat /\ Len(r.series) \in Nat
      BY <2>7
    <3>. QED
      BY <2>3, <2>6, <3>1, CountOf DEF Plannable
  <2>22. ASSUME NEW k \in 1 .. s
         PROVE  /\ state.registry[k] = Generation(d, k) /\ k \in 1 .. n /\ state.registry[k].sealed
                /\ state.registry[k].member = members[k]
    <3>1. /\ c.series \in Seq(Slcs) /\ d.series \in Seq(Slcs) /\ Len(c.series) <= Len(d.series)
          /\ \A j \in 1 .. Len(c.series) : d.series[j] = c.series[j]
          /\ s * MinistackSize <= Len(c.series)
      BY <2>7, <2>11, <2>20
    <3>2. /\ d.mask = c.mask /\ d.config = c.config /\ d.model = c.model /\ d.frame = c.frame
          /\ d.tolerance = c.tolerance
      BY <2>11, <2>12, <2>20
    <3>3. Generation(d, k) = Generation(c, k) /\ MembersOf(d.series)[k] = MembersOf(c.series)[k]
      BY <2>3, <2>7, <3>1, <3>2, SameBlock
    <3>4. k \in 1 .. h /\ k \in 1 .. n
      BY <2>7, <2>21
    <3>5. state.registry[k] = Generation(c, k)
      BY <2>10, <3>4 DEF Generations
    <3>6. state.registry[k].sealed
      BY <2>7 DEF Sealed
    <3>7. Generation(d, k).member = members[k]
      <4>1. Generation(d, k).member = Recaptured(d, k).member
        BY GenerationIs
      <4>2. Recaptured(d, k).member = MembersOf(d.series)[k]
        BY RecapturedIs
      <4>. QED
        BY <2>12, <2>20, <4>1, <4>2
    <3>. QED
      BY <3>3, <3>4, <3>5, <3>6, <3>7
  <2>23. ASSUME NEW k \in 1 .. n
         PROVE  /\ Provisional(l, state.mask, req)[k] = Begun(d, k, FALSE)
                /\ Topology(l, req)[k] =
                     [id |-> IdOf(d, k), start |-> Recaptured(d, k).start,
                      count |-> Recaptured(d, k).count, parents |-> Recaptured(d, k).parents]
    <3>1. /\ Len(d.series) \in Nat /\ req.members = MembersOf(d.series) /\ req.model = d.model
          /\ req.frame = d.frame /\ req.config = d.config
          /\ k \in 1 .. NumGenerations(Len(d.series))
      BY <2>6, <2>12, <2>14, <2>20, <2>21
    <3>2. /\ Provisional(Len(d.series), d.mask, req)[k] = Begun(d, k, FALSE)
          /\ Topology(Len(d.series), req)[k] =
               [id |-> IdOf(d, k), start |-> Recaptured(d, k).start,
                count |-> Recaptured(d, k).count, parents |-> Recaptured(d, k).parents]
      BY <2>3, <3>1, PlannedIsBegun
    <3>. QED
      BY <2>6, <2>12, <2>20, <3>2
  <2>24. UpdatePlanned(state, new, req) <=> TopologyAccepted(l, req)
    <3>1. /\ req.prior = state.manifest /\ req.config = state.config /\ req.model = state.model
          /\ new # << >>
      BY <2>4, <2>12, <2>14
    <3>2. \A k \in Sealed(state.registry) :
            /\ k <= NumGenerations(TotalDates(state, new))
            /\ SameGeneration(Provisional(TotalDates(state, new), state.mask, req)[k],
                              state.registry[k])
      <4>1. SUFFICES ASSUME NEW k \in 1 .. s
            PROVE  k <= n /\ SameGeneration(Provisional(l, state.mask, req)[k], state.registry[k])
        BY <2>6, <2>7
      <4>2. k <= n
        BY <2>7, <2>21
      <4>3. PICK planned, kept : /\ planned = Provisional(l, state.mask, req)[k]
                                 /\ kept = state.registry[k]
        OBVIOUS
      <4>4. planned = Begun(d, k, FALSE) /\ kept = Generation(d, k) /\ kept.sealed
        BY <2>22, <2>23, <4>3
      <4>5. SameGeneration(planned, kept)
        BY <4>4, SameGenerations
      <4>. QED
        BY <4>2, <4>3, <4>5
    <3>. QED
      BY <2>7, <3>1, <3>2 DEF UpdatePlanned
  <2>25. FitsPlan(UpdatePlan(state, new, req), l, req)
    <3>1. PICK registry : registry = UpdatePlan(state, new, req)
      OBVIOUS
    <3>2. registry = [k \in 1 .. n |-> IF k \in 1 .. s THEN state.registry[k]
                                       ELSE Provisional(l, state.mask, req)[k]]
      BY <2>6, <2>7, <3>1 DEF UpdatePlan
    <3>3. SUFFICES ASSUME NEW k \in 1 .. n
          PROVE  /\ registry[k].id = << k, registry[k].member, registry[k].model, req.frame >>
                 /\ registry[k].start = Topology(l, req)[k].start
                 /\ registry[k].count = Topology(l, req)[k].count
      BY <3>1, <3>2 DEF FitsPlan
    <3>4. PICK x, b : x = registry[k] /\ b = Recaptured(d, k)
      OBVIOUS
    <3>5. x = Generation(d, k) \/ x = Begun(d, k, FALSE)
      BY <2>22, <2>23, <3>2, <3>4
    <3>6. /\ x.id = b.id /\ x.member = b.member /\ x.model = d.model
          /\ x.start = b.start /\ x.count = b.count
      <4>1. CASE x = Generation(d, k)
        BY <3>4, <4>1, GenerationIs
      <4>2. CASE x = Begun(d, k, FALSE)
        <5>1. PICK no, u : no = FALSE /\ u = Unwritten
          OBVIOUS
        <5>2. x = Stage(d, k, u, no)
          BY <4>2, <5>1 DEF Begun
        <5>. QED
          BY <3>4, <5>2, StageIs
      <4>. QED
        BY <3>5, <4>1, <4>2
    <3>7. b.id = << k, b.member, d.model, d.frame >>
      <4>1. b.id = IdOf(d, k) /\ b.member = MembersOf(d.series)[k]
        BY <3>4, RecapturedIs
      <4>. QED
        BY <4>1 DEF IdOf
    <3>8. Topology(l, req)[k].start = b.start /\ Topology(l, req)[k].count = b.count
      <4>1. PICK block, j : block = Topology(l, req)[k] /\ j = IdOf(d, k)
        OBVIOUS
      <4>2. block = [id |-> j, start |-> b.start, count |-> b.count, parents |-> b.parents]
        BY <2>23, <3>4, <4>1
      <4>3. block.start = b.start /\ block.count = b.count
        BY <4>2
      <4>. QED
        BY <4>1, <4>3
    <3>. QED
      BY <2>14, <2>20, <3>4, <3>6, <3>7, <3>8
  <2>26. IdentityAgrees(state, r.file, req)
    <3>1. r.file.registry = state.registry
      BY <2>10 DEF IsFile
    <3>. QED
      BY <2>12, <2>14, <3>1 DEF IdentityAgrees
  <2>27. ReceiptsCarried(state, req)
    BY <2>2, <2>7, <2>14, <2>22 DEF ReceiptsCarried
  <2>28. PlanAccepted(Len(state.open) + Len(new), s)
    <3>1. PICK z, e : z = s * MinistackSize /\ e = Len(state.open) + Len(new)
      OBVIOUS
    <3>2. z \in Nat /\ z < l /\ e = l - z
      BY <2>6, <2>7, <3>1, PlannerAssumption, Products
    <3>3. e \in Nat
      BY <2>21, <3>2
    <3>. QED
      BY <2>3, <2>7, <3>1, <3>3, TailAccepted
  <2>. QED
    BY <2>2, <2>7, <2>15, <2>18, <2>24, <2>25, <2>26, <2>27, <2>28
<1>. QED
  BY <1>1, RevisionInvariant, PTL
===============================================================================
