--------------------------- MODULE SequentialProofs ---------------------------
(***************************************************************************)
(* Proofs about Sequential, for every ministack size, carry limit,          *)
(* reference plan, mask and kernel.                                        *)
(***************************************************************************)
EXTENDS Sequential, SequenceTheorems, WellFoundedInduction, TLAPS

(***************************************************************************)
(* Sequences                                                               *)
(***************************************************************************)

(* Anything that is a sequence over some set is one over its own elements.  *)
LEMMA SequenceShape ==
  ASSUME NEW S, NEW s \in Seq(S)
  PROVE  IsSequence(s)
<1>1. s \in [1 .. Len(s) -> Range(s)]
  BY DEF Range
<1>2. Len(s) \in Nat
  OBVIOUS
<1>3. QED
  BY <1>1, <1>2, SeqDef DEF IsSequence

(* Append keeps the shape, whatever is appended.                           *)
LEMMA AppendShape ==
  ASSUME NEW s, IsSequence(s), NEW x
  PROVE  /\ IsSequence(Append(s, x))
         /\ Len(Append(s, x)) = Len(s) + 1
         /\ \A i \in 1 .. Len(s) : Append(s, x)[i] = s[i]
         /\ Append(s, x)[Len(s) + 1] = x
<1> DEFINE S == Range(s) \cup {x}
<1>1. s \in Seq(S)
  BY SeqMonotonic DEF IsSequence
<1>2. Append(s, x) \in Seq(S)
  BY <1>1
<1>3. IsSequence(Append(s, x))
  BY <1>2, SequenceShape
<1>4. QED
  BY <1>1, <1>3

(* So does concatenation.                                                  *)
LEMMA ConcatShape ==
  ASSUME NEW s, NEW t, IsSequence(s), IsSequence(t)
  PROVE  /\ IsSequence(s \o t)
         /\ Len(s \o t) = Len(s) + Len(t)
         /\ \A i \in 1 .. Len(s) : (s \o t)[i] = s[i]
         /\ \A i \in 1 .. Len(t) : (s \o t)[Len(s) + i] = t[i]
<1> DEFINE S == Range(s) \cup Range(t)
<1>1. s \in Seq(S) /\ t \in Seq(S)
  BY SeqMonotonic DEF IsSequence
<1>2. s \o t \in Seq(S)
  BY <1>1
<1>3. IsSequence(s \o t)
  BY <1>2, SequenceShape
<1>4. QED
  BY <1>1, <1>3

(* And taking a prefix.                                                    *)
LEMMA PrefixShape ==
  ASSUME NEW s, IsSequence(s), NEW n \in 0 .. Len(s)
  PROVE  /\ IsSequence(SubSeq(s, 1, n))
         /\ Len(SubSeq(s, 1, n)) = n
         /\ \A i \in 1 .. n : SubSeq(s, 1, n)[i] = s[i]
<1>1. s \in Seq(Range(s)) /\ Len(s) \in Nat
  BY DEF IsSequence
<1>2. SubSeq(s, 1, n) \in Seq(Range(s)) /\ Len(SubSeq(s, 1, n)) = n
      /\ \A i \in 1 .. n : SubSeq(s, 1, n)[i] = s[i]
  BY <1>1, SubSeqProperties
<1>3. QED
  BY <1>2, SequenceShape

(***************************************************************************)
(* Plans                                                                   *)
(***************************************************************************)

(* A planned block is never empty, and never larger than a ministack.       *)
LEMMA BatchSize ==
  ASSUME NEW n \in Nat, NEW off \in Nat, NEW i \in BatchIndices(n), MinistackSize >= 2
  PROVE  LET ms == PlanWithOffset(n, off)[i]
         IN  /\ ms.block_id = off + i - 1
             /\ ms.real_start = (i - 1) * MinistackSize
             /\ ms.real_start \in Nat
             /\ ms.num_real = Smaller(MinistackSize, n - (i - 1) * MinistackSize)
             /\ ms.num_real \in 1 .. MinistackSize
             /\ ms.real_start + ms.num_real <= n
             /\ ms.num_compressed = Smaller(off + i - 1, MaxNumCompressed)
             /\ ms.num_compressed \in 0 .. off + i - 1
<1>1. MinistackSize \in Nat /\ MaxNumCompressed \in Nat
  BY PlannerAssumption
<1>2. i \in Nat /\ i >= 1 /\ (i - 1) * MinistackSize \in Nat
      /\ (i - 1) * MinistackSize < n
  <2>1. i \in 1 .. n /\ (i - 1) * MinistackSize < n
    BY DEF BatchIndices
  <2>2. \A a, b \in Nat : a * b \in Nat
    OBVIOUS
  <2>3. QED
    BY <1>1, <2>1, <2>2
<1>3. PlanWithOffset(n, off)[i] = Batch(n, off + i - 1, (i - 1) * MinistackSize)
  BY DEF PlanWithOffset
<1>. DEFINE start == (i - 1) * MinistackSize
<1>4. start \in Nat /\ start < n
  BY <1>2
<1>. HIDE DEF start
<1>5. Smaller(MinistackSize, n - start) \in 1 .. MinistackSize
      /\ start + Smaller(MinistackSize, n - start) <= n
  BY <1>1, <1>4 DEF Smaller
<1>6. Smaller(off + i - 1, MaxNumCompressed) \in 0 .. off + i - 1
  BY <1>1, <1>2 DEF Smaller
<1>7. /\ Batch(n, off + i - 1, start).block_id = off + i - 1
      /\ Batch(n, off + i - 1, start).real_start = start
      /\ Batch(n, off + i - 1, start).num_real = Smaller(MinistackSize, n - start)
      /\ Batch(n, off + i - 1, start).num_compressed = Smaller(off + i - 1, MaxNumCompressed)
  BY DEF Batch
<1>8. QED
  BY <1>3, <1>4, <1>5, <1>6, <1>7 DEF start

(* The blocks of a stack are an initial segment of the naturals, as long as   *)
(* there are acquisitions left.                                            *)
LEMMA BatchIndicesClosed ==
  ASSUME NEW n \in Nat, MinistackSize >= 2, NEW i \in BatchIndices(n),
         NEW k \in 1 .. i
  PROVE  k \in BatchIndices(n)
<1>1. MinistackSize \in Nat
  BY PlannerAssumption
<1>2. i \in 1 .. n /\ (i - 1) * MinistackSize < n
  BY DEF BatchIndices
<1>3. (k - 1) * MinistackSize <= (i - 1) * MinistackSize
  <2>1. \A a, b, c \in Nat : a <= b => a * c <= b * c
    OBVIOUS
  <2>2. k - 1 \in Nat /\ i - 1 \in Nat /\ k - 1 <= i - 1
    BY <1>2
  <2>3. QED
    BY <1>1, <2>1, <2>2
<1>4. k \in 1 .. n
  BY <1>2
<1>5. (k - 1) * MinistackSize \in Nat /\ (i - 1) * MinistackSize \in Nat
  <2>1. \A a, c \in Nat : a * c \in Nat
    OBVIOUS
  <2>2. k - 1 \in Nat /\ i - 1 \in Nat
    BY <1>2
  <2>3. QED
    BY <1>1, <2>1, <2>2
<1>6. QED
  BY <1>2, <1>3, <1>4, <1>5 DEF BatchIndices

(* A block exists as soon as an acquisition is left for it.                 *)
LEMMA BatchIndexExists ==
  ASSUME NEW n \in Nat, MinistackSize >= 2, NEW i \in Nat, i >= 1,
         (i - 1) * MinistackSize < n
  PROVE  i \in BatchIndices(n)
<1>1. MinistackSize \in Nat
  BY PlannerAssumption
<1>2. i - 1 <= (i - 1) * MinistackSize
  <2>1. \A a, c \in Nat : c >= 1 => a <= a * c
    OBVIOUS
  <2>2. i - 1 \in Nat
    OBVIOUS
  <2>3. QED
    BY <1>1, <2>1, <2>2
<1>3. (i - 1) * MinistackSize \in Nat
  <2>1. \A a, c \in Nat : a * c \in Nat
    OBVIOUS
  <2>2. QED
    BY <1>1, <2>1
<1>4. i \in 1 .. n
  BY <1>2, <1>3
<1>5. QED
  BY <1>4 DEF BatchIndices

(* Numbering a tail from the number of sealed blocks, each a full ministack, *)
(* shifts its plan along the plan of the whole series and changes nothing     *)
(* else.                                                                   *)
LEMMA PlanShift ==
  ASSUME NEW n \in Nat, NEW off \in Nat, MinistackSize >= 2, NEW i \in BatchIndices(n)
  PROVE  /\ off + i \in BatchIndices(off * MinistackSize + n)
         /\ LET t == PlanWithOffset(n, off)[i]
                w == PlanWithOffset(off * MinistackSize + n, 0)[off + i]
            IN  /\ t.num_compressed = w.num_compressed
                /\ t.num_real = w.num_real
                /\ t.block_id = w.block_id
                /\ t.output_reference_idx = w.output_reference_idx
                /\ t.compressed_reference_idx = w.compressed_reference_idx
                /\ w.real_start = off * MinistackSize + t.real_start
<1>1. MinistackSize \in Nat
  BY PlannerAssumption
<1>. DEFINE N == off * MinistackSize + n
<1>2. i \in Nat /\ i >= 1 /\ (i - 1) * MinistackSize < n
  BY DEF BatchIndices
<1>3. /\ off * MinistackSize \in Nat
      /\ (i - 1) * MinistackSize \in Nat
      /\ (off + i - 1) * MinistackSize = off * MinistackSize + (i - 1) * MinistackSize
  <2>1. \A a, c \in Nat : a * c \in Nat
    OBVIOUS
  <2>2. \A a, b, c \in Nat : (a + b) * c = a * c + b * c
    OBVIOUS
  <2>3. i - 1 \in Nat /\ off + i - 1 = off + (i - 1)
    BY <1>2
  <2>4. (off + (i - 1)) * MinistackSize = off * MinistackSize + (i - 1) * MinistackSize
    BY <1>1, <2>2, <2>3
  <2>5. QED
    BY <1>1, <2>1, <2>3, <2>4
<1>4. N \in Nat /\ (off + i - 1) * MinistackSize < N
  BY <1>2, <1>3
<1>5. off + i \in BatchIndices(N)
  <2>1. off + i \in Nat /\ off + i >= 1 /\ (off + i) - 1 = off + i - 1
    BY <1>2
  <2>2. ((off + i) - 1) * MinistackSize < N
    BY <1>4, <2>1
  <2>3. QED
    <3>. HIDE DEF N
    <3>1. QED
      BY <1>4, <2>1, <2>2, BatchIndexExists
<1>6. PlanWithOffset(n, off)[i] = Batch(n, off + i - 1, (i - 1) * MinistackSize)
  BY DEF PlanWithOffset
<1>7. PlanWithOffset(N, 0)[off + i]
        = Batch(N, off + i - 1, off * MinistackSize + (i - 1) * MinistackSize)
  <2>1. PlanWithOffset(N, 0)[off + i] = Batch(N, 0 + (off + i) - 1, ((off + i) - 1) * MinistackSize)
    BY <1>5 DEF PlanWithOffset
  <2>2. 0 + (off + i) - 1 = off + i - 1 /\ (off + i) - 1 = off + i - 1
    BY <1>2
  <2>3. ((off + i) - 1) * MinistackSize = off * MinistackSize + (i - 1) * MinistackSize
    BY <1>3, <2>2
  <2>4. QED
    <3>. HIDE DEF N
    <3>1. QED
      BY <2>1, <2>2, <2>3
<1>. DEFINE s == (i - 1) * MinistackSize
           o == off * MinistackSize
<1>8. N - (o + s) = n - s
  BY <1>3
<1>9. QED
  BY <1>5, <1>6, <1>7, <1>8 DEF Batch

(* Sealed blocks are full, so their references resolve in any plan of the series   *)
(* if they do in one: a tail is accepted exactly when the whole series is.        *)
LEMMA SealedPlan ==
  ASSUME NEW n \in Nat, NEW s \in Nat, MinistackSize >= 2, NEW i \in 1 .. s
  PROVE  /\ i \in BatchIndices(s * MinistackSize + n)
         /\ LET ms == PlanWithOffset(s * MinistackSize + n, 0)[i]
                nc == Smaller(i - 1, MaxNumCompressed)
            IN  /\ Size(ms) = nc + MinistackSize
                /\ ms.output_reference_idx = References(nc).output
                /\ ms.compressed_reference_idx = References(nc).compressed
<1>. DEFINE M == MinistackSize
            N == s * M + n
            start == (i - 1) * M
<1>1. M \in Nat /\ M >= 2
  BY PlannerAssumption
<1>2. /\ s * M \in Nat /\ start \in Nat
      /\ start + M <= s * M
  <2>1. \A a, c \in Nat : a * c \in Nat
    OBVIOUS
  <2>2. \A a, b, c \in Nat : a <= b => a * c <= b * c
    OBVIOUS
  <2>3. \A a, c \in Nat : (a + 1) * c = a * c + c
    OBVIOUS
  <2>4. i - 1 \in Nat /\ (i - 1) + 1 = i /\ i <= s /\ i \in Nat
    OBVIOUS
  <2>5. i * M <= s * M
    BY <1>1, <2>2, <2>4
  <2>6. i * M = start + M
    BY <1>1, <2>3, <2>4
  <2>7. QED
    BY <1>1, <2>1, <2>4, <2>5, <2>6
<1>3. N \in Nat /\ start < N /\ N - start >= M
  <2>. HIDE DEF start
  <2>. QED
    BY <1>1, <1>2
<1>4. i \in BatchIndices(N)
  <2>. HIDE DEF N
  <2>. QED
    BY <1>3, BatchIndexExists
<1>5. PlanWithOffset(N, 0)[i] = Batch(N, i - 1, start)
  BY <1>4 DEF PlanWithOffset
<1>6. Smaller(M, N - start) = M
  <2>. HIDE DEF N, start
  <2>. QED
    BY <1>1, <1>2, <1>3 DEF Smaller
<1>7. QED
  BY <1>4, <1>5, <1>6 DEF Batch, Size

LEMMA PlanExtends ==
  ASSUME NEW s \in Nat, NEW o \in Nat, NEW n \in Nat, PlanAccepted(s * MinistackSize + o, 0)
  PROVE  PlanAccepted(o + n, s) <=> PlanAccepted(s * MinistackSize + (o + n), 0)
<1>. DEFINE M == MinistackSize
            Resolves(ms) == /\ ReferenceResolves(ms.output_reference_idx, Size(ms))
                            /\ ReferenceResolves(ms.compressed_reference_idx, Size(ms))
            N == s * M + (o + n)
<1>1. M \in Nat /\ M >= 2
  BY PlannerAssumption DEF PlanAccepted
<1>2. \A len, off : PlanAccepted(len, off) <=>
        \A i \in BatchIndices(len) : Resolves(PlanWithOffset(len, off)[i])
  BY <1>1 DEF PlanAccepted
<1>3. o + n \in Nat /\ s * M \in Nat /\ N \in Nat
  <2>1. \A a, c \in Nat : a * c \in Nat
    OBVIOUS
  <2>2. QED
    BY <1>1, <2>1
<1>4. ASSUME NEW i \in BatchIndices(o + n)
      PROVE  /\ s + i \in BatchIndices(N)
             /\ Resolves(PlanWithOffset(o + n, s)[i]) <=> Resolves(PlanWithOffset(N, 0)[s + i])
  <2>. DEFINE t == PlanWithOffset(o + n, s)[i]
              w == PlanWithOffset(s * MinistackSize + (o + n), 0)[s + i]
  <2>2. /\ o + n \in Nat /\ s \in Nat /\ MinistackSize >= 2
        /\ i \in BatchIndices(o + n)
    BY <1>1, <1>3
  <2>3. /\ s + i \in BatchIndices(s * MinistackSize + (o + n))
        /\ t.num_compressed = w.num_compressed
        /\ t.num_real = w.num_real
        /\ t.output_reference_idx = w.output_reference_idx
        /\ t.compressed_reference_idx = w.compressed_reference_idx
    BY <2>2, PlanShift
  <2>4. Size(t) = Size(w)
    <3>. HIDE DEF t, w
    <3>. QED
      BY <2>3 DEF Size
  <2>5. Resolves(t) <=> Resolves(w)
    <3>. HIDE DEF t, w
    <3>. QED
      BY <2>3, <2>4
  <2>. QED
    BY <2>3, <2>5
<1>5. ASSUME NEW i \in 1 .. s
      PROVE  Resolves(PlanWithOffset(N, 0)[i])
  <2>1. /\ i \in BatchIndices(s * M + o)
        /\ Size(PlanWithOffset(s * M + o, 0)[i]) = Size(PlanWithOffset(N, 0)[i])
        /\ PlanWithOffset(s * M + o, 0)[i].output_reference_idx
             = PlanWithOffset(N, 0)[i].output_reference_idx
        /\ PlanWithOffset(s * M + o, 0)[i].compressed_reference_idx
             = PlanWithOffset(N, 0)[i].compressed_reference_idx
    <3>. DEFINE nc == Smaller(i - 1, MaxNumCompressed)
                v == PlanWithOffset(s * MinistackSize + o, 0)[i]
                w == PlanWithOffset(s * MinistackSize + (o + n), 0)[i]
    <3>1. /\ i \in BatchIndices(s * MinistackSize + o)
          /\ Size(v) = nc + MinistackSize
          /\ v.output_reference_idx = References(nc).output
          /\ v.compressed_reference_idx = References(nc).compressed
      BY <1>1, SealedPlan
    <3>2. /\ o + n \in Nat /\ s \in Nat /\ MinistackSize >= 2
          /\ i \in 1 .. s
      BY <1>1, <1>3
    <3>3. /\ Size(w) = nc + MinistackSize
          /\ w.output_reference_idx = References(nc).output
          /\ w.compressed_reference_idx = References(nc).compressed
      BY <3>2, SealedPlan
    <3>. QED
      BY <3>1, <3>3
  <2>2. Resolves(PlanWithOffset(s * M + o, 0)[i])
    BY <1>2, <2>1
  <2>3. QED
    BY <2>1, <2>2
<1>6. ASSUME NEW j \in BatchIndices(N), j \notin 1 .. s
      PROVE  j - s \in BatchIndices(o + n) /\ s + (j - s) = j
  <2>1. j \in Nat /\ j >= s + 1 /\ (j - 1) * M < N
    BY <1>6 DEF BatchIndices
  <2>2. (j - 1) * M = s * M + ((j - s) - 1) * M /\ ((j - s) - 1) * M \in Nat
    <3>1. \A a, b, c \in Nat : (a + b) * c = a * c + b * c /\ b * c \in Nat
      OBVIOUS
    <3>2. (j - s) - 1 \in Nat /\ j - 1 = s + ((j - s) - 1)
      BY <2>1
    <3>3. QED
      BY <1>1, <3>1, <3>2
  <2>3. ((j - s) - 1) * M < o + n
    <3>. DEFINE x == ((j - s) - 1) * M
                y == s * M
    <3>1. y + x < y + (o + n) /\ x \in Nat /\ y \in Nat
      BY <1>3, <2>1, <2>2
    <3>. HIDE DEF x, y
    <3>2. x < o + n
      BY <1>3, <3>1
    <3>3. QED
      BY <3>2 DEF x
  <2>4. j - s \in Nat /\ j - s >= 1 /\ s + (j - s) = j
    BY <2>1
  <2>5. QED
    BY <1>1, <1>3, <2>3, <2>4, BatchIndexExists
<1>. HIDE DEF Resolves
<1>7. QED
  BY <1>2, <1>4, <1>5, <1>6 DEF Resolves

(***************************************************************************)
(* Kernel inputs                                                           *)
(***************************************************************************)

(* A kernel input depends on the stack, the carry and the plan only through  *)
(* the acquisitions and compressed SLCs the block takes.                     *)
LEMMA AssembleSame ==
  ASSUME NEW ms1, NEW ms2, NEW carry1, NEW carry2, NEW stack1, NEW stack2, NEW m,
         ms1.num_compressed = ms2.num_compressed,
         ms1.num_real = ms2.num_real,
         ms1.output_reference_idx = ms2.output_reference_idx,
         ms1.compressed_reference_idx = ms2.compressed_reference_idx,
         \A j \in 1 .. ms1.num_compressed :
           carry1[Len(carry1) - ms1.num_compressed + j]
             = carry2[Len(carry2) - ms1.num_compressed + j],
         \A j \in 1 .. ms1.num_real :
           stack1[ms1.real_start + j] = stack2[ms2.real_start + j]
  PROVE  Assemble(carry1, stack1, ms1, m) = Assemble(carry2, stack2, ms2, m)
<1>1. [j \in 1 .. ms1.num_compressed |-> carry1[Len(carry1) - ms1.num_compressed + j]]
        = [j \in 1 .. ms2.num_compressed |-> carry2[Len(carry2) - ms2.num_compressed + j]]
  OBVIOUS
<1>2. [j \in 1 .. ms1.num_real |-> stack1[ms1.real_start + j]]
        = [j \in 1 .. ms2.num_real |-> stack2[ms2.real_start + j]]
  OBVIOUS
<1>3. Size(ms1) = Size(ms2)
  BY DEF Size
<1>4. QED
  BY <1>1, <1>2, <1>3 DEF Assemble

(* The input block k of a batch run of stack gets, given the blocks before it. *)
BatchInput(stack, blocks, k, m) ==
  Assemble([j \in 1 .. k - 1 |-> blocks[j].compressed],
           stack, PlanWithOffset(Len(stack), 0)[k], m)

(* blocks are the first products of a batch run of stack.                     *)
Linked(stack, blocks, m) ==
  \A k \in 1 .. Len(blocks) :
    blocks[k] = LinkAndCompress(BatchInput(stack, blocks, k, m))

(* Blocks that end within a stack are also the first products of any longer    *)
(* one: nothing that arrives later reaches a full ministack.                  *)
LEMMA LinkedExtends ==
  ASSUME NEW stack, NEW longer, NEW blocks, NEW m, MinistackSize >= 2,
         IsSequence(stack), IsSequence(longer), IsSequence(blocks),
         Len(blocks) * MinistackSize <= Len(stack), Len(stack) <= Len(longer),
         \A i \in 1 .. Len(stack) : longer[i] = stack[i],
         Linked(stack, blocks, m)
  PROVE  Linked(longer, blocks, m)
<1>1. MinistackSize \in Nat /\ Len(blocks) \in Nat /\ Len(stack) \in Nat /\ Len(longer) \in Nat
  BY PlannerAssumption DEF IsSequence
<1>2. SUFFICES ASSUME NEW k \in 1 .. Len(blocks)
      PROVE  blocks[k] = LinkAndCompress(BatchInput(longer, blocks, k, m))
  BY DEF Linked
<1>. DEFINE start == (k - 1) * MinistackSize
            parents == [j \in 1 .. k - 1 |-> blocks[j].compressed]
            p == PlanWithOffset(Len(stack), 0)[k]
            q == PlanWithOffset(Len(longer), 0)[k]
<1>3. start \in Nat /\ start + MinistackSize <= Len(stack)
  <2>1. \A a, b, c \in Nat : a <= b => a * c <= b * c
    OBVIOUS
  <2>2. \A a \in Nat : a >= 1 => (a - 1) * MinistackSize \in Nat
                          /\ (a - 1) * MinistackSize + MinistackSize = a * MinistackSize
    <3>1. \A a, c \in Nat : a >= 1 => (a - 1) * c \in Nat /\ (a - 1) * c + c = a * c
      OBVIOUS
    <3>2. QED
      BY <1>1, <3>1
  <2>3. k * MinistackSize <= Len(blocks) * MinistackSize /\ k \in Nat /\ k >= 1
    BY <1>1, <2>1
  <2>4. \A a, b \in Nat : a * b \in Nat
    OBVIOUS
  <2>5. k * MinistackSize \in Nat /\ Len(blocks) * MinistackSize \in Nat
    BY <1>1, <2>3, <2>4
  <2>6. start \in Nat /\ start + MinistackSize = k * MinistackSize
    BY <2>2, <2>3
  <2>. HIDE DEF start
  <2>7. QED
    BY <1>1, <2>3, <2>5, <2>6
<1>4. k \in BatchIndices(Len(stack)) /\ k \in BatchIndices(Len(longer))
  <2>1. start < Len(stack) /\ start < Len(longer)
    <3>. HIDE DEF start
    <3>1. QED
      BY <1>1, <1>3
  <2>2. QED
    BY <1>1, <2>1, BatchIndexExists
<1>5. p = q
  <2>1. p = Batch(Len(stack), 0 + k - 1, start) /\ q = Batch(Len(longer), 0 + k - 1, start)
    BY <1>4 DEF PlanWithOffset
  <2>2. Smaller(MinistackSize, Len(stack) - start) = Smaller(MinistackSize, Len(longer) - start)
    <3>. HIDE DEF start
    <3>1. QED
      BY <1>1, <1>3 DEF Smaller
  <2>3. QED
    <3>. HIDE DEF start, p, q
    <3>1. QED
      BY <2>1, <2>2 DEF Batch
<1>6. \A j \in 1 .. p.num_real : stack[p.real_start + j] = longer[p.real_start + j]
  <2>1. p.real_start \in Nat /\ p.num_real \in Nat /\ p.real_start + p.num_real <= Len(stack)
    <3>1. MinistackSize >= 2 /\ 0 \in Nat /\ k \in BatchIndices(Len(stack))
      BY <1>4
    <3>2. p.real_start \in Nat /\ p.num_real \in 1 .. MinistackSize
          /\ p.real_start + p.num_real <= Len(stack)
      BY <1>1, <3>1, BatchSize
    <3>. HIDE DEF p
    <3>3. QED
      BY <1>1, <3>2
  <2>. HIDE DEF p
  <2>2. SUFFICES ASSUME NEW j \in 1 .. p.num_real
        PROVE  stack[p.real_start + j] = longer[p.real_start + j]
    OBVIOUS
  <2>3. p.real_start + j \in 1 .. Len(stack)
    BY <1>1, <2>1
  <2>4. QED
    BY <2>3
<1>7. Assemble(parents, stack, p, m) = Assemble(parents, longer, q, m)
  <2>. HIDE DEF parents, p, q
  <2>1. QED
    BY <1>5, <1>6, AssembleSame
<1>8. QED
  BY <1>7 DEF Linked, BatchInput

(* Dropping the last products of a batch run leaves its first ones.           *)
LEMMA LinkedPrefix ==
  ASSUME NEW stack, NEW blocks, NEW fewer, NEW m,
         IsSequence(blocks), IsSequence(fewer), Len(fewer) <= Len(blocks),
         \A k \in 1 .. Len(fewer) : fewer[k] = blocks[k],
         Linked(stack, blocks, m)
  PROVE  Linked(stack, fewer, m)
<1>1. Len(blocks) \in Nat /\ Len(fewer) \in Nat
  BY DEF IsSequence
<1>2. SUFFICES ASSUME NEW k \in 1 .. Len(fewer)
      PROVE  fewer[k] = LinkAndCompress(BatchInput(stack, fewer, k, m))
  BY DEF Linked
<1>3. k \in 1 .. Len(blocks) /\ \A j \in 1 .. k - 1 : fewer[j] = blocks[j]
  BY <1>1
<1>4. [j \in 1 .. k - 1 |-> fewer[j].compressed] = [j \in 1 .. k - 1 |-> blocks[j].compressed]
  BY <1>3
<1>5. QED
  BY <1>3, <1>4 DEF Linked, BatchInput

(***************************************************************************)
(* The inductive invariant                                                 *)
(***************************************************************************)

(* Between calls: what is sealed is the start of a batch run of the series.   *)
Persisted ==
  Resumable => MinistackSize >= 2 /\ Linked(history, sealed, validity)

(* During a call: the tail is the end of the whole series, starting where the  *)
(* sealed blocks end, and what has been linked continues them as a batch run   *)
(* of the whole series would.                                              *)
Driving ==
  pc = "drive" =>
    /\ MinistackSize >= 2
    /\ kind = "update" => Resumable /\ mask = validity /\ arrivals # << >>
    /\ Len(Whole) = Len(Seed(kind)) * MinistackSize + Len(tail)
    /\ \A i \in 1 .. Len(tail) : tail[i] = Whole[Len(Seed(kind)) * MinistackSize + i]
    /\ \A k \in 1 .. Len(out) : k \in BatchIndices(Len(tail))
    /\ carry = CompressedOf(Seed(kind) \o out)
    /\ Linked(Whole, Seed(kind) \o out, mask)

IInv == TypeOK /\ SealedBoundary /\ Persisted /\ Driving

LEMMA EmptySequence ==
  IsSequence(<< >>)
BY DEF IsSequence

(* The compressed SLCs of a sequence of products.                            *)
LEMMA CompressedShape ==
  ASSUME NEW blocks, IsSequence(blocks)
  PROVE  /\ IsSequence(CompressedOf(blocks))
         /\ Len(CompressedOf(blocks)) = Len(blocks)
         /\ \A k \in 1 .. Len(blocks) : CompressedOf(blocks)[k] = blocks[k].compressed
<1>. DEFINE c == CompressedOf(blocks)
            T == {blocks[k].compressed : k \in 1 .. Len(blocks)}
<1>1. Len(blocks) \in Nat
  BY DEF IsSequence
<1>2. c = [k \in 1 .. Len(blocks) |-> blocks[k].compressed]
  BY DEF CompressedOf
<1>. HIDE DEF c
<1>3. c \in [1 .. Len(blocks) -> T]
  BY <1>2
<1>4. c \in Seq(T)
  BY <1>1, <1>3, SeqDef
<1>. HIDE DEF T
<1>5. IsSequence(c)
  BY <1>4, SequenceShape
<1>6. Len(c) = Len(blocks)
  BY <1>1, <1>3, <1>4
<1>7. QED
  BY <1>2, <1>5, <1>6 DEF c

LEMMA StacksAreSequences ==
  ASSUME NEW n \in Nat, NEW s \in Stacks(n)
  PROVE  s \in Seq(Slcs)
BY DEF Stacks

(* The seed is the sealed prefix of the invariant, and always a sequence.     *)
LEMMA SeedShape ==
  ASSUME TypeOK, NEW k
  PROVE  IsSequence(Seed(k))
BY EmptySequence DEF TypeOK, Seed

LEMMA InitIInv ==
  Init => IInv
<1>. SUFFICES ASSUME Init PROVE IInv
  OBVIOUS
<1>1. TypeOK
  BY EmptySequence DEF Init, TypeOK, Validities
<1>2. ~ Resumable /\ pc = "idle"
  BY DEF Init, Resumable
<1>3. QED
  BY <1>1, <1>2 DEF IInv, SealedBoundary, Persisted, Driving

(* What every action but Return leaves alone keeps the state between calls.   *)
LEMMA PersistedKept ==
  ASSUME SealedBoundary, Persisted, UNCHANGED << persisted, published >>
  PROVE  SealedBoundary' /\ Persisted'
<1>1. UNCHANGED << history, validity, sealed, open, published >>
  BY DEF persisted
<1>2. Resumable' = Resumable
  BY <1>1 DEF Resumable
<1>3. SealedBoundary'
  BY <1>1, <1>2 DEF SealedBoundary
<1>4. Linked(history, sealed, validity)' = Linked(history, sealed, validity)
  BY <1>1
<1>5. QED
  BY <1>2, <1>3, <1>4 DEF Persisted

(* A run starts a series of its own: nothing is sealed, the tail is all of it. *)
LEMMA RunStep ==
  ASSUME IInv, NEW stack \in Stacks(MaxArrivals), NEW m \in Validities, NEW fits \in BOOLEAN,
         Run(stack, m, fits)
  PROVE  IInv'
<1>1. stack \in Seq(Slcs)
  BY StacksAreSequences, BoundAssumption
<1>2. /\ pc' = "drive" /\ kind' = "run" /\ mask' = m /\ arrivals' = stack /\ tail' = stack
      /\ carry' = CompressedOf(Seed("run")) /\ out' = << >>
      /\ UNCHANGED << persisted, returned >>
  BY DEF Run, Enter
<1>3. UNCHANGED << history, validity, sealed, open, published, outcome >>
  BY <1>2 DEF persisted, returned
<1>4. Seed("run") = << >> /\ Seed("run")' = << >>
  BY DEF Seed
<1>5. CompressedOf(<< >>) = << >>
  BY DEF CompressedOf
<1>6. TypeOK'
  BY <1>1, <1>2, <1>3, <1>4, <1>5, EmptySequence DEF IInv, TypeOK
<1>7. SealedBoundary' /\ Persisted'
  BY <1>3, PersistedKept DEF IInv, persisted
<1>8. MinistackSize >= 2
  BY DEF Run, RunAccepted, PlanAccepted
<1>9. Whole' = stack
  BY <1>1, <1>2 DEF Whole
<1>10. Driving'
  <2>1. Seed(kind)' = << >>
    BY <1>2, <1>4
  <2>2. Len(Whole') = Len(Seed(kind)') * MinistackSize + Len(tail')
    <3>1. 0 * MinistackSize = 0
      BY PlannerAssumption
    <3>2. QED
      BY <1>1, <1>2, <1>9, <2>1, <3>1
  <2>3. \A i \in 1 .. Len(tail') : tail'[i] = Whole'[Len(Seed(kind)') * MinistackSize + i]
    <3>1. 0 * MinistackSize = 0 /\ Len(<< >>) = 0
      BY PlannerAssumption
    <3>2. \A i \in 1 .. Len(stack) : 0 + i = i
      OBVIOUS
    <3>3. QED
      BY <1>2, <1>9, <2>1, <3>1, <3>2
  <2>4. (Seed(kind) \o out)' = << >>
    BY <1>2, <2>1
  <2>5. Linked(Whole, Seed(kind) \o out, mask)'
    BY <2>4 DEF Linked
  <2>6. QED
    BY <1>2, <1>4, <1>8, <2>2, <2>3, <2>4, <2>5 DEF Driving
<1>11. QED
  BY <1>6, <1>7, <1>10 DEF IInv

(* An update resumes where the sealed blocks end.                            *)
LEMMA UpdateStep ==
  ASSUME IInv, NEW new \in Seq(Slcs), NEW m \in Validities, NEW fits \in BOOLEAN,
         Update(new, m, fits)
  PROVE  IInv'
<1>1. /\ pc' = "drive" /\ kind' = "update" /\ mask' = m /\ arrivals' = new
      /\ tail' = open \o new
      /\ carry' = CompressedOf(Seed("update")) /\ out' = << >>
      /\ UNCHANGED << persisted, returned >>
  BY DEF Update, Enter
<1>2. UNCHANGED << history, validity, sealed, open, published, outcome >>
  BY <1>1 DEF persisted, returned
<1>3. Resumable /\ new # << >> /\ m = validity
  BY DEF Update, UpdateAccepted, MaskMatches
<1>4. /\ history \in Seq(Slcs) /\ open \in Seq(Slcs) /\ IsSequence(sealed)
  BY DEF IInv, TypeOK
<1>5. Seed("update") = sealed /\ Seed(kind)' = sealed
  BY <1>1, <1>2 DEF Seed
<1>6. Whole' = history \o new
  BY <1>1, <1>2 DEF Whole
<1>7. IsSequence(CompressedOf(sealed))
  BY <1>4, CompressedShape
<1>8. TypeOK'
  BY <1>1, <1>2, <1>4, <1>5, <1>7, EmptySequence DEF IInv, TypeOK, IsSequence
<1>9. SealedBoundary' /\ Persisted'
  BY <1>2, PersistedKept DEF IInv, persisted
<1>10. /\ MinistackSize >= 2
       /\ Linked(history, sealed, validity)
       /\ Len(history) = Len(sealed) * MinistackSize + Len(open)
       /\ \A i \in 1 .. Len(open) : open[i] = history[Len(sealed) * MinistackSize + i]
  BY <1>3 DEF IInv, Persisted, SealedBoundary
<1>. DEFINE boundary == Len(sealed) * MinistackSize
<1>11. boundary \in Nat /\ MinistackSize \in Nat
  <2>1. \A a, c \in Nat : a * c \in Nat
    OBVIOUS
  <2>2. QED
    BY <1>4, <2>1, PlannerAssumption DEF IsSequence
<1>12. Len(Whole') = boundary + Len(tail')
  <2>. HIDE DEF boundary
  <2>1. Len(history \o new) = Len(history) + Len(new) /\ Len(open \o new) = Len(open) + Len(new)
    BY <1>4
  <2>2. Len(history) = boundary + Len(open)
    BY <1>10 DEF boundary
  <2>3. QED
    BY <1>1, <1>4, <1>6, <1>11, <2>1, <2>2
<1>13. \A i \in 1 .. Len(tail') : tail'[i] = Whole'[boundary + i]
  <2>1. SUFFICES ASSUME NEW i \in 1 .. Len(open) + Len(new)
        PROVE  (open \o new)[i] = (history \o new)[boundary + i]
    <3>. HIDE DEF boundary
    <3>1. Len(open \o new) = Len(open) + Len(new)
      BY <1>4
    <3>2. tail' = open \o new /\ Whole' = history \o new
      BY <1>1, <1>6
    <3>3. QED
      BY <3>1, <3>2
  <2>2. Len(history) = boundary + Len(open)
    BY <1>10
  <2>. HIDE DEF boundary
  <2>3. CASE i <= Len(open)
    <3>1. boundary + i \in 1 .. Len(history)
      BY <1>4, <1>11, <2>2, <2>3
    <3>2. (history \o new)[boundary + i] = history[boundary + i]
      BY <1>4, <3>1
    <3>3. (open \o new)[i] = open[i]
      BY <1>4, <2>3
    <3>4. open[i] = history[boundary + i]
      BY <1>4, <1>10, <2>3 DEF boundary
    <3>5. QED
      BY <3>2, <3>3, <3>4
  <2>4. CASE i > Len(open)
    <3>1. (open \o new)[i] = new[i - Len(open)]
      BY <1>4, <2>4
    <3>2. i - Len(open) \in 1 .. Len(new) /\ boundary + i = Len(history) + (i - Len(open))
      BY <1>4, <1>11, <2>2, <2>4
    <3>3. \A j \in 1 .. Len(new) : (history \o new)[Len(history) + j] = new[j]
      BY <1>4
    <3>4. QED
      BY <3>1, <3>2, <3>3
  <2>5. QED
    <3>1. Len(open) \in Nat /\ i \in Nat
      BY <1>4
    <3>2. i <= Len(open) \/ i > Len(open)
      BY <3>1
    <3>3. QED
      BY <2>3, <2>4, <3>2, Zenon
<1>14. Linked(history \o new, sealed, validity)
  <2>1. IsSequence(history) /\ IsSequence(new) /\ IsSequence(history \o new)
    <3>1. history \o new \in Seq(Slcs)
      BY <1>4
    <3>2. QED
      BY <1>4, <3>1, SequenceShape
  <2>2. /\ Len(history) <= Len(history \o new)
        /\ \A i \in 1 .. Len(history) : (history \o new)[i] = history[i]
    BY <1>4
  <2>3. boundary <= Len(history)
    <3>1. Len(history) = boundary + Len(open)
      BY <1>10
    <3>. HIDE DEF boundary
    <3>2. QED
      BY <1>4, <1>11, <3>1
  <2>4. QED
    BY <1>4, <1>10, <2>1, <2>2, <2>3, LinkedExtends
<1>15. Driving'
  <2>1. (Seed(kind) \o out)' = sealed
    <3>1. sealed \o << >> = sealed
      BY <1>4 DEF IsSequence
    <3>2. QED
      BY <1>1, <1>5, <3>1
  <2>2. Linked(Whole, Seed(kind) \o out, mask)'
    BY <1>1, <1>3, <1>6, <1>14, <2>1 DEF Linked, BatchInput
  <2>3. Resumable' /\ mask' = validity' /\ arrivals' # << >>
    BY <1>1, <1>2, <1>3 DEF Resumable
  <2>4. \A k \in 1 .. Len(out') : k \in BatchIndices(Len(tail'))
    BY <1>1
  <2>5. QED
    BY <1>1, <1>2, <1>5, <1>10, <1>12, <1>13, <2>1, <2>2, <2>3, <2>4 DEF Driving
<1>16. QED
  BY <1>8, <1>9, <1>15 DEF IInv

(* What a call has linked, as one sequence of products.                       *)
LinkedSoFar == Seed(kind) \o out

LEMMA LinkedShape ==
  ASSUME TypeOK
  PROVE  /\ IsSequence(Seed(kind)) /\ IsSequence(out) /\ IsSequence(LinkedSoFar)
         /\ Len(Seed(kind)) \in Nat /\ Len(out) \in Nat
         /\ Len(LinkedSoFar) = Len(Seed(kind)) + Len(out)
         /\ \A k \in 1 .. Len(out) : LinkedSoFar[Len(Seed(kind)) + k] = out[k]
<1>1. IsSequence(Seed(kind)) /\ IsSequence(out)
  BY SeedShape DEF TypeOK
<1>2. Len(Seed(kind)) \in Nat /\ Len(out) \in Nat
  BY <1>1 DEF IsSequence
<1>3. QED
  BY <1>1, <1>2, ConcatShape DEF LinkedSoFar

(* The kernel input of the next block is the one a batch run of the whole     *)
(* series gives that block: same parents, same acquisitions, same references. *)
LEMMA NextInput ==
  ASSUME IInv, pc = "drive", NextBlock \in DOMAIN Plan
  PROVE  /\ Assemble(carry, tail, Plan[NextBlock], mask)
              = BatchInput(Whole, LinkedSoFar, Len(LinkedSoFar) + 1, mask)
         /\ NextBlock \in BatchIndices(Len(tail))
         /\ Len(LinkedSoFar) + 1 \in BatchIndices(Len(Whole))
<1>. DEFINE off == Len(Seed(kind))
            n == Len(tail)
            base == off * MinistackSize
<1>1. /\ MinistackSize >= 2
      /\ Len(Whole) = base + n
      /\ \A i \in 1 .. n : tail[i] = Whole[base + i]
      /\ carry = CompressedOf(LinkedSoFar)
  BY DEF IInv, Driving, LinkedSoFar
<1>2. off \in Nat /\ n \in Nat /\ Len(LinkedSoFar) = off + Len(out) /\ IsSequence(LinkedSoFar)
      /\ Len(out) \in Nat
  BY LinkedShape DEF IInv, TypeOK
<1>3. Plan = PlanWithOffset(n, off) /\ NextBlock \in BatchIndices(n)
  BY DEF Plan, PlanWithOffset
<1>. DEFINE p == PlanWithOffset(n, off)[NextBlock]
            w == PlanWithOffset(base + n, 0)[off + NextBlock]
<1>4. Len(LinkedSoFar) + 1 = off + NextBlock
  BY <1>2 DEF NextBlock
<1>5. /\ off + NextBlock \in BatchIndices(base + n)
      /\ p.num_compressed = w.num_compressed /\ p.num_real = w.num_real
      /\ p.output_reference_idx = w.output_reference_idx
      /\ p.compressed_reference_idx = w.compressed_reference_idx
      /\ w.real_start = base + p.real_start
  BY <1>1, <1>2, <1>3, PlanShift
<1>6. base \in Nat
  <2>1. \A a, c \in Nat : a * c \in Nat
    OBVIOUS
  <2>2. QED
    BY <1>2, <2>1, PlannerAssumption
<1>7. p.real_start \in Nat /\ p.num_real \in 1 .. MinistackSize /\ p.real_start + p.num_real <= n
  BY <1>1, <1>2, <1>3, BatchSize
<1>8. \A j \in 1 .. p.num_real : tail[p.real_start + j] = Whole[w.real_start + j]
  <2>1. SUFFICES ASSUME NEW j \in 1 .. p.num_real
        PROVE  tail[p.real_start + j] = Whole[w.real_start + j]
    OBVIOUS
  <2>2. w.real_start = base + p.real_start /\ MinistackSize \in Nat
    BY <1>5, PlannerAssumption
  <2>3. \A i \in 1 .. n : tail[i] = Whole[base + i]
    BY <1>1
  <2>. HIDE DEF p, w, base, n
  <2>4. p.real_start + j \in 1 .. n /\ w.real_start + j = base + (p.real_start + j)
    BY <1>2, <1>6, <1>7, <2>2
  <2>5. QED
    BY <2>3, <2>4
<1>9. [j \in 1 .. (Len(LinkedSoFar) + 1) - 1 |-> LinkedSoFar[j].compressed] = carry
  <2>1. (Len(LinkedSoFar) + 1) - 1 = Len(LinkedSoFar)
    BY <1>2
  <2>2. QED
    BY <1>1, <2>1 DEF CompressedOf
<1>10. Assemble(carry, tail, p, mask) = Assemble(carry, Whole, w, mask)
  <2>1. /\ p.num_compressed = w.num_compressed /\ p.num_real = w.num_real
        /\ p.output_reference_idx = w.output_reference_idx
        /\ p.compressed_reference_idx = w.compressed_reference_idx
    BY <1>5
  <2>. HIDE DEF p, w
  <2>2. QED
    BY <1>8, <2>1, AssembleSame
<1>11. QED
  BY <1>1, <1>3, <1>4, <1>5, <1>9, <1>10 DEF BatchInput

(* Linking one more block.                                                 *)
LEMMA LinkStep ==
  ASSUME IInv, LinkNext
  PROVE  IInv'
<1>. DEFINE block == LinkAndCompress(Assemble(carry, tail, Plan[NextBlock], mask))
<1>1. /\ pc = "drive" /\ NextBlock \in DOMAIN Plan
      /\ carry' = Append(carry, block.compressed) /\ out' = Append(out, block)
      /\ UNCHANGED << persisted, returned, pc, kind, mask, arrivals, tail >>
  BY DEF LinkNext
<1>2. UNCHANGED << history, validity, sealed, open, published, outcome >>
  BY <1>1 DEF persisted, returned
<1>3. block = LinkAndCompress(BatchInput(Whole, LinkedSoFar, Len(LinkedSoFar) + 1, mask))
      /\ NextBlock \in BatchIndices(Len(tail))
  BY <1>1, NextInput
<1>. HIDE DEF block
<1>4. /\ IsSequence(Seed(kind)) /\ IsSequence(out) /\ IsSequence(LinkedSoFar) /\ IsSequence(carry)
      /\ Len(LinkedSoFar) = Len(Seed(kind)) + Len(out)
      /\ Len(Seed(kind)) \in Nat /\ Len(out) \in Nat
  BY LinkedShape DEF IInv, TypeOK
<1>5. TypeOK'
  BY <1>1, <1>2, <1>4, AppendShape DEF IInv, TypeOK
<1>6. SealedBoundary' /\ Persisted'
  BY <1>2, PersistedKept DEF IInv, persisted
<1>7. Seed(kind)' = Seed(kind) /\ Whole' = Whole
  BY <1>1, <1>2 DEF Seed, Whole
<1>8. LinkedSoFar' = Append(LinkedSoFar, block)
  <2>. DEFINE S == Range(Seed(kind)) \cup Range(out) \cup {block}
  <2>1. Seed(kind) \in Seq(S) /\ out \in Seq(S) /\ block \in S
    BY <1>4, SeqMonotonic DEF IsSequence
  <2>. HIDE DEF S
  <2>2. \A s, t \in Seq(S), x \in S : s \o Append(t, x) = Append(s \o t, x)
    OBVIOUS
  <2>3. QED
    BY <1>1, <1>7, <2>1, <2>2 DEF LinkedSoFar
<1>9. Linked(Whole, LinkedSoFar, mask)'
  <2>1. /\ Len(LinkedSoFar') = Len(LinkedSoFar) + 1 /\ Len(LinkedSoFar) \in Nat
        /\ \A k \in 1 .. Len(LinkedSoFar) : LinkedSoFar'[k] = LinkedSoFar[k]
        /\ LinkedSoFar'[Len(LinkedSoFar) + 1] = block
    BY <1>4, <1>8, AppendShape
  <2>2. Linked(Whole, LinkedSoFar, mask)
    BY <1>1 DEF IInv, Driving, LinkedSoFar
  <2>3. SUFFICES ASSUME NEW k \in 1 .. Len(LinkedSoFar) + 1
        PROVE  LinkedSoFar'[k] = LinkAndCompress(BatchInput(Whole, LinkedSoFar', k, mask))
    BY <1>1, <1>7, <2>1 DEF Linked, BatchInput
  <2>4. BatchInput(Whole, LinkedSoFar', k, mask) = BatchInput(Whole, LinkedSoFar, k, mask)
    <3>1. \A j \in 1 .. k - 1 : LinkedSoFar'[j] = LinkedSoFar[j]
      BY <2>1
    <3>2. [j \in 1 .. k - 1 |-> LinkedSoFar'[j].compressed]
            = [j \in 1 .. k - 1 |-> LinkedSoFar[j].compressed]
      BY <3>1
    <3>3. QED
      BY <3>2 DEF BatchInput
  <2>5. CASE k = Len(LinkedSoFar) + 1
    BY <1>3, <2>1, <2>4, <2>5
  <2>6. CASE k \in 1 .. Len(LinkedSoFar)
    BY <2>1, <2>2, <2>4, <2>6 DEF Linked
  <2>7. QED
    BY <2>1, <2>5, <2>6
<1>10. carry' = CompressedOf(LinkedSoFar')
  <2>1. carry = CompressedOf(LinkedSoFar)
    BY <1>1 DEF IInv, Driving, LinkedSoFar
  <2>2. /\ IsSequence(LinkedSoFar') /\ Len(LinkedSoFar') = Len(LinkedSoFar) + 1
        /\ \A k \in 1 .. Len(LinkedSoFar) : LinkedSoFar'[k] = LinkedSoFar[k]
        /\ LinkedSoFar'[Len(LinkedSoFar) + 1] = block
    BY <1>4, <1>8, AppendShape
  <2>3. /\ Len(carry) = Len(LinkedSoFar) /\ Len(LinkedSoFar) \in Nat
        /\ \A k \in 1 .. Len(LinkedSoFar) : carry[k] = LinkedSoFar[k].compressed
    BY <1>4, <2>1, CompressedShape
  <2>4. /\ IsSequence(carry') /\ Len(carry') = Len(LinkedSoFar) + 1
        /\ \A k \in 1 .. Len(LinkedSoFar) : carry'[k] = LinkedSoFar[k].compressed
        /\ carry'[Len(LinkedSoFar) + 1] = block.compressed
    <3>1. carry' = Append(carry, block.compressed) /\ IsSequence(carry)
      BY <1>1, <1>4
    <3>2. /\ IsSequence(carry') /\ Len(carry') = Len(carry) + 1
          /\ \A k \in 1 .. Len(carry) : carry'[k] = carry[k]
          /\ carry'[Len(carry) + 1] = block.compressed
      BY <3>1, AppendShape
    <3>3. QED
      BY <2>3, <3>2
  <2>5. \A k \in 1 .. Len(carry') : carry'[k] = LinkedSoFar'[k].compressed
    BY <2>2, <2>3, <2>4
  <2>6. carry' = [k \in 1 .. Len(carry') |-> carry'[k]]
    BY <2>4 DEF IsSequence
  <2>7. QED
    BY <2>2, <2>4, <2>5, <2>6 DEF CompressedOf
<1>11. \A k \in 1 .. Len(out') : k \in BatchIndices(Len(tail'))
  <2>1. Len(out') = Len(out) + 1
    BY <1>1, <1>4, AppendShape
  <2>2. \A k \in 1 .. Len(out) : k \in BatchIndices(Len(tail))
    BY <1>1 DEF IInv, Driving
  <2>3. QED
    BY <1>1, <1>3, <1>4, <2>1, <2>2 DEF NextBlock
<1>12. Driving'
  BY <1>1, <1>2, <1>7, <1>9, <1>10, <1>11 DEF IInv, Driving, LinkedSoFar, Resumable
<1>13. QED
  BY <1>5, <1>6, <1>12 DEF IInv

(* The last block of a plan takes every acquisition that is left.             *)
LEMMA LastBlock ==
  ASSUME NEW n \in Nat, NEW off \in Nat, MinistackSize >= 2,
         NEW b \in BatchIndices(n), b + 1 \notin BatchIndices(n)
  PROVE  LET start == (b - 1) * MinistackSize
             ms == PlanWithOffset(n, off)[b]
         IN  /\ start \in Nat
             /\ start < n
             /\ n <= start + MinistackSize
             /\ b * MinistackSize = start + MinistackSize
             /\ ms.real_start = start
             /\ ms.num_real = n - start
<1>. DEFINE start == (b - 1) * MinistackSize
            ms == PlanWithOffset(n, off)[b]
<1>1. MinistackSize \in Nat /\ b \in Nat /\ b >= 1 /\ start < n
  BY PlannerAssumption DEF BatchIndices
<1>2. start \in Nat /\ b * MinistackSize = start + MinistackSize
  <2>1. \A a, c \in Nat : a >= 1 => (a - 1) * c \in Nat /\ a * c = (a - 1) * c + c
    OBVIOUS
  <2>2. QED
    BY <1>1, <2>1
<1>3. n <= b * MinistackSize
  <2>1. b * MinistackSize \in Nat
    <3>. HIDE DEF start
    <3>1. QED
      BY <1>1, <1>2
  <2>2. b + 1 \in Nat /\ b + 1 >= 1 /\ (b + 1) - 1 = b
    BY <1>1
  <2>3. ~ (b * MinistackSize < n)
    BY <2>2, BatchIndexExists
  <2>4. QED
    BY <2>1, <2>3
<1>4. ms.real_start = start /\ ms.num_real = Smaller(MinistackSize, n - start)
  BY BatchSize
<1>. HIDE DEF start, ms
<1>5. Smaller(MinistackSize, n - start) = n - start
  BY <1>1, <1>2, <1>3 DEF Smaller
<1>6. QED
  BY <1>1, <1>2, <1>3, <1>4, <1>5 DEF start, ms

(* What seal_state keeps, when the call's plan is used up.                    *)
LEMMA SealFacts ==
  ASSUME IInv, pc = "drive", NextBlock \notin DOMAIN Plan, out # << >>
  PROVE  /\ NumSealed \in 0 .. Len(out)
         /\ NumSealed * MinistackSize <= Len(tail)
         /\ NumSealed * MinistackSize \in Nat
         /\ OpenRealSlcs \in Seq(Slcs)
         /\ Len(OpenRealSlcs) = Len(tail) - NumSealed * MinistackSize
         /\ Len(OpenRealSlcs) < MinistackSize
         /\ \A i \in 1 .. Len(OpenRealSlcs) :
              OpenRealSlcs[i] = tail[NumSealed * MinistackSize + i]
         /\ Len(out) \in BatchIndices(Len(tail))
         /\ Len(out) + 1 \notin BatchIndices(Len(tail))
<1>. DEFINE n == Len(tail)
            b == Len(out)
            off == Len(Seed(kind))
            start == (b - 1) * MinistackSize
            ms == Plan[b]
<1>1. /\ MinistackSize >= 2 /\ MinistackSize \in Nat
      /\ n \in Nat /\ off \in Nat /\ b \in Nat /\ tail \in Seq(Slcs)
  BY LinkedShape, PlannerAssumption DEF IInv, Driving, TypeOK
<1>2. b \in BatchIndices(n) /\ b + 1 \notin BatchIndices(n)
  <2>1. b >= 1
    BY <1>1 DEF IInv, TypeOK, IsSequence
  <2>2. \A k \in 1 .. b : k \in BatchIndices(n)
    BY DEF IInv, Driving
  <2>3. b + 1 \notin BatchIndices(n)
    BY DEF NextBlock, Plan, PlanWithOffset
  <2>4. QED
    BY <1>1, <2>1, <2>2, <2>3
<1>3. /\ start \in Nat /\ start < n /\ n <= start + MinistackSize
      /\ b * MinistackSize = start + MinistackSize
      /\ ms.real_start = start /\ ms.num_real = n - start
  BY <1>1, <1>2, LastBlock DEF Plan
<1>4. b >= 1
  BY <1>2 DEF BatchIndices
<1>5. CASE LastIsOpen
  <2>1. NumSealed = b - 1 /\ NumSealed * MinistackSize = start
    BY <1>5 DEF NumSealed
  <2>2. n - start < MinistackSize
    BY <1>3, <1>5 DEF LastIsOpen
  <2>3. OpenRealSlcs = SubSeq(tail, start + 1, start + (n - start))
    BY <1>3, <1>5 DEF OpenRealSlcs
  <2>. HIDE DEF start
  <2>4. start + (n - start) = n /\ start + 1 \in 1 .. n /\ n \in start + 1 .. n
    BY <1>1, <1>3
  <2>5. /\ SubSeq(tail, start + 1, n) \in Seq(Slcs)
        /\ Len(SubSeq(tail, start + 1, n)) = n - start
        /\ \A i \in 1 .. n - start : SubSeq(tail, start + 1, n)[i] = tail[start + i]
    BY <1>1, <1>3
  <2>6. b - 1 \in 0 .. b
    BY <1>1, <1>4
  <2>7. NumSealed \in 0 .. Len(out)
    BY <2>1, <2>6
  <2>8. /\ NumSealed * MinistackSize \in Nat /\ NumSealed * MinistackSize <= n
        /\ OpenRealSlcs \in Seq(Slcs)
        /\ Len(OpenRealSlcs) = n - NumSealed * MinistackSize
        /\ Len(OpenRealSlcs) < MinistackSize
    <3>1. OpenRealSlcs = SubSeq(tail, start + 1, n)
      BY <2>3, <2>4
    <3>2. OpenRealSlcs \in Seq(Slcs) /\ Len(OpenRealSlcs) = n - start
      BY <2>5, <3>1
    <3>3. start \in Nat /\ start <= n
      BY <1>1, <1>3
    <3>4. QED
      BY <2>1, <2>2, <3>2, <3>3
  <2>9. \A i \in 1 .. Len(OpenRealSlcs) : OpenRealSlcs[i] = tail[NumSealed * MinistackSize + i]
    BY <2>1, <2>3, <2>4, <2>5
  <2>10. QED
    BY <1>2, <2>7, <2>8, <2>9
<1>6. CASE ~ LastIsOpen
  <2>1. NumSealed = b /\ OpenRealSlcs = << >>
    BY <1>6 DEF NumSealed, OpenRealSlcs
  <2>2. ~ (n - start < MinistackSize)
    BY <1>3, <1>6 DEF LastIsOpen
  <2>. HIDE DEF start
  <2>3. b * MinistackSize = n
    BY <1>1, <1>3, <2>2
  <2>4. QED
    BY <1>1, <1>2, <2>1, <2>3
<1>7. QED
  BY <1>5, <1>6

(* A returning call leaves a state that stands for the whole series.          *)
LEMMA ReturnStep ==
  ASSUME IInv, Return
  PROVE  IInv'
<1>. DEFINE kept == SubSeq(out, 1, NumSealed)
            off == Len(Seed(kind))
            n == Len(tail)
            cut == NumSealed * MinistackSize
            base == off * MinistackSize
<1>1. /\ pc = "drive" /\ NextBlock \notin DOMAIN Plan /\ out # << >>
      /\ history' = Whole /\ published' = BuildOutput(LinkedSoFar, mask) /\ validity' = mask
      /\ sealed' = Seed(kind) \o kept /\ open' = OpenRealSlcs /\ outcome' = "returned"
      /\ pc' = "idle" /\ kind' = "run" /\ mask' = NoMask /\ arrivals' = << >> /\ tail' = << >>
      /\ carry' = << >> /\ out' = << >>
  BY DEF Return, Leave, Whole, LinkedSoFar
<1>2. /\ IsSequence(Seed(kind)) /\ IsSequence(out) /\ IsSequence(LinkedSoFar)
      /\ off \in Nat /\ Len(out) \in Nat /\ Len(LinkedSoFar) = off + Len(out)
  BY LinkedShape DEF IInv
<1>3. /\ NumSealed \in 0 .. Len(out) /\ cut \in Nat /\ cut <= n
      /\ OpenRealSlcs \in Seq(Slcs) /\ Len(OpenRealSlcs) = n - cut
      /\ Len(OpenRealSlcs) < MinistackSize
      /\ \A i \in 1 .. Len(OpenRealSlcs) : OpenRealSlcs[i] = tail[cut + i]
  BY <1>1, SealFacts
<1>4. /\ IsSequence(kept) /\ Len(kept) = NumSealed
      /\ \A i \in 1 .. NumSealed : kept[i] = out[i]
  BY <1>2, <1>3, PrefixShape
<1>5. /\ IsSequence(sealed') /\ Len(sealed') = off + NumSealed
      /\ \A i \in 1 .. off : sealed'[i] = Seed(kind)[i]
      /\ \A i \in 1 .. NumSealed : sealed'[off + i] = kept[i]
  <2>1. sealed' = Seed(kind) \o kept /\ IsSequence(Seed(kind)) /\ IsSequence(kept)
    BY <1>1, <1>2, <1>4
  <2>2. /\ IsSequence(sealed') /\ Len(sealed') = off + Len(kept)
        /\ \A i \in 1 .. off : sealed'[i] = Seed(kind)[i]
        /\ \A i \in 1 .. Len(kept) : sealed'[off + i] = kept[i]
    <3>. HIDE DEF kept
    <3>1. QED
      BY <2>1, ConcatShape
  <2>3. QED
    BY <1>4, <2>2
<1>6. Whole \in Seq(Slcs) /\ tail \in Seq(Slcs) /\ n \in Nat
  BY DEF IInv, TypeOK, Whole
<1>7. TypeOK'
  BY <1>1, <1>3, <1>5, <1>6, EmptySequence DEF IInv, TypeOK, Validities
<1>8. /\ MinistackSize >= 2 /\ MinistackSize \in Nat
      /\ Len(Whole) = base + n
      /\ \A i \in 1 .. n : tail[i] = Whole[base + i]
      /\ Linked(Whole, LinkedSoFar, mask)
  BY <1>1, PlannerAssumption DEF IInv, Driving, LinkedSoFar
<1>9. base \in Nat /\ (off + NumSealed) * MinistackSize = base + cut
  <2>1. \A a, b, c \in Nat : a * c \in Nat /\ (a + b) * c = a * c + b * c
    OBVIOUS
  <2>2. NumSealed \in Nat
    BY <1>2, <1>3
  <2>3. QED
    BY <1>2, <1>8, <2>1, <2>2
<1>10. SealedBoundary'
  <2>1. /\ Len(history') = Len(sealed') * MinistackSize + Len(open')
        /\ Len(open') < MinistackSize
        /\ Len(sealed') * MinistackSize = base + cut
    <3>1. Len(sealed') * MinistackSize = base + cut
      BY <1>5, <1>9
    <3>2. Len(history') = base + n /\ Len(open') = n - cut /\ Len(open') < MinistackSize
      BY <1>1, <1>3, <1>8
    <3>. HIDE DEF base, cut, n
    <3>3. QED
      BY <1>3, <1>6, <1>9, <3>1, <3>2
  <2>2. SUFFICES ASSUME NEW i \in 1 .. Len(open')
        PROVE  open'[i] = history'[(base + cut) + i]
    BY <2>1 DEF SealedBoundary
  <2>3. open'[i] = tail[cut + i]
    BY <1>1, <1>3
  <2>4. cut + i \in 1 .. n /\ base + (cut + i) = (base + cut) + i
    <3>1. i \in 1 .. n - cut
      BY <1>1, <1>3
    <3>. HIDE DEF base, cut, n
    <3>2. QED
      BY <1>3, <1>6, <1>9, <3>1
  <2>5. tail[cut + i] = Whole[base + (cut + i)]
    BY <1>8, <2>4
  <2>6. QED
    BY <1>1, <2>3, <2>4, <2>5
<1>11. Persisted'
  <2>1. /\ Len(sealed') <= Len(LinkedSoFar)
        /\ \A k \in 1 .. Len(sealed') : sealed'[k] = LinkedSoFar[k]
    <3>1. /\ \A i \in 1 .. off : LinkedSoFar[i] = Seed(kind)[i]
          /\ \A i \in 1 .. Len(out) : LinkedSoFar[off + i] = out[i]
      BY <1>2, ConcatShape DEF LinkedSoFar
    <3>2. Len(sealed') <= Len(LinkedSoFar) /\ Len(sealed') = off + NumSealed
      BY <1>2, <1>3, <1>5
    <3>3. SUFFICES ASSUME NEW k \in 1 .. off + NumSealed
          PROVE  sealed'[k] = LinkedSoFar[k]
      BY <3>2
    <3>4. CASE k \in 1 .. off
      BY <1>5, <3>1, <3>4
    <3>5. CASE k \notin 1 .. off
      <4>1. k - off \in 1 .. NumSealed /\ k - off \in 1 .. Len(out) /\ off + (k - off) = k
        BY <1>2, <1>3, <3>5
      <4>2. sealed'[off + (k - off)] = kept[k - off] /\ kept[k - off] = out[k - off]
            /\ LinkedSoFar[off + (k - off)] = out[k - off]
        BY <1>4, <1>5, <3>1, <4>1
      <4>3. QED
        BY <4>1, <4>2
    <3>6. QED
      BY <3>4, <3>5
  <2>2. Linked(Whole, sealed', mask)
    BY <1>2, <1>5, <1>8, <2>1, LinkedPrefix
  <2>3. QED
    BY <1>1, <1>8, <2>2 DEF Persisted, Linked, BatchInput
<1>12. Driving'
  BY <1>1 DEF Driving
<1>13. QED
  BY <1>7, <1>10, <1>11, <1>12 DEF IInv

(* A rejected call changes nothing but the outcome.                           *)
LEMMA RejectStep ==
  ASSUME IInv, pc = "idle", Reject
  PROVE  IInv'
<1>1. /\ outcome' = "rejected"
      /\ UNCHANGED << history, validity, sealed, open, published >>
      /\ UNCHANGED << pc, kind, mask, arrivals, tail, carry, out >>
  BY DEF Reject, persisted, inflight
<1>2. TypeOK'
  BY <1>1 DEF IInv, TypeOK
<1>3. SealedBoundary' /\ Persisted'
  BY <1>1, PersistedKept DEF IInv, persisted
<1>4. Driving'
  BY <1>1 DEF Driving
<1>5. QED
  BY <1>2, <1>3, <1>4 DEF IInv

(* A call that fails forgets what it linked.                                 *)
LEMMA FailStep ==
  ASSUME IInv, Leave, outcome' = "failed", UNCHANGED << persisted, published >>
  PROVE  IInv'
<1>1. /\ pc' = "idle" /\ kind' = "run" /\ mask' = NoMask
      /\ arrivals' = << >> /\ tail' = << >> /\ carry' = << >> /\ out' = << >>
      /\ UNCHANGED << history, validity, sealed, open >>
  BY DEF Leave, persisted
<1>2. TypeOK'
  BY <1>1, EmptySequence DEF IInv, TypeOK, Validities
<1>3. SealedBoundary' /\ Persisted'
  BY PersistedKept DEF IInv
<1>4. Driving'
  BY <1>1 DEF Driving
<1>5. QED
  BY <1>2, <1>3, <1>4 DEF IInv

LEMMA StutterStep ==
  ASSUME IInv, UNCHANGED vars
  PROVE  IInv'
<1>1. /\ UNCHANGED << history, validity, sealed, open, published, outcome >>
      /\ UNCHANGED << pc, kind, mask, arrivals, tail, carry, out >>
  BY DEF vars, persisted, returned, inflight
<1>2. TypeOK'
  BY <1>1 DEF IInv, TypeOK
<1>3. SealedBoundary' /\ Persisted'
  BY <1>1, PersistedKept DEF IInv, persisted
<1>4. Seed(kind)' = Seed(kind) /\ Whole' = Whole /\ Resumable' = Resumable
  BY <1>1 DEF Seed, Whole, Resumable
<1>5. Linked(Whole, Seed(kind) \o out, mask)' = Linked(Whole, Seed(kind) \o out, mask)
  BY <1>1, <1>4 DEF Linked, BatchInput
<1>6. Driving'
  BY <1>1, <1>4, <1>5 DEF IInv, Driving
<1>7. QED
  BY <1>2, <1>3, <1>6 DEF IInv

(* What an update may fold in is a sequence of acquisitions.                  *)
LEMMA UpdateInput ==
  ASSUME IInv, NEW new \in Stacks(Smaller(MaxArrivals, Room))
  PROVE  new \in Seq(Slcs)
<1>1. PICK k \in 0 .. Smaller(MaxArrivals, Room) : new \in [1 .. k -> Slcs]
  BY DEF Stacks
<1>2. k \in Nat
  BY DEF IInv, TypeOK
<1>3. QED
  BY <1>1, <1>2

LEMMA NextIInv ==
  ASSUME IInv, [Next]_vars
  PROVE  IInv'
<1>1. CASE \E stack \in Stacks(MaxArrivals), m \in Validities, fits \in BOOLEAN :
             Run(stack, m, fits)
  BY <1>1, RunStep
<1>2. CASE \E stack \in Stacks(MaxArrivals), m \in Validities, fits \in BOOLEAN :
             RejectRun(stack, m, fits)
  BY <1>2, RejectStep DEF RejectRun
<1>3. CASE \E new \in Stacks(Smaller(MaxArrivals, Room)), m \in Validities, fits \in BOOLEAN :
             Update(new, m, fits)
  <2>1. PICK new \in Stacks(Smaller(MaxArrivals, Room)), m \in Validities, fits \in BOOLEAN :
          Update(new, m, fits)
    BY <1>3
  <2>2. QED
    BY <2>1, UpdateInput, UpdateStep
<1>4. CASE \E new \in Stacks(Smaller(MaxArrivals, Room)), m \in Validities, fits \in BOOLEAN :
             RejectUpdate(new, m, fits)
  BY <1>4, RejectStep DEF RejectUpdate
<1>5. CASE LinkNext
  BY <1>5, LinkStep
<1>6. CASE LinkFails
  BY <1>6, FailStep DEF LinkFails
<1>7. CASE Return
  BY <1>7, ReturnStep
<1>8. CASE NothingToConcatenate
  BY <1>8, FailStep DEF NothingToConcatenate
<1>9. CASE UNCHANGED vars
  BY <1>9, StutterStep
<1>10. QED
  BY <1>1, <1>2, <1>3, <1>4, <1>5, <1>6, <1>7, <1>8, <1>9 DEF Next

(* The invariant holds in every reachable state.                             *)
THEOREM Inductive ==
  Spec => []IInv
<1>1. Init => IInv
  BY InitIInv
<1>2. IInv /\ [Next]_vars => IInv'
  BY NextIInv
<1>3. QED
  BY <1>1, <1>2, PTL DEF Spec

(* Every variable keeps its type, whatever the calls and however they end.     *)
THEOREM TypeCorrect ==
  Spec => []TypeOK
<1>1. IInv => TypeOK
  BY DEF IInv
<1>2. QED
  BY <1>1, Inductive, PTL

(* No acquisition is lost or kept twice where the sealed ministacks meet the   *)
(* open one (seal_state, with_sealed_prefix).                               *)
THEOREM BoundaryExact ==
  Spec => []SealedBoundary
<1>1. IInv => SealedBoundary
  BY DEF IInv
<1>2. QED
  BY <1>1, Inductive, PTL

(* The carry handed to assemble always holds exactly the parents the plan      *)
(* names (carried_parent_ids).                                              *)
THEOREM ParentsAligned ==
  Spec => []CarryAligned
<1>1. ASSUME IInv
      PROVE  CarryAligned
  <2>1. SUFFICES ASSUME pc = "drive", NextBlock \in DOMAIN Plan
        PROVE  /\ Plan[NextBlock].block_id = Len(LinkedSoFar)
               /\ \A id \in CarriedParentIds(Plan[NextBlock]) :
                    /\ id + 1 \in DOMAIN LinkedSoFar
                    /\ LinkedSoFar[id + 1].compressed = carry[id + 1]
               /\ Len(carry) = Len(LinkedSoFar)
    BY DEF CarryAligned, LinkedSoFar
  <2>2. /\ IsSequence(LinkedSoFar) /\ Len(LinkedSoFar) = Len(Seed(kind)) + Len(out)
        /\ Len(Seed(kind)) \in Nat /\ Len(out) \in Nat /\ Len(tail) \in Nat
    BY <1>1, LinkedShape DEF IInv, TypeOK
  <2>3. /\ MinistackSize >= 2 /\ carry = CompressedOf(LinkedSoFar)
        /\ NextBlock \in BatchIndices(Len(tail))
    BY <1>1, <2>1, NextInput DEF IInv, Driving, LinkedSoFar
  <2>4. /\ Len(carry) = Len(LinkedSoFar)
        /\ \A k \in 1 .. Len(LinkedSoFar) : carry[k] = LinkedSoFar[k].compressed
    BY <2>2, <2>3, CompressedShape
  <2>5. /\ Plan[NextBlock].block_id = Len(Seed(kind)) + NextBlock - 1
        /\ Plan[NextBlock].num_compressed \in 0 .. Len(Seed(kind)) + NextBlock - 1
    BY <2>2, <2>3, BatchSize DEF Plan
  <2>6. Len(Seed(kind)) + NextBlock - 1 = Len(LinkedSoFar)
    BY <2>2 DEF NextBlock
  <2>7. \A id \in CarriedParentIds(Plan[NextBlock]) : id + 1 \in 1 .. Len(LinkedSoFar)
    BY <2>2, <2>5, <2>6 DEF CarriedParentIds
  <2>8. DOMAIN LinkedSoFar = 1 .. Len(LinkedSoFar)
    BY <2>2 DEF IsSequence
  <2>9. QED
    BY <2>4, <2>5, <2>6, <2>7, <2>8
<1>2. QED
  BY <1>1, Inductive, PTL

(***************************************************************************)
(* Plans of the tail and of the whole                                        *)
(***************************************************************************)

(* What a call links, and what calls have returned, is a series the planner       *)
(* accepts as a whole.                                                       *)
Accepted ==
  /\ Resumable => PlanAccepted(Len(history), 0)
  /\ pc = "drive" => PlanAccepted(Len(Whole), 0)

LEMMA TailPlan ==
  ASSUME IInv, Accepted, Resumable, NEW n \in Nat
  PROVE  PlanAccepted(Len(open) + n, Len(sealed)) <=> PlanAccepted(Len(history) + n, 0)
<1>. DEFINE full == Len(sealed) * MinistackSize
<1>1. Len(sealed) \in Nat /\ Len(open) \in Nat /\ MinistackSize \in Nat
  BY PlannerAssumption DEF IInv, TypeOK, IsSequence
<1>2. Len(history) = full + Len(open)
  BY DEF IInv, SealedBoundary
<1>3. full \in Nat
  <2>1. \A a, b \in Nat : a * b \in Nat
    OBVIOUS
  <2>2. QED
    BY <1>1, <2>1
<1>4. PlanAccepted(full + Len(open), 0)
  BY <1>2 DEF Accepted
<1>5. PlanAccepted(Len(open) + n, Len(sealed)) <=> PlanAccepted(full + (Len(open) + n), 0)
  BY <1>1, <1>4, PlanExtends
<1>6. full + (Len(open) + n) = Len(history) + n
  <2>. HIDE DEF full
  <2>. QED
    BY <1>1, <1>2, <1>3
<1>7. QED
  BY <1>5, <1>6

LEMMA NextAccepted ==
  ASSUME IInv, Accepted, [Next]_vars
  PROVE  Accepted'
<1>1. CASE \E stack \in Stacks(MaxArrivals), m \in Validities, fits \in BOOLEAN :
             Run(stack, m, fits)
  <2>1. PICK stack \in Stacks(MaxArrivals), m \in Validities, fits \in BOOLEAN : Run(stack, m, fits)
    BY <1>1
  <2>2. /\ PlanAccepted(Len(stack), 0) /\ arrivals' = stack /\ kind' = "run"
        /\ UNCHANGED << history, published >>
    BY <2>1 DEF Run, RunAccepted, Enter, persisted, returned
  <2>3. stack \in Seq(Slcs)
    BY BoundAssumption, StacksAreSequences
  <2>4. Whole' = stack
    BY <2>2, <2>3 DEF Whole
  <2>5. QED
    BY <2>2, <2>4 DEF Accepted, Resumable
<1>2. CASE \E new \in Stacks(Smaller(MaxArrivals, Room)), m \in Validities, fits \in BOOLEAN :
             Update(new, m, fits)
  <2>1. PICK new \in Stacks(Smaller(MaxArrivals, Room)), m \in Validities, fits \in BOOLEAN :
          Update(new, m, fits)
    BY <1>2
  <2>2. /\ Resumable /\ PlanAccepted(Len(open) + Len(new), Len(sealed))
        /\ arrivals' = new /\ kind' = "update" /\ UNCHANGED << history, published >>
    BY <2>1 DEF Update, UpdateAccepted, Enter, persisted, returned
  <2>3. new \in Seq(Slcs) /\ Len(new) \in Nat /\ history \in Seq(Slcs)
    BY UpdateInput DEF IInv, TypeOK
  <2>4. PlanAccepted(Len(history) + Len(new), 0)
    BY <2>2, <2>3, TailPlan
  <2>5. Len(Whole') = Len(history) + Len(new)
    BY <2>2, <2>3 DEF Whole
  <2>6. QED
    BY <2>2, <2>4, <2>5 DEF Accepted, Resumable
<1>3. CASE Return
  BY <1>3 DEF Return, Leave, Accepted, Whole
<1>4. CASE LinkFails \/ NothingToConcatenate
  BY <1>4 DEF LinkFails, NothingToConcatenate, Leave, Accepted, Resumable, persisted
<1>5. ASSUME UNCHANGED << history, published, pc, kind, arrivals >>
      PROVE  Accepted'
  BY <1>5 DEF Accepted, Resumable, Whole
<1>6. CASE LinkNext \/ UNCHANGED vars \/ Reject
  BY <1>5, <1>6 DEF LinkNext, Reject, vars, persisted, returned, inflight
<1>7. QED
  BY <1>1, <1>2, <1>3, <1>4, <1>6 DEF Next, RejectRun, RejectUpdate

(* Resuming accepts exactly the series a full rerun would accept, however many      *)
(* acquisitions are folded in (plan_with_offset).                             *)
THEOREM ResumedPlansAgree ==
  Spec => []PlansAgree
<1>1. Init => Accepted
  BY DEF Init, Accepted, Resumable
<1>2. IInv /\ Accepted /\ [Next]_vars => Accepted'
  BY NextAccepted
<1>3. ASSUME IInv, Accepted
      PROVE  PlansAgree
  BY <1>3, BoundAssumption, TailPlan DEF PlansAgree
<1>4. QED
  BY <1>1, <1>2, <1>3, Inductive, PTL DEF Spec

(***************************************************************************)
(* Refinement                                                              *)
(***************************************************************************)

(* When a call's plan is used up, what it has linked is a whole batch run of   *)
(* the extended series.                                                    *)
LEMMA WholeBatchRun ==
  ASSUME IInv, pc = "drive", NextBlock \notin DOMAIN Plan, out # << >>
  PROVE  IsBatchRun(Whole, mask, LinkedSoFar) /\ LinkedSoFar # << >>
<1>. DEFINE off == Len(Seed(kind))
            n == Len(tail)
            b == Len(out)
            base == off * MinistackSize
<1>1. /\ MinistackSize >= 2 /\ MinistackSize \in Nat /\ n \in Nat
      /\ Len(Whole) = base + n /\ Linked(Whole, LinkedSoFar, mask)
  BY PlannerAssumption DEF IInv, Driving, LinkedSoFar, TypeOK
<1>2. /\ IsSequence(LinkedSoFar) /\ Len(LinkedSoFar) = off + b /\ off \in Nat /\ b \in Nat
      /\ DOMAIN LinkedSoFar = 1 .. off + b
  BY LinkedShape DEF IInv, IsSequence
<1>3. b \in BatchIndices(n) /\ b + 1 \notin BatchIndices(n)
  BY SealFacts
<1>4. off + b \in BatchIndices(base + n)
  BY <1>1, <1>2, <1>3, PlanShift
<1>5. base \in Nat /\ (off + b) * MinistackSize = base + b * MinistackSize
      /\ b * MinistackSize \in Nat
  <2>1. \A x, y, c \in Nat : x * c \in Nat /\ (x + y) * c = x * c + y * c
    OBVIOUS
  <2>2. QED
    BY <1>1, <1>2, <2>1
<1>6. n <= b * MinistackSize
  <2>1. /\ n <= (b - 1) * MinistackSize + MinistackSize
        /\ b * MinistackSize = (b - 1) * MinistackSize + MinistackSize
    BY <1>1, <1>2, <1>3, LastBlock
  <2>2. QED
    BY <2>1
<1>7. ASSUME NEW k \in BatchIndices(base + n)
      PROVE  k \in 1 .. off + b
  <2>1. k \in Nat /\ k >= 1 /\ (k - 1) * MinistackSize < base + n
    BY <1>1, <1>5 DEF BatchIndices
  <2>2. SUFFICES ASSUME k > off + b PROVE FALSE
    BY <1>2, <2>1
  <2>3. off + b <= k - 1 /\ k - 1 \in Nat
    BY <1>2, <2>1, <2>2
  <2>4. \A x, y, c \in Nat : x <= y => x * c <= y * c
    OBVIOUS
  <2>5. (off + b) * MinistackSize <= (k - 1) * MinistackSize
    BY <1>1, <1>2, <2>3, <2>4
  <2>6. (k - 1) * MinistackSize \in Nat
    <3>1. \A x, c \in Nat : x * c \in Nat
      OBVIOUS
    <3>2. QED
      BY <1>1, <2>3, <3>1
  <2>7. base + b * MinistackSize <= (k - 1) * MinistackSize
    BY <1>5, <2>5
  <2>. HIDE DEF base, n
  <2>8. QED
    BY <1>1, <1>5, <1>6, <2>1, <2>6, <2>7
<1>8. \A k \in 1 .. off + b : k \in BatchIndices(base + n)
  BY <1>1, <1>4, <1>5, BatchIndicesClosed
<1>9. BatchIndices(base + n) = 1 .. off + b
  BY <1>7, <1>8
<1>10. DOMAIN PlanWithOffset(Len(Whole), 0) = DOMAIN LinkedSoFar
  BY <1>1, <1>2, <1>9 DEF PlanWithOffset
<1>11. IsBatchRun(Whole, mask, LinkedSoFar)
  BY <1>1, <1>2, <1>10 DEF IsBatchRun, Linked, BatchInput
<1>12. LinkedSoFar # << >>
  BY <1>2, <1>3 DEF BatchIndices
<1>13. QED
  BY <1>11, <1>12

(* Only an output with at least one block is ever published.                  *)
LEMMA OutputIsNew ==
  ASSUME NEW blocks, NEW m, blocks # << >>
  PROVE  BuildOutput(blocks, m) # NoOutput
<1>1. BuildOutput(blocks, m).blocks = blocks /\ NoOutput.blocks = << >>
  BY DEF BuildOutput, NoOutput
<1>2. QED
  BY <1>1

LEMMA IdleRequest ==
  ASSUME pc # "drive"
  PROVE  RequestView = Series!NoRequest
BY DEF RequestView, Series!NoRequest

LEMMA DriveRequest ==
  ASSUME pc = "drive", kind \in {"run", "update"}
  PROVE  /\ RequestView = [op |-> kind, stack |-> Whole, mask |-> mask]
         /\ RequestView # Series!NoRequest
<1>1. RequestView = [op |-> kind, stack |-> Whole, mask |-> mask]
  BY DEF RequestView
<1>2. RequestView.op # "none"
  BY <1>1
<1>3. QED
  BY <1>1, <1>2 DEF Series!NoRequest

(* The abstract series means the same batch run, output and masks.            *)
LEMMA SameSeriesMasks ==
  Series!Validities = Validities
BY DEF Series!Validities, Validities

LEMMA SameSeriesOutput ==
  /\ \A blocks, m : Series!BuildOutput(blocks, m) = BuildOutput(blocks, m)
  /\ Series!NoOutput = NoOutput
<1>1. ASSUME NEW blocks, NEW m
      PROVE  Series!BuildOutput(blocks, m) = BuildOutput(blocks, m)
  BY DEF Series!BuildOutput, BuildOutput, Series!EffectiveMask, EffectiveMask,
         Series!FlattenSeq, FlattenSeq
<1>2. QED
  BY <1>1 DEF Series!NoOutput, NoOutput

LEMMA SameBatchRun ==
  ASSUME NEW stack, NEW m, NEW blocks
  PROVE  Series!IsBatchRun(stack, m, blocks) <=> IsBatchRun(stack, m, blocks)
<1>1. \A n, off : Series!PlanWithOffset(n, off) = PlanWithOffset(n, off)
  BY DEF Series!PlanWithOffset, PlanWithOffset, Series!BatchIndices, BatchIndices,
         Series!Batch, Batch, Series!Smaller, Smaller, Series!References, References
<1>2. \A parents, ms : Series!Assemble(parents, stack, ms, m) = Assemble(parents, stack, ms, m)
  BY DEF Series!Assemble, Assemble, Series!ResolveReferenceIndex, ResolveReferenceIndex,
         Series!Size, Size, Series!EffectiveMask, EffectiveMask
<1>3. \A input : Series!LinkAndCompress(input) = LinkAndCompress(input)
  BY DEF Series!LinkAndCompress, LinkAndCompress
<1>4. QED
  BY <1>1, <1>2, <1>3 DEF Series!IsBatchRun, IsBatchRun

(* Every step is a step of the abstract series, or leaves it alone.           *)
LEMMA SeriesStep ==
  ASSUME IInv, [Next]_vars
  PROVE  [Series!SeriesNext]_(Series!seriesVars)
<1>. USE DEF Series!SeriesNext, Series!seriesVars
<1>1. ASSUME NEW stack \in Stacks(MaxArrivals), NEW m \in Validities, NEW fits \in BOOLEAN,
             Run(stack, m, fits)
      PROVE  Series!AskRun
  <2>1. /\ pc = "idle" /\ pc' = "drive" /\ kind' = "run" /\ mask' = m
        /\ UNCHANGED << history, validity, published >>
    BY <1>1 DEF Run, Enter, persisted, returned
  <2>2. RequestView = Series!NoRequest
    BY <2>1, IdleRequest
  <2>3. RequestView' = [op |-> kind', stack |-> Whole', mask |-> mask']
    BY <2>1 DEF RequestView
  <2>4. RequestView'.op = "run" /\ RequestView'.mask \in Validities
    BY <2>1, <2>3
  <2>5. QED
    BY <2>1, <2>2, <2>4 DEF Series!AskRun, Series!Validities, Validities
<1>2. ASSUME NEW new \in Seq(Slcs), NEW m \in Validities, NEW fits \in BOOLEAN,
             Update(new, m, fits)
      PROVE  Series!AskUpdate
  <2>1. /\ pc = "idle" /\ pc' = "drive" /\ kind' = "update" /\ mask' = m /\ arrivals' = new
        /\ UNCHANGED << history, validity, published >>
    BY <1>2 DEF Update, Enter, persisted, returned
  <2>2. RequestView = Series!NoRequest
    BY <2>1, IdleRequest
  <2>3. /\ RequestView'.op = "update" /\ RequestView'.stack = Whole'
        /\ RequestView'.mask = mask'
    BY <2>1 DEF RequestView
  <2>4. Whole' = history \o new /\ m = validity /\ new # << >> /\ published # NoOutput
    BY <1>2, <2>1 DEF Whole, Update, UpdateAccepted, MaskMatches, Resumable
  <2>5. Series!Extends(Whole', history)
    <3>1. history \in Seq(Slcs) /\ Len(new) > 0
      BY <2>4 DEF IInv, TypeOK
    <3>2. Len(history \o new) > Len(history)
          /\ \A i \in 1 .. Len(history) : (history \o new)[i] = history[i]
      BY <3>1
    <3>3. QED
      BY <2>4, <3>2 DEF Series!Extends
  <2>6. QED
    BY <2>1, <2>2, <2>3, <2>4, <2>5, SameSeriesOutput DEF Series!AskUpdate
<1>3. ASSUME pc = "idle", Reject
      PROVE  UNCHANGED Series!seriesVars
  <2>1. UNCHANGED << history, validity, published, pc, kind, mask, arrivals >>
    BY <1>3 DEF Reject, persisted, inflight
  <2>2. RequestView' = RequestView
    BY <1>3, <2>1 DEF RequestView
  <2>3. QED
    BY <2>1, <2>2
<1>4. ASSUME LinkNext
      PROVE  UNCHANGED Series!seriesVars
  <2>1. UNCHANGED << history, validity, published, pc, kind, mask, arrivals >>
    BY <1>4 DEF LinkNext, persisted, returned
  <2>2. RequestView' = RequestView
    BY <2>1 DEF RequestView, Whole
  <2>3. QED
    BY <2>1, <2>2
<1>5. ASSUME pc = "drive", Leave, UNCHANGED << persisted, published >>
      PROVE  Series!Refuse
  <2>1. pc' = "idle" /\ UNCHANGED << history, validity, published >>
    BY <1>5 DEF Leave, persisted
  <2>2. RequestView # Series!NoRequest
    BY <1>5, DriveRequest DEF IInv, TypeOK
  <2>3. RequestView' = Series!NoRequest
    BY <2>1 DEF RequestView, Series!NoRequest
  <2>4. QED
    BY <2>1, <2>2, <2>3 DEF Series!Refuse
<1>6. ASSUME Return
      PROVE  Series!Answer
  <2>1. /\ pc = "drive" /\ NextBlock \notin DOMAIN Plan /\ out # << >>
        /\ history' = Whole /\ published' = BuildOutput(LinkedSoFar, mask) /\ validity' = mask
        /\ pc' = "idle"
    BY <1>6 DEF Return, Leave, Whole, LinkedSoFar
  <2>2. IsBatchRun(Whole, mask, LinkedSoFar) /\ LinkedSoFar # << >>
    BY <2>1, WholeBatchRun
  <2>3. published' # NoOutput /\ published'.blocks = LinkedSoFar
    BY <2>1, <2>2, OutputIsNew DEF BuildOutput
  <2>4. /\ RequestView # Series!NoRequest
        /\ RequestView.stack = Whole /\ RequestView.mask = mask
    BY <2>1, DriveRequest DEF IInv, TypeOK
  <2>5. RequestView' = Series!NoRequest
    BY <2>1 DEF RequestView, Series!NoRequest
  <2>6. IsBatchRun(history', validity', published'.blocks)
    BY <2>1, <2>2, <2>3
  <2>7. published' = BuildOutput(published'.blocks, validity')
    BY <2>1, <2>3
  <2>8. QED
    BY <2>1, <2>3, <2>4, <2>5, <2>6, <2>7, SameSeriesOutput, SameBatchRun DEF Series!Answer
<1>7. QED
  <2>1. CASE UNCHANGED vars
    <3>1. UNCHANGED << history, validity, published, pc, kind, mask, arrivals >>
      BY <2>1 DEF vars, persisted, returned, inflight
    <3>2. RequestView' = RequestView
      BY <3>1 DEF RequestView, Whole
    <3>3. QED
      BY <3>1, <3>2
  <2>2. CASE \E stack \in Stacks(MaxArrivals), m \in Validities, fits \in BOOLEAN :
               Run(stack, m, fits) \/ RejectRun(stack, m, fits)
    BY <1>1, <1>3, <2>2 DEF RejectRun
  <2>3. CASE \E new \in Stacks(Smaller(MaxArrivals, Room)), m \in Validities, fits \in BOOLEAN :
               Update(new, m, fits) \/ RejectUpdate(new, m, fits)
    BY <1>2, <1>3, <2>3, UpdateInput DEF RejectUpdate
  <2>4. CASE LinkNext
    BY <1>4, <2>4
  <2>5. CASE LinkFails \/ NothingToConcatenate
    BY <1>5, <2>5 DEF LinkFails, NothingToConcatenate
  <2>6. CASE Return
    BY <1>6, <2>6
  <2>7. QED
    BY <2>1, <2>2, <2>3, <2>4, <2>5, <2>6 DEF Next

(* However calls are interleaved with failures, what is published is always    *)
(* what a batch run of the whole series returns: the resumed driver implements *)
(* the abstract series (update_sequential's bit identity).                   *)
THEOREM Implements ==
  Spec => ImplementsSeries
<1>1. Init => Series!SeriesInit
  <2>1. SUFFICES ASSUME Init PROVE Series!SeriesInit
    OBVIOUS
  <2>2. RequestView = Series!NoRequest
    BY <2>1, IdleRequest DEF Init
  <2>3. QED
    BY <2>1, <2>2, SameSeriesOutput DEF Init, Series!SeriesInit
<1>2. IInv /\ [Next]_vars => [Series!SeriesNext]_(Series!seriesVars)
  BY SeriesStep
<1>3. QED
  BY <1>1, <1>2, Inductive, PTL DEF Spec, ImplementsSeries, Series!SeriesSpec

(* A stack has at most one batch run, so the published output is determined by *)
(* the acquisitions folded in and the mask, not by how they were split over    *)
(* calls (drive).                                                          *)
THEOREM BatchRunUnique ==
  ASSUME NEW stack, NEW m, NEW x, NEW y, IsSequence(x), IsSequence(y),
         IsBatchRun(stack, m, x), IsBatchRun(stack, m, y)
  PROVE  x = y
<1>. DEFINE plans == PlanWithOffset(Len(stack), 0)
            differ == {k \in DOMAIN plans : x[k] # y[k]}
<1>1. /\ DOMAIN x = DOMAIN plans /\ DOMAIN y = DOMAIN plans
      /\ \A k \in DOMAIN plans :
           x[k] = LinkAndCompress(
             Assemble([j \in 1 .. k - 1 |-> x[j].compressed], stack, plans[k], m))
      /\ \A k \in DOMAIN plans :
           y[k] = LinkAndCompress(
             Assemble([j \in 1 .. k - 1 |-> y[j].compressed], stack, plans[k], m))
  BY DEF IsBatchRun
<1>2. DOMAIN plans = 1 .. Len(x) /\ Len(x) \in Nat
  BY <1>1 DEF IsSequence
<1>. HIDE DEF plans
<1>3. differ = {}
  <2>1. SUFFICES ASSUME differ # {} PROVE FALSE
    OBVIOUS
  <2>2. differ \subseteq Nat
    BY <1>2
  <2>3. PICK k \in differ : \A j \in differ : ~ (<< j, k >> \in OpToRel(<, Nat))
    BY <2>1, <2>2, NatLessThanWellFounded, WFMin
  <2>4. \A j \in 1 .. k - 1 : x[j] = y[j]
    <3>1. SUFFICES ASSUME NEW j \in 1 .. k - 1, x[j] # y[j] PROVE FALSE
      OBVIOUS
    <3>2. k \in 1 .. Len(x)
      BY <1>2
    <3>3. j \in Nat /\ k \in Nat /\ j < k /\ j \in 1 .. Len(x)
      BY <1>2, <3>2
    <3>4. j \in differ
      BY <1>2, <3>1, <3>3
    <3>5. << j, k >> \in OpToRel(<, Nat)
      BY <3>3 DEF OpToRel
    <3>6. QED
      BY <2>3, <3>4, <3>5
  <2>5. [j \in 1 .. k - 1 |-> x[j].compressed] = [j \in 1 .. k - 1 |-> y[j].compressed]
    BY <2>4
  <2>6. k \in DOMAIN plans /\ x[k] # y[k]
    OBVIOUS
  <2>7. QED
    BY <1>1, <2>5, <2>6
<1>4. QED
  BY <1>1, <1>3 DEF IsSequence
===============================================================================
