--------------------------- MODULE NetStack_proofs ---------------------------
(***************************************************************************)
(* Proofs about the netstack and its relays (NetStack).                    *)
(*                                                                         *)
(* The argument goes flow by flow.  A step changes one flow, or treats the *)
(* flows of one pass independently, so the inductive invariant StackInv is *)
(* the types (StackTypes) and, for every flow, FlowInv over the records of *)
(* the flow and its surroundings (Around).  The heart of FlowInv is        *)
(* UploadWhole: from the start of a flow until it is reset, removed or its *)
(* relay leaves, the places between the client and the peer hold what the  *)
(* client gave, in order, with the end of the stream behind it.  FinLast   *)
(* and AckCount tie the socket to it; EndedByPeer, AgesFollow and          *)
(* JustServiced tie the ages of the flow to the silence of its peer, stage *)
(* by stage.                                                               *)
(*                                                                         *)
(*   1. induction on numbers and on sequences, and folds;                  *)
(*   2. what the queue operators compute (Stream, Purged, IngestAll);      *)
(*   3. the invariant, and the chain of places an upload goes through;     *)
(*   4. one lemma per action: relays, the peer, then the stages of a pass; *)
(*   5. the theorems.                                                      *)
(***************************************************************************)
EXTENDS NetStack, SequenceTheorems, NaturalsInduction, WellFoundedInduction, TLAPS

(* Induction on the numbers up to a bound, for a set of numbers. *)
LEMMA CountTo ==
    ASSUME NEW m \in Nat, NEW G, 0 \in G, \A n \in 0..m : n + 1 <= m /\ n \in G => n + 1 \in G
    PROVE  \A n \in 0..m : n \in G
<1> DEFINE Bad == (0..m) \ G
<1>1. SUFFICES ASSUME Bad # {} PROVE FALSE
  OBVIOUS
<1>2. Bad \subseteq Nat
  OBVIOUS
<1> HIDE DEF Bad
<1>3. PICK n \in Bad : \A k \in Bad : ~(<<k, n>> \in OpToRel(<, Nat))
  BY <1>1, <1>2, NatLessThanWellFounded, WFMin
<1>4. n \in 0..m /\ n \notin G /\ n # 0
  BY <1>3 DEF Bad
<1>5. n - 1 \in 0..m /\ (n - 1) + 1 = n /\ n <= m
  BY <1>4
<1>6. n - 1 \in Bad
  BY <1>4, <1>5 DEF Bad
<1>7. n - 1 \in Nat /\ n \in Nat /\ n - 1 < n
  BY <1>4, <1>5
<1>8. <<n - 1, n>> \in OpToRel(<, Nat)
  BY <1>7, Zenon DEF OpToRel
<1> QED
  BY <1>3, <1>6, <1>8

(* Induction on sequences, for a set of sequences. *)
LEMMA SeqInduction ==
    ASSUME NEW S, NEW G, <<>> \in G,
           \A s \in Seq(S), e \in S : s \in G => Append(s, e) \in G
    PROVE  \A s \in Seq(S) : s \in G
<1> TAKE s \in Seq(S)
<1> DEFINE m == Len(s)
           N == {n \in 0..m : SubSeq(s, 1, n) \in G}
<1>0. m \in Nat /\ s \in Seq(S)
  OBVIOUS
<1>1. 0 \in N
  <2>1. SubSeq(s, 1, 0) = <<>>
    BY SubSeqEmpty
  <2>2. 0 \in 0..m
    BY <1>0
  <2> QED
    BY <2>1, <2>2
<1>2. ASSUME NEW n \in 0..m, n + 1 <= m, n \in N PROVE n + 1 \in N
  <2>1. n + 1 \in 1..Len(s) /\ n + 1 \in 0..m /\ (n + 1) - 1 = n
        /\ 1 \in 1..Len(s) /\ n + 1 \in 1..Len(s)
    BY <1>0, <1>2
  <2>2. SubSeq(s, 1, n + 1) = SubSeq(s, 1, n) \o <<s[n + 1]>>
    BY <2>1, SubSeqRecursiveSecond
  <2>3. SubSeq(s, 1, n) \in Seq(S) /\ s[n + 1] \in S
    <3>1. \A i \in 1..n : s[i] \in S
      BY <1>0, <1>2
    <3> QED
      BY <1>2, <2>1, <3>1, SubSeqProperties, ElementOfSeq
  <2>4. SubSeq(s, 1, n + 1) = Append(SubSeq(s, 1, n), s[n + 1])
    BY <2>2, <2>3, AppendIsConcat
  <2> QED
    BY <1>2, <2>1, <2>3, <2>4
<1> HIDE DEF N
<1>3. m \in N
  <2>1. m \in Nat /\ m \in 0..m
    OBVIOUS
  <2> HIDE DEF m
  <2>2. \A n \in 0..m : n \in N
    BY <1>1, <1>2, <2>1, CountTo
  <2> QED
    BY <2>1, <2>2
<1>4. SubSeq(s, 1, m) = s
  BY SubSeqFull
<1> QED
  BY <1>3, <1>4 DEF N

(* A computation that goes through a sequence of S and keeps a value of D, *)
(* F being its step: h is its course, v its result.                        *)
Step(F, S, D) == F \in [S -> [D -> D]]

\* h is the course of folding q from the left: the value after each element.
Course(h, F, D, init, q) ==
    /\ h \in [0..Len(q) -> D] /\ h[0] = init
    /\ \A n \in 1..Len(q) : h[n] = F[q[n]][h[n - 1]]

\* v is what folding q from the left arrives at.
Results(v, F, D, init, q) == \E h : Course(h, F, D, init, q) /\ v = h[Len(q)]

(* Every such computation has a course. *)
LEMMA CourseExists ==
    ASSUME NEW S, NEW D, NEW init \in D, NEW F, Step(F, S, D)
    PROVE  \A q \in Seq(S) : \E h : Course(h, F, D, init, q)
<1> DEFINE G == {q \in Seq(S) : \E h : Course(h, F, D, init, q)}
<1>1. <<>> \in G
  <2>1. <<>> \in Seq(S) /\ Len(<<>>) = 0
    BY EmptySeq
  <2>2. Course([n \in 0..0 |-> init], F, D, init, <<>>)
    BY <2>1 DEF Course
  <2> QED
    BY <2>1, <2>2
<1>2. ASSUME NEW q \in Seq(S), NEW e \in S, q \in G PROVE Append(q, e) \in G
  <2> DEFINE r == Append(q, e)
             k == Len(q)
  <2>1. /\ r \in Seq(S) /\ Len(r) = k + 1 /\ k \in Nat
        /\ \A n \in 1..k : r[n] = q[n]
        /\ r[k + 1] = e
    BY AppendProperties
  <2>2. PICK g : Course(g, F, D, init, q)
    BY <1>2
  <2> HIDE DEF r
  <2> DEFINE h == [n \in 0..(k + 1) |-> IF n <= k THEN g[n] ELSE F[e][g[k]]]
  <2>3. g \in [0..k -> D] /\ g[0] = init /\ \A n \in 1..k : g[n] = F[q[n]][g[n - 1]]
    BY <2>2 DEF Course
  <2>4. F[e][g[k]] \in D
    BY <2>1, <2>3 DEF Step
  <2>5. h \in [0..(k + 1) -> D]
    BY <2>1, <2>3, <2>4
  <2>6. h[0] = init
    BY <2>1, <2>3
  <2>7. ASSUME NEW n \in 1..(k + 1) PROVE h[n] = F[r[n]][h[n - 1]]
    <3>1. CASE n = k + 1
      <4>1. n - 1 = k /\ h[k] = g[k] /\ h[n] = F[e][g[k]]
        BY <2>1, <3>1
      <4> QED
        BY <2>1, <3>1, <4>1
    <3>2. CASE n \in 1..k
      <4>1. h[n] = g[n] /\ h[n - 1] = g[n - 1]
        BY <2>1, <3>2
      <4> QED
        BY <2>1, <2>3, <3>2, <4>1
    <3> QED
      BY <2>1, <3>1, <3>2
  <2> HIDE DEF h
  <2>8. Course(h, F, D, init, r)
    BY <2>1, <2>5, <2>6, <2>7 DEF Course
  <2> QED
    BY <2>1, <2>8 DEF r
<1> HIDE DEF G
<1>3. \A q \in Seq(S) : q \in G
  BY <1>1, <1>2, SeqInduction
<1> QED
  BY <1>3 DEF G

(* Its result, by the last element. *)
LEMMA ResultSteps ==
    ASSUME NEW S, NEW D, NEW init \in D, NEW F, Step(F, S, D),
           NEW q \in Seq(S), NEW e \in S, NEW v, NEW w, NEW u,
           Results(v, F, D, init, q), Results(w, F, D, init, Append(q, e)),
           Results(u, F, D, init, <<>>)
    PROVE  v \in D /\ w = F[e][v] /\ u = init
<1> DEFINE r == Append(q, e)
           m == Len(q)
<1>1. /\ r \in Seq(S) /\ Len(r) = m + 1 /\ m \in Nat
      /\ \A n \in 1..m : r[n] = q[n]
      /\ r[m + 1] = e
  BY AppendProperties
<1>2. PICK g : Course(g, F, D, init, q) /\ v = g[m]
  BY DEF Results
<1>3. PICK h : Course(h, F, D, init, r) /\ w = h[Len(r)]
  BY DEF Results
<1> HIDE DEF r
<1>4. /\ g \in [0..m -> D] /\ g[0] = init
      /\ \A n \in 1..m : g[n] = F[q[n]][g[n - 1]]
      /\ h[0] = init
      /\ \A n \in 1..(m + 1) : h[n] = F[r[n]][h[n - 1]]
  BY <1>1, <1>2, <1>3 DEF Course
<1> DEFINE G == {n \in 0..m : h[n] = g[n]}
<1>5. 0 \in G
  BY <1>1, <1>4
<1>6. ASSUME NEW n \in 0..m, n + 1 <= m, n \in G PROVE n + 1 \in G
  <2>1. /\ n + 1 \in 1..m /\ n + 1 \in 0..m /\ n + 1 \in 1..(m + 1)
        /\ (n + 1) - 1 = n
    BY <1>1, <1>6
  <2>2. h[n + 1] = F[r[n + 1]][h[n]] /\ g[n + 1] = F[q[n + 1]][g[n]]
    BY <1>4, <2>1
  <2> QED
    BY <1>1, <1>6, <2>1, <2>2
<1>7. h[m] = g[m]
  <2>1. m \in Nat /\ m \in 0..m
    BY <1>1
  <2> HIDE DEF m, G
  <2>2. m \in G
    BY <1>5, <1>6, <2>1, CountTo
  <2> QED
    BY <2>2 DEF G
<1>8. h[m + 1] = F[r[m + 1]][h[m]]
  <2>1. m + 1 \in 1..(m + 1) /\ (m + 1) - 1 = m
    BY <1>1
  <2> QED
    BY <1>4, <2>1
<1>9. v \in D
  BY <1>1, <1>2, <1>4
<1>10. u = init
  <2>1. Len(<<>>) = 0
    BY EmptySeq
  <2> QED
    BY <2>1 DEF Results, Course
<1> QED
  BY <1>1, <1>2, <1>3, <1>7, <1>8, <1>9, <1>10

-----------------------------------------------------------------------------
(* What the messages of a queue mean to a flow.                            *)

Bytes == Seq(Nat)
\* A message as a relay sends it: no chunk of data is empty.
Chunk == {d \in DataInType : d.kind = "data" => d.data # <<>>}
Queues == Seq(Chunk)

(* Closure, length and emptiness of concatenated byte sequences. *)
LEMMA ByteSeqs ==
    /\ <<>> \in Bytes
    /\ \A x \in Bytes : /\ Len(x) \in Nat /\ (x = <<>> <=> Len(x) = 0)
                        /\ x \o <<>> = x /\ <<>> \o x = x
    /\ \A x, y \in Bytes : /\ x \o y \in Bytes /\ Len(x \o y) = Len(x) + Len(y)
                           /\ (x \o y = <<>> <=> x = <<>> /\ y = <<>>)
<1>1. <<>> \in Bytes
  BY EmptySeq DEF Bytes
<1>2. ASSUME NEW x \in Bytes
      PROVE /\ Len(x) \in Nat /\ (x = <<>> <=> Len(x) = 0)
            /\ x \o <<>> = x /\ <<>> \o x = x
  BY EmptySeq, LenProperties, ConcatEmptySeq DEF Bytes
<1>3. ASSUME NEW x \in Bytes, NEW y \in Bytes
      PROVE /\ x \o y \in Bytes /\ Len(x \o y) = Len(x) + Len(y)
            /\ (x \o y = <<>> <=> x = <<>> /\ y = <<>>)
  BY ConcatProperties, ConcatEqualIffEmpty DEF Bytes
<1> QED
  BY <1>1, <1>2, <1>3

(* The byte at a position of a concatenation. *)
LEMMA ByteAt ==
    ASSUME NEW x \in Bytes, NEW y \in Bytes
    PROVE  \A i \in 1..(Len(x) + Len(y)) : (x \o y)[i] = IF i <= Len(x) THEN x[i] ELSE y[i - Len(x)]
  BY ConcatProperties DEF Bytes

(* Concatenation of byte sequences is associative. *)
LEMMA ByteAssoc ==
    ASSUME NEW x \in Bytes, NEW y \in Bytes, NEW z \in Bytes
    PROVE  (x \o y) \o z = x \o (y \o z)
<1>1. x \in Seq(Nat) /\ y \in Seq(Nat) /\ z \in Seq(Nat)
  BY DEF Bytes
<1> QED
  BY <1>1, ConcatAssociative, SMTT(30)

(* The same, to be cited where many sequences are about. *)
Assoc(x, y, z) == (x \o y) \o z = x \o (y \o z)

(* The same, folded into a name so that the solver does not rewrite with it everywhere. *)
LEMMA ByteAssociates ==
    ASSUME NEW x \in Bytes, NEW y \in Bytes, NEW z \in Bytes
    PROVE  Assoc(x, y, z)
  BY ByteAssoc DEF Assoc

(* What a message contributes to a stream is a byte sequence. *)
LEMMA ItemType ==
    ASSUME NEW d \in Chunk, NEW f
    PROVE  Item(d, f) \in Bytes
<1>1. <<>> \in Bytes /\ <<0>> \in Bytes
  BY DEF Bytes
<1>2. d.data \in Bytes
  <2>1. d.data \in Seq(1..UpBytes)
    BY DEF Chunk, DataInType, UpSeq
  <2>2. 1..UpBytes \subseteq Nat
    BY NetStackAssumption
  <2> QED
    BY <2>1, <2>2, SeqMonotonic DEF Bytes
<1> QED
  BY <1>1, <1>2 DEF Item, End

\* One step of the fold that Stream is.
StreamStep(f) == [d \in Chunk |-> [s \in Bytes |-> s \o Item(d, f)]]

(* The step of Stream maps byte sequences to byte sequences. *)
LEMMA StreamStepIs == ASSUME NEW f PROVE Step(StreamStep(f), Chunk, Bytes)
<1>1. ASSUME NEW d \in Chunk, NEW s \in Bytes PROVE s \o Item(d, f) \in Bytes
  BY ItemType, ConcatProperties DEF Bytes
<1> QED
  BY <1>1 DEF Step, StreamStep

(* Stream is the result of folding its step over the queue. *)
LEMMA StreamResults ==
    ASSUME NEW q \in Queues, NEW f
    PROVE  Results(Stream(q, f), StreamStep(f), Bytes, <<>>, q)
<1> DEFINE m == Len(q)
           Is(g) == g = [n \in 0..m |-> IF n = 0 THEN <<>> ELSE g[n - 1] \o Item(q[n], f)]
           c == CHOOSE g : Is(g)
<1>1. m \in Nat /\ <<>> \in Bytes /\ \A n \in 1..m : q[n] \in Chunk
  BY ElementOfSeq DEF Bytes, Queues
<1>2. PICK h : Course(h, StreamStep(f), Bytes, <<>>, q)
  BY <1>1, StreamStepIs, CourseExists DEF Queues
<1>3. h \in [0..m -> Bytes] /\ h[0] = <<>>
  BY <1>2 DEF Course
<1>4. ASSUME NEW n \in 1..m PROVE h[n] = h[n - 1] \o Item(q[n], f)
  <2>1. h[n] = StreamStep(f)[q[n]][h[n - 1]]
    BY <1>2 DEF Course
  <2>2. h[n - 1] \in Bytes /\ q[n] \in Chunk
    BY <1>1, <1>3
  <2> QED
    BY <2>1, <2>2 DEF StreamStep
<1>5. Is(h)
  <2>1. h = [n \in 0..m |-> h[n]]
    BY <1>3
  <2>2. \A n \in 0..m : n = 0 \/ n \in 1..m
    BY <1>1
  <2>3. \A n \in 0..m : h[n] = IF n = 0 THEN <<>> ELSE h[n - 1] \o Item(q[n], f)
    BY <1>3, <1>4, <2>2, SMTT(30)
  <2> QED
    BY <2>1, <2>3
<1>6. Is(c)
  BY <1>5
<1>7. Stream(q, f) = c[m]
  BY DEF Stream
<1> HIDE DEF c
<1> DEFINE G == {n \in 0..m : c[n] = h[n]}
<1>8. 0 \in G
  BY <1>1, <1>3, <1>6
<1>9. ASSUME NEW n \in 0..m, n + 1 <= m, n \in G PROVE n + 1 \in G
  <2>1. n + 1 \in 1..m /\ n + 1 \in 0..m /\ (n + 1) - 1 = n /\ n + 1 # 0
    BY <1>1, <1>9
  <2>2. c[n + 1] = c[n] \o Item(q[n + 1], f)
    BY <1>6, <2>1
  <2>3. h[n + 1] = h[n] \o Item(q[n + 1], f)
    BY <1>4, <2>1
  <2> QED
    BY <1>9, <2>1, <2>2, <2>3
<1>10. c[m] = h[m]
  <2>1. m \in 0..m /\ m \in Nat
    BY <1>1
  <2> HIDE DEF G, m
  <2>2. m \in G
    BY <1>8, <1>9, <2>1, CountTo
  <2> QED
    BY <2>2 DEF G
<1> QED
  BY <1>2, <1>7, <1>10 DEF Results

(* Unfolding of Stream: nothing in an empty queue, one more item per message appended. *)
LEMMA StreamSteps ==
    ASSUME NEW q \in Queues, NEW d \in Chunk, NEW f
    PROVE  /\ Stream(<<>>, f) = <<>>
           /\ Stream(q, f) \in Bytes
           /\ Stream(Append(q, d), f) = Stream(q, f) \o Item(d, f)
<1>1. <<>> \in Queues /\ <<>> \in Bytes /\ Append(q, d) \in Queues
  BY AppendProperties, EmptySeq DEF Queues, Bytes
<1>2. /\ Results(Stream(<<>>, f), StreamStep(f), Bytes, <<>>, <<>>)
      /\ Results(Stream(q, f), StreamStep(f), Bytes, <<>>, q)
      /\ Results(Stream(Append(q, d), f), StreamStep(f), Bytes, <<>>, Append(q, d))
  BY <1>1, StreamResults
<1>3. /\ Stream(<<>>, f) = <<>> /\ Stream(q, f) \in Bytes
      /\ Stream(Append(q, d), f) = StreamStep(f)[d][Stream(q, f)]
  <2>1. q \in Seq(Chunk)
    BY DEF Queues
  <2> QED
    BY <1>1, <1>2, <2>1, StreamStepIs, ResultSteps
<1> QED
  BY <1>3 DEF StreamStep

-----------------------------------------------------------------------------
(* The backlog without some flows.                                         *)

Kept(s, d, ids) == IF d.id \in ids THEN s ELSE Append(s, d)

\* One step of the fold that Purged is.
PurgedStep(ids) == [d \in Chunk |-> [s \in Queues |-> Kept(s, d, ids)]]

(* The step of Purged maps queues to queues. *)
LEMMA PurgedStepIs == ASSUME NEW ids PROVE Step(PurgedStep(ids), Chunk, Queues)
<1>1. ASSUME NEW d \in Chunk, NEW s \in Queues PROVE Kept(s, d, ids) \in Queues
  BY AppendProperties DEF Queues, Kept
<1> QED
  BY <1>1 DEF Step, PurgedStep

(* Purged is the result of folding its step over the queue. *)
LEMMA PurgedResults ==
    ASSUME NEW q \in Queues, NEW ids
    PROVE  Results(Purged(q, ids), PurgedStep(ids), Queues, <<>>, q)
<1> DEFINE m == Len(q)
           Is(g) == g = [n \in 0..m |-> IF n = 0 THEN <<>> ELSE Kept(g[n - 1], q[n], ids)]
           c == CHOOSE g : Is(g)
<1>1. m \in Nat /\ <<>> \in Queues /\ \A n \in 1..m : q[n] \in Chunk
  BY EmptySeq, ElementOfSeq DEF Queues
<1>2. PICK h : Course(h, PurgedStep(ids), Queues, <<>>, q)
  BY <1>1, PurgedStepIs, CourseExists DEF Queues
<1>3. h \in [0..m -> Queues] /\ h[0] = <<>>
  BY <1>2 DEF Course
<1>4. ASSUME NEW n \in 1..m PROVE h[n] = Kept(h[n - 1], q[n], ids)
  <2>1. h[n] = PurgedStep(ids)[q[n]][h[n - 1]]
    BY <1>2 DEF Course
  <2>2. h[n - 1] \in Queues /\ q[n] \in Chunk
    BY <1>1, <1>3
  <2> QED
    BY <2>1, <2>2 DEF PurgedStep
<1>5. Is(h)
  <2>1. h = [n \in 0..m |-> h[n]]
    BY <1>3
  <2>2. \A n \in 0..m : n = 0 \/ n \in 1..m
    BY <1>1
  <2>3. \A n \in 0..m : h[n] = IF n = 0 THEN <<>> ELSE Kept(h[n - 1], q[n], ids)
    BY <1>3, <1>4, <2>2
  <2> QED
    BY <2>1, <2>3
<1>6. Is(c)
  BY <1>5
<1>7. Purged(q, ids) = c[m]
  BY DEF Purged, Kept
<1> HIDE DEF c
<1> DEFINE G == {n \in 0..m : c[n] = h[n]}
<1>8. 0 \in G
  BY <1>1, <1>3, <1>6
<1>9. ASSUME NEW n \in 0..m, n + 1 <= m, n \in G PROVE n + 1 \in G
  <2>1. n + 1 \in 1..m /\ n + 1 \in 0..m /\ (n + 1) - 1 = n /\ n + 1 # 0
    BY <1>1, <1>9
  <2>2. c[n + 1] = Kept(c[n], q[n + 1], ids)
    BY <1>6, <2>1
  <2>3. h[n + 1] = Kept(h[n], q[n + 1], ids)
    BY <1>4, <2>1
  <2> QED
    BY <1>9, <2>1, <2>2, <2>3
<1>10. c[m] = h[m]
  <2>1. m \in 0..m /\ m \in Nat
    BY <1>1
  <2> HIDE DEF G, m
  <2>2. m \in G
    BY <1>8, <1>9, <2>1, CountTo
  <2> QED
    BY <2>2 DEF G
<1> QED
  BY <1>2, <1>7, <1>10 DEF Results

(* Unfolding of Purged (Backlog::purge): a message stays unless its flow is purged. *)
LEMMA PurgedSteps ==
    ASSUME NEW q \in Queues, NEW d \in Chunk, NEW ids
    PROVE  /\ Purged(<<>>, ids) = <<>>
           /\ Purged(q, ids) \in Queues
           /\ Purged(Append(q, d), ids) = Kept(Purged(q, ids), d, ids)
<1>1. <<>> \in Queues /\ <<>> \in Queues /\ Append(q, d) \in Queues
  BY AppendProperties, EmptySeq DEF Queues
<1>2. /\ Results(Purged(<<>>, ids), PurgedStep(ids), Queues, <<>>, <<>>)
      /\ Results(Purged(q, ids), PurgedStep(ids), Queues, <<>>, q)
      /\ Results(Purged(Append(q, d), ids), PurgedStep(ids), Queues, <<>>, Append(q, d))
  BY <1>1, PurgedResults
<1>3. /\ Purged(<<>>, ids) = <<>> /\ Purged(q, ids) \in Queues
      /\ Purged(Append(q, d), ids) = PurgedStep(ids)[d][Purged(q, ids)]
  <2>1. q \in Seq(Chunk)
    BY DEF Queues
  <2> QED
    BY <1>1, <1>2, <2>1, PurgedStepIs, ResultSteps, SMTT(30)
<1> QED
  BY <1>3 DEF PurgedStep

-----------------------------------------------------------------------------
(* Taking in messages.                                                     *)

Tables == {t \in [Flows -> TcpState] : \A f \in Flows : Len(t[f].pending) <= PendingMax}
\* What one call of Backlog::ingest works on: the flow table and the backlog.
Books == [tcp : Tables, backlog : Queues]

(* The sizes and limits are naturals, in the order the assumption gives. *)
LEMMA Sizes ==
    /\ UpBytes \in Nat /\ DownBytes \in Nat
    /\ PendingMax \in Nat /\ SendBuf \in Nat /\ SendBuf > 0 /\ RecvBuf \in Nat
    /\ StallWarn \in Nat /\ StallReset \in Nat /\ StallReset > 0 /\ Wedge \in Nat
    /\ FlapLimit \in Nat /\ FlapLimit > 0 /\ Linger \in Nat /\ ConnectLimit \in Nat
    /\ CreditWait \in Nat /\ QueueCap \in Nat /\ AppCap \in Nat /\ MaxChunk \in Nat
    /\ MinBudget \in Nat /\ MaxBudget \in Nat /\ IngestMax \in Nat
    /\ MinBudget <= MaxBudget /\ StallWarn <= StallReset /\ StallReset <= Wedge
  BY NetStackAssumption

(* A chunk is split at n, and what comes first added to p. *)
SplitAt(p, x, n) ==
    /\ n \in 0..Len(x)
    /\ SubSeq(x, 1, n) \in UpSeq /\ SubSeq(x, n + 1, Len(x)) \in UpSeq
    /\ Len(SubSeq(x, n + 1, Len(x))) = Len(x) - n
    /\ x = SubSeq(x, 1, n) \o SubSeq(x, n + 1, Len(x))
    /\ p \o SubSeq(x, 1, n) \in UpSeq /\ Len(p \o SubSeq(x, 1, n)) = Len(p) + n

(* A byte sequence cut anywhere is the concatenation of its two parts. *)
LEMMA Split ==
    ASSUME NEW p \in UpSeq, NEW x \in UpSeq, NEW n \in 0..Len(x)
    PROVE  SplitAt(p, x, n)
<1> DEFINE U == 1..UpBytes
<1>1. Len(x) \in Nat /\ x \in Seq(U) /\ p \in Seq(U)
  BY DEF UpSeq
<1>2. n \in 0..Len(x) /\ n \in Nat
  BY <1>1
<1> HIDE DEF U
<1>3. \A i \in 1..Len(x) : x[i] \in U
  BY <1>1, ElementOfSeq
<1>4. /\ \A i \in 1..n : x[i] \in U
      /\ \A i \in (n + 1)..Len(x) : x[i] \in U
  BY <1>1, <1>2, <1>3
<1>5. SubSeq(x, 1, n) \in Seq(U) /\ Len(SubSeq(x, 1, n)) = n
  BY <1>2, <1>4, SubSeqProperties
<1>6. SubSeq(x, n + 1, Len(x)) \in Seq(U) /\ Len(SubSeq(x, n + 1, Len(x))) = Len(x) - n
  <2>1. n + 1 \in Int /\ Len(x) \in Int
    BY <1>1, <1>2
  <2>2. /\ SubSeq(x, n + 1, Len(x)) \in Seq(U)
        /\ Len(SubSeq(x, n + 1, Len(x))) = IF n + 1 <= Len(x) THEN Len(x) - (n + 1) + 1 ELSE 0
    BY <1>4, <2>1, SubSeqProperties
  <2> QED
    BY <1>1, <1>2, <2>2
<1>7. SubSeq(x, 1, n) \o SubSeq(x, n + 1, Len(x)) = SubSeq(x, 1, Len(x))
  <2>1. 1 \in 1..(Len(x) + 1) /\ n \in (1 - 1)..Len(x) /\ Len(x) \in n..Len(x)
    BY <1>1, <1>2
  <2> QED
    BY <1>1, <2>1, ConcatAdjacentSubSeq
<1>8. SubSeq(x, 1, Len(x)) = x
  BY <1>1, SubSeqFull
<1>9. p \o SubSeq(x, 1, n) \in Seq(U) /\ Len(p \o SubSeq(x, 1, n)) = Len(p) + n
  <2> DEFINE y == SubSeq(x, 1, n)
  <2>1. y \in Seq(U) /\ Len(y) = n
    BY <1>5
  <2> HIDE DEF y
  <2>2. p \o y \in Seq(U) /\ Len(p \o y) = Len(p) + Len(y)
    BY <1>1, <2>1, ConcatProperties
  <2> QED
    BY <2>1, <2>2 DEF y
<1> QED
  BY <1>2, <1>5, <1>6, <1>7, <1>8, <1>9 DEF U, UpSeq, SplitAt

(* What a flow does with a message: nothing if it is gone, the mark of the *)
(* end if that is the message, and as much of a chunk as there is room for.*)
Handled(t, d, r) ==
    /\ r.tcp \in Tables
    /\ \A f \in Flows : f # d.id => r.tcp[f] = t[f]
    /\ \/ ~t[d.id].live /\ r.tcp = t /\ r.left = <<>>
       \/ /\ t[d.id].live /\ d.kind = "close" /\ r.left = <<>>
          /\ r.tcp[d.id] = [t[d.id] EXCEPT !.half_closed = TRUE]
       \/ /\ t[d.id].live /\ d.kind = "data"
          /\ \E x, y \in UpSeq :
               /\ d.data = x \o y
               /\ r.tcp[d.id] = [t[d.id] EXCEPT !.pending = @ \o x]
               /\ IF y = <<>> THEN r.left = <<>> ELSE r.left = <<DataMsg(d.id, y)>>

(* try_handle_data does one of the three things of Handled: a flow that is gone is
   skipped, a close marks the flow, data goes to the tail of pending and the rest stays. *)
LEMMA TryHandles ==
    ASSUME NEW t \in Tables, NEW d \in Chunk
    PROVE  Handled(t, d, TryHandleData(t, d))
<1> USE DEF Handled
<1> DEFINE r == TryHandleData(t, d)
           u == t[d.id]
<1>1. /\ d.id \in Flows /\ d.data \in UpSeq /\ d.kind \in {"data", "close"}
      /\ t \in [Flows -> TcpState] /\ u \in TcpState /\ u.pending \in UpSeq
      /\ Len(u.pending) <= PendingMax
  BY DEF Chunk, DataInType, Tables, TcpState
<1>2. CASE ~u.live
  BY <1>2 DEF TryHandleData
<1>3. CASE u.live /\ d.kind = "close"
  <2>1. r = [tcp |-> [t EXCEPT ![d.id].half_closed = TRUE], left |-> <<>>]
    BY <1>3 DEF TryHandleData
  <2>2. [u EXCEPT !.half_closed = TRUE] \in TcpState
        /\ [u EXCEPT !.half_closed = TRUE].pending = u.pending
    BY <1>1 DEF TcpState
  <2> DEFINE w == [u EXCEPT !.half_closed = TRUE]
  <2>3. r.tcp = [t EXCEPT ![d.id] = w] /\ r.left = <<>>
    BY <2>1
  <2> HIDE DEF r, w
  <2>4. r.tcp \in Tables /\ r.tcp[d.id] = w
        /\ \A f \in Flows : f # d.id => r.tcp[f] = t[f]
    BY <1>1, <2>2, <2>3 DEF Tables, w
  <2> QED
    BY <1>3, <2>3, <2>4 DEF r, w
<1>4. CASE u.live /\ d.kind = "data"
  <2> DEFINE room == PendingMax - Len(u.pending)
             n == IF Len(d.data) <= room THEN Len(d.data) ELSE room
             x == SubSeq(d.data, 1, n)
             y == SubSeq(d.data, n + 1, Len(d.data))
             w == [u EXCEPT !.pending = @ \o x]
  <2>1. room \in Nat /\ Len(u.pending) \in Nat
    BY <1>1, Sizes DEF UpSeq
  <2>2. /\ n \in 0..Len(d.data) /\ n <= room
        /\ x \in UpSeq /\ y \in UpSeq /\ d.data = x \o y /\ Len(y) = Len(d.data) - n
        /\ u.pending \o x \in UpSeq /\ Len(u.pending \o x) = Len(u.pending) + n
    <3> HIDE DEF room
    <3>1. n \in 0..Len(d.data) /\ n <= room
      BY <1>1, <2>1 DEF UpSeq
    <3> HIDE DEF n
    <3>2. SplitAt(u.pending, d.data, n)
      BY <1>1, <3>1, Split
    <3> QED
      BY <3>1, <3>2 DEF SplitAt
  <2>3. r = [tcp |-> [t EXCEPT ![d.id].pending = @ \o x],
             left |-> IF n = Len(d.data) THEN <<>> ELSE <<DataMsg(d.id, y)>>]
    BY <1>4 DEF TryHandleData
  <2>4. Len(d.data) \in Nat /\ (n = Len(d.data) <=> y = <<>>)
    <3> HIDE DEF n, y
    <3>1. Len(d.data) \in Nat /\ Len(<<>>) = 0 /\ (y # <<>> => Len(y) # 0)
      BY <1>1, <2>2, EmptySeq DEF UpSeq
    <3> QED
      BY <2>2, <3>1
  <2> HIDE DEF x, y, n, room
  <2>5. w \in TcpState /\ w.pending = u.pending \o x
    BY <1>1, <2>2 DEF TcpState
  <2>6. Len(w.pending) <= PendingMax
    <3>1. Len(w.pending) = Len(u.pending) + n
      BY <2>2, <2>5
    <3>2. n <= room /\ n \in Nat
      BY <2>2
    <3> HIDE DEF w, u
    <3> QED
      BY <2>1, <3>1, <3>2, Sizes DEF room
  <2>7. r.tcp = [t EXCEPT ![d.id] = w]
    BY <2>3
  <2> HIDE DEF r, w
  <2>8. r.tcp \in Tables /\ r.tcp[d.id] = w
        /\ \A f \in Flows : f # d.id => r.tcp[f] = t[f]
    BY <1>1, <2>5, <2>6, <2>7 DEF Tables
  <2>9. IF y = <<>> THEN r.left = <<>> ELSE r.left = <<DataMsg(d.id, y)>>
    BY <2>3, <2>4 DEF r
  <2> QED
    BY <1>4, <2>2, <2>8, <2>9 DEF r, w
<1> QED
  BY <1>1, <1>2, <1>3, <1>4

(* A queue holds messages of a flow if and only if they mean something.    *)
LEMMA HeldMeans == ASSUME NEW f PROVE \A q \in Queues : Holds(q, f) <=> Stream(q, f) # <<>>
<1> DEFINE G == {q \in Queues : Holds(q, f) <=> Stream(q, f) # <<>>}
<1>1. <<>> \in G
  <2>1. <<>> \in Queues /\ Len(<<>>) = 0
    BY EmptySeq DEF Queues
  <2>2. Stream(<<>>, f) = <<>>
    <3>1. Results(Stream(<<>>, f), StreamStep(f), Bytes, <<>>, <<>>)
      BY <2>1, StreamResults
    <3> QED
      BY <2>1, <3>1 DEF Results, Course
  <2> QED
    BY <2>1, <2>2 DEF Holds
<1>2. ASSUME NEW q \in Seq(Chunk), NEW d \in Chunk, q \in G PROVE Append(q, d) \in G
  <2> DEFINE r == Append(q, d)
  <2>1. /\ r \in Seq(Chunk) /\ Len(r) = Len(q) + 1 /\ Len(q) \in Nat
        /\ \A n \in 1..Len(q) : r[n] = q[n]
        /\ r[Len(q) + 1] = d
    BY AppendProperties
  <2>2. q \in Queues /\ r \in Queues
    BY <2>1 DEF Queues
  <2>3. Stream(r, f) = Stream(q, f) \o Item(d, f) /\ Stream(q, f) \in Bytes /\ Item(d, f) \in Bytes
    BY <2>2, StreamSteps, ItemType
  <2>4. Stream(r, f) = <<>> <=> Stream(q, f) = <<>> /\ Item(d, f) = <<>>
    BY <2>3, ConcatEqualIffEmpty DEF Bytes
  <2>5. Item(d, f) = <<>> <=> d.id # f
    BY DEF Item, Chunk, DataInType
  <2>6. Holds(r, f) <=> Holds(q, f) \/ d.id = f
    <3> HIDE DEF r
    <3>1. \A i \in 1..Len(r) : i \in 1..Len(q) \/ i = Len(q) + 1
      BY <2>1
    <3>2. \A i \in 1..Len(q) : i \in 1..Len(r)
      BY <2>1
    <3>3. Len(q) + 1 \in 1..Len(r)
      BY <2>1
    <3> QED
      BY <2>1, <3>1, <3>2, <3>3 DEF Holds
  <2> QED
    BY <1>2, <2>2, <2>4, <2>5, <2>6
<1> HIDE DEF G
<1>3. \A q \in Seq(Chunk) : q \in G
  BY <1>1, <1>2, SeqInduction
<1> QED
  BY <1>3 DEF G, Queues

(* A message is handed to its flow, or put behind what waits for it.       *)
Ingested(s, d, y, r) ==
    /\ r \in Books
    /\ \/ /\ Holds(s.backlog, d.id)
          /\ r.tcp = s.tcp /\ r.backlog = Append(s.backlog, d)
       \/ /\ ~Holds(s.backlog, d.id)
          /\ r.tcp = y.tcp
          /\ \/ y.left = <<>> /\ r.backlog = s.backlog
             \/ \E x \in Chunk : y.left = <<x>> /\ r.backlog = Append(s.backlog, x)

(* Backlog::ingest parks a message behind older ones of its flow, and otherwise hands it
   to try_handle_data and parks what that leaves. *)
LEMMA IngestIs ==
    ASSUME NEW s \in Books, NEW d \in Chunk
    PROVE  Ingested(s, d, TryHandleData(s.tcp, d), Ingest(s, d))
<1> USE DEF Ingested
<1>0. s.tcp \in Tables /\ s.backlog \in Queues /\ s.backlog \in Seq(Chunk)
  BY DEF Books, Queues
<1>1. CASE Holds(s.backlog, d.id)
  <2>1. Ingest(s, d) = [s EXCEPT !.backlog = Append(@, d)]
    BY <1>1 DEF Ingest
  <2>2. Append(s.backlog, d) \in Queues
    BY <1>0, AppendProperties DEF Queues
  <2> QED
    BY <1>1, <2>1, <2>2 DEF Books
<1>2. CASE ~Holds(s.backlog, d.id)
  <2> DEFINE r == TryHandleData(s.tcp, d)
  <2>1. Ingest(s, d) = [s EXCEPT !.tcp = r.tcp, !.backlog = @ \o r.left]
    BY <1>2 DEF Ingest
  <2>2. /\ r.tcp \in Tables
        /\ r.left = <<>> \/ \E y \in UpSeq : y # <<>> /\ r.left = <<DataMsg(d.id, y)>>
    BY <1>0, TryHandles DEF Handled
  <2>3. r.left = <<>> \/ \E x \in Chunk : r.left = <<x>>
    BY <2>2 DEF Chunk, DataInType, DataMsg
  <2> HIDE DEF r
  <2>4. Ingest(s, d).tcp = r.tcp /\ Ingest(s, d).backlog = s.backlog \o r.left
    BY <2>1 DEF Books
  <2>5. CASE r.left = <<>>
    <3>1. s.backlog \o r.left = s.backlog
      BY <1>0, <2>5, ConcatEmptySeq
    <3>2. Ingest(s, d) \in Books
      BY <1>0, <2>1, <2>2, <3>1 DEF Books
    <3> QED
      BY <1>2, <2>4, <2>5, <3>1, <3>2 DEF r
  <2>6. CASE \E x \in Chunk : r.left = <<x>>
    <3>1. PICK x \in Chunk : r.left = <<x>>
      BY <2>6
    <3>2. s.backlog \o r.left = Append(s.backlog, x)
      BY <1>0, <3>1, AppendIsConcat
    <3>3. Append(s.backlog, x) \in Queues
      BY <1>0, AppendProperties DEF Queues
    <3>4. Ingest(s, d) \in Books
      BY <1>0, <2>1, <2>2, <3>2, <3>3 DEF Books
    <3> QED
      BY <1>2, <2>4, <3>1, <3>2, <3>4 DEF r
  <2> QED
    BY <2>3, <2>5, <2>6
<1> QED
  BY <1>1, <1>2

(* Where the end of an upload is in a stream, it is last. *)
EndsOnce(x) == \A i \in 1..Len(x) : x[i] = End => i = Len(x)

(* What is with the stack of flow f, its socket apart, oldest first. *)
Inside(s, f) == s.tcp[f].pending \o Mark(s.tcp[f].half_closed) \o Stream(s.backlog, f)

(* A flow that took messages in: only its pending bytes and its mark differ. *)
TookIn(t, u) ==
    /\ u = [t EXCEPT !.pending = u.pending, !.half_closed = u.half_closed]
    /\ t.half_closed => u.half_closed
    /\ ~t.live => u = t

(* A stretch of a stream that ends at most once ends at most once itself. *)
LEMMA Infix ==
    ASSUME NEW x \in Bytes, NEW y \in Bytes, NEW z \in Bytes, EndsOnce(x \o y \o z)
    PROVE  EndsOnce(y)
<1>1. /\ Len(x) \in Nat /\ Len(y) \in Nat /\ Len(z) \in Nat
      /\ x \o y \in Bytes /\ Len(x \o y) = Len(x) + Len(y)
      /\ \A i \in 1..(Len(x) + Len(y)) : (x \o y)[i] = IF i <= Len(x) THEN x[i] ELSE y[i - Len(x)]
  BY ConcatProperties DEF Bytes
<1> DEFINE w == x \o y
<1>2. w \in Bytes /\ Len(w) = Len(x) + Len(y)
  BY <1>1
<1>3. \A i \in 1..Len(y) : w[Len(x) + i] = y[i]
  <2> TAKE i \in 1..Len(y)
  <2>1. Len(x) + i \in 1..(Len(x) + Len(y)) /\ ~(Len(x) + i <= Len(x)) /\ (Len(x) + i) - Len(x) = i
    BY <1>1
  <2> QED
    BY <1>1, <2>1
<1> HIDE DEF w
<1>4. /\ Len(w \o z) = Len(w) + Len(z)
      /\ \A i \in 1..(Len(w) + Len(z)) : (w \o z)[i] = IF i <= Len(w) THEN w[i] ELSE z[i - Len(w)]
  BY <1>2, ByteSeqs, ByteAt
<1>5. EndsOnce(w \o z)
  BY DEF w
<1> SUFFICES ASSUME NEW i \in 1..Len(y), y[i] = End PROVE i = Len(y)
  BY DEF EndsOnce
<1>6. Len(x) + i \in 1..(Len(w) + Len(z)) /\ Len(x) + i <= Len(w)
  BY <1>1, <1>2
<1>7. (w \o z)[Len(x) + i] = End
  BY <1>3, <1>4, <1>6
<1>8. Len(x) + i = Len(w) + Len(z)
  <2>1. Len(x) + i \in 1..Len(w \o z)
    BY <1>4, <1>6
  <2> QED
    BY <1>4, <1>5, <1>7, <2>1 DEF EndsOnce
<1> QED
  BY <1>1, <1>2, <1>8

(* Nothing follows the end. *)
LEMMA EndIsLast ==
    ASSUME NEW x \in Bytes, NEW y \in Bytes, EndsOnce((x \o <<End>>) \o y)
    PROVE  y = <<>>
<1>1. /\ Len(x) \in Nat /\ Len(y) \in Nat /\ <<End>> \in Bytes /\ Len(<<End>>) = 1
      /\ <<End>>[1] = End
  BY DEF Bytes, End
<1> DEFINE w == x \o <<End>>
<1>2. w \in Bytes /\ Len(w) = Len(x) + 1 /\ w[Len(x) + 1] = End
  <2> DEFINE e == <<End>>
  <2>1. e \in Bytes /\ Len(e) = 1 /\ e[1] = End
    BY <1>1
  <2> HIDE DEF e
  <2>2. /\ x \o e \in Bytes /\ Len(x \o e) = Len(x) + Len(e)
        /\ \A i \in 1..(Len(x) + Len(e)) : (x \o e)[i] = IF i <= Len(x) THEN x[i] ELSE e[i - Len(x)]
    BY <2>1, ConcatProperties DEF Bytes
  <2>3. Len(x) + 1 \in 1..(Len(x) + Len(e)) /\ ~(Len(x) + 1 <= Len(x)) /\ (Len(x) + 1) - Len(x) = 1
    BY <1>1, <2>1
  <2> QED
    BY <2>1, <2>2, <2>3 DEF e
<1> HIDE DEF w
<1>3. /\ Len(w \o y) = Len(w) + Len(y)
      /\ \A i \in 1..(Len(w) + Len(y)) : (w \o y)[i] = IF i <= Len(w) THEN w[i] ELSE y[i - Len(w)]
  BY <1>2, ConcatProperties DEF Bytes
<1>4. EndsOnce(w \o y)
  BY DEF w
<1>5. Len(w) \in 1..Len(w \o y) /\ (w \o y)[Len(w)] = End
  BY <1>1, <1>2, <1>3
<1>6. Len(w) = Len(w) + Len(y)
  BY <1>3, <1>4, <1>5 DEF EndsOnce
<1>7. Len(y) = 0
  BY <1>1, <1>2, <1>6
<1> QED
  BY <1>7, EmptySeq DEF Bytes

(* The end marker is a byte sequence. *)
LEMMA MarkType == ASSUME NEW h \in BOOLEAN PROVE Mark(h) \in Bytes
  BY DEF Mark, Bytes, End

(* The bytes a client uploads are a byte sequence. *)
LEMMA UpSeqBytes == ASSUME NEW x \in UpSeq PROVE x \in Bytes
<1>1. 1..UpBytes \subseteq Nat
  BY Sizes
<1> QED
  BY <1>1, SeqMonotonic DEF UpSeq, Bytes

(* What one message does to a flow. *)
LEMMA IngestFor ==
    ASSUME NEW s \in Books, NEW d \in Chunk, NEW f \in Flows
    PROVE  /\ TookIn(s.tcp[f], Ingest(s, d).tcp[f])
           /\ (d.id = f => s.tcp[f].live) /\ EndsOnce(Inside(s, f) \o Item(d, f))
              => Inside(Ingest(s, d), f) = Inside(s, f) \o Item(d, f)
<1> DEFINE r == Ingest(s, d)
           t == s.tcp[f]
           u == r.tcp[f]
           st == Stream(s.backlog, f)
           it == Item(d, f)
           y == TryHandleData(s.tcp, d)
<1>1. /\ r \in Books /\ s.tcp \in Tables /\ r.tcp \in Tables /\ t \in TcpState /\ u \in TcpState
      /\ s.backlog \in Queues /\ r.backlog \in Queues
  BY IngestIs DEF Ingested, Books, Tables
<1>0. Ingested(s, d, y, r) /\ Handled(s.tcp, d, y)
  BY <1>1, IngestIs, TryHandles
<1>2. /\ t.pending \in Bytes /\ Mark(t.half_closed) \in Bytes /\ st \in Bytes /\ it \in Bytes
      /\ t.half_closed \in BOOLEAN /\ t.live \in BOOLEAN
  BY <1>1, UpSeqBytes, MarkType, StreamSteps, ItemType DEF TcpState
<1>3. TookIn(t, t)
  BY <1>1 DEF TookIn, TcpState
<1> DEFINE Goal == /\ TookIn(t, u)
                   /\ (d.id = f => t.live) /\ EndsOnce(Inside(s, f) \o it)
                      => Inside(r, f) = Inside(s, f) \o it
<1>g. SUFFICES Goal
  OBVIOUS
<1> HIDE DEF r, y, st, it
<1>4. CASE Holds(s.backlog, d.id)
  <2>1. r.tcp = s.tcp /\ r.backlog = Append(s.backlog, d)
    BY <1>4, <1>0 DEF Ingested, Handled
  <2>2. Stream(r.backlog, f) = st \o it
    BY <1>1, <2>1, StreamSteps DEF st, it
  <2>3. Inside(r, f) = Inside(s, f) \o it
    <3> DEFINE a == t.pending \o Mark(t.half_closed)
    <3>1. a \in Bytes
      BY <1>2, ByteSeqs
    <3>2. Inside(r, f) = a \o (st \o it) /\ Inside(s, f) = a \o st
      BY <2>1, <2>2 DEF Inside, st
    <3>3. st \in Bytes /\ it \in Bytes
      BY <1>2
    <3> HIDE DEF a
    <3>4. (a \o st) \o it = a \o (st \o it)
      BY <3>1, <3>3, ByteAssoc
    <3> QED
      BY <3>2, <3>4
  <2> QED
    BY <1>3, <2>1, <2>3
<1>5. CASE ~Holds(s.backlog, d.id) /\ d.id # f
  <2>1. r.tcp = y.tcp
    BY <1>5, <1>0 DEF Ingested, Handled
  <2>2. u = t
    BY <1>1, <1>5, <2>1, <1>0 DEF Ingested, Handled
  <2>3. it = <<>>
    BY <1>5 DEF Item, it
  <2>4. Stream(r.backlog, f) = st
    <3>1. CASE r.backlog = s.backlog
      BY <3>1 DEF st
    <3>2. CASE r.backlog # s.backlog
      <4>1. PICK x \in Chunk : /\ y.left = <<x>>
                               /\ r.backlog = Append(s.backlog, x)
        BY <1>5, <3>2, <1>0 DEF Ingested, Handled
      <4>2. x.id = d.id
        <5>1. PICK z \in UpSeq : y.left = <<DataMsg(d.id, z)>>
          <6>1. y.left # <<>>
            BY <4>1
          <6>2. \E a, b \in UpSeq :
                   IF b = <<>> THEN y.left = <<>> ELSE y.left = <<DataMsg(d.id, b)>>
            BY <1>0, <6>1 DEF Handled
          <6> QED
            BY <6>1, <6>2
        <5>2. <<x>>[1] = <<DataMsg(d.id, z)>>[1]
          BY <4>1, <5>1
        <5> QED
          BY <5>2 DEF DataMsg
      <4>3. Item(x, f) = <<>>
        BY <1>5, <4>2 DEF Item
      <4>4. Stream(r.backlog, f) = st \o <<>>
        <5>1. Stream(Append(s.backlog, x), f) = st \o Item(x, f)
          BY <1>1, StreamSteps DEF st
        <5> QED
          BY <4>1, <4>3, <5>1
      <4> QED
        BY <1>2, <4>4, ByteSeqs
    <3> QED
      BY <3>1, <3>2
  <2>5. Inside(r, f) = Inside(s, f)
    BY <2>2, <2>4 DEF Inside, st
  <2>6. Inside(s, f) \in Bytes
    BY <1>2, ByteSeqs DEF Inside, st
  <2>7. Inside(s, f) \o it = Inside(s, f)
    BY <2>3, <2>6, ByteSeqs
  <2> QED
    BY <1>3, <2>2, <2>5, <2>7
<1>6. CASE ~Holds(s.backlog, d.id) /\ d.id = f
  <2>1. r.tcp = y.tcp
    BY <1>6, <1>0 DEF Ingested, Handled
  <2>2. st = <<>>
    BY <1>1, <1>6, HeldMeans DEF st
  <2> DEFINE a == t.pending \o Mark(t.half_closed)
  <2>3. a \in Bytes /\ Inside(s, f) = a
    BY <1>2, <2>2, ByteSeqs DEF Inside, st
  <2>4. CASE ~t.live
    BY <1>1, <1>3, <1>6, <2>1, <2>4, <1>0 DEF Ingested, Handled
  <2>5. CASE t.live /\ d.kind = "close"
    <3>1. u = [t EXCEPT !.half_closed = TRUE] /\ y.left = <<>>
      BY <1>1, <1>6, <2>1, <2>5, <1>0 DEF Ingested, Handled
    <3>2. u.pending = t.pending /\ u.half_closed = TRUE /\ TookIn(t, u)
      BY <1>1, <2>5, <3>1 DEF TookIn, TcpState
    <3>3. r.backlog = s.backlog
      BY <1>6, <3>1, <1>0 DEF Ingested, Handled
    <3>4. it = <<End>> /\ <<End>> \in Bytes
      BY <1>2, <1>6, <2>5 DEF Item, it
    <3>5. ASSUME EndsOnce(Inside(s, f) \o it) PROVE ~t.half_closed
      <4> SUFFICES ASSUME t.half_closed PROVE FALSE
        OBVIOUS
      <4>1. EndsOnce((t.pending \o <<End>>) \o <<End>>)
        BY <2>3, <3>4, <3>5 DEF Mark
      <4>2. <<End>> = <<>>
        BY <1>2, <3>4, <4>1, EndIsLast
      <4> QED
        BY <4>2
    <3>6. ASSUME ~t.half_closed PROVE Inside(r, f) = Inside(s, f) \o it
      <4>1. a = t.pending
        BY <1>2, <3>6, ByteSeqs DEF Mark
      <4>2. Inside(r, f) = (t.pending \o <<End>>) \o <<>>
        BY <2>2, <3>2, <3>3 DEF Inside, Mark, st
      <4>3. t.pending \o <<End>> \in Bytes
        BY <1>2, <3>4, ByteSeqs
      <4>4. Inside(r, f) = t.pending \o <<End>>
        BY <4>2, <4>3, ByteSeqs
      <4> QED
        BY <2>3, <3>4, <4>1, <4>4
    <3> QED
      BY <3>2, <3>5, <3>6
  <2>6. CASE t.live /\ d.kind = "data"
    <3>1. PICK x1, x2 \in UpSeq :
             /\ d.data = x1 \o x2
             /\ u = [t EXCEPT !.pending = @ \o x1]
             /\ IF x2 = <<>> THEN y.left = <<>> ELSE y.left = <<DataMsg(f, x2)>>
      BY <1>1, <1>6, <2>1, <2>6, <1>0 DEF Ingested, Handled
    <3>2. u.pending = t.pending \o x1 /\ u.half_closed = t.half_closed /\ TookIn(t, u)
      BY <1>1, <2>6, <3>1 DEF TookIn, TcpState
    <3>3. it = x1 \o x2 /\ it # <<>> /\ x1 \in Bytes /\ x2 \in Bytes
      BY <1>6, <2>6, <3>1, UpSeqBytes DEF Item, Chunk, it
    <3>4. Stream(r.backlog, f) = x2
      <4>1. CASE x2 = <<>>
        <5>1. y.left = <<>> /\ \A x : y.left # <<x>>
          BY <3>1, <4>1
        <5>2. r.backlog = s.backlog
          BY <1>0, <1>6, <5>1 DEF Ingested
        <5> QED
          BY <2>2, <4>1, <5>2 DEF st
      <4>2. CASE x2 # <<>>
        <5>1. y.left = <<DataMsg(f, x2)>>
          BY <3>1, <4>2
        <5>2. PICK x \in Chunk : y.left = <<x>> /\ r.backlog = Append(s.backlog, x)
          BY <1>6, <5>1, <1>0 DEF Ingested, Handled
        <5>3. Item(x, f) = x2
          BY <5>1, <5>2 DEF DataMsg, Item
        <5>4. Stream(r.backlog, f) = <<>> \o x2
          BY <1>1, <2>2, <5>2, <5>3, StreamSteps DEF st, it
        <5> QED
          BY <3>3, <5>4, ByteSeqs
      <4> QED
        BY <4>1, <4>2
    <3>5. ASSUME EndsOnce(Inside(s, f) \o it) PROVE ~t.half_closed
      <4> SUFFICES ASSUME t.half_closed PROVE FALSE
        OBVIOUS
      <4>1. EndsOnce((t.pending \o <<End>>) \o it)
        BY <2>3, <3>5 DEF Mark
      <4>2. it = <<>>
        BY <1>2, <4>1, EndIsLast
      <4> QED
        BY <3>3, <4>2
    <3>6. ASSUME ~t.half_closed PROVE Inside(r, f) = Inside(s, f) \o it
      <4>1. a = t.pending
        BY <1>2, <3>6, ByteSeqs DEF Mark
      <4>2. Inside(r, f) = ((t.pending \o x1) \o <<>>) \o x2
        BY <3>2, <3>4, <3>6 DEF Inside, Mark, st
      <4>3. t.pending \o x1 \in Bytes
        BY <1>2, <3>3, ByteSeqs
      <4>4. Inside(r, f) = (t.pending \o x1) \o x2
        BY <4>2, <4>3, ByteSeqs
      <4>5. (t.pending \o x1) \o x2 = t.pending \o (x1 \o x2)
        <5> DEFINE x == t.pending
        <5>1. x \in Bytes
          BY <1>2
        <5> HIDE DEF x
        <5>2. (x \o x1) \o x2 = x \o (x1 \o x2)
          BY <5>1, <3>3, ByteAssoc
        <5> QED
          BY <5>2 DEF x
      <4> QED
        BY <2>3, <3>3, <4>1, <4>4, <4>5
    <3> QED
      BY <3>2, <3>5, <3>6
  <2>7. d.kind \in {"data", "close"}
    BY DEF Chunk, DataInType
  <2> QED
    BY <2>4, <2>5, <2>6, <2>7
<1> QED
  BY <1>4, <1>5, <1>6

\* The books a round of ingestion starts from.
Start(t, b) == [tcp |-> t, backlog |-> b]

\* One step of the fold that IngestAll is.
IngestStep == [d \in Chunk |-> [s \in Books |-> Ingest(s, d)]]

(* One ingestion maps books to books. *)
LEMMA IngestStepIs == Step(IngestStep, Chunk, Books)
<1>1. ASSUME NEW d \in Chunk, NEW s \in Books PROVE Ingest(s, d) \in Books
  BY IngestIs DEF Ingested
<1> QED
  BY <1>1 DEF Step, IngestStep

(* IngestAll is the result of folding ingestion over the queue. *)
LEMMA IngestResults ==
    ASSUME NEW q \in Queues, NEW t \in Tables, NEW b \in Queues
    PROVE  Results(IngestAll(t, b, q), IngestStep, Books, Start(t, b), q)
<1> DEFINE m == Len(q)
           Is(g) == g = [n \in 0..m |-> IF n = 0 THEN Start(t, b) ELSE Ingest(g[n - 1], q[n])]
           c == CHOOSE g : Is(g)
<1>1. m \in Nat /\ Start(t, b) \in Books /\ \A n \in 1..m : q[n] \in Chunk
  BY ElementOfSeq DEF Queues, Books, Start
<1>2. PICK h : Course(h, IngestStep, Books, Start(t, b), q)
  BY <1>1, IngestStepIs, CourseExists DEF Queues
<1>3. h \in [0..m -> Books] /\ h[0] = Start(t, b)
  BY <1>2 DEF Course
<1>4. ASSUME NEW n \in 1..m PROVE h[n] = Ingest(h[n - 1], q[n])
  <2>1. h[n] = IngestStep[q[n]][h[n - 1]]
    BY <1>2 DEF Course
  <2>2. h[n - 1] \in Books /\ q[n] \in Chunk
    BY <1>1, <1>3
  <2> QED
    BY <2>1, <2>2 DEF IngestStep
<1>5. Is(h)
  <2>1. h = [n \in 0..m |-> h[n]]
    BY <1>3
  <2>2. \A n \in 0..m : n = 0 \/ n \in 1..m
    BY <1>1
  <2>3. \A n \in 0..m : h[n] = IF n = 0 THEN Start(t, b) ELSE Ingest(h[n - 1], q[n])
    BY <1>3, <1>4, <2>2
  <2> QED
    BY <2>1, <2>3
<1>6. Is(c)
  BY <1>5
<1>7. IngestAll(t, b, q) = c[m]
  BY DEF IngestAll, Start
<1> HIDE DEF c
<1> DEFINE G == {n \in 0..m : c[n] = h[n]}
<1>8. 0 \in G
  BY <1>1, <1>3, <1>6
<1>9. ASSUME NEW n \in 0..m, n + 1 <= m, n \in G PROVE n + 1 \in G
  <2>1. n + 1 \in 1..m /\ n + 1 \in 0..m /\ (n + 1) - 1 = n /\ n + 1 # 0
    BY <1>1, <1>9
  <2>2. c[n + 1] = Ingest(c[n], q[n + 1])
    BY <1>6, <2>1
  <2>3. h[n + 1] = Ingest(h[n], q[n + 1])
    BY <1>4, <2>1
  <2> QED
    BY <1>9, <2>1, <2>2, <2>3
<1>10. c[m] = h[m]
  <2>1. m \in 0..m /\ m \in Nat
    BY <1>1
  <2> HIDE DEF G, m
  <2>2. m \in G
    BY <1>8, <1>9, <2>1, CountTo
  <2> QED
    BY <2>2 DEF G
<1> QED
  BY <1>2, <1>7, <1>10 DEF Results

(* Unfolding of IngestAll: ingesting one more message is one more Ingest. *)
LEMMA IngestSteps ==
    ASSUME NEW q \in Queues, NEW d \in Chunk, NEW t \in Tables, NEW b \in Queues
    PROVE  /\ IngestAll(t, b, <<>>) = Start(t, b)
           /\ IngestAll(t, b, q) \in Books
           /\ IngestAll(t, b, Append(q, d)) = Ingest(IngestAll(t, b, q), d)
<1>1. Start(t, b) \in Books /\ <<>> \in Queues /\ Append(q, d) \in Queues
  BY AppendProperties, EmptySeq DEF Queues, Books, Start
<1>2. /\ Results(IngestAll(t, b, <<>>), IngestStep, Books, Start(t, b), <<>>)
      /\ Results(IngestAll(t, b, q), IngestStep, Books, Start(t, b), q)
      /\ Results(IngestAll(t, b, Append(q, d)), IngestStep, Books, Start(t, b), Append(q, d))
  BY <1>1, IngestResults
<1>3. /\ IngestAll(t, b, <<>>) = Start(t, b) /\ IngestAll(t, b, q) \in Books
      /\ IngestAll(t, b, Append(q, d)) = IngestStep[d][IngestAll(t, b, q)]
  <2>1. q \in Seq(Chunk)
    BY DEF Queues
  <2> QED
    BY <1>1, <1>2, <2>1, IngestStepIs, ResultSteps
<1> QED
  BY <1>3 DEF IngestStep

(* Two rounds of taking in are one. *)
LEMMA TookInTwice ==
    ASSUME NEW t \in TcpState, NEW u \in TcpState, NEW v \in TcpState, TookIn(t, u), TookIn(u, v)
    PROVE  TookIn(t, v)
<1>1. v = [t EXCEPT !.pending = v.pending, !.half_closed = v.half_closed]
  BY Zenon DEF TookIn
<1>2. t.half_closed => v.half_closed
  BY DEF TookIn
<1>3. ~t.live => v = t
  BY DEF TookIn
<1> QED
  BY <1>1, <1>2, <1>3 DEF TookIn

(* What a queue of messages does to a flow: everything in it that is for   *)
(* the flow is behind what the flow had, unless the flow is gone.          *)
TookQueue(t, b, q, f) ==
    /\ IngestAll(t, b, q) \in Books
    /\ TookIn(t[f], IngestAll(t, b, q).tcp[f])
    /\ /\ t[f].live \/ Stream(q, f) = <<>>
       /\ EndsOnce(Inside(Start(t, b), f) \o Stream(q, f))
       => Inside(IngestAll(t, b, q), f) = Inside(Start(t, b), f) \o Stream(q, f)

(* A stream is a byte sequence, and that of an empty queue is empty. *)
LEMMA StreamType ==
    ASSUME NEW q \in Queues, NEW f \in Flows
    PROVE  Stream(q, f) \in Bytes /\ Stream(<<>>, f) = <<>>
<1>1. CloseMsg(f) \in Chunk
  BY EmptySeq DEF CloseMsg, Chunk, DataInType, UpSeq
<1> QED
  BY <1>1, StreamSteps

(* The upload a flow and its backlog hold is a byte sequence. *)
LEMMA InsideType == ASSUME NEW s \in Books, NEW f \in Flows PROVE Inside(s, f) \in Bytes
<1>1. s.tcp[f] \in TcpState /\ s.backlog \in Queues
  BY DEF Books, Tables
<1>2. s.tcp[f].pending \in Bytes /\ Mark(s.tcp[f].half_closed) \in Bytes
  BY <1>1, UpSeqBytes, MarkType DEF TcpState
<1>3. Stream(s.backlog, f) \in Bytes
  BY <1>1, StreamType
<1> QED
  BY <1>2, <1>3, ByteSeqs DEF Inside

(* Ingesting a whole queue (Backlog::drain, drain_app_data) appends exactly what the queue
   holds of a live flow to what the stack holds of it, by induction on the queue. *)
LEMMA IngestsQueue ==
    ASSUME NEW t \in Tables, NEW b \in Queues, NEW f \in Flows
    PROVE  \A q \in Queues : TookQueue(t, b, q, f)
<1> DEFINE G == {q \in Queues : TookQueue(t, b, q, f)}
           s0 == Start(t, b)
           i0 == Inside(s0, f)
<1>0. CloseMsg(f) \in Chunk /\ <<>> \in Queues
  BY EmptySeq DEF CloseMsg, Chunk, DataInType, UpSeq, Queues
<1>1. s0 \in Books /\ t[f] \in TcpState /\ i0 \in Bytes
  BY InsideType DEF Start, Books, Tables
<1>2. <<>> \in G
  <2>1. IngestAll(t, b, <<>>) = s0 /\ Stream(<<>>, f) = <<>>
    BY <1>0, IngestSteps, StreamType
  <2>2. TookIn(t[f], s0.tcp[f])
    BY <1>1 DEF TookIn, TcpState, Start
  <2>3. i0 \o <<>> = i0
    BY <1>1, ByteSeqs
  <2> QED
    BY <1>0, <1>1, <2>1, <2>2, <2>3 DEF TookQueue
<1>3. ASSUME NEW q \in Seq(Chunk), NEW d \in Chunk, q \in G PROVE Append(q, d) \in G
  <2> DEFINE s == IngestAll(t, b, q)
             r == IngestAll(t, b, Append(q, d))
             sq == Stream(q, f)
             it == Item(d, f)
  <2>1. q \in Queues /\ Append(q, d) \in Queues
    BY AppendProperties DEF Queues
  <2>2. TookQueue(t, b, q, f) /\ s \in Books
    BY <1>3 DEF TookQueue
  <2>3. r = Ingest(s, d) /\ r \in Books
    <3>1. r = Ingest(s, d)
      BY <2>1, IngestSteps
    <3>2. Ingest(s, d) \in Books
      BY <2>2, IngestIs DEF Ingested
    <3> QED
      BY <3>1, <3>2
  <2>4. Stream(Append(q, d), f) = sq \o it /\ sq \in Bytes /\ it \in Bytes
    BY <2>1, StreamSteps, ItemType
  <2>5. /\ TookIn(s.tcp[f], r.tcp[f])
        /\ (d.id = f => s.tcp[f].live) /\ EndsOnce(Inside(s, f) \o it)
              => Inside(r, f) = Inside(s, f) \o it
    BY <2>2, <2>3, IngestFor
  <2>6. s.tcp[f] \in TcpState /\ r.tcp[f] \in TcpState
    BY <2>2, <2>3 DEF Books, Tables
  <2>7. TookIn(t[f], s.tcp[f])
    BY <2>2 DEF TookQueue
  <2>8. TookIn(t[f], r.tcp[f])
    BY <1>1, <2>5, <2>6, <2>7, TookInTwice
  <2>9. ASSUME t[f].live \/ sq \o it = <<>>, EndsOnce(i0 \o (sq \o it))
        PROVE  Inside(r, f) = i0 \o (sq \o it)
    <3> HIDE DEF s, r, i0, sq, it
    <3>1. i0 \o (sq \o it) = (i0 \o sq) \o it
      BY <1>1, <2>4, ByteAssoc
    <3>2. t[f].live \/ (sq = <<>> /\ it = <<>>)
      BY <2>4, <2>9, ByteSeqs
    <3>3. EndsOnce(i0 \o sq)
      <4>1. i0 \o sq \in Bytes /\ <<>> \in Bytes /\ <<>> \o (i0 \o sq) = i0 \o sq
        BY <1>1, <2>4, ByteSeqs
      <4> DEFINE x == i0 \o sq
      <4>2. EndsOnce((<<>> \o x) \o it)
        BY <2>9, <3>1, <4>1
      <4> HIDE DEF x
      <4>3. x \in Bytes /\ <<>> \in Bytes
        BY <4>1 DEF x
      <4>4. EndsOnce(x)
        BY <2>4, <4>2, <4>3, Infix
      <4> QED
        BY <4>4 DEF x
    <3>4. Inside(s, f) = i0 \o sq
      BY <2>2, <3>2, <3>3 DEF TookQueue, s, i0, sq
    <3>5. s.tcp[f].live = t[f].live
      BY <1>1, <2>6, <2>7 DEF TookIn, TcpState
    <3>6. d.id = f => it # <<>>
      BY DEF it, Item, Chunk, DataInType
    <3> QED
      BY <2>5, <2>9, <3>1, <3>2, <3>4, <3>5, <3>6
  <2> QED
    BY <2>1, <2>3, <2>4, <2>8, <2>9 DEF TookQueue
<1> HIDE DEF G
<1>4. \A q \in Seq(Chunk) : q \in G
  BY <1>2, <1>3, SeqInduction
<1> QED
  BY <1>4 DEF G, Queues

(* Two queues one after the other. *)
LEMMA StreamConcat ==
    ASSUME NEW q \in Queues, NEW f \in Flows
    PROVE  \A r \in Queues : Stream(q \o r, f) = Stream(q, f) \o Stream(r, f)
<1> DEFINE G == {r \in Queues : Stream(q \o r, f) = Stream(q, f) \o Stream(r, f)}
<1>1. <<>> \in G
  <2>1. <<>> \in Queues /\ q \o <<>> = q
    BY EmptySeq, ConcatEmptySeq DEF Queues
  <2>2. Stream(q, f) \o <<>> = Stream(q, f) /\ Stream(<<>>, f) = <<>>
    BY StreamType, ByteSeqs
  <2> QED
    BY <2>1, <2>2
<1>2. ASSUME NEW r \in Seq(Chunk), NEW d \in Chunk, r \in G PROVE Append(r, d) \in G
  <2>1. r \in Queues /\ Append(r, d) \in Queues /\ q \o r \in Queues
    BY AppendProperties, ConcatProperties DEF Queues
  <2>2. q \o Append(r, d) = Append(q \o r, d)
    BY DEF Queues
  <2> DEFINE x == Stream(q, f)
             y == Stream(r, f)
             z == Item(d, f)
  <2>3. Stream(Append(q \o r, d), f) = Stream(q \o r, f) \o z
    BY <2>1, StreamSteps
  <2>4. Stream(Append(r, d), f) = y \o z
    BY <2>1, StreamSteps
  <2>5. x \in Bytes /\ y \in Bytes /\ z \in Bytes
    BY <2>1, StreamType, ItemType
  <2>6. Stream(q \o r, f) = x \o y
    BY <1>2
  <2> HIDE DEF x, y, z
  <2>7. (x \o y) \o z = x \o (y \o z)
    BY <2>5, ByteAssoc
  <2> QED
    BY <2>1, <2>2, <2>3, <2>4, <2>6, <2>7 DEF x
<1> HIDE DEF G
<1>3. \A r \in Seq(Chunk) : r \in G
  BY <1>1, <1>2, SeqInduction
<1> QED
  BY <1>3 DEF G, Queues

(* Purging takes the messages of the flows it is for, and no others. *)
LEMMA PurgedFor ==
    ASSUME NEW ids, NEW f \in Flows
    PROVE  \A q \in Queues :
              /\ Purged(q, ids) \in Queues
              /\ Stream(Purged(q, ids), f) = IF f \in ids THEN <<>> ELSE Stream(q, f)
<1> DEFINE Good(q) == /\ Purged(q, ids) \in Queues
                      /\ Stream(Purged(q, ids), f) = IF f \in ids THEN <<>> ELSE Stream(q, f)
           G == {q \in Queues : Good(q)}
<1>0. CloseMsg(f) \in Chunk /\ <<>> \in Queues
  BY EmptySeq DEF CloseMsg, Chunk, DataInType, UpSeq, Queues
<1>1. <<>> \in G
  <2>1. Purged(<<>>, ids) = <<>> /\ Stream(<<>>, f) = <<>>
    BY <1>0, PurgedSteps, StreamType
  <2> QED
    BY <1>0, <2>1
<1>2. ASSUME NEW q \in Seq(Chunk), NEW d \in Chunk, q \in G PROVE Append(q, d) \in G
  <2> DEFINE k == Purged(q, ids)
  <2>1. q \in Queues /\ Append(q, d) \in Queues /\ Good(q)
    BY <1>2, AppendProperties DEF Queues
  <2>2. k \in Queues /\ Purged(Append(q, d), ids) = Kept(k, d, ids)
    BY <2>1, PurgedSteps
  <2>3. Append(k, d) \in Queues
    BY <2>2, AppendProperties DEF Queues
  <2>4. Stream(Append(k, d), f) = Stream(k, f) \o Item(d, f)
    BY <2>2, StreamSteps
  <2>5. Stream(Append(q, d), f) = Stream(q, f) \o Item(d, f)
    BY <2>1, StreamSteps
  <2>6. d.id # f => Item(d, f) = <<>>
    BY DEF Item
  <2>7. Stream(q, f) \o <<>> = Stream(q, f) /\ Stream(k, f) \o <<>> = Stream(k, f)
    BY <2>1, <2>2, StreamType, ByteSeqs
  <2>8. Good(Append(q, d))
    BY <2>1, <2>2, <2>3, <2>4, <2>5, <2>6, <2>7 DEF Kept
  <2> QED
    BY <2>1, <2>8
<1> HIDE DEF G
<1>3. \A q \in Seq(Chunk) : q \in G
  BY <1>1, <1>2, SeqInduction
<1> QED
  BY <1>3 DEF G, Queues

(* drain_app_data() does stop. *)
LEMMA TakenIs ==
    ASSUME NEW t, NEW b, NEW q \in Queues
    PROVE  Taken(t, b, q) \in 0..Len(q)
<1> DEFINE S == {n \in 0..Len(q) : StopsAfter(t, b, q, n)}
<1>1. Len(q) \in Nat
  BY DEF Queues
<1>2. Len(q) \in S /\ S \subseteq Nat
  BY <1>1 DEF StopsAfter
<1> HIDE DEF S
<1>3. PICK n \in S : \A m \in S : ~(<<m, n>> \in OpToRel(<, Nat))
  BY <1>2, NatLessThanWellFounded, WFMin
<1>4. \A m \in 0..(n - 1) : m \notin S
  <2> SUFFICES ASSUME NEW m \in 0..(n - 1), m \in S PROVE FALSE
    OBVIOUS
  <2>1. m \in Nat /\ n \in Nat /\ m < n
    BY <1>2
  <2>2. <<m, n>> \in OpToRel(<, Nat)
    BY <2>1, Zenon DEF OpToRel
  <2> QED
    BY <1>3, <2>2
<1>5. n \in 0..Len(q) /\ StopsAfter(t, b, q, n)
  BY DEF S
<1>6. \A m \in 0..(n - 1) : ~StopsAfter(t, b, q, m)
  <2>1. \A m \in 0..(n - 1) : m \in 0..Len(q)
    BY <1>1, <1>5
  <2> QED
    BY <1>4, <2>1 DEF S
<1>7. \E k \in 0..Len(q) : StopsAfter(t, b, q, k) /\ \A m \in 0..(k - 1) : ~StopsAfter(t, b, q, m)
  BY <1>5, <1>6
<1> QED
  BY <1>7, Zenon DEF Taken

-----------------------------------------------------------------------------
(* The invariant, flow by flow.  t is the flow's TcpState, k its socket,   *)
(* a its relay, c its credit, x what is around them.                       *)

Sockets == {k \in [state : SockStates, tx : UpSeq, rx : 0..RecvBuf] : Len(k.tx) <= SendBuf}

\* The upload budget shared with the relay.
Credits == [sent : 0..UpBytes, acked : Nat, cap : MinBudget..MaxBudget, closed : BOOLEAN]

\* The relay task of a flow.
Relays ==
    {a \in [conn : {"none", "wait", "ok", "error"}, read : 0..UpBytes, hand : UpSeq,
            reserved : BOOLEAN, wait : 0..CreditWait, up_done : BOOLEAN, gone : BOOLEAN,
            queue : Seq(1..RecvBuf), got : Nat, eof : BOOLEAN] : Len(a.queue) <= AppCap}

\* The stages of one pass of the netstack loop.
Stages == {"poll", "service", "backlog", "drain", "ended"}

\* What the invariant of a flow needs to know of the state outside its own records.
Surroundings ==
    [got : Bytes, fin : BOOLEAN, backlog : Bytes, dataIn : Bytes, quiet : 0..StallReset,
     broken : BOOLEAN, asked : BOOLEAN, stage : Stages]

\* The surroundings of flow f in the current state.
Around(f) ==
    [got |-> peer[f].got, fin |-> peer[f].fin, backlog |-> Stream(backlog, f),
     dataIn |-> Stream(dataIn, f), quiet |-> quiet[f], broken |-> f \in broken,
     asked |-> Asks(cmds, f), stage |-> pc]

\* The states of a socket that has sent its FIN on its own initiative.
FinStates == {"FinWait", "FinWait2", "Closing", "TimeWait"}

(* A flow is opened once: a command is there only before, what is gone     *)
(* stays gone, and what is up has been answered.                           *)
Opened(t, k, a, x) ==
    /\ ~t.live => t = NoTcpState /\ k = NoSocket
    /\ t.live => /\ x.stage # "ended" /\ k.state # "none"
                 /\ a.conn = IF t.established THEN "ok" ELSE "wait"
    /\ x.asked => a.conn = "wait" /\ ~t.live
    /\ a.conn = "none" \/ x.asked => ~x.broken
    /\ x.broken => k.state \in {"Closed", "none"}
    /\ ~t.established =>
          /\ k.state \in {"none", "SynSent", "Established", "CloseWait", "Closed"}
          /\ t.send_queue_high = 0
    /\ t.established => k.state # "SynSent"

(* Before the answer nothing is read, and the client's end is unknown. *)
NothingRead(a) ==
    a.conn \in {"none", "wait"} => a.read = 0 /\ ~a.up_done /\ a.hand = <<>>

(* The flows whose upload is accounted for: not yet answered, or up. *)
Counted(t, a, x) ==
    \/ a.conn \in {"none", "wait"}
    \/ t.live /\ ~x.broken /\ a.conn = "ok" /\ ~a.gone

\* The stream a client has handed over: bytes 1 to read and, once it closed, the end marker.
Given(read, ended) == [i \in 1..read |-> i] \o Mark(ended)

\* The upload of a flow from the peer back to the relay, place after place.
Chain(got, tx, pending, ended, behind, sent, hand) ==
    got \o tx \o pending \o Mark(ended) \o behind \o sent \o hand

\* While the upload counts, the places between the client and the peer hold the stream
\* the client gave, each byte once and in order, with its end at most once, at the end.
UploadWhole(t, k, a, x) ==
    Counted(t, a, x) =>
        Chain(x.got, k.tx, t.pending, t.half_closed, x.backlog, x.dataIn, a.hand)
            = Given(a.read, a.up_done)

(* A FIN of an upload's end follows all of it. *)
FinLast(t, k, a) ==
    k.state \in FinStates /\ ~a.gone => t.half_closed /\ t.pending = <<>>

(* The counters of what was acknowledged and reserved. *)
AckCount(t, k, x) ==
    t.live => t.accepted = Len(x.got) + Len(k.tx) /\ t.acked_high <= Len(x.got)

\* No more is reserved from the budget than was read.
Reserved(a, c) ==
    /\ c.sent + (IF a.reserved THEN 0 ELSE Len(a.hand)) <= a.read
    /\ a.reserved => a.hand # <<>>

(* A socket the stack did not close was closed by the far end. *)
EndedByPeer(k, a, x) ==
    /\ k.state \in {"CloseWait", "LastAck", "Closing", "TimeWait"} => x.fin
    /\ k.state = "Closed" => x.broken \/ x.fin \/ a.gone

(* The ages the stack keeps never run ahead of the silence they stand for. *)
AgesFollow(t, k, x) ==
    /\ t.live /\ t.established /\ Len(x.got) <= t.acked_high => t.drain_age <= x.quiet + 1
    /\ t.live /\ Len(k.tx) = SendBuf
          => t.progress_age <= x.quiet + 1 \/ x.quiet = StallReset

(* Pending bytes were taken up, or there is a reason that they were not. *)
Fed(t, k, a, x) ==
    t.progress_age = 0 \/ Len(k.tx) = SendBuf \/ x.fin \/ a.gone \/ x.broken

(* What service_tcp() leaves to the rest of the pass. *)
JustServiced(t, k, a, x) ==
    t.live /\ t.established =>
        /\ x.stage = "backlog" =>
              /\ Len(x.got) <= t.acked_high
              /\ t.send_queue_high = Len(k.tx)
              /\ Fed(t, k, a, x)
        /\ x.stage \in {"backlog", "drain"} /\ k.tx = <<>> => t.drain_age = 0

\* The invariant of one flow.
FlowInv(t, k, a, c, x) ==
    /\ Opened(t, k, a, x) /\ NothingRead(a) /\ UploadWhole(t, k, a, x) /\ FinLast(t, k, a)
    /\ AckCount(t, k, x) /\ Reserved(a, c) /\ EndedByPeer(k, a, x)
    /\ AgesFollow(t, k, x) /\ JustServiced(t, k, a, x)

(* A flow is asked for once. *)
Single(cs) == \A c, d \in cs : c.id = d.id => c = d

\* The types, with what TypeOK leaves out: chunks are never empty, ages stay below their
\* caps, and a flow is asked for at most once.
StackTypes ==
    /\ pc \in Stages
    /\ cmds \in SUBSET [id : Flows, carrier : BOOLEAN] /\ Single(cmds)
    /\ dataIn \in Queues /\ Len(dataIn) <= QueueCap
    /\ backlog \in Queues
    /\ tcp \in Tables
    /\ sock \in [Flows -> Sockets]
    /\ credit \in [Flows -> Credits]
    /\ app \in [Flows -> Relays]
    /\ peer \in [Flows -> [got : UpSeq, sent : 0..DownBytes, fin : BOOLEAN]]
    /\ quiet \in [Flows -> 0..StallReset]
    /\ broken \in SUBSET Flows

\* The inductive invariant.
StackInv ==
    /\ StackTypes
    /\ \A f \in Flows : FlowInv(tcp[f], sock[f], app[f], credit[f], Around(f))

-----------------------------------------------------------------------------
(* How the places of an upload pass bytes on.                              *)

(* The stream given: its type, length and elements, and its end. *)
LEMMA GivenFacts ==
    ASSUME NEW n \in Nat, NEW e \in BOOLEAN
    PROVE  /\ Given(n, e) \in Bytes /\ EndsOnce(Given(n, e))
           /\ Len(Given(n, e)) = IF e THEN n + 1 ELSE n
           /\ e => Given(n, e)[n + 1] = End
           /\ \A i \in 1..n : Given(n, e)[i] = i
           /\ Given(n, FALSE) = [i \in 1..n |-> i]
           /\ Given(n, TRUE) = Given(n, FALSE) \o <<End>>
           /\ Given(0, FALSE) = <<>>
<1> DEFINE s == [i \in 1..n |-> i]
<1>1. s \in Bytes /\ Len(s) = n /\ \A i \in 1..n : s[i] = i
  BY DEF Bytes
<1>2. Mark(e) \in Bytes /\ Mark(TRUE) = <<End>> /\ Mark(FALSE) = <<>>
      /\ Len(Mark(e)) = (IF e THEN 1 ELSE 0) /\ (e => Mark(e)[1] = End)
  BY MarkType DEF Mark
<1>3. Given(n, e) = s \o Mark(e) /\ Given(n, TRUE) = s \o <<End>> /\ Given(n, FALSE) = s \o <<>>
  BY <1>2 DEF Given
<1> HIDE DEF s
<1>4. s \o <<>> = s
  BY <1>1, ByteSeqs
<1> DEFINE m == Mark(e)
<1>5. m \in Bytes /\ Len(m) = (IF e THEN 1 ELSE 0) /\ (e => m[1] = End)
  BY <1>2
<1> HIDE DEF m
<1>6. /\ s \o m \in Bytes /\ Len(s \o m) = Len(s) + Len(m)
      /\ \A i \in 1..(Len(s) + Len(m)) : (s \o m)[i] = IF i <= Len(s) THEN s[i] ELSE m[i - Len(s)]
  BY <1>1, <1>5, ByteSeqs, ByteAt
<1>7. /\ Len(s \o m) = IF e THEN n + 1 ELSE n
      /\ \A i \in 1..n : (s \o m)[i] = i
      /\ e => (s \o m)[n + 1] = End
  <2>1. \A i \in 1..n : i \in 1..(Len(s) + Len(m)) /\ i <= Len(s)
    BY <1>1, <1>5
  <2>2. e => n + 1 \in 1..(Len(s) + Len(m)) /\ ~(n + 1 <= Len(s)) /\ (n + 1) - Len(s) = 1
    BY <1>1, <1>5
  <2> QED
    BY <1>1, <1>5, <1>6, <2>1, <2>2
<1>8. EndsOnce(s \o m)
  <2> SUFFICES ASSUME NEW i \in 1..Len(s \o m), (s \o m)[i] = End PROVE i = Len(s \o m)
    BY DEF EndsOnce
  <2>1. i \notin 1..n
    BY <1>7 DEF End
  <2> QED
    BY <1>7, <2>1
<1>9. Given(0, FALSE) = <<>>
  <2>1. Given(0, FALSE) = [i \in 1..0 |-> i] \o <<>>
    BY DEF Given, Mark
  <2>2. [i \in 1..0 |-> i] = <<>>
    OBVIOUS
  <2> QED
    BY <2>1, <2>2, ByteSeqs
<1> QED
  BY <1>3, <1>4, <1>6, <1>7, <1>8, <1>9 DEF s, m

(* The two values of the end marker. *)
LEMMA MarkIs == Mark(TRUE) = <<End>> /\ Mark(FALSE) = <<>> /\ <<End>> \in Bytes
  BY MarkType DEF Mark

(* All of it, grouped by where the stack's part of it is. *)
Part(p, e, b) == p \o Mark(e) \o b

\* The types of the places of a chain.
Places(g, x, p, e, b, d, h) ==
    /\ g \in Bytes /\ x \in Bytes /\ p \in Bytes /\ e \in BOOLEAN
    /\ b \in Bytes /\ d \in Bytes /\ h \in Bytes

\* A chain bracketed by who holds what: peer and socket, stack, queue, relay.
Grouped(g, x, p, e, b, d, h) ==
    Chain(g, x, p, e, b, d, h) = ((g \o x) \o (Part(p, e, b) \o d)) \o h

(* A chain can be bracketed that way. *)
LEMMA ChainGroups ==
    ASSUME NEW g, NEW x, NEW p, NEW e, NEW b, NEW d, NEW h, Places(g, x, p, e, b, d, h)
    PROVE  Grouped(g, x, p, e, b, d, h)
<1>0. /\ g \in Bytes /\ x \in Bytes /\ p \in Bytes /\ e \in BOOLEAN
      /\ b \in Bytes /\ d \in Bytes /\ h \in Bytes
  BY DEF Places
<1> DEFINE m == Mark(e)
           u == g \o x
<1>1. m \in Bytes /\ u \in Bytes
  BY <1>0, MarkType, ByteSeqs
<1>2. Chain(g, x, p, e, b, d, h) = ((((u \o p) \o m) \o b) \o d) \o h
  BY DEF Chain
<1> HIDE DEF m, u
<1>3. Assoc(u, p, m)
  BY <1>0, <1>1, ByteAssociates
<1> DEFINE v == p \o m
<1>4. v \in Bytes
  BY <1>0, <1>1, ByteSeqs
<1>5. ((u \o p) \o m) \o b = (u \o v) \o b
  BY <1>3 DEF Assoc
<1> HIDE DEF v
<1>6. Assoc(u, v, b)
  BY <1>0, <1>1, <1>4, ByteAssociates
<1> DEFINE w == v \o b
<1>7. w \in Bytes
  BY <1>0, <1>4, ByteSeqs
<1>8. (((u \o p) \o m) \o b) \o d = (u \o w) \o d
  BY <1>5, <1>6 DEF Assoc
<1> HIDE DEF w
<1>9. Assoc(u, w, d)
  BY <1>0, <1>1, <1>7, ByteAssociates
<1>10. Chain(g, x, p, e, b, d, h) = (u \o (w \o d)) \o h
  BY <1>2, <1>8, <1>9 DEF Assoc
<1> QED
  BY <1>10 DEF u, v, w, m, Grouped, Part

(* Bytes go from pending to the send buffer, and from there to the far end. *)
LEMMA ChainFeeds ==
    ASSUME NEW g \in Bytes, NEW x \in Bytes, NEW p1 \in Bytes, NEW p2 \in Bytes, NEW e,
           NEW b, NEW d, NEW h
    PROVE  Chain(g, x, p1 \o p2, e, b, d, h) = Chain(g, x \o p1, p2, e, b, d, h)
<1> DEFINE u == g \o x
<1>1. u \in Bytes
  BY ByteSeqs
<1>2. u \o p1 = g \o (x \o p1)
  BY ByteAssoc
<1> HIDE DEF u
<1>3. u \o (p1 \o p2) = (u \o p1) \o p2
  BY <1>1, ByteAssoc
<1>4. (g \o x) \o (p1 \o p2) = (g \o (x \o p1)) \o p2
  BY <1>2, <1>3 DEF u
<1> QED
  BY <1>4 DEF Chain

(* Acknowledged bytes move from the socket to the peer without changing the chain. *)
LEMMA ChainAcks ==
    ASSUME NEW g \in Bytes, NEW x1 \in Bytes, NEW x2 \in Bytes, NEW p, NEW e, NEW b, NEW d, NEW h
    PROVE  Chain(g, x1 \o x2, p, e, b, d, h) = Chain(g \o x1, x2, p, e, b, d, h)
<1>1. g \o (x1 \o x2) = (g \o x1) \o x2
  BY ByteAssoc
<1> QED
  BY <1>1 DEF Chain

(* The relay's hand is emptied into the channel, or filled. *)
Pushes(g, x, p, e, b, d, h) ==
    /\ Chain(g, x, p, e, b, d \o h, <<>>) = Chain(g, x, p, e, b, d, h)
    /\ Chain(g, x, p, e, b, d, h) = Chain(g, x, p, e, b, d, <<>>) \o h

(* A push moves the relay's chunk to the end of the queue without changing the chain. *)
LEMMA ChainPushes ==
    ASSUME NEW g \in Bytes, NEW x \in Bytes, NEW p \in Bytes, NEW e \in BOOLEAN,
           NEW b \in Bytes, NEW d \in Bytes, NEW h \in Bytes
    PROVE  Pushes(g, x, p, e, b, d, h)
<1> DEFINE m == Mark(e)
           u == (((g \o x) \o p) \o m) \o b
<1>1. m \in Bytes
  BY MarkType
<1>2. u \in Bytes
  <2> HIDE DEF m
  <2>1. (g \o x) \o p \in Bytes
    BY ByteSeqs
  <2>2. ((g \o x) \o p) \o m \in Bytes
    BY <1>1, <2>1, ByteSeqs
  <2> QED
    BY <2>2, ByteSeqs
<1>3. /\ Chain(g, x, p, e, b, d, h) = (u \o d) \o h
      /\ Chain(g, x, p, e, b, d, <<>>) = (u \o d) \o <<>>
      /\ Chain(g, x, p, e, b, d \o h, <<>>) = (u \o (d \o h)) \o <<>>
  BY DEF Chain
<1> HIDE DEF u
<1>4. u \o d \in Bytes /\ u \o (d \o h) \in Bytes
  BY <1>2, ByteSeqs
<1>5. (u \o d) \o <<>> = u \o d /\ (u \o (d \o h)) \o <<>> = u \o (d \o h)
  BY <1>4, ByteSeqs
<1>6. u \o (d \o h) = (u \o d) \o h
  BY <1>2, ByteAssoc
<1> QED
  BY <1>3, <1>5, <1>6 DEF Pushes

(* Where the flow has the mark of the end, it has nothing behind it; and   *)
(* where nothing is pending before it, all is sent.                        *)
Ends(g, x, p, b, d, h, n, r) ==
    /\ r /\ b = <<>> /\ d = <<>> /\ h = <<>>
    /\ Len(g) + Len(x) + Len(p) = n

\* The chain holds the stream that was given.
Accounts(g, x, p, e, b, d, h, n, r) ==
    /\ Places(g, x, p, e, b, d, h) /\ n \in Nat /\ r \in BOOLEAN
    /\ Chain(g, x, p, e, b, d, h) = Given(n, r)

(* Once a flow is half closed, nothing of its upload is left behind the end marker. *)
LEMMA ChainEnded ==
    ASSUME NEW g, NEW x, NEW p, NEW e, NEW b, NEW d, NEW h, NEW n, NEW r,
           Accounts(g, x, p, e, b, d, h, n, r), e
    PROVE  Ends(g, x, p, b, d, h, n, r)
<1>0. /\ g \in Bytes /\ x \in Bytes /\ p \in Bytes /\ e \in BOOLEAN
      /\ b \in Bytes /\ d \in Bytes /\ h \in Bytes /\ n \in Nat /\ r \in BOOLEAN
      /\ Chain(g, x, p, e, b, d, h) = Given(n, r)
  BY DEF Accounts, Places
<1> DEFINE u == (g \o x) \o p
           v == (b \o d) \o h
<1>1. u \in Bytes /\ b \o d \in Bytes
  BY <1>0, ByteSeqs
<1>2. v \in Bytes
  BY <1>0, <1>1, ByteSeqs
<1>3. Chain(g, x, p, e, b, d, h) = (((u \o <<End>>) \o b) \o d) \o h
  <2>1. Mark(e) = <<End>>
    BY DEF Mark
  <2> QED
    BY <1>0, <2>1 DEF Chain
<1>4. (((u \o <<End>>) \o b) \o d) \o h = (u \o <<End>>) \o v
  <2> DEFINE w == u \o <<End>>
  <2>1. w \in Bytes
    BY <1>0, <1>1, MarkIs, ByteSeqs
  <2> HIDE DEF w, u
  <2>2. Assoc(w, b, d)
    BY <1>0, <2>1, ByteAssociates
  <2> DEFINE y == b \o d
  <2>3. y \in Bytes
    BY <1>0, <1>1
  <2> HIDE DEF y
  <2>4. Assoc(w, y, h)
    BY <1>0, <2>1, <2>3, ByteAssociates
  <2> QED
    BY <1>0, <2>2, <2>4 DEF Assoc, w, y
<1>5. EndsOnce((u \o <<End>>) \o v)
  BY <1>0, <1>3, <1>4, GivenFacts
<1>6. v = <<>>
  <2> HIDE DEF u, v
  <2> QED
    BY <1>0, <1>1, <1>2, <1>5, EndIsLast
<1>7. b = <<>> /\ d = <<>> /\ h = <<>>
  BY <1>0, <1>1, <1>6, ByteSeqs
<1>8. Given(n, r) = u \o <<End>> /\ u \o <<End>> \in Bytes
  <2>1. u \o <<End>> \in Bytes
    BY <1>0, <1>1, MarkIs, ByteSeqs
  <2>2. (u \o <<End>>) \o <<>> = u \o <<End>>
    BY <1>0, <2>1, ByteSeqs
  <2> QED
    BY <1>0, <1>3, <1>4, <1>6, <2>1, <2>2
<1>9. Len(u \o <<End>>) = Len(u) + 1 /\ Len(u) \in Nat
  BY <1>0, <1>1, MarkIs, ByteSeqs
<1>10. Len(u) = Len(g) + Len(x) + Len(p)
  <2>1. g \o x \in Bytes /\ Len(g \o x) = Len(g) + Len(x)
    BY <1>0, ByteSeqs
  <2> QED
    BY <1>0, <2>1, ByteSeqs
<1>11. r
  <2> SUFFICES ASSUME ~r PROVE FALSE
    OBVIOUS
  <2>1. Len(Given(n, r)) = n /\ \A i \in 1..n : Given(n, r)[i] = i
    BY <1>0, GivenFacts
  <2>2. n = Len(u) + 1 /\ n \in 1..n
    BY <1>0, <1>8, <1>9, <2>1
  <2>3. (u \o <<End>>)[Len(u) + 1] = End
    BY <1>0, <1>1
  <2>4. n = End
    BY <1>0, <1>8, <2>1, <2>2, <2>3
  <2> QED
    BY <1>0, <2>2, <2>4 DEF End
<1>12. Len(Given(n, r)) = n + 1
  BY <1>0, <1>11, GivenFacts
<1>13. Len(u) = n
  BY <1>0, <1>8, <1>9, <1>12
<1> QED
  BY <1>0, <1>7, <1>10, <1>11, <1>13 DEF Ends

(* Of nothing there is nothing anywhere. *)
LEMMA ChainEmpty ==
    ASSUME NEW g \in Bytes, NEW x \in Bytes, NEW p \in Bytes, NEW e \in BOOLEAN,
           NEW b \in Bytes, NEW d \in Bytes, NEW h \in Bytes,
           Chain(g, x, p, e, b, d, h) = <<>>
    PROVE  g = <<>> /\ x = <<>> /\ p = <<>> /\ ~e /\ b = <<>> /\ d = <<>> /\ h = <<>>
<1> DEFINE m == Mark(e)
<1>1. m \in Bytes /\ (e => m # <<>>)
  BY MarkType DEF Mark
<1> HIDE DEF m
<1>2. ((((((g \o x) \o p) \o m) \o b) \o d) \o h) = <<>>
  BY DEF Chain, m
<1>3. g \o x \in Bytes
  BY ByteSeqs
<1>4. (g \o x) \o p \in Bytes
  BY <1>3, ByteSeqs
<1>5. ((g \o x) \o p) \o m \in Bytes
  BY <1>1, <1>4, ByteSeqs
<1>6. (((g \o x) \o p) \o m) \o b \in Bytes
  BY <1>5, ByteSeqs
<1>7. ((((g \o x) \o p) \o m) \o b) \o d \in Bytes
  BY <1>6, ByteSeqs
<1>8. h = <<>> /\ ((((g \o x) \o p) \o m) \o b) \o d = <<>>
  BY <1>2, <1>7, ByteSeqs
<1>9. d = <<>> /\ (((g \o x) \o p) \o m) \o b = <<>>
  BY <1>6, <1>8, ByteSeqs
<1>10. b = <<>> /\ ((g \o x) \o p) \o m = <<>>
  BY <1>5, <1>9, ByteSeqs
<1>11. m = <<>> /\ (g \o x) \o p = <<>>
  BY <1>1, <1>4, <1>10, ByteSeqs
<1>12. p = <<>> /\ g \o x = <<>>
  BY <1>3, <1>11, ByteSeqs
<1>13. g = <<>> /\ x = <<>>
  BY <1>12, ByteSeqs
<1> QED
  BY <1>1, <1>8, <1>9, <1>10, <1>11, <1>12, <1>13

-----------------------------------------------------------------------------
(* Types, and what a step that concerns one flow leaves alone.             *)

(* The types of one flow and of its surroundings. *)
LEMMA FlowTypes ==
    ASSUME StackTypes, NEW f \in Flows
    PROVE  /\ tcp[f] \in TcpState /\ Len(tcp[f].pending) <= PendingMax
           /\ sock[f] \in Sockets /\ credit[f] \in Credits /\ app[f] \in Relays
           /\ peer[f] \in [got : UpSeq, sent : 0..DownBytes, fin : BOOLEAN]
           /\ quiet[f] \in 0..StallReset
           /\ peer[f].got \in Bytes /\ sock[f].tx \in Bytes /\ tcp[f].pending \in Bytes
           /\ tcp[f].half_closed \in BOOLEAN /\ app[f].hand \in Bytes
           /\ Stream(backlog, f) \in Bytes /\ Stream(dataIn, f) \in Bytes
           /\ Around(f) \in Surroundings
<1>1. /\ tcp[f] \in TcpState /\ Len(tcp[f].pending) <= PendingMax
      /\ sock[f] \in Sockets /\ credit[f] \in Credits /\ app[f] \in Relays
      /\ peer[f] \in [got : UpSeq, sent : 0..DownBytes, fin : BOOLEAN]
      /\ quiet[f] \in 0..StallReset /\ backlog \in Queues /\ dataIn \in Queues
  BY DEF StackTypes, Tables
<1>2. /\ peer[f].got \in UpSeq /\ sock[f].tx \in UpSeq /\ tcp[f].pending \in UpSeq
      /\ tcp[f].half_closed \in BOOLEAN /\ app[f].hand \in UpSeq
  BY <1>1 DEF TcpState, Sockets, Relays
<1>3. Stream(backlog, f) \in Bytes /\ Stream(dataIn, f) \in Bytes
  BY <1>1, StreamType
<1>4. peer[f].got \in Bytes /\ sock[f].tx \in Bytes /\ tcp[f].pending \in Bytes
      /\ app[f].hand \in Bytes
  BY <1>2, UpSeqBytes
<1>5. Around(f) \in Surroundings
  <2>1. peer[f].fin \in BOOLEAN /\ (f \in broken) \in BOOLEAN /\ Asks(cmds, f) \in BOOLEAN
        /\ pc \in Stages
    BY <1>1 DEF StackTypes, Asks
  <2> QED
    BY <1>1, <1>3, <1>4, <2>1 DEF Around, Surroundings
<1> QED
  BY <1>1, <1>2, <1>3, <1>4, <1>5

(* A flow nothing of which changes is as it was. *)
Untouched(f) ==
    /\ tcp'[f] = tcp[f] /\ sock'[f] = sock[f] /\ app'[f] = app[f] /\ credit'[f] = credit[f]
    /\ Around(f)' = Around(f)

(* A step that changes one flow only has to keep that flow's invariant. *)
LEMMA OneFlow ==
    ASSUME StackInv, StackTypes', NEW f \in Flows,
           \A h \in Flows : h # f => Untouched(h),
           FlowInv(tcp[f], sock[f], app[f], credit[f], Around(f))'
    PROVE  StackInv'
<1> SUFFICES ASSUME NEW h \in Flows
             PROVE  FlowInv(tcp[h], sock[h], app[h], credit[h], Around(h))'
  BY DEF StackInv
<1>1. CASE h = f
  BY <1>1
<1>2. CASE h # f
  <2>1. FlowInv(tcp[h], sock[h], app[h], credit[h], Around(h))
    BY DEF StackInv
  <2> QED
    BY <1>2, <2>1 DEF Untouched
<1> QED
  BY <1>1, <1>2

(* A step of a flow's relay: it may only go away, it keeps its accounts,   *)
(* and nothing of the flow's other parts changes but the channel.          *)
LEMMA RelayStep ==
    ASSUME NEW t, NEW k, NEW a \in Relays, NEW c, NEW x \in Surroundings,
           FlowInv(t, k, a, c, x),
           NEW a2 \in Relays, NEW c2, NEW x2 \in Surroundings,
           a2.conn = a.conn, a.gone => a2.gone,
           x2.got = x.got, x2.fin = x.fin, x2.quiet = x.quiet, x2.broken = x.broken,
           x2.asked = x.asked, x2.stage = x.stage,
           Reserved(a2, c2), NothingRead(a2), UploadWhole(t, k, a2, x2)
    PROVE  FlowInv(t, k, a2, c2, x2)
<1>1. Opened(t, k, a2, x2)
  BY DEF FlowInv, Opened
<1>2. FinLast(t, k, a2)
  BY DEF FlowInv, FinLast
<1>3. AckCount(t, k, x2) /\ AgesFollow(t, k, x2)
  BY DEF FlowInv, AckCount, AgesFollow
<1>4. EndedByPeer(k, a2, x2)
  BY DEF FlowInv, EndedByPeer
<1>5. JustServiced(t, k, a2, x2)
  BY DEF FlowInv, JustServiced, Fed
<1> QED
  BY <1>1, <1>2, <1>3, <1>4, <1>5 DEF FlowInv

-----------------------------------------------------------------------------
(* The relays.                                                             *)

(* The relay of f changed, and perhaps its credit; the channel has at most *)
(* a message of f more.                                                    *)
LEMMA RelayKeeps ==
    ASSUME StackInv, NEW f \in Flows, NEW a2 \in Relays, NEW c2 \in Credits, NEW m \in Seq(Chunk),
           m = <<>> \/ \E d \in Chunk : d.id = f /\ m = <<d>> /\ Len(dataIn) < QueueCap,
           app' = [app EXCEPT ![f] = a2], credit' = [credit EXCEPT ![f] = c2],
           dataIn' = dataIn \o m, RelayUnchanged, cmds' = cmds,
           a2.conn = app[f].conn, app[f].gone => a2.gone,
           Reserved(a2, c2), NothingRead(a2),
           Counted(tcp[f], a2, Around(f)) =>
              Chain(peer[f].got, sock[f].tx, tcp[f].pending, tcp[f].half_closed,
                    Stream(backlog, f), Stream(dataIn, f) \o Stream(m, f), a2.hand)
                = Given(a2.read, a2.up_done)
    PROVE  StackInv'
<1>1. StackTypes /\ FlowInv(tcp[f], sock[f], app[f], credit[f], Around(f))
  BY DEF StackInv
<1>2. /\ dataIn \in Queues /\ m \in Queues
      /\ pc' = pc /\ backlog' = backlog /\ tcp' = tcp /\ sock' = sock /\ peer' = peer
      /\ quiet' = quiet /\ broken' = broken
  BY <1>1 DEF RelayUnchanged, StackTypes, Queues
<1>3. dataIn' \in Queues /\ Len(dataIn') <= QueueCap
  <2>1. CASE m = <<>>
    <3>1. dataIn' = dataIn
      BY <1>2, <2>1, ConcatEmptySeq DEF Queues
    <3> QED
      BY <1>1, <3>1 DEF StackTypes
  <2>2. CASE m # <<>>
    <3>1. PICK d \in Chunk : d.id = f /\ m = <<d>> /\ Len(dataIn) < QueueCap
      BY <2>2
    <3>2. dataIn' = Append(dataIn, d)
      BY <1>2, <3>1, AppendIsConcat DEF Queues
    <3> QED
      BY <1>2, <3>1, <3>2, AppendProperties, Sizes DEF Queues
  <2> QED
    BY <2>1, <2>2
<1>4. app' \in [Flows -> Relays] /\ credit' \in [Flows -> Credits]
  BY <1>1 DEF StackTypes
<1>5. StackTypes'
  BY <1>1, <1>2, <1>3, <1>4 DEF StackTypes
<1>6. \A h \in Flows : Stream(dataIn', h) = Stream(dataIn, h) \o Stream(m, h)
  BY <1>2, StreamConcat
<1>7. ASSUME NEW h \in Flows, h # f PROVE Untouched(h)
  <2>1. app'[h] = app[h] /\ credit'[h] = credit[h]
    BY <1>1, <1>7 DEF StackTypes
  <2>2. Stream(m, h) = <<>>
    <3>1. CASE m = <<>>
      BY <1>2, <3>1, StreamType
    <3>2. CASE m # <<>>
      <4>1. PICK d \in Chunk : d.id = f /\ m = <<d>>
        BY <3>2
      <4>2. m = Append(<<>>, d) /\ <<>> \in Queues
        BY <4>1, EmptySeq DEF Queues
      <4>3. Item(d, h) = <<>>
        BY <1>7, <4>1 DEF Item
      <4>4. Stream(Append(<<>>, d), h) = Stream(<<>>, h) \o Item(d, h)
            /\ Stream(<<>>, h) = <<>>
        BY <4>2, StreamSteps
      <4> QED
        BY <4>2, <4>3, <4>4, ByteSeqs
    <3> QED
      BY <3>1, <3>2
  <2>3. Stream(dataIn', h) = Stream(dataIn, h)
    BY <1>1, <1>6, <2>2, FlowTypes, ByteSeqs
  <2>4. Around(h)' = Around(h)
    BY <1>2, <2>3 DEF Around, Asks
  <2> QED
    BY <1>2, <2>1, <2>4 DEF Untouched
<1>8. FlowInv(tcp[f], sock[f], app[f], credit[f], Around(f))'
  <2> DEFINE x == Around(f)
             x2 == Around(f)'
  <2>1. app'[f] = a2 /\ credit'[f] = c2 /\ tcp'[f] = tcp[f] /\ sock'[f] = sock[f]
    BY <1>1, <1>2 DEF StackTypes
  <2>2. x \in Surroundings /\ x2 \in Surroundings
    <3>1. x \in Surroundings
      BY <1>1, FlowTypes
    <3>2. Stream(dataIn', f) \in Bytes
      BY <1>3, StreamType
    <3>3. x2 = [got |-> x.got, fin |-> x.fin, backlog |-> x.backlog,
                dataIn |-> Stream(dataIn', f), quiet |-> x.quiet, broken |-> x.broken,
                asked |-> x.asked, stage |-> x.stage]
      BY <1>2 DEF Around, Asks
    <3> HIDE DEF x, x2
    <3> QED
      BY <3>1, <3>2, <3>3 DEF Surroundings
  <2>3. /\ x2.got = x.got /\ x2.fin = x.fin /\ x2.quiet = x.quiet /\ x2.broken = x.broken
        /\ x2.asked = x.asked /\ x2.stage = x.stage /\ x2.backlog = x.backlog
        /\ x2.dataIn = Stream(dataIn, f) \o Stream(m, f)
        /\ x.got = peer[f].got /\ x.backlog = Stream(backlog, f)
    BY <1>2, <1>6 DEF Around, Asks
  <2>4. app[f] \in Relays
    BY <1>1, FlowTypes
  <2>5. UploadWhole(tcp[f], sock[f], a2, x2)
    <3>1. Counted(tcp[f], a2, x2) => Counted(tcp[f], a2, x)
      BY <2>3 DEF Counted
    <3> HIDE DEF x, x2
    <3> QED
      BY <2>3, <3>1 DEF UploadWhole, x
  <2>6. FlowInv(tcp[f], sock[f], app[f], credit[f], x)
    BY <1>1
  <2> HIDE DEF x, x2
  <2>7. FlowInv(tcp[f], sock[f], a2, c2, x2)
    BY <2>2, <2>3, <2>4, <2>5, <2>6, RelayStep
  <2> QED
    BY <2>1, <2>7 DEF x2
<1> QED
  BY <1>5, <1>7, <1>8, OneFlow

(* The same where the channel does not change. *)
LEMMA RelayKeepsAside ==
    ASSUME StackInv, NEW f \in Flows, NEW a2 \in Relays, NEW c2 \in Credits,
           app' = [app EXCEPT ![f] = a2], credit' = [credit EXCEPT ![f] = c2],
           dataIn' = dataIn, RelayUnchanged, cmds' = cmds,
           a2.conn = app[f].conn, app[f].gone => a2.gone,
           Reserved(a2, c2), NothingRead(a2),
           Counted(tcp[f], a2, Around(f)) =>
              Chain(peer[f].got, sock[f].tx, tcp[f].pending, tcp[f].half_closed,
                    Stream(backlog, f), Stream(dataIn, f), a2.hand)
                = Given(a2.read, a2.up_done)
    PROVE  StackInv'
<1>1. StackTypes /\ dataIn \in Queues
  BY DEF StackInv, StackTypes
<1>2. <<>> \in Seq(Chunk) /\ dataIn' = dataIn \o <<>>
  BY <1>1, EmptySeq, ConcatEmptySeq DEF Queues
<1>3. Stream(dataIn, f) \o Stream(<<>>, f) = Stream(dataIn, f)
  BY <1>1, StreamType, ByteSeqs
<1> QED
  BY <1>2, <1>3, RelayKeeps

(* What the flow's relay has to do with it, before a step. *)
LEMMA RelayNow ==
    ASSUME StackInv, NEW f \in Flows
    PROVE  /\ app[f] \in Relays /\ credit[f] \in Credits
           /\ NothingRead(app[f]) /\ Reserved(app[f], credit[f])
           /\ tcp[f].live => pc # "ended"
           /\ Counted(tcp[f], app[f], Around(f)) =>
                 Chain(peer[f].got, sock[f].tx, tcp[f].pending, tcp[f].half_closed,
                       Stream(backlog, f), Stream(dataIn, f), app[f].hand)
                   = Given(app[f].read, app[f].up_done)
           /\ app \in [Flows -> Relays] /\ credit \in [Flows -> Credits]
           /\ credit = [credit EXCEPT ![f] = credit[f]]
<1>1. StackTypes /\ FlowInv(tcp[f], sock[f], app[f], credit[f], Around(f))
  BY DEF StackInv
<1>2. app[f] \in Relays /\ credit[f] \in Credits /\ app \in [Flows -> Relays]
      /\ credit \in [Flows -> Credits]
  BY <1>1, FlowTypes DEF StackTypes
<1>3. NothingRead(app[f]) /\ Reserved(app[f], credit[f])
  BY <1>1 DEF FlowInv
<1>4. tcp[f].live => pc # "ended"
  BY <1>1 DEF FlowInv, Opened, Around
<1>5. Counted(tcp[f], app[f], Around(f)) =>
        Chain(peer[f].got, sock[f].tx, tcp[f].pending, tcp[f].half_closed,
              Stream(backlog, f), Stream(dataIn, f), app[f].hand)
          = Given(app[f].read, app[f].up_done)
  <2>1. UploadWhole(tcp[f], sock[f], app[f], Around(f))
    BY <1>1 DEF FlowInv
  <2>2. /\ Around(f).got = peer[f].got /\ Around(f).backlog = Stream(backlog, f)
        /\ Around(f).dataIn = Stream(dataIn, f)
    BY DEF Around
  <2> QED
    BY <2>1, <2>2 DEF UploadWhole
<1>6. credit = [credit EXCEPT ![f] = credit[f]]
  BY <1>2
<1> QED
  BY <1>2, <1>3, <1>4, <1>5, <1>6

(* A relay that gives up waiting for credit keeps the invariant. *)
LEMMA GiveUpKeeps == ASSUME StackInv, NEW f \in Flows, GiveUp(f) PROVE StackInv'
<1> DEFINE a == app[f]
           a2 == [a EXCEPT !.gone = TRUE]
<1>1. a \in Relays /\ NothingRead(a) /\ Reserved(a, credit[f])
  BY RelayNow
<1>2. a2 \in Relays
  BY <1>1 DEF Relays
<1>3. /\ a2.conn = "wait" /\ a.conn = "wait" /\ a2.gone /\ a2.read = a.read /\ a2.hand = a.hand
      /\ a2.up_done = a.up_done /\ a2.reserved = a.reserved
  BY <1>1 DEF GiveUp, Relays
<1>4. app' = [app EXCEPT ![f] = a2] /\ RelayUnchanged /\ UNCHANGED <<cmds, dataIn, credit>>
  BY DEF GiveUp
<1> HIDE DEF a, a2
<1>5. Reserved(a2, credit[f]) /\ NothingRead(a2)
  BY <1>1, <1>3 DEF Reserved, NothingRead
<1>6. Counted(tcp[f], a, Around(f))
  BY <1>3 DEF Counted
<1>7. credit[f] \in Credits /\ credit' = [credit EXCEPT ![f] = credit[f]]
  BY <1>4, RelayNow
<1> QED
  BY <1>2, <1>3, <1>4, <1>5, <1>6, <1>7, RelayNow, RelayKeepsAside DEF a

(* A relay that takes downloaded data keeps the invariant. *)
LEMMA RecvKeeps == ASSUME StackInv, NEW f \in Flows, Recv(f) PROVE StackInv'
<1> DEFINE a == app[f]
           a2 == [a EXCEPT !.got = @ + Head(a.queue), !.queue = Tail(@)]
<1>1. a \in Relays /\ NothingRead(a) /\ Reserved(a, credit[f])
  BY RelayNow
<1>2. Head(a.queue) \in Nat /\ Tail(a.queue) \in Seq(1..RecvBuf) /\ Len(Tail(a.queue)) <= AppCap
  <2>1. a.queue \in Seq(1..RecvBuf) /\ a.queue # <<>> /\ Len(a.queue) <= AppCap
    BY <1>1 DEF Recv, Relays
  <2> DEFINE q == a.queue
             R == 1..RecvBuf
  <2>2. q \in Seq(R) /\ q # <<>>
    BY <2>1
  <2> HIDE DEF q, R
  <2>3. Head(q) \in R /\ Tail(q) \in Seq(R) /\ Len(Tail(q)) = Len(q) - 1 /\ Len(q) \in Nat
    BY <2>2, HeadTailProperties, LenProperties
  <2>4. Len(q) <= AppCap /\ (Head(q) \in R => Head(q) \in Nat)
    BY <2>1, Sizes DEF q, R
  <2>5. Len(Tail(q)) <= AppCap
    BY <2>3, <2>4, Sizes
  <2> QED
    BY <2>3, <2>4, <2>5 DEF q, R
<1>3. a2 \in Relays
  <2>1. a.got \in Nat /\ a.got + Head(a.queue) \in Nat
    BY <1>1, <1>2 DEF Relays
  <2> DEFINE n == a.got + Head(a.queue)
             q == Tail(a.queue)
  <2>2. a2 = [a EXCEPT !.got = n, !.queue = q] /\ n \in Nat /\ q \in Seq(1..RecvBuf)
        /\ Len(q) <= AppCap
    BY <1>2, <2>1
  <2> HIDE DEF n, q, a2
  <2> QED
    BY <1>1, <2>2 DEF Relays
<1>4. /\ a2.conn = a.conn /\ a2.gone = a.gone /\ a2.read = a.read /\ a2.hand = a.hand
      /\ a2.up_done = a.up_done /\ a2.reserved = a.reserved
  BY <1>1 DEF Relays
<1>5. app' = [app EXCEPT ![f] = a2] /\ RelayUnchanged /\ UNCHANGED <<cmds, dataIn, credit>>
  BY DEF Recv
<1> HIDE DEF a, a2
<1>6. Reserved(a2, credit[f]) /\ NothingRead(a2)
  BY <1>1, <1>4 DEF Reserved, NothingRead
<1>7. Counted(tcp[f], a2, Around(f)) => Counted(tcp[f], a, Around(f))
  BY <1>4 DEF Counted
<1>8. credit[f] \in Credits /\ credit' = [credit EXCEPT ![f] = credit[f]]
  BY <1>5, RelayNow
<1> QED
  BY <1>3, <1>4, <1>5, <1>6, <1>7, <1>8, RelayNow, RelayKeepsAside DEF a

(* Reserving upload budget keeps the invariant. *)
LEMMA ReserveKeeps == ASSUME StackInv, NEW f \in Flows, Reserve(f) PROVE StackInv'
<1> DEFINE a == app[f]
           a2 == [a EXCEPT !.reserved = TRUE, !.wait = 0]
           c == credit[f]
           c2 == [c EXCEPT !.sent = @ + Len(a.hand)]
<1>1. a \in Relays /\ NothingRead(a) /\ Reserved(a, c) /\ c \in Credits
  BY RelayNow
<1>2. 0 \in 0..CreditWait
  BY Sizes
<1>3. a2 \in Relays
  BY <1>1, <1>2 DEF Relays
<1>4. /\ a2.conn = a.conn /\ a2.gone = a.gone /\ a2.read = a.read /\ a2.hand = a.hand
      /\ a2.up_done = a.up_done /\ a2.reserved = TRUE /\ ~a.reserved /\ a.hand # <<>>
  BY <1>1 DEF Relays, Reserve
<1>5. /\ app' = [app EXCEPT ![f] = a2] /\ credit' = [credit EXCEPT ![f] = c2]
      /\ RelayUnchanged /\ UNCHANGED <<cmds, dataIn>>
  BY DEF Reserve
<1>6. c.sent + Len(a.hand) <= a.read /\ a.read \in 0..UpBytes /\ Len(a.hand) \in Nat
      /\ c.sent \in 0..UpBytes
  BY <1>1, <1>4 DEF Reserved, Relays, UpSeq, Credits
<1>7. c.sent + Len(a.hand) \in 0..UpBytes
  <2> DEFINE n == c.sent
             m == Len(a.hand)
             r == a.read
  <2>1. n \in 0..UpBytes /\ m \in Nat /\ r \in 0..UpBytes /\ n + m <= r
    BY <1>6
  <2> HIDE DEF n, m, r
  <2>2. n + m \in 0..UpBytes
    BY <2>1, Sizes
  <2> QED
    BY <2>2 DEF n, m
<1>8. c2 \in Credits /\ c2.sent = c.sent + Len(a.hand)
  BY <1>1, <1>7 DEF Credits
<1> HIDE DEF a, a2, c, c2
<1>9. Reserved(a2, c2) /\ NothingRead(a2)
  BY <1>1, <1>4, <1>6, <1>8 DEF Reserved, NothingRead
<1>10. Counted(tcp[f], a2, Around(f)) => Counted(tcp[f], a, Around(f))
  BY <1>4 DEF Counted
<1> QED
  BY <1>3, <1>4, <1>5, <1>8, <1>9, <1>10, RelayNow, RelayKeepsAside DEF a

(* Reading n more bytes extends the stream given by exactly those. *)
LEMMA GivenGrows ==
    ASSUME NEW r \in Nat, NEW n \in Nat
    PROVE  /\ [i \in 1..n |-> r + i] \in Bytes /\ Len([i \in 1..n |-> r + i]) = n
           /\ Given(r, FALSE) \o [i \in 1..n |-> r + i] = Given(r + n, FALSE)
<1> DEFINE s == [i \in 1..r |-> i]
           w == [i \in 1..n |-> r + i]
           z == [i \in 1..(r + n) |-> i]
<1>1. /\ s \in Bytes /\ Len(s) = r /\ w \in Bytes /\ Len(w) = n /\ z \in Bytes /\ Len(z) = r + n
      /\ \A i \in 1..r : s[i] = i
      /\ \A i \in 1..n : w[i] = r + i
      /\ \A i \in 1..(r + n) : z[i] = i
  BY DEF Bytes
<1>2. Given(r, FALSE) = s /\ Given(r + n, FALSE) = z
  <2>1. \A m \in Nat : Given(m, FALSE) = [i \in 1..m |-> i]
    BY GivenFacts
  <2>2. r + n \in Nat
    OBVIOUS
  <2> QED
    BY <2>1, <2>2
<1> HIDE DEF s, w, z
<1>3. /\ s \o w \in Bytes /\ Len(s \o w) = r + n
      /\ \A i \in 1..(r + n) : (s \o w)[i] = IF i <= r THEN s[i] ELSE w[i - r]
  BY <1>1, ByteSeqs, ByteAt
<1>4. \A i \in 1..(r + n) : (s \o w)[i] = z[i]
  <2> TAKE i \in 1..(r + n)
  <2>1. CASE i <= r
    BY <1>1, <1>3, <2>1
  <2>2. CASE ~(i <= r)
    <3>1. i - r \in 1..n /\ r + (i - r) = i
      BY <2>2
    <3> QED
      BY <1>1, <1>3, <2>2, <3>1
  <2> QED
    BY <2>1, <2>2
<1>5. s \o w = z
  BY <1>1, <1>3, <1>4, SeqEqual DEF Bytes
<1> QED
  BY <1>1, <1>2, <1>5 DEF w

(* Reading from the client keeps the invariant: the bytes read are in the relay's hand. *)
LEMMA ReadClientKeeps == ASSUME StackInv, NEW f \in Flows, ReadClient(f) PROVE StackInv'
<1> DEFINE a == app[f]
<1>1. PICK n \in 1..MaxChunk :
        /\ a.read + n <= UpBytes
        /\ app' = [app EXCEPT ![f].hand = [i \in 1..n |-> a.read + i],
                              ![f].read = @ + n, ![f].wait = 0]
  BY DEF ReadClient
<1> DEFINE w == [i \in 1..n |-> a.read + i]
           r == a.read + n
           a2 == [a EXCEPT !.hand = w, !.read = r, !.wait = 0]
<1>2. /\ a \in Relays /\ NothingRead(a) /\ Reserved(a, credit[f]) /\ n \in Nat /\ n > 0
      /\ 0 \in 0..CreditWait /\ credit[f] \in Credits
  BY RelayNow, Sizes
<1>3. /\ a.conn = "ok" /\ ~a.gone /\ ~a.up_done /\ a.hand = <<>>
      /\ RelayUnchanged /\ UNCHANGED <<cmds, dataIn, credit>>
  BY DEF ReadClient, Uploading
<1>4. a.read \in 0..UpBytes /\ a.read \in Nat /\ r \in 0..UpBytes /\ r \in Nat
      /\ a.up_done \in BOOLEAN /\ a.reserved \in BOOLEAN /\ credit[f].sent \in Nat
  <2>1. a.read \in 0..UpBytes /\ a.up_done \in BOOLEAN /\ a.reserved \in BOOLEAN
        /\ credit[f].sent \in 0..UpBytes
    BY <1>2 DEF Relays, Credits
  <2> DEFINE m == a.read
  <2>2. m \in 0..UpBytes /\ m + n <= UpBytes
    BY <1>1, <2>1
  <2> HIDE DEF m
  <2>3. m \in Nat /\ m + n \in 0..UpBytes /\ m + n \in Nat
    BY <1>2, <2>2, Sizes
  <2> QED
    BY <2>1, <2>3, Sizes DEF m
<1>5. w \in UpSeq /\ w \in Bytes /\ Len(w) = n
  <2> DEFINE m == a.read
  <2>1. m \in Nat /\ m + n <= UpBytes
    BY <1>1, <1>4
  <2>2. w = [i \in 1..n |-> m + i]
    OBVIOUS
  <2> HIDE DEF m, w
  <2>3. \A i \in 1..n : m + i \in 1..UpBytes
    BY <1>2, <2>1, Sizes
  <2>4. w \in UpSeq
    BY <1>2, <2>2, <2>3 DEF UpSeq
  <2> QED
    BY <1>2, <2>1, <2>2, <2>4, GivenGrows
<1>6. app' = [app EXCEPT ![f] = a2]
  BY <1>1
<1> HIDE DEF w, r
<1>7. a2 \in Relays
  BY <1>2, <1>4, <1>5 DEF Relays
<1>8. /\ a2.conn = a.conn /\ a2.gone = a.gone /\ a2.read = r /\ a2.hand = w
      /\ a2.up_done = a.up_done /\ a2.reserved = a.reserved
  BY <1>2 DEF Relays
<1> HIDE DEF a, a2
<1>9. ~a.reserved
  BY <1>2, <1>3 DEF Reserved
<1>10. Reserved(a2, credit[f]) /\ NothingRead(a2)
  <2>1. credit[f].sent <= a.read
    <3>1. Len(<<>>) = 0
      BY EmptySeq
    <3> QED
      BY <1>2, <1>3, <1>4, <1>9, <3>1 DEF Reserved
  <2>2. credit[f].sent + Len(w) <= r
    BY <1>2, <1>4, <1>5, <2>1 DEF r
  <2> QED
    BY <1>3, <1>8, <1>9, <2>2 DEF Reserved, NothingRead
<1>11. ASSUME Counted(tcp[f], a2, Around(f))
       PROVE  Chain(peer[f].got, sock[f].tx, tcp[f].pending, tcp[f].half_closed,
                    Stream(backlog, f), Stream(dataIn, f), a2.hand) = Given(a2.read, a2.up_done)
  <2> DEFINE all(h) == Chain(peer[f].got, sock[f].tx, tcp[f].pending, tcp[f].half_closed,
                             Stream(backlog, f), Stream(dataIn, f), h)
  <2>1. Counted(tcp[f], a, Around(f))
    BY <1>8, <1>11 DEF Counted
  <2>2. all(<<>>) = Given(a.read, FALSE)
    <3>1. all(app[f].hand) = Given(app[f].read, app[f].up_done)
      BY <2>1, RelayNow DEF a
    <3> QED
      BY <1>3, <1>4, <3>1 DEF a
  <2>3. all(w) = all(<<>>) \o w
    <3>1. /\ peer[f].got \in Bytes /\ sock[f].tx \in Bytes /\ tcp[f].pending \in Bytes
          /\ tcp[f].half_closed \in BOOLEAN
          /\ Stream(backlog, f) \in Bytes /\ Stream(dataIn, f) \in Bytes
      BY FlowTypes DEF StackInv
    <3> DEFINE g == peer[f].got
               x == sock[f].tx
               p == tcp[f].pending
               e == tcp[f].half_closed
               b == Stream(backlog, f)
               d == Stream(dataIn, f)
    <3>2. g \in Bytes /\ x \in Bytes /\ p \in Bytes /\ e \in BOOLEAN /\ b \in Bytes
          /\ d \in Bytes
      BY <3>1
    <3> HIDE DEF g, x, p, e, b, d
    <3>3. Chain(g, x, p, e, b, d, w) = Chain(g, x, p, e, b, d, <<>>) \o w
      <4>1. w \in Bytes
        BY <1>5
      <4>2. Pushes(g, x, p, e, b, d, w)
        BY <3>2, <4>1, ChainPushes
      <4> QED
        BY <4>2 DEF Pushes
    <3> QED
      BY <3>3 DEF g, x, p, e, b, d
  <2>4. Given(a.read, FALSE) \o w = Given(r, FALSE)
    BY <1>2, <1>4, GivenGrows DEF w, r
  <2> QED
    BY <1>3, <1>4, <1>8, <2>2, <2>3, <2>4
<1>12. credit' = [credit EXCEPT ![f] = credit[f]]
  BY <1>3, RelayNow
<1> QED
  BY <1>2, <1>3, <1>6, <1>7, <1>8, <1>10, <1>11, <1>12, RelayKeepsAside DEF a

(* A single message in the channel. *)
LEMMA StreamOne ==
    ASSUME NEW d \in Chunk, NEW f \in Flows
    PROVE  <<d>> \in Queues /\ Stream(<<d>>, f) = Item(d, f)
<1>1. <<d>> = Append(<<>>, d) /\ <<>> \in Queues /\ <<d>> \in Queues
  BY EmptySeq DEF Queues
<1>2. Stream(Append(<<>>, d), f) = Stream(<<>>, f) \o Item(d, f) /\ Stream(<<>>, f) = <<>>
  BY <1>1, StreamSteps
<1>3. Item(d, f) \in Bytes
  BY ItemType
<1> QED
  BY <1>1, <1>2, <1>3, ByteSeqs

(* The messages a relay sends. *)
LEMMA Messages ==
    ASSUME NEW f \in Flows
    PROVE  /\ CloseMsg(f) \in Chunk /\ CloseMsg(f).id = f /\ Item(CloseMsg(f), f) = <<End>>
           /\ \A h \in UpSeq : h # <<>> =>
                 DataMsg(f, h) \in Chunk /\ DataMsg(f, h).id = f /\ Item(DataMsg(f, h), f) = h
<1>1. <<>> \in UpSeq
  BY EmptySeq DEF UpSeq
<1> QED
  BY <1>1 DEF CloseMsg, DataMsg, Chunk, DataInType, Item

(* Sending a chunk to the netstack's queue keeps the invariant. *)
LEMMA PushKeeps == ASSUME StackInv, NEW f \in Flows, Push(f) PROVE StackInv'
<1> DEFINE a == app[f]
           z == pc = "ended"
           a2 == [a EXCEPT !.hand = <<>>, !.reserved = FALSE, !.up_done = z]
           d == DataMsg(f, a.hand)
           m == IF z THEN <<>> ELSE <<d>>
<1>1. /\ a \in Relays /\ NothingRead(a) /\ Reserved(a, credit[f]) /\ credit[f] \in Credits
      /\ credit = [credit EXCEPT ![f] = credit[f]]
  BY RelayNow
<1>2. /\ a.conn = "ok" /\ ~a.gone /\ ~a.up_done /\ a.reserved
      /\ z \/ Len(dataIn) < QueueCap
      /\ app' = [app EXCEPT ![f] = a2]
      /\ RelayUnchanged /\ UNCHANGED <<cmds, credit>>
  BY DEF Push, Uploading
<1>3. a.hand # <<>> /\ a.hand \in UpSeq /\ z \in BOOLEAN
      /\ credit[f].sent <= a.read /\ credit[f].sent \in Nat
  <2>1. a.hand # <<>> /\ credit[f].sent + 0 <= a.read
    BY <1>1, <1>2 DEF Reserved
  <2>2. a.hand \in UpSeq /\ credit[f].sent \in 0..UpBytes
    BY <1>1 DEF Relays, Credits
  <2> DEFINE n == credit[f].sent
  <2>3. n \in 0..UpBytes /\ n + 0 <= a.read
    BY <2>1, <2>2
  <2> HIDE DEF n, a
  <2>4. n \in Nat /\ n <= a.read
    BY <2>3, Sizes
  <2> QED
    BY <2>1, <2>2, <2>4 DEF n
<1>4. d \in Chunk /\ d.id = f /\ Item(d, f) = a.hand
  BY <1>3, Messages
<1>5. dataIn' = dataIn \o m
  <2>1. dataIn \in Seq(Chunk)
    BY DEF StackInv, StackTypes, Queues
  <2>2. dataIn' = IF z THEN dataIn ELSE Append(dataIn, d)
    BY DEF Push
  <2> HIDE DEF d
  <2> QED
    BY <1>4, <2>1, <2>2, ConcatEmptySeq, AppendIsConcat
<1>6. a2 \in Relays
  <2>1. <<>> \in UpSeq
    BY EmptySeq DEF UpSeq
  <2> HIDE DEF z
  <2> QED
    BY <1>1, <1>3, <2>1 DEF Relays
<1>7. a2.conn = "ok" /\ a2.gone = a.gone /\ a2.read = a.read /\ a2.hand = <<>>
      /\ a2.up_done = z /\ ~a2.reserved
  BY <1>1, <1>2 DEF Relays
<1> HIDE DEF a2
<1>8. Reserved(a2, credit[f]) /\ NothingRead(a2)
  <2>1. Len(<<>>) = 0
    BY EmptySeq
  <2> HIDE DEF a
  <2> QED
    BY <1>3, <1>7, <2>1 DEF Reserved, NothingRead
<1>9. m \in Seq(Chunk) /\ Stream(m, f) = (IF z THEN <<>> ELSE a.hand)
      /\ (m = <<>> \/ \E y \in Chunk : y.id = f /\ m = <<y>> /\ Len(dataIn) < QueueCap)
  <2>1. CASE z
    BY <2>1, EmptySeq, StreamType DEF Queues
  <2>2. CASE ~z
    <3>1. m = <<d>>
      BY <2>2
    <3> HIDE DEF d, m
    <3> QED
      BY <1>2, <1>4, <2>2, <3>1, StreamOne DEF Queues
  <2> QED
    BY <2>1, <2>2
<1>10. ASSUME Counted(tcp[f], a2, Around(f))
       PROVE  Chain(peer[f].got, sock[f].tx, tcp[f].pending, tcp[f].half_closed,
                    Stream(backlog, f), Stream(dataIn, f) \o Stream(m, f), a2.hand)
                = Given(a2.read, a2.up_done)
  <2>1. tcp[f].live /\ ~z /\ Counted(tcp[f], a, Around(f))
    <3>1. tcp[f].live /\ Counted(tcp[f], a, Around(f))
      BY <1>2, <1>7, <1>10 DEF Counted
    <3> QED
      BY <3>1, RelayNow
  <2> DEFINE g == peer[f].got
             x == sock[f].tx
             p == tcp[f].pending
             e == tcp[f].half_closed
             b == Stream(backlog, f)
             s == Stream(dataIn, f)
             h == a.hand
  <2>2. Chain(g, x, p, e, b, s, h) = Given(a.read, a.up_done)
    BY <2>1, RelayNow
  <2>3. g \in Bytes /\ x \in Bytes /\ p \in Bytes /\ e \in BOOLEAN /\ b \in Bytes
        /\ s \in Bytes /\ h \in Bytes
    BY FlowTypes DEF StackInv
  <2>4. a.up_done = FALSE /\ z = FALSE
    BY <1>1, <1>2, <2>1 DEF Relays
  <2>5. Stream(m, f) = h /\ a2.hand = <<>> /\ a2.read = a.read /\ a2.up_done = a.up_done
    BY <1>7, <1>9, <2>1, <2>4
  <2> HIDE DEF g, x, p, e, b, s, h, m
  <2>6. Pushes(g, x, p, e, b, s, h)
    BY <2>3, ChainPushes
  <2>7. Chain(g, x, p, e, b, s \o h, <<>>) = Given(a.read, a.up_done)
    BY <2>2, <2>6 DEF Pushes
  <2> QED
    BY <2>5, <2>7 DEF g, x, p, e, b, s
<1> HIDE DEF m
<1> QED
  BY <1>1, <1>2, <1>5, <1>6, <1>7, <1>8, <1>9, <1>10, RelayKeeps

(* Sending the close of an upload keeps the invariant: the end follows all data. *)
LEMMA CloseUploadKeeps == ASSUME StackInv, NEW f \in Flows, CloseUpload(f) PROVE StackInv'
<1> DEFINE a == app[f]
           z == pc = "ended"
           a2 == [a EXCEPT !.up_done = TRUE]
           d == CloseMsg(f)
           m == IF z THEN <<>> ELSE <<d>>
<1>1. /\ a \in Relays /\ NothingRead(a) /\ Reserved(a, credit[f]) /\ credit[f] \in Credits
      /\ credit = [credit EXCEPT ![f] = credit[f]]
  BY RelayNow
<1>2. /\ a.conn = "ok" /\ ~a.gone /\ ~a.up_done /\ a.hand = <<>>
      /\ z \/ Len(dataIn) < QueueCap
      /\ app' = [app EXCEPT ![f] = a2]
      /\ RelayUnchanged /\ UNCHANGED <<cmds, credit>>
  BY DEF CloseUpload, Uploading
<1>4. d \in Chunk /\ d.id = f /\ Item(d, f) = <<End>>
  BY Messages
<1>5. dataIn' = dataIn \o m
  <2>1. dataIn \in Seq(Chunk)
    BY DEF StackInv, StackTypes, Queues
  <2>2. dataIn' = IF z THEN dataIn ELSE Append(dataIn, d)
    BY DEF CloseUpload
  <2> HIDE DEF d
  <2> QED
    BY <1>4, <2>1, <2>2, ConcatEmptySeq, AppendIsConcat
<1>6. a2 \in Relays
  BY <1>1 DEF Relays
<1>7. a2.conn = "ok" /\ a2.gone = a.gone /\ a2.read = a.read /\ a2.hand = a.hand
      /\ a2.up_done = TRUE /\ a2.reserved = a.reserved
  BY <1>1, <1>2 DEF Relays
<1> HIDE DEF a2
<1>8. Reserved(a2, credit[f]) /\ NothingRead(a2)
  <2> HIDE DEF a
  <2> QED
    BY <1>1, <1>7 DEF Reserved, NothingRead
<1>9. m \in Seq(Chunk) /\ Stream(m, f) = (IF z THEN <<>> ELSE <<End>>)
      /\ (m = <<>> \/ \E y \in Chunk : y.id = f /\ m = <<y>> /\ Len(dataIn) < QueueCap)
  <2>1. CASE z
    BY <2>1, EmptySeq, StreamType DEF Queues
  <2>2. CASE ~z
    <3>1. m = <<d>>
      BY <2>2
    <3> HIDE DEF d, m
    <3> QED
      BY <1>2, <1>4, <2>2, <3>1, StreamOne DEF Queues
  <2> QED
    BY <2>1, <2>2
<1>10. ASSUME Counted(tcp[f], a2, Around(f))
       PROVE  Chain(peer[f].got, sock[f].tx, tcp[f].pending, tcp[f].half_closed,
                    Stream(backlog, f), Stream(dataIn, f) \o Stream(m, f), a2.hand)
                = Given(a2.read, a2.up_done)
  <2>1. tcp[f].live /\ ~z /\ Counted(tcp[f], a, Around(f))
    <3>1. tcp[f].live /\ Counted(tcp[f], a, Around(f))
      BY <1>2, <1>7, <1>10 DEF Counted
    <3> QED
      BY <3>1, RelayNow
  <2> DEFINE g == peer[f].got
             x == sock[f].tx
             p == tcp[f].pending
             e == tcp[f].half_closed
             b == Stream(backlog, f)
             s == Stream(dataIn, f)
             h == <<End>>
             n == a.read
  <2>2. Chain(g, x, p, e, b, s, <<>>) = Given(n, FALSE)
    <3>1. Chain(g, x, p, e, b, s, a.hand) = Given(a.read, a.up_done)
      BY <2>1, RelayNow
    <3>2. a.up_done = FALSE
      BY <1>1, <1>2 DEF Relays
    <3> QED
      BY <1>2, <3>1, <3>2
  <2>3. g \in Bytes /\ x \in Bytes /\ p \in Bytes /\ e \in BOOLEAN /\ b \in Bytes
        /\ s \in Bytes
    BY FlowTypes DEF StackInv
  <2>4. n \in Nat
    BY <1>1, Sizes, SMTT(30) DEF Relays
  <2>5. Stream(m, f) = h /\ h \in Bytes
    BY <1>9, <2>1, MarkIs
  <2>6. a2.hand = <<>> /\ a2.read = n /\ a2.up_done = TRUE
    BY <1>2, <1>7
  <2> HIDE DEF g, x, p, e, b, s, n, m, h
  <2>7. Pushes(g, x, p, e, b, s, h)
    BY <2>3, <2>5, ChainPushes
  <2>8. Chain(g, x, p, e, b, s \o h, <<>>) = Given(n, FALSE) \o h
    BY <2>2, <2>7 DEF Pushes
  <2>9. Given(n, TRUE) = Given(n, FALSE) \o h
    BY <2>4, GivenFacts DEF h
  <2> QED
    BY <2>5, <2>6, <2>8, <2>9 DEF g, x, p, e, b, s
<1> HIDE DEF m
<1> QED
  BY <1>1, <1>2, <1>5, <1>6, <1>7, <1>8, <1>9, <1>10, RelayKeeps

(* A relay that ends, either way, keeps the invariant. *)
LEMMA DropRelayKeeps ==
    ASSUME StackInv, NEW f \in Flows, NEW eof \in BOOLEAN, DropRelay(f, eof), app[f].conn = "ok"
    PROVE  StackInv'
<1> DEFINE a == app[f]
           z == pc = "ended" \/ Len(dataIn) = QueueCap
           a2 == [a EXCEPT !.gone = TRUE, !.eof = eof, !.hand = <<>>,
                           !.reserved = FALSE, !.wait = 0, !.queue = <<>>]
           d == CloseMsg(f)
           m == IF z THEN <<>> ELSE <<d>>
<1>1. /\ a \in Relays /\ Reserved(a, credit[f]) /\ credit[f] \in Credits
      /\ credit = [credit EXCEPT ![f] = credit[f]]
  BY RelayNow
<1>2. /\ app' = [app EXCEPT ![f] = a2]
      /\ RelayUnchanged /\ UNCHANGED <<cmds, credit>>
  BY DEF DropRelay
<1>3. Len(dataIn) \in Nat /\ Len(dataIn) <= QueueCap /\ dataIn \in Seq(Chunk)
  BY DEF StackInv, StackTypes, Queues
<1>4. d \in Chunk /\ d.id = f
  BY Messages
<1>5. dataIn' = dataIn \o m
  <2>1. dataIn' = IF z THEN dataIn ELSE Append(dataIn, d)
    BY DEF DropRelay
  <2> HIDE DEF d, z
  <2> QED
    BY <1>3, <1>4, <2>1, ConcatEmptySeq, AppendIsConcat
<1>6. a2 \in Relays
  <2>1. <<>> \in UpSeq /\ <<>> \in Seq(1..RecvBuf) /\ Len(<<>>) <= AppCap
        /\ 0 \in 0..CreditWait
    BY EmptySeq, Sizes DEF UpSeq
  <2> QED
    BY <1>1, <2>1 DEF Relays
<1>7. a2.conn = "ok" /\ a2.gone = TRUE /\ a2.read = a.read /\ a2.hand = <<>> /\ ~a2.reserved
  BY <1>1 DEF Relays
<1> HIDE DEF a2
<1>8. Reserved(a2, credit[f]) /\ NothingRead(a2)
  <2> DEFINE n == credit[f].sent
             r == a.read
             l == Len(a.hand)
  <2>1. n \in Nat /\ r \in Nat /\ l \in Nat /\ n + (IF a.reserved THEN 0 ELSE l) <= r
    <3>1. n \in 0..UpBytes /\ r \in 0..UpBytes /\ a.hand \in UpSeq
      BY <1>1 DEF Relays, Credits
    <3>2. l \in Nat
      BY <3>1, LenProperties DEF UpSeq
    <3>3. n + (IF a.reserved THEN 0 ELSE l) <= r
      BY <1>1 DEF Reserved
    <3> HIDE DEF n, r, l
    <3> QED
      BY <3>1, <3>2, <3>3, Sizes
  <2> HIDE DEF n, r, l
  <2>2. n <= r
    BY <2>1
  <2>3. credit[f].sent + Len(<<>>) <= a.read
    BY <2>1, <2>2, EmptySeq DEF n, r
  <2> QED
    BY <1>7, <2>3 DEF Reserved, NothingRead
<1>9. m \in Seq(Chunk)
      /\ (m = <<>> \/ \E y \in Chunk : y.id = f /\ m = <<y>> /\ Len(dataIn) < QueueCap)
  <2>1. CASE z
    BY <2>1, EmptySeq
  <2>2. CASE ~z
    <3>1. m = <<d>> /\ Len(dataIn) < QueueCap
      BY <1>3, <2>2, Sizes
    <3> HIDE DEF d, m
    <3> QED
      BY <1>4, <3>1, StreamOne DEF Queues
  <2> QED
    BY <2>1, <2>2
<1>10. ~Counted(tcp[f], a2, Around(f))
  BY <1>7 DEF Counted
<1> HIDE DEF m
<1> QED
  BY <1>1, <1>2, <1>5, <1>6, <1>7, <1>8, <1>9, <1>10, RelayKeeps

(* A flow that was never asked for is asked for, or refused at once. *)
LEMMA AskStep ==
    ASSUME NEW t, NEW k, NEW a, NEW c, NEW x, FlowInv(t, k, a, c, x), a.conn = "none",
           NEW a2, NEW x2, a2.read = a.read, a2.hand = a.hand, a2.up_done = a.up_done,
           a2.reserved = a.reserved, a2.gone = a.gone,
           x2.got = x.got, x2.fin = x.fin, x2.quiet = x.quiet, x2.broken = x.broken,
           x2.stage = x.stage, x2.backlog = x.backlog, x2.dataIn = x.dataIn,
           \/ a2.conn = "wait" /\ x.stage # "ended"
           \/ a2.conn = "error" /\ x2.asked = x.asked
    PROVE  FlowInv(t, k, a2, c, x2)
<1>1. ~t.live /\ ~x.asked /\ ~x.broken
  BY DEF FlowInv, Opened
<1>2. Opened(t, k, a2, x2)
  BY <1>1 DEF FlowInv, Opened
<1>3. NothingRead(a2) /\ FinLast(t, k, a2)
  BY DEF FlowInv, NothingRead, FinLast
<1>4. UploadWhole(t, k, a2, x2)
  <2>1. Counted(t, a, x)
    BY DEF Counted
  <2>2. Chain(x.got, k.tx, t.pending, t.half_closed, x.backlog, x.dataIn, a.hand)
          = Given(a.read, a.up_done)
    BY <2>1 DEF FlowInv, UploadWhole
  <2> QED
    BY <2>2 DEF UploadWhole
<1>5. AckCount(t, k, x2) /\ AgesFollow(t, k, x2) /\ JustServiced(t, k, a2, x2)
  BY <1>1 DEF AckCount, AgesFollow, JustServiced
<1>6. EndedByPeer(k, a2, x2) /\ Reserved(a2, c)
  BY DEF FlowInv, EndedByPeer, Reserved
<1> QED
  BY <1>2, <1>3, <1>4, <1>5, <1>6 DEF FlowInv

(* Asking for a connection, or being refused one, keeps the invariant. *)
LEMMA OpenTcpKeeps == ASSUME StackInv, NEW f \in Flows, OpenTcp(f) PROVE StackInv'
<1>1. StackTypes /\ FlowInv(tcp[f], sock[f], app[f], credit[f], Around(f)) /\ app[f] \in Relays
  BY RelayNow DEF StackInv
<1>2. /\ pc' = pc /\ backlog' = backlog /\ tcp' = tcp /\ sock' = sock /\ peer' = peer
      /\ quiet' = quiet /\ broken' = broken /\ dataIn' = dataIn /\ credit' = credit
      /\ app[f].conn = "none"
  BY DEF OpenTcp, RelayUnchanged
<1>3. PICK v \in {"wait", "error"} :
        /\ app' = [app EXCEPT ![f].conn = v]
        /\ v = "error" => cmds' = cmds
        /\ v = "wait" => pc # "ended" /\ \E c \in BOOLEAN : cmds' = cmds \cup {[id |-> f, carrier |-> c]}
  BY DEF OpenTcp
<1> DEFINE a2 == [app[f] EXCEPT !.conn = v]
<1>4. a2 \in Relays /\ app' = [app EXCEPT ![f] = a2]
  <2>1. v \in {"none", "wait", "ok", "error"}
    OBVIOUS
  <2> QED
    BY <1>1, <1>3, <2>1 DEF Relays
<1>5. /\ cmds' \in SUBSET [id : Flows, carrier : BOOLEAN]
      /\ \A h \in Flows : h # f => (Asks(cmds', h) <=> Asks(cmds, h))
      /\ Single(cmds')
  <2>0. Single(cmds) /\ ~Asks(cmds, f)
    <3>1. FlowInv(tcp[f], sock[f], app[f], credit[f], Around(f))
      BY <1>1
    <3>2. ~Around(f).asked
      BY <1>2, <3>1 DEF FlowInv, Opened
    <3> QED
      BY <1>1, <3>2 DEF Around, StackTypes
  <2>1. CASE v = "error"
    BY <1>1, <1>3, <2>0, <2>1 DEF StackTypes
  <2>2. CASE v = "wait"
    <3>1. PICK c \in BOOLEAN : cmds' = cmds \cup {[id |-> f, carrier |-> c]}
      BY <1>3, <2>2
    <3>2. Single(cmds')
      BY <2>0, <3>1 DEF Single, Asks
    <3> QED
      BY <1>1, <3>1, <3>2 DEF StackTypes, Asks
  <2> QED
    BY <2>1, <2>2
<1>6. StackTypes'
  <2>1. app' \in [Flows -> Relays]
    BY <1>1, <1>4 DEF StackTypes
  <2> QED
    BY <1>1, <1>2, <1>5, <2>1 DEF StackTypes
<1>7. ASSUME NEW h \in Flows, h # f PROVE Untouched(h)
  <2>1. app'[h] = app[h] /\ app[h] = app[h]
    BY <1>1, <1>4, <1>7 DEF StackTypes
  <2>2. Around(h)' = Around(h)
    <3>1. Asks(cmds', h) = Asks(cmds, h)
      BY <1>5, <1>7 DEF Asks
    <3> QED
      BY <1>2, <3>1 DEF Around
  <2> QED
    BY <1>2, <2>1, <2>2 DEF Untouched
<1>8. FlowInv(tcp[f], sock[f], app[f], credit[f], Around(f))'
  <2> DEFINE x == Around(f)
             x2 == Around(f)'
             a == app[f]
             t == tcp[f]
             k == sock[f]
             c == credit[f]
  <2>1. app'[f] = a2 /\ tcp'[f] = t /\ sock'[f] = k /\ credit'[f] = c
    BY <1>1, <1>2, <1>4 DEF StackTypes
  <2>2. /\ x2.got = x.got /\ x2.fin = x.fin /\ x2.quiet = x.quiet /\ x2.broken = x.broken
        /\ x2.stage = x.stage /\ x2.backlog = x.backlog /\ x2.dataIn = x.dataIn
        /\ x.stage = pc
    BY <1>2 DEF Around
  <2>3. v = "error" => x2.asked = x.asked
    BY <1>3 DEF Around, Asks
  <2>4. /\ a2.read = a.read /\ a2.hand = a.hand /\ a2.up_done = a.up_done
        /\ a2.reserved = a.reserved /\ a2.gone = a.gone /\ a2.conn = v
    BY <1>1 DEF Relays
  <2>5. FlowInv(t, k, a, c, x) /\ a.conn = "none"
    BY <1>1, <1>2
  <2>6. \/ a2.conn = "wait" /\ x.stage # "ended"
        \/ a2.conn = "error" /\ x2.asked = x.asked
    BY <1>3, <2>2, <2>3, <2>4
  <2> HIDE DEF x, x2, a, a2, t, k, c
  <2>7. FlowInv(t, k, a2, c, x2)
    BY <2>2, <2>4, <2>5, <2>6, AskStep
  <2> QED
    BY <2>1, <2>7 DEF x2, t, k, c
<1> QED
  BY <1>6, <1>7, <1>8, OneFlow

-----------------------------------------------------------------------------
(* The far ends.                                                           *)

Peers == [got : UpSeq, sent : 0..DownBytes, fin : BOOLEAN]

(* What is around flow f once its far end is p, silent for q ticks, and    *)
(* has reset it or not.                                                    *)
Beside(f, p, q, z) ==
    [got |-> p.got, fin |-> p.fin, backlog |-> Stream(backlog, f),
     dataIn |-> Stream(dataIn, f), quiet |-> q, broken |-> (f \in broken \/ z),
     asked |-> Asks(cmds, f), stage |-> pc]

(* A step of the peer only has to keep the invariant of its flow. *)
LEMMA PeerKeeps ==
    ASSUME StackInv, NEW f \in Flows, NEW k2 \in Sockets, NEW p2 \in Peers,
           NEW q2 \in 0..StallReset, NEW z \in BOOLEAN, PeerUnchanged,
           sock' = [sock EXCEPT ![f] = k2], peer' = [peer EXCEPT ![f] = p2],
           quiet' = [quiet EXCEPT ![f] = q2],
           broken' = IF z THEN broken \cup {f} ELSE broken,
           FlowInv(tcp[f], k2, app[f], credit[f], Beside(f, p2, q2, z))
    PROVE  StackInv'
<1>1. StackTypes
  BY DEF StackInv
<1>2. /\ pc' = pc /\ cmds' = cmds /\ dataIn' = dataIn /\ backlog' = backlog /\ tcp' = tcp
      /\ credit' = credit /\ app' = app
  BY DEF PeerUnchanged
<1>3. StackTypes'
  <2>1. sock' \in [Flows -> Sockets]
    BY <1>1 DEF StackTypes
  <2>2. peer' \in [Flows -> Peers]
    BY <1>1 DEF StackTypes, Peers
  <2>3. quiet' \in [Flows -> 0..StallReset] /\ broken' \in SUBSET Flows
    BY <1>1 DEF StackTypes
  <2> QED
    BY <1>1, <1>2, <2>1, <2>2, <2>3 DEF StackTypes, Peers
<1>4. ASSUME NEW h \in Flows, h # f PROVE Untouched(h)
  <2>1. sock'[h] = sock[h] /\ peer'[h] = peer[h] /\ quiet'[h] = quiet[h]
        /\ (h \in broken') = (h \in broken)
    BY <1>1, <1>4 DEF StackTypes
  <2>2. Around(h)' = Around(h)
    BY <1>2, <2>1 DEF Around, Asks
  <2> QED
    BY <1>2, <2>1, <2>2 DEF Untouched
<1>5. /\ sock'[f] = k2 /\ peer'[f] = p2 /\ quiet'[f] = q2
      /\ (f \in broken') = (f \in broken \/ z)
  BY <1>1 DEF StackTypes
<1>6. Around(f)' = Beside(f, p2, q2, z)
  BY <1>2, <1>5 DEF Around, Beside, Asks
<1>7. FlowInv(tcp[f], sock[f], app[f], credit[f], Around(f))'
  BY <1>2, <1>5, <1>6
<1> QED
  BY <1>3, <1>4, <1>7, OneFlow

(* A socket changes its state, the far end takes no bytes. *)
Moves(k, x, k2, x2) ==
    \/ k2.state = k.state /\ x2.fin = x.fin /\ x2.broken = x.broken
    \/ k.state = "SynSent" /\ k2.state = "Established" /\ x2.fin = x.fin /\ x2.broken = x.broken
    \/ k.state # "none" /\ k2.state = "Closed" /\ x2.fin = x.fin /\ x2.broken
    \/ /\ <<k.state, k2.state>> \in {<<"FinWait", "FinWait2">>, <<"Closing", "TimeWait">>,
                                     <<"LastAck", "Closed">>}
       /\ x2.fin = x.fin /\ x2.broken = x.broken
    \/ /\ <<k.state, k2.state>> \in {<<"Established", "CloseWait">>, <<"FinWait", "Closing">>,
                                     <<"FinWait2", "TimeWait">>}
       /\ x2.fin /\ x2.broken = x.broken

(* A move of the socket's state alone, between passes, keeps the invariant of its flow. *)
LEMMA PeerMoves ==
    ASSUME NEW t, NEW k, NEW a, NEW c, NEW x, FlowInv(t, k, a, c, x), x.stage = "poll",
           NEW k2, NEW x2, k2.tx = k.tx, Moves(k, x, k2, x2), k.state # "none",
           x2.got = x.got, x2.quiet = x.quiet, x2.stage = x.stage, x2.asked = x.asked,
           x2.backlog = x.backlog, x2.dataIn = x.dataIn
    PROVE  FlowInv(t, k2, a, c, x2)
<1>1. t.live
  BY DEF FlowInv, Opened, NoSocket
<1>2. Opened(t, k2, a, x2)
  <2>1. /\ x2.stage # "ended" /\ a.conn = (IF t.established THEN "ok" ELSE "wait")
        /\ x2.asked => a.conn = "wait" /\ ~t.live
    BY <1>1 DEF FlowInv, Opened
  <2>2. k2.state # "none" /\ (x2.broken => k2.state \in {"Closed", "none"})
    BY DEF FlowInv, Opened, Moves
  <2>3. /\ ~t.established =>
          /\ k2.state \in {"none", "SynSent", "Established", "CloseWait", "Closed"}
          /\ t.send_queue_high = 0
        /\ t.established => k2.state # "SynSent"
    BY DEF FlowInv, Opened, Moves
  <2> QED
    BY <1>1, <2>1, <2>2, <2>3 DEF Opened
<1>3. NothingRead(a) /\ Reserved(a, c)
  BY DEF FlowInv
<1>4. UploadWhole(t, k2, a, x2)
  <2>1. Counted(t, a, x2) => Counted(t, a, x)
    BY DEF Counted, Moves, FlowInv, Opened
  <2> QED
    BY <2>1 DEF FlowInv, UploadWhole
<1>5. FinLast(t, k2, a)
  BY DEF FlowInv, FinLast, Moves, FinStates
<1>6. AckCount(t, k2, x2) /\ AgesFollow(t, k2, x2)
  BY DEF FlowInv, AckCount, AgesFollow
<1>7. EndedByPeer(k2, a, x2)
  BY DEF FlowInv, EndedByPeer, Moves
<1>8. JustServiced(t, k2, a, x2)
  BY DEF JustServiced
<1> QED
  BY <1>2, <1>3, <1>4, <1>5, <1>6, <1>7, <1>8 DEF FlowInv

(* The same, for the whole state. *)
LEMMA PeerMovesKeep ==
    ASSUME StackInv, NEW f \in Flows, pc = "poll", PeerUnchanged, UNCHANGED quiet,
           NEW k2 \in Sockets, NEW p2 \in Peers, NEW z \in BOOLEAN,
           sock' = [sock EXCEPT ![f] = k2], peer' = [peer EXCEPT ![f] = p2],
           broken' = IF z THEN broken \cup {f} ELSE broken,
           k2.tx = sock[f].tx, p2.got = peer[f].got, sock[f].state # "none",
           Moves(sock[f], Around(f), k2, Beside(f, p2, quiet[f], z))
    PROVE  StackInv'
<1> DEFINE x == Around(f)
           x2 == Beside(f, p2, quiet[f], z)
<1>1. StackTypes /\ FlowInv(tcp[f], sock[f], app[f], credit[f], x)
  BY DEF StackInv
<1>2. quiet[f] \in 0..StallReset /\ quiet' = [quiet EXCEPT ![f] = quiet[f]]
  BY <1>1 DEF StackTypes
<1>3. /\ x2.got = x.got /\ x2.quiet = x.quiet /\ x2.stage = x.stage /\ x2.asked = x.asked
      /\ x2.backlog = x.backlog /\ x2.dataIn = x.dataIn /\ x.stage = "poll"
  BY DEF Around, Beside
<1>4. FlowInv(tcp[f], k2, app[f], credit[f], x2)
  <2> HIDE DEF x, x2
  <2>1. Moves(sock[f], x, k2, x2)
    BY DEF x, x2
  <2> QED
    BY <1>1, <1>3, <2>1, PeerMoves
<1> QED
  BY <1>2, <1>4, PeerKeeps

(* The parts of flow f before a step of its far end. *)
LEMMA PeerNow ==
    ASSUME StackInv, NEW f \in Flows
    PROVE  /\ sock[f] \in Sockets /\ peer[f] \in Peers /\ quiet[f] \in 0..StallReset
           /\ sock[f].state \in SockStates /\ sock[f].tx \in UpSeq /\ Len(sock[f].tx) <= SendBuf
           /\ sock[f].rx \in 0..RecvBuf
           /\ peer[f].got \in UpSeq /\ peer[f].sent \in 0..DownBytes /\ peer[f].fin \in BOOLEAN
           /\ sock \in [Flows -> Sockets] /\ peer \in [Flows -> Peers]
           /\ peer = [peer EXCEPT ![f] = peer[f]]
<1>1. sock \in [Flows -> Sockets] /\ peer \in [Flows -> Peers] /\ quiet \in [Flows -> 0..StallReset]
  BY DEF StackInv, StackTypes, Peers
<1>2. sock[f] \in Sockets /\ peer[f] \in Peers /\ quiet[f] \in 0..StallReset
      /\ peer = [peer EXCEPT ![f] = peer[f]]
  BY <1>1
<1> QED
  BY <1>1, <1>2 DEF Sockets, Peers

(* The peer's SYN-ACK keeps the invariant. *)
LEMMA PeerAcceptsKeeps == ASSUME StackInv, NEW f \in Flows, PeerAccepts(f) PROVE StackInv'
<1> DEFINE k == sock[f]
           k2 == [k EXCEPT !.state = "Established"]
<1>1. k2 \in Sockets /\ k2.tx = k.tx /\ k2.state = "Established"
  BY PeerNow DEF Sockets, SockStates
<1>2. k.state = "SynSent" /\ pc = "poll" /\ PeerUnchanged /\ UNCHANGED <<peer, quiet, broken>>
      /\ sock' = [sock EXCEPT ![f] = k2]
  BY DEF PeerAccepts
<1>3. Moves(k, Around(f), k2, Beside(f, peer[f], quiet[f], FALSE))
  <2> HIDE DEF k2
  <2> QED
    BY <1>1, <1>2 DEF Moves, Beside, Around
<1> HIDE DEF k2
<1> QED
  BY <1>1, <1>2, <1>3, PeerNow, PeerMovesKeep

(* The peer's RST keeps the invariant. *)
LEMMA PeerResetsKeeps == ASSUME StackInv, NEW f \in Flows, PeerResets(f) PROVE StackInv'
<1> DEFINE k == sock[f]
           k2 == [k EXCEPT !.state = "Closed"]
<1>1. k2 \in Sockets /\ k2.tx = k.tx /\ k2.state = "Closed"
  BY PeerNow DEF Sockets, SockStates
<1>2. k.state # "none" /\ pc = "poll" /\ PeerUnchanged /\ UNCHANGED <<peer, quiet>>
      /\ sock' = [sock EXCEPT ![f] = k2] /\ broken' = broken \cup {f}
  BY DEF PeerResets
<1>3. Moves(k, Around(f), k2, Beside(f, peer[f], quiet[f], TRUE))
  <2> HIDE DEF k2
  <2> QED
    BY <1>1, <1>2 DEF Moves, Beside, Around
<1> HIDE DEF k2
<1> QED
  BY <1>1, <1>2, <1>3, PeerNow, PeerMovesKeep

(* The acknowledgement of a FIN keeps the invariant. *)
LEMMA PeerAcksFinKeeps == ASSUME StackInv, NEW f \in Flows, PeerAcksFin(f) PROVE StackInv'
<1> DEFINE k == sock[f]
<1>1. PICK v \in {"FinWait2", "TimeWait", "Closed"} :
        /\ <<k.state, v>> \in {<<"FinWait", "FinWait2">>, <<"Closing", "TimeWait">>,
                               <<"LastAck", "Closed">>}
        /\ sock' = [sock EXCEPT ![f].state = v]
  BY DEF PeerAcksFin
<1> DEFINE k2 == [k EXCEPT !.state = v]
<1>2. k2 \in Sockets /\ k2.tx = k.tx /\ k2.state = v
  <2>1. v \in SockStates
    BY DEF SockStates
  <2> QED
    BY <2>1, PeerNow DEF Sockets
<1>3. k.state # "none" /\ pc = "poll" /\ PeerUnchanged /\ UNCHANGED <<peer, quiet, broken>>
      /\ sock' = [sock EXCEPT ![f] = k2]
  BY <1>1 DEF PeerAcksFin
<1>4. Moves(k, Around(f), k2, Beside(f, peer[f], quiet[f], FALSE))
  <2> HIDE DEF k2
  <2> QED
    BY <1>1, <1>2 DEF Moves, Beside, Around
<1> HIDE DEF k2
<1> QED
  BY <1>2, <1>3, <1>4, PeerNow, PeerMovesKeep

(* The peer's FIN keeps the invariant. *)
LEMMA PeerFinsKeeps == ASSUME StackInv, NEW f \in Flows, PeerFins(f) PROVE StackInv'
<1> DEFINE k == sock[f]
           p2 == [peer[f] EXCEPT !.fin = TRUE]
<1>1. PICK v \in {"CloseWait", "Closing", "TimeWait"} :
        /\ <<k.state, v>> \in {<<"Established", "CloseWait">>, <<"FinWait", "Closing">>,
                               <<"FinWait2", "TimeWait">>}
        /\ sock' = [sock EXCEPT ![f].state = v]
  BY DEF PeerFins
<1> DEFINE k2 == [k EXCEPT !.state = v]
<1>2. k2 \in Sockets /\ k2.tx = k.tx /\ k2.state = v
  <2>1. v \in SockStates
    BY DEF SockStates
  <2> QED
    BY <2>1, PeerNow DEF Sockets
<1>3. k.state # "none" /\ pc = "poll" /\ PeerUnchanged /\ UNCHANGED <<quiet, broken>>
      /\ sock' = [sock EXCEPT ![f] = k2] /\ peer' = [peer EXCEPT ![f] = p2]
  BY <1>1 DEF PeerFins
<1>4. p2 \in Peers /\ p2.got = peer[f].got /\ p2.fin = TRUE
  BY PeerNow DEF Peers
<1>5. Moves(k, Around(f), k2, Beside(f, p2, quiet[f], FALSE))
  <2> DEFINE x2 == Beside(f, p2, quiet[f], FALSE)
  <2> HIDE DEF k2, p2
  <2>1. x2.fin = p2.fin /\ x2.broken = Around(f).broken
    BY DEF Beside, Around
  <2> HIDE DEF x2
  <2>2. Moves(k, Around(f), k2, x2)
    BY <1>1, <1>2, <1>4, <2>1 DEF Moves
  <2> QED
    BY <2>2 DEF x2
<1> HIDE DEF k2, p2
<1> QED
  BY <1>2, <1>3, <1>4, <1>5, PeerNow, PeerMovesKeep

(* Data of the peer keeps the invariant. *)
LEMMA PeerSendsKeeps == ASSUME StackInv, NEW f \in Flows, PeerSends(f) PROVE StackInv'
<1> DEFINE k == sock[f]
           n == k.rx + 1
           m == peer[f].sent + 1
           k2 == [k EXCEPT !.rx = n]
           p2 == [peer[f] EXCEPT !.sent = m]
<1>1. k.state # "none" /\ pc = "poll" /\ PeerUnchanged /\ UNCHANGED <<quiet, broken>>
      /\ sock' = [sock EXCEPT ![f] = k2] /\ peer' = [peer EXCEPT ![f] = p2]
      /\ k.rx < RecvBuf /\ peer[f].sent < DownBytes
  BY DEF PeerSends
<1>2. n \in 0..RecvBuf /\ m \in 0..DownBytes
  <2> DEFINE i == k.rx
             j == peer[f].sent
  <2>1. i \in 0..RecvBuf /\ j \in 0..DownBytes /\ i < RecvBuf /\ j < DownBytes
    BY <1>1, PeerNow
  <2> HIDE DEF i, j
  <2>2. i + 1 \in 0..RecvBuf /\ j + 1 \in 0..DownBytes
    BY <2>1, Sizes
  <2> QED
    BY <2>2 DEF i, j
<1> HIDE DEF n, m
<1>3. k2 \in Sockets /\ k2.tx = k.tx /\ k2.state = k.state
  BY <1>2, PeerNow DEF Sockets
<1>4. p2 \in Peers /\ p2.got = peer[f].got /\ p2.fin = peer[f].fin
  BY <1>2, PeerNow DEF Peers
<1>5. Moves(k, Around(f), k2, Beside(f, p2, quiet[f], FALSE))
  <2> HIDE DEF k2, p2
  <2> QED
    BY <1>1, <1>3, <1>4 DEF Moves, Beside, Around
<1> HIDE DEF k2, p2
<1> QED
  BY <1>1, <1>3, <1>4, <1>5, PeerNow, PeerMovesKeep

(* The far end takes the first bytes of the send buffer. *)
LEMMA AckStep ==
    ASSUME NEW t \in TcpState, NEW k, NEW a, NEW c, NEW x, FlowInv(t, k, a, c, x),
           x.stage = "poll", k.state # "none",
           NEW u \in Bytes, NEW v \in Bytes, Len(u) > 0, Len(v) < SendBuf,
           x.got \in Bytes, k.tx = u \o v,
           NEW k2, NEW x2, k2.state = k.state, k2.tx = v, x2.got = x.got \o u,
           x2.fin = x.fin, x2.broken = x.broken, x2.stage = x.stage, x2.asked = x.asked,
           x2.backlog = x.backlog, x2.dataIn = x.dataIn
    PROVE  FlowInv(t, k2, a, c, x2)
<1>1. t.live
  BY DEF FlowInv, Opened, NoSocket
<1>2. Opened(t, k2, a, x2) /\ NothingRead(a) /\ Reserved(a, c)
  BY <1>1 DEF FlowInv, Opened
<1>3. UploadWhole(t, k2, a, x2)
  <2>1. Counted(t, a, x2) => Counted(t, a, x)
    BY DEF Counted
  <2> DEFINE g == x.got
             p == t.pending
             e == t.half_closed
             b == x.backlog
             d == x.dataIn
             h == a.hand
  <2>2. Counted(t, a, x) => Chain(g, u \o v, p, e, b, d, h) = Given(a.read, a.up_done)
    BY DEF FlowInv, UploadWhole
  <2>3. g \in Bytes
    OBVIOUS
  <2> HIDE DEF g, p, e, b, d, h
  <2>4. Chain(g, u \o v, p, e, b, d, h) = Chain(g \o u, v, p, e, b, d, h)
    BY <2>3, ChainAcks
  <2> QED
    BY <2>1, <2>2, <2>4 DEF UploadWhole, g, p, e, b, d, h
<1>4. FinLast(t, k2, a)
  BY DEF FlowInv, FinLast
<1>5. t.accepted = Len(x2.got) + Len(k2.tx) /\ t.acked_high < Len(x2.got)
      /\ Len(k2.tx) # SendBuf
  <2>1. t.accepted = Len(x.got) + Len(u \o v) /\ t.acked_high <= Len(x.got)
    BY <1>1 DEF FlowInv, AckCount
  <2> DEFINE g == x.got
             n == t.accepted
             m == t.acked_high
  <2>2. g \in Bytes /\ n \in Nat /\ m \in Nat
    BY DEF TcpState
  <2>3. n = Len(g) + Len(u \o v) /\ m <= Len(g)
    BY <2>1
  <2> HIDE DEF g, n, m
  <2>4. /\ Len(g \o u) = Len(g) + Len(u) /\ Len(u \o v) = Len(u) + Len(v)
        /\ Len(g) \in Nat /\ Len(u) \in Nat /\ Len(v) \in Nat
    BY <2>2, ByteSeqs
  <2>5. n = Len(g \o u) + Len(v) /\ m < Len(g \o u) /\ Len(v) # SendBuf
    BY <2>2, <2>3, <2>4, Sizes
  <2> QED
    BY <2>5 DEF g, n, m
<1>6. t.acked_high \in Nat /\ Len(x2.got) \in Nat
  <2>1. x2.got \in Bytes
    BY ByteSeqs
  <2> QED
    BY <2>1, ByteSeqs DEF TcpState
<1>7. t.acked_high <= Len(x2.got) /\ ~(Len(x2.got) <= t.acked_high)
  BY <1>5, <1>6
<1>8. AckCount(t, k2, x2) /\ AgesFollow(t, k2, x2)
  BY <1>5, <1>7 DEF AckCount, AgesFollow
<1>9. EndedByPeer(k2, a, x2) /\ JustServiced(t, k2, a, x2)
  BY DEF FlowInv, EndedByPeer, JustServiced
<1> QED
  BY <1>2, <1>3, <1>4, <1>8, <1>9 DEF FlowInv

(* The acknowledgement of data keeps the invariant: the bytes move from the socket to the peer. *)
LEMMA PeerAcksKeeps == ASSUME StackInv, NEW f \in Flows, PeerAcks(f) PROVE StackInv'
<1> DEFINE k == sock[f]
<1>1. PICK n \in 1..Len(k.tx) :
        /\ peer' = [peer EXCEPT ![f].got = @ \o SubSeq(k.tx, 1, n)]
        /\ sock' = [sock EXCEPT ![f].tx = SubSeq(@, n + 1, Len(@))]
  BY DEF PeerAcks
<1> DEFINE u == SubSeq(k.tx, 1, n)
           v == SubSeq(k.tx, n + 1, Len(k.tx))
           g == peer[f].got \o u
           k2 == [k EXCEPT !.tx = v]
           p2 == [peer[f] EXCEPT !.got = g]
<1>2. /\ k.state # "none" /\ pc = "poll" /\ PeerUnchanged /\ broken' = broken
      /\ quiet' = [quiet EXCEPT ![f] = 0]
  BY DEF PeerAcks
<1>3. sock' = [sock EXCEPT ![f] = k2] /\ peer' = [peer EXCEPT ![f] = p2]
  BY <1>1
<1>4. /\ u \in UpSeq /\ v \in UpSeq /\ k.tx = u \o v /\ g \in UpSeq
      /\ Len(u) = n /\ Len(v) < Len(k.tx) /\ Len(v) \in Nat
  <2> DEFINE y == k.tx
             p == peer[f].got
  <2>1. y \in UpSeq /\ p \in UpSeq /\ n \in 1..Len(y)
    BY PeerNow
  <2> HIDE DEF y, p
  <2>2. Len(y) \in Nat /\ n \in 0..Len(y) /\ n > 0
    BY <2>1, LenProperties DEF UpSeq
  <2>3. SplitAt(p, y, n) /\ SplitAt(<<>>, y, n)
    <3>1. <<>> \in UpSeq
      BY EmptySeq DEF UpSeq
    <3> QED
      BY <2>1, <2>2, <3>1, Split
  <2> DEFINE y1 == SubSeq(y, 1, n)
             y2 == SubSeq(y, n + 1, Len(y))
  <2>4. y1 \in UpSeq /\ y2 \in UpSeq /\ Len(y2) = Len(y) - n /\ y = y1 \o y2
        /\ p \o y1 \in UpSeq
    BY <2>3 DEF SplitAt
  <2>5. Len(y1) = n
    BY <2>1, <2>2 DEF UpSeq
  <2>6. Len(y2) < Len(y) /\ Len(y2) \in Nat
    <3> DEFINE l == Len(y)
               l2 == Len(y2)
    <3>1. l \in Nat /\ n \in 0..l /\ n > 0 /\ l2 = l - n
      BY <2>2, <2>4
    <3> HIDE DEF l, l2
    <3>2. l2 < l /\ l2 \in Nat
      BY <3>1
    <3> QED
      BY <3>2 DEF l, l2
  <2> QED
    BY <2>4, <2>5, <2>6 DEF y, p
<1>5. u \in Bytes /\ v \in Bytes /\ Len(u) > 0 /\ Len(v) < SendBuf
  <2>1. Len(v) < SendBuf
    <3> DEFINE i == Len(v)
               j == Len(k.tx)
    <3>1. i \in Nat /\ j \in Nat /\ i < j /\ j <= SendBuf
      BY <1>4, PeerNow, LenProperties DEF UpSeq
    <3> HIDE DEF i, j
    <3>2. i < SendBuf
      BY <3>1, Sizes
    <3> QED
      BY <3>2 DEF i
  <2>2. u \in Bytes /\ v \in Bytes
    BY <1>4, UpSeqBytes
  <2>3. n > 0 /\ Len(u) = n
    <3> HIDE DEF u
    <3> QED
      BY <1>4
  <2> QED
    BY <2>1, <2>2, <2>3
<1> HIDE DEF u, v, g
<1>6. k2 \in Sockets /\ k2.tx = v /\ k2.state = k.state
  <2>1. v \in UpSeq /\ Len(v) <= SendBuf
    BY <1>4, <1>5, Sizes
  <2> QED
    BY <2>1, PeerNow DEF Sockets
<1>7. p2 \in Peers /\ p2.got = g /\ p2.fin = peer[f].fin
  BY <1>4, PeerNow DEF Peers
<1>8. 0 \in 0..StallReset
  BY Sizes
<1> DEFINE x == Around(f)
           x2 == Beside(f, p2, 0, FALSE)
<1> HIDE DEF k2, p2
<1>9. /\ x2.got = x.got \o u /\ x2.fin = x.fin /\ x2.broken = x.broken /\ x2.stage = x.stage
      /\ x2.asked = x.asked /\ x2.backlog = x.backlog /\ x2.dataIn = x.dataIn
      /\ x.stage = "poll"
  BY <1>2, <1>7 DEF Around, Beside, g
<1>10. x.got \in Bytes /\ tcp[f] \in TcpState /\ FlowInv(tcp[f], k, app[f], credit[f], x)
  <2>1. peer[f].got \in Bytes /\ tcp[f] \in TcpState
    BY FlowTypes DEF StackInv
  <2> QED
    BY <2>1 DEF Around, StackInv
<1>11. k.tx = u \o v /\ k.state # "none"
  BY <1>2, <1>4
<1> HIDE DEF x, x2, k
<1>12. FlowInv(tcp[f], k2, app[f], credit[f], x2)
  BY <1>5, <1>6, <1>9, <1>10, <1>11, AckStep
<1>13. FlowInv(tcp[f], k2, app[f], credit[f], Beside(f, p2, 0, FALSE))
  BY <1>12 DEF x2
<1> QED
  BY <1>2, <1>3, <1>6, <1>7, <1>8, <1>13, PeerKeeps

-----------------------------------------------------------------------------
(* The loop.                                                               *)

(* No socket is a socket record, empty. *)
LEMMA NoSockets == NoSocket \in Sockets /\ NoSocket.tx = <<>> /\ NoSocket.state = "none"
<1>1. <<>> \in UpSeq /\ Len(<<>>) <= SendBuf /\ 0 \in 0..RecvBuf
  BY EmptySeq, Sizes DEF UpSeq
<1> QED
  BY <1>1 DEF NoSocket, Sockets, SockStates

(* The records of a flow just opened and of one removed. *)
LEMMA NewStates ==
    /\ NewTcpState \in TcpState /\ NoTcpState \in TcpState
    /\ NoTcpState.live = FALSE /\ NoTcpState.established = FALSE /\ NoTcpState.half_closed = FALSE
    /\ NoTcpState.pending = <<>> /\ NoTcpState.send_queue_high = 0
    /\ Len(NoTcpState.pending) <= PendingMax
<1>1. <<>> \in UpSeq /\ Len(<<>>) = 0 /\ Len(<<>>) <= PendingMax
  BY EmptySeq, Sizes DEF UpSeq
<1>2. /\ 0 \in Nat /\ 0 \in 0..SendBuf /\ 0 \in 0..FlapLimit /\ 0 \in 0..StallReset
      /\ 0 \in 0..Wedge /\ 0 \in 0..Linger /\ 0 \in 0..ConnectLimit
  BY Sizes
<1>3. NewTcpState \in TcpState
  BY <1>1, <1>2 DEF NewTcpState, TcpState
<1>4. NoTcpState = [NewTcpState EXCEPT !.live = FALSE]
  BY DEF NoTcpState
<1>5. /\ NewTcpState.established = FALSE /\ NewTcpState.half_closed = FALSE
      /\ NewTcpState.pending = <<>> /\ NewTcpState.send_queue_high = 0
  BY DEF NewTcpState
<1>6. /\ NoTcpState \in TcpState /\ NoTcpState.live = FALSE
      /\ NoTcpState.established = FALSE /\ NoTcpState.half_closed = FALSE
      /\ NoTcpState.pending = <<>> /\ NoTcpState.send_queue_high = 0
  BY <1>3, <1>4, <1>5 DEF TcpState
<1> QED
  BY <1>1, <1>3, <1>6

(* The poll that starts a pass keeps the invariant. *)
LEMMA PollKeeps == ASSUME StackInv, Poll PROVE StackInv'
<1>1. /\ pc = "poll" /\ pc' = "service"
      /\ UNCHANGED <<cmds, dataIn, backlog, tcp, sock, credit, app, peer, quiet, broken>>
  BY DEF Poll
<1>2. StackTypes'
  BY <1>1 DEF StackInv, StackTypes, Stages
<1>3. ASSUME NEW f \in Flows PROVE FlowInv(tcp[f], sock[f], app[f], credit[f], Around(f))'
  <2> DEFINE x == Around(f)
             x2 == Around(f)'
             t == tcp[f]
             k == sock[f]
             a == app[f]
             c == credit[f]
  <2>1. FlowInv(t, k, a, c, x)
    BY DEF StackInv
  <2>2. /\ x2.got = x.got /\ x2.fin = x.fin /\ x2.quiet = x.quiet /\ x2.broken = x.broken
        /\ x2.asked = x.asked /\ x2.backlog = x.backlog /\ x2.dataIn = x.dataIn
        /\ x2.stage = "service"
    BY <1>1 DEF Around, Asks
  <2> HIDE DEF x, x2, t, k, a, c
  <2>3. Opened(t, k, a, x2) /\ NothingRead(a) /\ FinLast(t, k, a) /\ Reserved(a, c)
    BY <2>1, <2>2 DEF FlowInv, Opened
  <2>4. UploadWhole(t, k, a, x2)
    <3>1. Counted(t, a, x2) => Counted(t, a, x)
      BY <2>2 DEF Counted
    <3> QED
      BY <2>1, <2>2, <3>1 DEF FlowInv, UploadWhole
  <2>5. AckCount(t, k, x2) /\ EndedByPeer(k, a, x2) /\ AgesFollow(t, k, x2)
    BY <2>1, <2>2 DEF FlowInv, AckCount, EndedByPeer, AgesFollow
  <2>6. JustServiced(t, k, a, x2)
    BY <2>2 DEF JustServiced
  <2>7. FlowInv(t, k, a, c, x2)
    BY <2>3, <2>4, <2>5, <2>6 DEF FlowInv
  <2> QED
    BY <1>1, <2>7 DEF x2, t, k, a, c
<1> QED
  BY <1>2, <1>3 DEF StackInv

(* The end of the netstack task keeps the invariant: no flow is left. *)
LEMMA ShutdownKeeps == ASSUME StackInv, Shutdown PROVE StackInv'
<1>1. /\ pc' = "ended" /\ cmds' = {} /\ dataIn' = <<>> /\ backlog' = <<>>
      /\ tcp' = [f \in Flows |-> NoTcpState] /\ sock' = [f \in Flows |-> NoSocket]
      /\ app' = [f \in Flows |->
                   [app[f] EXCEPT !.conn = IF @ = "wait" THEN "error" ELSE @]]
      /\ UNCHANGED <<credit, peer, quiet, broken>>
  BY DEF Shutdown
<1> DEFINE a2(f) == [app[f] EXCEPT !.conn = IF @ = "wait" THEN "error" ELSE @]
<1>2. ASSUME NEW f \in Flows
      PROVE  /\ a2(f) \in Relays /\ a2(f).conn = (IF app[f].conn = "wait" THEN "error" ELSE app[f].conn)
             /\ a2(f).read = app[f].read /\ a2(f).hand = app[f].hand /\ a2(f).gone = app[f].gone
             /\ a2(f).up_done = app[f].up_done /\ a2(f).reserved = app[f].reserved
  <2>1. app[f] \in Relays
    BY RelayNow
  <2> QED
    BY <2>1 DEF Relays
<1>3. StackTypes'
  <2>1. tcp' \in Tables
    BY <1>1, NewStates DEF Tables
  <2>2. sock' \in [Flows -> Sockets]
    BY <1>1, NoSockets
  <2>3. app' \in [Flows -> Relays]
    BY <1>1, <1>2
  <2>4. dataIn' \in Queues /\ Len(dataIn') <= QueueCap /\ backlog' \in Queues
    BY <1>1, EmptySeq, Sizes DEF Queues
  <2>5. pc' \in Stages /\ cmds' \in SUBSET [id : Flows, carrier : BOOLEAN] /\ Single(cmds')
    BY <1>1 DEF Stages, Single
  <2> QED
    BY <1>1, <2>1, <2>2, <2>3, <2>4, <2>5 DEF StackInv, StackTypes
<1>4. ASSUME NEW f \in Flows PROVE FlowInv(tcp[f], sock[f], app[f], credit[f], Around(f))'
  <2> DEFINE x == Around(f)
             x2 == Around(f)'
             t == tcp[f]
             t2 == NoTcpState
             k == sock[f]
             k2 == NoSocket
             a == app[f]
             b == a2(f)
             c == credit[f]
  <2>1. FlowInv(t, k, a, c, x)
    BY DEF StackInv
  <2>2. /\ x2.got = x.got /\ x2.fin = x.fin /\ x2.quiet = x.quiet /\ x2.broken = x.broken
        /\ x2.asked = FALSE /\ x2.backlog = <<>> /\ x2.dataIn = <<>>
        /\ x2.stage = "ended"
    <3>1. Stream(<<>>, f) = <<>>
      <4>1. <<>> \in Queues
        BY EmptySeq DEF Queues
      <4> QED
        BY <4>1, StreamType
    <3> QED
      BY <1>1, <3>1 DEF Around, Asks
  <2>3. /\ b.conn = (IF a.conn = "wait" THEN "error" ELSE a.conn)
        /\ b.read = a.read /\ b.hand = a.hand /\ b.gone = a.gone
        /\ b.up_done = a.up_done /\ b.reserved = a.reserved
    BY <1>2
  <2>4. tcp'[f] = t2 /\ sock'[f] = k2 /\ app'[f] = b /\ credit'[f] = c
    BY <1>1
  <2>5. /\ t2.live = FALSE /\ t2.established = FALSE /\ t2.half_closed = FALSE
        /\ t2.pending = <<>> /\ t2.send_queue_high = 0
        /\ k2.tx = <<>> /\ k2.state = "none" /\ t2 = NoTcpState /\ k2 = NoSocket
    BY NewStates, NoSockets
  <2>6. /\ x.got \in Bytes /\ k.tx \in Bytes /\ t.pending \in Bytes /\ t.half_closed \in BOOLEAN
        /\ x.backlog \in Bytes /\ x.dataIn \in Bytes /\ a.hand \in Bytes
    BY FlowTypes DEF StackInv, Around
  <2> HIDE DEF x, x2, t, k, a, c, b, t2, k2
  <2>7. Opened(t2, k2, b, x2) /\ NothingRead(b) /\ FinLast(t2, k2, b) /\ Reserved(b, c)
    BY <2>1, <2>2, <2>3, <2>5 DEF FlowInv, Opened, NothingRead, FinLast, FinStates, Reserved
  <2>8. UploadWhole(t2, k2, b, x2)
    <3> SUFFICES ASSUME Counted(t2, b, x2)
                 PROVE  Chain(x2.got, k2.tx, t2.pending, t2.half_closed, x2.backlog, x2.dataIn, b.hand)
                          = Given(b.read, b.up_done)
      BY DEF UploadWhole
    <3>1. a.conn = "none"
      BY <2>3, <2>5 DEF Counted
    <3>2. a.read = 0 /\ ~a.up_done /\ Counted(t, a, x)
      BY <2>1, <3>1 DEF FlowInv, NothingRead, Counted
    <3>3. Given(a.read, a.up_done) = <<>>
      <4>1. Given(0, FALSE) = <<>> /\ Mark(a.up_done) = Mark(FALSE) /\ a.read = 0
        BY <3>2, GivenFacts DEF Mark
      <4> QED
        BY <4>1 DEF Given
    <3> DEFINE v == x.got
               w == t.half_closed
               y == x.backlog
               z == x.dataIn
    <3>4. Chain(v, k.tx, t.pending, w, y, z, a.hand) = <<>>
      BY <2>1, <3>2, <3>3 DEF FlowInv, UploadWhole
    <3>5. v = <<>> /\ a.hand = <<>>
      <4> DEFINE kt == k.tx
                 tp == t.pending
                 ah == a.hand
      <4>1. v \in Bytes /\ kt \in Bytes /\ tp \in Bytes /\ w \in BOOLEAN
            /\ y \in Bytes /\ z \in Bytes /\ ah \in Bytes
        BY <2>6
      <4>2. Chain(v, kt, tp, w, y, z, ah) = <<>>
        BY <3>4
      <4> HIDE DEF kt, tp, ah, v, w, y, z
      <4>3. v = <<>> /\ ah = <<>>
        BY <4>1, <4>2, ChainEmpty
      <4> QED
        BY <4>3 DEF ah
    <3>6. Chain(<<>>, <<>>, <<>>, FALSE, <<>>, <<>>, <<>>) = <<>>
      <4>1. <<>> \in Bytes /\ <<>> \o <<>> = <<>>
        BY ByteSeqs, EmptySeq DEF Bytes
      <4> QED
        BY <4>1, MarkIs DEF Chain
    <3> QED
      BY <2>2, <2>3, <2>5, <3>3, <3>5, <3>6
  <2>9. AckCount(t2, k2, x2) /\ EndedByPeer(k2, b, x2) /\ AgesFollow(t2, k2, x2)
        /\ JustServiced(t2, k2, b, x2)
    BY <2>5 DEF AckCount, EndedByPeer, AgesFollow, JustServiced
  <2>10. FlowInv(t2, k2, b, c, x2)
    BY <2>7, <2>8, <2>9 DEF FlowInv
  <2> QED
    BY <2>4, <2>10 DEF x2
<1> QED
  BY <1>3, <1>4 DEF StackInv

-----------------------------------------------------------------------------
(* service_tcp(), stage by stage.                                          *)

B(t, k, a, c, z) == [t |-> t, k |-> k, a |-> a, c |-> c, reset |-> z]

(* How much of pending the send buffer takes. *)
Fits(t, k) ==
    IF Len(t.pending) <= SendBuf - Len(k.tx) THEN Len(t.pending) ELSE SendBuf - Len(k.tx)

\* A flow after n of its pending bytes went to the socket.
FedTcp(t, n) ==
    [t EXCEPT !.progress_age = 0, !.accepted = t.accepted + n,
              !.pending = SubSeq(t.pending, n + 1, Len(t.pending))]

\* The socket that took them.
FedSock(t, k, n) == [k EXCEPT !.tx = k.tx \o SubSeq(t.pending, 1, n)]

(* Feed, field by field. *)
LEMMA FeedIs ==
    ASSUME NEW t, NEW k, NEW a, NEW c, NEW z
    PROVE  Feed(B(t, k, a, c, z)) =
             IF t.pending = <<>> THEN B([t EXCEPT !.progress_age = 0], k, a, c, z)
             ELSE IF CanSend(k) THEN B(FedTcp(t, Fits(t, k)), FedSock(t, k, Fits(t, k)), a, c, z)
             ELSE B(t, k, a, c, z)
<1> DEFINE n == Fits(t, k)
<1> DEFINE b == B(t, k, a, c, z)
<1>1. b.t = t /\ b.k = k /\ b.a = a /\ b.c = c /\ b.reset = z
  BY DEF B
<1>2. CASE t.pending = <<>>
  <2>1. Feed(b) = [b EXCEPT !.t.progress_age = 0]
    BY <1>1, <1>2 DEF Feed
  <2> QED
    BY <1>2, <2>1 DEF B
<1>3. CASE t.pending # <<>> /\ CanSend(k)
  <2>1. Feed(b) = [b EXCEPT !.t.progress_age = 0, !.t.accepted = @ + n,
                       !.t.pending = SubSeq(@, n + 1, Len(@)),
                       !.k.tx = @ \o SubSeq(t.pending, 1, n)]
    BY <1>1, <1>3 DEF Feed, Fits
  <2> HIDE DEF n
  <2>2. Feed(b) = B(FedTcp(t, n), FedSock(t, k, n), a, c, z)
    BY <1>3, <2>1 DEF B, FedTcp, FedSock
  <2> QED
    BY <1>3, <2>2 DEF n
<1>4. CASE t.pending # <<>> /\ ~CanSend(k)
  BY <1>1, <1>4 DEF Feed
<1> QED
  BY <1>2, <1>3, <1>4

(* The parts of the liveness check. *)
AckedOf(t, k) == t.accepted - Len(k.tx)

\* The socket drained since the last pass.
Drains(t, k) == k.tx = <<>> \/ AckedOf(t, k) > t.acked_high

\* This pass counts a new stall.
StallsNow(t, k) == ~Drains(t, k) /\ ~t.warned /\ t.drain_age >= StallWarn

\* The stalls counted after this pass.
StallCount(t, k, expired) ==
    IF ~StallsNow(t, k) THEN t.stalls ELSE IF expired THEN 1 ELSE Aged(t.stalls, FlapLimit)

\* A flow after its drain was checked.
CheckedTcp(t, k, expired) ==
    IF Drains(t, k)
    THEN [t EXCEPT !.drain_age = 0, !.acked_high = AckedOf(t, k), !.warned = FALSE,
                   !.send_queue_high = Len(k.tx)]
    ELSE [t EXCEPT !.warned = t.warned \/ StallsNow(t, k), !.stalls = StallCount(t, k, expired),
                   !.send_queue_high = Len(k.tx)]

\* Its budget after that.
CheckedCredit(t, k, c, cap) ==
    [c EXCEPT !.acked = IF AckedOf(t, k) > c.acked THEN AckedOf(t, k) ELSE c.acked, !.cap = cap]

\* The check decides that the flow is flapping.
ResetsNow(t, k, expired) ==
    StallsNow(t, k) /\ StallCount(t, k, expired) >= FlapLimit /\ ~t.carrier

(* CheckDrain, field by field. *)
LEMMA CheckDrainIs ==
    ASSUME NEW t, NEW k, NEW a, NEW c, NEW z, NEW expired, NEW cap
    PROVE  CheckDrain(B(t, k, a, c, z), expired, cap) =
             B(CheckedTcp(t, k, expired), k, a, CheckedCredit(t, k, c, cap), ResetsNow(t, k, expired))
<1> DEFINE b == B(t, k, a, c, z)
           m == AckedOf(t, k)
           draining == Drains(t, k)
           stall == StallsNow(t, k)
           stalls == StallCount(t, k, expired)
           t1 == IF draining THEN [t EXCEPT !.drain_age = 0, !.acked_high = m, !.warned = FALSE]
                 ELSE [t EXCEPT !.warned = t.warned \/ stall, !.stalls = stalls]
           r == ResetsNow(t, k, expired)
<1>1. b.t = t /\ b.k = k /\ b.a = a /\ b.c = c /\ b.reset = z
  BY DEF B
<1>2. Acked(b) = m /\ Draining(b) = draining
  BY <1>1 DEF Acked, Draining, Drains, AckedOf
<1>3. /\ stall = (~draining /\ ~t.warned /\ t.drain_age >= StallWarn)
      /\ stalls = (IF ~stall THEN t.stalls ELSE IF expired THEN 1 ELSE Aged(t.stalls, FlapLimit))
      /\ r = (stall /\ stalls >= FlapLimit /\ ~t.carrier)
  BY DEF StallsNow, StallCount, ResetsNow
<1>4. [t1 EXCEPT !.send_queue_high = Len(k.tx)] = CheckedTcp(t, k, expired)
  BY DEF CheckedTcp
<1>5. CheckDrain(b, expired, cap) =
        [b EXCEPT !.t = [t1 EXCEPT !.send_queue_high = Len(k.tx)],
                  !.c.acked = IF m > @ THEN m ELSE @,
                  !.c.cap = cap,
                  !.reset = r]
  <2> HIDE DEF b, m, draining, stall, stalls, r
  <2> QED
    BY <1>1, <1>2, <1>3 DEF CheckDrain
<1> DEFINE t2 == [t1 EXCEPT !.send_queue_high = Len(k.tx)]
<1> HIDE DEF r, t1, m
<1>6. CheckDrain(b, expired, cap) =
        B(t2, k, a, [c EXCEPT !.acked = IF m > c.acked THEN m ELSE c.acked, !.cap = cap], r)
  <2> HIDE DEF t2
  <2>1. CheckDrain(b, expired, cap) =
        [b EXCEPT !.t = t2, !.c.acked = IF m > @ THEN m ELSE @, !.c.cap = cap, !.reset = r]
    BY <1>5 DEF t2
  <2> QED
    BY <2>1 DEF B
<1> QED
  BY <1>4, <1>6 DEF r, CheckedCredit, m

\* A flow that was reset for flapping.
ResetTcp(t) == [t EXCEPT !.pending = <<>>, !.stalls = 0, !.warned = FALSE]

\* A budget that was closed.
ClosedCredit(c) == [c EXCEPT !.closed = TRUE]

(* FlapReset, field by field. *)
LEMMA FlapResetIs ==
    ASSUME NEW t, NEW k, NEW a, NEW c
    PROVE  /\ FlapReset(B(t, k, a, c, TRUE)) =
                B(ResetTcp(t), SockAbort(k), a, ClosedCredit(c), TRUE)
           /\ FlapReset(B(t, k, a, c, FALSE)) = B(t, k, a, c, FALSE)
<1> DEFINE b == B(t, k, a, c, TRUE)
           d == B(t, k, a, c, FALSE)
           j == SockAbort(k)
<1>1. b.t = t /\ b.k = k /\ b.c = c /\ b.reset = TRUE /\ d.reset = FALSE
  BY DEF B
<1> HIDE DEF j
<1>2. FlapReset(b) = [b EXCEPT !.t.pending = <<>>, !.t.stalls = 0, !.t.warned = FALSE,
                               !.c.closed = TRUE, !.k = j]
  <2> HIDE DEF b
  <2> QED
    BY <1>1 DEF FlapReset, j
<1>3. FlapReset(b) = B(ResetTcp(t), j, a, ClosedCredit(c), TRUE)
  BY <1>2 DEF B, ResetTcp, ClosedCredit
<1>4. FlapReset(d) = d
  <2> HIDE DEF d
  <2> QED
    BY <1>1 DEF FlapReset
<1> QED
  BY <1>3, <1>4 DEF j

(* HalfClose closes the socket only when the upload has ended and all of it was fed. *)
LEMMA HalfCloseIs ==
    ASSUME NEW t, NEW k, NEW a, NEW c, NEW z
    PROVE  \/ HalfClose(B(t, k, a, c, z)) = B(t, k, a, c, z)
           \/ /\ t.half_closed /\ t.pending = <<>>
              /\ HalfClose(B(t, k, a, c, z)) = B(t, SockClose(k), a, c, z)
<1> DEFINE b == B(t, k, a, c, z)
           j == SockClose(k)
<1>1. b.t = t /\ b.k = k
  BY DEF B
<1>2. CASE t.half_closed /\ t.pending = <<>>
  <2>1. HalfClose(b) = [b EXCEPT !.k = j]
    <3> HIDE DEF b
    <3> QED
      BY <1>1, <1>2 DEF HalfClose
  <2> HIDE DEF j
  <2>2. HalfClose(b) = B(t, j, a, c, z)
    BY <2>1 DEF B
  <2> QED
    BY <1>2, <2>2 DEF j
<1>3. CASE ~(t.half_closed /\ t.pending = <<>>)
  <2> HIDE DEF b
  <2>1. HalfClose(b) = b
    BY <1>1, <1>3 DEF HalfClose
  <2> QED
    BY <2>1 DEF b
<1> QED
  BY <1>2, <1>3

\* A relay whose queue took what the socket received.
Handed(a, k) == [a EXCEPT !.queue = Append(a.queue, k.rx)]

\* The socket that gave it.
Emptied(k) == [k EXCEPT !.rx = 0]

(* Deliver hands over what was received, when there is any and room for it. *)
LEMMA DeliverIs ==
    ASSUME NEW t, NEW k, NEW a, NEW c, NEW z
    PROVE  \/ Deliver(B(t, k, a, c, z)) = B(t, k, a, c, z)
           \/ /\ Len(a.queue) < AppCap /\ k.rx > 0
              /\ Deliver(B(t, k, a, c, z)) = B(t, Emptied(k), Handed(a, k), c, z)
<1> DEFINE b == B(t, k, a, c, z)
           v == Append(a.queue, k.rx)
<1>1. b.a = a /\ b.k = k
  BY DEF B
<1>2. CASE ~a.gone /\ Len(a.queue) < AppCap /\ k.rx > 0
  <2>1. Deliver(b) = [b EXCEPT !.a.queue = v, !.k.rx = 0]
    <3> HIDE DEF b
    <3> QED
      BY <1>1, <1>2 DEF Deliver
  <2> HIDE DEF v
  <2>2. Deliver(b) = B(t, [k EXCEPT !.rx = 0], [a EXCEPT !.queue = v], c, z)
    BY <2>1 DEF B
  <2>3. Deliver(b) = B(t, Emptied(k), Handed(a, k), c, z)
    BY <2>2 DEF v, Emptied, Handed
  <2> QED
    BY <1>2, <2>3
<1>3. CASE ~(~a.gone /\ Len(a.queue) < AppCap /\ k.rx > 0)
  <2> HIDE DEF b
  <2>1. Deliver(b) = b
    BY <1>1, <1>3 DEF Deliver
  <2> QED
    BY <2>1 DEF b
<1> QED
  BY <1>2, <1>3

(* Removed, field by field. *)
LEMMA RemovedIs ==
    ASSUME NEW t, NEW k, NEW a, NEW c, NEW z
    PROVE  Removed(B(t, k, a, c, z)) = B(NoTcpState, NoSocket, a, ClosedCredit(c), z)
<1> DEFINE b == B(t, k, a, c, z)
<1>1. Removed(b) = [b EXCEPT !.t = NoTcpState, !.k = NoSocket, !.c.closed = TRUE]
  BY DEF Removed
<1> QED
  BY <1>1 DEF B, ClosedCredit

(* Settle removes the flow, answers the peer's FIN, or does nothing. *)
LEMMA SettleIs ==
    ASSUME NEW t, NEW k, NEW a, NEW c, NEW z
    PROVE  \/ Settle(B(t, k, a, c, z)) = B(NoTcpState, NoSocket, a, ClosedCredit(c), z)
           \/ /\ k.state = "CloseWait"
              /\ Settle(B(t, k, a, c, z)) = B(t, SockClose(k), a, c, z)
           \/ Settle(B(t, k, a, c, z)) = B(t, k, a, c, z)
<1> DEFINE b == B(t, k, a, c, z)
           j == SockClose(k)
<1>1. b.k = k
  BY DEF B
<1>2. [b EXCEPT !.k = SockClose(@)] = B(t, j, a, c, z)
  <2>1. [b EXCEPT !.k = SockClose(@)] = [b EXCEPT !.k = j]
    BY <1>1
  <2> HIDE DEF j
  <2> QED
    BY <2>1 DEF B
<1>3. Removed(b) = B(NoTcpState, NoSocket, a, ClosedCredit(c), z)
  BY RemovedIs
<1> HIDE DEF b
<1>4. Settle(b) = IF k.state \in {"Closed", "TimeWait"} THEN Removed(b)
                  ELSE IF k.state = "CloseWait" THEN [b EXCEPT !.k = SockClose(@)]
                  ELSE b
  BY <1>1 DEF Settle
<1> HIDE DEF j
<1>5. CASE k.state \in {"Closed", "TimeWait"}
  BY <1>3, <1>4, <1>5 DEF b
<1>6. CASE k.state = "CloseWait"
  BY <1>2, <1>4, <1>6 DEF b, j
<1>7. CASE k.state \notin {"Closed", "TimeWait", "CloseWait"}
  <2>1. Settle(b) = b
    BY <1>4, <1>7
  <2> QED
    BY <2>1 DEF b
<1> QED
  BY <1>5, <1>6, <1>7

\* A flow whose relay is gone.
OrphanTcp(t, v) == [t EXCEPT !.orphaned = TRUE, !.aborted = v]

(* Orphan aborts the socket, or closes it and settles. *)
LEMMA OrphanIs ==
    ASSUME NEW t \in TcpState, NEW k, NEW a, NEW c, NEW z
    PROVE  \/ Orphan(B(t, k, a, c, z)) = B(OrphanTcp(t, TRUE), SockAbort(k), a, c, z)
           \/ Orphan(B(t, k, a, c, z)) = Settle(B(OrphanTcp(t, t.aborted), SockClose(k), a, c, z))
<1> DEFINE b == B(t, k, a, c, z)
           j == SockClose(k)
           l == SockAbort(k)
           t1 == [t EXCEPT !.orphaned = TRUE]
           t2 == OrphanTcp(t, TRUE)
<1>1. b.k = k /\ b.t = t
  BY DEF B
<1>2. \/ Orphan(b) = [b EXCEPT !.t.orphaned = TRUE, !.t.aborted = TRUE, !.k = l]
      \/ Orphan(b) = Settle([b EXCEPT !.t.orphaned = TRUE, !.k = j])
  <2> HIDE DEF b
  <2> QED
    BY <1>1 DEF Orphan
<1> HIDE DEF j, l
<1>3. ASSUME NEW y, y = [b EXCEPT !.t.orphaned = TRUE, !.k = j]
      PROVE  y = B(t1, j, a, c, z)
  BY <1>3 DEF B
<1>4. ASSUME NEW y, y = [b EXCEPT !.t.orphaned = TRUE, !.t.aborted = TRUE, !.k = l]
      PROVE  y = B(t2, l, a, c, z)
  BY <1>4 DEF B, OrphanTcp
<1>5. t1 = OrphanTcp(t, t.aborted)
  BY DEF OrphanTcp, TcpState
<1> HIDE DEF b, t1, t2
<1>6. CASE Orphan(b) = [b EXCEPT !.t.orphaned = TRUE, !.t.aborted = TRUE, !.k = l]
  <2>1. Orphan(b) = B(t2, l, a, c, z)
    BY <1>4, <1>6
  <2> QED
    BY <2>1 DEF b, t2, l
<1>7. CASE Orphan(b) = Settle([b EXCEPT !.t.orphaned = TRUE, !.k = j])
  <2>1. Orphan(b) = Settle(B(t1, j, a, c, z))
    BY <1>3, <1>7
  <2> QED
    BY <1>5, <2>1 DEF b, j
<1> QED
  BY <1>2, <1>6, <1>7

\* A relay that was told how its connection attempt ended.
Answered(a, v) == [a EXCEPT !.conn = IF a.conn = "wait" THEN v ELSE a.conn]

\* A flow whose connection was established.
EstablishedTcp(t) == [t EXCEPT !.established = TRUE, !.connect_age = 0]

(* Answer, field by field. *)
LEMMA AnswerIs ==
    ASSUME NEW t, NEW k, NEW a, NEW c, NEW z, NEW v
    PROVE  Answer(B(t, k, a, c, z), v) = B(t, k, Answered(a, v), c, z)
<1> DEFINE b == B(t, k, a, c, z)
           w == IF a.conn = "wait" THEN v ELSE a.conn
<1>1. Answer(b, v) = [b EXCEPT !.a.conn = w]
  <2>1. b.a = a
    BY DEF B
  <2> HIDE DEF b
  <2> QED
    BY <2>1 DEF Answer
<1> HIDE DEF w
<1>2. [b EXCEPT !.a.conn = w] = B(t, k, [a EXCEPT !.conn = w], c, z)
  BY DEF B
<1>4. [a EXCEPT !.conn = w] = Answered(a, v)
  BY DEF Answered, w
<1> HIDE DEF b
<1>6. Answer(b, v) = B(t, k, Answered(a, v), c, z)
  BY <1>1, <1>2, <1>4
<1> QED
  BY <1>6 DEF b

\* The update of ServiceTcp for a connection just established.
Establish(b) == [b EXCEPT !.t.established = TRUE, !.t.connect_age = 0]

(* That update, field by field. *)
LEMMA EstablishIs ==
    ASSUME NEW t, NEW k, NEW a, NEW c, NEW z
    PROVE  Establish(B(t, k, a, c, z)) = B(EstablishedTcp(t), k, a, c, z)
<1>1. ASSUME NEW y, y = [B(t, k, a, c, z) EXCEPT !.t.established = TRUE, !.t.connect_age = 0]
      PROVE  y = B(EstablishedTcp(t), k, a, c, z)
  BY <1>1 DEF B, EstablishedTcp
<1> QED
  BY <1>1 DEF Establish

(* A flow in service: all of the invariant but what the liveness check     *)
(* is about.                                                               *)
TcpFlows == {t \in TcpState : Len(t.pending) <= PendingMax}

\* The part of a flow's invariant that holds at every point of a pass.
Standing(t, k, a, c, x) ==
    /\ t \in TcpFlows /\ k \in Sockets /\ a \in Relays /\ c \in Credits /\ x \in Surroundings
    /\ Opened(t, k, a, x) /\ NothingRead(a) /\ UploadWhole(t, k, a, x) /\ FinLast(t, k, a)
    /\ AckCount(t, k, x) /\ Reserved(a, c) /\ EndedByPeer(k, a, x)

\* A flow whose connection is up, in the service stage.
Up(t, k, a, c, x) ==
    /\ Standing(t, k, a, c, x) /\ t.live /\ t.established /\ x.stage = "service"

(* Before the liveness check; a flow that has just come up has no bytes. *)
Unjudged(t, k, x) == AgesFollow(t, k, x) \/ (k.tx = <<>> /\ t.pending = <<>>)

(* After it. *)
Judged(t, k, a, x) ==
    /\ Len(x.got) <= t.acked_high /\ t.send_queue_high = Len(k.tx)
    /\ Fed(t, k, a, x) /\ AgesFollow(t, k, x)
    /\ k.tx = <<>> => t.drain_age = 0

(* Numbers of a flow in service. *)
LEMMA UpSizes ==
    ASSUME NEW t, NEW k, NEW a, NEW c, NEW x, Up(t, k, a, c, x)
    PROVE  /\ Len(k.tx) \in Nat /\ Len(k.tx) <= SendBuf /\ Len(t.pending) \in Nat
           /\ Len(t.pending) <= PendingMax
           /\ Len(x.got) \in Nat /\ t.accepted \in Nat /\ t.acked_high \in Nat
           /\ t.accepted = Len(x.got) + Len(k.tx) /\ t.acked_high <= Len(x.got)
           /\ t.drain_age \in 0..StallReset /\ t.progress_age \in 0..Wedge
           /\ x.quiet \in 0..StallReset /\ t.stalls \in 0..FlapLimit
           /\ k.tx \in UpSeq /\ t.pending \in UpSeq /\ k.tx \in Bytes /\ t.pending \in Bytes
           /\ x.got \in Bytes /\ t.warned \in BOOLEAN /\ t.carrier \in BOOLEAN
           /\ c.acked \in Nat /\ a.conn = "ok" /\ ~x.asked /\ x.broken \in BOOLEAN
           /\ 0 <= x.quiet + 1
<1>1. /\ t \in TcpState /\ Len(t.pending) <= PendingMax /\ k \in Sockets /\ x \in Surroundings
      /\ c \in Credits /\ AckCount(t, k, x) /\ Opened(t, k, a, x) /\ t.live /\ t.established
  BY DEF Up, Standing, TcpFlows
<1>2. k.tx \in UpSeq /\ t.pending \in UpSeq /\ x.got \in Bytes /\ Len(k.tx) <= SendBuf
      /\ x.broken \in BOOLEAN
  BY <1>1 DEF TcpState, Sockets, Surroundings
<1>3. k.tx \in Bytes /\ t.pending \in Bytes
  BY <1>2, UpSeqBytes
<1>4. Len(k.tx) \in Nat /\ Len(t.pending) \in Nat /\ Len(x.got) \in Nat
  BY <1>2, <1>3, LenProperties DEF Bytes
<1>5. t.accepted = Len(x.got) + Len(k.tx) /\ t.acked_high <= Len(x.got)
  BY <1>1 DEF AckCount
<1>6. a.conn = "ok" /\ ~x.asked
  BY <1>1 DEF Opened
<1>7. /\ t.accepted \in Nat /\ t.acked_high \in Nat /\ t.drain_age \in 0..StallReset
      /\ t.progress_age \in 0..Wedge /\ x.quiet \in 0..StallReset /\ t.stalls \in 0..FlapLimit
      /\ t.warned \in BOOLEAN /\ t.carrier \in BOOLEAN /\ c.acked \in Nat
  BY <1>1 DEF TcpState, Surroundings, Credits
<1>8. 0 <= x.quiet + 1
  <2> DEFINE q == x.quiet
  <2>1. q \in 0..StallReset
    BY <1>7
  <2> HIDE DEF q
  <2>2. 0 <= q + 1
    BY <2>1, Sizes
  <2> QED
    BY <2>2 DEF q
<1> QED
  BY <1>1, <1>2, <1>3, <1>4, <1>5, <1>6, <1>7, <1>8

(* Only the fields the conjuncts name matter to them. *)
LEMMA UpAfter ==
    ASSUME NEW t, NEW k, NEW a, NEW c, NEW x, Up(t, k, a, c, x),
           NEW t2 \in TcpFlows, NEW k2 \in Sockets, NEW c2 \in Credits,
           t2.live = t.live, t2.established = t.established, t2.half_closed = t.half_closed,
           k2.state = k.state, c2.sent = c.sent,
           AckCount(t2, k2, x), UploadWhole(t2, k2, a, x), FinLast(t2, k2, a)
    PROVE  Up(t2, k2, a, c2, x)
<1>1. Opened(t2, k2, a, x)
  BY DEF Up, Standing, Opened
<1>2. Reserved(a, c2) /\ EndedByPeer(k2, a, x)
  BY DEF Up, Standing, Reserved, EndedByPeer
<1> QED
  BY <1>1, <1>2 DEF Up, Standing

\* What Feed guarantees.
FeedGood(t, k, a, c, x, z) ==
    \E t2, k2 : /\ Feed(B(t, k, a, c, z)) = B(t2, k2, a, c, z)
                /\ Up(t2, k2, a, c, x) /\ Unjudged(t2, k2, x) /\ Fed(t2, k2, a, x)
                /\ t2.carrier = t.carrier

(* Feeding moves bytes from pending to the socket and keeps the invariant of the flow. *)
LEMMA FeedKeeps ==
    ASSUME NEW t, NEW k, NEW a, NEW c, NEW x, NEW z, Up(t, k, a, c, x), Unjudged(t, k, x)
    PROVE  FeedGood(t, k, a, c, x, z)
<1> SUFFICES \E t2, k2 : /\ Feed(B(t, k, a, c, z)) = B(t2, k2, a, c, z)
                         /\ Up(t2, k2, a, c, x) /\ Unjudged(t2, k2, x) /\ Fed(t2, k2, a, x)
                         /\ t2.carrier = t.carrier
  BY DEF FeedGood
<1> DEFINE n == Fits(t, k)
<1>1. /\ t \in TcpFlows /\ t \in TcpState /\ k \in Sockets /\ c \in Credits /\ x \in Surroundings
      /\ UploadWhole(t, k, a, x) /\ FinLast(t, k, a) /\ AckCount(t, k, x) /\ Opened(t, k, a, x)
      /\ EndedByPeer(k, a, x) /\ t.live /\ t.established
  BY DEF Up, Standing, TcpFlows
<1>2. 0 \in 0..Wedge /\ SendBuf \in Nat /\ SendBuf > 0
  BY Sizes
<1>3. CASE t.pending = <<>>
  <2> DEFINE t2 == [t EXCEPT !.progress_age = 0]
  <2>1. Feed(B(t, k, a, c, z)) = B(t2, k, a, c, z)
    BY <1>3, FeedIs
  <2>2. t2 \in TcpFlows
    BY <1>1, <1>2 DEF TcpFlows, TcpState
  <2>3. /\ t2.live = t.live /\ t2.established = t.established /\ t2.half_closed = t.half_closed
        /\ t2.pending = t.pending /\ t2.accepted = t.accepted /\ t2.acked_high = t.acked_high
        /\ t2.drain_age = t.drain_age /\ t2.progress_age = 0 /\ t2.carrier = t.carrier
    BY <1>1 DEF TcpState
  <2> HIDE DEF t2
  <2>4. AckCount(t2, k, x) /\ UploadWhole(t2, k, a, x) /\ FinLast(t2, k, a)
    <3>1. Counted(t2, a, x) => Counted(t, a, x)
      BY <2>3 DEF Counted
    <3> QED
      BY <1>1, <2>3, <3>1 DEF AckCount, UploadWhole, FinLast
  <2>5. Up(t2, k, a, c, x)
    BY <1>1, <2>2, <2>3, <2>4, UpAfter
  <2>6. 0 <= x.quiet + 1
    BY UpSizes
  <2>7. Unjudged(t2, k, x) /\ Fed(t2, k, a, x)
    BY <2>3, <2>6 DEF Unjudged, AgesFollow, Fed
  <2> QED
    BY <2>1, <2>3, <2>5, <2>7
<1>4. CASE t.pending # <<>> /\ CanSend(k)
  <2> DEFINE p == t.pending
             y == k.tx
             p1 == SubSeq(p, 1, n)
             p2 == SubSeq(p, n + 1, Len(p))
             w == y \o p1
             m == t.accepted + n
             t2 == [t EXCEPT !.progress_age = 0, !.accepted = m, !.pending = p2]
             k2 == [k EXCEPT !.tx = w]
  <2>1. Feed(B(t, k, a, c, z)) = B(t2, k2, a, c, z)
    <3>1. Feed(B(t, k, a, c, z)) = B(FedTcp(t, n), FedSock(t, k, n), a, c, z)
      <4>1. Feed(B(t, k, a, c, z)) =
              IF t.pending = <<>> THEN B([t EXCEPT !.progress_age = 0], k, a, c, z)
              ELSE IF CanSend(k) THEN B(FedTcp(t, n), FedSock(t, k, n), a, c, z)
              ELSE B(t, k, a, c, z)
        BY FeedIs, Zenon
      <4> HIDE DEF n
      <4> QED
        BY <1>4, <4>1, Zenon
    <3> HIDE DEF n
    <3> QED
      BY <3>1 DEF FedTcp, FedSock
  <2>2. /\ p \in UpSeq /\ y \in UpSeq /\ Len(p) \in Nat /\ Len(y) \in Nat /\ Len(y) <= SendBuf
        /\ Len(p) <= PendingMax /\ t.accepted \in Nat /\ t.acked_high \in Nat
        /\ t.accepted = Len(x.got) + Len(y) /\ Len(x.got) \in Nat
    BY UpSizes
  <2>3. n \in 0..Len(p) /\ Len(y) + n <= SendBuf /\ n \in Nat
    <3> DEFINE i == Len(p)
               j == Len(y)
    <3>1. i \in Nat /\ j \in Nat /\ j <= SendBuf /\ n = IF i <= SendBuf - j THEN i ELSE SendBuf - j
      BY <2>2 DEF Fits
    <3> HIDE DEF i, j, n
    <3>2. n \in 0..i /\ j + n <= SendBuf /\ n \in Nat
      BY <1>2, <3>1
    <3> QED
      BY <3>2 DEF i, j
  <2> HIDE DEF n, p, y
  <2>4. SplitAt(y, p, n)
    BY <2>2, <2>3, Split
  <2>5. /\ p1 \in UpSeq /\ p2 \in UpSeq /\ Len(p2) = Len(p) - n /\ p = p1 \o p2
        /\ w \in UpSeq /\ Len(w) = Len(y) + n
    BY <2>4 DEF SplitAt
  <2> HIDE DEF p1, p2, w
  <2>6. m \in Nat /\ m = Len(x.got) + Len(w) /\ Len(p2) <= PendingMax /\ Len(w) <= SendBuf
    <3> DEFINE g == Len(x.got)
               i == Len(p)
               j == Len(y)
               v == t.accepted
               i2 == Len(p2)
               j2 == Len(w)
    <3>1. /\ g \in Nat /\ i \in Nat /\ j \in Nat /\ v \in Nat /\ v = g + j /\ i2 = i - n
          /\ j2 = j + n /\ i <= PendingMax /\ n \in Nat /\ j + n <= SendBuf /\ m = v + n
      BY <2>2, <2>3, <2>5
    <3> HIDE DEF g, i, j, v, i2, j2, m
    <3>2. m \in Nat /\ m = g + j2 /\ i2 <= PendingMax /\ j2 <= SendBuf
      BY <3>1, Sizes
    <3> QED
      BY <3>2 DEF g, i2, j2
  <2> HIDE DEF m
  <2>7. t2 \in TcpFlows /\ k2 \in Sockets
    <3>1. t2 \in TcpState /\ t2.pending = p2
      BY <1>1, <1>2, <2>5, <2>6 DEF TcpState
    <3>2. k2 \in Sockets
      BY <1>1, <2>5, <2>6 DEF Sockets
    <3> QED
      BY <2>6, <3>1, <3>2 DEF TcpFlows
  <2>8. /\ t2.live = t.live /\ t2.established = t.established /\ t2.half_closed = t.half_closed
        /\ t2.pending = p2 /\ t2.accepted = m /\ t2.acked_high = t.acked_high
        /\ t2.drain_age = t.drain_age /\ t2.progress_age = 0 /\ t2.carrier = t.carrier
    BY <1>1 DEF TcpState
  <2>9. k2.state = k.state /\ k2.tx = w
    BY <1>1 DEF Sockets
  <2> HIDE DEF t2, k2
  <2>10. UploadWhole(t2, k2, a, x)
    <3>1. Counted(t2, a, x) => Counted(t, a, x)
      BY <2>8 DEF Counted
    <3> DEFINE g == x.got
               e == t.half_closed
               b == x.backlog
               d == x.dataIn
               h == a.hand
    <3>2. g \in Bytes /\ y \in Bytes /\ p1 \in Bytes /\ p2 \in Bytes
      BY <1>1, <2>2, <2>5, UpSeqBytes DEF Surroundings
    <3>3. Counted(t, a, x) => Chain(g, y, p1 \o p2, e, b, d, h) = Given(a.read, a.up_done)
      BY <1>1, <2>5 DEF UploadWhole, p, y
    <3> HIDE DEF g, e, b, d, h
    <3>4. Chain(g, y, p1 \o p2, e, b, d, h) = Chain(g, w, p2, e, b, d, h)
      BY <3>2, ChainFeeds DEF w
    <3> QED
      BY <2>8, <2>9, <3>1, <3>3, <3>4 DEF UploadWhole, g, e, b, d, h
  <2>11. AckCount(t2, k2, x)
    BY <1>1, <2>6, <2>8, <2>9 DEF AckCount
  <2>12. FinLast(t2, k2, a)
    <3>1. k2.state \notin FinStates
      BY <1>4, <2>9 DEF CanSend, FinStates
    <3> QED
      BY <3>1 DEF FinLast
  <2>13. Up(t2, k2, a, c, x)
    BY <1>1, <2>7, <2>8, <2>9, <2>10, <2>11, <2>12, UpAfter
  <2>14. 0 <= x.quiet + 1
    BY UpSizes
  <2>15. AgesFollow(t, k, x)
    BY <1>4 DEF Unjudged
  <2>16. Unjudged(t2, k2, x) /\ Fed(t2, k2, a, x)
    BY <2>8, <2>9, <2>14, <2>15 DEF Unjudged, AgesFollow, Fed
  <2> QED
    BY <2>1, <2>8, <2>13, <2>16
<1>5. CASE t.pending # <<>> /\ ~CanSend(k)
  <2>1. Feed(B(t, k, a, c, z)) = B(t, k, a, c, z)
    BY <1>5, FeedIs
  <2>2. Fed(t, k, a, x)
    <3>1. k.state \notin {"Established", "CloseWait"} \/ Len(k.tx) = SendBuf
      <4>1. Len(k.tx) \in Nat /\ Len(k.tx) <= SendBuf
        BY UpSizes
      <4> QED
        BY <1>2, <1>5, <4>1 DEF CanSend
    <3>2. k.state \in SockStates /\ k.state # "none" /\ k.state # "SynSent"
      BY <1>1 DEF Opened, Sockets
    <3>3. k.state \in FinStates => a.gone
      BY <1>1, <1>5 DEF FinLast
    <3>4. k.state = "LastAck" => x.fin
      BY <1>1 DEF EndedByPeer
    <3>5. k.state = "Closed" => x.broken \/ x.fin \/ a.gone
      BY <1>1 DEF EndedByPeer
    <3> QED
      BY <3>1, <3>2, <3>3, <3>4, <3>5 DEF SockStates, FinStates, Fed
  <2> QED
    BY <2>1, <2>2
<1> QED
  BY <1>3, <1>4, <1>5

(* Why the stack may reset a flow by itself in a pass. *)
Earned(t, x) == ~t.carrier /\ x.quiet + 1 >= StallWarn

\* What CheckDrain guarantees.
CheckDrainGood(t, k, a, c, x, z, expired, cap) ==
    \E t2, c2 : \E r \in BOOLEAN :
        /\ CheckDrain(B(t, k, a, c, z), expired, cap) = B(t2, k, a, c2, r)
        /\ Up(t2, k, a, c2, x) /\ Judged(t2, k, a, x)
        /\ r => Earned(t, x)

(* Checking the drain keeps the invariant, and decides on a reset only when it is earned. *)
LEMMA CheckDrainKeeps ==
    ASSUME NEW t, NEW k, NEW a, NEW c, NEW x, NEW z, Up(t, k, a, c, x), Unjudged(t, k, x),
           Fed(t, k, a, x), NEW expired \in BOOLEAN, NEW cap \in MinBudget..MaxBudget
    PROVE  CheckDrainGood(t, k, a, c, x, z, expired, cap)
<1> DEFINE t2 == CheckedTcp(t, k, expired)
           c2 == CheckedCredit(t, k, c, cap)
           r == ResetsNow(t, k, expired)
           g == Len(x.got)
<1>1. CheckDrain(B(t, k, a, c, z), expired, cap) = B(t2, k, a, c2, r)
  BY CheckDrainIs
<1>2. /\ t \in TcpFlows /\ t \in TcpState /\ k \in Sockets /\ c \in Credits
      /\ UploadWhole(t, k, a, x) /\ FinLast(t, k, a) /\ AckCount(t, k, x) /\ t.live /\ t.established
  BY DEF Up, Standing, TcpFlows
<1>3. AckedOf(t, k) = g /\ g \in Nat
  <2> DEFINE n == t.accepted
             l == Len(k.tx)
  <2>1. n \in Nat /\ l \in Nat /\ g \in Nat /\ n = g + l
    BY UpSizes
  <2> HIDE DEF n, l, g
  <2>2. n - l = g
    BY <2>1
  <2> QED
    BY <2>1, <2>2 DEF AckedOf, n, l
<1> HIDE DEF g
<1>4. StallCount(t, k, expired) \in 0..FlapLimit
  <2> DEFINE n == t.stalls
  <2>1. n \in 0..FlapLimit /\ StallCount(t, k, expired) \in {n, 1, Aged(n, FlapLimit)}
    BY UpSizes DEF StallCount
  <2> HIDE DEF n
  <2>2. 1 \in 0..FlapLimit /\ Aged(n, FlapLimit) \in 0..FlapLimit
    BY <2>1, Sizes DEF Aged
  <2> QED
    BY <2>1, <2>2
<1>5. Len(k.tx) \in 0..SendBuf /\ 0 \in 0..StallReset
  <2> DEFINE l == Len(k.tx)
  <2>1. l \in Nat /\ l <= SendBuf
    BY UpSizes
  <2> HIDE DEF l
  <2>2. l \in 0..SendBuf /\ 0 \in 0..StallReset
    BY <2>1, Sizes
  <2> QED
    BY <2>2 DEF l
<1>6. c2 \in Credits /\ c2.sent = c.sent
  <2> DEFINE v == IF g > c.acked THEN g ELSE c.acked
  <2>1. v \in Nat
    BY <1>2, <1>3 DEF Credits
  <2>2. c2 = [c EXCEPT !.acked = v, !.cap = cap]
    BY <1>3 DEF CheckedCredit
  <2> HIDE DEF v, c2
  <2> QED
    BY <1>2, <2>1, <2>2 DEF Credits
<1>7. t2 \in TcpFlows
  <2>1. CASE Drains(t, k)
    <3>1. t2 = [t EXCEPT !.drain_age = 0, !.acked_high = g, !.warned = FALSE,
                         !.send_queue_high = Len(k.tx)]
      BY <1>3, <2>1 DEF CheckedTcp
    <3> HIDE DEF t2
    <3> QED
      BY <1>2, <1>3, <1>5, <3>1 DEF TcpFlows, TcpState
  <2>2. CASE ~Drains(t, k)
    <3> DEFINE w == t.warned \/ StallsNow(t, k)
               n == StallCount(t, k, expired)
    <3>1. t2 = [t EXCEPT !.warned = w, !.stalls = n, !.send_queue_high = Len(k.tx)]
      BY <2>2 DEF CheckedTcp
    <3>2. w \in BOOLEAN /\ n \in 0..FlapLimit
      BY <1>4
    <3> HIDE DEF t2, w, n
    <3> QED
      BY <1>2, <1>5, <3>1, <3>2 DEF TcpFlows, TcpState
  <2> QED
    BY <2>1, <2>2
<1>8. /\ t2.live = t.live /\ t2.established = t.established /\ t2.half_closed = t.half_closed
      /\ t2.pending = t.pending /\ t2.accepted = t.accepted /\ t2.carrier = t.carrier
      /\ t2.progress_age = t.progress_age /\ t2.send_queue_high = Len(k.tx)
      /\ t2.drain_age = (IF Drains(t, k) THEN 0 ELSE t.drain_age)
      /\ t2.acked_high = (IF Drains(t, k) THEN g ELSE t.acked_high)
  BY <1>2, <1>3 DEF CheckedTcp, TcpState
<1>9. r \in BOOLEAN /\ (r => ~t.carrier /\ ~Drains(t, k) /\ t.drain_age >= StallWarn)
  BY DEF ResetsNow, StallsNow
<1>10. ~Drains(t, k) => k.tx # <<>> /\ g <= t.acked_high /\ ~(g > t.acked_high)
  <2> DEFINE h == t.acked_high
  <2>1. h \in Nat /\ (~Drains(t, k) => k.tx # <<>> /\ ~(g > h))
    BY <1>3, UpSizes DEF Drains
  <2> HIDE DEF h
  <2>2. ~(g > h) => g <= h
    BY <1>3, <2>1
  <2> QED
    BY <2>1, <2>2 DEF h
<1>11. ~Drains(t, k) => AgesFollow(t, k, x) /\ t.drain_age <= x.quiet + 1
  <2> SUFFICES ASSUME ~Drains(t, k) PROVE AgesFollow(t, k, x) /\ t.drain_age <= x.quiet + 1
    OBVIOUS
  <2>1. AgesFollow(t, k, x)
    BY <1>10 DEF Unjudged
  <2> QED
    BY <1>2, <1>10, <2>1 DEF AgesFollow, g
<1>12. r => x.quiet + 1 >= StallWarn
  <2> SUFFICES ASSUME r PROVE x.quiet + 1 >= StallWarn
    OBVIOUS
  <2> DEFINE n == t.drain_age
             q == x.quiet
  <2>1. n \in 0..StallReset /\ q \in 0..StallReset /\ n >= StallWarn /\ n <= q + 1
    BY <1>9, <1>11, UpSizes
  <2> HIDE DEF n, q
  <2>2. q + 1 >= StallWarn
    BY <2>1, Sizes
  <2> QED
    BY <2>2 DEF q
<1> HIDE DEF t2, c2, r
<1>13. t2.acked_high <= g /\ g <= t2.acked_high
  <2>1. t.acked_high <= g
    BY UpSizes DEF g
  <2> QED
    BY <1>3, <1>8, <1>10, <2>1
<1>14. AckCount(t2, k, x) /\ UploadWhole(t2, k, a, x) /\ FinLast(t2, k, a)
  <2>1. Counted(t2, a, x) => Counted(t, a, x)
    BY <1>8 DEF Counted
  <2> QED
    BY <1>2, <1>8, <1>13, <2>1 DEF AckCount, UploadWhole, FinLast, g
<1>15. Up(t2, k, a, c2, x)
  BY <1>2, <1>6, <1>7, <1>8, <1>14, UpAfter
<1>16. Judged(t2, k, a, x)
  <2>1. Fed(t2, k, a, x)
    BY <1>8 DEF Fed
  <2>2. k.tx = <<>> => t2.drain_age = 0
    BY <1>8, <1>10
  <2>3. t2.drain_age <= x.quiet + 1
    <3>1. 0 <= x.quiet + 1
      BY UpSizes
    <3> QED
      BY <1>8, <1>11, <3>1
  <2>4. Len(k.tx) = SendBuf => t.progress_age <= x.quiet + 1 \/ x.quiet = StallReset
    <3>1. Len(k.tx) = SendBuf => k.tx # <<>>
      BY EmptySeq, Sizes
    <3> QED
      BY <1>2, <3>1 DEF Unjudged, AgesFollow
  <2>5. AgesFollow(t2, k, x)
    BY <1>8, <2>3, <2>4 DEF AgesFollow
  <2> QED
    BY <1>8, <1>13, <2>1, <2>2, <2>5 DEF Judged, g
<1> QED
  BY <1>1, <1>9, <1>12, <1>15, <1>16 DEF CheckDrainGood, Earned

(* The socket is closed from this side. *)
LEMMA SockCloseIs ==
    ASSUME NEW k \in Sockets
    PROVE  /\ SockClose(k) \in Sockets /\ SockClose(k).tx = k.tx /\ SockClose(k).rx = k.rx
           /\ SockClose(k).state = CASE k.state = "Established" -> "FinWait"
                                     [] k.state = "CloseWait"   -> "LastAck"
                                     [] k.state = "SynSent"     -> "Closed"
                                     [] OTHER                   -> k.state
<1>1. CASE k.state = "Established"
  <2>1. SockClose(k) = [k EXCEPT !.state = "FinWait"]
    BY <1>1 DEF SockClose
  <2> QED
    BY <1>1, <2>1 DEF Sockets, SockStates
<1>2. CASE k.state = "CloseWait"
  <2>1. SockClose(k) = [k EXCEPT !.state = "LastAck"]
    BY <1>2 DEF SockClose
  <2> QED
    BY <1>2, <2>1 DEF Sockets, SockStates
<1>3. CASE k.state = "SynSent"
  <2>1. SockClose(k) = [k EXCEPT !.state = "Closed"]
    BY <1>3 DEF SockClose
  <2> QED
    BY <1>3, <2>1 DEF Sockets, SockStates
<1>4. CASE k.state \notin {"Established", "CloseWait", "SynSent"}
  <2>1. SockClose(k) = k
    BY <1>4 DEF SockClose
  <2> QED
    BY <1>4, <2>1
<1> QED
  BY <1>1, <1>2, <1>3, <1>4

(* The stack has reset the flow. *)
Seen(x, z) == [x EXCEPT !.broken = x.broken \/ z]

(* Seen, field by field. *)
LEMMA SeenIs ==
    ASSUME NEW x \in Surroundings, NEW z \in BOOLEAN
    PROVE  /\ Seen(x, z) \in Surroundings /\ Seen(x, z).broken = (x.broken \/ z)
           /\ Seen(x, z).got = x.got /\ Seen(x, z).fin = x.fin /\ Seen(x, z).backlog = x.backlog
           /\ Seen(x, z).dataIn = x.dataIn /\ Seen(x, z).quiet = x.quiet
           /\ Seen(x, z).asked = x.asked /\ Seen(x, z).stage = x.stage
           /\ Seen(x, FALSE) = x
<1>1. x.broken \in BOOLEAN
  BY DEF Surroundings
<1> DEFINE v == x.broken \/ z
<1>2. v \in BOOLEAN /\ Seen(x, z) = [x EXCEPT !.broken = v]
  BY DEF Seen
<1>3. Seen(x, FALSE) = x
  <2>1. (x.broken \/ FALSE) = x.broken
    BY <1>1
  <2>2. Seen(x, FALSE) = [x EXCEPT !.broken = x.broken]
    BY <2>1 DEF Seen
  <2> QED
    BY <2>2 DEF Surroundings
<1> HIDE DEF v
<1>4. /\ Seen(x, z) \in Surroundings /\ Seen(x, z).broken = v
      /\ Seen(x, z).got = x.got /\ Seen(x, z).fin = x.fin /\ Seen(x, z).backlog = x.backlog
      /\ Seen(x, z).dataIn = x.dataIn /\ Seen(x, z).quiet = x.quiet
      /\ Seen(x, z).asked = x.asked /\ Seen(x, z).stage = x.stage
  BY <1>2 DEF Surroundings
<1> QED
  BY <1>3, <1>4 DEF v

\* What FlapReset guarantees.
FlapResetGood(t, k, a, c, x, r) ==
    \E t2, k2, c2 :
        /\ FlapReset(B(t, k, a, c, r)) = B(t2, k2, a, c2, r)
        /\ Up(t2, k2, a, c2, Seen(x, r)) /\ Judged(t2, k2, a, Seen(x, r))

(* Resetting a flapping flow keeps the invariant: its upload no longer counts. *)
LEMMA FlapResetKeeps ==
    ASSUME NEW t, NEW k, NEW a, NEW c, NEW x, NEW r \in BOOLEAN,
           Up(t, k, a, c, x), Judged(t, k, a, x)
    PROVE  FlapResetGood(t, k, a, c, x, r)
<1> SUFFICES \E t2, k2, c2 :
               /\ FlapReset(B(t, k, a, c, r)) = B(t2, k2, a, c2, r)
               /\ Up(t2, k2, a, c2, Seen(x, r)) /\ Judged(t2, k2, a, Seen(x, r))
  BY DEF FlapResetGood
<1>1. x \in Surroundings
  BY DEF Up, Standing
<1>2. CASE r = FALSE
  <2>1. FlapReset(B(t, k, a, c, r)) = B(t, k, a, c, r)
    BY <1>2, FlapResetIs, Zenon
  <2>3. Seen(x, r) = x
    BY <1>1, <1>2, SeenIs
  <2> QED
    BY <2>1, <2>3
<1>3. CASE r = TRUE
  <2> DEFINE t2 == ResetTcp(t)
             k2 == SockAbort(k)
             c2 == ClosedCredit(c)
             y == Seen(x, r)
  <2>1. FlapReset(B(t, k, a, c, r)) = B(t2, k2, a, c2, r)
    BY <1>3, FlapResetIs, Zenon
  <2>2. /\ t \in TcpFlows /\ t \in TcpState /\ k \in Sockets /\ c \in Credits /\ a \in Relays
        /\ Opened(t, k, a, x) /\ NothingRead(a) /\ AckCount(t, k, x) /\ t.live /\ t.established
        /\ Reserved(a, c) /\ x.stage = "service"
    BY DEF Up, Standing, TcpFlows
  <2>3. <<>> \in UpSeq /\ Len(<<>>) <= PendingMax /\ 0 \in 0..FlapLimit
    BY EmptySeq, Sizes DEF UpSeq
  <2>4. t2 \in TcpFlows
    BY <2>2, <2>3 DEF TcpFlows, TcpState, ResetTcp
  <2>5. k2 \in Sockets /\ k2.state = "Closed" /\ k2.tx = k.tx
    BY <2>2 DEF Sockets, SockStates, SockAbort
  <2>6. c2 \in Credits /\ c2.sent = c.sent
    BY <2>2 DEF Credits, ClosedCredit
  <2>7. /\ t2.live = t.live /\ t2.established = t.established /\ t2.accepted = t.accepted
        /\ t2.acked_high = t.acked_high /\ t2.drain_age = t.drain_age
        /\ t2.progress_age = t.progress_age /\ t2.send_queue_high = t.send_queue_high
    BY <2>2 DEF TcpState, ResetTcp
  <2>8. /\ y \in Surroundings /\ y.broken = TRUE /\ y.got = x.got /\ y.quiet = x.quiet
        /\ y.asked = x.asked /\ y.stage = x.stage
    BY <1>1, <1>3, SeenIs
  <2> HIDE DEF t2, k2, c2, y
  <2>9. a.conn = "ok" /\ ~x.asked
    BY UpSizes
  <2>10. Opened(t2, k2, a, y)
    BY <2>2, <2>5, <2>7, <2>8, <2>9 DEF Opened
  <2>11. UploadWhole(t2, k2, a, y) /\ FinLast(t2, k2, a)
    BY <2>5, <2>8, <2>9 DEF UploadWhole, Counted, FinLast, FinStates
  <2>12. AckCount(t2, k2, y) /\ Reserved(a, c2) /\ EndedByPeer(k2, a, y)
    BY <2>2, <2>5, <2>6, <2>7, <2>8 DEF AckCount, Reserved, EndedByPeer
  <2>13. Up(t2, k2, a, c2, y)
    BY <2>2, <2>4, <2>5, <2>6, <2>7, <2>8, <2>10, <2>11, <2>12 DEF Up, Standing
  <2>14. AgesFollow(t2, k2, y) /\ Fed(t2, k2, a, y)
    BY <2>5, <2>7, <2>8 DEF Judged, AgesFollow, Fed
  <2>15. Judged(t2, k2, a, y)
    BY <2>5, <2>7, <2>8, <2>14 DEF Judged
  <2> QED
    BY <2>1, <2>13, <2>15 DEF y
<1> QED
  BY <1>2, <1>3

(* Sending the FIN keeps the invariant. *)
LEMMA HalfCloseKeeps ==
    ASSUME NEW t, NEW k, NEW a, NEW c, NEW x, NEW z, Up(t, k, a, c, x), Judged(t, k, a, x)
    PROVE  \E k2 : /\ HalfClose(B(t, k, a, c, z)) = B(t, k2, a, c, z)
                   /\ Up(t, k2, a, c, x) /\ Judged(t, k2, a, x)
<1>1. CASE HalfClose(B(t, k, a, c, z)) = B(t, k, a, c, z)
  BY <1>1
<1>2. CASE /\ t.half_closed /\ t.pending = <<>>
           /\ HalfClose(B(t, k, a, c, z)) = B(t, SockClose(k), a, c, z)
  <2> DEFINE k2 == SockClose(k)
  <2>1. Standing(t, k, a, c, x) /\ k \in Sockets /\ t.live /\ t.established /\ k.state # "SynSent"
    BY DEF Up, Standing, Opened
  <2>2. /\ k2 \in Sockets /\ k2.tx = k.tx
        /\ k2.state = k.state \/ (k.state = "Established" /\ k2.state = "FinWait")
                              \/ (k.state = "CloseWait" /\ k2.state = "LastAck")
    BY <2>1, SockCloseIs
  <2> HIDE DEF k2
  <2>3. Opened(t, k2, a, x)
    BY <2>1, <2>2 DEF Standing, Opened
  <2>4. UploadWhole(t, k2, a, x) /\ AckCount(t, k2, x)
    BY <2>1, <2>2 DEF Standing, UploadWhole, AckCount
  <2>5. FinLast(t, k2, a)
    BY <1>2 DEF FinLast
  <2>6. EndedByPeer(k2, a, x)
    BY <2>1, <2>2 DEF Standing, EndedByPeer
  <2>7. Up(t, k2, a, c, x)
    BY <2>2, <2>3, <2>4, <2>5, <2>6 DEF Up, Standing
  <2>8. Judged(t, k2, a, x)
    BY <2>2 DEF Judged, Fed, AgesFollow
  <2> QED
    BY <1>2, <2>7, <2>8 DEF k2
<1> QED
  BY <1>1, <1>2, HalfCloseIs

(* Delivering received data keeps the invariant. *)
LEMMA DeliverKeeps ==
    ASSUME NEW t, NEW k, NEW a, NEW c, NEW x, NEW z, Up(t, k, a, c, x), Judged(t, k, a, x)
    PROVE  \E k2, a2 : /\ Deliver(B(t, k, a, c, z)) = B(t, k2, a2, c, z)
                       /\ Up(t, k2, a2, c, x) /\ Judged(t, k2, a2, x)
<1>1. CASE Deliver(B(t, k, a, c, z)) = B(t, k, a, c, z)
  BY <1>1
<1>2. CASE /\ Len(a.queue) < AppCap /\ k.rx > 0
           /\ Deliver(B(t, k, a, c, z)) = B(t, Emptied(k), Handed(a, k), c, z)
  <2> DEFINE k2 == Emptied(k)
             a2 == Handed(a, k)
  <2>1. Standing(t, k, a, c, x) /\ k \in Sockets /\ a \in Relays
    BY DEF Up, Standing
  <2>2. k2 \in Sockets /\ k2.tx = k.tx /\ k2.state = k.state
    <3>1. 0 \in 0..RecvBuf
      BY Sizes
    <3> QED
      BY <2>1, <3>1 DEF Sockets, Emptied
  <2>3. /\ a2 \in Relays /\ a2.conn = a.conn /\ a2.read = a.read /\ a2.hand = a.hand
        /\ a2.gone = a.gone /\ a2.up_done = a.up_done /\ a2.reserved = a.reserved
    <3> DEFINE q == a.queue
               e == k.rx
               r == Append(q, e)
               R == 1..RecvBuf
    <3>1. q \in Seq(R) /\ e \in 0..RecvBuf /\ e > 0 /\ Len(q) < AppCap
      BY <1>2, <2>1 DEF Relays, Sockets
    <3> HIDE DEF q, e
    <3>2. e \in R
      BY <3>1, Sizes
    <3> HIDE DEF R
    <3>3. r \in Seq(R) /\ Len(r) = Len(q) + 1 /\ Len(q) \in Nat
      BY <3>1, <3>2, AppendProperties, LenProperties
    <3>4. Len(r) <= AppCap
      BY <3>1, <3>3, Sizes
    <3> HIDE DEF r
    <3>5. a2 = [a EXCEPT !.queue = r] /\ r \in Seq(1..RecvBuf)
      BY <3>3 DEF Handed, r, q, e, R
    <3> HIDE DEF a2
    <3> QED
      BY <2>1, <3>4, <3>5 DEF Relays
  <2> HIDE DEF k2, a2
  <2>3a. /\ Opened(t, k, a, x) /\ NothingRead(a) /\ UploadWhole(t, k, a, x) /\ FinLast(t, k, a)
         /\ AckCount(t, k, x) /\ Reserved(a, c) /\ EndedByPeer(k, a, x)
    BY <2>1 DEF Standing
  <2>4. Opened(t, k2, a2, x)
    <3>1. k2 = NoSocket \/ t.live
      BY DEF Up
    <3> QED
      BY <2>2, <2>3, <2>3a, <3>1 DEF Opened, Up
  <2>5. NothingRead(a2) /\ Reserved(a2, c) /\ FinLast(t, k2, a2) /\ EndedByPeer(k2, a2, x)
        /\ AckCount(t, k2, x)
    BY <2>2, <2>3, <2>3a DEF NothingRead, Reserved, FinLast, EndedByPeer, AckCount
  <2>6. UploadWhole(t, k2, a2, x)
    <3>1. Counted(t, a2, x) => Counted(t, a, x)
      BY <2>3 DEF Counted
    <3> QED
      BY <2>2, <2>3, <2>3a, <3>1 DEF UploadWhole
  <2>7. Up(t, k2, a2, c, x)
    BY <2>2, <2>3, <2>4, <2>5, <2>6 DEF Up, Standing
  <2>8. Judged(t, k2, a2, x)
    BY <2>2, <2>3 DEF Judged, Fed, AgesFollow
  <2> QED
    BY <1>2, <2>7, <2>8 DEF k2, a2
<1> QED
  BY <1>1, <1>2, DeliverIs

(* What the flow is after a pass: still in service, or removed. *)
Passed(t, k, a, c, x) ==
    /\ Standing(t, k, a, c, x) /\ x.stage = "service"
    /\ t.live /\ t.established => Judged(t, k, a, x)
    /\ AgesFollow(t, k, x)

(* Nothing of an upload that was never answered is anywhere. *)
LEMMA NothingYet ==
    ASSUME NEW t, NEW k, NEW a, NEW c, NEW x, Standing(t, k, a, c, x), a.conn \in {"none", "wait"}
    PROVE  /\ x.got = <<>> /\ k.tx = <<>> /\ t.pending = <<>> /\ ~t.half_closed
           /\ x.backlog = <<>> /\ x.dataIn = <<>> /\ a.hand = <<>>
           /\ Given(a.read, a.up_done) = <<>>
<1> DEFINE v == x.got
           w == t.half_closed
           y == x.backlog
           z == x.dataIn
           kt == k.tx
           tp == t.pending
           ah == a.hand
<1>1. v \in Bytes /\ kt \in Bytes /\ tp \in Bytes /\ w \in BOOLEAN
      /\ y \in Bytes /\ z \in Bytes /\ ah \in Bytes
  <2>1. kt \in UpSeq /\ tp \in UpSeq /\ ah \in UpSeq /\ w \in BOOLEAN /\ v \in Bytes
        /\ y \in Bytes /\ z \in Bytes
    BY DEF Standing, TcpFlows, TcpState, Sockets, Relays, Surroundings
  <2> QED
    BY <2>1, UpSeqBytes
<1>2. a.read = 0 /\ ~a.up_done /\ Counted(t, a, x)
  BY DEF Standing, NothingRead, Counted
<1>3. Given(a.read, a.up_done) = <<>>
  <2>1. Given(0, FALSE) = <<>> /\ Mark(a.up_done) = Mark(FALSE) /\ a.read = 0
    BY <1>2, GivenFacts DEF Mark
  <2> QED
    BY <2>1 DEF Given
<1>4. Chain(v, kt, tp, w, y, z, ah) = <<>>
  BY <1>2, <1>3 DEF Standing, UploadWhole
<1> HIDE DEF v, w, y, z, kt, tp, ah
<1>5. v = <<>> /\ kt = <<>> /\ tp = <<>> /\ ~w /\ y = <<>> /\ z = <<>> /\ ah = <<>>
  BY <1>1, <1>4, ChainEmpty
<1> QED
  BY <1>3, <1>5 DEF v, w, y, z, kt, tp, ah

(* A chain of empty places is empty. *)
LEMMA ChainNone == Chain(<<>>, <<>>, <<>>, FALSE, <<>>, <<>>, <<>>) = <<>>
<1>1. <<>> \in Bytes /\ <<>> \o <<>> = <<>>
  BY ByteSeqs, EmptySeq DEF Bytes
<1> QED
  BY <1>1, MarkIs DEF Chain

(* Removing a flow keeps the invariant: its upload no longer counts. *)
LEMMA RemovedKeeps ==
    ASSUME NEW t, NEW k, NEW a, NEW c, NEW x, Standing(t, k, a, c, x), t.live, x.stage = "service",
           NEW a2 \in Relays, a2.read = a.read, a2.hand = a.hand, a2.up_done = a.up_done,
           a2.reserved = a.reserved, a2.gone = a.gone, a2.conn = a.conn \/ a2.conn = "error"
    PROVE  Passed(NoTcpState, NoSocket, a2, ClosedCredit(c), x)
<1> DEFINE t2 == NoTcpState
           k2 == NoSocket
           c2 == ClosedCredit(c)
<1>1. /\ t2.live = FALSE /\ t2.established = FALSE /\ t2.half_closed = FALSE
      /\ t2.pending = <<>> /\ t2.send_queue_high = 0 /\ t2 \in TcpFlows
      /\ k2.tx = <<>> /\ k2.state = "none" /\ t2 = NoTcpState /\ k2 = NoSocket /\ k2 \in Sockets
  BY NewStates, NoSockets DEF TcpFlows
<1>2. c2 \in Credits /\ c2.sent = c.sent
  BY DEF Standing, Credits, ClosedCredit
<1>3. /\ Opened(t, k, a, x) /\ NothingRead(a) /\ Reserved(a, c) /\ x \in Surroundings
  BY DEF Standing
<1> HIDE DEF t2, k2, c2
<1>4. a.conn \in {"ok", "wait"} /\ ~x.asked /\ x.stage # "ended"
  BY <1>3 DEF Opened
<1>5. Opened(t2, k2, a2, x)
  BY <1>1, <1>3, <1>4 DEF Opened
<1>6. NothingRead(a2) /\ FinLast(t2, k2, a2) /\ Reserved(a2, c2) /\ EndedByPeer(k2, a2, x)
      /\ AckCount(t2, k2, x) /\ AgesFollow(t2, k2, x)
  BY <1>1, <1>2, <1>3 DEF NothingRead, FinLast, FinStates, Reserved, EndedByPeer, AckCount, AgesFollow
<1>7. UploadWhole(t2, k2, a2, x)
  <2> SUFFICES ASSUME Counted(t2, a2, x)
               PROVE  Chain(x.got, k2.tx, t2.pending, t2.half_closed, x.backlog, x.dataIn, a2.hand)
                        = Given(a2.read, a2.up_done)
    BY DEF UploadWhole
  <2>1. a.conn \in {"none", "wait"}
    BY <1>1 DEF Counted
  <2>2. /\ x.got = <<>> /\ x.backlog = <<>> /\ x.dataIn = <<>> /\ a.hand = <<>>
        /\ Given(a.read, a.up_done) = <<>>
    BY <2>1, NothingYet
  <2> QED
    BY <1>1, <2>2, ChainNone
<1>8. Standing(t2, k2, a2, c2, x)
  BY <1>1, <1>2, <1>3, <1>5, <1>6, <1>7 DEF Standing
<1>9. Passed(t2, k2, a2, c2, x)
  BY <1>1, <1>6, <1>8 DEF Passed
<1> QED
  BY <1>9 DEF t2, k2, c2

(* Settling a flow keeps the invariant. *)
LEMMA SettleKeeps ==
    ASSUME NEW t, NEW k, NEW a, NEW c, NEW x, NEW z, Up(t, k, a, c, x), Judged(t, k, a, x)
    PROVE  \E t2, k2, c2 : /\ Settle(B(t, k, a, c, z)) = B(t2, k2, a, c2, z)
                           /\ Passed(t2, k2, a, c2, x)
<1>0. Standing(t, k, a, c, x) /\ k \in Sockets /\ a \in Relays /\ t.live /\ t.established
      /\ x.stage = "service" /\ k.state # "SynSent"
  BY DEF Up, Standing, Opened
<1>1. CASE Settle(B(t, k, a, c, z)) = B(NoTcpState, NoSocket, a, ClosedCredit(c), z)
  <2>1. Passed(NoTcpState, NoSocket, a, ClosedCredit(c), x)
    BY <1>0, RemovedKeeps
  <2> QED
    BY <1>1, <2>1
<1>2. CASE k.state = "CloseWait" /\ Settle(B(t, k, a, c, z)) = B(t, SockClose(k), a, c, z)
  <2> DEFINE k2 == SockClose(k)
  <2>1. k2 \in Sockets /\ k2.tx = k.tx /\ k2.state = "LastAck"
    BY <1>0, <1>2, SockCloseIs
  <2> HIDE DEF k2
  <2>2. Opened(t, k2, a, x) /\ EndedByPeer(k2, a, x)
    BY <1>0, <1>2, <2>1 DEF Standing, Opened, EndedByPeer
  <2>3. UploadWhole(t, k2, a, x) /\ AckCount(t, k2, x) /\ FinLast(t, k2, a)
    BY <1>0, <2>1 DEF Standing, UploadWhole, AckCount, FinLast, FinStates
  <2>4. Standing(t, k2, a, c, x)
    BY <1>0, <2>1, <2>2, <2>3 DEF Standing
  <2>5. Judged(t, k2, a, x)
    BY <2>1 DEF Judged, Fed, AgesFollow
  <2>6. Passed(t, k2, a, c, x)
    BY <1>0, <2>4, <2>5 DEF Passed, Judged
  <2> QED
    BY <1>2, <2>6 DEF k2
<1>3. CASE Settle(B(t, k, a, c, z)) = B(t, k, a, c, z)
  <2>1. Passed(t, k, a, c, x)
    BY <1>0 DEF Passed, Judged
  <2> QED
    BY <1>3, <2>1
<1> QED
  BY <1>1, <1>2, <1>3, SettleIs

(* Ending a flow whose relay is gone keeps the invariant. *)
LEMMA OrphanKeeps ==
    ASSUME NEW t, NEW k, NEW a, NEW c, NEW x, NEW z, Up(t, k, a, c, x), Judged(t, k, a, x), a.gone
    PROVE  \E t2, k2, c2 : /\ Orphan(B(t, k, a, c, z)) = B(t2, k2, a, c2, z)
                           /\ Passed(t2, k2, a, c2, x)
<1>0. Standing(t, k, a, c, x) /\ k \in Sockets /\ t \in TcpState /\ t \in TcpFlows /\ t.live
      /\ t.established /\ k.state # "SynSent" /\ k.state # "none" /\ t.aborted \in BOOLEAN
      /\ a.conn = "ok"
  BY UpSizes DEF Up, Standing, Opened, TcpFlows, TcpState
<1>1. ASSUME NEW v \in BOOLEAN, NEW k2 \in Sockets, k2.tx = k.tx,
             k2.state = "Closed" \/ k2.state = k.state
             \/ (k.state = "Established" /\ k2.state = "FinWait")
             \/ (k.state = "CloseWait" /\ k2.state = "LastAck")
      PROVE  Up(OrphanTcp(t, v), k2, a, c, x) /\ Judged(OrphanTcp(t, v), k2, a, x)
  <2> DEFINE t2 == OrphanTcp(t, v)
  <2>1. t2 \in TcpFlows
    BY <1>0 DEF TcpFlows, TcpState, OrphanTcp
  <2>2. /\ t2.live = t.live /\ t2.established = t.established /\ t2.half_closed = t.half_closed
        /\ t2.pending = t.pending /\ t2.accepted = t.accepted /\ t2.acked_high = t.acked_high
        /\ t2.progress_age = t.progress_age /\ t2.send_queue_high = t.send_queue_high
        /\ t2.drain_age = t.drain_age
    BY <1>0 DEF TcpState, OrphanTcp
  <2> HIDE DEF t2
  <2>3. /\ Opened(t, k, a, x) /\ NothingRead(a) /\ UploadWhole(t, k, a, x)
        /\ AckCount(t, k, x) /\ Reserved(a, c) /\ EndedByPeer(k, a, x)
    BY <1>0 DEF Standing
  <2>4. Opened(t2, k2, a, x)
    BY <1>0, <1>1, <2>2, <2>3 DEF Opened
  <2>5. EndedByPeer(k2, a, x) /\ FinLast(t2, k2, a) /\ AckCount(t2, k2, x)
    BY <1>1, <2>2, <2>3 DEF EndedByPeer, FinLast, AckCount
  <2>6. UploadWhole(t2, k2, a, x)
    BY <1>0 DEF UploadWhole, Counted
  <2>7. Up(t2, k2, a, c, x)
    BY <1>1, <2>1, <2>2, <2>3, <2>4, <2>5, <2>6 DEF Up, Standing
  <2>8. Judged(t2, k2, a, x)
    BY <1>1, <2>2 DEF Judged, Fed, AgesFollow
  <2> QED
    BY <2>7, <2>8 DEF t2
<1>2. CASE Orphan(B(t, k, a, c, z)) = B(OrphanTcp(t, TRUE), SockAbort(k), a, c, z)
  <2> DEFINE k2 == SockAbort(k)
             t2 == OrphanTcp(t, TRUE)
  <2>1. k2 \in Sockets /\ k2.tx = k.tx /\ k2.state = "Closed"
    BY <1>0 DEF SockAbort, Sockets, SockStates
  <2> HIDE DEF k2
  <2>2. Up(t2, k2, a, c, x) /\ Judged(t2, k2, a, x)
    BY <1>1, <2>1
  <2> HIDE DEF t2
  <2>3. Passed(t2, k2, a, c, x)
    BY <2>2 DEF Passed, Up, Judged
  <2> QED
    BY <1>2, <2>3 DEF t2, k2
<1>3. CASE Orphan(B(t, k, a, c, z)) = Settle(B(OrphanTcp(t, t.aborted), SockClose(k), a, c, z))
  <2> DEFINE k2 == SockClose(k)
             t2 == OrphanTcp(t, t.aborted)
  <2>1. /\ k2 \in Sockets /\ k2.tx = k.tx
        /\ k2.state = "Closed" \/ k2.state = k.state
           \/ (k.state = "Established" /\ k2.state = "FinWait")
           \/ (k.state = "CloseWait" /\ k2.state = "LastAck")
    BY <1>0, SockCloseIs
  <2> HIDE DEF k2
  <2>2. Up(t2, k2, a, c, x) /\ Judged(t2, k2, a, x)
    BY <1>0, <1>1, <2>1
  <2> HIDE DEF t2
  <2>3. \E t3, k3, c3 : Settle(B(t2, k2, a, c, z)) = B(t3, k3, a, c3, z) /\ Passed(t3, k3, a, c3, x)
    BY <2>2, SettleKeeps
  <2> QED
    BY <1>3, <2>3 DEF t2, k2
<1> QED
  BY <1>0, <1>2, <1>3, OrphanIs

\* What servicing a flow that is up guarantees.
EstablishedGood(t, k, a, c, x, f, expired, cap) ==
    \E t2, k2, a2, c2 : \E r \in BOOLEAN :
        /\ ServiceEstablished(B(t, k, a, c, f), expired, cap) = B(t2, k2, a2, c2, r)
        /\ Passed(t2, k2, a2, c2, Seen(x, r))
        /\ r => Earned(t, x)

(* Servicing a flow that is up, step after step, keeps the invariant. *)
LEMMA ServiceEstablishedKeeps ==
    ASSUME NEW t, NEW k, NEW a, NEW c, NEW x, NEW f, Up(t, k, a, c, x), Unjudged(t, k, x),
           NEW expired \in BOOLEAN, NEW cap \in MinBudget..MaxBudget
    PROVE  EstablishedGood(t, k, a, c, x, f, expired, cap)
<1> DEFINE b0 == B(t, k, a, c, f)
<1>1. PICK t1, k1 : /\ Feed(b0) = B(t1, k1, a, c, f)
                    /\ Up(t1, k1, a, c, x) /\ Unjudged(t1, k1, x) /\ Fed(t1, k1, a, x)
                    /\ t1.carrier = t.carrier
  <2>1. FeedGood(t, k, a, c, x, f)
    BY FeedKeeps
  <2> QED
    BY <2>1 DEF FeedGood
<1>2. PICK t3, c3 : \E r \in BOOLEAN :
              /\ CheckDrain(B(t1, k1, a, c, f), expired, cap) = B(t3, k1, a, c3, r)
              /\ Up(t3, k1, a, c3, x) /\ Judged(t3, k1, a, x)
              /\ r => Earned(t1, x)
  <2>1. CheckDrainGood(t1, k1, a, c, x, f, expired, cap)
    BY <1>1, CheckDrainKeeps
  <2> QED
    BY <2>1 DEF CheckDrainGood
<1>3. PICK r \in BOOLEAN :
              /\ CheckDrain(B(t1, k1, a, c, f), expired, cap) = B(t3, k1, a, c3, r)
              /\ Up(t3, k1, a, c3, x) /\ Judged(t3, k1, a, x)
              /\ r => Earned(t1, x)
  BY <1>2
<1> DEFINE y == Seen(x, r)
<1>4. PICK t4, k4, c4 :
              /\ FlapReset(B(t3, k1, a, c3, r)) = B(t4, k4, a, c4, r)
              /\ Up(t4, k4, a, c4, y) /\ Judged(t4, k4, a, y)
  <2>1. FlapResetGood(t3, k1, a, c3, x, r)
    BY <1>3, FlapResetKeeps
  <2> QED
    BY <2>1 DEF FlapResetGood
<1> HIDE DEF y
<1>5. PICK k5 : /\ HalfClose(B(t4, k4, a, c4, r)) = B(t4, k5, a, c4, r)
                /\ Up(t4, k5, a, c4, y) /\ Judged(t4, k5, a, y)
  BY <1>4, HalfCloseKeeps
<1>6. PICK k6, a6 : /\ Deliver(B(t4, k5, a, c4, r)) = B(t4, k6, a6, c4, r)
                    /\ Up(t4, k6, a6, c4, y) /\ Judged(t4, k6, a6, y)
  BY <1>5, DeliverKeeps
<1> DEFINE d == B(t4, k6, a6, c4, r)
<1>7. Deliver(HalfClose(FlapReset(CheckDrain(Feed(b0), expired, cap)))) = d
  BY <1>1, <1>3, <1>4, <1>5, <1>6
<1>8. d.a = a6
  BY DEF B
<1>9. r => Earned(t, x)
  BY <1>1, <1>3 DEF Earned
<1>10. ServiceEstablished(b0, expired, cap) = IF a6.gone THEN Orphan(d) ELSE Settle(d)
  <2> HIDE DEF d, b0
  <2> QED
    BY <1>7, <1>8 DEF ServiceEstablished
<1>11. CASE a6.gone
  <2>1. PICK t7, k7, c7 : Orphan(d) = B(t7, k7, a6, c7, r) /\ Passed(t7, k7, a6, c7, y)
    BY <1>6, <1>11, OrphanKeeps
  <2>2. ServiceEstablished(b0, expired, cap) = B(t7, k7, a6, c7, r)
    BY <1>10, <1>11, <2>1
  <2> QED
    BY <1>9, <2>1, <2>2 DEF y, EstablishedGood
<1>12. CASE ~a6.gone
  <2>1. PICK t7, k7, c7 : Settle(d) = B(t7, k7, a6, c7, r) /\ Passed(t7, k7, a6, c7, y)
    BY <1>6, SettleKeeps
  <2>2. ServiceEstablished(b0, expired, cap) = B(t7, k7, a6, c7, r)
    BY <1>10, <1>12, <2>1
  <2> QED
    BY <1>9, <2>1, <2>2 DEF y, EstablishedGood
<1> QED
  BY <1>11, <1>12

(* A flow that has just come up. *)
LEMMA EstablishedUp ==
    ASSUME NEW t, NEW k, NEW a, NEW c, NEW x, Standing(t, k, a, c, x), t.live, ~t.established,
           x.stage = "service", k.state \in {"Established", "CloseWait"}
    PROVE  /\ Up(EstablishedTcp(t), k, Answered(a, "ok"), c, x)
           /\ Unjudged(EstablishedTcp(t), k, x) /\ EstablishedTcp(t).carrier = t.carrier
<1> DEFINE t2 == EstablishedTcp(t)
           a2 == Answered(a, "ok")
<1>1. /\ t \in TcpState /\ t \in TcpFlows /\ k \in Sockets /\ a \in Relays /\ c \in Credits
      /\ x \in Surroundings /\ Opened(t, k, a, x) /\ NothingRead(a) /\ UploadWhole(t, k, a, x)
      /\ AckCount(t, k, x) /\ Reserved(a, c) /\ EndedByPeer(k, a, x)
  BY DEF Standing, TcpFlows
<1>2. a.conn = "wait" /\ ~x.asked /\ ~x.broken
  BY <1>1 DEF Opened
<1>3. t2 \in TcpFlows
  <2>1. 0 \in 0..ConnectLimit
    BY Sizes
  <2> QED
    BY <1>1, <2>1 DEF TcpFlows, TcpState, EstablishedTcp
<1>4. /\ t2.live = t.live /\ t2.established = TRUE /\ t2.half_closed = t.half_closed
      /\ t2.pending = t.pending /\ t2.accepted = t.accepted /\ t2.acked_high = t.acked_high
      /\ t2.carrier = t.carrier
  BY <1>1 DEF TcpState, EstablishedTcp
<1>5. /\ a2 \in Relays /\ a2.conn = "ok" /\ a2.read = a.read /\ a2.hand = a.hand
      /\ a2.gone = a.gone /\ a2.up_done = a.up_done /\ a2.reserved = a.reserved
  BY <1>1, <1>2 DEF Relays, Answered
<1>6. k.tx = <<>> /\ t.pending = <<>>
  BY <1>2, NothingYet
<1> HIDE DEF t2, a2
<1>7. Opened(t2, k, a2, x)
  BY <1>1, <1>2, <1>4, <1>5 DEF Opened
<1>8. NothingRead(a2) /\ FinLast(t2, k, a2) /\ Reserved(a2, c) /\ EndedByPeer(k, a2, x)
      /\ AckCount(t2, k, x)
  BY <1>1, <1>4, <1>5 DEF NothingRead, FinLast, FinStates, Reserved, EndedByPeer, AckCount
<1>9. UploadWhole(t2, k, a2, x)
  <2>1. Counted(t, a, x)
    BY <1>2 DEF Counted
  <2> QED
    BY <1>1, <1>4, <1>5, <2>1 DEF UploadWhole
<1>10. Up(t2, k, a2, c, x)
  BY <1>1, <1>3, <1>4, <1>5, <1>7, <1>8, <1>9 DEF Up, Standing
<1>11. Unjudged(t2, k, x)
  BY <1>4, <1>6 DEF Unjudged
<1> QED
  BY <1>4, <1>10, <1>11 DEF t2, a2

\* The pass of service_tcp() over a flow, as it finds it: reset is not set.
ServiceGood(t, k, a, c, x, f, expired, cap) ==
    \E t2, k2, a2, c2 : \E r \in BOOLEAN :
        /\ ServiceTcp(B(t, k, a, c, f), expired, cap) = B(t2, k2, a2, c2, r)
        /\ Passed(t2, k2, a2, c2, Seen(x, r))
        /\ r => Earned(t, x)

(* service_tcp keeps the invariant of the flow whatever its state. *)
LEMMA ServiceTcpKeeps ==
    ASSUME NEW t, NEW k, NEW a, NEW c, NEW x, NEW f \in BOOLEAN, ~f,
           Standing(t, k, a, c, x), AgesFollow(t, k, x),
           t.live, x.stage = "service", NEW expired \in BOOLEAN, NEW cap \in MinBudget..MaxBudget
    PROVE  ServiceGood(t, k, a, c, x, f, expired, cap)
<1> DEFINE b == B(t, k, a, c, f)
<1>1. b.t = t /\ b.k = k /\ b.a = a
  BY DEF B
<1>2. Seen(x, f) = x /\ a \in Relays
  <2>1. x \in Surroundings /\ a \in Relays
    BY DEF Standing
  <2>2. f = FALSE
    OBVIOUS
  <2> QED
    BY <2>1, <2>2 DEF Seen, Surroundings
<1>20. ASSUME NEW t2, NEW k2, NEW a2, NEW c2,
              ServiceTcp(b, expired, cap) = B(t2, k2, a2, c2, f), Passed(t2, k2, a2, c2, x)
       PROVE  ServiceGood(t, k, a, c, x, f, expired, cap)
  BY <1>2, <1>20 DEF ServiceGood
<1>3. CASE t.aborted
  <2>1. ServiceTcp(b, expired, cap) = Removed(b)
    <3> HIDE DEF b
    <3> QED
      BY <1>1, <1>3 DEF ServiceTcp
  <2>2. Removed(b) = B(NoTcpState, NoSocket, a, ClosedCredit(c), f)
    BY RemovedIs
  <2>3. Passed(NoTcpState, NoSocket, a, ClosedCredit(c), x)
    BY <1>2, RemovedKeeps
  <2>4. ServiceTcp(b, expired, cap) = B(NoTcpState, NoSocket, a, ClosedCredit(c), f)
    BY <2>1, <2>2
  <2> HIDE DEF b
  <2> QED
    BY <1>20, <2>3, <2>4
<1>4. CASE ~t.aborted /\ t.established
  <2>1. ServiceTcp(b, expired, cap) = ServiceEstablished(b, expired, cap)
    <3> HIDE DEF b
    <3> QED
      BY <1>1, <1>4 DEF ServiceTcp
  <2>2. Up(t, k, a, c, x) /\ Unjudged(t, k, x)
    BY <1>4 DEF Up, Unjudged
  <2>3. EstablishedGood(t, k, a, c, x, f, expired, cap)
    BY <2>2, ServiceEstablishedKeeps
  <2> QED
    BY <2>1, <2>3 DEF ServiceGood, EstablishedGood
<1>5. CASE ~t.aborted /\ ~t.established /\ k.state \in {"Established", "CloseWait"}
  <2> DEFINE t1 == EstablishedTcp(t)
             a1 == Answered(a, "ok")
             b1 == B(t1, k, a1, c, f)
  <2>1. ServiceTcp(b, expired, cap)
          = ServiceEstablished(Answer(Establish(b), "ok"), expired, cap)
    <3> HIDE DEF b
    <3> QED
      BY <1>1, <1>5 DEF ServiceTcp, Establish
  <2>2. Establish(b) = B(t1, k, a, c, f)
    BY EstablishIs
  <2>4. Up(t1, k, a1, c, x) /\ Unjudged(t1, k, x) /\ t1.carrier = t.carrier
    BY <1>5, EstablishedUp
  <2> HIDE DEF t1
  <2>3. Answer(B(t1, k, a, c, f), "ok") = b1
    <3>1. \A v : Answer(B(t1, k, a, c, f), v) = B(t1, k, Answered(a, v), c, f)
      BY AnswerIs
    <3> QED
      BY <3>1
  <2> HIDE DEF a1
  <2>5. EstablishedGood(t1, k, a1, c, x, f, expired, cap)
    BY <2>4, ServiceEstablishedKeeps
  <2>6. Earned(t1, x) => Earned(t, x)
    BY <2>4 DEF Earned
  <2>7. ServiceTcp(b, expired, cap) = ServiceEstablished(b1, expired, cap)
    <3> HIDE DEF b, b1
    <3> QED
      BY <2>1, <2>2, <2>3
  <2> QED
    BY <2>5, <2>6, <2>7 DEF ServiceGood, EstablishedGood
<1>6. CASE ~t.aborted /\ ~t.established /\ k.state \notin {"Established", "CloseWait"}
  <2>1. \/ ServiceTcp(b, expired, cap) = Removed(Answer(b, "error"))
        \/ ServiceTcp(b, expired, cap) = b
    <3> HIDE DEF b
    <3> QED
      BY <1>1, <1>6 DEF ServiceTcp
  <2>2. CASE ServiceTcp(b, expired, cap) = Removed(Answer(b, "error"))
    <3> DEFINE a1 == Answered(a, "error")
    <3>1. Answer(b, "error") = B(t, k, a1, c, f)
      <4>1. \A v : Answer(B(t, k, a, c, f), v) = B(t, k, Answered(a, v), c, f)
        BY AnswerIs
      <4> QED
        BY <4>1
    <3>3. /\ a1 \in Relays /\ (a1.conn = a.conn \/ a1.conn = "error")
          /\ a1.read = a.read /\ a1.hand = a.hand
          /\ a1.gone = a.gone /\ a1.up_done = a.up_done /\ a1.reserved = a.reserved
      BY <1>2 DEF Relays, Answered
    <3> HIDE DEF a1, b
    <3>2. Removed(B(t, k, a1, c, f)) = B(NoTcpState, NoSocket, a1, ClosedCredit(c), f)
      BY RemovedIs
    <3>4. Passed(NoTcpState, NoSocket, a1, ClosedCredit(c), x)
      BY <3>3, RemovedKeeps
    <3>5. ServiceTcp(b, expired, cap) = B(NoTcpState, NoSocket, a1, ClosedCredit(c), f)
      BY <2>2, <3>1, <3>2
    <3> QED
      BY <1>20, <3>4, <3>5
  <2>3. CASE ServiceTcp(b, expired, cap) = b
    <3>1. Passed(t, k, a, c, x)
      BY <1>6 DEF Passed
    <3> QED
      BY <1>20, <2>3, <3>1
  <2> QED
    BY <2>1, <2>2, <2>3
<1> QED
  BY <1>3, <1>4, <1>5, <1>6

-----------------------------------------------------------------------------
(* The whole pass over the flows, and what it leaves.                      *)

(* The invariant of the state gives that of each flow at the current stage. *)
LEMMA FlowStands ==
    ASSUME StackInv, NEW f \in Flows
    PROVE  /\ Standing(tcp[f], sock[f], app[f], credit[f], Around(f))
           /\ AgesFollow(tcp[f], sock[f], Around(f))
           /\ Around(f).stage = pc
<1>1. FlowInv(tcp[f], sock[f], app[f], credit[f], Around(f))
  BY DEF StackInv
<1>2. /\ tcp[f] \in TcpFlows /\ sock[f] \in Sockets /\ app[f] \in Relays
      /\ credit[f] \in Credits /\ Around(f) \in Surroundings
  BY FlowTypes DEF StackInv, TcpFlows
<1> QED
  BY <1>1, <1>2 DEF FlowInv, Standing, Around

\* What the service stage makes of flow f.
Pass(f, expired, cap) ==
    IF tcp[f].live THEN ServiceTcp(Serviced(f), expired, cap) ELSE Serviced(f)

\* What it guarantees.
PassGood(f, expired, cap) ==
    \E t2, k2, a2, c2 : \E r \in BOOLEAN :
        /\ Pass(f, expired, cap) = B(t2, k2, a2, c2, r)
        /\ Passed(t2, k2, a2, c2, Seen(Around(f), r))
        /\ r => Earned(tcp[f], Around(f))

(* The service stage keeps the invariant of every flow. *)
LEMMA PassKeeps ==
    ASSUME StackInv, pc = "service", NEW f \in Flows,
           NEW expired \in BOOLEAN, NEW cap \in MinBudget..MaxBudget
    PROVE  PassGood(f, expired, cap)
<1> DEFINE t == tcp[f]
           k == sock[f]
           a == app[f]
           c == credit[f]
           x == Around(f)
           z == FALSE
<1>1. /\ Standing(t, k, a, c, x) /\ AgesFollow(t, k, x) /\ x.stage = "service"
  BY FlowStands
<1>2. Serviced(f) = B(t, k, a, c, z)
  BY DEF Serviced, B
<1>3. z \in BOOLEAN /\ ~z
  OBVIOUS
<1>4. Pass(f, expired, cap) = IF t.live THEN ServiceTcp(Serviced(f), expired, cap) ELSE Serviced(f)
  BY DEF Pass
<1>5. CASE t.live
  <2> HIDE DEF t, k, a, c, x, z
  <2>1. ServiceGood(t, k, a, c, x, z, expired, cap)
    BY <1>1, <1>3, <1>5, ServiceTcpKeeps
  <2>2. Pass(f, expired, cap) = ServiceTcp(B(t, k, a, c, z), expired, cap)
    BY <1>2, <1>4, <1>5
  <2>3. \E t2, k2, a2, c2 : \E r \in BOOLEAN :
          /\ Pass(f, expired, cap) = B(t2, k2, a2, c2, r)
          /\ Passed(t2, k2, a2, c2, Seen(x, r))
          /\ r => Earned(t, x)
    BY <2>1, <2>2 DEF ServiceGood
  <2> QED
    BY <2>3 DEF PassGood, t, x
<1>6. CASE ~t.live
  <2> HIDE DEF t, k, a, c, x, z
  <2>1. Passed(t, k, a, c, x)
    BY <1>1, <1>6 DEF Passed
  <2>2. Seen(x, z) = x
    <3>1. x \in Surroundings
      BY <1>1 DEF Standing
    <3>2. (x.broken \/ z) = x.broken
      BY <3>1 DEF Surroundings, z
    <3> QED
      BY <3>1, <3>2 DEF Seen, Surroundings
  <2>3. Pass(f, expired, cap) = B(t, k, a, c, z)
    BY <1>2, <1>4, <1>6
  <2>4. \E t2, k2, a2, c2 : \E r \in BOOLEAN :
          /\ Pass(f, expired, cap) = B(t2, k2, a2, c2, r)
          /\ Passed(t2, k2, a2, c2, Seen(x, r))
          /\ r => Earned(t, x)
    BY <1>3, <2>1, <2>2, <2>3
  <2> QED
    BY <2>4 DEF PassGood, t, x
<1> QED
  BY <1>5, <1>6

(* The same facts one stage on. *)
LEMMA PassedOn ==
    ASSUME NEW t, NEW k, NEW a, NEW c, NEW x, Passed(t, k, a, c, x), NEW y,
           y.got = x.got, y.fin = x.fin, y.quiet = x.quiet, y.broken = x.broken,
           y.asked = x.asked, y.backlog = x.backlog, y.stage = "backlog",
           y.dataIn = x.dataIn \/ (a.conn = "ok" /\ a.gone)
    PROVE  FlowInv(t, k, a, c, y)
<1>1. /\ Opened(t, k, a, x) /\ NothingRead(a) /\ UploadWhole(t, k, a, x) /\ FinLast(t, k, a)
      /\ AckCount(t, k, x) /\ Reserved(a, c) /\ EndedByPeer(k, a, x) /\ AgesFollow(t, k, x)
      /\ t.live /\ t.established => Judged(t, k, a, x)
  BY DEF Passed, Standing
<1>2. Opened(t, k, a, y)
  BY <1>1 DEF Opened
<1>3. AckCount(t, k, y) /\ EndedByPeer(k, a, y) /\ AgesFollow(t, k, y)
  BY <1>1 DEF AckCount, EndedByPeer, AgesFollow
<1>4. UploadWhole(t, k, a, y)
  <2>1. Counted(t, a, y) => Counted(t, a, x) /\ y.dataIn = x.dataIn
    BY DEF Counted
  <2> QED
    BY <1>1, <2>1 DEF UploadWhole
<1>5. JustServiced(t, k, a, y)
  BY <1>1 DEF JustServiced, Judged, Fed
<1> QED
  BY <1>1, <1>2, <1>3, <1>4, <1>5 DEF FlowInv

\* The next state is what the service stage makes of each flow.
ServicedAs(expired, cap) ==
    \A f \in Flows :
        /\ tcp'[f] = Pass(f, expired, cap).t /\ sock'[f] = Pass(f, expired, cap).k
        /\ app'[f] = Pass(f, expired, cap).a /\ credit'[f] = Pass(f, expired, cap).c
        /\ f \in broken' <=> f \in broken \/ Pass(f, expired, cap).reset

\* The flows answered in this pass whose caller is gone.
Unclaimed(expired, cap) ==
    {f \in Flows : /\ app[f].conn = "wait"
                  /\ Pass(f, expired, cap).a.conn = "ok" /\ Pass(f, expired, cap).a.gone}

\* Their connections are dropped.
ClosesQueued(expired, cap) ==
    \E q \in DroppedCloses(Unclaimed(expired, cap), QueueCap - Len(dataIn)) :
        dataIn' = dataIn \o q

(* What dropped connections queue fits, and means nothing to other flows. *)
LEMMA DroppedFit ==
    ASSUME NEW S, S \subseteq Flows, NEW room \in Nat, NEW q \in DroppedCloses(S, room)
    PROVE  /\ q \in Queues /\ Len(q) <= room
           /\ \A f \in Flows \ S : Stream(q, f) = <<>>
<1> DEFINE C == {CloseMsg(f) : f \in S}
<1>1. PICK n \in 0..room : q \in [1..n -> C]
  BY DEF DroppedCloses
<1>2. C \subseteq Chunk
  BY Messages
<1>3. \A f \in Flows \ S : \A d \in C : Item(d, f) = <<>>
  BY DEF CloseMsg, Item
<1> HIDE DEF C
<1>4. q \in Seq(C) /\ Len(q) = n
  BY <1>1
<1>5. \A r \in Seq(C) : r \in Queues
  BY <1>2, SeqMonotonic DEF Queues
<1>6. ASSUME NEW f \in Flows \ S PROVE Stream(q, f) = <<>>
  <2> DEFINE G == {r \in Seq(C) : Stream(r, f) = <<>>}
  <2>1. <<>> \in G
    BY <1>5, EmptySeq, StreamType
  <2>2. ASSUME NEW r \in Seq(C), NEW d \in C, r \in G PROVE Append(r, d) \in G
    <3>1. Stream(Append(r, d), f) = Stream(r, f) \o Item(d, f)
      BY <1>2, <1>5, StreamSteps
    <3>2. Append(r, d) \in Seq(C) /\ <<>> \o <<>> = <<>>
      BY AppendProperties, ByteSeqs
    <3> QED
      BY <1>3, <2>2, <3>1, <3>2
  <2> HIDE DEF G
  <2>3. q \in G
    BY <1>4, <2>1, <2>2, SeqInduction
  <2> QED
    BY <2>3 DEF G
<1> QED
  BY <1>1, <1>4, <1>5, <1>6

(* Service, flow by flow. *)
LEMMA ServiceIs ==
    ASSUME Service
    PROVE  /\ pc = "service" /\ pc' = "backlog"
           /\ UNCHANGED <<cmds, backlog, peer, quiet>>
           /\ \E expired \in BOOLEAN, cap \in MinBudget..MaxBudget :
                /\ ServicedAs(expired, cap)
                /\ ClosesQueued(expired, cap)
                /\ tcp' = [f \in Flows |-> Pass(f, expired, cap).t]
                /\ sock' = [f \in Flows |-> Pass(f, expired, cap).k]
                /\ app' = [f \in Flows |-> Pass(f, expired, cap).a]
                /\ credit' = [f \in Flows |-> Pass(f, expired, cap).c]
                /\ broken' = broken \cup {f \in Flows : Pass(f, expired, cap).reset}
<1>1. PICK expired \in BOOLEAN, cap \in MinBudget..MaxBudget :
        LET s == [f \in Flows |-> Pass(f, expired, cap)]
        IN  /\ tcp' = [f \in Flows |-> s[f].t]
            /\ sock' = [f \in Flows |-> s[f].k]
            /\ app' = [f \in Flows |-> s[f].a]
            /\ credit' = [f \in Flows |-> s[f].c]
            /\ broken' = broken \cup {f \in Flows : s[f].reset}
            /\ \E q \in DroppedCloses(
                     {f \in Flows : /\ app[f].conn = "wait"
                                   /\ s[f].a.conn = "ok" /\ s[f].a.gone},
                     QueueCap - Len(dataIn)) :
                 dataIn' = dataIn \o q
  BY DEF Service, Pass
<1>2. /\ tcp' = [f \in Flows |-> Pass(f, expired, cap).t]
      /\ sock' = [f \in Flows |-> Pass(f, expired, cap).k]
      /\ app' = [f \in Flows |-> Pass(f, expired, cap).a]
      /\ credit' = [f \in Flows |-> Pass(f, expired, cap).c]
      /\ broken' = broken \cup {f \in Flows : Pass(f, expired, cap).reset}
  BY <1>1
<1>3. ServicedAs(expired, cap)
  BY <1>2 DEF ServicedAs
<1>4. ClosesQueued(expired, cap)
  <2> DEFINE s == [f \in Flows |-> Pass(f, expired, cap)]
             S == {f \in Flows : /\ app[f].conn = "wait"
                                /\ s[f].a.conn = "ok" /\ s[f].a.gone}
  <2>1. S = Unclaimed(expired, cap)
    BY DEF Unclaimed
  <2>2. \E q \in DroppedCloses(S, QueueCap - Len(dataIn)) : dataIn' = dataIn \o q
    BY <1>1
  <2> HIDE DEF S
  <2> QED
    BY <2>1, <2>2 DEF ClosesQueued
<1> QED
  BY <1>2, <1>3, <1>4 DEF Service

(* Servicing every flow (service_tcp of one pass) keeps the invariant. *)
LEMMA ServiceKeeps == ASSUME StackInv, Service PROVE StackInv'
<1>1. /\ pc = "service" /\ pc' = "backlog"
      /\ UNCHANGED <<cmds, backlog, peer, quiet>>
  BY ServiceIs
<1>2. PICK expired \in BOOLEAN, cap \in MinBudget..MaxBudget :
                /\ ServicedAs(expired, cap)
                /\ ClosesQueued(expired, cap)
                /\ tcp' = [f \in Flows |-> Pass(f, expired, cap).t]
                /\ sock' = [f \in Flows |-> Pass(f, expired, cap).k]
                /\ app' = [f \in Flows |-> Pass(f, expired, cap).a]
                /\ credit' = [f \in Flows |-> Pass(f, expired, cap).c]
                /\ broken' = broken \cup {f \in Flows : Pass(f, expired, cap).reset}
  BY ServiceIs
<1>d. /\ dataIn' \in Queues /\ Len(dataIn') <= QueueCap
      /\ \A f \in Flows : f \in Unclaimed(expired, cap) \/ Stream(dataIn', f) = Stream(dataIn, f)
  <2> DEFINE S == Unclaimed(expired, cap)
             room == QueueCap - Len(dataIn)
  <2>1. /\ dataIn \in Queues /\ Len(dataIn) \in Nat /\ QueueCap \in Nat
        /\ Len(dataIn) <= QueueCap
    BY NetStackAssumption DEF StackInv, StackTypes, Queues
  <2>2. S \subseteq Flows
    BY DEF Unclaimed
  <2>3. room \in Nat /\ Len(dataIn) + room = QueueCap
    BY <2>1
  <2>4. PICK q \in DroppedCloses(S, room) : dataIn' = dataIn \o q
    BY <1>2 DEF ClosesQueued
  <2> HIDE DEF S, room
  <2>5. /\ q \in Queues /\ Len(q) <= room /\ Len(q) \in Nat
        /\ \A f \in Flows \ S : Stream(q, f) = <<>>
    BY <2>2, <2>3, <2>4, DroppedFit DEF Queues
  <2>6. dataIn' \in Queues /\ Len(dataIn') = Len(dataIn) + Len(q)
    BY <2>1, <2>4, <2>5, ConcatProperties DEF Queues
  <2>7. ASSUME NEW f \in Flows, f \notin S PROVE Stream(dataIn', f) = Stream(dataIn, f)
    <3>1. Stream(dataIn', f) = Stream(dataIn, f) \o Stream(q, f)
      BY <2>1, <2>4, <2>5, StreamConcat
    <3>2. Stream(q, f) = <<>> /\ Stream(dataIn, f) \in Bytes
      BY <2>1, <2>5, <2>7, StreamType
    <3> QED
      BY <3>1, <3>2, ByteSeqs
  <2>8. Len(dataIn') <= QueueCap
    BY <2>1, <2>3, <2>5, <2>6
  <2> QED
    BY <2>6, <2>7, <2>8 DEF S
<1>3. ASSUME NEW f \in Flows
      PROVE  /\ Pass(f, expired, cap).t \in TcpFlows /\ Pass(f, expired, cap).k \in Sockets
             /\ Pass(f, expired, cap).a \in Relays /\ Pass(f, expired, cap).c \in Credits
             /\ FlowInv(tcp[f], sock[f], app[f], credit[f], Around(f))'
  <2>1. PassGood(f, expired, cap)
    BY <1>1, PassKeeps
  <2>2. PICK t2, k2, a2, c2 : \E r \in BOOLEAN :
        /\ Pass(f, expired, cap) = B(t2, k2, a2, c2, r)
        /\ Passed(t2, k2, a2, c2, Seen(Around(f), r))
    BY <2>1 DEF PassGood
  <2>3. PICK r \in BOOLEAN :
        /\ Pass(f, expired, cap) = B(t2, k2, a2, c2, r)
        /\ Passed(t2, k2, a2, c2, Seen(Around(f), r))
    BY <2>2
  <2>4. /\ Pass(f, expired, cap).t = t2 /\ Pass(f, expired, cap).k = k2
        /\ Pass(f, expired, cap).a = a2 /\ Pass(f, expired, cap).c = c2
        /\ Pass(f, expired, cap).reset = r
    BY <2>3 DEF B
  <2>5. t2 \in TcpFlows /\ k2 \in Sockets /\ a2 \in Relays /\ c2 \in Credits
    BY <2>3 DEF Passed, Standing
  <2>6. /\ tcp'[f] = t2 /\ sock'[f] = k2 /\ app'[f] = a2 /\ credit'[f] = c2
        /\ f \in broken' <=> f \in broken \/ r
    BY <1>2, <2>4 DEF ServicedAs
  <2> DEFINE x == Seen(Around(f), r)
             y == Around(f)'
  <2>7. /\ y.got = x.got /\ y.fin = x.fin /\ y.quiet = x.quiet /\ y.broken = x.broken
        /\ y.asked = x.asked /\ y.backlog = x.backlog /\ y.stage = "backlog"
        /\ y.dataIn = x.dataIn \/ (a2.conn = "ok" /\ a2.gone)
    <3> DEFINE w == Around(f)
    <3>1. /\ y.got = w.got /\ y.fin = w.fin /\ y.quiet = w.quiet
          /\ y.asked = w.asked /\ y.backlog = w.backlog /\ y.stage = "backlog"
      BY <1>1 DEF Around, Asks
    <3>d. y.dataIn = w.dataIn \/ (a2.conn = "ok" /\ a2.gone)
      <4>1. CASE f \in Unclaimed(expired, cap)
        BY <2>4, <4>1 DEF Unclaimed
      <4>2. CASE Stream(dataIn', f) = Stream(dataIn, f)
        BY <4>2 DEF Around
      <4> QED
        BY <1>d, <4>1, <4>2
    <3>2. y.broken = (f \in broken') /\ w.broken = (f \in broken)
      BY DEF Around
    <3>3. w \in Surroundings
      BY FlowTypes DEF StackInv
    <3> HIDE DEF w
    <3>4. /\ x.got = w.got /\ x.fin = w.fin /\ x.quiet = w.quiet /\ x.broken = (w.broken \/ r)
          /\ x.asked = w.asked /\ x.backlog = w.backlog /\ x.dataIn = w.dataIn
      BY <3>3 DEF Seen, Surroundings, w
    <3> HIDE DEF x, y
    <3>5. y.broken = x.broken
      <4>1. (f \in broken') = (f \in broken \/ r)
        BY <2>6
      <4> QED
        BY <3>2, <3>4, <4>1, Zenon
    <3> QED
      BY <3>1, <3>d, <3>4, <3>5
  <2> HIDE DEF x, y
  <2>8. FlowInv(t2, k2, a2, c2, y)
    <3>1. Passed(t2, k2, a2, c2, x)
      BY <2>3 DEF x
    <3> QED
      BY <2>7, <3>1, PassedOn
  <2> QED
    BY <2>4, <2>5, <2>6, <2>8 DEF y
<1>4. StackTypes'
  <2>1. tcp' \in Tables
    BY <1>2, <1>3 DEF Tables, TcpFlows
  <2>2. sock' \in [Flows -> Sockets] /\ app' \in [Flows -> Relays] /\ credit' \in [Flows -> Credits]
    BY <1>2, <1>3
  <2>3. broken' \in SUBSET Flows
    BY <1>2 DEF StackInv, StackTypes
  <2> QED
    BY <1>1, <1>d, <2>1, <2>2, <2>3 DEF StackInv, StackTypes, Stages
<1> QED
  BY <1>3, <1>4 DEF StackInv

-----------------------------------------------------------------------------
(* What drain_backlog() and drain_app_data() do to a flow: messages go     *)
(* from the front of a queue behind what the flow has.                     *)

Joined(s, s1, s2) == s = s1 \o s2

\* The stack took s in behind what it held, unless something follows an end.
TakesPart(p, e, b, s, p2, e2, b2) ==
    EndsOnce(Part(p, e, b) \o s) => Part(p2, e2, b2) = Part(p, e, b) \o s

(* Ingestion moves bytes from the queue into the stack without changing the chain. *)
LEMMA ChainTakes ==
    ASSUME NEW g, NEW x, NEW p, NEW e, NEW b, NEW s, NEW h, NEW n, NEW r,
           Accounts(g, x, p, e, b, s, h, n, r),
           NEW p2, NEW e2, NEW b2, NEW s2, Places(g, x, p2, e2, b2, s2, h),
           NEW s1, s1 \in Bytes, Joined(s, s1, s2), TakesPart(p, e, b, s1, p2, e2, b2)
    PROVE  Accounts(g, x, p2, e2, b2, s2, h, n, r)
<1>0. /\ Places(g, x, p, e, b, s, h) /\ n \in Nat /\ r \in BOOLEAN
      /\ Chain(g, x, p, e, b, s, h) = Given(n, r)
  BY DEF Accounts
<1>00. /\ g \in Bytes /\ x \in Bytes /\ p \in Bytes /\ e \in BOOLEAN /\ b \in Bytes
       /\ s1 \in Bytes /\ s2 \in Bytes /\ h \in Bytes
       /\ p2 \in Bytes /\ e2 \in BOOLEAN /\ b2 \in Bytes
  BY <1>0 DEF Places
<1> DEFINE u == g \o x
           w == Part(p, e, b)
           w2 == Part(p2, e2, b2)
           y == w \o s1
           z == s2 \o h
<1>1. u \in Bytes /\ z \in Bytes
  BY <1>00, ByteSeqs
<1>2. w \in Bytes /\ w2 \in Bytes
  <2>1. Mark(e) \in Bytes /\ Mark(e2) \in Bytes
    BY <1>00, MarkType
  <2>2. p \o Mark(e) \in Bytes /\ p2 \o Mark(e2) \in Bytes
    BY <1>00, <2>1, ByteSeqs
  <2> QED
    BY <1>00, <2>2, ByteSeqs DEF Part
<1>3. Chain(g, x, p, e, b, s, h) = (u \o (w \o s)) \o h
  <2>2. Grouped(g, x, p, e, b, s, h)
    BY <1>0, ChainGroups
  <2> QED
    BY <2>2 DEF Grouped
<1>4. Chain(g, x, p2, e2, b2, s2, h) = (u \o (w2 \o s2)) \o h
  <2>1. Grouped(g, x, p2, e2, b2, s2, h)
    BY <1>0, ChainGroups
  <2> QED
    BY <2>1 DEF Grouped
<1> HIDE DEF u, w, w2
<1>5. y \in Bytes
  BY <1>00, <1>2, ByteSeqs
<1>6. w \o s = y \o s2
  <2>1. Assoc(w, s1, s2)
    BY <1>00, <1>2, ByteAssociates
  <2> QED
    BY <2>1 DEF Assoc, Joined
<1> HIDE DEF y
<1>7. (u \o (y \o s2)) \o h = (u \o y) \o z
  <2>1. u \o y \in Bytes
    BY <1>1, <1>5, ByteSeqs
  <2>2. Assoc(u, y, s2)
    BY <1>00, <1>1, <1>5, ByteAssociates
  <2>3. Assoc(u \o y, s2, h)
    BY <1>00, <2>1, ByteAssociates
  <2> QED
    BY <2>2, <2>3 DEF Assoc
<1>8. EndsOnce(Given(n, r))
  BY <1>0, GivenFacts
<1> HIDE DEF z
<1>9. EndsOnce(u \o y \o z)
  BY <1>0, <1>3, <1>6, <1>7, <1>8
<1>10. EndsOnce(y)
  BY <1>1, <1>5, <1>9, Infix
<1>11. w2 = y
  BY <1>10 DEF w, w2, y, TakesPart
<1> QED
  BY <1>0, <1>3, <1>4, <1>6, <1>11 DEF Accounts

(* The flow before and after, with what is around it. *)
Takes(t, u, x, y) ==
    /\ TookIn(t, u)
    /\ y.got = x.got /\ y.fin = x.fin /\ y.quiet = x.quiet /\ y.broken = x.broken
    /\ y.asked = x.asked

(* A flow that took in part of its upload keeps its invariant when the chain still holds it. *)
LEMMA TakesIn ==
    ASSUME NEW t, NEW k, NEW a, NEW c, NEW x, Standing(t, k, a, c, x), AgesFollow(t, k, x),
           NEW u \in TcpFlows, NEW y \in Surroundings, Takes(t, u, x, y), y.stage # "ended",
           Counted(t, a, x) =>
              Chain(x.got, k.tx, u.pending, u.half_closed, y.backlog, y.dataIn, a.hand)
                = Given(a.read, a.up_done)
    PROVE  Standing(u, k, a, c, y) /\ AgesFollow(u, k, y)
<1>1. /\ t \in TcpState /\ t \in TcpFlows /\ k \in Sockets /\ a \in Relays /\ c \in Credits
      /\ x \in Surroundings /\ Opened(t, k, a, x) /\ NothingRead(a) /\ UploadWhole(t, k, a, x)
      /\ FinLast(t, k, a) /\ AckCount(t, k, x) /\ Reserved(a, c) /\ EndedByPeer(k, a, x)
  BY DEF Standing, TcpFlows
<1>2. /\ u.live = t.live /\ u.established = t.established /\ u.accepted = t.accepted
      /\ u.acked_high = t.acked_high /\ u.send_queue_high = t.send_queue_high
      /\ u.drain_age = t.drain_age /\ u.progress_age = t.progress_age
      /\ t.half_closed => u.half_closed
      /\ ~t.live => u = t
  BY <1>1 DEF Takes, TookIn, TcpState
<1>3. /\ y.got = x.got /\ y.fin = x.fin /\ y.quiet = x.quiet /\ y.broken = x.broken
      /\ y.asked = x.asked
  BY DEF Takes
<1>4. Opened(u, k, a, y)
  BY <1>1, <1>2, <1>3 DEF Opened
<1>5. Counted(u, a, y) => Counted(t, a, x)
  BY <1>2, <1>3 DEF Counted
<1>6. UploadWhole(u, k, a, y)
  BY <1>3, <1>5 DEF UploadWhole
<1>7. AckCount(u, k, y) /\ EndedByPeer(k, a, y) /\ AgesFollow(u, k, y)
  BY <1>1, <1>2, <1>3 DEF AckCount, EndedByPeer, AgesFollow
<1>8. FinLast(u, k, a)
  <2> SUFFICES ASSUME k.state \in FinStates, ~a.gone PROVE u.half_closed /\ u.pending = <<>>
    BY DEF FinLast
  <2>1. t.half_closed /\ t.pending = <<>> /\ u.half_closed
    BY <1>1, <1>2 DEF FinLast
  <2>2. k.state \notin {"none", "SynSent", "Established", "CloseWait", "Closed"}
    BY DEF FinStates
  <2>3. t.live /\ t.established /\ ~x.broken
    <3>1. NoSocket.state = "none"
      BY NoSockets
    <3> QED
      BY <1>1, <2>2, <3>1 DEF Opened
  <2>4. Counted(t, a, x)
    BY <1>1, <2>3 DEF Counted, Opened
  <2> DEFINE g == x.got
             kt == k.tx
             p == t.pending
             v == u.pending
             b == x.backlog
             d == x.dataIn
             b2 == y.backlog
             d2 == y.dataIn
             h == a.hand
             n == a.read
             r == a.up_done
  <2>5. /\ g \in Bytes /\ kt \in Bytes /\ p \in Bytes /\ v \in Bytes /\ b \in Bytes /\ d \in Bytes
        /\ b2 \in Bytes /\ d2 \in Bytes /\ h \in Bytes /\ n \in Nat /\ r \in BOOLEAN
    <3>1. /\ kt \in UpSeq /\ p \in UpSeq /\ v \in UpSeq /\ h \in UpSeq
          /\ n \in 0..UpBytes /\ r \in BOOLEAN
      BY <1>1 DEF TcpFlows, TcpState, Sockets, Relays
    <3>2. g \in Bytes /\ b \in Bytes /\ d \in Bytes /\ b2 \in Bytes /\ d2 \in Bytes
      BY <1>1 DEF Surroundings
    <3>3. n \in Nat
      BY <3>1, Sizes
    <3> QED
      BY <3>1, <3>2, <3>3, UpSeqBytes
  <2> DEFINE e == t.half_closed
             e2 == u.half_closed
  <2>6. /\ Chain(g, kt, p, e, b, d, h) = Given(n, r)
        /\ Chain(g, kt, v, e2, b2, d2, h) = Given(n, r)
    BY <1>1, <2>4 DEF UploadWhole
  <2>7. e \in BOOLEAN /\ e2 \in BOOLEAN /\ e /\ e2
    BY <1>1, <2>1 DEF TcpFlows, TcpState
  <2>9. p = <<>>
    BY <2>1
  <2> HIDE DEF g, kt, p, v, b, d, b2, d2, h, n, r, e, e2
  <2>8. Accounts(g, kt, p, e, b, d, h, n, r) /\ Accounts(g, kt, v, e2, b2, d2, h, n, r)
    BY <2>5, <2>6, <2>7 DEF Accounts, Places
  <2>10. Ends(g, kt, p, b, d, h, n, r)
    BY <2>7, <2>8, ChainEnded
  <2>11. Ends(g, kt, v, b2, d2, h, n, r)
    BY <2>7, <2>8, ChainEnded
  <2>12. /\ Len(g) \in Nat /\ Len(kt) \in Nat /\ Len(v) \in Nat /\ Len(p) = 0
         /\ (v = <<>> <=> Len(v) = 0)
    BY <2>5, <2>9, ByteSeqs
  <2> DEFINE lg == Len(g)
             lk == Len(kt)
             lv == Len(v)
             lp == Len(p)
  <2>13. lv = 0
    <3>1. lg \in Nat /\ lk \in Nat /\ lv \in Nat /\ lp = 0 /\ lg + lk + lp = n /\ lg + lk + lv = n
      BY <2>10, <2>11, <2>12 DEF Ends
    <3> HIDE DEF lg, lk, lv, lp
    <3> QED
      BY <3>1
  <2> QED
    BY <2>1, <2>12, <2>13 DEF v
<1> QED
  BY <1>1, <1>4, <1>6, <1>7, <1>8 DEF Standing

(* The same of the flow as it stands. *)
LEMMA TakesStands ==
    ASSUME NEW t, NEW k, NEW a, NEW c, NEW x, Standing(t, k, a, c, x), AgesFollow(t, k, x),
           NEW u \in TcpFlows, NEW y \in Surroundings, Takes(t, u, x, y), y.stage # "ended",
           NEW b \in Bytes, NEW s \in Bytes, NEW s1 \in Bytes, Joined(s, s1, y.dataIn),
           Counted(t, a, x) =>
              Chain(x.got, k.tx, t.pending, t.half_closed, b, s, a.hand) = Given(a.read, a.up_done),
           x.backlog = <<>> /\ x.dataIn = <<>> => s1 = <<>>,
           t.live \/ s1 = <<>> =>
              TakesPart(t.pending, t.half_closed, b, s1, u.pending, u.half_closed, y.backlog)
    PROVE  Standing(u, k, a, c, y) /\ AgesFollow(u, k, y)
<1> SUFFICES ASSUME Counted(t, a, x)
             PROVE  Chain(x.got, k.tx, u.pending, u.half_closed, y.backlog, y.dataIn, a.hand)
                      = Given(a.read, a.up_done)
  BY TakesIn
<1>1. t.live \/ s1 = <<>>
  <2>1. CASE a.conn \in {"none", "wait"}
    BY <2>1, NothingYet
  <2>2. CASE ~(a.conn \in {"none", "wait"})
    BY <2>2 DEF Counted
  <2> QED
    BY <2>1, <2>2
<1> DEFINE g == x.got
           kt == k.tx
           p == t.pending
           e == t.half_closed
           p2 == u.pending
           e2 == u.half_closed
           b2 == y.backlog
           s2 == y.dataIn
           h == a.hand
           n == a.read
           r == a.up_done
<1>2. /\ g \in Bytes /\ kt \in Bytes /\ p \in Bytes /\ p2 \in Bytes /\ e \in BOOLEAN
      /\ e2 \in BOOLEAN /\ b2 \in Bytes /\ s2 \in Bytes /\ h \in Bytes /\ n \in Nat /\ r \in BOOLEAN
  <2>1. /\ kt \in UpSeq /\ p \in UpSeq /\ p2 \in UpSeq /\ h \in UpSeq /\ e \in BOOLEAN
        /\ e2 \in BOOLEAN /\ n \in 0..UpBytes /\ r \in BOOLEAN
    BY DEF Standing, TcpFlows, TcpState, Sockets, Relays
  <2>2. g \in Bytes /\ b2 \in Bytes /\ s2 \in Bytes
    BY DEF Standing, Surroundings
  <2> HIDE DEF n
  <2>3. n \in Nat
    BY <2>1, Sizes
  <2> QED
    BY <2>1, <2>2, <2>3, UpSeqBytes
<1>3. Chain(g, kt, p, e, b, s, h) = Given(n, r)
  OBVIOUS
<1>4. TakesPart(p, e, b, s1, p2, e2, b2) /\ Joined(s, s1, s2)
  BY <1>1
<1> HIDE DEF g, kt, p, e, p2, e2, b2, s2, h, n, r
<1>5. Accounts(g, kt, p, e, b, s, h, n, r) /\ Places(g, kt, p2, e2, b2, s2, h)
  BY <1>2, <1>3 DEF Accounts, Places
<1>6. Accounts(g, kt, p2, e2, b2, s2, h, n, r)
  BY <1>4, <1>5, ChainTakes
<1>7. Chain(g, kt, p2, e2, b2, s2, h) = Given(n, r)
  BY <1>6 DEF Accounts
<1> QED
  BY <1>7 DEF g, kt, p2, e2, b2, s2, h, n, r

(* Ingesting a queue takes in, for each flow, what the queue holds of it. *)
LEMMA IngestTakes ==
    ASSUME NEW t \in Tables, NEW b \in Queues, NEW q \in Queues, NEW f \in Flows,
           NEW d, d = IngestAll(t, b, q)
    PROVE  /\ d.tcp \in Tables /\ d.backlog \in Queues /\ TookIn(t[f], d.tcp[f])
           /\ d.tcp[f] \in TcpFlows
           /\ t[f].live \/ Stream(q, f) = <<>> =>
                TakesPart(t[f].pending, t[f].half_closed, Stream(b, f), Stream(q, f),
                          d.tcp[f].pending, d.tcp[f].half_closed, Stream(d.backlog, f))
<1>1. TookQueue(t, b, q, f)
  BY IngestsQueue
<1>2. d \in Books /\ TookIn(t[f], d.tcp[f])
  BY <1>1 DEF TookQueue
<1>3. d.tcp \in Tables /\ d.backlog \in Queues /\ d.tcp[f] \in TcpFlows
  BY <1>2 DEF Books, Tables, TcpFlows
<1>4. Inside(Start(t, b), f) = Part(t[f].pending, t[f].half_closed, Stream(b, f))
  BY DEF Inside, Start, Part
<1>5. Inside(d, f) = Part(d.tcp[f].pending, d.tcp[f].half_closed, Stream(d.backlog, f))
  BY DEF Inside, Part
<1>6. ASSUME t[f].live \/ Stream(q, f) = <<>>
      PROVE  TakesPart(t[f].pending, t[f].half_closed, Stream(b, f), Stream(q, f),
                          d.tcp[f].pending, d.tcp[f].half_closed, Stream(d.backlog, f))
  <2> DEFINE m == Part(t[f].pending, t[f].half_closed, Stream(b, f)) \o Stream(q, f)
  <2>1. EndsOnce(m) => Part(d.tcp[f].pending, d.tcp[f].half_closed, Stream(d.backlog, f)) = m
    BY <1>1, <1>4, <1>5, <1>6 DEF TookQueue
  <2> QED
    BY <2>1 DEF TakesPart
<1> QED
  BY <1>2, <1>3, <1>6

-----------------------------------------------------------------------------
(* drain_backlog() and reap_wedged().                                      *)

(* The flow and its surroundings once its backlog is taken in. *)
AfterBacklog(f) ==
    [got |-> peer[f].got, fin |-> peer[f].fin,
     backlog |-> Stream(IngestAll(tcp, <<>>, backlog).backlog, f),
     dataIn |-> Stream(dataIn, f), quiet |-> quiet[f], broken |-> f \in broken,
     asked |-> Asks(cmds, f), stage |-> "drain"]

(* Retrying the backlog keeps the invariant of every flow. *)
LEMMA BacklogTaken ==
    ASSUME StackInv, pc = "backlog", NEW f \in Flows, NEW d, d = IngestAll(tcp, <<>>, backlog)
    PROVE  /\ d.tcp \in Tables /\ d.backlog \in Queues /\ TookIn(tcp[f], d.tcp[f])
           /\ Standing(d.tcp[f], sock[f], app[f], credit[f], AfterBacklog(f))
           /\ AgesFollow(d.tcp[f], sock[f], AfterBacklog(f))
           /\ JustServiced(d.tcp[f], sock[f], app[f], AfterBacklog(f))
<1>1. tcp \in Tables /\ backlog \in Queues /\ dataIn \in Queues /\ <<>> \in Queues
  BY EmptySeq DEF StackInv, StackTypes, Queues
<1>2. /\ d.tcp \in Tables /\ d.backlog \in Queues /\ TookIn(tcp[f], d.tcp[f])
      /\ d.tcp[f] \in TcpFlows
      /\ tcp[f].live \/ Stream(backlog, f) = <<>> =>
           TakesPart(tcp[f].pending, tcp[f].half_closed, Stream(<<>>, f), Stream(backlog, f),
                     d.tcp[f].pending, d.tcp[f].half_closed, Stream(d.backlog, f))
  BY <1>1, IngestTakes
<1>3. /\ Stream(<<>>, f) = <<>> /\ Stream(d.backlog, f) \in Bytes
      /\ Stream(backlog, f) \in Bytes /\ Stream(dataIn, f) \in Bytes
  BY <1>1, <1>2, StreamType
<1> DEFINE t == tcp[f]
           k == sock[f]
           a == app[f]
           c == credit[f]
           x == Around(f)
           u == d.tcp[f]
           y == AfterBacklog(f)
<1>4. Standing(t, k, a, c, x) /\ AgesFollow(t, k, x) /\ x.stage = "backlog"
  BY FlowStands
<1>5. /\ y.got = x.got /\ y.fin = x.fin /\ y.quiet = x.quiet /\ y.broken = x.broken
      /\ y.asked = x.asked /\ y.dataIn = x.dataIn /\ y.stage = "drain"
      /\ y.backlog = Stream(d.backlog, f) /\ x.backlog = Stream(backlog, f)
      /\ x.dataIn = Stream(dataIn, f)
  BY DEF AfterBacklog, Around
<1>6. y \in Surroundings
  <2>1. x \in Surroundings
    BY <1>4 DEF Standing
  <2>2. /\ peer[f].got = x.got /\ peer[f].fin = x.fin /\ quiet[f] = x.quiet
        /\ (f \in broken) = x.broken /\ Asks(cmds, f) = x.asked /\ Stream(dataIn, f) = x.dataIn
    BY DEF Around
  <2> HIDE DEF x
  <2>3. /\ peer[f].got \in Bytes /\ peer[f].fin \in BOOLEAN /\ quiet[f] \in 0..StallReset
        /\ (f \in broken) \in BOOLEAN /\ Asks(cmds, f) \in BOOLEAN /\ Stream(dataIn, f) \in Bytes
    BY <2>1, <2>2 DEF Surroundings
  <2>4. "drain" \in Stages
    BY DEF Stages
  <2> QED
    BY <1>3, <2>3, <2>4 DEF AfterBacklog, Surroundings
<1>7. JustServiced(t, k, a, x)
  BY DEF StackInv, FlowInv
<1>8. Takes(t, u, x, y)
  BY <1>2, <1>5 DEF Takes
<1>10. tcp[f] = t
  OBVIOUS
<1> DEFINE e == <<>>
           s1 == Stream(backlog, f)
           s == s1 \o Stream(dataIn, f)
<1>11. /\ e \in Bytes /\ s1 \in Bytes /\ s \in Bytes /\ Joined(s, s1, y.dataIn)
       /\ x.backlog = s1
  BY <1>3, <1>5, ByteSeqs DEF Joined
<1>12. Counted(t, a, x) =>
          Chain(x.got, k.tx, t.pending, t.half_closed, e, s, a.hand) = Given(a.read, a.up_done)
  <2> SUFFICES ASSUME Counted(t, a, x)
               PROVE  Chain(x.got, k.tx, t.pending, t.half_closed, e, s, a.hand)
                        = Given(a.read, a.up_done)
    OBVIOUS
  <2>1. Chain(x.got, k.tx, t.pending, t.half_closed, s1, Stream(dataIn, f), a.hand)
          = Given(a.read, a.up_done)
    BY <1>4, <1>5 DEF Standing, UploadWhole
  <2> DEFINE g == x.got
             kt == k.tx
             p == t.pending
             w == Mark(t.half_closed)
             h == a.hand
             z == Stream(dataIn, f)
             v == ((g \o kt) \o p) \o w
  <2>2. g \in Bytes /\ kt \in Bytes /\ p \in Bytes /\ w \in Bytes
    <3>1. kt \in UpSeq /\ p \in UpSeq /\ t.half_closed \in BOOLEAN /\ g \in Bytes
      BY <1>4 DEF Standing, TcpFlows, TcpState, Sockets, Surroundings
    <3> QED
      BY <3>1, UpSeqBytes, MarkType
  <2>3. /\ Chain(x.got, k.tx, t.pending, t.half_closed, s1, z, a.hand) = ((v \o s1) \o z) \o h
        /\ Chain(x.got, k.tx, t.pending, t.half_closed, e, s, a.hand) = ((v \o <<>>) \o (s1 \o z)) \o h
    BY DEF Chain
  <2> HIDE DEF g, kt, p, w, h, s1, z
  <2>4. v \in Bytes
    <3>1. g \o kt \in Bytes
      BY <2>2, ByteSeqs
    <3>2. (g \o kt) \o p \in Bytes
      BY <2>2, <3>1, ByteSeqs
    <3> QED
      BY <2>2, <3>2, ByteSeqs
  <2> HIDE DEF v
  <2>5. v \o <<>> = v
    BY <2>4, ByteSeqs
  <2>6. Assoc(v, s1, z)
    BY <1>3, <1>11, <2>4, ByteAssociates DEF z
  <2> QED
    BY <2>1, <2>3, <2>5, <2>6 DEF Assoc, z
<1>13. t.live \/ s1 = <<>> =>
          TakesPart(t.pending, t.half_closed, e, s1, u.pending, u.half_closed, y.backlog)
  BY <1>2, <1>3, <1>5
<1> HIDE DEF t, k, a, c, x, u, y, e, s1, s
<1>14. Standing(u, k, a, c, y) /\ AgesFollow(u, k, y)
  <2>1. u \in TcpFlows
    BY <1>2 DEF u
  <2>2. y.stage # "ended"
    BY <1>5
  <2>3. x.backlog = <<>> /\ x.dataIn = <<>> => s1 = <<>>
    BY <1>11
  <2> QED
    BY <1>4, <1>6, <1>8, <1>11, <1>12, <1>13, <2>1, <2>2, <2>3, TakesStands
<1>15. JustServiced(u, k, a, y)
  <2>1. u.live = t.live /\ u.established = t.established /\ u.drain_age = t.drain_age
    <3>1. TookIn(t, u) /\ t \in TcpState
      BY <1>4, <1>8 DEF Takes, Standing, TcpFlows
    <3> QED
      BY <3>1 DEF TookIn, TcpState
  <2> QED
    BY <1>4, <1>5, <1>7, <2>1 DEF JustServiced
<1> QED
  BY <1>2, <1>14, <1>15 DEF t, k, a, c, u, y

(* Ingesting and purging give books and queues. *)
LEMMA QueueResults ==
    ASSUME NEW q \in Queues, NEW t \in Tables, NEW b \in Queues, NEW ids
    PROVE  IngestAll(t, b, q) \in Books /\ Purged(q, ids) \in Queues
<1>1. /\ Results(IngestAll(t, b, q), IngestStep, Books, Start(t, b), q)
      /\ Results(Purged(q, ids), PurgedStep(ids), Queues, <<>>, q)
  BY IngestResults, PurgedResults
<1>2. Len(q) \in 0..Len(q)
  BY DEF Queues
<1> QED
  BY <1>1, <1>2 DEF Results, Course

(* A flow that is reset: nothing pending, its socket and credit closed. *)
Reaped(t) == [t EXCEPT !.pending = <<>>]

(* Reaping a flow keeps its invariant: its upload no longer counts. *)
LEMMA ReapedKeeps ==
    ASSUME NEW t, NEW k, NEW a, NEW c, NEW x, Standing(t, k, a, c, x), AgesFollow(t, k, x),
           JustServiced(t, k, a, x), t.live, x.stage = "drain",
           NEW y, y.got = x.got, y.fin = x.fin, y.quiet = x.quiet, y.broken = TRUE,
           y.asked = x.asked, y.backlog = <<>>, y.dataIn = x.dataIn, y.stage = "drain"
    PROVE  /\ FlowInv(Reaped(t), SockAbort(k), a, ClosedCredit(c), y)
           /\ Reaped(t) \in TcpFlows /\ SockAbort(k) \in Sockets /\ ClosedCredit(c) \in Credits
<1> DEFINE t2 == Reaped(t)
           k2 == SockAbort(k)
           c2 == ClosedCredit(c)
<1>1. /\ t \in TcpState /\ t \in TcpFlows /\ k \in Sockets /\ a \in Relays /\ c \in Credits
      /\ x \in Surroundings /\ Opened(t, k, a, x) /\ NothingRead(a) /\ UploadWhole(t, k, a, x)
      /\ AckCount(t, k, x) /\ Reserved(a, c) /\ EndedByPeer(k, a, x)
  BY DEF Standing, TcpFlows
<1>2. /\ t2.live = t.live /\ t2.established = t.established /\ t2.half_closed = t.half_closed
      /\ t2.pending = <<>> /\ t2.accepted = t.accepted /\ t2.acked_high = t.acked_high
      /\ t2.progress_age = t.progress_age /\ t2.send_queue_high = t.send_queue_high
      /\ t2.drain_age = t.drain_age
  BY <1>1 DEF TcpState, Reaped
<1>3. t2 \in TcpFlows
  <2>1. <<>> \in UpSeq /\ Len(<<>>) <= PendingMax
    BY EmptySeq, Sizes DEF UpSeq
  <2> QED
    BY <1>1, <2>1 DEF TcpFlows, TcpState, Reaped
<1>4. k2 \in Sockets /\ k2.tx = k.tx /\ k2.state = "Closed"
  BY <1>1 DEF SockAbort, Sockets, SockStates
<1>5. c2 \in Credits /\ c2.sent = c.sent
  BY <1>1 DEF Credits, ClosedCredit
<1> HIDE DEF t2, k2, c2
<1>6. a.conn \in {"ok", "wait"} /\ ~x.asked
  BY <1>1 DEF Opened
<1>7. Opened(t2, k2, a, y)
  BY <1>1, <1>2, <1>4, <1>6 DEF Opened
<1>8. UploadWhole(t2, k2, a, y)
  <2> SUFFICES ASSUME Counted(t2, a, y)
               PROVE  Chain(y.got, k2.tx, t2.pending, t2.half_closed, y.backlog, y.dataIn, a.hand)
                        = Given(a.read, a.up_done)
    BY DEF UploadWhole
  <2>1. a.conn \in {"none", "wait"}
    BY DEF Counted
  <2>2. /\ x.got = <<>> /\ k.tx = <<>> /\ ~t.half_closed /\ x.dataIn = <<>> /\ a.hand = <<>>
        /\ Given(a.read, a.up_done) = <<>>
    BY <2>1, NothingYet
  <2>3. Mark(t2.half_closed) = Mark(FALSE)
    BY <1>2, <2>2 DEF Mark
  <2>4. Chain(y.got, k2.tx, t2.pending, t2.half_closed, y.backlog, y.dataIn, a.hand)
          = Chain(<<>>, <<>>, <<>>, FALSE, <<>>, <<>>, <<>>)
    BY <1>2, <1>4, <2>2, <2>3 DEF Chain
  <2> QED
    BY <2>2, <2>4, ChainNone
<1>9. FinLast(t2, k2, a) /\ EndedByPeer(k2, a, y) /\ Reserved(a, c2)
  BY <1>1, <1>4, <1>5 DEF FinLast, FinStates, EndedByPeer, Reserved
<1>10. AckCount(t2, k2, y) /\ AgesFollow(t2, k2, y)
  BY <1>1, <1>2, <1>4 DEF AckCount, AgesFollow
<1>11. JustServiced(t2, k2, a, y)
  BY <1>2, <1>4 DEF JustServiced
<1>12. FlowInv(t2, k2, a, c2, y)
  BY <1>1, <1>7, <1>8, <1>9, <1>10, <1>11 DEF FlowInv
<1> QED
  BY <1>3, <1>4, <1>5, <1>12 DEF t2, k2, c2

(* A flow that is not reset; what it had in the backlog is dropped if it is gone. *)
LEMMA SparedKeeps ==
    ASSUME NEW t, NEW k, NEW a, NEW c, NEW x, Standing(t, k, a, c, x), AgesFollow(t, k, x),
           JustServiced(t, k, a, x), x.stage = "drain",
           NEW y, y.got = x.got, y.fin = x.fin, y.quiet = x.quiet, y.broken = x.broken,
           y.asked = x.asked, y.backlog = x.backlog \/ (~t.live /\ y.backlog = <<>>),
           y.dataIn = x.dataIn, y.stage = "drain"
    PROVE  FlowInv(t, k, a, c, y)
<1>1. /\ Opened(t, k, a, x) /\ NothingRead(a) /\ UploadWhole(t, k, a, x) /\ FinLast(t, k, a)
      /\ AckCount(t, k, x) /\ Reserved(a, c) /\ EndedByPeer(k, a, x)
  BY DEF Standing
<1>2. Opened(t, k, a, y)
  BY <1>1 DEF Opened
<1>3. UploadWhole(t, k, a, y)
  <2> SUFFICES ASSUME Counted(t, a, y)
               PROVE  Chain(y.got, k.tx, t.pending, t.half_closed, y.backlog, y.dataIn, a.hand)
                        = Given(a.read, a.up_done)
    BY DEF UploadWhole
  <2>1. Counted(t, a, x)
    BY DEF Counted
  <2>2. y.backlog = x.backlog
    <3>1. CASE t.live
      BY <3>1
    <3>2. CASE ~t.live
      <4>1. a.conn \in {"none", "wait"}
        BY <2>1, <3>2 DEF Counted
      <4>2. x.backlog = <<>>
        BY <4>1, NothingYet
      <4> QED
        BY <4>2
    <3> QED
      BY <3>1, <3>2
  <2> QED
    BY <1>1, <2>1, <2>2 DEF UploadWhole
<1>4. AckCount(t, k, y) /\ EndedByPeer(k, a, y) /\ AgesFollow(t, k, y) /\ JustServiced(t, k, a, y)
  BY <1>1 DEF AckCount, EndedByPeer, AgesFollow, JustServiced
<1> QED
  BY <1>1, <1>2, <1>3, <1>4 DEF FlowInv

(* The sets of reap_wedged(). *)
Reaps(d) == Stalled(d.tcp) \cup Wedged(d.tcp, Purged(d.backlog, Stalled(d.tcp)))

(* Backlog, flow by flow. *)
LEMMA BacklogIs ==
    ASSUME Backlog, NEW d, d = IngestAll(tcp, <<>>, backlog)
    PROVE  LET dead == Reaps(d)
               hit  == {f \in dead : d.tcp[f].live}
           IN  /\ backlog' = Purged(d.backlog, dead)
               /\ tcp' = [f \in Flows |-> IF f \in hit THEN Reaped(d.tcp[f]) ELSE d.tcp[f]]
               /\ sock' = [f \in Flows |-> IF f \in hit THEN SockAbort(sock[f]) ELSE sock[f]]
               /\ credit' = [f \in Flows |->
                              IF f \in hit THEN ClosedCredit(credit[f]) ELSE credit[f]]
               /\ broken' = broken \cup hit
               /\ pc = "backlog" /\ pc' = "drain"
               /\ UNCHANGED <<cmds, dataIn, app, peer, quiet>>
  BY DEF Backlog, DrainBacklogFrom, Reaps, Reaped, ClosedCredit

(* Retrying the backlog and reaping stalled and wedged flows keeps the invariant. *)
LEMMA BacklogKeeps == ASSUME StackInv, Backlog PROVE StackInv'
<1> DEFINE d == IngestAll(tcp, <<>>, backlog)
           dead == Reaps(d)
           hit == {f \in dead : d.tcp[f].live}
<1>1. /\ backlog' = Purged(d.backlog, dead)
      /\ tcp' = [f \in Flows |-> IF f \in hit THEN Reaped(d.tcp[f]) ELSE d.tcp[f]]
      /\ sock' = [f \in Flows |-> IF f \in hit THEN SockAbort(sock[f]) ELSE sock[f]]
      /\ credit' = [f \in Flows |-> IF f \in hit THEN ClosedCredit(credit[f]) ELSE credit[f]]
      /\ broken' = broken \cup hit
      /\ pc = "backlog" /\ pc' = "drain"
      /\ UNCHANGED <<cmds, dataIn, app, peer, quiet>>
  BY BacklogIs
<1>2. dead \subseteq Flows
  BY DEF Reaps, Stalled, Wedged
<1>3. ASSUME NEW f \in Flows
      PROVE  /\ d.tcp \in Tables /\ d.backlog \in Queues
             /\ Standing(d.tcp[f], sock[f], app[f], credit[f], AfterBacklog(f))
             /\ AgesFollow(d.tcp[f], sock[f], AfterBacklog(f))
             /\ JustServiced(d.tcp[f], sock[f], app[f], AfterBacklog(f))
  BY <1>1, BacklogTaken
<1>4. d.tcp \in Tables /\ d.backlog \in Queues
  <2>1. tcp \in Tables /\ backlog \in Queues /\ <<>> \in Queues
    BY EmptySeq DEF StackInv, StackTypes, Queues
  <2>2. d \in Books
    BY <2>1, QueueResults
  <2> QED
    BY <2>2 DEF Books
<1>5. backlog' \in Queues
  <2>1. tcp \in Tables /\ <<>> \in Queues
    BY EmptySeq DEF StackInv, StackTypes, Queues
  <2> QED
    BY <1>1, <1>4, <2>1, QueueResults
<1>6. ASSUME NEW f \in Flows
      PROVE  /\ tcp'[f] \in TcpFlows /\ sock'[f] \in Sockets /\ credit'[f] \in Credits
             /\ FlowInv(tcp[f], sock[f], app[f], credit[f], Around(f))'
  <2> DEFINE t == d.tcp[f]
             k == sock[f]
             a == app[f]
             c == credit[f]
             x == AfterBacklog(f)
             y == Around(f)'
  <2>1. Standing(t, k, a, c, x) /\ AgesFollow(t, k, x) /\ JustServiced(t, k, a, x)
    BY <1>3
  <2>2. Stream(Purged(d.backlog, dead), f) = IF f \in dead THEN <<>> ELSE Stream(d.backlog, f)
    BY <1>4, PurgedFor
  <2>3. /\ y.got = x.got /\ y.fin = x.fin /\ y.quiet = x.quiet /\ y.asked = x.asked
        /\ y.dataIn = x.dataIn /\ y.stage = "drain" /\ x.stage = "drain"
        /\ y.broken = (f \in broken') /\ x.broken = (f \in broken)
    BY <1>1 DEF Around, AfterBacklog, Asks
  <2>4. /\ x.backlog = Stream(d.backlog, f)
        /\ y.backlog = Stream(backlog', f)
    BY DEF Around, AfterBacklog
  <2>5. y.backlog = IF f \in dead THEN <<>> ELSE x.backlog
    BY <1>1, <2>2, <2>4
  <2>6. CASE f \in hit
    <3>1. f \in dead /\ t.live
      BY <2>6
    <3>2. y.broken = TRUE /\ y.backlog = <<>>
      BY <1>1, <2>3, <2>5, <2>6, <3>1
    <3>3. /\ tcp'[f] = Reaped(t) /\ sock'[f] = SockAbort(k) /\ credit'[f] = ClosedCredit(c)
          /\ app'[f] = a
      BY <1>1, <2>6
    <3> HIDE DEF t, k, a, c, x, y
    <3>4. /\ FlowInv(Reaped(t), SockAbort(k), a, ClosedCredit(c), y)
          /\ Reaped(t) \in TcpFlows /\ SockAbort(k) \in Sockets /\ ClosedCredit(c) \in Credits
      BY <2>1, <2>3, <3>1, <3>2, ReapedKeeps
    <3> QED
      BY <3>3, <3>4 DEF y
  <2>7. CASE f \notin hit
    <3>1. f \notin dead \/ ~t.live
      BY <2>7
    <3>2. y.broken = x.broken
      BY <1>1, <2>3, <2>7
    <3>3. y.backlog = x.backlog \/ (~t.live /\ y.backlog = <<>>)
      BY <2>5, <3>1
    <3>4. tcp'[f] = t /\ sock'[f] = k /\ credit'[f] = c /\ app'[f] = a
      BY <1>1, <2>7
    <3> HIDE DEF t, k, a, c, x, y
    <3>5. FlowInv(t, k, a, c, y)
      BY <2>1, <2>3, <3>2, <3>3, SparedKeeps
    <3>6. t \in TcpFlows /\ k \in Sockets /\ c \in Credits
      BY <2>1 DEF Standing
    <3> QED
      BY <3>4, <3>5, <3>6 DEF y
  <2> QED
    BY <2>6, <2>7
<1>7. StackTypes'
  <2>1. tcp' \in Tables
    <3>1. tcp' \in [Flows -> TcpState] /\ \A f \in Flows : Len(tcp'[f].pending) <= PendingMax
      BY <1>1, <1>6 DEF TcpFlows
    <3> QED
      BY <3>1 DEF Tables
  <2>2. sock' \in [Flows -> Sockets] /\ credit' \in [Flows -> Credits]
    BY <1>1, <1>6
  <2>3. broken' \in SUBSET Flows
    BY <1>1, <1>2 DEF StackInv, StackTypes
  <2>4. pc' \in Stages
    BY <1>1 DEF Stages
  <2> HIDE DEF d, dead, hit
  <2> QED
    BY <1>1, <1>5, <2>1, <2>2, <2>3, <2>4 DEF StackInv, StackTypes
<1> QED
  BY <1>6, <1>7 DEF StackInv

-----------------------------------------------------------------------------
(* drain_app_data(), handle_cmd() and the clock.                           *)

(* Taking the first n messages of a queue splits every flow's stream in two. *)
LEMMA QueueSplit ==
    ASSUME NEW q \in Queues, NEW n \in 0..Len(q)
    PROVE  /\ SubSeq(q, 1, n) \in Queues /\ SubSeq(q, n + 1, Len(q)) \in Queues
           /\ Len(SubSeq(q, n + 1, Len(q))) <= Len(q)
           /\ \A f \in Flows :
                Joined(Stream(q, f), Stream(SubSeq(q, 1, n), f), Stream(SubSeq(q, n + 1, Len(q)), f))
<1>1. Len(q) \in Nat /\ q \in Seq(Chunk)
  BY DEF Queues
<1>2. n \in Nat /\ n <= Len(q)
  BY <1>1
<1>3. \A i \in 1..Len(q) : q[i] \in Chunk
  BY <1>1, ElementOfSeq
<1>4. /\ \A i \in 1..n : q[i] \in Chunk
      /\ \A i \in (n + 1)..Len(q) : q[i] \in Chunk
  BY <1>1, <1>2, <1>3
<1>5. SubSeq(q, 1, n) \in Seq(Chunk)
  BY <1>2, <1>4, SubSeqProperties
<1>6. SubSeq(q, n + 1, Len(q)) \in Seq(Chunk) /\ Len(SubSeq(q, n + 1, Len(q))) <= Len(q)
  <2>1. n + 1 \in Int /\ Len(q) \in Int
    BY <1>1, <1>2
  <2>2. /\ SubSeq(q, n + 1, Len(q)) \in Seq(Chunk)
        /\ Len(SubSeq(q, n + 1, Len(q))) = IF n + 1 <= Len(q) THEN Len(q) - (n + 1) + 1 ELSE 0
    BY <1>4, <2>1, SubSeqProperties
  <2> QED
    BY <1>1, <1>2, <2>2
<1>7. SubSeq(q, 1, n) \o SubSeq(q, n + 1, Len(q)) = SubSeq(q, 1, Len(q))
  <2>1. 1 \in 1..(Len(q) + 1) /\ n \in (1 - 1)..Len(q) /\ Len(q) \in n..Len(q)
    BY <1>1, <1>2
  <2> QED
    BY <1>1, <2>1, ConcatAdjacentSubSeq
<1>8. SubSeq(q, 1, Len(q)) = q
  BY <1>1, SubSeqFull
<1> DEFINE q1 == SubSeq(q, 1, n)
           q2 == SubSeq(q, n + 1, Len(q))
<1>9. q1 \in Queues /\ q2 \in Queues /\ q1 \o q2 = q
  BY <1>5, <1>6, <1>7, <1>8 DEF Queues
<1> HIDE DEF q1, q2
<1>10. \A f \in Flows : Joined(Stream(q, f), Stream(q1, f), Stream(q2, f))
  <2> TAKE f \in Flows
  <2>1. Stream(q1 \o q2, f) = Stream(q1, f) \o Stream(q2, f)
    BY <1>9, StreamConcat
  <2> QED
    BY <1>9, <2>1 DEF Joined
<1> QED
  BY <1>6, <1>9, <1>10 DEF q1, q2

(* The flow and its surroundings once n messages of data_in are taken in. *)
AfterData(f, n) ==
    [got |-> peer[f].got, fin |-> peer[f].fin,
     backlog |-> Stream(IngestAll(tcp, backlog, SubSeq(dataIn, 1, n)).backlog, f),
     dataIn |-> Stream(SubSeq(dataIn, n + 1, Len(dataIn)), f),
     quiet |-> quiet[f], broken |-> f \in broken,
     asked |-> Asks(cmds, f), stage |-> "drain"]

(* Taking messages from the queue (drain_app_data) keeps the invariant of every flow. *)
LEMMA DataTaken ==
    ASSUME StackInv, pc = "drain", NEW f \in Flows, NEW n \in 0..Len(dataIn),
           NEW d, d = IngestAll(tcp, backlog, SubSeq(dataIn, 1, n))
    PROVE  /\ TookIn(tcp[f], d.tcp[f])
           /\ Standing(d.tcp[f], sock[f], app[f], credit[f], AfterData(f, n))
           /\ AgesFollow(d.tcp[f], sock[f], AfterData(f, n))
           /\ JustServiced(d.tcp[f], sock[f], app[f], AfterData(f, n))
<1> DEFINE q1 == SubSeq(dataIn, 1, n)
           q2 == SubSeq(dataIn, n + 1, Len(dataIn))
<1>1. tcp \in Tables /\ backlog \in Queues /\ dataIn \in Queues
  BY DEF StackInv, StackTypes
<1>0. q1 \in Queues /\ q2 \in Queues /\ Joined(Stream(dataIn, f), Stream(q1, f), Stream(q2, f))
  BY <1>1, QueueSplit
<1> HIDE DEF q1, q2
<1>2. /\ d.tcp \in Tables /\ d.backlog \in Queues /\ TookIn(tcp[f], d.tcp[f])
      /\ d.tcp[f] \in TcpFlows
      /\ tcp[f].live \/ Stream(q1, f) = <<>> =>
           TakesPart(tcp[f].pending, tcp[f].half_closed, Stream(backlog, f), Stream(q1, f),
                     d.tcp[f].pending, d.tcp[f].half_closed, Stream(d.backlog, f))
  <2>1. d = IngestAll(tcp, backlog, q1)
    BY DEF q1
  <2> QED
    BY <1>0, <1>1, <2>1, IngestTakes
<1>3. /\ Stream(d.backlog, f) \in Bytes /\ Stream(q1, f) \in Bytes /\ Stream(q2, f) \in Bytes
      /\ Stream(backlog, f) \in Bytes /\ Stream(dataIn, f) \in Bytes
  BY <1>0, <1>1, <1>2, StreamType
<1> DEFINE t == tcp[f]
           k == sock[f]
           a == app[f]
           c == credit[f]
           x == Around(f)
           u == d.tcp[f]
           y == AfterData(f, n)
<1>4. Standing(t, k, a, c, x) /\ AgesFollow(t, k, x) /\ x.stage = "drain"
  BY FlowStands
<1>5. /\ y.got = x.got /\ y.fin = x.fin /\ y.quiet = x.quiet /\ y.broken = x.broken
      /\ y.asked = x.asked /\ y.dataIn = Stream(q2, f) /\ y.stage = "drain"
      /\ y.backlog = Stream(d.backlog, f) /\ x.backlog = Stream(backlog, f)
      /\ x.dataIn = Stream(dataIn, f)
  BY DEF AfterData, Around, q2
<1>6. y \in Surroundings
  <2>1. x \in Surroundings
    BY <1>4 DEF Standing
  <2>2. /\ peer[f].got = x.got /\ peer[f].fin = x.fin /\ quiet[f] = x.quiet
        /\ (f \in broken) = x.broken /\ Asks(cmds, f) = x.asked
    BY DEF Around
  <2> HIDE DEF x
  <2>3. /\ peer[f].got \in Bytes /\ peer[f].fin \in BOOLEAN /\ quiet[f] \in 0..StallReset
        /\ (f \in broken) \in BOOLEAN /\ Asks(cmds, f) \in BOOLEAN
    BY <2>1, <2>2 DEF Surroundings
  <2>4. "drain" \in Stages
    BY DEF Stages
  <2> QED
    BY <1>3, <2>3, <2>4 DEF AfterData, Surroundings, q2
<1>7. JustServiced(t, k, a, x)
  BY DEF StackInv, FlowInv
<1>8. Takes(t, u, x, y)
  BY <1>2, <1>5 DEF Takes
<1> DEFINE b == Stream(backlog, f)
           s1 == Stream(q1, f)
           s == Stream(dataIn, f)
<1>11. /\ b \in Bytes /\ s1 \in Bytes /\ s \in Bytes /\ Joined(s, s1, y.dataIn)
       /\ x.backlog = b /\ x.dataIn = s
  BY <1>0, <1>3, <1>5
<1>12. Counted(t, a, x) =>
          Chain(x.got, k.tx, t.pending, t.half_closed, b, s, a.hand) = Given(a.read, a.up_done)
  BY <1>4, <1>5 DEF Standing, UploadWhole
<1>13. t.live \/ s1 = <<>> =>
          TakesPart(t.pending, t.half_closed, b, s1, u.pending, u.half_closed, y.backlog)
  BY <1>2, <1>5
<1>16. x.backlog = <<>> /\ x.dataIn = <<>> => s1 = <<>>
  <2>1. Joined(s, s1, Stream(q2, f)) /\ Stream(q2, f) \in Bytes
    BY <1>0, <1>3
  <2> HIDE DEF s, s1
  <2>2. s = <<>> => s1 = <<>>
    BY <1>11, <2>1, ByteSeqs DEF Joined
  <2> QED
    BY <1>11, <2>2
<1> HIDE DEF t, k, a, c, x, u, y, b, s1, s
<1>14. Standing(u, k, a, c, y) /\ AgesFollow(u, k, y)
  <2>1. u \in TcpFlows
    BY <1>2 DEF u
  <2>2. y.stage # "ended"
    BY <1>5
  <2> QED
    BY <1>4, <1>6, <1>8, <1>11, <1>12, <1>13, <1>16, <2>1, <2>2, TakesStands
<1>15. JustServiced(u, k, a, y)
  <2>1. u.live = t.live /\ u.established = t.established /\ u.drain_age = t.drain_age
    <3>1. TookIn(t, u) /\ t \in TcpState
      BY <1>4, <1>8 DEF Takes, Standing, TcpFlows
    <3> QED
      BY <3>1 DEF TookIn, TcpState
  <2> QED
    BY <1>4, <1>5, <1>7, <2>1 DEF JustServiced
<1> QED
  BY <1>2, <1>14, <1>15 DEF t, k, a, c, u, y

(* An age grows by one up to its cap. *)
LEMMA AgedIs ==
    ASSUME NEW m \in Nat, NEW i \in 0..m
    PROVE  /\ Aged(i, m) \in 0..m /\ Aged(i, m) <= i + 1
           /\ i = m => Aged(i, m) = m
           /\ i < m => Aged(i, m) = i + 1
  BY DEF Aged

(* The peer's silence stays within its cap. *)
LEMMA QuietAges ==
    ASSUME NEW q \in 0..StallReset
    PROVE  Aged(q, StallReset) \in 0..StallReset
  BY Sizes DEF Aged

(* A flow, a tick older or not. *)
Older(t) ==
    [t EXCEPT !.drain_age = Aged(t.drain_age, StallReset),
              !.progress_age = Aged(t.progress_age, Wedge),
              !.orphan_age = IF t.orphaned THEN Aged(t.orphan_age, Linger) ELSE t.orphan_age,
              !.connect_age = IF t.established THEN t.connect_age
                              ELSE Aged(t.connect_age, ConnectLimit)]

(* A tick changes nothing but the ages. *)
LEMMA OlderIs ==
    ASSUME NEW t \in TcpFlows
    PROVE  /\ Older(t) \in TcpFlows
           /\ Older(t).live = t.live /\ Older(t).established = t.established
           /\ Older(t).half_closed = t.half_closed /\ Older(t).pending = t.pending
           /\ Older(t).accepted = t.accepted /\ Older(t).acked_high = t.acked_high
           /\ Older(t).send_queue_high = t.send_queue_high
           /\ Older(t).drain_age = Aged(t.drain_age, StallReset)
           /\ Older(t).progress_age = Aged(t.progress_age, Wedge)
<1>1. t \in TcpState /\ Len(t.pending) <= PendingMax
  BY DEF TcpFlows
<1>2. /\ Aged(t.drain_age, StallReset) \in 0..StallReset
      /\ Aged(t.progress_age, Wedge) \in 0..Wedge
      /\ Aged(t.orphan_age, Linger) \in 0..Linger
      /\ Aged(t.connect_age, ConnectLimit) \in 0..ConnectLimit
  <2>1. /\ t.drain_age \in 0..StallReset /\ t.progress_age \in 0..Wedge
        /\ t.orphan_age \in 0..Linger /\ t.connect_age \in 0..ConnectLimit
    BY <1>1 DEF TcpState
  <2> QED
    BY <2>1, Sizes, AgedIs
<1> DEFINE d == Aged(t.drain_age, StallReset)
           p == Aged(t.progress_age, Wedge)
           o == IF t.orphaned THEN Aged(t.orphan_age, Linger) ELSE t.orphan_age
           c == IF t.established THEN t.connect_age ELSE Aged(t.connect_age, ConnectLimit)
<1>3. d \in 0..StallReset /\ p \in 0..Wedge /\ o \in 0..Linger /\ c \in 0..ConnectLimit
  BY <1>1, <1>2 DEF TcpState
<1>4. Older(t) = [t EXCEPT !.drain_age = d, !.progress_age = p, !.orphan_age = o, !.connect_age = c]
  BY DEF Older
<1> HIDE DEF d, p, o, c
<1> DEFINE u == [t EXCEPT !.drain_age = d, !.progress_age = p, !.orphan_age = o, !.connect_age = c]
<1>5. /\ u \in TcpState
      /\ u.live = t.live /\ u.established = t.established
      /\ u.half_closed = t.half_closed /\ u.pending = t.pending
      /\ u.accepted = t.accepted /\ u.acked_high = t.acked_high
      /\ u.send_queue_high = t.send_queue_high
      /\ u.drain_age = d /\ u.progress_age = p
  BY <1>1, <1>3 DEF TcpState
<1> HIDE DEF u
<1>6. u \in TcpFlows
  BY <1>1, <1>5 DEF TcpFlows
<1>7. Older(t) = u
  BY <1>4 DEF u
<1> QED
  BY <1>5, <1>6, <1>7 DEF d, p

(* What a flow's fields become when a tick passes for it, or none. *)
Grows(t, t2, q, q2, tx) ==
    /\ t2.live = t.live /\ t2.established = t.established
    /\ t2.half_closed = t.half_closed /\ t2.pending = t.pending
    /\ t2.accepted = t.accepted /\ t2.acked_high = t.acked_high
    /\ t2.send_queue_high = t.send_queue_high
    /\ \/ /\ t2.drain_age = t.drain_age /\ t2.progress_age = t.progress_age
          /\ q2 = IF tx = <<>> THEN 0 ELSE q
       \/ /\ t2.drain_age = Aged(t.drain_age, StallReset)
          /\ t2.progress_age = Aged(t.progress_age, Wedge)
          /\ q2 = IF tx = <<>> THEN 0 ELSE Aged(q, StallReset)
    /\ ~t.live => t2 = t

(* The ages of a flow keep following the peer's silence when time passes. *)
LEMMA GrowsFollows ==
    ASSUME NEW t \in TcpFlows, NEW k \in Sockets, NEW a, NEW x \in Surroundings, AgesFollow(t, k, x),
           JustServiced(t, k, a, x), x.stage = "drain",
           NEW t2, NEW y, y.got = x.got, Grows(t, t2, x.quiet, y.quiet, k.tx)
    PROVE  AgesFollow(t2, k, y)
<1> DEFINE q == x.quiet
           q2 == y.quiet
           da == t.drain_age
           da2 == t2.drain_age
           pa == t.progress_age
           pa2 == t2.progress_age
<1>1. q \in 0..StallReset /\ da \in 0..StallReset /\ pa \in 0..Wedge
  BY DEF Surroundings, TcpFlows, TcpState
<1>2. t.live /\ t.established /\ k.tx = <<>> => da = 0
  BY DEF JustServiced
<1>3. /\ t.live /\ t.established /\ Len(x.got) <= t.acked_high => da <= q + 1
      /\ t.live /\ Len(k.tx) = SendBuf => pa <= q + 1 \/ q = StallReset
  BY DEF AgesFollow
<1>4. \/ da2 = da /\ pa2 = pa /\ q2 = IF k.tx = <<>> THEN 0 ELSE q
      \/ /\ da2 = Aged(da, StallReset) /\ pa2 = Aged(pa, Wedge)
         /\ q2 = IF k.tx = <<>> THEN 0 ELSE Aged(q, StallReset)
  BY DEF Grows
<1>5. Len(k.tx) = SendBuf => k.tx # <<>>
  <2>1. Len(<<>>) = 0
    BY EmptySeq
  <2> QED
    BY <2>1, Sizes
<1>6. t2.live = t.live /\ t2.established = t.established /\ t2.acked_high = t.acked_high
  BY DEF Grows
<1> HIDE DEF q, q2, da, da2, pa, pa2
<1>7. /\ Aged(da, StallReset) \in 0..StallReset /\ Aged(da, StallReset) <= da + 1
      /\ Aged(pa, Wedge) \in 0..Wedge /\ Aged(pa, Wedge) <= pa + 1
      /\ q = StallReset => Aged(q, StallReset) = StallReset
      /\ q < StallReset => Aged(q, StallReset) = q + 1
  BY <1>1, Sizes, AgedIs
<1>8. ASSUME t.live, t.established, Len(x.got) <= t.acked_high PROVE da2 <= q2 + 1
  <2>1. da <= q + 1
    BY <1>3, <1>8
  <2>2. CASE k.tx = <<>>
    <3>1. da = 0 /\ q2 = 0
      BY <1>2, <1>4, <1>8, <2>2
    <3> QED
      BY <1>1, <1>4, <1>7, <3>1, Sizes
  <2>3. CASE k.tx # <<>>
    <3>1. \/ da2 = da /\ q2 = q
          \/ da2 = Aged(da, StallReset) /\ q2 = Aged(q, StallReset)
      BY <1>4, <2>3
    <3> QED
      BY <1>1, <1>7, <2>1, <3>1, Sizes
  <2> QED
    BY <2>2, <2>3
<1>9. ASSUME t.live, Len(k.tx) = SendBuf PROVE pa2 <= q2 + 1 \/ q2 = StallReset
  <2>1. pa <= q + 1 \/ q = StallReset
    BY <1>3, <1>9
  <2>2. \/ pa2 = pa /\ q2 = q
        \/ pa2 = Aged(pa, Wedge) /\ q2 = Aged(q, StallReset)
    BY <1>4, <1>5, <1>9
  <2> QED
    BY <1>1, <1>7, <2>1, <2>2, Sizes
<1>10. t2.live /\ t2.established /\ Len(y.got) <= t2.acked_high => da2 <= q2 + 1
  BY <1>6, <1>8
<1>11. t2.live /\ Len(k.tx) = SendBuf => pa2 <= q2 + 1 \/ q2 = StallReset
  BY <1>6, <1>9
<1> QED
  BY <1>10, <1>11 DEF AgesFollow, da2, pa2, q2

(* The relay's own fields but for its answer and its wait stay. *)
SameRelay(a, b) ==
    /\ b.read = a.read /\ b.hand = a.hand /\ b.up_done = a.up_done
    /\ b.reserved = a.reserved /\ b.gone = a.gone

(* What is around a flow when a pass ends. *)
PassEnds(x, y) ==
    /\ y.got = x.got /\ y.fin = x.fin /\ y.broken = x.broken /\ y.asked = FALSE
    /\ y.backlog = x.backlog /\ y.dataIn = x.dataIn /\ y.stage = "poll"

(* The end of a pass keeps the invariant of a flow nobody asked for. *)
LEMMA UnaskedKeeps ==
    ASSUME NEW t, NEW k, NEW a, NEW c, NEW x, Standing(t, k, a, c, x), AgesFollow(t, k, x),
           JustServiced(t, k, a, x), x.stage = "drain", ~x.asked,
           NEW t2, NEW b, NEW y, PassEnds(x, y), Grows(t, t2, x.quiet, y.quiet, k.tx),
           SameRelay(a, b), b.conn = a.conn
    PROVE  FlowInv(t2, k, b, c, y)
<1>1. /\ t \in TcpFlows /\ k \in Sockets /\ x \in Surroundings
      /\ Opened(t, k, a, x) /\ NothingRead(a) /\ UploadWhole(t, k, a, x) /\ FinLast(t, k, a)
      /\ AckCount(t, k, x) /\ Reserved(a, c) /\ EndedByPeer(k, a, x)
  BY DEF Standing
<1>2. /\ y.got = x.got /\ y.fin = x.fin /\ y.broken = x.broken /\ y.asked = FALSE
      /\ y.backlog = x.backlog /\ y.dataIn = x.dataIn /\ y.stage = "poll"
  BY DEF PassEnds
<1>3. /\ t2.live = t.live /\ t2.established = t.established
      /\ t2.half_closed = t.half_closed /\ t2.pending = t.pending
      /\ t2.accepted = t.accepted /\ t2.acked_high = t.acked_high
      /\ t2.send_queue_high = t.send_queue_high /\ (~t.live => t2 = t)
  BY DEF Grows
<1>4. /\ b.read = a.read /\ b.hand = a.hand /\ b.up_done = a.up_done
      /\ b.reserved = a.reserved /\ b.gone = a.gone /\ b.conn = a.conn
  BY DEF SameRelay
<1>5. AgesFollow(t2, k, y)
  BY <1>1, <1>2, GrowsFollows
<1>6. Opened(t2, k, b, y)
  BY <1>1, <1>2, <1>3, <1>4 DEF Opened
<1>7. NothingRead(b) /\ FinLast(t2, k, b) /\ Reserved(b, c) /\ EndedByPeer(k, b, y)
      /\ AckCount(t2, k, y)
  BY <1>1, <1>2, <1>3, <1>4 DEF NothingRead, FinLast, Reserved, EndedByPeer, AckCount
<1>8. UploadWhole(t2, k, b, y)
  <2>1. Counted(t2, b, y) => Counted(t, a, x)
    BY <1>2, <1>3, <1>4 DEF Counted
  <2> QED
    BY <1>1, <1>2, <1>3, <1>4, <2>1 DEF UploadWhole
<1>9. JustServiced(t2, k, b, y)
  BY <1>2 DEF JustServiced
<1> QED
  BY <1>5, <1>6, <1>7, <1>8, <1>9 DEF FlowInv

(* It keeps that of a flow whose socket could not be opened. *)
LEMMA RefusedKeeps ==
    ASSUME NEW t, NEW k, NEW a, NEW c, NEW x, Standing(t, k, a, c, x), x.asked,
           NEW b, NEW y, PassEnds(x, y), SameRelay(a, b), b.conn = "error"
    PROVE  FlowInv(t, k, b, c, y) /\ ~t.live
<1>1. /\ Opened(t, k, a, x) /\ Reserved(a, c) /\ EndedByPeer(k, a, x)
  BY DEF Standing
<1>2. ~t.live /\ t = NoTcpState /\ k = NoSocket /\ ~x.broken
  BY <1>1 DEF Opened
<1>3. /\ t.established = FALSE /\ t.send_queue_high = 0 /\ k.state = "none"
  BY <1>2, NewStates, NoSockets
<1>4. Opened(t, k, b, y)
  BY <1>2, <1>3 DEF Opened, PassEnds
<1>5. NothingRead(b) /\ FinLast(t, k, b) /\ Reserved(b, c) /\ EndedByPeer(k, b, y)
      /\ AckCount(t, k, y) /\ AgesFollow(t, k, y) /\ JustServiced(t, k, b, y)
  BY <1>1, <1>2, <1>3
     DEF NothingRead, FinLast, FinStates, Reserved, EndedByPeer, AckCount, AgesFollow, JustServiced,
         SameRelay
<1>6. UploadWhole(t, k, b, y)
  BY <1>2 DEF UploadWhole, Counted
<1> QED
  BY <1>2, <1>4, <1>5, <1>6 DEF FlowInv

(* A flow that is just opened: nothing of it is anywhere. *)
Fresh(t) ==
    /\ t \in TcpFlows /\ t.live /\ ~t.established /\ ~t.half_closed /\ t.pending = <<>>
    /\ t.accepted = 0 /\ t.acked_high = 0 /\ t.send_queue_high = 0

\* The socket of a flow just opened.
OpeningSocket == [NoSocket EXCEPT !.state = "SynSent"]

(* It keeps that of a flow just opened. *)
LEMMA OpenedKeeps ==
    ASSUME NEW t, NEW k, NEW a, NEW c, NEW x, Standing(t, k, a, c, x), x.asked,
           NEW t2, Fresh(t2), NEW b, NEW y, PassEnds(x, y), SameRelay(a, b), b.conn = "wait"
    PROVE  FlowInv(t2, OpeningSocket, b, c, y) /\ OpeningSocket \in Sockets
<1> DEFINE k2 == OpeningSocket
<1>1. /\ Opened(t, k, a, x) /\ NothingRead(a) /\ Reserved(a, c)
  BY DEF Standing
<1>2. a.conn = "wait" /\ ~x.broken
  BY <1>1 DEF Opened
<1>3. k2 \in Sockets /\ k2.tx = <<>> /\ k2.state = "SynSent" /\ Len(k2.tx) = 0
  BY NoSockets, EmptySeq DEF OpeningSocket, Sockets, SockStates
<1>4. /\ x.got = <<>> /\ x.backlog = <<>> /\ x.dataIn = <<>> /\ a.hand = <<>>
      /\ Given(a.read, a.up_done) = <<>>
  BY <1>2, NothingYet
<1> HIDE DEF k2
<1>5. Opened(t2, k2, b, y)
  BY <1>2, <1>3 DEF Opened, PassEnds, Fresh
<1>6. NothingRead(b) /\ FinLast(t2, k2, b) /\ Reserved(b, c) /\ EndedByPeer(k2, b, y)
  BY <1>1, <1>2, <1>3 DEF NothingRead, FinLast, FinStates, Reserved, EndedByPeer, SameRelay
<1>7. AckCount(t2, k2, y) /\ AgesFollow(t2, k2, y) /\ JustServiced(t2, k2, b, y)
  BY <1>3, <1>4, Sizes DEF AckCount, AgesFollow, JustServiced, Fresh, PassEnds
<1>8. UploadWhole(t2, k2, b, y)
  <2>1. Mark(t2.half_closed) = Mark(FALSE)
    BY DEF Mark, Fresh
  <2>2. Chain(y.got, k2.tx, t2.pending, t2.half_closed, y.backlog, y.dataIn, b.hand)
          = Chain(<<>>, <<>>, <<>>, FALSE, <<>>, <<>>, <<>>)
    BY <1>3, <1>4, <2>1 DEF Chain, PassEnds, SameRelay, Fresh
  <2>3. Given(b.read, b.up_done) = <<>>
    BY <1>4 DEF SameRelay
  <2> QED
    BY <2>2, <2>3, ChainNone DEF UploadWhole
<1> QED
  BY <1>3, <1>5, <1>6, <1>7, <1>8 DEF FlowInv, k2

(* AgeTcp, flow by flow. *)
LEMMA AgeTcpIs ==
    ASSUME NEW t \in [Flows -> TcpState], NEW f \in Flows
    PROVE  AgeTcp(t)[f] = IF t[f].live THEN Older(t[f]) ELSE t[f]
<1>1. t[f] \in TcpState
  OBVIOUS
<1> DEFINE v == t[f]
           z == [v EXCEPT
                   !.drain_age = Aged(@, StallReset),
                   !.progress_age = Aged(@, Wedge),
                   !.orphan_age = IF v.orphaned THEN Aged(@, Linger) ELSE @,
                   !.connect_age = IF v.established THEN @ ELSE Aged(@, ConnectLimit)]
<1>2. AgeTcp(t)[f] = IF ~v.live THEN v ELSE z
  BY DEF AgeTcp
<1> HIDE DEF v
<1>3. z = Older(v)
  BY <1>1 DEF Older, TcpState, v
<1> QED
  BY <1>2, <1>3 DEF v

(* The relay as the drains leave it, v being the answer to its open. *)
Waiting(a, v, tick) ==
    [a EXCEPT !.conn = v,
              !.wait = IF tick /\ a.hand # <<>> /\ ~a.reserved
                       THEN Aged(a.wait, CreditWait) ELSE a.wait]

(* Waiting changes nothing of the relay but its answer and its wait. *)
LEMMA WaitingIs ==
    ASSUME NEW a \in Relays, NEW v \in {"none", "wait", "ok", "error"}, NEW tick \in BOOLEAN
    PROVE  /\ Waiting(a, v, tick) \in Relays /\ SameRelay(a, Waiting(a, v, tick))
           /\ Waiting(a, v, tick).conn = v
<1> DEFINE w == IF tick /\ a.hand # <<>> /\ ~a.reserved THEN Aged(a.wait, CreditWait) ELSE a.wait
<1>1. w \in 0..CreditWait
  <2>1. a.wait \in 0..CreditWait /\ CreditWait \in Nat
    BY Sizes DEF Relays
  <2> QED
    BY <2>1, AgedIs
<1> HIDE DEF w
<1>2. Waiting(a, v, tick) = [a EXCEPT !.conn = v, !.wait = w]
  BY DEF Waiting, w
<1> DEFINE b == [a EXCEPT !.conn = v, !.wait = w]
<1>3. /\ b \in Relays /\ b.read = a.read /\ b.hand = a.hand /\ b.up_done = a.up_done
      /\ b.reserved = a.reserved /\ b.gone = a.gone /\ b.conn = v
  BY <1>1 DEF Relays
<1> HIDE DEF b
<1>4. Waiting(a, v, tick) = b
  BY <1>2 DEF b
<1> QED
  BY <1>3, <1>4 DEF SameRelay

\* The record of a flow just opened.
OpeningTcp(w) == [NewTcpState EXCEPT !.carrier = w]

(* A flow just opened is fresh, and still is after a tick. *)
LEMMA OpeningIsFresh ==
    ASSUME NEW w \in BOOLEAN
    PROVE  Fresh(OpeningTcp(w)) /\ Fresh(Older(OpeningTcp(w))) /\ OpeningTcp(w) \in TcpState
<1> DEFINE t == OpeningTcp(w)
<1>1. /\ NewTcpState \in TcpState /\ NewTcpState.live = TRUE /\ NewTcpState.established = FALSE
      /\ NewTcpState.half_closed = FALSE /\ NewTcpState.pending = <<>>
      /\ NewTcpState.accepted = 0 /\ NewTcpState.acked_high = 0 /\ NewTcpState.send_queue_high = 0
  BY NewStates DEF NewTcpState
<1>2. /\ t \in TcpState /\ t.live = TRUE /\ t.established = FALSE
      /\ t.half_closed = FALSE /\ t.pending = <<>>
      /\ t.accepted = 0 /\ t.acked_high = 0 /\ t.send_queue_high = 0
  BY <1>1 DEF OpeningTcp, TcpState
<1> HIDE DEF t
<1>3. t \in TcpFlows
  <2>1. Len(<<>>) <= PendingMax
    BY EmptySeq, Sizes
  <2> QED
    BY <1>2, <2>1 DEF TcpFlows
<1>4. Fresh(t)
  BY <1>2, <1>3 DEF Fresh
<1>5. Fresh(Older(t))
  BY <1>2, <1>3, OlderIs DEF Fresh
<1> QED
  BY <1>2, <1>4, <1>5 DEF t

(* What the end of a pass does to a flow, t being the flow once the data   *)
(* is in, ok the opens that succeed.                                       *)
EndsAs(f, ok, t, tick) ==
    LET v == IF Asks(ok, f) THEN OpeningTcp((CHOOSE c \in ok : c.id = f).carrier) ELSE t
    IN  /\ tcp'[f] = IF tick /\ v.live THEN Older(v) ELSE v
        /\ sock'[f] = IF Asks(ok, f) THEN OpeningSocket ELSE sock[f]
        /\ app'[f] = Waiting(app[f], IF Asks(cmds \ ok, f) THEN "error" ELSE app[f].conn, tick)
        /\ quiet'[f] = IF sock[f].tx = <<>> THEN 0
                       ELSE IF tick THEN Aged(quiet[f], StallReset) ELSE quiet[f]

(* Drain, flow by flow. *)
LEMMA DrainIs ==
    ASSUME StackInv, NEW tick \in BOOLEAN, Drain(tick)
    PROVE  /\ pc = "drain" /\ pc' = "poll" /\ cmds' = {} /\ UNCHANGED <<credit, peer, broken>>
           /\ \E n \in 0..Len(dataIn) : \E d \in Books : \E ok \in SUBSET cmds :
                /\ d = IngestAll(tcp, backlog, SubSeq(dataIn, 1, n))
                /\ dataIn' = SubSeq(dataIn, n + 1, Len(dataIn))
                /\ backlog' = d.backlog
                /\ \A f \in Flows : EndsAs(f, ok, d.tcp[f], tick)
           /\ tcp' = [f \in Flows |-> tcp'[f]] /\ sock' = [f \in Flows |-> sock'[f]]
           /\ app' = [f \in Flows |-> app'[f]] /\ quiet' = [f \in Flows |-> quiet'[f]]
<1>1. tcp \in Tables /\ backlog \in Queues /\ dataIn \in Queues /\ app \in [Flows -> Relays]
      /\ cmds \in SUBSET [id : Flows, carrier : BOOLEAN]
  BY DEF StackInv, StackTypes
<1> DEFINE n == Taken(tcp, backlog, dataIn)
           q == SubSeq(dataIn, 1, n)
           d == IngestAll(tcp, backlog, q)
<1>2. n \in 0..Len(dataIn)
  BY <1>1, TakenIs
<1> HIDE DEF n
<1>3. d \in Books
  <2>1. q \in Queues
    BY <1>1, <1>2, QueueSplit
  <2> HIDE DEF q
  <2> QED
    BY <1>1, <2>1, QueueResults
<1>4. d.tcp \in [Flows -> TcpState]
  BY <1>3 DEF Books, Tables
<1> HIDE DEF d
<1>5. PICK ok \in SUBSET cmds :
        /\ dataIn' = SubSeq(dataIn, n + 1, Len(dataIn))
        /\ backlog' = d.backlog
        /\ tcp' = IF tick THEN AgeTcp(OpenFlows(d.tcp, ok)) ELSE OpenFlows(d.tcp, ok)
        /\ sock' = [f \in Flows |-> IF Asks(ok, f) THEN [NoSocket EXCEPT !.state = "SynSent"]
                                    ELSE sock[f]]
        /\ app' = [f \in Flows |->
             [app[f] EXCEPT
                !.conn = IF Asks(cmds \ ok, f) THEN "error" ELSE @,
                !.wait = IF tick /\ app[f].hand # <<>> /\ ~app[f].reserved
                         THEN Aged(@, CreditWait) ELSE @]]
  BY DEF Drain, n, d
<1>6. /\ pc = "drain" /\ pc' = "poll" /\ cmds' = {} /\ UNCHANGED <<credit, peer, broken>>
      /\ quiet' = [f \in Flows |-> IF sock[f].tx = <<>> THEN 0
                                   ELSE IF tick THEN Aged(quiet[f], StallReset) ELSE quiet[f]]
  BY DEF Drain
<1> DEFINE t == OpenFlows(d.tcp, ok)
           v(f) == IF Asks(ok, f) THEN OpeningTcp((CHOOSE c \in ok : c.id = f).carrier)
                   ELSE d.tcp[f]
<1>7. t = [f \in Flows |-> v(f)]
  BY DEF OpenFlows, OpeningTcp
<1>8. ASSUME NEW f \in Flows PROVE v(f) \in TcpState
  <2>1. CASE Asks(ok, f)
    <3>1. (CHOOSE c \in ok : c.id = f) \in ok
      BY <2>1 DEF Asks
    <3>2. (CHOOSE c \in ok : c.id = f).carrier \in BOOLEAN
      BY <1>1, <3>1
    <3> QED
      BY <2>1, <3>2, OpeningIsFresh
  <2>2. CASE ~Asks(ok, f)
    BY <1>4, <2>2
  <2> QED
    BY <2>1, <2>2
<1>9. t \in [Flows -> TcpState]
  BY <1>7, <1>8
<1>10. ASSUME NEW f \in Flows PROVE EndsAs(f, ok, d.tcp[f], tick)
  <2>1. t[f] = v(f)
    BY <1>7
  <2>2. tcp'[f] = IF tick /\ v(f).live THEN Older(v(f)) ELSE v(f)
    <3> HIDE DEF t
    <3>1. CASE tick
      <4>1. tcp' = AgeTcp(t)
        BY <1>5, <3>1 DEF t
      <4>2. tcp'[f] = IF t[f].live THEN Older(t[f]) ELSE t[f]
        BY <1>9, <4>1, AgeTcpIs
      <4> HIDE DEF v
      <4> QED
        BY <2>1, <3>1, <4>2
    <3>2. CASE ~tick
      <4>1. tcp' = t
        BY <1>5, <3>2 DEF t
      <4> HIDE DEF v
      <4> QED
        BY <2>1, <3>2, <4>1
    <3> QED
      BY <3>1, <3>2
  <2>3. sock'[f] = IF Asks(ok, f) THEN OpeningSocket ELSE sock[f]
    BY <1>5 DEF OpeningSocket
  <2>4. app'[f] = Waiting(app[f], IF Asks(cmds \ ok, f) THEN "error" ELSE app[f].conn, tick)
    <3> DEFINE a == app[f]
               e == IF Asks(cmds \ ok, f) THEN "error" ELSE app[f].conn
    <3>1. a \in Relays
      BY <1>1
    <3>2. app'[f] = [a EXCEPT !.conn = e,
                              !.wait = IF tick /\ a.hand # <<>> /\ ~a.reserved
                                       THEN Aged(@, CreditWait) ELSE @]
      BY <1>5
    <3> HIDE DEF a, e
    <3>3. [a EXCEPT !.conn = e, !.wait = IF tick /\ a.hand # <<>> /\ ~a.reserved
                                         THEN Aged(@, CreditWait) ELSE @]
            = Waiting(a, e, tick)
      BY <3>1 DEF Waiting, Relays
    <3> QED
      BY <3>2, <3>3 DEF a, e
  <2>5. quiet'[f] = IF sock[f].tx = <<>> THEN 0
                    ELSE IF tick THEN Aged(quiet[f], StallReset) ELSE quiet[f]
    BY <1>6
  <2> QED
    BY <2>2, <2>3, <2>4, <2>5 DEF EndsAs
<1>11. /\ tcp' = [f \in Flows |-> tcp'[f]] /\ sock' = [f \in Flows |-> sock'[f]]
       /\ app' = [f \in Flows |-> app'[f]] /\ quiet' = [f \in Flows |-> quiet'[f]]
  <2>1. tcp' = [f \in Flows |-> tcp'[f]]
    BY <1>5, <1>7 DEF AgeTcp
  <2> QED
    BY <1>5, <1>6, <2>1
<1>12. d = IngestAll(tcp, backlog, SubSeq(dataIn, 1, n))
  BY DEF d
<1> QED
  BY <1>2, <1>3, <1>5, <1>6, <1>10, <1>11, <1>12

(* A flow at the end of a pass. *)
LEMMA EndsKeep ==
    ASSUME StackInv, pc = "drain", NEW tick \in BOOLEAN, NEW f \in Flows, NEW ok \in SUBSET cmds,
           NEW n \in 0..Len(dataIn), NEW d, d = IngestAll(tcp, backlog, SubSeq(dataIn, 1, n)),
           EndsAs(f, ok, d.tcp[f], tick),
           pc' = "poll", cmds' = {}, UNCHANGED <<credit, peer, broken>>,
           dataIn' = SubSeq(dataIn, n + 1, Len(dataIn)), backlog' = d.backlog
    PROVE  /\ FlowInv(tcp[f], sock[f], app[f], credit[f], Around(f))'
           /\ tcp'[f] \in TcpFlows /\ sock'[f] \in Sockets /\ app'[f] \in Relays
           /\ quiet'[f] \in 0..StallReset
<1> DEFINE t == d.tcp[f]
           k == sock[f]
           a == app[f]
           c == credit[f]
           x == AfterData(f, n)
           y == Around(f)'
           t2 == tcp'[f]
           k2 == sock'[f]
           b == app'[f]
           v == IF Asks(cmds \ ok, f) THEN "error" ELSE a.conn
           q2 == quiet'[f]
<1>1. /\ Standing(t, k, a, c, x) /\ AgesFollow(t, k, x) /\ JustServiced(t, k, a, x)
      /\ x.stage = "drain"
  BY DataTaken DEF AfterData
<1>2. /\ PassEnds(x, y) /\ y.quiet = q2 /\ x.quiet = quiet[f]
      /\ x.asked = Asks(cmds, f)
  <2>1. ~Asks(cmds', f)
    BY DEF Asks
  <2> QED
    BY <2>1 DEF AfterData, Around, PassEnds
<1>3. /\ b = Waiting(a, v, tick)
      /\ q2 = IF k.tx = <<>> THEN 0 ELSE IF tick THEN Aged(quiet[f], StallReset) ELSE quiet[f]
      /\ k2 = IF Asks(ok, f) THEN OpeningSocket ELSE k
  BY DEF EndsAs
<1>4. /\ Asks(ok, f) => \E w \in BOOLEAN : t2 = OpeningTcp(w) \/ t2 = Older(OpeningTcp(w))
      /\ ~Asks(ok, f) => t2 = IF tick /\ t.live THEN Older(t) ELSE t
  <2>1. CASE Asks(ok, f)
    <3> DEFINE w == (CHOOSE z \in ok : z.id = f).carrier
    <3>1. (CHOOSE z \in ok : z.id = f) \in ok
      BY <2>1 DEF Asks
    <3>2. w \in BOOLEAN
      BY <3>1 DEF StackInv, StackTypes
    <3>3. t2 = OpeningTcp(w) \/ t2 = Older(OpeningTcp(w))
      BY <2>1 DEF EndsAs
    <3> QED
      BY <2>1, <3>2, <3>3
  <2>2. CASE ~Asks(ok, f)
    BY <2>2 DEF EndsAs
  <2> QED
    BY <2>1, <2>2
<1>5. /\ Asks(ok, f) => Asks(cmds, f) /\ ~Asks(cmds \ ok, f)
      /\ Asks(cmds, f) <=> Asks(ok, f) \/ Asks(cmds \ ok, f)
  <2>1. Single(cmds)
    BY DEF StackInv, StackTypes
  <2> QED
    BY <2>1 DEF Asks, Single
<1>6. a \in Relays /\ v \in {"none", "wait", "ok", "error"} /\ x.quiet \in 0..StallReset
      /\ t \in TcpFlows /\ k \in Sockets
  <2>1. a \in Relays /\ x \in Surroundings /\ t \in TcpFlows /\ k \in Sockets
    BY <1>1 DEF Standing
  <2> QED
    BY <2>1 DEF Relays, Surroundings
<1>7. b \in Relays /\ SameRelay(a, b) /\ b.conn = v
  <2> HIDE DEF a, b, v
  <2> QED
    BY <1>3, <1>6, WaitingIs
<1>8. q2 \in 0..StallReset
  <2>1. Aged(quiet[f], StallReset) \in 0..StallReset /\ 0 \in 0..StallReset
    <3> DEFINE q == quiet[f]
    <3>1. q \in 0..StallReset
      BY <1>2, <1>6
    <3> HIDE DEF q
    <3>2. Aged(q, StallReset) \in 0..StallReset
      BY <3>1, QuietAges
    <3>3. 0 \in 0..StallReset
      BY Sizes
    <3> QED
      BY <3>2, <3>3 DEF q
  <2> QED
    BY <1>2, <1>3, <1>6, <2>1
<1>9. c = credit'[f]
  OBVIOUS
<1>10. CASE Asks(ok, f)
  <2>1. x.asked /\ v = a.conn
    BY <1>2, <1>5, <1>10
  <2>2. a.conn = "wait"
    BY <1>1, <2>1 DEF Standing, Opened
  <2>3. Fresh(t2) /\ k2 = OpeningSocket
    <3> HIDE DEF t2
    <3> QED
      BY <1>3, <1>4, <1>10, OpeningIsFresh
  <2>4. b.conn = "wait"
    BY <1>7, <2>1, <2>2
  <2> HIDE DEF t, k, a, c, x, y, t2, k2, b, v, q2
  <2>5. FlowInv(t2, OpeningSocket, b, c, y) /\ OpeningSocket \in Sockets
    BY <1>1, <1>2, <1>7, <2>1, <2>3, <2>4, OpenedKeeps
  <2>6. t2 \in TcpFlows
    BY <2>3 DEF Fresh
  <2>7. FlowInv(t2, k2, b, c, y) /\ k2 \in Sockets
    BY <2>3, <2>5
  <2> QED
    BY <1>7, <1>8, <1>9, <2>6, <2>7 DEF t2, k2, b, y, q2
<1>11. CASE ~Asks(ok, f) /\ Asks(cmds \ ok, f)
  <2>1. x.asked /\ v = "error" /\ k2 = k
    BY <1>2, <1>3, <1>5, <1>11
  <2> HIDE DEF t, k, a, c, x, y, b, v
  <2>2. FlowInv(t, k, b, c, y) /\ ~t.live
    BY <1>1, <1>2, <1>7, <2>1, RefusedKeeps
  <2>3. t2 = t
    BY <1>4, <1>11, <2>2
  <2> HIDE DEF t2, k2, q2
  <2>4. FlowInv(t2, k2, b, c, y) /\ t2 \in TcpFlows /\ k2 \in Sockets
    BY <1>6, <2>1, <2>2, <2>3
  <2> QED
    BY <1>7, <1>8, <1>9, <2>4 DEF t2, k2, b, y, q2
<1>12. CASE ~Asks(ok, f) /\ ~Asks(cmds \ ok, f)
  <2>1. ~x.asked /\ v = a.conn /\ k2 = k
    BY <1>2, <1>3, <1>5, <1>12
  <2>2. t2 = IF tick /\ t.live THEN Older(t) ELSE t
    BY <1>4, <1>12
  <2> HIDE DEF t, k, a, c, x, y, t2, k2, b, v, q2
  <2>3. t2 \in TcpFlows /\ Grows(t, t2, x.quiet, y.quiet, k.tx)
    <3>1. CASE tick /\ t.live
      <4>1. t2 = Older(t)
        BY <2>2, <3>1
      <4>2. /\ t2 \in TcpFlows
            /\ t2.live = t.live /\ t2.established = t.established
            /\ t2.half_closed = t.half_closed /\ t2.pending = t.pending
            /\ t2.accepted = t.accepted /\ t2.acked_high = t.acked_high
            /\ t2.send_queue_high = t.send_queue_high
            /\ t2.drain_age = Aged(t.drain_age, StallReset)
            /\ t2.progress_age = Aged(t.progress_age, Wedge)
        BY <1>6, <4>1, OlderIs
      <4>3. y.quiet = IF k.tx = <<>> THEN 0 ELSE Aged(x.quiet, StallReset)
        BY <1>2, <1>3, <3>1
      <4> QED
        BY <3>1, <4>2, <4>3 DEF Grows
    <3>2. CASE ~tick
      <4>1. t2 = t /\ y.quiet = IF k.tx = <<>> THEN 0 ELSE x.quiet
        BY <1>2, <1>3, <2>2, <3>2
      <4> QED
        BY <1>6, <4>1 DEF Grows
    <3>3. CASE ~t.live
      <4>1. t2 = t
        BY <2>2, <3>3
      <4>2. t = NoTcpState /\ k = NoSocket
        BY <1>1, <3>3 DEF Standing, Opened
      <4>3. k.tx = <<>>
        BY <4>2, NoSockets
      <4>4. y.quiet = IF k.tx = <<>> THEN 0 ELSE x.quiet
        BY <1>2, <1>3, <4>3
      <4> QED
        BY <1>6, <4>1, <4>4 DEF Grows
    <3> QED
      BY <3>1, <3>2, <3>3
  <2>4. b.conn = a.conn
    BY <1>7, <2>1
  <2>5. FlowInv(t2, k, b, c, y)
    BY <1>1, <1>2, <1>7, <2>1, <2>3, <2>4, UnaskedKeeps
  <2>6. FlowInv(t2, k2, b, c, y) /\ k2 \in Sockets
    BY <1>6, <2>1, <2>5
  <2> QED
    BY <1>7, <1>8, <1>9, <2>3, <2>6 DEF t2, k2, b, y, q2
<1> QED
  BY <1>10, <1>11, <1>12

(* Draining the queue, opening the flows asked for and sleeping keep the invariant. *)
LEMMA DrainKeeps == ASSUME StackInv, NEW tick \in BOOLEAN, Drain(tick) PROVE StackInv'
<1>1. /\ pc = "drain" /\ pc' = "poll" /\ cmds' = {} /\ UNCHANGED <<credit, peer, broken>>
      /\ tcp' = [f \in Flows |-> tcp'[f]] /\ sock' = [f \in Flows |-> sock'[f]]
      /\ app' = [f \in Flows |-> app'[f]] /\ quiet' = [f \in Flows |-> quiet'[f]]
  BY DrainIs
<1>2. PICK n \in 0..Len(dataIn), d \in Books, ok \in SUBSET cmds :
                /\ d = IngestAll(tcp, backlog, SubSeq(dataIn, 1, n))
                /\ dataIn' = SubSeq(dataIn, n + 1, Len(dataIn))
                /\ backlog' = d.backlog
                /\ \A f \in Flows : EndsAs(f, ok, d.tcp[f], tick)
  BY DrainIs
<1>3. ASSUME NEW f \in Flows
      PROVE  /\ FlowInv(tcp[f], sock[f], app[f], credit[f], Around(f))'
             /\ tcp'[f] \in TcpFlows /\ sock'[f] \in Sockets /\ app'[f] \in Relays
             /\ quiet'[f] \in 0..StallReset
  <2>1. EndsAs(f, ok, d.tcp[f], tick)
    BY <1>2
  <2> QED
    BY <1>1, <1>2, <2>1, EndsKeep
<1>4. StackTypes'
  <2>1. tcp' \in Tables
    <3>1. tcp' \in [Flows -> TcpState] /\ \A f \in Flows : Len(tcp'[f].pending) <= PendingMax
      BY <1>1, <1>3 DEF TcpFlows
    <3> QED
      BY <3>1 DEF Tables
  <2>2. sock' \in [Flows -> Sockets] /\ app' \in [Flows -> Relays]
        /\ quiet' \in [Flows -> 0..StallReset]
    BY <1>1, <1>3
  <2>3. dataIn' \in Queues /\ Len(dataIn') <= QueueCap /\ backlog' \in Queues
    <3>1. dataIn \in Queues /\ Len(dataIn) <= QueueCap
      BY DEF StackInv, StackTypes
    <3>2. dataIn' \in Queues /\ Len(dataIn') <= Len(dataIn)
      BY <1>2, <3>1, QueueSplit
    <3>3. Len(dataIn') \in Nat /\ Len(dataIn) \in Nat
      BY <3>1, <3>2 DEF Queues
    <3>4. backlog' \in Queues
      BY <1>2 DEF Books
    <3> QED
      BY <3>1, <3>2, <3>3, <3>4, Sizes
  <2>4. pc' \in Stages /\ cmds' \in SUBSET [id : Flows, carrier : BOOLEAN] /\ Single(cmds')
    BY <1>1 DEF Stages, Single
  <2> QED
    BY <1>1, <2>1, <2>2, <2>3, <2>4 DEF StackInv, StackTypes
<1> QED
  BY <1>3, <1>4 DEF StackInv

-----------------------------------------------------------------------------
(* The invariant holds.                                                    *)

(* It holds when the netstack starts. *)
LEMMA InitHolds == ASSUME Init PROVE StackInv
<1>1. <<>> \in Queues /\ Len(<<>>) = 0 /\ <<>> \in UpSeq /\ <<>> \in Seq(1..RecvBuf)
  BY EmptySeq DEF Queues, UpSeq
<1>2. /\ 0 \in 0..UpBytes /\ 0 \in 0..CreditWait /\ 0 \in 0..DownBytes /\ 0 \in 0..StallReset
      /\ 0 \in Nat /\ MinBudget \in MinBudget..MaxBudget
  BY Sizes
<1> DEFINE c0 == [sent |-> 0, acked |-> 0, cap |-> MinBudget, closed |-> FALSE]
           a0 == [conn |-> "none", read |-> 0, hand |-> <<>>, reserved |-> FALSE,
                  wait |-> 0, up_done |-> FALSE, gone |-> FALSE,
                  queue |-> <<>>, got |-> 0, eof |-> FALSE]
           p0 == [got |-> <<>>, sent |-> 0, fin |-> FALSE]
<1>3. /\ c0 \in Credits /\ c0.sent = 0
  BY <1>2 DEF Credits
<1>4. /\ a0 \in Relays /\ a0.conn = "none" /\ a0.read = 0 /\ a0.hand = <<>>
      /\ a0.reserved = FALSE /\ a0.up_done = FALSE /\ a0.gone = FALSE
  BY <1>1, <1>2, Sizes DEF Relays
<1>5. p0 \in [got : UpSeq, sent : 0..DownBytes, fin : BOOLEAN] /\ p0.got = <<>> /\ p0.fin = FALSE
  BY <1>1, <1>2
<1>6. /\ pc = "poll" /\ cmds = {} /\ dataIn = <<>> /\ backlog = <<>> /\ broken = {}
      /\ tcp = [f \in Flows |-> NoTcpState] /\ sock = [f \in Flows |-> NoSocket]
      /\ credit = [f \in Flows |-> c0] /\ app = [f \in Flows |-> a0]
      /\ peer = [f \in Flows |-> p0] /\ quiet = [f \in Flows |-> 0]
  BY DEF Init
<1> HIDE DEF c0, a0, p0
<1>7. StackTypes
  <2>1. tcp \in Tables
    BY <1>6, NewStates DEF Tables
  <2>2. sock \in [Flows -> Sockets]
    BY <1>6, NoSockets
  <2>3. credit \in [Flows -> Credits] /\ app \in [Flows -> Relays]
        /\ peer \in [Flows -> [got : UpSeq, sent : 0..DownBytes, fin : BOOLEAN]]
        /\ quiet \in [Flows -> 0..StallReset]
    BY <1>2, <1>3, <1>4, <1>5, <1>6
  <2>4. pc \in Stages /\ cmds \in SUBSET [id : Flows, carrier : BOOLEAN] /\ Single(cmds)
    BY <1>6 DEF Stages, Single
  <2> QED
    BY <1>1, <1>6, <2>1, <2>2, <2>3, <2>4, Sizes DEF StackTypes
<1>8. ASSUME NEW f \in Flows PROVE FlowInv(tcp[f], sock[f], app[f], credit[f], Around(f))
  <2> DEFINE t == tcp[f]
             k == sock[f]
             a == app[f]
             c == credit[f]
             x == Around(f)
  <2>1. /\ t.live = FALSE /\ t.established = FALSE /\ t.half_closed = FALSE
        /\ t.pending = <<>> /\ t.send_queue_high = 0 /\ t = NoTcpState
        /\ k.tx = <<>> /\ k.state = "none" /\ k = NoSocket
    BY <1>6, NewStates, NoSockets
  <2>2. /\ a.conn = "none" /\ a.read = 0 /\ a.hand = <<>> /\ a.reserved = FALSE
        /\ a.up_done = FALSE /\ a.gone = FALSE /\ c.sent = 0
    BY <1>3, <1>4, <1>6
  <2>3. Stream(<<>>, f) = <<>>
    BY <1>1, StreamType
  <2>4. /\ x.got = <<>> /\ x.backlog = <<>> /\ x.dataIn = <<>> /\ x.broken = FALSE
        /\ x.asked = FALSE /\ x.stage = "poll"
    BY <1>5, <1>6, <2>3 DEF Around, Asks
  <2> HIDE DEF t, k, a, c, x
  <2>5. Opened(t, k, a, x)
    BY <2>1, <2>2, <2>4 DEF Opened
  <2>6. NothingRead(a) /\ FinLast(t, k, a) /\ Reserved(a, c) /\ EndedByPeer(k, a, x)
        /\ AckCount(t, k, x) /\ AgesFollow(t, k, x) /\ JustServiced(t, k, a, x)
    BY <1>1, <2>1, <2>2, <2>4 DEF NothingRead, FinLast, FinStates, Reserved, EndedByPeer, AckCount,
       AgesFollow, JustServiced
  <2>7. UploadWhole(t, k, a, x)
    <3>1. Mark(t.half_closed) = Mark(FALSE) /\ Mark(a.up_done) = Mark(FALSE)
      BY <2>1, <2>2
    <3>2. Chain(x.got, k.tx, t.pending, t.half_closed, x.backlog, x.dataIn, a.hand)
            = Chain(<<>>, <<>>, <<>>, FALSE, <<>>, <<>>, <<>>)
      BY <2>1, <2>2, <2>4, <3>1 DEF Chain
    <3>3. Given(0, FALSE) = <<>>
      BY GivenFacts
    <3>4. Given(a.read, a.up_done) = <<>>
      BY <2>2, <3>1, <3>3 DEF Given
    <3> QED
      BY <3>2, <3>4, ChainNone DEF UploadWhole
  <2>8. FlowInv(t, k, a, c, x)
    BY <2>5, <2>6, <2>7 DEF FlowInv
  <2> QED
    BY <2>8 DEF t, k, a, c, x
<1> QED
  BY <1>7, <1>8 DEF StackInv

(* Every step keeps the invariant: one case per action. *)
LEMMA NextKeeps == ASSUME StackInv, [Next]_vars PROVE StackInv'
<1>1. CASE Poll
  BY <1>1, PollKeeps
<1>2. CASE Service
  BY <1>2, ServiceKeeps
<1>3. CASE Backlog
  BY <1>3, BacklogKeeps
<1>4. CASE Shutdown
  BY <1>4, ShutdownKeeps
<1>5. ASSUME NEW tick \in BOOLEAN, Drain(tick) PROVE StackInv'
  BY <1>5, DrainKeeps
<1>6. ASSUME NEW f \in Flows,
             \/ PeerAccepts(f) \/ PeerResets(f) \/ PeerAcks(f)
             \/ PeerAcksFin(f) \/ PeerSends(f) \/ PeerFins(f)
      PROVE  StackInv'
  BY <1>6, PeerAcceptsKeeps, PeerResetsKeeps, PeerAcksKeeps, PeerAcksFinKeeps, PeerSendsKeeps,
     PeerFinsKeeps
<1>7. ASSUME NEW f \in Flows,
             \/ OpenTcp(f) \/ GiveUp(f) \/ ReadClient(f) \/ Reserve(f)
             \/ Push(f) \/ CloseUpload(f) \/ Recv(f)
      PROVE  StackInv'
  BY <1>7, OpenTcpKeeps, GiveUpKeeps, ReadClientKeeps, ReserveKeeps, PushKeeps, CloseUploadKeeps,
     RecvKeeps
<1>8. ASSUME NEW f \in Flows, RecvEof(f) \/ Vanish(f) PROVE StackInv'
  <2>1. app[f].conn = "ok"
    BY <1>8 DEF RecvEof, Vanish
  <2>2. CASE RecvEof(f)
    <3>1. DropRelay(f, TRUE)
      BY <2>2 DEF RecvEof
    <3> QED
      BY <2>1, <3>1, DropRelayKeeps
  <2>3. CASE Vanish(f)
    <3>1. DropRelay(f, FALSE)
      BY <2>3 DEF Vanish
    <3> QED
      BY <2>1, <3>1, DropRelayKeeps
  <2> QED
    BY <1>8, <2>2, <2>3
<1>9. CASE UNCHANGED vars
  <2>1. /\ pc' = pc /\ cmds' = cmds /\ dataIn' = dataIn /\ backlog' = backlog /\ tcp' = tcp
        /\ sock' = sock /\ credit' = credit /\ app' = app /\ peer' = peer /\ quiet' = quiet
        /\ broken' = broken
    BY <1>9 DEF vars
  <2>2. StackTypes'
    BY <2>1 DEF StackInv, StackTypes
  <2>3. ASSUME NEW f \in Flows PROVE FlowInv(tcp[f], sock[f], app[f], credit[f], Around(f))'
    <3>1. FlowInv(tcp[f], sock[f], app[f], credit[f], Around(f))
      BY DEF StackInv
    <3>2. Around(f)' = Around(f)
      BY <2>1 DEF Around, Asks
    <3> QED
      BY <2>1, <3>1, <3>2
  <2> QED
    BY <2>2, <2>3 DEF StackInv
<1> QED
  BY <1>1, <1>2, <1>3, <1>4, <1>5, <1>6, <1>7, <1>8, <1>9 DEF Next

-----------------------------------------------------------------------------
(* What follows from the invariant.                                        *)

(* The invariant holds in every reachable state. *)
LEMMA StackInductive == Spec => []StackInv
<1>1. Init => StackInv
  BY InitHolds
<1>2. StackInv /\ [Next]_vars => StackInv'
  BY NextKeeps
<1> QED
  BY <1>1, <1>2, PTL DEF Spec

(* In every reachable state of the netstack and its relays the state has its type: the
   socket buffers, the pending bytes, the bounded queues and the ages stay within their
   limits (netstack.rs: try_handle_data, service_tcp, drain_app_data). *)
THEOREM StackTypeCorrect == Spec => []TypeOK
<1>1. StackInv => TypeOK
  <2> SUFFICES ASSUME StackInv PROVE TypeOK
    OBVIOUS
  <2>1. StackTypes
    BY DEF StackInv
  <2>2. dataIn \in Seq(DataInType) /\ backlog \in Seq(DataInType)
    <3>1. Chunk \subseteq DataInType
      BY DEF Chunk
    <3>2. dataIn \in Seq(Chunk) /\ backlog \in Seq(Chunk)
      BY <2>1 DEF StackTypes, Queues
    <3> QED
      BY <3>1, <3>2, SeqMonotonic
  <2>3. tcp \in [Flows -> TcpState] /\ \A f \in Flows : Len(tcp[f].pending) <= PendingMax
    BY <2>1 DEF StackTypes, Tables
  <2>4. /\ sock \in [Flows -> [state : SockStates, tx : UpSeq, rx : 0..RecvBuf]]
        /\ \A f \in Flows : Len(sock[f].tx) <= SendBuf
    <3>1. sock \in [Flows -> Sockets]
      BY <2>1 DEF StackTypes
    <3> QED
      BY <3>1 DEF Sockets
  <2>5. /\ app \in [Flows -> [conn : {"none", "wait", "ok", "error"},
                          read : 0..UpBytes, hand : UpSeq, reserved : BOOLEAN,
                          wait : 0..CreditWait, up_done : BOOLEAN,
                          gone : BOOLEAN, queue : Seq(1..RecvBuf),
                          got : Nat, eof : BOOLEAN]]
        /\ \A f \in Flows : Len(app[f].queue) <= AppCap
    <3>1. app \in [Flows -> Relays]
      BY <2>1 DEF StackTypes
    <3> QED
      BY <3>1 DEF Relays
  <2>6. /\ pc \in {"poll", "service", "backlog", "drain", "ended"}
        /\ cmds \in SUBSET [id : Flows, carrier : BOOLEAN] /\ Len(dataIn) <= QueueCap
        /\ credit \in [Flows -> [sent : 0..UpBytes, acked : Nat,
                             cap : MinBudget..MaxBudget, closed : BOOLEAN]]
        /\ peer \in [Flows -> [got : UpSeq, sent : 0..DownBytes, fin : BOOLEAN]]
        /\ quiet \in [Flows -> 0..StallReset]
        /\ broken \in SUBSET Flows
    BY <2>1 DEF StackTypes, Stages, Credits
  <2> QED
    BY <2>2, <2>3, <2>4, <2>5, <2>6 DEF TypeOK
<1> QED
  BY <1>1, StackInductive, PTL

(* No byte of an upload is lost, duplicated or reordered on its way from the client
   through the channel, the backlog, the pending bytes and the socket to the peer, and the
   end of the stream travels behind all of it, whatever the sizes of the buffers and the
   number of flows (netstack.rs: Backlog::ingest, try_handle_data, service_tcp). *)
THEOREM UploadConserved == Spec => []UplinkConserved
<1>1. StackInv => UplinkConserved
  <2> SUFFICES ASSUME StackInv, NEW f \in Flows,
                      tcp[f].live, f \notin broken, app[f].conn = "ok", ~app[f].gone
               PROVE  Upload(f) = [i \in 1..app[f].read |-> i] \o Mark(app[f].up_done)
    BY DEF UplinkConserved
  <2> DEFINE x == Around(f)
  <2>1. UploadWhole(tcp[f], sock[f], app[f], x)
    BY DEF StackInv, FlowInv
  <2>2. /\ x.got = peer[f].got /\ x.backlog = Stream(backlog, f) /\ x.dataIn = Stream(dataIn, f)
        /\ x.broken = (f \in broken)
    BY DEF Around
  <2> HIDE DEF x
  <2>3. Counted(tcp[f], app[f], x)
    BY <2>2 DEF Counted
  <2>4. Chain(x.got, sock[f].tx, tcp[f].pending, tcp[f].half_closed, x.backlog, x.dataIn, app[f].hand)
          = Given(app[f].read, app[f].up_done)
    BY <2>1, <2>3 DEF UploadWhole
  <2> QED
    BY <2>2, <2>4 DEF Upload, Chain, Given
<1> QED
  BY <1>1, StackInductive, PTL

(* A socket that sent its FIN while its relay was there did so after the client ended its
   upload, and everything the client wrote is in its send buffer or with the peer: the
   close overtakes no data in the channel, the backlog or pending (netstack.rs: the
   half-close test of service_tcp). *)
THEOREM FinFollowsData == Spec => []FinAfterData
<1>1. StackInv => FinAfterData
  <2> SUFFICES ASSUME StackInv, NEW f \in Flows,
                      sock[f].state \in {"FinWait", "FinWait2", "Closing", "TimeWait"}, ~app[f].gone
               PROVE  app[f].up_done /\ Len(peer[f].got) + Len(sock[f].tx) = app[f].read
    BY DEF FinAfterData
  <2> DEFINE x == Around(f)
             t == tcp[f]
             k == sock[f]
             a == app[f]
             c == credit[f]
  <2>1. Standing(t, k, a, c, x)
    BY FlowStands
  <2>2. Opened(t, k, a, x) /\ FinLast(t, k, a) /\ UploadWhole(t, k, a, x)
    BY <2>1 DEF Standing
  <2>3. k.state \in FinStates
    BY DEF FinStates
  <2>4. t.half_closed /\ t.pending = <<>>
    BY <2>2, <2>3 DEF FinLast
  <2>5. t.live /\ t.established /\ ~x.broken
    <3>1. NoSocket.state = "none"
      BY NoSockets
    <3>2. k.state \notin {"none", "SynSent", "Established", "CloseWait", "Closed"}
      OBVIOUS
    <3> QED
      BY <2>2, <3>1, <3>2 DEF Opened
  <2>6. Counted(t, a, x)
    BY <2>2, <2>5 DEF Counted, Opened
  <2> DEFINE g == x.got
             kt == k.tx
             p == t.pending
             e == t.half_closed
             b == x.backlog
             d == x.dataIn
             h == a.hand
             n == a.read
             r == a.up_done
  <2>7. Chain(g, kt, p, e, b, d, h) = Given(n, r)
    BY <2>2, <2>6 DEF UploadWhole
  <2>8. /\ g \in Bytes /\ kt \in Bytes /\ p \in Bytes /\ e \in BOOLEAN /\ b \in Bytes
        /\ d \in Bytes /\ h \in Bytes /\ n \in 0..UpBytes /\ r \in BOOLEAN
    <3>1. /\ kt \in UpSeq /\ p \in UpSeq /\ h \in UpSeq /\ e \in BOOLEAN
          /\ n \in 0..UpBytes /\ r \in BOOLEAN
      BY <2>1 DEF Standing, TcpFlows, TcpState, Sockets, Relays
    <3>2. g \in Bytes /\ b \in Bytes /\ d \in Bytes
      BY <2>1 DEF Standing, Surroundings
    <3> QED
      BY <3>1, <3>2, UpSeqBytes
  <2>9. e /\ p = <<>> /\ g = peer[f].got
    BY <2>4 DEF Around
  <2> HIDE DEF g, kt, p, e, b, d, h, n, r
  <2>10. n \in Nat
    BY <2>8, Sizes
  <2>11. Accounts(g, kt, p, e, b, d, h, n, r)
    BY <2>7, <2>8, <2>10 DEF Accounts, Places
  <2>12. Ends(g, kt, p, b, d, h, n, r)
    BY <2>9, <2>11, ChainEnded
  <2>13. r /\ Len(g) + Len(kt) = n
    <3> DEFINE lg == Len(g)
               lk == Len(kt)
               lp == Len(p)
    <3>1. r /\ lg + lk + lp = n
      BY <2>12 DEF Ends
    <3>2. lg \in Nat /\ lk \in Nat /\ lp = 0
      BY <2>8, <2>9, ByteSeqs
    <3> HIDE DEF lg, lk, lp
    <3>3. lg + lk = n
      BY <3>1, <3>2
    <3> QED
      BY <3>1, <3>3 DEF lg, lk
  <2> QED
    BY <2>9, <2>13 DEF kt, n, r
<1> QED
  BY <1>1, StackInductive, PTL

(* service_tcp() resets a flow only for stalls it has earned. *)
LEMMA ServiceEarns ==
    ASSUME StackInv, Service, NEW f \in Flows, f \in broken', f \notin broken
    PROVE  ~tcp[f].carrier /\ quiet[f] + 1 >= StallWarn
<1>1. pc = "service"
  BY ServiceIs
<1>2. PICK expired \in BOOLEAN, cap \in MinBudget..MaxBudget : ServicedAs(expired, cap)
  BY ServiceIs
<1>3. Pass(f, expired, cap).reset
  BY <1>2 DEF ServicedAs
<1>4. PassGood(f, expired, cap)
  BY <1>1, PassKeeps
<1>5. PICK t2, k2, a2, c2 : \E r \in BOOLEAN :
        /\ Pass(f, expired, cap) = B(t2, k2, a2, c2, r)
        /\ r => Earned(tcp[f], Around(f))
  BY <1>4 DEF PassGood
<1>6. PICK r \in BOOLEAN : /\ Pass(f, expired, cap) = B(t2, k2, a2, c2, r)
                           /\ r => Earned(tcp[f], Around(f))
  BY <1>5
<1>7. Pass(f, expired, cap).reset = r
  BY <1>6 DEF B
<1>8. Earned(tcp[f], Around(f))
  BY <1>3, <1>6, <1>7
<1> QED
  BY <1>8 DEF Earned, Around

(* reap_wedged() resets a flow that is silent, or that was ended. *)
LEMMA BacklogEarns ==
    ASSUME StackInv, Backlog, NEW f \in Flows, f \in broken', f \notin broken
    PROVE  /\ ~tcp[f].carrier
           /\ peer[f].fin \/ app[f].gone \/ quiet[f] + 1 >= StallReset
<1> DEFINE d == IngestAll(tcp, <<>>, backlog)
           st == Stalled(d.tcp)
           dead == Reaps(d)
           hit == {h \in dead : d.tcp[h].live}
           left == Purged(d.backlog, st)
<1>1. broken' = broken \cup hit /\ pc = "backlog"
  BY BacklogIs
<1>2. f \in st \cup Wedged(d.tcp, left) /\ d.tcp[f].live
  BY <1>1 DEF Reaps
<1>3. /\ d.tcp \in Tables /\ d.backlog \in Queues /\ TookIn(tcp[f], d.tcp[f])
      /\ Standing(d.tcp[f], sock[f], app[f], credit[f], AfterBacklog(f))
  BY <1>1, BacklogTaken
<1> DEFINE t == tcp[f]
           k == sock[f]
           a == app[f]
           x == Around(f)
           u == d.tcp[f]
           q == quiet[f]
<1>4. t \in TcpState /\ q \in 0..StallReset /\ x \in Surroundings
  BY FlowTypes DEF StackInv
<1>5. /\ u.live = t.live /\ u.carrier = t.carrier /\ u.established = t.established
      /\ u.send_queue_high = t.send_queue_high
      /\ u.drain_age = t.drain_age /\ u.progress_age = t.progress_age
  BY <1>3, <1>4 DEF TookIn, TcpState
<1>6. /\ Opened(t, k, a, x) /\ AgesFollow(t, k, x) /\ JustServiced(t, k, a, x)
      /\ x.quiet = q /\ x.stage = "backlog" /\ ~x.broken /\ x.fin = peer[f].fin
  BY <1>1 DEF StackInv, FlowInv, Around
<1>7. t.drain_age \in Nat /\ t.progress_age \in Nat /\ q \in Nat
  BY <1>4, Sizes DEF TcpState
<1>8. t.live
  BY <1>2, <1>5
<1>9. CASE f \in st
  <2>1. ~t.carrier /\ t.send_queue_high > 0 /\ t.drain_age >= StallReset
    BY <1>5, <1>9 DEF Stalled
  <2>2. t.established
    BY <1>6, <2>1 DEF Opened
  <2>3. Len(x.got) <= t.acked_high
    BY <1>6, <1>8, <2>2 DEF JustServiced
  <2>4. t.drain_age <= q + 1
    BY <1>6, <1>8, <2>2, <2>3 DEF AgesFollow
  <2> DEFINE da == t.drain_age
  <2>5. q + 1 >= StallReset
    <3>1. da \in Nat /\ da >= StallReset /\ da <= q + 1
      BY <1>7, <2>1, <2>4
    <3> HIDE DEF da, q
    <3> QED
      BY <1>7, <3>1, Sizes
  <2> QED
    BY <2>1, <2>5
<1>10. CASE f \in Wedged(d.tcp, left) /\ f \notin st
  <2>1. Holds(left, f) /\ ~t.carrier /\ t.progress_age >= Wedge
    BY <1>2, <1>5, <1>10 DEF Wedged
  <2>2. left \in Queues /\ Stream(left, f) = Stream(d.backlog, f)
    <3> HIDE DEF st, d
    <3> QED
      BY <1>3, <1>10, PurgedFor
  <2>3. AfterBacklog(f).backlog # <<>>
    <3>1. Stream(left, f) # <<>>
      <4> HIDE DEF left
      <4> QED
        BY <2>1, <2>2, HeldMeans
    <3> QED
      BY <2>2, <3>1 DEF AfterBacklog
  <2>4. a.conn \notin {"none", "wait"}
    <3> SUFFICES ASSUME a.conn \in {"none", "wait"} PROVE FALSE
      OBVIOUS
    <3> DEFINE y == AfterBacklog(f)
               c == credit[f]
    <3>1. Standing(u, k, a, c, y) /\ y.backlog # <<>>
      BY <1>3, <2>3
    <3> HIDE DEF u, k, a, c, y
    <3> QED
      BY <3>1, NothingYet
  <2>5. t.established
    BY <1>6, <1>8, <2>4 DEF Opened
  <2>6. Fed(t, k, a, x)
    BY <1>6, <1>8, <2>5 DEF JustServiced
  <2> DEFINE pa == t.progress_age
  <2>7. pa \in Nat /\ pa >= Wedge /\ pa # 0
    BY <1>7, <2>1, Sizes
  <2>8. Len(k.tx) = SendBuf \/ x.fin \/ a.gone
    BY <1>6, <2>6, <2>7 DEF Fed
  <2>9. Len(k.tx) = SendBuf => pa <= q + 1 \/ q = StallReset
    BY <1>6, <1>8 DEF AgesFollow
  <2>10. Len(k.tx) = SendBuf => q + 1 >= StallReset
    <3> SUFFICES ASSUME pa <= q + 1 \/ q = StallReset PROVE q + 1 >= StallReset
      BY <2>9
    <3> HIDE DEF pa, q
    <3> QED
      BY <1>7, <2>7, Sizes
  <2> QED
    BY <1>6, <2>1, <2>8, <2>10
<1> QED
  BY <1>2, <1>9, <1>10

(* The netstack resets no carrier, and any other flow only when its peer was silent for
   the stall time (for the warning time when the flow flaps), up to one late tick, or when
   the peer or the relay ended the stream (netstack.rs: the flap reset of service_tcp, the
   stalled and wedged flows of the loop). *)
THEOREM ResetsAreEarned == Spec => ResetOnlySilent
<1> DEFINE Good == \A f \in broken' \ broken :
                      pc # "poll" =>
                        /\ ~tcp[f].carrier
                        /\ \/ peer[f].fin \/ app[f].gone
                           \/ quiet[f] + 1 >= IF pc = "service" THEN StallWarn ELSE StallReset
<1>1. StackInv /\ [Next]_vars => [Good]_vars
  <2> SUFFICES ASSUME StackInv, Next, NEW f \in broken' \ broken, pc # "poll"
               PROVE  /\ ~tcp[f].carrier
                      /\ \/ peer[f].fin \/ app[f].gone
                         \/ quiet[f] + 1 >= IF pc = "service" THEN StallWarn ELSE StallReset
    BY DEF vars
  <2>1. Service \/ Backlog
    <3> SUFFICES ASSUME ~Service, ~Backlog PROVE broken' = broken \/ pc = "poll"
      OBVIOUS
    <3>1. CASE Poll \/ Shutdown
      BY <3>1 DEF Poll, Shutdown
    <3>2. ASSUME NEW tick \in BOOLEAN, Drain(tick) PROVE broken' = broken
      BY <3>2 DEF Drain
    <3>3. ASSUME NEW h \in Flows,
             \/ PeerAccepts(h) \/ PeerResets(h) \/ PeerAcks(h)
             \/ PeerAcksFin(h) \/ PeerSends(h) \/ PeerFins(h)
          PROVE  pc = "poll"
      BY <3>3, SMTT(30) DEF PeerAccepts, PeerResets, PeerAcks, PeerAcksFin, PeerSends, PeerFins
    <3>4. ASSUME NEW h \in Flows,
             \/ OpenTcp(h) \/ GiveUp(h) \/ ReadClient(h) \/ Reserve(h)
             \/ Push(h) \/ CloseUpload(h) \/ Recv(h) \/ RecvEof(h) \/ Vanish(h)
          PROVE  broken' = broken
      BY <3>4 DEF OpenTcp, GiveUp, ReadClient, Reserve, Push, CloseUpload, Recv, RecvEof, Vanish,
                  DropRelay, RelayUnchanged
    <3> QED
      BY <3>1, <3>2, <3>3, <3>4 DEF Next
  <2>2. CASE Service
    <3>1. f \in Flows /\ pc = "service"
      <4>1. StackInv'
        BY <2>2, ServiceKeeps
      <4> QED
        BY <2>2, <4>1 DEF StackInv, StackTypes, Service
    <3> QED
      BY <2>2, <3>1, ServiceEarns
  <2>3. CASE Backlog
    <3>1. f \in Flows /\ pc = "backlog"
      <4>1. StackInv'
        BY <2>3, BacklogKeeps
      <4> QED
        BY <2>3, <4>1 DEF StackInv, StackTypes, Backlog
    <3> QED
      BY <2>3, <3>1, BacklogEarns
  <2> QED
    BY <2>1, <2>2, <2>3
<1>2. Spec => [][Good]_vars
  <2> HIDE DEF Good
  <2> QED
    BY <1>1, StackInductive, PTL DEF Spec
<1> QED
  BY <1>2 DEF ResetOnlySilent
=============================================================================
