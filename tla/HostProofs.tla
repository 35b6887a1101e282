----------------------------- MODULE HostProofs -----------------------------
(***************************************************************************)
(* Theorems about HostLifecycle, for every set of command lines: that no   *)
(* loop of the start-up leaves its arrays; that addresses, execution units *)
(* and host memory are handed out without overlap; that a handler is run   *)
(* only when everything it uses exists; that a failure main passes over    *)
(* costs at most one rule, and main does not return 0 with a context given *)
(* up; and that the clean-up, wherever the start-up stopped, releases what *)
(* exists, once, users first, and leaves nothing that main ever releases.  *)
(***************************************************************************)
EXTENDS HostLifecycle, SequenceTheorems, FiniteSetTheorems, WellFoundedInduction, TLAPS

-----------------------------------------------------------------------------
(***************************************************************************)
(* Sequences put together from sequences.                                  *)
(***************************************************************************)
\* Induction over the natural numbers, for a set.
LEMMA SetInduction ==
    ASSUME NEW S \in SUBSET Nat, 0 \in S, \A n \in S : n + 1 \in S
    PROVE  S = Nat
  <1> DEFINE T == Nat \ S
  <1> SUFFICES ASSUME T # {} PROVE FALSE
    OBVIOUS
  <1>1. PICK x \in T : \A y \in T : ~(<<y, x>> \in OpToRel(<, Nat))
    BY NatLessThanWellFounded, WFMin
  <1>2. x # 0 /\ x - 1 \in Nat
    OBVIOUS
  <1>3. x - 1 \in T
    BY <1>2
  <1>4. <<x - 1, x>> \in OpToRel(<, Nat)
    BY <1>2 DEF OpToRel
  <1> QED
    BY <1>1, <1>3, <1>4

\* g[i] is the concatenation of the first i sequences.
IsFlattening(g, seqs, k) ==
    g = [i \in 1..k |-> IF i = 1 THEN seqs[i] ELSE g[i - 1] \o seqs[i]]

\* A table of partial concatenations exists for every number of sequences,
LEMMA FlatteningsExist ==
    ASSUME NEW S, NEW seqs \in Seq(Seq(S))
    PROVE  \E g : IsFlattening(g, seqs, Len(seqs))
  <1> DEFINE K == {k \in Nat : \E g : IsFlattening(g, seqs, k)}
  <1>1. 0 \in K
    <2>1. IsFlattening(<<>>, seqs, 0)
      BY DEF IsFlattening
    <2> QED
      BY <2>1
  <1>2. ASSUME NEW k \in K PROVE k + 1 \in K
    <2>1. PICK g : IsFlattening(g, seqs, k)
      OBVIOUS
    <2> DEFINE next == IF k = 0 THEN seqs[1] ELSE g[k] \o seqs[k + 1]
               h == [i \in 1..(k + 1) |-> IF i = k + 1 THEN next ELSE g[i]]
    <2>2. ASSUME NEW i \in 1..(k + 1)
          PROVE  h[i] = IF i = 1 THEN seqs[i] ELSE h[i - 1] \o seqs[i]
      <3>1. CASE i = k + 1
        BY <3>1
      <3>2. CASE i # k + 1
        <4>1. i \in 1..k /\ h[i] = g[i] /\ (i # 1 => h[i - 1] = g[i - 1])
          BY <3>2
        <4>2. g[i] = IF i = 1 THEN seqs[i] ELSE g[i - 1] \o seqs[i]
          BY <2>1, <4>1, Zenon DEF IsFlattening
        <4> QED
          BY <4>1, <4>2
      <3> QED
        BY <3>1, <3>2
    <2>3. h = [i \in 1..(k + 1) |-> h[i]]
      OBVIOUS
    <2>4. IsFlattening(h, seqs, k + 1)
      BY <2>2, <2>3, Zenon DEF IsFlattening
    <2> QED
      BY <2>4
  <1>3. Len(seqs) \in K
    <2> HIDE DEF K
    <2>1. K \in SUBSET Nat
      BY DEF K
    <2>2. K = Nat
      BY <1>1, <1>2, <2>1, SetInduction
    <2>3. Len(seqs) \in Nat
      OBVIOUS
    <2> QED
      BY <2>2, <2>3, Zenon
  <1> QED
    BY <1>3

\* so FlattenSeq, which chooses one, reads its last entry.
LEMMA FlattenSeqIs ==
    ASSUME NEW S, NEW seqs \in Seq(Seq(S)), Len(seqs) # 0
    PROVE  \E g : /\ FlattenSeq(seqs) = g[Len(seqs)]
                  /\ \A i \in 1..Len(seqs) :
                        g[i] \in Seq(S) /\ g[i] = IF i = 1 THEN seqs[i] ELSE g[i - 1] \o seqs[i]
  <1> DEFINE g == CHOOSE g : g = [i \in 1..Len(seqs) |-> IF i = 1 THEN seqs[i] ELSE g[i - 1] \o seqs[i]]
  <1>1. IsFlattening(g, seqs, Len(seqs))
    BY FlatteningsExist DEF IsFlattening
  <1>2. FlattenSeq(seqs) = g[Len(seqs)]
    BY DEF FlattenSeq
  <1> HIDE DEF g
  <1>3. \A i \in 1..Len(seqs) : g[i] = IF i = 1 THEN seqs[i] ELSE g[i - 1] \o seqs[i]
    BY <1>1, Zenon DEF IsFlattening
  <1> DEFINE K == {k \in Nat : k + 1 <= Len(seqs) => g[k + 1] \in Seq(S)}
  <1>4. 0 \in K
    BY <1>3
  <1>5. ASSUME NEW k \in K PROVE k + 1 \in K
    <2> SUFFICES ASSUME (k + 1) + 1 <= Len(seqs) PROVE g[(k + 1) + 1] \in Seq(S)
      OBVIOUS
    <2>1. /\ k \in Nat /\ g[k + 1] \in Seq(S)
          /\ (k + 1) + 1 \in 1..Len(seqs) /\ ((k + 1) + 1) - 1 = k + 1 /\ (k + 1) + 1 # 1
      OBVIOUS
    <2>2. seqs[(k + 1) + 1] \in Seq(S)
      BY <2>1
    <2>3. g[(k + 1) + 1] = g[k + 1] \o seqs[(k + 1) + 1]
      BY <1>3, <2>1, Zenon
    <2> QED
      BY <2>1, <2>2, <2>3
  <1>6. K = Nat
    <2> HIDE DEF K
    <2>1. K \in SUBSET Nat
      BY DEF K
    <2> QED
      BY <1>4, <1>5, <2>1, SetInduction
  <1>7. ASSUME NEW i \in 1..Len(seqs) PROVE g[i] \in Seq(S)
    <2>1. PICK k \in Nat : k + 1 = i
      <3>1. i - 1 \in Nat /\ (i - 1) + 1 = i
        OBVIOUS
      <3> QED
        BY <3>1, Zenon
    <2>2. k \in K
      BY <1>6, Zenon
    <2>3. g[k + 1] \in Seq(S)
      BY <2>1, <2>2
    <2> QED
      BY <2>1, <2>3, Zenon
  <1> QED
    BY <1>2, <1>3, <1>7, Zenon

\* What FlattenSeq returns has the elements of the sequences it is given.
LEMMA FlattenSeqType ==
    ASSUME NEW S, NEW seqs \in Seq(Seq(S))
    PROVE  FlattenSeq(seqs) \in Seq(S)
  <1>1. CASE Len(seqs) = 0
    <2>1. seqs = <<>>
      BY <1>1
    <2> QED
      BY <1>1, <2>1 DEF FlattenSeq
  <1>2. CASE Len(seqs) # 0
    <2>1. Len(seqs) \in 1..Len(seqs)
      BY <1>2
    <2> QED
      BY <1>2, <2>1, FlattenSeqIs, Zenon
  <1> QED
    BY <1>1, <1>2

\* Sequences of two and three elements.
LEMMA ConcatShort ==
    ASSUME NEW a, NEW b, NEW c
    PROVE  <<a>> \o <<b>> = <<a, b>> /\ <<a, b>> \o <<c>> = <<a, b, c>>
  <1>1. PICK S : a \in S /\ b \in S /\ c \in S
    <2>1. a \in {a, b, c} /\ b \in {a, b, c} /\ c \in {a, b, c}
      OBVIOUS
    <2> QED
      BY <2>1, Zenon
  <1>2. /\ <<a>> \in Seq(S) /\ <<b>> \in Seq(S) /\ <<c>> \in Seq(S)
        /\ <<a, b>> \in Seq(S) /\ <<a, b, c>> \in Seq(S)
    BY <1>1
  <1>3. <<a>> \o <<b>> = <<a, b>>
    <2>1. PICK s \in Seq(S) : s = <<a>> \o <<b>>
      BY <1>2, ConcatProperties, Zenon
    <2>2. /\ Len(s) = Len(<<a>>) + Len(<<b>>)
          /\ \A i \in 1..(Len(<<a>>) + Len(<<b>>)) :
                s[i] = IF i <= Len(<<a>>) THEN <<a>>[i] ELSE <<b>>[i - Len(<<a>>)]
      BY <1>2, <2>1, ConcatProperties, Zenon
    <2>3. Len(<<a>>) = 1 /\ Len(<<b>>) = 1 /\ Len(<<a, b>>) = 2
      OBVIOUS
    <2>4. Len(s) = 2 /\ s[1] = a /\ s[2] = b
      BY <2>2, <2>3
    <2>5. \A i \in 1..Len(s) : s[i] = <<a, b>>[i]
      BY <2>4
    <2> QED
      BY <1>2, <2>1, <2>3, <2>4, <2>5, SeqEqual
  <1>4. <<a, b>> \o <<c>> = <<a, b, c>>
    <2>1. PICK s \in Seq(S) : s = <<a, b>> \o <<c>>
      BY <1>2, ConcatProperties, Zenon
    <2>2. /\ Len(s) = Len(<<a, b>>) + Len(<<c>>)
          /\ \A i \in 1..(Len(<<a, b>>) + Len(<<c>>)) :
                s[i] = IF i <= Len(<<a, b>>) THEN <<a, b>>[i] ELSE <<c>>[i - Len(<<a, b>>)]
      BY <1>2, <2>1, ConcatProperties, ZenonT(60)
    <2>3. Len(<<a, b>>) = 2 /\ Len(<<c>>) = 1 /\ Len(<<a, b, c>>) = 3
      OBVIOUS
    <2>4. Len(s) = 3 /\ s[1] = a /\ s[2] = b /\ s[3] = c
      BY <2>2, <2>3
    <2>5. \A i \in 1..Len(s) : s[i] = <<a, b, c>>[i]
      BY <2>4
    <2> QED
      BY <1>2, <2>1, <2>3, <2>4, <2>5, SeqEqual
  <1> QED
    BY <1>3, <1>4

\* t stands in s, after the first b elements.
Block(s, t, b) ==
    /\ b \in Nat /\ b + Len(t) <= Len(s)
    /\ \A l \in 1..Len(t) : s[b + l] = t[l]

\* A block stays one when its sequence is continued at either end.
LEMMA BlockInConcat ==
    ASSUME NEW S, NEW s1 \in Seq(S), NEW s2 \in Seq(S), NEW t \in Seq(S), NEW b
    PROVE  /\ Block(s1, t, b) => Block(s1 \o s2, t, b)
           /\ Block(s2, t, b) => Block(s1 \o s2, t, Len(s1) + b)
  <1>1. ASSUME Block(s1, t, b) PROVE Block(s1 \o s2, t, b)
    <2>1. b \in Nat /\ b + Len(t) <= Len(s1 \o s2)
      BY <1>1 DEF Block
    <2>2. ASSUME NEW l \in 1..Len(t) PROVE (s1 \o s2)[b + l] = t[l]
      <3>1. b + l \in 1..Len(s1) /\ s1[b + l] = t[l]
        BY <1>1 DEF Block
      <3> QED
        BY <3>1
    <2> QED
      BY <2>1, <2>2 DEF Block
  <1>2. ASSUME Block(s2, t, b) PROVE Block(s1 \o s2, t, Len(s1) + b)
    <2>1. Len(s1) + b \in Nat /\ (Len(s1) + b) + Len(t) <= Len(s1 \o s2)
      BY <1>2 DEF Block
    <2>2. ASSUME NEW l \in 1..Len(t) PROVE (s1 \o s2)[(Len(s1) + b) + l] = t[l]
      <3>1. b \in Nat /\ b + l \in 1..Len(s2) /\ s2[b + l] = t[l]
        BY <1>2 DEF Block
      <3>2. PICK k \in 1..Len(s2) : k = b + l
        BY <3>1
      <3>3. (s1 \o s2)[Len(s1) + k] = s2[k]
        OBVIOUS
      <3>4. (Len(s1) + b) + l = Len(s1) + k
        BY <3>1, <3>2
      <3> QED
        BY <3>1, <3>2, <3>3, <3>4
    <2> QED
      BY <2>1, <2>2 DEF Block
  <1> QED
    BY <1>1, <1>2

\* Every sequence that is flattened is a block of the result, and every element of
\* the result lies in such a block.
LEMMA FlattenSeqBlocks ==
    ASSUME NEW S, NEW seqs \in Seq(Seq(S))
    PROVE  /\ \A i \in 1..Len(seqs) : \E b : Block(FlattenSeq(seqs), seqs[i], b)
           /\ \A x \in 1..Len(FlattenSeq(seqs)) :
                 \E i \in 1..Len(seqs) : \E l \in 1..Len(seqs[i]) : \E b :
                    Block(FlattenSeq(seqs), seqs[i], b) /\ x = b + l
  <1>1. CASE Len(seqs) = 0
    <2>1. seqs = <<>>
      BY <1>1
    <2>2. FlattenSeq(seqs) = <<>>
      BY <1>1, <2>1 DEF FlattenSeq
    <2> QED
      BY <2>1, <2>2
  <1>2. CASE Len(seqs) # 0
    <2>1. PICK g : /\ FlattenSeq(seqs) = g[Len(seqs)]
                   /\ \A i \in 1..Len(seqs) :
                         g[i] \in Seq(S) /\ g[i] = IF i = 1 THEN seqs[i] ELSE g[i - 1] \o seqs[i]
      BY <1>2, FlattenSeqIs
    <2> DEFINE Good(s, n) ==
                   /\ \A i \in 1..n : \E b : Block(s, seqs[i], b)
                   /\ \A x \in 1..Len(s) : \E i \in 1..n : \E l \in 1..Len(seqs[i]) : \E b :
                         Block(s, seqs[i], b) /\ x = b + l
               K == {k \in Nat : k + 1 <= Len(seqs) => Good(g[k + 1], k + 1)}
    <2>2. \A i \in 1..Len(seqs) : seqs[i] \in Seq(S) /\ Len(seqs[i]) \in Nat
      OBVIOUS
    <2>3. 0 \in K
      <3>1. 1 \in 1..Len(seqs) /\ 0 + 1 = 1
        BY <1>2
      <3>2. g[1] = seqs[1] /\ seqs[1] \in Seq(S)
        BY <2>1, <3>1
      <3>3. Block(g[1], seqs[1], 0)
        BY <3>2 DEF Block
      <3>4. ASSUME NEW x \in 1..Len(g[1])
            PROVE  \E i \in 1..1 : \E l \in 1..Len(seqs[i]) : \E b : Block(g[1], seqs[i], b) /\ x = b + l
        <4>1. 1 \in 1..1 /\ x \in 1..Len(seqs[1]) /\ x = 0 + x
          BY <3>2
        <4> QED
          BY <3>3, <4>1, Zenon
      <3>5. \A i \in 1..1 : i = 1
        OBVIOUS
      <3>6. Good(g[1], 1)
        BY <3>3, <3>4, <3>5, Zenon
      <3> HIDE DEF Good
      <3> QED
        BY <3>1, <3>6
    <2>4. ASSUME NEW k \in K PROVE k + 1 \in K
      <3> HIDE DEF Good
      <3> SUFFICES ASSUME (k + 1) + 1 <= Len(seqs) PROVE Good(g[(k + 1) + 1], (k + 1) + 1)
        OBVIOUS
      <3>1. PICK m \in 1..Len(seqs) : m = k + 1 /\ m + 1 \in 1..Len(seqs) /\ m + 1 = (k + 1) + 1
        <4>1. k + 1 \in 1..Len(seqs) /\ (k + 1) + 1 \in 1..Len(seqs)
          OBVIOUS
        <4> QED
          BY <4>1
      <3>2. Good(g[m], m)
        <4>1. k + 1 <= Len(seqs)
          BY <3>1
        <4>2. Good(g[k + 1], k + 1)
          BY <4>1
        <4> QED
          BY <3>1, <4>2
      <3>3. PICK s \in Seq(S) : s = g[m]
        BY <2>1
      <3>a. /\ \A i \in 1..m : \E b : Block(s, seqs[i], b)
            /\ \A x \in 1..Len(s) : \E i \in 1..m : \E l \in 1..Len(seqs[i]) : \E b :
                  Block(s, seqs[i], b) /\ x = b + l
        <4>1. Good(s, m)
          BY <3>2, <3>3
        <4> QED
          BY <4>1, Zenon DEF Good
      <3>4. PICK t \in Seq(S) : t = seqs[m + 1]
        BY <2>2, <3>1
      <3>5. g[m + 1] = s \o t
        <4>1. m + 1 # 1 /\ (m + 1) - 1 = m
          OBVIOUS
        <4> QED
          BY <2>1, <3>1, <3>3, <3>4, <4>1, Zenon
      <3>6. \A i \in 1..(m + 1) : i \in 1..m \/ i = m + 1
        OBVIOUS
      <3>7. \A i \in 1..m : i \in 1..(m + 1) /\ seqs[i] \in Seq(S)
        BY <2>2
      <3>8. Block(s \o t, t, Len(s) + 0)
        <4>1. Block(t, t, 0)
          BY DEF Block
        <4> QED
          BY <4>1, BlockInConcat
      <3>9. ASSUME NEW i \in 1..(m + 1) PROVE \E b : Block(s \o t, seqs[i], b)
        <4>1. CASE i \in 1..m
          <5>1. PICK b : Block(s, seqs[i], b)
            BY <3>a, <4>1
          <5>2. Block(s \o t, seqs[i], b)
            BY <3>7, <4>1, <5>1, BlockInConcat
          <5> QED
            BY <5>2
        <4>2. CASE i = m + 1
          BY <3>4, <3>8, <4>2
        <4> QED
          BY <3>6, <4>1, <4>2
      <3>10. ASSUME NEW x \in 1..Len(s \o t)
             PROVE  \E i \in 1..(m + 1) : \E l \in 1..Len(seqs[i]) : \E b :
                       Block(s \o t, seqs[i], b) /\ x = b + l
        <4>1. CASE x \in 1..Len(s)
          <5>1. PICK i \in 1..m : \E l \in 1..Len(seqs[i]) : \E b : Block(s, seqs[i], b) /\ x = b + l
            BY <3>a, <4>1
          <5>2. PICK l \in 1..Len(seqs[i]) : \E b : Block(s, seqs[i], b) /\ x = b + l
            BY <5>1
          <5>3. PICK b : Block(s, seqs[i], b) /\ x = b + l
            BY <5>2
          <5>4. Block(s \o t, seqs[i], b)
            BY <3>7, <5>3, BlockInConcat
          <5> QED
            BY <3>7, <5>2, <5>3, <5>4, Zenon
        <4>2. CASE x \notin 1..Len(s)
          <5>1. PICK l \in 1..Len(t) : x = (Len(s) + 0) + l
            <6>1. x - Len(s) \in 1..Len(t) /\ x = (Len(s) + 0) + (x - Len(s))
              BY <4>2
            <6> QED
              BY <6>1, Zenon
          <5>2. m + 1 \in 1..(m + 1)
            OBVIOUS
          <5> QED
            BY <3>4, <3>8, <5>1, <5>2, Zenon
        <4> QED
          BY <4>1, <4>2
      <3>11. Good(s \o t, m + 1)
        BY <3>9, <3>10, Zenon DEF Good
      <3> QED
        BY <3>1, <3>5, <3>11
    <2>5. K = Nat
      <3> HIDE DEF K
      <3>1. K \in SUBSET Nat
        BY Zenon DEF K
      <3> QED
        BY <2>3, <2>4, <3>1, SetInduction
    <2>6. PICK k \in Nat : k + 1 = Len(seqs)
      <3>1. Len(seqs) - 1 \in Nat /\ (Len(seqs) - 1) + 1 = Len(seqs)
        BY <1>2
      <3> QED
        BY <3>1, Zenon
    <2>7. k \in K
      BY <2>5, Zenon
    <2> HIDE DEF Good
    <2>8. Good(g[Len(seqs)], Len(seqs))
      BY <2>6, <2>7
    <2> QED
      BY <2>1, <2>8, Zenon DEF Good
  <1> QED
    BY <1>1, <1>2

\* e occurs in s.
Has(s, e) == \E l \in 1..Len(s) : s[l] = e

\* What occurs in a part occurs in the whole.
LEMMA HasInConcat ==
    ASSUME NEW S, NEW s1 \in Seq(S), NEW s2 \in Seq(S), NEW e
    PROVE  (Has(s1, e) => Has(s1 \o s2, e)) /\ (Has(s2, e) => Has(s1 \o s2, e))
  <1>1. ASSUME NEW l \in 1..Len(s1), s1[l] = e PROVE Has(s1 \o s2, e)
    <2>1. l \in 1..Len(s1 \o s2) /\ (s1 \o s2)[l] = e
      BY <1>1
    <2> QED
      BY <2>1 DEF Has
  <1>2. ASSUME NEW l \in 1..Len(s2), s2[l] = e PROVE Has(s1 \o s2, e)
    <2>1. Len(s1) + l \in 1..Len(s1 \o s2) /\ (s1 \o s2)[Len(s1) + l] = e
      BY <1>2
    <2> QED
      BY <2>1 DEF Has
  <1> QED
    BY <1>1, <1>2 DEF Has

\* So does what occurs in a block.
LEMMA HasInBlock ==
    ASSUME NEW S, NEW s \in Seq(S), NEW t \in Seq(S), NEW b, Block(s, t, b), NEW e, Has(t, e)
    PROVE  Has(s, e)
  <1>1. PICK l \in 1..Len(t) : t[l] = e
    BY DEF Has
  <1>2. b + l \in 1..Len(s) /\ s[b + l] = e
    BY <1>1 DEF Block
  <1> QED
    BY <1>2 DEF Has

-----------------------------------------------------------------------------
(***************************************************************************)
(* Fields, contexts and steps that lie within the arrays main allocates    *)
(* for given options.                                                      *)
(***************************************************************************)
SchContexts(o) == {"sch"} \X (0..(o.scheduler_num - 1))
ThdContexts(o) == {"thd"} \X (0..(threads_num(o) - 1))
ContextsOf(o) == SchContexts(o) \cup ThdContexts(o)
QueuesOf(o, c) == 0..(num_queues(o, c) - 1)

AppNames == {"ibv_ctx", "process_pd", "flexio_process", "flexio_window", "stream"}
MatcherNames == {"dr_domain", "dr_table_root", "dr_matcher_root", "dr_table_sws", "dr_matcher_sws"}
ContextNames == {"event_handler", "host_alloc_base", "mr", "app_data_daddr"}
QueueNames == {"host_rq_buffer", "host_sq_buffer",
               "rq_cq_dbr_daddr", "rq_cq_ring_daddr", "flexio_rq_cq_ptr", "rq_wqd_daddr", "rqd_mkey",
               "rq_wq_ring_daddr", "rq_wq_dbr_daddr", "flexio_rq_ptr",
               "sq_cq_dbr_daddr", "sq_cq_ring_daddr", "flexio_sq_cq_ptr", "sq_wqd_daddr", "sqd_mkey",
               "sq_wq_ring_daddr", "flexio_sq_ptr"}
RuleNames == {"rx_action", "rx_rule", "tx_action", "tx_rule", "tx_action2", "tx_rule2"}
AppFlags == {"rx_matcher", "tx_matcher"}
QueueFlags == {"rq_data_on_host", "sq_data_reuses_rq", "sq_data_on_host"}
RuleFlags == {"rx_flow_rule", "tx_flow_rule", "tx_flow_rule2"}

FlagNames == AppFlags \cup QueueFlags \cup RuleFlags

\* Fields that point to a resource, and flags.  Only a scheduler has rules.
DataFields(o) ==
    {App(n) : n \in AppNames}
    \cup {Matcher(dir, n) : dir \in {"rx", "tx"}, n \in MatcherNames}
    \cup {Of(c, n) : c \in ContextsOf(o), n \in ContextNames}
    \cup {OfQueue(c, j, n) : c \in SchContexts(o), j \in 0..(scheduler_queue_count(o) - 1),
                            n \in QueueNames \cup RuleNames}
    \cup {OfQueue(c, j, n) : c \in ThdContexts(o), j \in {0}, n \in QueueNames}

FlagFields(o) ==
    {App(n) : n \in AppFlags}
    \cup {OfQueue(c, j, n) : c \in SchContexts(o), j \in 0..(scheduler_queue_count(o) - 1),
                            n \in QueueFlags \cup RuleFlags}
    \cup {OfQueue(c, j, n) : c \in ThdContexts(o), j \in {0}, n \in QueueFlags}

\* What is made is a resource, what is pointed to is not a flag.  Handlers are run
\* in calls of their own.
MakingSteps(o) ==
    [do : {"make"}, field : DataFields(o), from : {NULL}, deref : {NULL} \cup FlagFields(o)]
    \cup [do : {"attempt"}, field : {NULL}, from : {NULL}, deref : {NULL}]
    \cup [do : {"point"}, field : DataFields(o), from : DataFields(o), deref : {NULL}]
    \cup [do : {"flag"}, field : FlagFields(o), from : {NULL}, deref : {NULL}]

MakingCalls(o) ==
    [onfail : {"quit", "err", "silent", "ignore"}, undo : BOOLEAN, steps : Seq(MakingSteps(o))]

Calls(o) == MakingCalls(o) \cup {Call("err", <<Run(c)>>) : c \in ContextsOf(o)}

Steps(o) == MakingSteps(o) \cup {Run(c) : c \in ContextsOf(o)}

\* The numbers of an option record.
LEMMA OptionFacts ==
    ASSUME NEW o \in OptionRecords
    PROVE  /\ o.scheduler_num \in Nat /\ o.scheduler_num >= 1
           /\ o.threads_num_per_scheduler \in Nat /\ o.threads_num_per_scheduler >= 1
           /\ threads_num(o) \in Nat /\ scheduler_queue_count(o) \in Nat
           /\ scheduler_queue_count(o) >= 1
           /\ o.begin_schedr \in Nat /\ o.begin_worker \in Nat
           /\ o.worker_given \in BOOLEAN
           /\ o.buffer_location \in {0, 1} /\ o.use_copy \in {0, 1}
  BY DEF OptionRecords, threads_num, scheduler_queue_count, WORKER_QUEUES_PER_THREAD

\* The fields of a context and of its queues.
LEMMA FieldsOfContexts ==
    ASSUME NEW o, NEW c \in ContextsOf(o), NEW j \in QueuesOf(o, c)
    PROVE  /\ \A n \in ContextNames : Of(c, n) \in DataFields(o)
           /\ \A n \in QueueNames : OfQueue(c, j, n) \in DataFields(o)
           /\ \A n \in QueueFlags : OfQueue(c, j, n) \in FlagFields(o)
           /\ c \in SchContexts(o) =>
                  /\ \A n \in RuleNames : OfQueue(c, j, n) \in DataFields(o)
                  /\ \A n \in RuleFlags : OfQueue(c, j, n) \in FlagFields(o)
  <1>1. \A n \in ContextNames : Of(c, n) \in DataFields(o)
    BY DEF DataFields
  <1>2. CASE c \in SchContexts(o)
    <2>1. j \in 0..(scheduler_queue_count(o) - 1)
      BY <1>2 DEF QueuesOf, num_queues, SchContexts
    <2>2. ASSUME NEW n \in QueueNames PROVE OfQueue(c, j, n) \in DataFields(o)
      BY <1>2, <2>1 DEF DataFields
    <2>3. ASSUME NEW n \in QueueFlags PROVE OfQueue(c, j, n) \in FlagFields(o)
      BY <1>2, <2>1 DEF FlagFields
    <2>4. ASSUME NEW n \in RuleNames PROVE OfQueue(c, j, n) \in DataFields(o)
      BY <1>2, <2>1 DEF DataFields
    <2>5. ASSUME NEW n \in RuleFlags PROVE OfQueue(c, j, n) \in FlagFields(o)
      BY <1>2, <2>1 DEF FlagFields
    <2> QED
      BY <1>1, <2>1, <2>2, <2>3, <2>4, <2>5
  <1>3. CASE c \in ThdContexts(o)
    <2>1. j \in {0} /\ c \notin SchContexts(o)
      BY <1>3 DEF QueuesOf, num_queues, SchContexts, ThdContexts
    <2>2. ASSUME NEW n \in QueueNames PROVE OfQueue(c, j, n) \in DataFields(o)
      BY <1>3, <2>1 DEF DataFields
    <2>3. ASSUME NEW n \in QueueFlags PROVE OfQueue(c, j, n) \in FlagFields(o)
      BY <1>3, <2>1 DEF FlagFields
    <2> QED
      BY <1>1, <2>1, <2>2, <2>3
  <1> QED
    BY <1>2, <1>3 DEF ContextsOf

\* The fields of the program and its matchers.
LEMMA FieldsOfApp ==
    ASSUME NEW o
    PROVE  /\ \A n \in AppNames : App(n) \in DataFields(o)
           /\ \A n \in AppFlags : App(n) \in FlagFields(o)
           /\ \A n \in MatcherNames : Matcher("rx", n) \in DataFields(o) /\ Matcher("tx", n) \in DataFields(o)
  BY DEF DataFields, FlagFields

\* What the step constructors make of such fields.
LEMMA StepsOfFields ==
    ASSUME NEW o
    PROVE  /\ \A f \in DataFields(o) : Make(f) \in MakingSteps(o)
           /\ Attempt \in MakingSteps(o)
           /\ \A f, g \in DataFields(o) : Point(f, g) \in MakingSteps(o)
           /\ \A f \in FlagFields(o) : Flag(f) \in MakingSteps(o)
           /\ \A f \in DataFields(o), p \in FlagFields(o) : MakeThrough(p, f) \in MakingSteps(o)
  BY DEF MakingSteps, Make, Attempt, Point, Flag, MakeThrough

\* A function on 1..n is a sequence of length n,
LEMMA FunctionIsSeq ==
    ASSUME NEW S, NEW n \in Nat, NEW f \in [1..n -> S]
    PROVE  f \in Seq(S) /\ Len(f) = n
  <1>1. f \in UNION {[1..m -> S] : m \in Nat}
    OBVIOUS
  <1>2. f \in Seq(S)
    BY <1>1, SeqDef, Zenon
  <1> QED
    BY <1>2, LenProperties

\* so a loop over parts that are steps (or calls) is a sequence of them.
LEMMA LoopType ==
    ASSUME NEW S, NEW n \in Nat, NEW f \in [1..n -> Seq(S)]
    PROVE  FlattenSeq(f) \in Seq(S)
  BY FunctionIsSeq, FlattenSeqType

\* What occurs in one round of a loop occurs in the loop.
LEMMA LoopHas ==
    ASSUME NEW S, NEW n \in Nat, NEW f \in [1..n -> Seq(S)], NEW i \in 1..n, NEW e, Has(f[i], e)
    PROVE  Has(FlattenSeq(f), e)
  <1>1. f \in Seq(Seq(S)) /\ Len(f) = n
    BY FunctionIsSeq
  <1>2. PICK b : Block(FlattenSeq(f), f[i], b)
    BY <1>1, FlattenSeqBlocks, Zenon
  <1>3. FlattenSeq(f) \in Seq(S) /\ f[i] \in Seq(S)
    BY <1>1, FlattenSeqType
  <1> QED
    BY <1>2, <1>3, HasInBlock, Zenon

-----------------------------------------------------------------------------
(***************************************************************************)
(* The steps of the creating functions.                                    *)
(***************************************************************************)
\* One round of alloc_context_host_memory.
HostRound(o, c, j) ==
    <<Point(OfQueue(c, j, "host_rq_buffer"), Of(c, "host_alloc_base")),
      Point(OfQueue(c, j, "host_sq_buffer"),
            IF o.use_copy = 0 THEN OfQueue(c, j, "host_rq_buffer") ELSE Of(c, "host_alloc_base"))>>

\* Memory of one context: mapping, registration, buffers of its queues.
LEMMA HostMemorySteps ==
    ASSUME NEW o \in OptionRecords, NEW c \in ContextsOf(o)
    PROVE  /\ alloc_context_host_memory(o, c) \in Seq(MakingSteps(o))
           /\ alloc_context_host_memory(o, c)[1] = Make(Of(c, "host_alloc_base"))
           /\ o.buffer_location = 1 =>
                 \A j \in QueuesOf(o, c) : \E b :
                     Block(alloc_context_host_memory(o, c), HostRound(o, c, j), b) /\ b >= 1
  <1> DEFINE base == Of(c, "host_alloc_base")
             rq(j) == OfQueue(c, j, "host_rq_buffer")
             sq(j) == OfQueue(c, j, "host_sq_buffer")
             queue(j) == HostRound(o, c, j)
             two == <<Make(base), Make(Of(c, "mr"))>>
             parts == [i \in 1..num_queues(o, c) |-> queue(i - 1)]
  <1>0. 0 \in QueuesOf(o, c)
    BY OptionFacts DEF QueuesOf, num_queues
  <1>1. base \in DataFields(o) /\ Of(c, "mr") \in DataFields(o)
    BY <1>0, FieldsOfContexts DEF ContextNames
  <1>2. two \in Seq(MakingSteps(o))
    BY <1>1, StepsOfFields
  <1>3. num_queues(o, c) \in Nat
    BY OptionFacts DEF num_queues
  <1>4. ASSUME NEW i \in 1..num_queues(o, c) PROVE queue(i - 1) \in Seq(MakingSteps(o))
    <2>1. i - 1 \in QueuesOf(o, c)
      BY <1>3 DEF QueuesOf
    <2>2. PICK j \in QueuesOf(o, c) : j = i - 1
      BY <2>1
    <2>3. rq(j) \in DataFields(o) /\ sq(j) \in DataFields(o)
      BY FieldsOfContexts DEF QueueNames
    <2>4. queue(j) \in Seq(MakingSteps(o))
      BY <1>1, <2>3, StepsOfFields DEF HostRound, rq, sq, base
    <2> QED
      BY <2>2, <2>4
  <1>5. FlattenSeq(parts) \in Seq(MakingSteps(o))
    <2>1. parts \in [1..num_queues(o, c) -> Seq(MakingSteps(o))]
      BY <1>4
    <2> HIDE DEF parts
    <2> QED
      BY <1>3, <2>1, LoopType
  <1>6. alloc_context_host_memory(o, c) = two \o (IF o.buffer_location = 1 THEN FlattenSeq(parts) ELSE <<>>)
    BY DEF alloc_context_host_memory, Loop, HostRound
  <1>7. Len(two) = 2 /\ two[1] = Make(base)
    OBVIOUS
  <1> HIDE DEF queue
  <1>8. parts \in Seq(Seq(MakingSteps(o))) /\ Len(parts) = num_queues(o, c)
    <2>1. parts \in [1..num_queues(o, c) -> Seq(MakingSteps(o))]
      BY <1>4
    <2> HIDE DEF parts
    <2> QED
      BY <1>3, <2>1, FunctionIsSeq
  <1>9. ASSUME o.buffer_location = 1, NEW j \in QueuesOf(o, c)
        PROVE  \E b : Block(alloc_context_host_memory(o, c), HostRound(o, c, j), b) /\ b >= 1
    <2>1. j + 1 \in 1..num_queues(o, c) /\ (j + 1) - 1 = j
      BY <1>3 DEF QueuesOf
    <2>2. parts[j + 1] = HostRound(o, c, j) /\ HostRound(o, c, j) \in Seq(MakingSteps(o))
      BY <1>4, <2>1 DEF queue
    <2> HIDE DEF parts, two
    <2>3. PICK b : Block(FlattenSeq(parts), HostRound(o, c, j), b)
      BY <1>8, <2>1, <2>2, FlattenSeqBlocks
    <2>4. alloc_context_host_memory(o, c) = two \o FlattenSeq(parts)
      BY <1>6, <1>9
    <2>5. Block(alloc_context_host_memory(o, c), HostRound(o, c, j), Len(two) + b)
      BY <1>2, <1>5, <2>2, <2>3, <2>4, BlockInConcat
    <2>6. Len(two) + b >= 1
      BY <1>7, <2>3 DEF Block
    <2> QED
      BY <2>5, <2>6, Zenon
  <1> HIDE DEF parts, base, two
  <1>10. (IF o.buffer_location = 1 THEN FlattenSeq(parts) ELSE <<>>) \in Seq(MakingSteps(o))
    BY <1>5
  <1>11. /\ alloc_context_host_memory(o, c) \in Seq(MakingSteps(o))
         /\ alloc_context_host_memory(o, c)[1] = Make(base)
    BY <1>2, <1>6, <1>7, <1>10, ConcatProperties
  <1> QED
    BY <1>9, <1>11 DEF base

\* Memory of one completion queue,
LEMMA CqMemSteps ==
    ASSUME NEW o \in OptionRecords, NEW c \in ContextsOf(o), NEW j \in QueuesOf(o, c)
    PROVE  cq_mem_alloc(c, j, "rq") \in Seq(MakingSteps(o)) /\ cq_mem_alloc(c, j, "sq") \in Seq(MakingSteps(o))
  <1>1. /\ OfQueue(c, j, "rq_cq_dbr_daddr") \in DataFields(o)
        /\ OfQueue(c, j, "rq_cq_ring_daddr") \in DataFields(o)
        /\ OfQueue(c, j, "sq_cq_dbr_daddr") \in DataFields(o)
        /\ OfQueue(c, j, "sq_cq_ring_daddr") \in DataFields(o)
    BY FieldsOfContexts DEF QueueNames
  <1> QED
    BY <1>1, StepsOfFields DEF cq_mem_alloc

\* of one receive queue
LEMMA RqMemSteps ==
    ASSUME NEW o \in OptionRecords, NEW c \in ContextsOf(o), NEW j \in QueuesOf(o, c)
    PROVE  rq_mem_alloc(o, c, j) \in Seq(MakingSteps(o))
  <1> DEFINE D == DataFields(o)
  <1>1. /\ OfQueue(c, j, "rq_wqd_daddr") \in D /\ OfQueue(c, j, "rqd_mkey") \in D
        /\ OfQueue(c, j, "host_rq_buffer") \in D
        /\ OfQueue(c, j, "rq_wq_ring_daddr") \in D /\ OfQueue(c, j, "rq_wq_dbr_daddr") \in D
    BY FieldsOfContexts DEF QueueNames
  <1>2. OfQueue(c, j, "rq_data_on_host") \in FlagFields(o)
    BY FieldsOfContexts DEF QueueFlags
  <1>3. /\ <<Make(OfQueue(c, j, "rq_wqd_daddr"))>> \in Seq(MakingSteps(o))
        /\ create_dpa_mkey(c, j, "rqd_mkey") \in Seq(MakingSteps(o))
        /\ <<Attempt>> \in Seq(MakingSteps(o))
    BY <1>1, StepsOfFields DEF create_dpa_mkey
  <1>4. <<Point(OfQueue(c, j, "rq_wqd_daddr"), OfQueue(c, j, "host_rq_buffer")),
          Flag(OfQueue(c, j, "rq_data_on_host"))>> \in Seq(MakingSteps(o))
    BY <1>1, <1>2, StepsOfFields
  <1>5. <<Make(OfQueue(c, j, "rq_wq_ring_daddr")), Make(OfQueue(c, j, "rq_wq_dbr_daddr"))>> \in Seq(MakingSteps(o))
    BY <1>1, StepsOfFields
  <1> QED
    BY <1>3, <1>4, <1>5 DEF rq_mem_alloc

\* and of one send queue.
LEMMA SqMemSteps ==
    ASSUME NEW o \in OptionRecords, NEW c \in ContextsOf(o), NEW j \in QueuesOf(o, c)
    PROVE  sq_mem_alloc(o, c, j) \in Seq(MakingSteps(o))
  <1> DEFINE D == DataFields(o)
             data == OfQueue(c, j, "sq_wqd_daddr")
             key == OfQueue(c, j, "sqd_mkey")
             reuse == <<Flag(OfQueue(c, j, "sq_data_reuses_rq")),
                        Point(data, OfQueue(c, j, "rq_wqd_daddr")), Point(key, OfQueue(c, j, "rqd_mkey"))>>
             onHost == <<Flag(OfQueue(c, j, "sq_data_on_host"))>>
             own == <<Make(data)>> \o create_dpa_mkey(c, j, "sqd_mkey")
             mapped == <<Point(data, OfQueue(c, j, "host_sq_buffer")), Flag(OfQueue(c, j, "sq_data_on_host"))>>
             ring == <<Make(OfQueue(c, j, "sq_wq_ring_daddr"))>>
  <1>1. /\ data \in D /\ key \in D
        /\ OfQueue(c, j, "rq_wqd_daddr") \in D /\ OfQueue(c, j, "rqd_mkey") \in D
        /\ OfQueue(c, j, "host_sq_buffer") \in D /\ OfQueue(c, j, "sq_wq_ring_daddr") \in D
    BY FieldsOfContexts DEF QueueNames
  <1>2. /\ OfQueue(c, j, "sq_data_reuses_rq") \in FlagFields(o)
        /\ OfQueue(c, j, "sq_data_on_host") \in FlagFields(o)
    BY FieldsOfContexts DEF QueueFlags
  <1>3. reuse \in Seq(MakingSteps(o)) /\ onHost \in Seq(MakingSteps(o)) /\ ring \in Seq(MakingSteps(o))
    BY <1>1, <1>2, StepsOfFields
  <1>4. own \in Seq(MakingSteps(o)) /\ mapped \in Seq(MakingSteps(o))
    BY <1>1, <1>2, StepsOfFields DEF create_dpa_mkey
  <1>5. CASE o.use_copy = 0
    <2>1. sq_mem_alloc(o, c, j) = (reuse \o IF o.buffer_location = 1 THEN onHost ELSE <<>>) \o ring
      BY <1>5 DEF sq_mem_alloc
    <2> HIDE DEF reuse, onHost, ring
    <2> QED
      BY <1>3, <2>1
  <1>6. CASE o.use_copy # 0 /\ o.buffer_location = 0
    <2>1. sq_mem_alloc(o, c, j) = own \o ring
      BY <1>6 DEF sq_mem_alloc
    <2> HIDE DEF own, ring
    <2> QED
      BY <1>3, <1>4, <2>1
  <1>7. CASE o.use_copy # 0 /\ o.buffer_location # 0
    <2>1. sq_mem_alloc(o, c, j) = mapped \o ring
      BY <1>7 DEF sq_mem_alloc
    <2> HIDE DEF mapped, ring
    <2> QED
      BY <1>3, <1>4, <2>1
  <1> QED
    BY <1>5, <1>6, <1>7

\* One round of create_app_rq.
RqRound(o, c, j) ==
    cq_mem_alloc(c, j, "rq") \o <<Make(OfQueue(c, j, "flexio_rq_cq_ptr"))>> \o rq_mem_alloc(o, c, j)
    \o <<Attempt, Make(OfQueue(c, j, "flexio_rq_ptr")), Attempt>>

\* All receive queues of a context,
LEMMA AppRqSteps ==
    ASSUME NEW o \in OptionRecords, NEW c \in ContextsOf(o)
    PROVE  /\ create_app_rq(o, c) \in Seq(MakingSteps(o))
           /\ \A j \in QueuesOf(o, c) : \A e : Has(RqRound(o, c, j), e) => Has(create_app_rq(o, c), e)
  <1> DEFINE queue(j) == RqRound(o, c, j)
             parts == [i \in 1..num_queues(o, c) |-> queue(i - 1)]
  <1>1. num_queues(o, c) \in Nat
    BY OptionFacts DEF num_queues
  <1>2. ASSUME NEW j \in QueuesOf(o, c) PROVE queue(j) \in Seq(MakingSteps(o))
    <2>1. /\ OfQueue(c, j, "flexio_rq_cq_ptr") \in DataFields(o)
          /\ OfQueue(c, j, "flexio_rq_ptr") \in DataFields(o)
      BY FieldsOfContexts DEF QueueNames
    <2>2. /\ <<Make(OfQueue(c, j, "flexio_rq_cq_ptr"))>> \in Seq(MakingSteps(o))
          /\ <<Attempt, Make(OfQueue(c, j, "flexio_rq_ptr")), Attempt>> \in Seq(MakingSteps(o))
      BY <2>1, StepsOfFields
    <2>3. rq_mem_alloc(o, c, j) \in Seq(MakingSteps(o)) /\ cq_mem_alloc(c, j, "rq") \in Seq(MakingSteps(o))
      BY RqMemSteps, CqMemSteps
    <2> QED
      BY <2>2, <2>3 DEF RqRound
  <1>3. ASSUME NEW i \in 1..num_queues(o, c) PROVE i - 1 \in QueuesOf(o, c)
    BY <1>1 DEF QueuesOf
  <1>4. create_app_rq(o, c) = FlattenSeq(parts)
    BY DEF create_app_rq, Loop, RqRound
  <1> HIDE DEF queue
  <1>5. parts \in [1..num_queues(o, c) -> Seq(MakingSteps(o))]
    BY <1>2, <1>3
  <1>6. ASSUME NEW j \in QueuesOf(o, c), NEW e, Has(RqRound(o, c, j), e)
        PROVE  Has(create_app_rq(o, c), e)
    <2>1. j + 1 \in 1..num_queues(o, c) /\ (j + 1) - 1 = j
      BY <1>1 DEF QueuesOf
    <2>2. parts[j + 1] = RqRound(o, c, j)
      BY <2>1 DEF queue
    <2> HIDE DEF parts
    <2> QED
      BY <1>1, <1>4, <1>5, <1>6, <2>1, <2>2, LoopHas
  <1> HIDE DEF parts
  <1> QED
    BY <1>1, <1>4, <1>5, <1>6, LoopType

\* One round of create_app_sq.
SqRound(o, c, j) ==
    cq_mem_alloc(c, j, "sq") \o <<Make(OfQueue(c, j, "flexio_sq_cq_ptr"))>> \o sq_mem_alloc(o, c, j)
    \o <<Make(OfQueue(c, j, "flexio_sq_ptr"))>>

\* and all its send queues.
LEMMA AppSqSteps ==
    ASSUME NEW o \in OptionRecords, NEW c \in ContextsOf(o)
    PROVE  /\ create_app_sq(o, c) \in Seq(MakingSteps(o))
           /\ \A j \in QueuesOf(o, c) : \A e : Has(SqRound(o, c, j), e) => Has(create_app_sq(o, c), e)
  <1> DEFINE queue(j) == SqRound(o, c, j)
             parts == [i \in 1..num_queues(o, c) |-> queue(i - 1)]
  <1>1. num_queues(o, c) \in Nat
    BY OptionFacts DEF num_queues
  <1>2. ASSUME NEW j \in QueuesOf(o, c) PROVE queue(j) \in Seq(MakingSteps(o))
    <2>1. /\ OfQueue(c, j, "flexio_sq_cq_ptr") \in DataFields(o)
          /\ OfQueue(c, j, "flexio_sq_ptr") \in DataFields(o)
      BY FieldsOfContexts DEF QueueNames
    <2>2. /\ <<Make(OfQueue(c, j, "flexio_sq_cq_ptr"))>> \in Seq(MakingSteps(o))
          /\ <<Make(OfQueue(c, j, "flexio_sq_ptr"))>> \in Seq(MakingSteps(o))
      BY <2>1, StepsOfFields
    <2>3. sq_mem_alloc(o, c, j) \in Seq(MakingSteps(o)) /\ cq_mem_alloc(c, j, "sq") \in Seq(MakingSteps(o))
      BY SqMemSteps, CqMemSteps
    <2> QED
      BY <2>2, <2>3 DEF SqRound
  <1>3. ASSUME NEW i \in 1..num_queues(o, c) PROVE i - 1 \in QueuesOf(o, c)
    BY <1>1 DEF QueuesOf
  <1>4. create_app_sq(o, c) = FlattenSeq(parts)
    BY DEF create_app_sq, Loop, SqRound
  <1> HIDE DEF queue
  <1>5. parts \in [1..num_queues(o, c) -> Seq(MakingSteps(o))]
    BY <1>2, <1>3
  <1>6. ASSUME NEW j \in QueuesOf(o, c), NEW e, Has(SqRound(o, c, j), e)
        PROVE  Has(create_app_sq(o, c), e)
    <2>1. j + 1 \in 1..num_queues(o, c) /\ (j + 1) - 1 = j
      BY <1>1 DEF QueuesOf
    <2>2. parts[j + 1] = SqRound(o, c, j)
      BY <2>1 DEF queue
    <2> HIDE DEF parts
    <2> QED
      BY <1>1, <1>4, <1>5, <1>6, <2>1, <2>2, LoopHas
  <1> HIDE DEF parts
  <1> QED
    BY <1>1, <1>4, <1>5, <1>6, LoopType

-----------------------------------------------------------------------------
(***************************************************************************)
(* The calls of main.                                                      *)
(***************************************************************************)
\* A call with such steps.
LEMMA CallsOfSteps ==
    ASSUME NEW o, NEW steps \in Seq(MakingSteps(o))
    PROVE  /\ Call("quit", steps) \in MakingCalls(o) /\ Call("err", steps) \in MakingCalls(o)
           /\ Call("silent", steps) \in MakingCalls(o) /\ Call("ignore", steps) \in MakingCalls(o)
           /\ RuleCall(steps) \in MakingCalls(o)
  BY DEF MakingCalls, Call, RuleCall

\* Handler, memory and queues of a context,
LEMMA CreateContextCalls ==
    ASSUME NEW o \in OptionRecords, NEW c \in ContextsOf(o)
    PROVE  CreateContext(o, c) \in Seq(MakingCalls(o))
  <1>1. 0 \in QueuesOf(o, c)
    BY OptionFacts DEF QueuesOf, num_queues
  <1>2. <<Make(Of(c, "event_handler"))>> \in Seq(MakingSteps(o))
    <2>1. Of(c, "event_handler") \in DataFields(o)
      BY <1>1, FieldsOfContexts DEF ContextNames
    <2> QED
      BY <2>1, StepsOfFields
  <1>3. /\ Call("silent", <<Make(Of(c, "event_handler"))>>) \in MakingCalls(o)
        /\ Call("err", alloc_context_host_memory(o, c)) \in MakingCalls(o)
        /\ Call("err", create_app_rq(o, c)) \in MakingCalls(o)
        /\ Call("err", create_app_sq(o, c)) \in MakingCalls(o)
    BY <1>2, HostMemorySteps, AppRqSteps, AppSqSteps, CallsOfSteps
  <1> QED
    BY <1>3 DEF CreateContext

\* and the rules of a scheduler's queues.
LEMMA SteerQueuesCalls ==
    ASSUME NEW o \in OptionRecords, NEW c \in SchContexts(o)
    PROVE  SteerQueues(o, c) \in Seq(MakingCalls(o))
  <1> DEFINE queue(j) == <<Call("silent", <<Attempt>>),
                           RuleCall(create_rule_rx_mac_match(c, j)),
                           RuleCall(create_rule_tx_fwd_to_sws_table(c, j)),
                           RuleCall(create_rule_tx_fwd_to_vport(c, j))>>
             parts == [i \in 1..num_queues(o, c) |-> queue(i - 1)]
  <1>0. c \in ContextsOf(o)
    BY DEF ContextsOf
  <1>1. num_queues(o, c) \in Nat
    BY OptionFacts DEF num_queues
  <1>2. ASSUME NEW j \in QueuesOf(o, c) PROVE queue(j) \in Seq(MakingCalls(o))
    <2>1. /\ OfQueue(c, j, "rx_action") \in DataFields(o) /\ OfQueue(c, j, "rx_rule") \in DataFields(o)
          /\ OfQueue(c, j, "tx_action") \in DataFields(o) /\ OfQueue(c, j, "tx_rule") \in DataFields(o)
          /\ OfQueue(c, j, "tx_action2") \in DataFields(o) /\ OfQueue(c, j, "tx_rule2") \in DataFields(o)
      BY <1>0, FieldsOfContexts DEF RuleNames
    <2>2. /\ OfQueue(c, j, "rx_flow_rule") \in FlagFields(o)
          /\ OfQueue(c, j, "tx_flow_rule") \in FlagFields(o)
          /\ OfQueue(c, j, "tx_flow_rule2") \in FlagFields(o)
      BY <1>0, FieldsOfContexts DEF RuleFlags
    <2>3. App("rx_matcher") \in FlagFields(o) /\ App("tx_matcher") \in FlagFields(o)
      BY FieldsOfApp DEF AppFlags
    <2>4. create_rule_rx_mac_match(c, j) \in Seq(MakingSteps(o))
      <3>1. create_flow_rule_rx(c, j) \in Seq(MakingSteps(o))
        BY <2>1, <2>3, StepsOfFields DEF create_flow_rule_rx
      <3>2. <<Flag(OfQueue(c, j, "rx_flow_rule"))>> \in Seq(MakingSteps(o))
        BY <2>2, StepsOfFields
      <3> QED
        BY <3>1, <3>2 DEF create_rule_rx_mac_match
    <2>5. create_rule_tx_fwd_to_sws_table(c, j) \in Seq(MakingSteps(o))
      <3>1. create_flow_rule_tx_table(c, j) \in Seq(MakingSteps(o))
        BY <2>1, <2>3, StepsOfFields DEF create_flow_rule_tx_table
      <3>2. <<Flag(OfQueue(c, j, "tx_flow_rule"))>> \in Seq(MakingSteps(o))
        BY <2>2, StepsOfFields
      <3> QED
        BY <3>1, <3>2 DEF create_rule_tx_fwd_to_sws_table
    <2>6. create_rule_tx_fwd_to_vport(c, j) \in Seq(MakingSteps(o))
      <3>1. create_flow_rule_tx(c, j) \in Seq(MakingSteps(o))
        BY <2>1, <2>3, StepsOfFields DEF create_flow_rule_tx
      <3>2. <<Flag(OfQueue(c, j, "tx_flow_rule2"))>> \in Seq(MakingSteps(o))
        BY <2>2, StepsOfFields
      <3> QED
        BY <3>1, <3>2 DEF create_rule_tx_fwd_to_vport
    <2>7. <<Attempt>> \in Seq(MakingSteps(o))
      BY StepsOfFields
    <2>8. /\ Call("silent", <<Attempt>>) \in MakingCalls(o)
          /\ RuleCall(create_rule_rx_mac_match(c, j)) \in MakingCalls(o)
          /\ RuleCall(create_rule_tx_fwd_to_sws_table(c, j)) \in MakingCalls(o)
          /\ RuleCall(create_rule_tx_fwd_to_vport(c, j)) \in MakingCalls(o)
      BY <2>4, <2>5, <2>6, <2>7, CallsOfSteps
    <2> QED
      BY <2>8
  <1>3. ASSUME NEW i \in 1..num_queues(o, c) PROVE i - 1 \in QueuesOf(o, c)
    BY <1>1 DEF QueuesOf
  <1>4. SteerQueues(o, c) = FlattenSeq(parts)
    BY DEF SteerQueues, Loop
  <1> HIDE DEF queue
  <1>5. parts \in [1..num_queues(o, c) -> Seq(MakingCalls(o))]
    BY <1>2, <1>3
  <1> HIDE DEF parts
  <1> QED
    BY <1>1, <1>4, <1>5, LoopType

\* A call that runs a handler does nothing else, and says which handler it is.
LEMMA RunCalls ==
    ASSUME NEW o, NEW c \in ContextsOf(o), NEW d \in ContextsOf(o)
    PROVE  /\ Call("err", <<Run(c)>>) \notin MakingCalls(o)
           /\ Call("err", <<Run(d)>>) = Call("err", <<Run(c)>>) => d = c
  <1>1. Call("err", <<Run(c)>>) \notin MakingCalls(o)
    <2> SUFFICES ASSUME Call("err", <<Run(c)>>) \in MakingCalls(o) PROVE FALSE
      OBVIOUS
    <2>1. Call("err", <<Run(c)>>).steps = <<Run(c)>>
      BY DEF Call
    <2>2. <<Run(c)>> \in Seq(MakingSteps(o))
      BY <2>1 DEF MakingCalls
    <2>3. Run(c) \in MakingSteps(o)
      <3>1. <<Run(c)>>[1] = Run(c) /\ 1 \in 1..Len(<<Run(c)>>)
        OBVIOUS
      <3> QED
        BY <2>2, <3>1
    <2> QED
      BY <2>3 DEF MakingSteps, Run
  <1>2. ASSUME Call("err", <<Run(d)>>) = Call("err", <<Run(c)>>) PROVE d = c
    <2>1. Call("err", <<Run(c)>>).steps = <<Run(c)>> /\ Call("err", <<Run(d)>>).steps = <<Run(d)>>
      BY DEF Call
    <2>2. Run(c) = Run(d)
      BY <1>2, <2>1
    <2>3. Run(c).field = Of(c, "event_handler") /\ Run(d).field = Of(d, "event_handler")
      BY DEF Run
    <2>4. c[1] = d[1] /\ c[2] = d[2]
      BY <2>2, <2>3 DEF Of
    <2> QED
      BY <2>4 DEF ContextsOf, SchContexts, ThdContexts
  <1> QED
    BY <1>1, <1>2

\* part creates context c, copies its data to the device, and then runs its handler,
\* and no other.
Starts(o, part, c) ==
    /\ part \in Seq(Calls(o))
    /\ Block(part, CreateContext(o, c), 0)
    /\ Has(part, Call("err", <<Run(c)>>))
    /\ \A l \in 1..Len(part), d \in ContextsOf(o) :
          part[l] = Call("err", <<Run(d)>>) =>
              /\ d = c /\ l > Len(CreateContext(o, c))
              /\ \E k \in 1..(l - 1) : part[k] = Call("err", <<Make(Of(c, "app_data_daddr"))>>)

\* So does any part that begins with the creation, goes on with something that runs
\* nothing, and ends with copying the data, further calls that run nothing, and the
\* handler.
LEMMA StartsInOrder ==
    ASSUME NEW o \in OptionRecords, NEW c \in ContextsOf(o),
           NEW more \in Seq(MakingCalls(o)), NEW rest \in Seq(MakingCalls(o)),
           NEW part, part = CreateContext(o, c) \o more
                            \o (<<Call("err", <<Make(Of(c, "app_data_daddr"))>>)>> \o rest
                                \o <<Call("err", <<Run(c)>>)>>)
    PROVE  Starts(o, part, c)
  <1> DEFINE copy == Call("err", <<Make(Of(c, "app_data_daddr"))>>)
             run == Call("err", <<Run(c)>>)
             create == CreateContext(o, c)
             M == MakingCalls(o)
  <1>1. copy \in M /\ create \in Seq(M) /\ M \subseteq Calls(o) /\ run \in Calls(o) /\ run \notin M
    <2>1. 0 \in QueuesOf(o, c)
      BY OptionFacts DEF QueuesOf, num_queues
    <2>2. Of(c, "app_data_daddr") \in DataFields(o)
      BY <2>1, FieldsOfContexts DEF ContextNames
    <2>3. <<Make(Of(c, "app_data_daddr"))>> \in Seq(MakingSteps(o))
      BY <2>2, StepsOfFields
    <2>4. copy \in M
      BY <2>3, CallsOfSteps
    <2>5. M \subseteq Calls(o) /\ run \in Calls(o)
      BY DEF Calls
    <2>6. run \notin M
      BY RunCalls
    <2> QED
      BY <2>4, <2>5, <2>6, CreateContextCalls
  <1>2. part = create \o more \o (<<copy>> \o rest \o <<run>>)
    OBVIOUS
  <1>3. \A d \in ContextsOf(o) : Call("err", <<Run(d)>>) \notin M /\ (Call("err", <<Run(d)>>) = run => d = c)
    BY RunCalls
  <1> HIDE DEF copy, run, create, M
  <1>4. /\ create \in Seq(Calls(o)) /\ more \in Seq(Calls(o)) /\ rest \in Seq(Calls(o))
        /\ <<copy>> \in Seq(Calls(o)) /\ <<run>> \in Seq(Calls(o))
    <2>1. create \in Seq(Calls(o)) /\ more \in Seq(Calls(o)) /\ rest \in Seq(Calls(o))
      BY <1>1, SeqMonotonic DEF M
    <2> QED
      BY <1>1, <2>1
  <1>5. PICK head \in Seq(Calls(o)) : head = create \o more
    BY <1>4, ConcatProperties
  <1>6. PICK init \in Seq(Calls(o)) : init = <<copy>> \o rest
    BY <1>4, ConcatProperties
  <1>7. PICK tail \in Seq(Calls(o)) : tail = init \o <<run>>
    BY <1>4, ConcatProperties
  <1>8. part = head \o tail /\ part \in Seq(Calls(o))
    <2>1. part = head \o tail
      BY <1>2, <1>5, <1>6, <1>7
    <2> QED
      BY <2>1, ConcatProperties
  <1>9. PICK N \in Nat, K \in Nat, C \in Nat, R \in Nat :
            N = Len(head) /\ K = Len(tail) /\ C = Len(create) /\ R = Len(rest)
    <2>1. Len(head) \in Nat /\ Len(tail) \in Nat /\ Len(create) \in Nat /\ Len(rest) \in Nat
      BY <1>4
    <2> QED
      BY <2>1, Zenon
  <1>10. C <= N /\ \A l \in 1..C : head[l] = create[l]
    BY <1>4, <1>5, <1>9
  <1>11. ASSUME NEW l \in 1..N PROVE head[l] \in M
    <2>1. CASE l <= C
      <3>1. head[l] = create[l] /\ l \in 1..Len(create)
        BY <1>9, <1>10, <2>1
      <3> QED
        BY <1>1, <3>1
    <2>2. CASE l > C
      <3>1. head[l] = more[l - C] /\ l - C \in 1..Len(more)
        BY <1>4, <1>5, <1>9, <2>2
      <3> QED
        BY <3>1 DEF M
    <2> QED
      BY <2>1, <2>2
  <1>12. K = R + 2 /\ tail[1] = copy /\ tail[K] = run
    <2>1. Len(init) = R + 1 /\ init[1] = copy
      BY <1>4, <1>6, <1>9
    <2> QED
      BY <1>4, <1>7, <1>9, <2>1
  <1>13. ASSUME NEW l \in 1..(R + 1) PROVE tail[l] \in M
    <2>1. Len(init) = R + 1 /\ tail[l] = init[l]
      BY <1>4, <1>6, <1>7, <1>9
    <2>2. CASE l = 1
      BY <1>1, <1>12, <2>2
    <2>3. CASE l # 1
      <3>1. init[l] = rest[l - 1] /\ l - 1 \in 1..Len(rest)
        BY <1>4, <1>6, <1>9, <2>3
      <3> QED
        BY <2>1, <3>1 DEF M
    <2> QED
      BY <2>2, <2>3
  <1>14. Len(part) = N + K /\ \A l \in 1..(N + K) : part[l] = IF l <= N THEN head[l] ELSE tail[l - N]
    <2>1. /\ Len(head \o tail) = Len(head) + Len(tail)
          /\ \A l \in 1..(Len(head) + Len(tail)) :
                (head \o tail)[l] = IF l <= Len(head) THEN head[l] ELSE tail[l - Len(head)]
      BY ConcatProperties, Zenon
    <2> QED
      BY <1>8, <1>9, <2>1, Zenon
  <1>15. part[N + 1] = copy /\ part[N + K] = run
    <2>1. /\ N + 1 \in 1..(N + K) /\ ~(N + 1 <= N) /\ (N + 1) - N = 1
          /\ N + K \in 1..(N + K) /\ ~(N + K <= N) /\ (N + K) - N = K
      BY <1>9, <1>12
    <2> QED
      BY <1>12, <1>14, <2>1
  <1>16. Block(part, create, 0)
    <2>1. ASSUME NEW l \in 1..C PROVE part[0 + l] = create[l]
      <3>1. l \in 1..(N + K) /\ l <= N /\ 0 + l = l
        BY <1>9, <1>10
      <3> QED
        BY <1>10, <1>14, <3>1
    <2>2. 0 \in Nat /\ 0 + Len(create) <= Len(part)
      BY <1>9, <1>10, <1>14
    <2> QED
      BY <1>9, <2>1, <2>2 DEF Block
  <1>17. Has(part, run)
    <2>1. N + K \in 1..Len(part)
      BY <1>9, <1>12, <1>14
    <2> QED
      BY <1>15, <2>1 DEF Has
  <1>18. ASSUME NEW l \in 1..Len(part), NEW d \in ContextsOf(o), part[l] = Call("err", <<Run(d)>>)
         PROVE  d = c /\ l > Len(create) /\ \E k \in 1..(l - 1) : part[k] = copy
    <2>1. part[l] \notin M
      BY <1>3, <1>18
    <2>2. l \in 1..(N + K) /\ ~(l <= N)
      <3>1. l \in 1..(N + K)
        BY <1>14
      <3>2. CASE l <= N
        <4>1. l \in 1..N
          BY <3>1, <3>2
        <4> QED
          BY <1>11, <1>14, <2>1, <3>1, <3>2, <4>1
      <3> QED
        BY <3>1, <3>2
    <2>3. part[l] = tail[l - N]
      BY <1>14, <2>2
    <2>4. ~(l - N \in 1..(R + 1))
      BY <1>13, <2>1, <2>3
    <2>5. l = N + K
      BY <1>12, <2>2, <2>4
    <2>6. l > Len(create) /\ N + 1 \in 1..(l - 1)
      BY <1>9, <1>10, <1>12, <2>5
    <2> QED
      BY <1>3, <1>15, <1>18, <2>5, <2>6
  <1> QED
    BY <1>8, <1>16, <1>17, <1>18 DEF Starts, copy, run, create

\* The start-up in three parts: what the program needs as a whole, its schedulers
\* and its workers.
ProgramCalls ==
    <<Call("quit", app_open_ibv_ctx),
      Call("err", <<Make(App("process_pd"))>>),
      Call("err", <<Make(App("flexio_process"))>>),
      Call("err", <<Make(App("flexio_window"))>>),
      Call("err", <<Make(App("stream"))>>),
      Call("ignore", create_matcher_rx),
      Call("ignore", create_matcher_tx)>>

SchedulerCalls(o, c) == CreateContext(o, c) \o SteerQueues(o, c) \o StartScheduler(c)
WorkerCalls(o, c) == CreateContext(o, c) \o StartWorker(c)

Schedulers(o) == [i \in 1..o.scheduler_num |-> SchedulerCalls(o, SchCtx(o)[(i - 1) + 1])]
Workers(o) == [i \in 1..threads_num(o) |-> WorkerCalls(o, ThdCtx(o)[(i - 1) + 1])]

\* The first part runs nothing.
LEMMA ProgramCallsMake ==
    ASSUME NEW o
    PROVE  ProgramCalls \in Seq(MakingCalls(o))
  <1>1. /\ app_open_ibv_ctx \in Seq(MakingSteps(o))
        /\ <<Make(App("process_pd"))>> \in Seq(MakingSteps(o))
        /\ <<Make(App("flexio_process"))>> \in Seq(MakingSteps(o))
        /\ <<Make(App("flexio_window"))>> \in Seq(MakingSteps(o))
        /\ <<Make(App("stream"))>> \in Seq(MakingSteps(o))
    <2>1. /\ App("ibv_ctx") \in DataFields(o) /\ App("process_pd") \in DataFields(o)
          /\ App("flexio_process") \in DataFields(o) /\ App("flexio_window") \in DataFields(o)
          /\ App("stream") \in DataFields(o)
      BY FieldsOfApp DEF AppNames
    <2> QED
      BY <2>1, StepsOfFields DEF app_open_ibv_ctx
  <1>2. create_matcher_rx \in Seq(MakingSteps(o))
    <2>1. /\ Matcher("rx", "dr_domain") \in DataFields(o)
          /\ Matcher("rx", "dr_table_root") \in DataFields(o)
          /\ Matcher("rx", "dr_matcher_root") \in DataFields(o)
          /\ App("rx_matcher") \in FlagFields(o)
      BY FieldsOfApp DEF MatcherNames, AppFlags
    <2>2. /\ create_flow_matcher_sw_steer_rx \in Seq(MakingSteps(o))
          /\ <<Flag(App("rx_matcher"))>> \in Seq(MakingSteps(o))
      BY <2>1, StepsOfFields DEF create_flow_matcher_sw_steer_rx
    <2> QED
      BY <2>2 DEF create_matcher_rx
  <1>3. create_matcher_tx \in Seq(MakingSteps(o))
    <2>1. /\ Matcher("tx", "dr_domain") \in DataFields(o)
          /\ Matcher("tx", "dr_table_root") \in DataFields(o)
          /\ Matcher("tx", "dr_matcher_root") \in DataFields(o)
          /\ Matcher("tx", "dr_table_sws") \in DataFields(o)
          /\ Matcher("tx", "dr_matcher_sws") \in DataFields(o)
          /\ App("tx_matcher") \in FlagFields(o)
      BY FieldsOfApp DEF MatcherNames, AppFlags
    <2>2. /\ create_flow_matcher_sw_steer_tx \in Seq(MakingSteps(o))
          /\ <<Flag(App("tx_matcher"))>> \in Seq(MakingSteps(o))
      BY <2>1, StepsOfFields DEF create_flow_matcher_sw_steer_tx
    <2> QED
      BY <2>2 DEF create_matcher_tx
  <1>4. /\ Call("quit", app_open_ibv_ctx) \in MakingCalls(o)
        /\ Call("err", <<Make(App("process_pd"))>>) \in MakingCalls(o)
        /\ Call("err", <<Make(App("flexio_process"))>>) \in MakingCalls(o)
        /\ Call("err", <<Make(App("flexio_window"))>>) \in MakingCalls(o)
        /\ Call("err", <<Make(App("stream"))>>) \in MakingCalls(o)
        /\ Call("ignore", create_matcher_rx) \in MakingCalls(o)
        /\ Call("ignore", create_matcher_tx) \in MakingCalls(o)
    BY <1>1, <1>2, <1>3, CallsOfSteps
  <1> QED
    BY <1>4 DEF ProgramCalls

\* Each of the others starts its context,
LEMMA PartsStart ==
    ASSUME NEW o \in OptionRecords
    PROVE  /\ \A c \in SchContexts(o) : Starts(o, SchedulerCalls(o, c), c)
           /\ \A c \in ThdContexts(o) : Starts(o, WorkerCalls(o, c), c)
  <1>1. ASSUME NEW c \in SchContexts(o) PROVE Starts(o, SchedulerCalls(o, c), c)
    <2>1. c \in ContextsOf(o)
      BY DEF ContextsOf
    <2> DEFINE copy == Call("err", <<Make(Of(c, "app_data_daddr"))>>)
               run == Call("err", <<Run(c)>>)
    <2>2. StartScheduler(c) = <<copy>> \o <<>> \o <<run>>
      <3> HIDE DEF copy, run
      <3>1. <<copy>> \o <<>> = <<copy>>
        OBVIOUS
      <3>2. <<copy>> \o <<run>> = <<copy, run>>
        BY ConcatShort
      <3> QED
        BY <3>1, <3>2 DEF StartScheduler, copy_sch_data_to_dpa, copy, run
    <2>3. <<>> \in Seq(MakingCalls(o)) /\ SteerQueues(o, c) \in Seq(MakingCalls(o))
      BY SteerQueuesCalls
    <2>4. SchedulerCalls(o, c) = CreateContext(o, c) \o SteerQueues(o, c)
                                 \o (<<copy>> \o <<>> \o <<run>>)
      BY <2>2 DEF SchedulerCalls
    <2> QED
      BY <2>1, <2>3, <2>4, StartsInOrder
  <1>2. ASSUME NEW c \in ThdContexts(o) PROVE Starts(o, WorkerCalls(o, c), c)
    <2>1. c \in ContextsOf(o)
      BY DEF ContextsOf
    <2> DEFINE copy == Call("err", <<Make(Of(c, "app_data_daddr"))>>)
               init == Call("ignore", <<Attempt>>)
               run == Call("err", <<Run(c)>>)
    <2>2. StartWorker(c) = <<copy>> \o <<init>> \o <<run>>
      <3> HIDE DEF copy, run, init
      <3>1. <<copy>> \o <<init>> = <<copy, init>>
        BY ConcatShort
      <3>2. <<copy, init>> \o <<run>> = <<copy, init, run>>
        BY ConcatShort
      <3> QED
        BY <3>1, <3>2 DEF StartWorker, copy_thd_data_to_dpa, copy, run, init
    <2>3. <<>> \in Seq(MakingCalls(o)) /\ <<init>> \in Seq(MakingCalls(o))
      <3>1. <<Attempt>> \in Seq(MakingSteps(o))
        BY StepsOfFields
      <3>2. init \in MakingCalls(o)
        BY <3>1, CallsOfSteps
      <3> QED
        BY <3>2
    <2>4. WorkerCalls(o, c) = CreateContext(o, c) \o <<>> \o (<<copy>> \o <<init>> \o <<run>>)
      <3>1. CreateContext(o, c) \o <<>> = CreateContext(o, c)
        BY <2>1, CreateContextCalls, ConcatEmptySeq
      <3> QED
        BY <2>2, <3>1 DEF WorkerCalls
    <2> QED
      BY <2>1, <2>3, <2>4, StartsInOrder
  <1> QED
    BY <1>1, <1>2

\* and there is one for each context.
LEMMA PartsOfContexts ==
    ASSUME NEW o \in OptionRecords
    PROVE  /\ Schedulers(o) \in Seq(Seq(Calls(o))) /\ Len(Schedulers(o)) = o.scheduler_num
           /\ Workers(o) \in Seq(Seq(Calls(o))) /\ Len(Workers(o)) = threads_num(o)
           /\ \A i \in 1..o.scheduler_num :
                 <<"sch", i - 1>> \in SchContexts(o) /\ Starts(o, Schedulers(o)[i], <<"sch", i - 1>>)
           /\ \A i \in 1..threads_num(o) :
                 <<"thd", i - 1>> \in ThdContexts(o) /\ Starts(o, Workers(o)[i], <<"thd", i - 1>>)
  <1>1. o.scheduler_num \in Nat /\ threads_num(o) \in Nat
    BY OptionFacts
  <1>2. ASSUME NEW i \in 1..o.scheduler_num
        PROVE  <<"sch", i - 1>> \in SchContexts(o) /\ Starts(o, Schedulers(o)[i], <<"sch", i - 1>>)
    <2>1. SchCtx(o)[(i - 1) + 1] = <<"sch", i - 1>> /\ <<"sch", i - 1>> \in SchContexts(o)
      BY <1>1 DEF SchCtx, SchContexts
    <2>2. Schedulers(o)[i] = SchedulerCalls(o, <<"sch", i - 1>>)
      BY <2>1, Zenon DEF Schedulers
    <2> QED
      BY <2>1, <2>2, PartsStart, Zenon
  <1>3. ASSUME NEW i \in 1..threads_num(o)
        PROVE  <<"thd", i - 1>> \in ThdContexts(o) /\ Starts(o, Workers(o)[i], <<"thd", i - 1>>)
    <2>1. ThdCtx(o)[(i - 1) + 1] = <<"thd", i - 1>> /\ <<"thd", i - 1>> \in ThdContexts(o)
      BY <1>1 DEF ThdCtx, ThdContexts
    <2>2. Workers(o)[i] = WorkerCalls(o, <<"thd", i - 1>>)
      BY <2>1, Zenon DEF Workers
    <2> QED
      BY <2>1, <2>2, PartsStart, Zenon
  <1>4. Schedulers(o) \in [1..o.scheduler_num -> Seq(Calls(o))]
    <2>1. \A i \in 1..o.scheduler_num : Schedulers(o)[i] \in Seq(Calls(o))
      BY <1>2, Zenon DEF Starts
    <2>2. Schedulers(o) = [i \in 1..o.scheduler_num |-> Schedulers(o)[i]]
      BY Zenon DEF Schedulers
    <2> QED
      BY <2>1, <2>2, Zenon
  <1>5. Workers(o) \in [1..threads_num(o) -> Seq(Calls(o))]
    <2>1. \A i \in 1..threads_num(o) : Workers(o)[i] \in Seq(Calls(o))
      BY <1>3, Zenon DEF Starts
    <2>2. Workers(o) = [i \in 1..threads_num(o) |-> Workers(o)[i]]
      BY Zenon DEF Workers
    <2> QED
      BY <2>1, <2>2, Zenon
  <1> QED
    BY <1>1, <1>2, <1>3, <1>4, <1>5, FunctionIsSeq, Zenon

\* All calls of the start-up.
LEMMA StartUpCalls ==
    ASSUME NEW o \in OptionRecords
    PROVE  /\ StartUp(o) = ProgramCalls \o FlattenSeq(Schedulers(o)) \o FlattenSeq(Workers(o))
           /\ ProgramCalls \in Seq(Calls(o))
           /\ FlattenSeq(Schedulers(o)) \in Seq(Calls(o)) /\ FlattenSeq(Workers(o)) \in Seq(Calls(o))
           /\ StartUp(o) \in Seq(Calls(o))
  <1>1. StartUp(o) = ProgramCalls \o FlattenSeq(Schedulers(o)) \o FlattenSeq(Workers(o))
    BY DEF StartUp, Loop, ProgramCalls, Schedulers, Workers, SchedulerCalls, WorkerCalls
  <1>2. MakingCalls(o) \subseteq Calls(o)
    BY DEF Calls
  <1>3. ProgramCalls \in Seq(Calls(o))
    BY <1>2, ProgramCallsMake, SeqMonotonic
  <1>4. FlattenSeq(Schedulers(o)) \in Seq(Calls(o)) /\ FlattenSeq(Workers(o)) \in Seq(Calls(o))
    BY PartsOfContexts, FlattenSeqType
  <1>5. ProgramCalls \o FlattenSeq(Schedulers(o)) \in Seq(Calls(o))
    BY <1>3, <1>4, ConcatProperties
  <1> QED
    BY <1>1, <1>3, <1>4, <1>5, ConcatProperties

\* A block of a block is a block.
LEMMA BlockOfBlock ==
    ASSUME NEW S, NEW s \in Seq(S), NEW t \in Seq(S), NEW u \in Seq(S), NEW b, NEW a,
           Block(s, t, b), Block(t, u, a)
    PROVE  Block(s, u, b + a)
  <1>1. b \in Nat /\ a \in Nat /\ b + a \in Nat /\ (b + a) + Len(u) <= Len(s)
    BY DEF Block
  <1>2. ASSUME NEW l \in 1..Len(u) PROVE s[(b + a) + l] = u[l]
    <2>1. a + l \in 1..Len(t) /\ t[a + l] = u[l] /\ (b + a) + l = b + (a + l)
      BY <1>1 DEF Block
    <2>2. s[b + (a + l)] = t[a + l]
      BY <2>1, Zenon DEF Block
    <2> QED
      BY <2>1, <2>2
  <1> QED
    BY <1>1, <1>2 DEF Block

\* What must come before a call that runs the handler of c: the creation of its
\* context, the copy of its data, and for a worker all schedulers.
Prepared(o, s, x, c) ==
    /\ \E b : Block(s, CreateContext(o, c), b) /\ b + 4 < x
    /\ \E y \in 1..(x - 1) : s[y] = Call("err", <<Make(Of(c, "app_data_daddr"))>>)

\* A part that starts a context prepares it, wherever it stands.
LEMMA StartsPrepares ==
    ASSUME NEW o \in OptionRecords, NEW c \in ContextsOf(o), NEW d \in ContextsOf(o),
           NEW s \in Seq(Calls(o)), NEW part, Starts(o, part, c), NEW b, Block(s, part, b),
           NEW l \in 1..Len(part), s[b + l] = Call("err", <<Run(d)>>)
    PROVE  d = c /\ Prepared(o, s, b + l, d)
  <1>0. part \in Seq(Calls(o)) /\ Block(part, CreateContext(o, c), 0)
    BY Zenon DEF Starts
  <1>1. b \in Nat /\ l \in Nat /\ Len(part) \in Nat /\ part[l] = s[b + l]
    BY <1>0 DEF Block
  <1>2. part[l] = Call("err", <<Run(d)>>)
    BY <1>1
  <1>3. /\ d = c /\ l > Len(CreateContext(o, c))
        /\ \E k \in 1..(l - 1) : part[k] = Call("err", <<Make(Of(c, "app_data_daddr"))>>)
    BY <1>2, Zenon DEF Starts
  <1>4. Len(CreateContext(o, c)) = 4
    BY DEF CreateContext
  <1>5. PICK k \in 1..(l - 1) : part[k] = Call("err", <<Make(Of(c, "app_data_daddr"))>>)
    BY <1>3, Zenon
  <1>6. b + k \in 1..((b + l) - 1) /\ s[b + k] = part[k]
    <2>1. k \in 1..Len(part) /\ b + k \in 1..((b + l) - 1)
      BY <1>1
    <2> QED
      BY <2>1, Zenon DEF Block
  <1>7. CreateContext(o, c) \in Seq(Calls(o))
    <2>1. MakingCalls(o) \subseteq Calls(o)
      BY DEF Calls
    <2> QED
      BY <2>1, CreateContextCalls, SeqMonotonic
  <1>8. Block(s, CreateContext(o, c), b + 0)
    BY <1>0, <1>7, BlockOfBlock
  <1>9. (b + 0) + 4 < b + l
    BY <1>1, <1>3, <1>4
  <1> QED
    BY <1>3, <1>5, <1>6, <1>8, <1>9, Zenon DEF Prepared

\* In the start-up everything a handler needs comes before the call that runs it,
\* and all schedulers are run before the first worker.
LEMMA StartUpOrder ==
    ASSUME NEW o \in OptionRecords, NEW x \in 1..Len(StartUp(o)), NEW c \in ContextsOf(o),
           StartUp(o)[x] = Call("err", <<Run(c)>>)
    PROVE  /\ Prepared(o, StartUp(o), x, c)
           /\ c \in ThdContexts(o) =>
                 \A d \in SchContexts(o) : \E y \in 1..(x - 1) : StartUp(o)[y] = Call("err", <<Run(d)>>)
  <1> DEFINE s == StartUp(o)
  <1>1. PICK first \in Seq(Calls(o)), mid \in Seq(Calls(o)), front \in Seq(Calls(o)), last \in Seq(Calls(o)) :
            /\ first = ProgramCalls /\ mid = FlattenSeq(Schedulers(o)) /\ last = FlattenSeq(Workers(o))
            /\ front = first \o mid /\ s = front \o last /\ s \in Seq(Calls(o))
    <2>1. /\ s = ProgramCalls \o FlattenSeq(Schedulers(o)) \o FlattenSeq(Workers(o))
          /\ ProgramCalls \in Seq(Calls(o)) /\ FlattenSeq(Schedulers(o)) \in Seq(Calls(o))
          /\ FlattenSeq(Workers(o)) \in Seq(Calls(o)) /\ s \in Seq(Calls(o))
      BY StartUpCalls
    <2>2. ProgramCalls \o FlattenSeq(Schedulers(o)) \in Seq(Calls(o))
      BY <2>1, ConcatProperties
    <2> QED
      BY <2>1, <2>2, Zenon
  <1> HIDE DEF s
  <1>2. PICK F \in Nat, M \in Nat, L \in Nat :
            /\ F = Len(first) /\ M = Len(mid) /\ L = Len(last)
            /\ Len(front) = F + M /\ Len(s) = (F + M) + L
            /\ \A y \in 1..(F + M) : front[y] = IF y <= F THEN first[y] ELSE mid[y - F]
            /\ \A y \in 1..((F + M) + L) : s[y] = IF y <= F + M THEN front[y] ELSE last[y - (F + M)]
    <2>1. Len(first) \in Nat /\ Len(mid) \in Nat /\ Len(last) \in Nat
      OBVIOUS
    <2>2. /\ Len(front) = Len(first) + Len(mid)
          /\ \A y \in 1..(Len(first) + Len(mid)) :
                front[y] = IF y <= Len(first) THEN first[y] ELSE mid[y - Len(first)]
      <3>1. /\ Len(first \o mid) = Len(first) + Len(mid)
            /\ \A y \in 1..(Len(first) + Len(mid)) :
                  (first \o mid)[y] = IF y <= Len(first) THEN first[y] ELSE mid[y - Len(first)]
        BY ConcatProperties, Zenon
      <3> QED
        BY <1>1, <3>1, Zenon
    <2>3. /\ Len(s) = Len(front) + Len(last)
          /\ \A y \in 1..(Len(front) + Len(last)) :
                s[y] = IF y <= Len(front) THEN front[y] ELSE last[y - Len(front)]
      <3>1. /\ Len(front \o last) = Len(front) + Len(last)
            /\ \A y \in 1..(Len(front) + Len(last)) :
                  (front \o last)[y] = IF y <= Len(front) THEN front[y] ELSE last[y - Len(front)]
        BY ConcatProperties, Zenon
      <3> QED
        BY <1>1, <3>1, Zenon
    <2>4. PICK F \in Nat, M \in Nat, L \in Nat : F = Len(first) /\ M = Len(mid) /\ L = Len(last)
      BY <2>1, Zenon
    <2>5. Len(front) = F + M
      BY <2>2, <2>4
    <2>6. \A y \in 1..(F + M) : front[y] = IF y <= F THEN first[y] ELSE mid[y - F]
      BY <2>2, <2>4, Zenon
    <2>7. /\ Len(s) = (F + M) + L
          /\ \A y \in 1..((F + M) + L) : s[y] = IF y <= F + M THEN front[y] ELSE last[y - (F + M)]
      BY <2>3, <2>4, <2>5, Zenon
    <2> QED
      BY <2>4, <2>5, <2>6, <2>7, Zenon
  <1>3. x \in 1..((F + M) + L) /\ s[x] = Call("err", <<Run(c)>>)
    BY <1>2 DEF s
  <1>4. /\ Schedulers(o) \in Seq(Seq(Calls(o))) /\ Len(Schedulers(o)) = o.scheduler_num
        /\ Workers(o) \in Seq(Seq(Calls(o))) /\ Len(Workers(o)) = threads_num(o)
    BY PartsOfContexts
  <1>5. /\ \A i \in 1..o.scheduler_num :
              <<"sch", i - 1>> \in SchContexts(o) /\ Starts(o, Schedulers(o)[i], <<"sch", i - 1>>)
        /\ \A i \in 1..threads_num(o) :
              <<"thd", i - 1>> \in ThdContexts(o) /\ Starts(o, Workers(o)[i], <<"thd", i - 1>>)
    BY PartsOfContexts
  <1>6. SchContexts(o) \subseteq ContextsOf(o) /\ ThdContexts(o) \subseteq ContextsOf(o)
    BY DEF ContextsOf
  <1>a. /\ \A z \in 1..M : \E i \in 1..o.scheduler_num : \E l \in 1..Len(Schedulers(o)[i]) : \E b :
              Block(mid, Schedulers(o)[i], b) /\ z = b + l
        /\ \A i \in 1..o.scheduler_num : \E b : Block(mid, Schedulers(o)[i], b)
    <2>1. /\ \A i \in 1..Len(Schedulers(o)) : \E b : Block(FlattenSeq(Schedulers(o)), Schedulers(o)[i], b)
          /\ \A y \in 1..Len(FlattenSeq(Schedulers(o))) :
                \E i \in 1..Len(Schedulers(o)) : \E l \in 1..Len(Schedulers(o)[i]) : \E b :
                   Block(FlattenSeq(Schedulers(o)), Schedulers(o)[i], b) /\ y = b + l
      BY <1>4, FlattenSeqBlocks, Zenon
    <2>2. FlattenSeq(Schedulers(o)) = mid /\ Len(mid) = M /\ Len(Schedulers(o)) = o.scheduler_num
      BY <1>1, <1>2, <1>4, Zenon
    <2> QED
      BY <2>1, <2>2
  <1>b. \A z \in 1..L : \E i \in 1..threads_num(o) : \E l \in 1..Len(Workers(o)[i]) : \E b :
              Block(last, Workers(o)[i], b) /\ z = b + l
    <2>1. \A y \in 1..Len(FlattenSeq(Workers(o))) :
                \E i \in 1..Len(Workers(o)) : \E l \in 1..Len(Workers(o)[i]) : \E b :
                   Block(FlattenSeq(Workers(o)), Workers(o)[i], b) /\ y = b + l
      BY <1>4, FlattenSeqBlocks, Zenon
    <2>2. FlattenSeq(Workers(o)) = last /\ Len(last) = L /\ Len(Workers(o)) = threads_num(o)
      BY <1>1, <1>2, <1>4, Zenon
    <2> QED
      BY <2>1, <2>2
  <1>7. CASE x <= F
    <2>1. x \in 1..Len(first) /\ s[x] = first[x]
      <3>1. x \in 1..(F + M) /\ x <= F + M /\ x \in 1..F
        BY <1>3, <1>7
      <3>2. s[x] = front[x] /\ front[x] = first[x]
        BY <1>2, <1>3, <1>7, <3>1, Zenon
      <3> QED
        BY <1>2, <3>1, <3>2
    <2>2. first[x] \in MakingCalls(o)
      BY <1>1, <2>1, ProgramCallsMake
    <2> QED
      BY <1>3, <2>1, <2>2, RunCalls
  <1>8. CASE x > F /\ x <= F + M
    <2>1. x - F \in 1..M /\ s[x] = mid[x - F]
      <3>1. x \in 1..(F + M) /\ x - F \in 1..M /\ ~(x <= F)
        BY <1>3, <1>8
      <3> QED
        BY <1>2, <1>3, <1>8, <3>1
    <2>i. PICK i \in 1..o.scheduler_num : \E l \in 1..Len(Schedulers(o)[i]) : \E b :
              Block(mid, Schedulers(o)[i], b) /\ x - F = b + l
      BY <1>a, <2>1, Zenon
    <2>l. PICK l \in 1..Len(Schedulers(o)[i]) : \E b : Block(mid, Schedulers(o)[i], b) /\ x - F = b + l
      BY <2>i, Zenon
    <2>2. PICK b : Block(mid, Schedulers(o)[i], b) /\ x - F = b + l
      BY <2>l, Zenon
    <2>3. PICK d \in SchContexts(o) : d = <<"sch", i - 1>> /\ Starts(o, Schedulers(o)[i], d)
      BY <1>5, Zenon
    <2>4. Schedulers(o)[i] \in Seq(Calls(o))
      BY <2>3, Zenon DEF Starts
    <2>5. Block(s, Schedulers(o)[i], F + b)
      <3>1. Block(front, Schedulers(o)[i], F + b)
        BY <1>1, <1>2, <2>2, <2>4, BlockInConcat
      <3> QED
        BY <1>1, <2>4, <3>1, BlockInConcat
    <2>6. PICK off \in Nat : off = F + b /\ off + l = x
      <3>1. b \in Nat /\ l \in Nat
        BY <2>2, <2>4 DEF Block
      <3>2. x \in Nat /\ F \in Nat /\ x - (F) = b + l
        BY <1>3, <2>2
      <3>3. \A p, q, u, v \in Nat : p - q = u + v => q + u \in Nat /\ (q + u) + v = p
        OBVIOUS
      <3>4. F + b \in Nat /\ (F + b) + l = x
        BY <3>1, <3>2, <3>3
      <3> QED
        BY <3>4, Zenon
    <2>7. d = c /\ Prepared(o, s, x, c)
      <3>1. PICK part : part = Schedulers(o)[i]
        OBVIOUS
      <3>2. /\ Block(s, part, off) /\ s[off + l] = Call("err", <<Run(c)>>) /\ l \in 1..Len(part)
            /\ s \in Seq(Calls(o)) /\ d \in ContextsOf(o) /\ Starts(o, part, d)
        BY <1>1, <1>3, <1>6, <2>3, <2>5, <2>6, <3>1
      <3>3. c = d /\ Prepared(o, s, off + l, c)
        BY <3>2, StartsPrepares
      <3> QED
        BY <2>6, <3>3
    <2>8. c \notin ThdContexts(o)
      BY <2>7 DEF SchContexts, ThdContexts
    <2> QED
      BY <2>7, <2>8 DEF s
  <1>9. CASE x > F + M
    <2>1. x - (F + M) \in 1..L /\ s[x] = last[x - (F + M)]
      <3>1. x - (F + M) \in 1..L /\ ~(x <= F + M)
        BY <1>3, <1>9
      <3> QED
        BY <1>2, <1>3, <1>9, <3>1
    <2>i. PICK i \in 1..threads_num(o) : \E l \in 1..Len(Workers(o)[i]) : \E b :
              Block(last, Workers(o)[i], b) /\ x - (F + M) = b + l
      BY <1>b, <2>1, Zenon
    <2>l. PICK l \in 1..Len(Workers(o)[i]) : \E b : Block(last, Workers(o)[i], b) /\ x - (F + M) = b + l
      BY <2>i, Zenon
    <2>2. PICK b : Block(last, Workers(o)[i], b) /\ x - (F + M) = b + l
      BY <2>l, Zenon
    <2>3. PICK d \in ThdContexts(o) : d = <<"thd", i - 1>> /\ Starts(o, Workers(o)[i], d)
      BY <1>5, Zenon
    <2>4. Workers(o)[i] \in Seq(Calls(o))
      BY <2>3, Zenon DEF Starts
    <2>5. Block(s, Workers(o)[i], (F + M) + b)
      BY <1>1, <1>2, <2>2, <2>4, BlockInConcat
    <2>6. PICK off \in Nat : off = (F + M) + b /\ off + l = x
      <3>1. b \in Nat /\ l \in Nat
        BY <2>2, <2>4 DEF Block
      <3>2. x \in Nat /\ F + M \in Nat /\ x - (F + M) = b + l
        BY <1>3, <2>2
      <3>3. \A p, q, u, v \in Nat : p - q = u + v => q + u \in Nat /\ (q + u) + v = p
        OBVIOUS
      <3>4. (F + M) + b \in Nat /\ ((F + M) + b) + l = x
        BY <3>1, <3>2, <3>3
      <3> QED
        BY <3>4, Zenon
    <2>7. d = c /\ Prepared(o, s, x, c)
      <3>1. PICK part : part = Workers(o)[i]
        OBVIOUS
      <3>2. /\ Block(s, part, off) /\ s[off + l] = Call("err", <<Run(c)>>) /\ l \in 1..Len(part)
            /\ s \in Seq(Calls(o)) /\ d \in ContextsOf(o) /\ Starts(o, part, d)
        BY <1>1, <1>3, <1>6, <2>3, <2>5, <2>6, <3>1
      <3>3. c = d /\ Prepared(o, s, off + l, c)
        BY <3>2, StartsPrepares
      <3> QED
        BY <2>6, <3>3
    <2>8. ASSUME NEW e \in SchContexts(o)
          PROVE  \E y \in 1..(x - 1) : s[y] = Call("err", <<Run(e)>>)
      <3>1. PICK k \in 1..o.scheduler_num : e = <<"sch", k - 1>>
        <4>0. PICK n \in 0..(o.scheduler_num - 1) : e = <<"sch", n>>
          BY DEF SchContexts
        <4>1. n + 1 \in 1..o.scheduler_num /\ n = (n + 1) - 1
          BY OptionFacts
        <4> QED
          BY <4>0, <4>1
      <3>2. Starts(o, Schedulers(o)[k], e) /\ Schedulers(o)[k] \in Seq(Calls(o))
        BY <1>5, <3>1, Zenon DEF Starts
      <3>3. PICK a : Block(mid, Schedulers(o)[k], a)
        BY <1>a, Zenon
      <3>4. PICK m \in 1..Len(Schedulers(o)[k]) : Schedulers(o)[k][m] = Call("err", <<Run(e)>>)
        BY <3>2, Zenon DEF Starts, Has
      <3>5. a \in Nat /\ mid[a + m] = Call("err", <<Run(e)>>) /\ a + m \in 1..M
        BY <1>2, <3>2, <3>3, <3>4, SMTT(30) DEF Block
      <3>6. PICK y \in Nat : y = F + (a + m)
        BY <1>2, <3>5, SMTT(30)
      <3>7. y \in 1..(F + M) /\ ~(y <= F) /\ y - F = a + m /\ y \in 1..((F + M) + L) /\ y <= F + M /\ y \in 1..(x - 1)
        <4>1. F \in Nat /\ M \in Nat /\ L \in Nat /\ a + m \in 1..M
          BY <1>2, <3>5
        <4>2. y \in 1..(F + M) /\ ~(y <= F) /\ y - F = a + m /\ y \in 1..((F + M) + L) /\ y <= F + M
          BY <3>6, <4>1, SMTT(30)
        <4> QED
          BY <1>2, <1>3, <1>9, <3>6, <4>1, <4>2
      <3>8. s[y] = mid[a + m]
        BY <1>2, <3>7
      <3> QED
        BY <3>5, <3>7, <3>8
    <2> QED
      BY <2>7, <2>8 DEF s
  <1> QED
    BY <1>2, <1>3, <1>7, <1>8, <1>9

-----------------------------------------------------------------------------
(***************************************************************************)
(* What the steps of a call leave behind.                                  *)
(***************************************************************************)
\* Resources, fields and handlers are in range; a field that is set points to a
\* resource that exists, unless it is a flag.
InBounds(o, st) ==
    /\ st = [live |-> st.live, ptr |-> st.ptr, running |-> st.running]
    /\ st.live \subseteq DataFields(o)
    /\ st.live \subseteq DOMAIN st.ptr
    /\ DOMAIN st.ptr \subseteq DataFields(o) \cup FlagFields(o)
    /\ st.running \subseteq ContextsOf(o)

PointsToLive(o, st) ==
    \A f \in DOMAIN st.ptr :
        /\ f \in DataFields(o) => st.ptr[f] \in st.live
        /\ f \in FlagFields(o) => st.ptr[f] = f

\* No field is both a pointer and a flag.
LEMMA FlagsApart ==
    ASSUME NEW o, NEW f \in DataFields(o)
    PROVE  f \notin FlagFields(o)
  <1> DEFINE Names == AppNames \cup MatcherNames \cup ContextNames \cup QueueNames \cup RuleNames
  <1>1. Name(f) \in Names
    BY DEF DataFields, Name, App, Matcher, Of, OfQueue
  <1>2. f \in FlagFields(o) => Name(f) \in FlagNames
    BY DEF FlagFields, Name, App, OfQueue, FlagNames
  <1>3. Names \cap FlagNames = {}
    BY DEF AppNames, MatcherNames, ContextNames, QueueNames, RuleNames,
           FlagNames, AppFlags, QueueFlags, RuleFlags
  <1> QED
    BY <1>1, <1>2, <1>3

\* The five kinds of steps.
LEMMA StepKinds ==
    ASSUME NEW o, NEW s \in Steps(o)
    PROVE  \/ s.do = "make" /\ s.field \in DataFields(o)
           \/ s.do = "attempt"
           \/ s.do = "point" /\ s.field \in DataFields(o) /\ s.from \in DataFields(o)
           \/ s.do = "flag" /\ s.field \in FlagFields(o)
           \/ s.do = "run" /\ \E c \in ContextsOf(o) : s.field = Of(c, "event_handler")
  BY DEF Steps, MakingSteps, Run

\* One step keeps within the bounds.
LEMMA DoInBounds ==
    ASSUME NEW o, NEW st, NEW s \in Steps(o), InBounds(o, st), PointsToLive(o, st)
    PROVE  InBounds(o, Do(st, s)) /\ PointsToLive(o, Do(st, s))
  <1>1. CASE s.do = "make" /\ s.field \in DataFields(o)
    <2> DEFINE live1 == st.live \cup {s.field}
               ptr1 == Assign(st.ptr, s.field, s.field)
    <2>1. Do(st, s) = [live |-> live1, ptr |-> ptr1, running |-> st.running]
      BY <1>1 DEF Do, InBounds
    <2>2. /\ DOMAIN ptr1 = {s.field} \cup DOMAIN st.ptr
          /\ ptr1[s.field] = s.field
          /\ \A f \in DOMAIN st.ptr : f # s.field => ptr1[f] = st.ptr[f]
      BY DEF Assign
    <2> HIDE DEF ptr1
    <2>3. s.field \notin FlagFields(o)
      BY <1>1, FlagsApart
    <2>4. InBounds(o, Do(st, s))
      BY <1>1, <2>1, <2>2 DEF InBounds
    <2>5. PointsToLive(o, Do(st, s))
      BY <2>1, <2>2, <2>3 DEF PointsToLive
    <2> QED
      BY <2>4, <2>5
  <1>2. CASE s.do = "attempt"
    BY <1>2 DEF Do
  <1>3. CASE s.do = "point" /\ s.field \in DataFields(o) /\ s.from \in DataFields(o)
    <2>1. CASE s.from \notin DOMAIN st.ptr
      BY <1>3, <2>1 DEF Do
    <2>2. CASE s.from \in DOMAIN st.ptr
      <3> DEFINE ptr1 == Assign(st.ptr, s.field, st.ptr[s.from])
      <3>1. Do(st, s) = [live |-> st.live, ptr |-> ptr1, running |-> st.running]
        BY <1>3, <2>2 DEF Do, InBounds
      <3>2. /\ DOMAIN ptr1 = {s.field} \cup DOMAIN st.ptr
            /\ ptr1[s.field] = st.ptr[s.from]
            /\ \A f \in DOMAIN st.ptr : f # s.field => ptr1[f] = st.ptr[f]
        BY DEF Assign
      <3> HIDE DEF ptr1
      <3>3. s.field \notin FlagFields(o) /\ st.ptr[s.from] \in st.live
        BY <1>3, <2>2, FlagsApart DEF PointsToLive
      <3>4. InBounds(o, Do(st, s))
        BY <1>3, <3>1, <3>2 DEF InBounds
      <3>5. PointsToLive(o, Do(st, s))
        BY <3>1, <3>2, <3>3 DEF PointsToLive
      <3> QED
        BY <3>4, <3>5
    <2> QED
      BY <2>1, <2>2
  <1>4. CASE s.do = "flag" /\ s.field \in FlagFields(o)
    <2> DEFINE ptr1 == Assign(st.ptr, s.field, s.field)
    <2>1. Do(st, s) = [live |-> st.live, ptr |-> ptr1, running |-> st.running]
      BY <1>4 DEF Do, InBounds
    <2>2. /\ DOMAIN ptr1 = {s.field} \cup DOMAIN st.ptr
          /\ ptr1[s.field] = s.field
          /\ \A f \in DOMAIN st.ptr : f # s.field => ptr1[f] = st.ptr[f]
      BY DEF Assign
    <2> HIDE DEF ptr1
    <2>3. s.field \notin DataFields(o)
      BY <1>4, FlagsApart
    <2>4. InBounds(o, Do(st, s))
      BY <1>4, <2>1, <2>2 DEF InBounds
    <2>5. PointsToLive(o, Do(st, s))
      BY <2>1, <2>2, <2>3 DEF PointsToLive
    <2> QED
      BY <2>4, <2>5
  <1>5. CASE s.do = "run" /\ \E c \in ContextsOf(o) : s.field = Of(c, "event_handler")
    <2>1. Do(st, s) = [live |-> st.live, ptr |-> st.ptr, running |-> st.running \cup {Owner(s.field)}]
      BY <1>5 DEF Do, InBounds
    <2>2. Owner(s.field) \in ContextsOf(o)
      <3>1. PICK c \in ContextsOf(o) : s.field = Of(c, "event_handler")
        BY <1>5
      <3>2. Owner(s.field) = c
        BY <3>1 DEF Owner, Of, ContextsOf, SchContexts, ThdContexts
      <3> QED
        BY <3>2
    <2>3. InBounds(o, Do(st, s))
      BY <2>1, <2>2 DEF InBounds
    <2>4. PointsToLive(o, Do(st, s))
      BY <2>1 DEF PointsToLive
    <2> QED
      BY <2>3, <2>4
  <1> QED
    BY <1>1, <1>2, <1>3, <1>4, <1>5, StepKinds

\* g[i] is what there is after i steps of the call.
IsProgress(g, k) ==
    g = [i \in 0..k |-> IF i = 0 THEN [live |-> live, ptr |-> ptr, running |-> running]
                        ELSE Do(g[i - 1], call.steps[i])]

\* Such a table exists for every number of steps,
LEMMA ProgressExists ==
    ASSUME NEW n \in Nat
    PROVE  \E g : IsProgress(g, n)
  <1> DEFINE K == {k \in Nat : \E g : IsProgress(g, k)}
             now == [live |-> live, ptr |-> ptr, running |-> running]
  <1>1. 0 \in K
    <2> DEFINE h == [i \in 0..0 |-> now]
    <2>1. \A i \in 0..0 : i = 0
      OBVIOUS
    <2>2. h = [i \in 0..0 |-> IF i = 0 THEN now ELSE Do(h[i - 1], call.steps[i])]
      BY <2>1, Zenon
    <2>3. IsProgress(h, 0)
      BY <2>2, Zenon DEF IsProgress
    <2> QED
      BY <2>3
  <1>2. ASSUME NEW k \in K PROVE k + 1 \in K
    <2>1. PICK g : IsProgress(g, k)
      OBVIOUS
    <2> DEFINE next == Do(g[k], call.steps[k + 1])
               h == [i \in 0..(k + 1) |-> IF i = k + 1 THEN next ELSE g[i]]
    <2>2. ASSUME NEW i \in 0..(k + 1)
          PROVE  h[i] = IF i = 0 THEN now ELSE Do(h[i - 1], call.steps[i])
      <3>1. CASE i = k + 1
        <4>1. k \in 0..(k + 1) /\ k # k + 1 /\ i # 0 /\ i - 1 = k
          BY <3>1
        <4>2. h[i] = next /\ h[k] = g[k]
          BY <3>1, <4>1, Zenon
        <4> QED
          BY <3>1, <4>1, <4>2, Zenon
      <3>2. CASE i # k + 1
        <4>1. i \in 0..k /\ h[i] = g[i] /\ (i # 0 => h[i - 1] = g[i - 1])
          BY <3>2
        <4>2. g[i] = IF i = 0 THEN now ELSE Do(g[i - 1], call.steps[i])
          BY <2>1, <4>1, Zenon DEF IsProgress
        <4> QED
          BY <4>1, <4>2, Zenon
      <3> QED
        BY <3>1, <3>2
    <2>3. h = [i \in 0..(k + 1) |-> h[i]]
      OBVIOUS
    <2> HIDE DEF h
    <2>4. IsProgress(h, k + 1)
      BY <2>2, <2>3, Zenon DEF IsProgress
    <2> QED
      BY <2>4
  <1>3. n \in K
    <2> HIDE DEF K
    <2>1. K \in SUBSET Nat
      BY DEF K
    <2>2. K = Nat
      BY <1>1, <1>2, <2>1, SetInduction
    <2> QED
      BY <2>2, Zenon
  <1> QED
    BY <1>3

\* so AfterSteps applies the steps one by one.
LEMMA AfterStepsIs ==
    ASSUME NEW n \in Nat
    PROVE  \E g : /\ AfterSteps(n) = g[n]
                  /\ g[0] = [live |-> live, ptr |-> ptr, running |-> running]
                  /\ \A i \in 1..n : g[i] = Do(g[i - 1], call.steps[i])
  <1> DEFINE now == [live |-> live, ptr |-> ptr, running |-> running]
             g == CHOOSE g : g = [i \in 0..n |-> IF i = 0 THEN now ELSE Do(g[i - 1], call.steps[i])]
  <1>1. IsProgress(g, n)
    BY ProgressExists, Zenon DEF IsProgress
  <1>2. AfterSteps(n) = g[n]
    BY Zenon DEF AfterSteps
  <1> HIDE DEF g
  <1>3. \A i \in 0..n : g[i] = IF i = 0 THEN now ELSE Do(g[i - 1], call.steps[i])
    BY <1>1, Zenon DEF IsProgress
  <1>4. 0 \in 0..n /\ \A i \in 1..n : i \in 0..n /\ i # 0
    OBVIOUS
  <1> QED
    BY <1>2, <1>3, <1>4, Zenon

Present == [live |-> live, ptr |-> ptr, running |-> running]

\* Nothing that was there is lost.
Grows(st, su) ==
    /\ st.live \subseteq su.live
    /\ DOMAIN st.ptr \subseteq DOMAIN su.ptr
    /\ st.running \subseteq su.running

\* A step takes nothing away, and does what it says.
LEMMA DoGrows ==
    ASSUME NEW o, NEW st, NEW s \in Steps(o), InBounds(o, st)
    PROVE  /\ Grows(st, Do(st, s))
           /\ s.do = "make" => s.field \in Do(st, s).live
           /\ s.do = "point" /\ s.from \in DOMAIN st.ptr => s.field \in DOMAIN Do(st, s).ptr
           /\ s.do = "run" => Owner(s.field) \in Do(st, s).running
           /\ s.do # "run" => Do(st, s).running = st.running
  <1>0. \A f, r : DOMAIN Assign(st.ptr, f, r) = DOMAIN st.ptr \cup {f}
    BY DEF Assign
  <1>1. CASE s.do = "make"
    <2>1. Do(st, s) = [live |-> st.live \cup {s.field}, ptr |-> Assign(st.ptr, s.field, s.field),
                       running |-> st.running]
      BY <1>1 DEF Do, InBounds
    <2>2. /\ Do(st, s).running = st.running
          /\ Do(st, s).live = st.live \cup {s.field}
          /\ Do(st, s).ptr = Assign(st.ptr, s.field, s.field)
      BY <2>1
    <2>3. DOMAIN Do(st, s).ptr = DOMAIN st.ptr \cup {s.field}
      BY <1>0, <2>2
    <2> QED
      BY <1>1, <2>2, <2>3 DEF Grows
  <1>2. CASE s.do = "attempt"
    <2>1. Do(st, s) = st
      BY <1>2 DEF Do
    <2> QED
      BY <1>2, <2>1 DEF Grows
  <1>3. CASE s.do = "point" /\ s.from \in DOMAIN st.ptr
    <2>1. Do(st, s) = [live |-> st.live, ptr |-> Assign(st.ptr, s.field, st.ptr[s.from]),
                       running |-> st.running]
      BY <1>3 DEF Do, InBounds
    <2>2. /\ Do(st, s).running = st.running
          /\ Do(st, s).live = st.live
          /\ Do(st, s).ptr = Assign(st.ptr, s.field, st.ptr[s.from])
      BY <2>1
    <2>3. DOMAIN Do(st, s).ptr = DOMAIN st.ptr \cup {s.field}
      BY <1>0, <2>2
    <2> QED
      BY <1>3, <2>2, <2>3 DEF Grows
  <1>4. CASE s.do = "point" /\ s.from \notin DOMAIN st.ptr
    <2>1. Do(st, s) = st
      BY <1>4 DEF Do
    <2> QED
      BY <1>4, <2>1 DEF Grows
  <1>5. CASE s.do = "flag"
    <2>1. Do(st, s) = [live |-> st.live, ptr |-> Assign(st.ptr, s.field, s.field),
                       running |-> st.running]
      BY <1>5 DEF Do, InBounds
    <2>2. /\ Do(st, s).running = st.running
          /\ Do(st, s).live = st.live
          /\ Do(st, s).ptr = Assign(st.ptr, s.field, s.field)
      BY <2>1
    <2>3. DOMAIN Do(st, s).ptr = DOMAIN st.ptr \cup {s.field}
      BY <1>0, <2>2
    <2> QED
      BY <1>5, <2>2, <2>3 DEF Grows
  <1>6. CASE s.do = "run"
    <2>1. Do(st, s) = [live |-> st.live, ptr |-> st.ptr, running |-> st.running \cup {Owner(s.field)}]
      BY <1>6 DEF Do, InBounds
    <2> QED
      BY <1>6, <2>1 DEF Grows
  <1> QED
    BY <1>1, <1>2, <1>3, <1>4, <1>5, <1>6, StepKinds

\* g[k] is what there is after k of the first n steps of the call; it keeps within the
\* bounds and only grows.
Progress(o, g, n) ==
    /\ g[0] = Present
    /\ AfterSteps(n) = g[n]
    /\ \A k \in 0..n : InBounds(o, g[k]) /\ PointsToLive(o, g[k])
    /\ \A k \in 1..n : g[k] = Do(g[k - 1], call.steps[k])
    /\ \A k \in 0..n, i \in 0..n : i <= k => Grows(g[i], g[k])

\* There is such a table for any number of steps of a call.
LEMMA AfterStepsProgress ==
    ASSUME NEW o, call.steps \in Seq(Steps(o)), NEW n \in 0..Len(call.steps),
           InBounds(o, Present), PointsToLive(o, Present)
    PROVE  \E g : Progress(o, g, n)
  <1>0. n \in Nat
    OBVIOUS
  <1>1. PICK g : /\ AfterSteps(n) = g[n]
                 /\ g[0] = Present
                 /\ \A i \in 1..n : g[i] = Do(g[i - 1], call.steps[i])
    BY <1>0, AfterStepsIs DEF Present
  <1> DEFINE Good(k) == /\ InBounds(o, g[k]) /\ PointsToLive(o, g[k])
                        /\ \A i \in 0..k : Grows(g[i], g[k])
             K == {k \in Nat : k <= n => Good(k)}
  <1>2. 0 \in K
    <2>1. \A i \in 0..0 : i = 0
      OBVIOUS
    <2>2. Good(0)
      BY <1>1, <2>1 DEF Grows
    <2> HIDE DEF Good
    <2> QED
      BY <2>2
  <1>3. ASSUME NEW k \in K PROVE k + 1 \in K
    <2> HIDE DEF Good
    <2> SUFFICES ASSUME k + 1 <= n PROVE Good(k + 1)
      OBVIOUS
    <2>1. k + 1 \in 1..n /\ (k + 1) - 1 = k /\ Good(k)
      OBVIOUS
    <2>2. call.steps[k + 1] \in Steps(o)
      BY <2>1
    <2>3. g[k + 1] = Do(g[k], call.steps[k + 1])
      BY <1>1, <2>1, Zenon
    <2>4. InBounds(o, g[k]) /\ PointsToLive(o, g[k]) /\ \A i \in 0..k : Grows(g[i], g[k])
      BY <2>1, Zenon DEF Good
    <2>5. InBounds(o, g[k + 1]) /\ PointsToLive(o, g[k + 1])
      BY <2>2, <2>3, <2>4, DoInBounds, Zenon
    <2>6. Grows(g[k], g[k + 1])
      BY <2>2, <2>3, <2>4, DoGrows, Zenon
    <2>7. ASSUME NEW i \in 0..(k + 1) PROVE Grows(g[i], g[k + 1])
      <3>1. CASE i = k + 1
        BY <3>1 DEF Grows
      <3>2. CASE i # k + 1
        <4>1. i \in 0..k
          BY <3>2
        <4>2. Grows(g[i], g[k])
          BY <2>4, <4>1
        <4> QED
          BY <2>6, <4>2 DEF Grows
      <3> QED
        BY <3>1, <3>2
    <2> QED
      BY <2>5, <2>7, Zenon DEF Good
  <1>4. K = Nat
    <2> HIDE DEF K
    <2>1. K \in SUBSET Nat
      BY Zenon DEF K
    <2> QED
      BY <1>2, <1>3, <2>1, SetInduction
  <1> HIDE DEF Good
  <1>5. ASSUME NEW k \in 0..n PROVE Good(k)
    <2>1. k \in Nat /\ k <= n
      OBVIOUS
    <2> QED
      BY <1>4, <2>1
  <1>6. \A k \in 0..n, i \in 0..n : i <= k => i \in 0..k
    OBVIOUS
  <1>7. /\ \A k \in 0..n : InBounds(o, g[k]) /\ PointsToLive(o, g[k])
        /\ \A k \in 0..n, i \in 0..n : i <= k => Grows(g[i], g[k])
    BY <1>5, <1>6, Zenon DEF Good
  <1>8. Progress(o, g, n)
    BY <1>1, <1>7, Zenon DEF Progress
  <1> QED
    BY <1>8

\* So a call keeps within the bounds wherever it ends,
LEMMA AfterStepsInBounds ==
    ASSUME NEW o, call.steps \in Seq(Steps(o)), NEW n \in 0..Len(call.steps),
           InBounds(o, Present), PointsToLive(o, Present)
    PROVE  /\ InBounds(o, AfterSteps(n)) /\ PointsToLive(o, AfterSteps(n))
           /\ Grows(Present, AfterSteps(n))
  <1>1. PICK g : Progress(o, g, n)
    BY AfterStepsProgress
  <1>2. n \in 0..n /\ 0 \in 0..n /\ 0 <= n
    OBVIOUS
  <1> QED
    BY <1>1, <1>2, Zenon DEF Progress

\* it runs no handler unless it is made for that,
LEMMA MakingRunsNothing ==
    ASSUME NEW o, call.steps \in Seq(MakingSteps(o)), NEW n \in 0..Len(call.steps),
           InBounds(o, Present), PointsToLive(o, Present)
    PROVE  AfterSteps(n).running = running
  <1>0. MakingSteps(o) \subseteq Steps(o) /\ \A s \in MakingSteps(o) : s.do # "run"
    BY DEF Steps, MakingSteps
  <1>1. call.steps \in Seq(Steps(o))
    BY <1>0, SeqMonotonic
  <1>2. PICK g : Progress(o, g, n)
    BY <1>1, AfterStepsProgress
  <1> DEFINE K == {k \in Nat : k <= n => g[k].running = running}
  <1>3. 0 \in K
    BY <1>2 DEF Progress, Present
  <1>4. ASSUME NEW k \in K PROVE k + 1 \in K
    <2> SUFFICES ASSUME k + 1 <= n PROVE g[k + 1].running = running
      OBVIOUS
    <2>1. k \in 0..n /\ k + 1 \in 1..n /\ (k + 1) - 1 = k /\ g[k].running = running
      OBVIOUS
    <2>2. call.steps[k + 1] \in MakingSteps(o)
      BY <2>1
    <2>3. g[k + 1] = Do(g[k], call.steps[k + 1]) /\ InBounds(o, g[k])
      BY <1>2, <2>1, Zenon DEF Progress
    <2>4. Do(g[k], call.steps[k + 1]).running = g[k].running
      BY <1>0, <2>2, <2>3, DoGrows
    <2> QED
      BY <2>1, <2>3, <2>4
  <1>5. K = Nat
    <2> HIDE DEF K
    <2>1. K \in SUBSET Nat
      BY DEF K
    <2> QED
      BY <1>3, <1>4, <2>1, SetInduction
  <1>6. n \in K /\ n <= n
    BY <1>5
  <1>7. g[n].running = running
    BY <1>6
  <1> QED
    BY <1>2, <1>7 DEF Progress

\* and one that ends well has taken all its steps.
LEMMA CallPerformed ==
    ASSUME NEW o, call.steps \in Seq(Steps(o)), InBounds(o, Present), PointsToLive(o, Present),
           NEW st, st = AfterSteps(Len(call.steps))
    PROVE  /\ \A f : Has(call.steps, Make(f)) => f \in st.live /\ f \in DOMAIN st.ptr
           /\ \A f, h : Has(call.steps, Point(f, h)) /\ h \in DOMAIN ptr => f \in DOMAIN st.ptr
           /\ \A c \in ContextsOf(o) : Has(call.steps, Run(c)) => c \in st.running
  <1>1. PICK n \in Nat : n = Len(call.steps)
    OBVIOUS
  <1>2. PICK g : Progress(o, g, n)
    BY <1>1, AfterStepsProgress
  <1>3. /\ st = g[n] /\ InBounds(o, st)
        /\ \A k \in 0..n : InBounds(o, g[k]) /\ Grows(Present, g[k]) /\ Grows(g[k], st)
        /\ \A k \in 1..n : g[k] = Do(g[k - 1], call.steps[k])
    <2>1. n \in 0..n /\ \A k \in 0..n : 0 \in 0..n /\ 0 <= k /\ k <= n
      OBVIOUS
    <2> QED
      BY <1>1, <1>2, <2>1, Zenon DEF Progress
  <1>4. ASSUME NEW k \in 1..n
        PROVE  /\ k - 1 \in 0..n /\ k \in 0..n /\ call.steps[k] \in Steps(o)
               /\ g[k] = Do(g[k - 1], call.steps[k])
               /\ InBounds(o, g[k - 1]) /\ Grows(Present, g[k - 1]) /\ Grows(g[k], st)
    <2>1. k - 1 \in 0..n /\ k \in 0..n /\ call.steps[k] \in Steps(o)
      BY <1>1
    <2> QED
      BY <1>3, <2>1
  <1>5. ASSUME NEW f, Has(call.steps, Make(f)) PROVE f \in st.live /\ f \in DOMAIN st.ptr
    <2>1. PICK k \in 1..n : call.steps[k] = Make(f)
      BY <1>1, <1>5 DEF Has
    <2>2. call.steps[k].do = "make" /\ call.steps[k].field = f
      BY <2>1 DEF Make
    <2>3. f \in Do(g[k - 1], call.steps[k]).live
      BY <1>4, <2>2, DoGrows
    <2> QED
      BY <1>3, <1>4, <2>3 DEF Grows, InBounds
  <1>6. ASSUME NEW f, NEW h, Has(call.steps, Point(f, h)), h \in DOMAIN ptr PROVE f \in DOMAIN st.ptr
    <2>1. PICK k \in 1..n : call.steps[k] = Point(f, h)
      BY <1>1, <1>6 DEF Has
    <2>2. call.steps[k].do = "point" /\ call.steps[k].field = f /\ call.steps[k].from = h
      BY <2>1 DEF Point
    <2>3. h \in DOMAIN g[k - 1].ptr
      BY <1>4, <1>6 DEF Grows, Present
    <2>4. f \in DOMAIN Do(g[k - 1], call.steps[k]).ptr
      BY <1>4, <2>2, <2>3, DoGrows
    <2> QED
      BY <1>4, <2>4 DEF Grows
  <1>7. ASSUME NEW c \in ContextsOf(o), Has(call.steps, Run(c)) PROVE c \in st.running
    <2>1. PICK k \in 1..n : call.steps[k] = Run(c)
      BY <1>1, <1>7 DEF Has
    <2>2. call.steps[k].do = "run" /\ Owner(call.steps[k].field) = c
      BY <2>1 DEF Run, Owner, Of, ContextsOf, SchContexts, ThdContexts
    <2>3. c \in Do(g[k - 1], call.steps[k]).running
      BY <1>4, <2>2, DoGrows
    <2> QED
      BY <1>4, <2>3 DEF Grows
  <1> QED
    BY <1>5, <1>6, <1>7

-----------------------------------------------------------------------------
(***************************************************************************)
(* What the creating functions leave behind when they succeed, D being the *)
(* fields that are set.                                                    *)
(***************************************************************************)
RqFields == {"rq_cq_dbr_daddr", "rq_cq_ring_daddr", "rq_wqd_daddr", "rq_wq_ring_daddr",
             "rq_wq_dbr_daddr", "flexio_rq_ptr"}
SqFields == {"sq_cq_dbr_daddr", "sq_cq_ring_daddr", "sq_wqd_daddr", "sq_wq_ring_daddr", "flexio_sq_ptr"}

HostReady(o, c, D) ==
    o.buffer_location = 1 =>
        \A j \in QueuesOf(o, c) :
            OfQueue(c, j, "host_rq_buffer") \in D /\ OfQueue(c, j, "host_sq_buffer") \in D
RqReady(o, c, D) == \A j \in QueuesOf(o, c), n \in RqFields : OfQueue(c, j, n) \in D
SqReady(o, c, D) == \A j \in QueuesOf(o, c), n \in SqFields : OfQueue(c, j, n) \in D

\* create_app_rq makes all that a receive queue has, or points to host memory.
LEMMA AppRqHas ==
    ASSUME NEW o \in OptionRecords, NEW c \in ContextsOf(o), NEW j \in QueuesOf(o, c)
    PROVE  /\ \A n \in RqFields \ {"rq_wqd_daddr"} : Has(create_app_rq(o, c), Make(OfQueue(c, j, n)))
           /\ o.buffer_location = 0 => Has(create_app_rq(o, c), Make(OfQueue(c, j, "rq_wqd_daddr")))
           /\ o.buffer_location = 1 =>
                 Has(create_app_rq(o, c),
                     Point(OfQueue(c, j, "rq_wqd_daddr"), OfQueue(c, j, "host_rq_buffer")))
  <1> DEFINE S == MakingSteps(o)
             ring == cq_mem_alloc(c, j, "rq")
             cq == <<Make(OfQueue(c, j, "flexio_rq_cq_ptr"))>>
             mem == rq_mem_alloc(o, c, j)
             rq == <<Attempt, Make(OfQueue(c, j, "flexio_rq_ptr")), Attempt>>
             round == ring \o cq \o mem \o rq
  <1>1. ring \in Seq(S) /\ cq \in Seq(S) /\ mem \in Seq(S) /\ rq \in Seq(S)
    <2>1. /\ OfQueue(c, j, "flexio_rq_cq_ptr") \in DataFields(o)
          /\ OfQueue(c, j, "flexio_rq_ptr") \in DataFields(o)
      BY FieldsOfContexts DEF QueueNames
    <2>2. cq \in Seq(S) /\ rq \in Seq(S)
      BY <2>1, StepsOfFields
    <2> QED
      BY <2>2, RqMemSteps, CqMemSteps
  <1>2. Has(ring, Make(OfQueue(c, j, "rq_cq_dbr_daddr"))) /\ Has(ring, Make(OfQueue(c, j, "rq_cq_ring_daddr")))
    BY DEF Has, cq_mem_alloc
  <1>3. Has(rq, Make(OfQueue(c, j, "flexio_rq_ptr")))
    <2>1. 2 \in 1..Len(rq) /\ rq[2] = Make(OfQueue(c, j, "flexio_rq_ptr"))
      OBVIOUS
    <2> QED
      BY <2>1, Zenon DEF Has
  <1>4. /\ Has(mem, Make(OfQueue(c, j, "rq_wq_ring_daddr"))) /\ Has(mem, Make(OfQueue(c, j, "rq_wq_dbr_daddr")))
        /\ o.buffer_location = 0 => Has(mem, Make(OfQueue(c, j, "rq_wqd_daddr")))
        /\ o.buffer_location = 1 =>
              Has(mem, Point(OfQueue(c, j, "rq_wqd_daddr"), OfQueue(c, j, "host_rq_buffer")))
    <2> DEFINE data == <<Make(OfQueue(c, j, "rq_wqd_daddr"))>>
               key == create_dpa_mkey(c, j, "rqd_mkey")
               own == data \o key \o <<Attempt>>
               mapped == <<Point(OfQueue(c, j, "rq_wqd_daddr"), OfQueue(c, j, "host_rq_buffer")),
                           Flag(OfQueue(c, j, "rq_data_on_host"))>>
               wq == <<Make(OfQueue(c, j, "rq_wq_ring_daddr")), Make(OfQueue(c, j, "rq_wq_dbr_daddr"))>>
    <2>1. data \in Seq(S) /\ key \in Seq(S) /\ mapped \in Seq(S) /\ wq \in Seq(S) /\ <<Attempt>> \in Seq(S)
      <3>1. /\ OfQueue(c, j, "rq_wqd_daddr") \in DataFields(o) /\ OfQueue(c, j, "rqd_mkey") \in DataFields(o)
            /\ OfQueue(c, j, "host_rq_buffer") \in DataFields(o)
            /\ OfQueue(c, j, "rq_wq_ring_daddr") \in DataFields(o)
            /\ OfQueue(c, j, "rq_wq_dbr_daddr") \in DataFields(o)
        BY FieldsOfContexts DEF QueueNames
      <3>2. OfQueue(c, j, "rq_data_on_host") \in FlagFields(o)
        BY FieldsOfContexts DEF QueueFlags
      <3>3. data \in Seq(S) /\ key \in Seq(S) /\ <<Attempt>> \in Seq(S)
        BY <3>1, StepsOfFields DEF create_dpa_mkey
      <3>4. mapped \in Seq(S)
        BY <3>1, <3>2, StepsOfFields
      <3>5. wq \in Seq(S)
        BY <3>1, StepsOfFields
      <3> QED
        BY <3>3, <3>4, <3>5
    <2>2. /\ Has(data, Make(OfQueue(c, j, "rq_wqd_daddr")))
          /\ Has(mapped, Point(OfQueue(c, j, "rq_wqd_daddr"), OfQueue(c, j, "host_rq_buffer")))
          /\ Has(wq, Make(OfQueue(c, j, "rq_wq_ring_daddr")))
          /\ Has(wq, Make(OfQueue(c, j, "rq_wq_dbr_daddr")))
      BY DEF Has
    <2>3. mem = (IF o.buffer_location = 0 THEN own ELSE mapped) \o wq
      BY DEF rq_mem_alloc
    <2> HIDE DEF data, key, mapped, wq, mem, S
    <2>4. data \o key \in Seq(S) /\ Has(data \o key, Make(OfQueue(c, j, "rq_wqd_daddr")))
      BY <2>1, <2>2, ConcatProperties, HasInConcat
    <2>5. own \in Seq(S) /\ Has(own, Make(OfQueue(c, j, "rq_wqd_daddr")))
      BY <2>1, <2>4, ConcatProperties, HasInConcat
    <2> HIDE DEF own
    <2>6. CASE o.buffer_location = 0
      <3>1. mem = own \o wq
        BY <2>3, <2>6
      <3> QED
        BY <2>1, <2>2, <2>5, <2>6, <3>1, HasInConcat
    <2>7. CASE o.buffer_location = 1
      <3>1. mem = mapped \o wq
        BY <2>3, <2>7
      <3> QED
        BY <2>1, <2>2, <2>7, <3>1, HasInConcat
    <2> QED
      BY <2>6, <2>7, OptionFacts
  <1>8. \A e : Has(round, e) => Has(create_app_rq(o, c), e)
    BY AppRqSteps DEF RqRound
  <1> HIDE DEF ring, cq, mem, rq, S
  <1>5. ring \o cq \in Seq(S) /\ \A e : Has(ring, e) => Has(ring \o cq, e)
    BY <1>1, ConcatProperties, HasInConcat
  <1>6. /\ ring \o cq \o mem \in Seq(S)
        /\ \A e : Has(ring, e) \/ Has(mem, e) => Has(ring \o cq \o mem, e)
    BY <1>1, <1>5, ConcatProperties, HasInConcat
  <1>7. \A e : Has(ring, e) \/ Has(mem, e) \/ Has(rq, e) => Has(round, e)
    BY <1>1, <1>6, HasInConcat
  <1> QED
    BY <1>2, <1>3, <1>4, <1>7, <1>8 DEF RqFields

\* create_app_sq makes all that a send queue has, or points to the receive queue's
\* buffer or to host memory.
LEMMA AppSqHas ==
    ASSUME NEW o \in OptionRecords, NEW c \in ContextsOf(o), NEW j \in QueuesOf(o, c)
    PROVE  /\ \A n \in SqFields \ {"sq_wqd_daddr"} : Has(create_app_sq(o, c), Make(OfQueue(c, j, n)))
           /\ o.use_copy = 0 =>
                 Has(create_app_sq(o, c), Point(OfQueue(c, j, "sq_wqd_daddr"), OfQueue(c, j, "rq_wqd_daddr")))
           /\ o.use_copy # 0 /\ o.buffer_location = 0 =>
                 Has(create_app_sq(o, c), Make(OfQueue(c, j, "sq_wqd_daddr")))
           /\ o.use_copy # 0 /\ o.buffer_location = 1 =>
                 Has(create_app_sq(o, c), Point(OfQueue(c, j, "sq_wqd_daddr"), OfQueue(c, j, "host_sq_buffer")))
  <1> DEFINE S == MakingSteps(o)
             data == OfQueue(c, j, "sq_wqd_daddr")
             ring == cq_mem_alloc(c, j, "sq")
             cq == <<Make(OfQueue(c, j, "flexio_sq_cq_ptr"))>>
             mem == sq_mem_alloc(o, c, j)
             sq == <<Make(OfQueue(c, j, "flexio_sq_ptr"))>>
             round == ring \o cq \o mem \o sq
  <1>1. ring \in Seq(S) /\ cq \in Seq(S) /\ mem \in Seq(S) /\ sq \in Seq(S)
    <2>1. /\ OfQueue(c, j, "flexio_sq_cq_ptr") \in DataFields(o)
          /\ OfQueue(c, j, "flexio_sq_ptr") \in DataFields(o)
      BY FieldsOfContexts DEF QueueNames
    <2>2. cq \in Seq(S) /\ sq \in Seq(S)
      BY <2>1, StepsOfFields
    <2> QED
      BY <2>2, SqMemSteps, CqMemSteps
  <1>2. Has(ring, Make(OfQueue(c, j, "sq_cq_dbr_daddr"))) /\ Has(ring, Make(OfQueue(c, j, "sq_cq_ring_daddr")))
    BY DEF Has, cq_mem_alloc
  <1>3. Has(sq, Make(OfQueue(c, j, "flexio_sq_ptr")))
    BY DEF Has
  <1>4. /\ Has(mem, Make(OfQueue(c, j, "sq_wq_ring_daddr")))
        /\ o.use_copy = 0 => Has(mem, Point(data, OfQueue(c, j, "rq_wqd_daddr")))
        /\ o.use_copy # 0 /\ o.buffer_location = 0 => Has(mem, Make(data))
        /\ o.use_copy # 0 /\ o.buffer_location = 1 => Has(mem, Point(data, OfQueue(c, j, "host_sq_buffer")))
    <2> DEFINE reuse == <<Flag(OfQueue(c, j, "sq_data_reuses_rq")),
                          Point(data, OfQueue(c, j, "rq_wqd_daddr")),
                          Point(OfQueue(c, j, "sqd_mkey"), OfQueue(c, j, "rqd_mkey"))>>
               onHost == IF o.buffer_location = 1 THEN <<Flag(OfQueue(c, j, "sq_data_on_host"))>> ELSE <<>>
               made == <<Make(data)>>
               key == create_dpa_mkey(c, j, "sqd_mkey")
               mapped == <<Point(data, OfQueue(c, j, "host_sq_buffer")), Flag(OfQueue(c, j, "sq_data_on_host"))>>
               wq == <<Make(OfQueue(c, j, "sq_wq_ring_daddr"))>>
    <2>1. /\ reuse \in Seq(S) /\ onHost \in Seq(S) /\ made \in Seq(S) /\ key \in Seq(S)
          /\ mapped \in Seq(S) /\ wq \in Seq(S)
      <3>1. /\ data \in DataFields(o) /\ OfQueue(c, j, "sqd_mkey") \in DataFields(o)
            /\ OfQueue(c, j, "rq_wqd_daddr") \in DataFields(o) /\ OfQueue(c, j, "rqd_mkey") \in DataFields(o)
            /\ OfQueue(c, j, "host_sq_buffer") \in DataFields(o)
            /\ OfQueue(c, j, "sq_wq_ring_daddr") \in DataFields(o)
        BY FieldsOfContexts DEF QueueNames
      <3>2. /\ OfQueue(c, j, "sq_data_reuses_rq") \in FlagFields(o)
            /\ OfQueue(c, j, "sq_data_on_host") \in FlagFields(o)
        BY FieldsOfContexts DEF QueueFlags
      <3> HIDE DEF data
      <3>3. reuse \in Seq(S) /\ onHost \in Seq(S)
        BY <3>1, <3>2, StepsOfFields
      <3>4. made \in Seq(S) /\ key \in Seq(S) /\ wq \in Seq(S)
        BY <3>1, StepsOfFields DEF create_dpa_mkey
      <3>5. mapped \in Seq(S)
        BY <3>1, <3>2, StepsOfFields
      <3> QED
        BY <3>3, <3>4, <3>5
    <2>2. /\ Has(reuse, Point(data, OfQueue(c, j, "rq_wqd_daddr"))) /\ Has(made, Make(data))
          /\ Has(mapped, Point(data, OfQueue(c, j, "host_sq_buffer")))
          /\ Has(wq, Make(OfQueue(c, j, "sq_wq_ring_daddr")))
      <3>1. 2 \in 1..Len(reuse) /\ reuse[2] = Point(data, OfQueue(c, j, "rq_wqd_daddr"))
        OBVIOUS
      <3>2. Has(reuse, Point(data, OfQueue(c, j, "rq_wqd_daddr")))
        BY <3>1, Zenon DEF Has
      <3>3. Has(made, Make(data)) /\ Has(mapped, Point(data, OfQueue(c, j, "host_sq_buffer")))
        BY DEF Has
      <3>4. Has(wq, Make(OfQueue(c, j, "sq_wq_ring_daddr")))
        BY DEF Has
      <3> QED
        BY <3>2, <3>3, <3>4
    <2>3. /\ o.use_copy = 0 => mem = (reuse \o onHost) \o wq
          /\ o.use_copy # 0 /\ o.buffer_location = 0 => mem = (made \o key) \o wq
          /\ o.use_copy # 0 /\ o.buffer_location # 0 => mem = mapped \o wq
      <3>1. CASE o.use_copy = 0
        BY <3>1 DEF sq_mem_alloc
      <3>2. CASE o.use_copy # 0 /\ o.buffer_location = 0
        BY <3>2 DEF sq_mem_alloc
      <3>3. CASE o.use_copy # 0 /\ o.buffer_location # 0
        BY <3>3 DEF sq_mem_alloc
      <3> QED
        BY <3>1, <3>2, <3>3
    <2> HIDE DEF data, reuse, onHost, made, key, mapped, wq, mem, S
    <2>4. CASE o.use_copy = 0
      <3>1. reuse \o onHost \in Seq(S) /\ Has(reuse \o onHost, Point(data, OfQueue(c, j, "rq_wqd_daddr")))
        BY <2>1, <2>2, ConcatProperties, HasInConcat
      <3>2. mem = (reuse \o onHost) \o wq
        BY <2>3, <2>4
      <3>3. /\ Has(mem, Point(data, OfQueue(c, j, "rq_wqd_daddr")))
            /\ Has(mem, Make(OfQueue(c, j, "sq_wq_ring_daddr")))
        BY <2>1, <2>2, <3>1, <3>2, HasInConcat
      <3> QED
        BY <2>4, <3>3
    <2>5. CASE o.use_copy # 0 /\ o.buffer_location = 0
      <3>1. made \o key \in Seq(S) /\ Has(made \o key, Make(data))
        BY <2>1, <2>2, ConcatProperties, HasInConcat
      <3>2. mem = (made \o key) \o wq
        BY <2>3, <2>5
      <3>3. Has(mem, Make(data)) /\ Has(mem, Make(OfQueue(c, j, "sq_wq_ring_daddr")))
        BY <2>1, <2>2, <3>1, <3>2, HasInConcat
      <3> QED
        BY <2>5, <3>3
    <2>6. CASE o.use_copy # 0 /\ o.buffer_location # 0
      BY <2>1, <2>2, <2>3, <2>6, HasInConcat
    <2> QED
      BY <2>4, <2>5, <2>6
  <1>8. \A e : Has(round, e) => Has(create_app_sq(o, c), e)
    BY AppSqSteps DEF SqRound
  <1> HIDE DEF ring, cq, mem, sq, S, data
  <1>5. ring \o cq \in Seq(S) /\ \A e : Has(ring, e) => Has(ring \o cq, e)
    BY <1>1, ConcatProperties, HasInConcat
  <1>6. /\ ring \o cq \o mem \in Seq(S)
        /\ \A e : Has(ring, e) \/ Has(mem, e) => Has(ring \o cq \o mem, e)
    BY <1>1, <1>5, ConcatProperties, HasInConcat
  <1>7. \A e : Has(ring, e) \/ Has(mem, e) \/ Has(sq, e) => Has(round, e)
    BY <1>1, <1>6, HasInConcat
  <1> QED
    BY <1>2, <1>3, <1>4, <1>7, <1>8 DEF SqFields, data

\* So create_app_rq leaves its queues complete if the host memory is there, and
\* create_app_sq if the receive queues are complete as well.
LEMMA QueuesReady ==
    ASSUME NEW o \in OptionRecords, NEW c \in ContextsOf(o), NEW st,
           call.steps \in Seq(Steps(o)), InBounds(o, Present), PointsToLive(o, Present),
           st = AfterSteps(Len(call.steps)), HostReady(o, c, DOMAIN ptr)
    PROVE  /\ call.steps = create_app_rq(o, c) => RqReady(o, c, DOMAIN st.ptr)
           /\ call.steps = create_app_sq(o, c) /\ RqReady(o, c, DOMAIN ptr) => SqReady(o, c, DOMAIN st.ptr)
  <1>0. /\ \A f : Has(call.steps, Make(f)) => f \in DOMAIN st.ptr
        /\ \A f, h : Has(call.steps, Point(f, h)) /\ h \in DOMAIN ptr => f \in DOMAIN st.ptr
    BY CallPerformed
  <1>1. ASSUME call.steps = create_app_rq(o, c), NEW j \in QueuesOf(o, c), NEW n \in RqFields
        PROVE  OfQueue(c, j, n) \in DOMAIN st.ptr
    <2>1. CASE n # "rq_wqd_daddr"
      BY <1>0, <1>1, <2>1, AppRqHas
    <2>2. CASE n = "rq_wqd_daddr" /\ o.buffer_location = 0
      BY <1>0, <1>1, <2>2, AppRqHas
    <2>3. CASE n = "rq_wqd_daddr" /\ o.buffer_location = 1
      <3>1. OfQueue(c, j, "host_rq_buffer") \in DOMAIN ptr
        BY <2>3 DEF HostReady
      <3> QED
        BY <1>0, <1>1, <2>3, <3>1, AppRqHas
    <2> QED
      BY <2>1, <2>2, <2>3, OptionFacts
  <1>2. ASSUME call.steps = create_app_sq(o, c), RqReady(o, c, DOMAIN ptr),
               NEW j \in QueuesOf(o, c), NEW n \in SqFields
        PROVE  OfQueue(c, j, n) \in DOMAIN st.ptr
    <2>1. CASE n # "sq_wqd_daddr"
      BY <1>0, <1>2, <2>1, AppSqHas
    <2>2. CASE n = "sq_wqd_daddr" /\ o.use_copy = 0
      <3>1. OfQueue(c, j, "rq_wqd_daddr") \in DOMAIN ptr
        BY <1>2 DEF RqReady, RqFields
      <3> QED
        BY <1>0, <1>2, <2>2, <3>1, AppSqHas
    <2>3. CASE n = "sq_wqd_daddr" /\ o.use_copy # 0 /\ o.buffer_location = 0
      BY <1>0, <1>2, <2>3, AppSqHas
    <2>4. CASE n = "sq_wqd_daddr" /\ o.use_copy # 0 /\ o.buffer_location = 1
      <3>1. OfQueue(c, j, "host_sq_buffer") \in DOMAIN ptr
        BY <2>4 DEF HostReady
      <3> QED
        BY <1>0, <1>2, <2>4, <3>1, AppSqHas
    <2> QED
      BY <2>1, <2>2, <2>3, <2>4, OptionFacts
  <1> QED
    BY <1>1, <1>2 DEF RqReady, SqReady

\* alloc_context_host_memory leaves the buffers of all queues marked off.
LEMMA HostMemoryReady ==
    ASSUME NEW o \in OptionRecords, NEW c \in ContextsOf(o), NEW st,
           call.steps \in Seq(Steps(o)), InBounds(o, Present), PointsToLive(o, Present),
           st = AfterSteps(Len(call.steps)), call.steps = alloc_context_host_memory(o, c)
    PROVE  HostReady(o, c, DOMAIN st.ptr)
  <1> SUFFICES ASSUME o.buffer_location = 1, NEW j \in QueuesOf(o, c)
               PROVE  /\ OfQueue(c, j, "host_rq_buffer") \in DOMAIN st.ptr
                      /\ OfQueue(c, j, "host_sq_buffer") \in DOMAIN st.ptr
    BY DEF HostReady
  <1> DEFINE base == Of(c, "host_alloc_base")
             rq == OfQueue(c, j, "host_rq_buffer")
             sq == OfQueue(c, j, "host_sq_buffer")
             from == IF o.use_copy = 0 THEN rq ELSE base
  <1>1. PICK n \in Nat : n = Len(call.steps)
    OBVIOUS
  <1>2. PICK g : Progress(o, g, n)
    BY <1>1, AfterStepsProgress
  <1>3. /\ st = g[n]
        /\ \A k \in 0..n : InBounds(o, g[k])
        /\ \A k \in 1..n : g[k] = Do(g[k - 1], call.steps[k])
        /\ \A k \in 0..n, i \in 0..n : i <= k => Grows(g[i], g[k])
    BY <1>1, <1>2, Zenon DEF Progress
  <1>4. PICK b : Block(call.steps, HostRound(o, c, j), b) /\ b >= 1
    BY HostMemorySteps
  <1>5. HostRound(o, c, j) = <<Point(rq, base), Point(sq, from)>>
    BY DEF HostRound
  <1> HIDE DEF base, rq, sq, from
  <1>6. /\ b \in Nat /\ b + 2 <= n
        /\ call.steps[b + 1] = Point(rq, base) /\ call.steps[b + 2] = Point(sq, from)
    BY <1>1, <1>4, <1>5 DEF Block
  <1>7. call.steps[1] = Make(base)
    BY HostMemorySteps DEF base
  <1>8. /\ 1 \in 1..n /\ b + 1 \in 1..n /\ b + 2 \in 1..n
        /\ 0 \in 0..n /\ 1 \in 0..n /\ b \in 0..n /\ b + 1 \in 0..n /\ b + 2 \in 0..n /\ n \in 0..n
        /\ 1 - 1 = 0 /\ (b + 1) - 1 = b /\ (b + 2) - 1 = b + 1
        /\ 1 <= b /\ b <= b + 1 /\ b + 1 <= n /\ b + 2 <= n
    BY <1>4, <1>6
  <1>9. \A k \in 1..n : call.steps[k] \in Steps(o)
    BY <1>1
  <1>10. base \in DOMAIN g[1].ptr
    <2>1. g[1] = Do(g[0], call.steps[1]) /\ InBounds(o, g[0]) /\ InBounds(o, g[1]) /\ call.steps[1] \in Steps(o)
      BY <1>3, <1>8, <1>9
    <2>2. call.steps[1].do = "make" /\ call.steps[1].field = base
      BY <1>7 DEF Make
    <2>3. base \in g[1].live
      BY <2>1, <2>2, DoGrows
    <2> QED
      BY <2>1, <2>3 DEF InBounds
  <1>11. rq \in DOMAIN g[b + 1].ptr /\ base \in DOMAIN g[b + 1].ptr
    <2>1. /\ g[b + 1] = Do(g[b], call.steps[b + 1]) /\ InBounds(o, g[b]) /\ call.steps[b + 1] \in Steps(o)
          /\ Grows(g[1], g[b]) /\ Grows(g[1], g[b + 1])
      <3>1. 1 <= b + 1
        BY <1>6
      <3> QED
        BY <1>3, <1>8, <1>9, <3>1
    <2>2. /\ call.steps[b + 1].do = "point" /\ call.steps[b + 1].field = rq
          /\ call.steps[b + 1].from = base
      BY <1>6 DEF Point
    <2>3. base \in DOMAIN g[b].ptr /\ base \in DOMAIN g[b + 1].ptr
      BY <1>10, <2>1 DEF Grows
    <2>4. rq \in DOMAIN Do(g[b], call.steps[b + 1]).ptr
      BY <2>1, <2>2, <2>3, DoGrows
    <2> QED
      BY <2>1, <2>3, <2>4
  <1>12. sq \in DOMAIN g[b + 2].ptr
    <2>1. /\ g[b + 2] = Do(g[b + 1], call.steps[b + 2]) /\ InBounds(o, g[b + 1])
          /\ call.steps[b + 2] \in Steps(o)
      BY <1>3, <1>8, <1>9
    <2>2. /\ call.steps[b + 2].do = "point" /\ call.steps[b + 2].field = sq
          /\ call.steps[b + 2].from = from
      BY <1>6 DEF Point
    <2>3. from \in DOMAIN g[b + 1].ptr
      BY <1>11 DEF from
    <2>4. sq \in DOMAIN Do(g[b + 1], call.steps[b + 2]).ptr
      BY <2>1, <2>2, <2>3, DoGrows
    <2> QED
      BY <2>1, <2>4
  <1>13. Grows(g[b + 1], st) /\ Grows(g[b + 2], st)
    BY <1>3, <1>8
  <1>14. rq \in DOMAIN st.ptr /\ sq \in DOMAIN st.ptr
    BY <1>11, <1>12, <1>13 DEF Grows
  <1> QED
    BY <1>14 DEF rq, sq

-----------------------------------------------------------------------------
(***************************************************************************)
(* The inductive invariant.                                                *)
(***************************************************************************)
HostInv ==
    /\ options \in Options
    /\ phase \in {"args", "build", "clean", "returned", "crashed"}
    /\ at \in Nat \ {0} /\ err \in {0, -1} /\ ignored \in 0..MaxIgnored
    /\ InBounds(options, Present)
    /\ phase \in {"args", "build"} => PointsToLive(options, Present)
    /\ phase = "args" => live = {}
    /\ phase = "build" => ArgumentsOk(options)
    /\ live # {} => ArgumentsOk(options)

\* It holds when main begins.
LEMMA InitHostInv == Init => HostInv
  <1> SUFFICES ASSUME Init PROVE HostInv
    OBVIOUS
  <1>1. DOMAIN ptr = {}
    BY DEF Init
  <1>2. InBounds(options, Present) /\ PointsToLive(options, Present)
    BY <1>1 DEF Init, Present, InBounds, PointsToLive
  <1> QED
    BY <1>2, HostAssumption DEF Init, HostInv

\* The call that is next is one of main's.
LEMMA CallInRange ==
    ASSUME HostInv, Building
    PROVE  /\ options \in OptionRecords
           /\ at \in 1..Len(StartUp(options)) /\ call = StartUp(options)[at] /\ call \in Calls(options)
           /\ call.steps \in Seq(Steps(options))
  <1>1. options \in OptionRecords /\ options \in Options
    BY HostAssumption DEF HostInv
  <1>2. StartUp(options) \in Seq(Calls(options)) /\ StartUps[options] = StartUp(options)
    BY <1>1, StartUpCalls DEF StartUps
  <1>3. at \in 1..Len(StartUp(options)) /\ call = StartUp(options)[at]
    BY <1>2 DEF HostInv, Building, call
  <1>4. call \in Calls(options)
    BY <1>2, <1>3
  <1>5. CASE call \in MakingCalls(options)
    <2>1. call.steps \in Seq(MakingSteps(options)) /\ MakingSteps(options) \subseteq Steps(options)
      BY <1>5 DEF MakingCalls, Steps
    <2> QED
      BY <1>1, <1>3, <1>4, <2>1, SeqMonotonic
  <1>6. ASSUME NEW c \in ContextsOf(options), call = Call("err", <<Run(c)>>)
        PROVE  call.steps \in Seq(Steps(options))
    BY <1>6 DEF Call, Steps
  <1> QED
    BY <1>1, <1>3, <1>4, <1>5, <1>6 DEF Calls

\* What a call leaves behind, wherever it ends.
LEMMA BecomeInBounds ==
    ASSUME HostInv, Building, NEW n \in 0..Len(call.steps), Become(AfterSteps(n))
    PROVE  /\ InBounds(options, [live |-> live', ptr |-> ptr', running |-> running'])
           /\ PointsToLive(options, [live |-> live', ptr |-> ptr', running |-> running'])
  <1>1. InBounds(options, Present) /\ PointsToLive(options, Present)
    BY DEF HostInv, Building
  <1>2. InBounds(options, AfterSteps(n)) /\ PointsToLive(options, AfterSteps(n))
    BY <1>1, CallInRange, AfterStepsInBounds
  <1>3. PICK st : st = AfterSteps(n)
    OBVIOUS
  <1>4. st = [live |-> st.live, ptr |-> st.ptr, running |-> st.running]
    BY <1>2, <1>3 DEF InBounds
  <1>5. live' = st.live /\ ptr' = st.ptr /\ running' = st.running
    BY <1>3 DEF Become
  <1>6. st = [live |-> live', ptr |-> ptr', running |-> running']
    BY <1>4, <1>5
  <1> QED
    BY <1>2, <1>3, <1>6

\* A failure ends a call after one of its steps.
LEMMA FailAtInBounds ==
    ASSUME HostInv, Building, \E k \in DOMAIN call.steps : FailAt(k)
    PROVE  /\ InBounds(options, [live |-> live', ptr |-> ptr', running |-> running'])
           /\ PointsToLive(options, [live |-> live', ptr |-> ptr', running |-> running'])
  <1>1. PICK k \in DOMAIN call.steps : FailAt(k)
    OBVIOUS
  <1>2. PICK n : n = IF call.undo THEN 0 ELSE k - 1
    OBVIOUS
  <1>3. n \in 0..Len(call.steps)
    BY <1>2, CallInRange
  <1>4. Become(AfterSteps(n))
    BY <1>1, <1>2 DEF FailAt
  <1> QED
    BY <1>3, <1>4, BecomeInBounds

\* The steps of the start-up,
LEMMA BuildHostInv ==
    ASSUME HostInv,
           CallSucceeds \/ FailAndQuit \/ FailWithError \/ FailSilently \/ FailIgnored
    PROVE  HostInv'
  <1>1. Building /\ options' = options
    BY DEF CallSucceeds, FailAndQuit, FailWithError, FailSilently, FailIgnored
  <1>2. InBounds(options, [live |-> live', ptr |-> ptr', running |-> running'])
        /\ PointsToLive(options, [live |-> live', ptr |-> ptr', running |-> running'])
    <2>1. CASE CallSucceeds
      <3>1. Len(call.steps) \in 0..Len(call.steps)
        BY <1>1, CallInRange
      <3> QED
        BY <1>1, <2>1, <3>1, BecomeInBounds DEF CallSucceeds
    <2>2. CASE FailAndQuit \/ FailWithError \/ FailSilently \/ FailIgnored
      BY <1>1, <2>2, FailAtInBounds DEF FailAndQuit, FailWithError, FailSilently, FailIgnored
    <2> QED
      BY <2>1, <2>2
  <1>3. InBounds(options', Present') /\ PointsToLive(options', Present')
    BY <1>1, <1>2 DEF Present
  <1>4. phase' \in {"build", "clean", "returned"} /\ at' \in Nat \ {0} /\ err' \in {0, -1}
    BY DEF HostInv, Building, CallSucceeds, FailAndQuit, FailWithError, FailSilently, FailIgnored
  <1>5. ignored' \in 0..MaxIgnored
    BY HostAssumption DEF HostInv, CallSucceeds, FailAndQuit, FailWithError, FailSilently, FailIgnored
  <1>6. options' \in Options /\ ArgumentsOk(options')
    BY <1>1 DEF HostInv, Building
  <1> QED
    BY <1>3, <1>4, <1>5, <1>6 DEF HostInv

\* the releases,
LEMMA ReleaseHostInv ==
    ASSUME HostInv, Release
    PROVE  HostInv'
  <1>1. live' \subseteq live /\ running' \subseteq running /\ ptr' = ptr /\ options' = options
    BY DEF Release
  <1>2. InBounds(options', Present')
    BY <1>1 DEF HostInv, Present, InBounds
  <1>3. phase' = "clean" /\ at' \in Nat \ {0} /\ err' = err /\ ignored' = ignored
    BY DEF Release, Cleaning, HostInv
  <1>4. live' # {} => ArgumentsOk(options')
    BY <1>1 DEF HostInv
  <1> QED
    BY <1>1, <1>2, <1>3, <1>4 DEF HostInv

\* and the steps that create and release nothing.
LEMMA OtherHostInv ==
    ASSUME HostInv, Refuse \/ Accept \/ Crash \/ KeyPressed \/ Return \/ UNCHANGED vars
    PROVE  HostInv'
  <1>1. live' = live /\ running' = running /\ ptr' = ptr /\ options' = options
    BY DEF Refuse, Accept, Crash, KeyPressed, Return, vars
  <1>2. Present' = Present
    BY <1>1 DEF Present
  <1>3. InBounds(options', Present')
    BY <1>1, <1>2 DEF HostInv
  <1>4. /\ phase' \in {"args", "build"} => PointsToLive(options', Present')
        /\ phase' = "args" => live' = {}
        /\ phase' = "build" => ArgumentsOk(options')
        /\ live' # {} => ArgumentsOk(options')
    BY <1>1, <1>2 DEF HostInv, Refuse, Accept, Crash, KeyPressed, Return, vars
  <1>5. /\ phase' \in {"args", "build", "clean", "returned", "crashed"}
        /\ at' \in Nat \ {0} /\ err' \in {0, -1} /\ ignored' \in 0..MaxIgnored
    BY DEF HostInv, Refuse, Accept, Crash, KeyPressed, Return, vars
  <1> QED
    BY <1>1, <1>3, <1>4, <1>5 DEF HostInv

\* So it always holds.
LEMMA HostInvariance == Spec => []HostInv
  <1>1. HostInv /\ [Next]_vars => HostInv'
    <2> SUFFICES ASSUME HostInv, [Next]_vars PROVE HostInv'
      OBVIOUS
    <2> QED
      BY BuildHostInv, ReleaseHostInv, OtherHostInv, Zenon DEF Next
  <1> QED
    BY InitHostInv, <1>1, PTL DEF Spec

-----------------------------------------------------------------------------
(***************************************************************************)
(* What follows from it.                                                   *)
(***************************************************************************)
\* The contexts of the proof are those of the program.
LEMMA ContextsAgree ==
    ASSUME NEW o \in OptionRecords
    PROVE  /\ SchContexts(o) = Range(SchCtx(o))
           /\ ThdContexts(o) = Range(ThdCtx(o))
  <1>0. o.scheduler_num \in Nat /\ threads_num(o) \in Nat
    BY OptionFacts
  <1>1. SchContexts(o) = Range(SchCtx(o))
    <2>1. ASSUME NEW c \in SchContexts(o) PROVE c \in Range(SchCtx(o))
      <3>1. c = <<"sch", c[2]>> /\ c[2] \in 0..(o.scheduler_num - 1)
        BY DEF SchContexts
      <3>2. PICK i \in 1..o.scheduler_num : i - 1 = c[2]
        <4>1. c[2] + 1 \in 1..o.scheduler_num /\ (c[2] + 1) - 1 = c[2]
          BY <1>0, <3>1
        <4> QED
          BY <4>1, Zenon
      <3>3. SchCtx(o)[i] = c /\ i \in DOMAIN SchCtx(o)
        BY <3>1, <3>2 DEF SchCtx
      <3> QED
        BY <3>3, Zenon DEF Range
    <2>2. ASSUME NEW c \in Range(SchCtx(o)) PROVE c \in SchContexts(o)
      <3>1. PICK i \in 1..o.scheduler_num : c = <<"sch", i - 1>>
        BY DEF SchCtx, Range
      <3>2. i - 1 \in 0..(o.scheduler_num - 1)
        BY <1>0
      <3> QED
        BY <3>1, <3>2 DEF SchContexts
    <2> QED
      BY <2>1, <2>2
  <1>2. ThdContexts(o) = Range(ThdCtx(o))
    <2>1. ASSUME NEW c \in ThdContexts(o) PROVE c \in Range(ThdCtx(o))
      <3>1. c = <<"thd", c[2]>> /\ c[2] \in 0..(threads_num(o) - 1)
        BY DEF ThdContexts
      <3>2. PICK i \in 1..threads_num(o) : i - 1 = c[2]
        <4>1. c[2] + 1 \in 1..threads_num(o) /\ (c[2] + 1) - 1 = c[2]
          BY <1>0, <3>1
        <4> QED
          BY <4>1, Zenon
      <3>3. ThdCtx(o)[i] = c /\ i \in DOMAIN ThdCtx(o)
        BY <3>1, <3>2 DEF ThdCtx
      <3> QED
        BY <3>3, Zenon DEF Range
    <2>2. ASSUME NEW c \in Range(ThdCtx(o)) PROVE c \in ThdContexts(o)
      <3>1. PICK i \in 1..threads_num(o) : c = <<"thd", i - 1>>
        BY DEF ThdCtx, Range
      <3>2. i - 1 \in 0..(threads_num(o) - 1)
        BY <1>0
      <3> QED
        BY <3>1, <3>2 DEF ThdContexts
    <2> QED
      BY <2>1, <2>2
  <1> QED
    BY <1>1, <1>2

\* A field is one of the program, of a matcher, or of a queue of a context.
LEMMA FieldPlaces ==
    ASSUME NEW o \in OptionRecords, NEW f \in DataFields(o) \cup FlagFields(o)
    PROVE  \/ f[1] \in {"app", "rx", "tx"}
           \/ \E i \in 0..(o.scheduler_num - 1), j \in 0..(scheduler_queue_count(o) - 1) :
                 f = <<"sch", i, j, Name(f)>>
           \/ \E i \in 0..(threads_num(o) - 1) : f = <<"thd", i, 0, Name(f)>>
  <1> DEFINE Goal == \/ f[1] \in {"app", "rx", "tx"}
                     \/ \E i \in 0..(o.scheduler_num - 1), j \in 0..(scheduler_queue_count(o) - 1) :
                           f = <<"sch", i, j, Name(f)>>
                     \/ \E i \in 0..(threads_num(o) - 1) : f = <<"thd", i, 0, Name(f)>>
  <1>1. CASE \E n \in AppNames \cup AppFlags : f = App(n)
    BY <1>1 DEF App
  <1>2. CASE \E dir \in {"rx", "tx"}, n \in MatcherNames : f = Matcher(dir, n)
    BY <1>2 DEF Matcher
  <1>3. CASE \E c \in ContextsOf(o), n \in ContextNames : f = Of(c, n)
    <2>0. 0 \in 0..(scheduler_queue_count(o) - 1)
      BY OptionFacts
    <2>1. PICK c \in ContextsOf(o), n \in ContextNames : f = Of(c, n)
      BY <1>3
    <2>2. CASE c \in SchContexts(o)
      BY <2>0, <2>1, <2>2 DEF SchContexts, Of, Name
    <2>3. CASE c \in ThdContexts(o)
      BY <2>1, <2>3 DEF ThdContexts, Of, Name
    <2> QED
      BY <2>2, <2>3 DEF ContextsOf
  <1>4. CASE \E c \in SchContexts(o), j \in 0..(scheduler_queue_count(o) - 1),
                n \in QueueNames \cup RuleNames \cup QueueFlags \cup RuleFlags : f = OfQueue(c, j, n)
    BY <1>4 DEF SchContexts, OfQueue, Name
  <1>5. CASE \E c \in ThdContexts(o), n \in QueueNames \cup QueueFlags : f = OfQueue(c, 0, n)
    BY <1>5 DEF ThdContexts, OfQueue, Name
  <1>6. \/ \E n \in AppNames \cup AppFlags : f = App(n)
        \/ \E dir \in {"rx", "tx"}, n \in MatcherNames : f = Matcher(dir, n)
        \/ \E c \in ContextsOf(o), n \in ContextNames : f = Of(c, n)
        \/ \E c \in SchContexts(o), j \in 0..(scheduler_queue_count(o) - 1),
              n \in QueueNames \cup RuleNames \cup QueueFlags \cup RuleFlags : f = OfQueue(c, j, n)
        \/ \E c \in ThdContexts(o), n \in QueueNames \cup QueueFlags : f = OfQueue(c, 0, n)
    BY DEF DataFields, FlagFields
  <1> QED
    BY <1>1, <1>2, <1>3, <1>4, <1>5, <1>6

\* For every set of command lines the loops of the start-up, of
\* alloc_context_host_memory, create_app_rq, create_app_sq and the rules stay within
\* the arrays of contexts and queues that main has allocated, and until the clean-up
\* every pointer that is set leads to a resource that exists.
THEOREM HostTypeCorrect == Spec => []HostTypeOK
  <1>1. HostInv => HostTypeOK
    <2> SUFFICES ASSUME HostInv PROVE HostTypeOK
      OBVIOUS
    <2>1. options \in OptionRecords
      BY HostAssumption DEF HostInv
    <2>2. running \subseteq Contexts
      BY <2>1, ContextsAgree DEF HostInv, InBounds, Present, ContextsOf, Contexts
    <2>3. live \subseteq DOMAIN ptr /\ DOMAIN ptr \subseteq DataFields(options) \cup FlagFields(options)
      BY DEF HostInv, InBounds, Present
    <2>4. ASSUME phase = "build", NEW f \in DOMAIN ptr
          PROVE  InRange(f) /\ (ptr[f] = f \/ ptr[f] \in live)
      <3>1. ptr[f] = f \/ ptr[f] \in live
        BY <2>3, <2>4 DEF HostInv, PointsToLive, Present
      <3>2. CASE f[1] \in {"app", "rx", "tx"}
        BY <3>1, <3>2 DEF InRange
      <3>3. ASSUME NEW i \in 0..(options.scheduler_num - 1),
                   NEW j \in 0..(scheduler_queue_count(options) - 1),
                   f = <<"sch", i, j, Name(f)>>
            PROVE  InRange(f)
        <4>1. f[1] = "sch" /\ f[2] = i /\ f[3] = j
          BY <3>3
        <4> QED
          BY <2>1, <4>1, OptionFacts DEF InRange, num_queues, Owner
      <3>4. ASSUME NEW i \in 0..(threads_num(options) - 1), f = <<"thd", i, 0, Name(f)>>
            PROVE  InRange(f)
        <4>1. f[1] = "thd" /\ f[2] = i /\ f[3] = 0
          BY <3>4
        <4> QED
          BY <2>1, <4>1, OptionFacts DEF InRange, num_queues, Owner
      <3> QED
        BY <2>1, <2>3, <3>1, <3>2, <3>3, <3>4, FieldPlaces
    <2> QED
      BY <2>2, <2>3, <2>4 DEF HostInv, HostTypeOK
  <1> QED
    BY <1>1, HostInvariance, PTL


\* Blocks of q numbers do not overlap.
LEMMA BlocksApart ==
    ASSUME NEW q \in Nat, NEW i \in Nat, NEW k \in Nat, NEW j \in Nat, NEW l \in Nat,
           j < q, l < q, i * q + j = k * q + l
    PROVE  i = k /\ j = l
  <1>1. ASSUME NEW a \in Nat, NEW b \in Nat, a < b PROVE a * q + q <= b * q
    <2>1. PICK d \in Nat : b = a + 1 + d
      <3>1. b - a - 1 \in Nat /\ b = a + 1 + (b - a - 1)
        BY <1>1
      <3> QED
        BY <3>1, Zenon
    <2>2. b * q = a * q + q + d * q /\ d * q \in Nat /\ a * q \in Nat
      BY <2>1
    <2> QED
      BY <2>2
  <1>2. i * q \in Nat /\ k * q \in Nat
    OBVIOUS
  <1>3. ~(i < k)
    BY <1>1, <1>2
  <1>4. ~(k < i)
    BY <1>1, <1>2
  <1>5. i = k
    BY <1>3, <1>4
  <1> QED
    BY <1>2, <1>5

\* A number is known by its quotient and remainder.
LEMMA SplitOnce ==
    ASSUME NEW m \in Nat \ {0}, NEW a \in Nat, NEW b \in Nat,
           a \div m = b \div m, a % m = b % m
    PROVE  a = b
  <1>1. a = m * (a \div m) + (a % m) /\ b = m * (b \div m) + (b % m)
    OBVIOUS
  <1> QED
    BY <1>1

\* The receive rules are those of queues of schedulers.
LEMMA RxRulePlace ==
    ASSUME HostInv, NEW r \in live, Name(r) = "rx_rule"
    PROVE  \E i \in 0..(options.scheduler_num - 1), j \in 0..(scheduler_queue_count(options) - 1) :
               r = <<"sch", i, j, "rx_rule">>
  <1>1. r \in DataFields(options)
    BY DEF HostInv, InBounds, Present
  <1>2. "rx_rule" \notin AppNames \cup MatcherNames \cup ContextNames \cup QueueNames
    BY DEF AppNames, MatcherNames, ContextNames, QueueNames
  <1>3. \E c \in SchContexts(options), j \in 0..(scheduler_queue_count(options) - 1) :
            r = OfQueue(c, j, "rx_rule")
    <2>1. \/ \E n \in AppNames : r = App(n)
          \/ \E dir \in {"rx", "tx"}, n \in MatcherNames : r = Matcher(dir, n)
          \/ \E c \in ContextsOf(options), n \in ContextNames : r = Of(c, n)
          \/ \E c \in SchContexts(options), j \in 0..(scheduler_queue_count(options) - 1),
                n \in QueueNames \cup RuleNames : r = OfQueue(c, j, n)
          \/ \E c \in ThdContexts(options), n \in QueueNames : r = OfQueue(c, 0, n)
      BY <1>1 DEF DataFields
    <2>2. ASSUME NEW c \in SchContexts(options), NEW j \in 0..(scheduler_queue_count(options) - 1),
                 NEW n \in QueueNames \cup RuleNames, r = OfQueue(c, j, n)
          PROVE  n = "rx_rule"
      BY <2>2 DEF OfQueue, Name
    <2> QED
      BY <1>2, <2>1, <2>2 DEF App, Matcher, Of, OfQueue, Name
  <1> QED
    BY <1>3 DEF SchContexts, OfQueue

\* For every command line, no two queues are steered by the same address: the blocks
\* of addresses of the schedulers do not overlap, and the two parts of a rule's match
\* value tell any two addresses apart.
THEOREM SteeringIsOneToOne == Spec => []SteeringOneToOne
  <1>1. HostInv => SteeringOneToOne
    <2> SUFFICES ASSUME HostInv,
                        NEW r1 \in live, Name(r1) = "rx_rule",
                        NEW r2 \in live, Name(r2) = "rx_rule",
                        MatchValue(cur_dmac(options, r1[2], r1[3])) = MatchValue(cur_dmac(options, r2[2], r2[3]))
                 PROVE  r1 = r2
      BY DEF SteeringOneToOne
    <2>0. options \in OptionRecords
      BY HostAssumption DEF HostInv
    <2>1. PICK q \in Nat : q = scheduler_queue_count(options)
      BY <2>0, OptionFacts
    <2>2. PICK i \in 0..(options.scheduler_num - 1), j \in 0..(q - 1) : r1 = <<"sch", i, j, "rx_rule">>
      BY <2>1, RxRulePlace
    <2>3. PICK k \in 0..(options.scheduler_num - 1), l \in 0..(q - 1) : r2 = <<"sch", k, l, "rx_rule">>
      BY <2>1, RxRulePlace
    <2>4. /\ i \in Nat /\ j \in Nat /\ k \in Nat /\ l \in Nat /\ j < q /\ l < q
          /\ DMAC \in Nat /\ MAC_LOW \in Nat \ {0}
      BY <2>0, OptionFacts, HostAssumption
    <2>5. PICK a : a = DMAC + i * q + j
      OBVIOUS
    <2>6. PICK b : b = DMAC + k * q + l
      OBVIOUS
    <2>7. a \in Nat /\ b \in Nat
      <3>1. i * q \in Nat /\ k * q \in Nat
        BY <2>4
      <3> QED
        BY <2>4, <2>5, <2>6, <3>1
    <2>8. MatchValue(a) = MatchValue(b)
      BY <2>1, <2>2, <2>3, <2>5, <2>6 DEF cur_dmac
    <2>9. a \div MAC_LOW = b \div MAC_LOW /\ a % MAC_LOW = b % MAC_LOW
      BY <2>8 DEF MatchValue
    <2>10. a = b
      BY <2>4, <2>7, <2>9, SplitOnce
    <2>11. i * q + j = k * q + l
      <3>1. i * q \in Nat /\ k * q \in Nat
        BY <2>4
      <3> QED
        BY <2>4, <2>5, <2>6, <2>10, <3>1
    <2>12. i = k /\ j = l
      BY <2>4, <2>11, BlocksApart
    <2> QED
      BY <2>2, <2>3, <2>12
  <1> QED
    BY <1>1, HostInvariance, PTL

\* The handlers are those of the contexts.
LEMMA HandlerPlace ==
    ASSUME HostInv, NEW h \in live, Name(h) = "event_handler"
    PROVE  \/ \E i \in 0..(options.scheduler_num - 1) : h = <<"sch", i, 0, "event_handler">>
           \/ \E i \in 0..(threads_num(options) - 1) : h = <<"thd", i, 0, "event_handler">>
  <1>1. h \in DataFields(options)
    BY DEF HostInv, InBounds, Present
  <1>2. "event_handler" \notin AppNames \cup MatcherNames \cup QueueNames \cup RuleNames
    BY DEF AppNames, MatcherNames, QueueNames, RuleNames
  <1>3. \E c \in ContextsOf(options) : h = Of(c, "event_handler")
    <2>1. \/ \E n \in AppNames : h = App(n)
          \/ \E dir \in {"rx", "tx"}, n \in MatcherNames : h = Matcher(dir, n)
          \/ \E c \in ContextsOf(options), n \in ContextNames : h = Of(c, n)
          \/ \E c \in SchContexts(options), j \in 0..(scheduler_queue_count(options) - 1),
                n \in QueueNames \cup RuleNames : h = OfQueue(c, j, n)
          \/ \E c \in ThdContexts(options), n \in QueueNames : h = OfQueue(c, 0, n)
      BY <1>1 DEF DataFields
    <2>2. ASSUME NEW c \in ContextsOf(options), NEW n \in ContextNames, h = Of(c, n)
          PROVE  n = "event_handler"
      BY <2>2 DEF Of, Name
    <2> QED
      BY <1>2, <2>1, <2>2 DEF App, Matcher, OfQueue, Name
  <1> QED
    BY <1>3 DEF ContextsOf, SchContexts, ThdContexts, Of

\* Rounding up does not go below.
LEMMA RoundedUp ==
    ASSUME NEW n \in Nat, NEW m \in Nat \ {0}
    PROVE  n <= ((n + m - 1) \div m) * m
  <1>1. PICK a \in Nat : a = n + m - 1
    <2>1. n + m - 1 \in Nat
      OBVIOUS
    <2> QED
      BY <2>1, Zenon
  <1>2. PICK d \in Int : d = a \div m
    BY <1>1
  <1>3. PICK e \in Int : e = a % m
    BY <1>1
  <1>4. a = m * d + e /\ e <= m - 1
    BY <1>2, <1>3
  <1>5. m * d = d * m /\ d * m \in Int
    OBVIOUS
  <1>6. n <= d * m
    BY <1>1, <1>4, <1>5
  <1> QED
    BY <1>1, <1>2, <1>6

\* For every command line that main accepts, with schedulers from unit 0 on and a
\* given first unit of the workers, no two handlers are bound to one execution unit.
THEOREM HandlersOnUnitsOfTheirOwn == Spec => []UnitsDisjoint
  <1>1. HostInv => UnitsDisjoint
    <2> SUFFICES ASSUME HostInv, options.worker_given, options.begin_schedr = 0,
                        NEW h1 \in live, Name(h1) = "event_handler",
                        NEW h2 \in live, Name(h2) = "event_handler",
                        affinity_id(options, Owner(h1)) = affinity_id(options, Owner(h2))
                 PROVE  h1 = h2
      BY DEF UnitsDisjoint
    <2>0. options \in OptionRecords
      BY HostAssumption DEF HostInv
    <2>1. PICK n \in Nat : n = options.scheduler_num
      BY <2>0, OptionFacts
    <2>2. PICK w \in Nat : w = options.begin_worker
      BY <2>0, OptionFacts
    <2>3. n <= w
      <3>1. ArgumentsOk(options)
        BY DEF HostInv
      <3>2. PICK up : up = ((n + EUS_PER_CORE - 1) \div EUS_PER_CORE) * EUS_PER_CORE
        OBVIOUS
      <3>3. w >= up
        BY <2>1, <2>2, <3>1, <3>2 DEF ArgumentsOk
      <3>4. n <= up /\ up \in Int
        <4>1. EUS_PER_CORE \in Nat \ {0}
          BY HostAssumption
        <4>2. n <= up
          BY <3>2, <4>1, RoundedUp
        <4> QED
          BY <3>2, <4>1, <4>2
      <3> QED
        BY <3>3, <3>4
    <2>4. threads_num(options) \in Nat
      BY <2>0, OptionFacts
    <2>5. /\ \A i \in 0..(n - 1) : affinity_id(options, Owner(<<"sch", i, 0, "event_handler">>)) = i
          /\ \A i \in 0..(threads_num(options) - 1) :
                affinity_id(options, Owner(<<"thd", i, 0, "event_handler">>)) = i + w
      BY <2>1, <2>2 DEF affinity_id, Owner
    <2>6. \/ \E i \in 0..(n - 1) : h1 = <<"sch", i, 0, "event_handler">>
          \/ \E i \in 0..(threads_num(options) - 1) : h1 = <<"thd", i, 0, "event_handler">>
      BY <2>1, HandlerPlace
    <2>7. \/ \E i \in 0..(n - 1) : h2 = <<"sch", i, 0, "event_handler">>
          \/ \E i \in 0..(threads_num(options) - 1) : h2 = <<"thd", i, 0, "event_handler">>
      BY <2>1, HandlerPlace
    <2> QED
      BY <2>3, <2>4, <2>5, <2>6, <2>7
  <1> QED
    BY <1>1, HostInvariance, PTL


\* The four kinds of regions in a context's host memory; m[j] is where the buffers of
\* queue j begin, all is where they end.
IsRegion(a, o, q, m, all) ==
    \/ /\ o.buffer_location = 1
       /\ \E j \in 0..(q - 1) : a = Region(<<"host_rq_buffer", j>>, m[j], Q_DATA_BSIZE)
    \/ /\ o.buffer_location = 1 /\ o.use_copy = 1
       /\ \E j \in 0..(q - 1) : a = Region(<<"host_sq_buffer", j>>, m[j] + Q_DATA_BSIZE, Q_DATA_BSIZE)
    \/ a = Region(<<"result_buffer", 0>>, all, SPEED_RESULT_SIZE)
    \/ a = Region(<<"host_buffer", 0>>, all + SPEED_RESULT_SIZE, NVME_QUEUE_MEMORY_SIZE)

\* The queues' buffers follow each other, and what comes after them fits as well.
LEMMA HostMemoryLayout ==
    ASSUME NEW o \in OptionRecords, NEW c
    PROVE  \E q \in Nat, all \in Nat : \E m \in [0..q -> Nat] :
             /\ \A a \in HostRegions(o, c) :
                   IsRegion(a, o, q, m, all) /\ (a.name[1] = "host_buffer" => c[1] = "thd")
             /\ o.buffer_location = 1 =>
                   /\ m[q] = all
                   /\ \A j \in 0..(q - 1), k \in 0..q :
                         j < k => m[j] + buffers_per_queue(o) * Q_DATA_BSIZE <= m[k]
             /\ mmap_size(o, c) \in Int
             /\ all + SPEED_RESULT_SIZE + extra_host_buffer_size(c) <= mmap_size(o, c)
  <1>1. PICK q \in Nat : q = num_queues(o, c)
    BY OptionFacts DEF num_queues
  <1>2. /\ Q_DATA_BSIZE \in Nat \ {0} /\ SPEED_RESULT_SIZE \in Nat \ {0}
        /\ NVME_QUEUE_MEMORY_SIZE \in Nat \ {0} /\ CACHELINE \in Nat \ {0}
    BY HostAssumption
  <1>3. PICK b \in {1, 2} : b = buffers_per_queue(o)
    BY DEF buffers_per_queue
  <1>4. PICK p \in Nat : p = b * Q_DATA_BSIZE
    BY <1>2
  <1>5. PICK m : m = [j \in 0..q |-> j * b * Q_DATA_BSIZE]
    OBVIOUS
  <1>6. ASSUME NEW j \in 0..q PROVE m[j] = j * p /\ m[j] \in Nat
    <2>1. CASE b = 1
      BY <1>2, <1>4, <1>5, <2>1
    <2>2. CASE b = 2
      <3>1. m[j] = j * 2 * Q_DATA_BSIZE /\ p = 2 * Q_DATA_BSIZE
        BY <1>4, <1>5, <2>2
      <3>2. j * 2 * Q_DATA_BSIZE = j * (2 * Q_DATA_BSIZE) /\ j * (2 * Q_DATA_BSIZE) \in Nat
        BY <1>2
      <3> QED
        BY <3>1, <3>2
    <2> QED
      BY <2>1, <2>2
  <1>7. m \in [0..q -> Nat]
    BY <1>5, <1>6
  <1>8. PICK all : all = cursor(o, q)
    OBVIOUS
  <1>9. all \in Nat /\ (o.buffer_location = 1 => m[q] = all) /\ (o.buffer_location # 1 => all = 0)
    <2>1. q \in 0..q
      OBVIOUS
    <2> QED
      BY <1>3, <1>5, <1>6, <1>8, <2>1 DEF cursor
  <1>10. ASSUME NEW j \in 0..(q - 1), NEW k \in 0..q, j < k
         PROVE  m[j] + buffers_per_queue(o) * Q_DATA_BSIZE <= m[k]
    <2>1. PICK d \in Nat : k = j + 1 + d
      <3>1. k - j - 1 \in Nat /\ k = j + 1 + (k - j - 1)
        BY <1>10
      <3> QED
        BY <3>1, Zenon
    <2>2. k * p = j * p + p + d * p /\ d * p \in Nat /\ j * p \in Nat
      BY <2>1
    <2>3. m[j] = j * p /\ m[k] = k * p
      BY <1>6
    <2> QED
      BY <1>3, <1>4, <2>2, <2>3
  <1>11. \A a \in HostRegions(o, c) :
            IsRegion(a, o, q, m, all) /\ (a.name[1] = "host_buffer" => c[1] = "thd")
    <2> SUFFICES ASSUME NEW a \in HostRegions(o, c)
                 PROVE  IsRegion(a, o, q, m, all) /\ (a.name[1] = "host_buffer" => c[1] = "thd")
      OBVIOUS
    <2>1. ASSUME o.buffer_location = 1, NEW j \in 0..(q - 1) PROVE cursor(o, j) = m[j]
      BY <1>3, <1>5, <2>1 DEF cursor
    <2>2. \/ o.buffer_location = 1 /\ \E j \in 0..(q - 1) :
                a = Region(<<"host_rq_buffer", j>>, cursor(o, j), Q_DATA_BSIZE)
          \/ o.buffer_location = 1 /\ o.use_copy = 1 /\ \E j \in 0..(q - 1) :
                a = Region(<<"host_sq_buffer", j>>, cursor(o, j) + Q_DATA_BSIZE, Q_DATA_BSIZE)
          \/ a = Region(<<"result_buffer", 0>>, all, SPEED_RESULT_SIZE)
          \/ c[1] = "thd" /\ a = Region(<<"host_buffer", 0>>, all + SPEED_RESULT_SIZE, NVME_QUEUE_MEMORY_SIZE)
      BY <1>1, <1>8 DEF HostRegions
    <2>3. IsRegion(a, o, q, m, all)
      BY <2>1, <2>2 DEF IsRegion
    <2>4. a.name[1] = "host_buffer" => c[1] = "thd"
      BY <2>2 DEF Region
    <2> QED
      BY <2>3, <2>4
  <1>12. /\ mmap_size(o, c) \in Int
         /\ all + SPEED_RESULT_SIZE + extra_host_buffer_size(c) <= mmap_size(o, c)
    <2>1. queue_buffer_count(o, c) * Q_DATA_BSIZE = all
      BY <1>1, <1>2, <1>3, <1>8 DEF queue_buffer_count, cursor
    <2>2. PICK need \in Nat : need = all + SPEED_RESULT_SIZE + extra_host_buffer_size(c)
      <3>1. extra_host_buffer_size(c) \in Nat
        BY <1>2 DEF extra_host_buffer_size
      <3>2. all + SPEED_RESULT_SIZE + extra_host_buffer_size(c) \in Nat
        BY <1>2, <1>9, <3>1
      <3> QED
        BY <3>2, Zenon
    <2>3. mmap_size(o, c) = ((need + CACHELINE - 1) \div CACHELINE) * CACHELINE
      BY <2>1, <2>2 DEF mmap_size, align_to_cacheline
    <2>4. need <= ((need + CACHELINE - 1) \div CACHELINE) * CACHELINE
      BY <1>2, RoundedUp
    <2>5. ((need + CACHELINE - 1) \div CACHELINE) * CACHELINE \in Int
      BY <1>2
    <2> QED
      BY <2>2, <2>3, <2>4, <2>5
  <1> QED
    BY <1>7, <1>9, <1>10, <1>11, <1>12, Zenon

\* Wherever the data is, shared or not, for any number of queues and any sizes, the
\* buffers of a context lie inside its mapped memory and do not overlap.
THEOREM HostMemoryDisjoint == Spec => []HostBuffersDisjoint
  <1>1. ASSUME NEW o \in OptionRecords, NEW c, NEW a \in HostRegions(o, c)
        PROVE  /\ a.last < mmap_size(o, c)
               /\ \A e \in HostRegions(o, c) : a # e => a.last < e.first \/ e.last < a.first
    <2>1. PICK q \in Nat, all \in Nat : \E m \in [0..q -> Nat] :
             /\ \A r \in HostRegions(o, c) :
                   IsRegion(r, o, q, m, all) /\ (r.name[1] = "host_buffer" => c[1] = "thd")
             /\ o.buffer_location = 1 =>
                   /\ m[q] = all
                   /\ \A j \in 0..(q - 1), k \in 0..q :
                         j < k => m[j] + buffers_per_queue(o) * Q_DATA_BSIZE <= m[k]
             /\ mmap_size(o, c) \in Int
             /\ all + SPEED_RESULT_SIZE + extra_host_buffer_size(c) <= mmap_size(o, c)
      BY HostMemoryLayout
    <2>2. PICK m \in [0..q -> Nat] :
             /\ \A r \in HostRegions(o, c) :
                   IsRegion(r, o, q, m, all) /\ (r.name[1] = "host_buffer" => c[1] = "thd")
             /\ o.buffer_location = 1 =>
                   /\ m[q] = all
                   /\ \A j \in 0..(q - 1), k \in 0..q :
                         j < k => m[j] + buffers_per_queue(o) * Q_DATA_BSIZE <= m[k]
             /\ mmap_size(o, c) \in Int
             /\ all + SPEED_RESULT_SIZE + extra_host_buffer_size(c) <= mmap_size(o, c)
      BY <2>1
    <2>3. PICK p \in Nat : /\ p = buffers_per_queue(o) * Q_DATA_BSIZE /\ Q_DATA_BSIZE <= p
                           /\ o.use_copy = 1 => p = Q_DATA_BSIZE + Q_DATA_BSIZE
      BY HostAssumption, SMTT(30) DEF buffers_per_queue
    <2>4. /\ Q_DATA_BSIZE \in Nat \ {0} /\ SPEED_RESULT_SIZE \in Nat \ {0}
          /\ NVME_QUEUE_MEMORY_SIZE \in Nat \ {0} /\ extra_host_buffer_size(c) \in Nat
      BY HostAssumption DEF extra_host_buffer_size
    <2>5. ASSUME o.buffer_location = 1
          PROVE  /\ \A j \in 0..(q - 1) : m[j] \in Nat /\ m[j] + p <= all
                 /\ \A j, k \in 0..(q - 1) : j < k => m[j] + p <= m[k]
      <3>1. q \in 0..q /\ \A j \in 0..(q - 1) : j \in 0..q /\ j < q
        OBVIOUS
      <3> QED
        BY <2>2, <2>3, <2>5, <3>1
    <2>6. IsRegion(a, o, q, m, all) /\ (a.name[1] = "host_buffer" => c[1] = "thd")
      BY <2>2
    <2>7. a.last < mmap_size(o, c)
      <3>1. mmap_size(o, c) \in Int /\ all + SPEED_RESULT_SIZE + extra_host_buffer_size(c) <= mmap_size(o, c)
        BY <2>2
      <3>2. ASSUME o.buffer_location = 1, NEW j \in 0..(q - 1),
                   a = Region(<<"host_rq_buffer", j>>, m[j], Q_DATA_BSIZE)
            PROVE  a.last < all
        BY <2>3, <2>4, <2>5, <3>2 DEF Region
      <3>3. ASSUME o.buffer_location = 1, o.use_copy = 1, NEW j \in 0..(q - 1),
                   a = Region(<<"host_sq_buffer", j>>, m[j] + Q_DATA_BSIZE, Q_DATA_BSIZE)
            PROVE  a.last < all
        BY <2>3, <2>4, <2>5, <3>3 DEF Region
      <3>4. ASSUME a = Region(<<"result_buffer", 0>>, all, SPEED_RESULT_SIZE)
            PROVE  a.last < all + SPEED_RESULT_SIZE
        BY <2>4, <3>4 DEF Region
      <3>5. ASSUME a = Region(<<"host_buffer", 0>>, all + SPEED_RESULT_SIZE, NVME_QUEUE_MEMORY_SIZE)
            PROVE  a.last < all + SPEED_RESULT_SIZE + extra_host_buffer_size(c)
        BY <2>4, <2>6, <3>5 DEF Region, extra_host_buffer_size
      <3>6. a.last \in Int
        BY <2>2, <2>4, <2>6, SMTT(30) DEF IsRegion, Region
      <3>7. a.last < all + SPEED_RESULT_SIZE + extra_host_buffer_size(c)
        <4>1. \/ a.last < all \/ a.last < all + SPEED_RESULT_SIZE
              \/ a.last < all + SPEED_RESULT_SIZE + extra_host_buffer_size(c)
          BY <2>6, <3>2, <3>3, <3>4, <3>5, Zenon DEF IsRegion
        <4> QED
          BY <2>4, <3>6, <4>1
      <3> QED
        BY <2>4, <3>1, <3>6, <3>7
    <2>8. ASSUME NEW e \in HostRegions(o, c), a # e
          PROVE  a.last < e.first \/ e.last < a.first
      <3>1. IsRegion(e, o, q, m, all)
        BY <2>2
      <3> DEFINE rq(j) == Region(<<"host_rq_buffer", j>>, m[j], Q_DATA_BSIZE)
                 sq(j) == Region(<<"host_sq_buffer", j>>, m[j] + Q_DATA_BSIZE, Q_DATA_BSIZE)
                 result == Region(<<"result_buffer", 0>>, all, SPEED_RESULT_SIZE)
                 nvme == Region(<<"host_buffer", 0>>, all + SPEED_RESULT_SIZE, NVME_QUEUE_MEMORY_SIZE)
                 Apart(x, y) == x.last < y.first \/ y.last < x.first
      <3>2. Apart(result, nvme)
        BY <2>4 DEF Region
      <3>3. ASSUME o.buffer_location = 1, NEW j \in 0..(q - 1)
            PROVE  /\ Apart(rq(j), result) /\ Apart(rq(j), nvme)
                   /\ o.use_copy = 1 => Apart(sq(j), result) /\ Apart(sq(j), nvme) /\ Apart(rq(j), sq(j))
        <4>1. m[j] \in Nat /\ m[j] + p <= all
          BY <2>5, <3>3
        <4>2. Apart(rq(j), result) /\ Apart(rq(j), nvme)
          BY <2>3, <2>4, <4>1, SMTT(60) DEF Region
        <4>3. ASSUME o.use_copy = 1
              PROVE  Apart(sq(j), result) /\ Apart(sq(j), nvme)
          BY <2>3, <2>4, <4>1, <4>3, SMTT(30) DEF Region
        <4>4. Apart(rq(j), sq(j))
          BY <2>4, <4>1 DEF Region
        <4> QED
          BY <4>2, <4>3, <4>4
      <3>4. ASSUME o.buffer_location = 1, NEW j \in 0..(q - 1), NEW k \in 0..(q - 1), j # k
            PROVE  /\ Apart(rq(j), rq(k))
                   /\ o.use_copy = 1 => Apart(sq(j), sq(k)) /\ Apart(rq(j), sq(k))
        <4>1. m[j] \in Nat /\ m[k] \in Nat /\ (m[j] + p <= m[k] \/ m[k] + p <= m[j])
          BY <2>5, <3>4
        <4>2. PICK x \in Nat : x = m[j]
          BY <4>1
        <4>3. PICK y \in Nat : y = m[k]
          BY <4>1
        <4>4. PICK d \in Nat : d = Q_DATA_BSIZE /\ d >= 1
          BY <2>4
        <4>5. d <= p /\ (o.use_copy = 1 => p = d + d) /\ (x + p <= y \/ y + p <= x)
          BY <2>3, <4>1, <4>2, <4>3, <4>4
        <4>6. /\ rq(j).first = x /\ rq(j).last = x + d - 1 /\ rq(k).first = y /\ rq(k).last = y + d - 1
              /\ sq(j).first = x + d /\ sq(j).last = x + d + d - 1
              /\ sq(k).first = y + d /\ sq(k).last = y + d + d - 1
          BY <4>2, <4>3, <4>4 DEF Region
        <4> HIDE DEF rq, sq
        <4>7. Apart(rq(j), rq(k))
          BY <4>4, <4>5, <4>6
        <4>8. ASSUME o.use_copy = 1 PROVE Apart(sq(j), sq(k)) /\ Apart(rq(j), sq(k))
          BY <4>4, <4>5, <4>6, <4>8, SMTT(60)
        <4> QED
          BY <4>7, <4>8
      <3> HIDE DEF rq, sq, result, nvme
      <3>5. \/ o.buffer_location = 1 /\ \E j \in 0..(q - 1) : a = rq(j)
            \/ o.buffer_location = 1 /\ o.use_copy = 1 /\ \E j \in 0..(q - 1) : a = sq(j)
            \/ a = result
            \/ a = nvme
        BY <2>6 DEF IsRegion, rq, sq, result, nvme
      <3>6. \/ o.buffer_location = 1 /\ \E j \in 0..(q - 1) : e = rq(j)
            \/ o.buffer_location = 1 /\ o.use_copy = 1 /\ \E j \in 0..(q - 1) : e = sq(j)
            \/ e = result
            \/ e = nvme
        BY <3>1 DEF IsRegion, rq, sq, result, nvme
      <3> HIDE DEF Apart
      <3>7. \A x, y : Apart(x, y) => Apart(y, x)
        BY DEF Apart
      <3>8. ASSUME o.buffer_location = 1, NEW j \in 0..(q - 1), a = rq(j) PROVE Apart(a, e)
        BY <2>8, <3>3, <3>4, <3>6, <3>7, <3>8
      <3>9. ASSUME o.buffer_location = 1, o.use_copy = 1, NEW j \in 0..(q - 1), a = sq(j) PROVE Apart(a, e)
        BY <2>8, <3>3, <3>4, <3>6, <3>7, <3>9
      <3>10. ASSUME a = result PROVE Apart(a, e)
        BY <2>8, <3>2, <3>3, <3>6, <3>7, <3>10
      <3>11. ASSUME a = nvme PROVE Apart(a, e)
        BY <2>8, <3>2, <3>3, <3>6, <3>7, <3>11
      <3>12. Apart(a, e)
        BY <3>5, <3>8, <3>9, <3>10, <3>11
      <3> QED
        BY <3>12 DEF Apart
    <2> QED
      BY <2>7, <2>8
  <1>2. HostInv => HostBuffersDisjoint
    <2> SUFFICES ASSUME HostInv PROVE HostBuffersDisjoint
      OBVIOUS
    <2>1. options \in OptionRecords
      BY HostAssumption DEF HostInv
    <2> QED
      BY <1>1, <2>1 DEF HostBuffersDisjoint
  <1> QED
    BY <1>2, HostInvariance, PTL


-----------------------------------------------------------------------------
(***************************************************************************)
(* How far the start-up has come.  With n the next call, lv the resources, *)
(* D the fields that are set and run the handlers that have been run:      *)
(* contexts are complete as far as their calls have been made, the calls   *)
(* that copy data and run handlers have had their effect, and a handler    *)
(* runs only after the call for it.                                        *)
(***************************************************************************)
ContextsMade(o, n, D) ==
    \A c \in ContextsOf(o) : \A b :
        Block(StartUp(o), CreateContext(o, c), b) =>
            /\ b + 2 < n => HostReady(o, c, D)
            /\ b + 3 < n => RqReady(o, c, D)
            /\ b + 4 < n => SqReady(o, c, D)

DataMade(o, n, lv) ==
    \A x \in 1..(n - 1) : \A f : StartUp(o)[x] = Call("err", <<Make(f)>>) => f \in lv

HandlersRun(o, n, run) ==
    /\ \A x \in 1..(n - 1) : \A c \in ContextsOf(o) : StartUp(o)[x] = Call("err", <<Run(c)>>) => c \in run
    /\ \A c \in run : \E x \in 1..(n - 1) : x <= Len(StartUp(o)) /\ StartUp(o)[x] = Call("err", <<Run(c)>>)

StartInv ==
    /\ phase = "args" => at = 1 /\ running = {}
    /\ phase = "build" => /\ ContextsMade(options, at, DOMAIN ptr)
                          /\ DataMade(options, at, live)
                          /\ HandlersRun(options, at, running)

\* What is ready stays so while fields are added.
LEMMA ReadyGrows ==
    ASSUME NEW o, NEW c, NEW D, NEW E, D \subseteq E
    PROVE  /\ HostReady(o, c, D) => HostReady(o, c, E)
           /\ RqReady(o, c, D) => RqReady(o, c, E)
           /\ SqReady(o, c, D) => SqReady(o, c, E)
  BY DEF HostReady, RqReady, SqReady

\* The calls in the block that creates a context.
LEMMA BlockCalls ==
    ASSUME NEW o, NEW c, NEW b, Block(StartUp(o), CreateContext(o, c), b)
    PROVE  /\ b \in Nat
           /\ StartUp(o)[b + 2] = Call("err", alloc_context_host_memory(o, c))
           /\ StartUp(o)[b + 3] = Call("err", create_app_rq(o, c))
           /\ StartUp(o)[b + 4] = Call("err", create_app_sq(o, c))
  <1>1. Len(CreateContext(o, c)) = 4
    BY DEF CreateContext
  <1>2. /\ CreateContext(o, c)[2] = Call("err", alloc_context_host_memory(o, c))
        /\ CreateContext(o, c)[3] = Call("err", create_app_rq(o, c))
        /\ CreateContext(o, c)[4] = Call("err", create_app_sq(o, c))
    BY DEF CreateContext
  <1>3. 2 \in 1..4 /\ 3 \in 1..4 /\ 4 \in 1..4
    OBVIOUS
  <1> QED
    BY <1>1, <1>2, <1>3 DEF Block

\* A call that runs a handler runs no other.
LEMMA RunPerformed ==
    ASSUME NEW o, InBounds(o, Present), PointsToLive(o, Present),
           NEW c \in ContextsOf(o), call = Call("err", <<Run(c)>>)
    PROVE  AfterSteps(Len(call.steps)).running = running \cup {c}
  <1>1. call.steps = <<Run(c)>> /\ Len(<<Run(c)>>) = 1 /\ <<Run(c)>>[1] = Run(c)
    BY DEF Call
  <1>2. call.steps \in Seq(Steps(o))
    <2>1. Run(c) \in Steps(o)
      BY DEF Steps
    <2>2. <<Run(c)>> \in Seq(Steps(o))
      BY <2>1
    <2> QED
      BY <1>1, <2>2, Zenon
  <1>3. 1 \in 0..Len(call.steps)
    BY <1>1
  <1>4. PICK g : Progress(o, g, 1)
    BY <1>2, <1>3, AfterStepsProgress
  <1>5. AfterSteps(1) = g[1] /\ g[0] = Present /\ g[1] = Do(g[0], Run(c))
    <2>1. 1 \in 1..1 /\ 1 - 1 = 0
      OBVIOUS
    <2> QED
      BY <1>1, <1>4, <2>1 DEF Progress
  <1>6. Run(c).do = "run" /\ Owner(Run(c).field) = c
    BY DEF Run, Owner, Of, ContextsOf, SchContexts, ThdContexts
  <1>7. Do(Present, Run(c)).running = running \cup {c}
    BY <1>6 DEF Do, Present
  <1> QED
    BY <1>1, <1>5, <1>7

\* A call that succeeds keeps the start-up on its way,
LEMMA SucceedStartInv ==
    ASSUME HostInv, StartInv, CallSucceeds
    PROVE  StartInv'
  <1>0. Building /\ phase = "build" /\ phase' = "build" /\ options' = options /\ at' = at + 1
    BY DEF CallSucceeds, Building
  <1>1. PICK o : o = options
    OBVIOUS
  <1>2. /\ o \in OptionRecords /\ at \in 1..Len(StartUp(o)) /\ call = StartUp(o)[at]
        /\ call \in Calls(o) /\ call.steps \in Seq(Steps(o)) /\ at \in Nat
    <2>1. at \in Nat
      BY DEF HostInv
    <2> QED
      BY <1>0, <1>1, <2>1, CallInRange
  <1>3. InBounds(o, Present) /\ PointsToLive(o, Present)
    BY <1>0, <1>1 DEF HostInv
  <1>4. PICK st : st = AfterSteps(Len(call.steps))
    OBVIOUS
  <1>5. live' = st.live /\ ptr' = st.ptr /\ running' = st.running
    BY <1>4 DEF CallSucceeds, Become
  <1>6. live \subseteq st.live /\ DOMAIN ptr \subseteq DOMAIN st.ptr /\ running \subseteq st.running
    <2>1. Len(call.steps) \in 0..Len(call.steps)
      BY <1>2
    <2>2. Grows(Present, st)
      BY <1>2, <1>3, <1>4, <2>1, AfterStepsInBounds
    <2> QED
      BY <2>2 DEF Grows, Present
  <1>7. /\ ContextsMade(o, at, DOMAIN ptr) /\ DataMade(o, at, live) /\ HandlersRun(o, at, running)
    BY <1>0, <1>1 DEF StartInv
  <1>8. ContextsMade(o, at + 1, DOMAIN st.ptr)
    <2> SUFFICES ASSUME NEW c \in ContextsOf(o), NEW b, Block(StartUp(o), CreateContext(o, c), b)
                 PROVE  /\ b + 2 < at + 1 => HostReady(o, c, DOMAIN st.ptr)
                        /\ b + 3 < at + 1 => RqReady(o, c, DOMAIN st.ptr)
                        /\ b + 4 < at + 1 => SqReady(o, c, DOMAIN st.ptr)
      BY DEF ContextsMade
    <2>1. /\ b + 2 < at => HostReady(o, c, DOMAIN ptr)
          /\ b + 3 < at => RqReady(o, c, DOMAIN ptr)
          /\ b + 4 < at => SqReady(o, c, DOMAIN ptr)
      BY <1>7 DEF ContextsMade
    <2>2. /\ b \in Nat
          /\ at = b + 2 => call.steps = alloc_context_host_memory(o, c)
          /\ at = b + 3 => call.steps = create_app_rq(o, c)
          /\ at = b + 4 => call.steps = create_app_sq(o, c)
      <3>1. \A s : Call("err", s).steps = s
        BY DEF Call
      <3>2. /\ b \in Nat
            /\ at = b + 2 => call = Call("err", alloc_context_host_memory(o, c))
            /\ at = b + 3 => call = Call("err", create_app_rq(o, c))
            /\ at = b + 4 => call = Call("err", create_app_sq(o, c))
        BY <1>2, BlockCalls
      <3> QED
        BY <3>1, <3>2
    <2>3. ASSUME at = b + 2 PROVE HostReady(o, c, DOMAIN st.ptr)
      BY <1>2, <1>3, <1>4, <2>2, <2>3, HostMemoryReady
    <2>4. ASSUME at = b + 3 PROVE RqReady(o, c, DOMAIN st.ptr)
      <3>1. HostReady(o, c, DOMAIN ptr)
        BY <2>1, <2>2, <2>4
      <3> QED
        BY <1>2, <1>3, <1>4, <2>2, <2>4, <3>1, QueuesReady
    <2>5. ASSUME at = b + 4 PROVE SqReady(o, c, DOMAIN st.ptr)
      <3>1. HostReady(o, c, DOMAIN ptr) /\ RqReady(o, c, DOMAIN ptr)
        BY <2>1, <2>2, <2>5
      <3> QED
        BY <1>2, <1>3, <1>4, <2>2, <2>5, <3>1, QueuesReady
    <2>6. \A k \in {2, 3, 4} : b + k < at + 1 => b + k < at \/ at = b + k
      BY <1>2, <2>2
    <2> QED
      BY <1>6, <2>1, <2>3, <2>4, <2>5, <2>6, ReadyGrows
  <1>9. /\ \A f : Has(call.steps, Make(f)) => f \in st.live
        /\ \A c \in ContextsOf(o) : Has(call.steps, Run(c)) => c \in st.running
    BY <1>2, <1>3, <1>4, CallPerformed
  <1>10. \A x \in 1..((at + 1) - 1) : x \in 1..(at - 1) \/ x = at
    BY <1>2
  <1>11. DataMade(o, at + 1, st.live)
    <2>1. ASSUME NEW f, call = Call("err", <<Make(f)>>) PROVE f \in st.live
      <3>1. Has(call.steps, Make(f))
        BY <2>1 DEF Call, Has
      <3> QED
        BY <1>9, <3>1
    <2> QED
      BY <1>2, <1>6, <1>7, <1>10, <2>1 DEF DataMade
  <1>12. HandlersRun(o, at + 1, st.running)
    <2>1. ASSUME NEW c \in ContextsOf(o), call = Call("err", <<Run(c)>>) PROVE c \in st.running
      <3>1. Has(call.steps, Run(c))
        BY <2>1 DEF Call, Has
      <3> QED
        BY <1>9, <3>1
    <2>2. \A x \in 1..((at + 1) - 1) : \A c \in ContextsOf(o) :
              StartUp(o)[x] = Call("err", <<Run(c)>>) => c \in st.running
      BY <1>2, <1>6, <1>7, <1>10, <2>1 DEF HandlersRun
    <2>3. \A x \in 1..(at - 1) : x \in 1..((at + 1) - 1)
      BY <1>2
    <2>4. at \in 1..((at + 1) - 1) /\ at <= Len(StartUp(o))
      BY <1>2
    <2>5. ASSUME NEW c \in st.running
          PROVE  \E x \in 1..((at + 1) - 1) : x <= Len(StartUp(o)) /\ StartUp(o)[x] = Call("err", <<Run(c)>>)
      <3>1. CASE c \in running
        BY <1>7, <2>3, <3>1 DEF HandlersRun
      <3>2. CASE c \notin running
        <4>1. call \notin MakingCalls(o)
          <5> SUFFICES ASSUME call \in MakingCalls(o) PROVE FALSE
            OBVIOUS
          <5>1. call.steps \in Seq(MakingSteps(o)) /\ Len(call.steps) \in 0..Len(call.steps)
            BY <1>2 DEF MakingCalls
          <5>2. st.running = running
            BY <1>3, <1>4, <5>1, MakingRunsNothing
          <5> QED
            BY <3>2, <5>2
        <4>2. PICK d \in ContextsOf(o) : call = Call("err", <<Run(d)>>)
          BY <1>2, <4>1 DEF Calls
        <4>3. st.running = running \cup {d}
          BY <1>3, <1>4, <4>2, RunPerformed
        <4>4. c = d
          BY <3>2, <4>3
        <4> QED
          BY <1>2, <2>4, <4>2, <4>4
      <3> QED
        BY <3>1, <3>2
    <2> QED
      BY <2>2, <2>5 DEF HandlersRun
  <1> QED
    BY <1>0, <1>1, <1>5, <1>8, <1>11, <1>12 DEF StartInv

\* one whose failure main does not look at belongs neither to a context nor to a
\* handler,
LEMMA IgnoredStartInv ==
    ASSUME HostInv, StartInv, FailIgnored
    PROVE  StartInv'
  <1>0. Building /\ phase = "build" /\ phase' = "build" /\ options' = options /\ at' = at + 1
    BY DEF FailIgnored, Building
  <1>1. PICK o : o = options
    OBVIOUS
  <1>2. /\ o \in OptionRecords /\ at \in 1..Len(StartUp(o)) /\ call = StartUp(o)[at]
        /\ call \in Calls(o) /\ call.steps \in Seq(Steps(o)) /\ at \in Nat
    <2>1. at \in Nat
      BY DEF HostInv
    <2> QED
      BY <1>0, <1>1, <2>1, CallInRange
  <1>3. InBounds(o, Present) /\ PointsToLive(o, Present)
    BY <1>0, <1>1 DEF HostInv
  <1>4. PICK k \in DOMAIN call.steps : FailAt(k)
    BY DEF FailIgnored
  <1>5. PICK n \in 0..Len(call.steps) : n = IF call.undo THEN 0 ELSE k - 1
    BY <1>2
  <1>6. PICK st : st = AfterSteps(n)
    OBVIOUS
  <1>7. live' = st.live /\ ptr' = st.ptr /\ running' = st.running
    BY <1>4, <1>5, <1>6 DEF FailAt, Become
  <1>8. live \subseteq st.live /\ DOMAIN ptr \subseteq DOMAIN st.ptr
    <2>1. Grows(Present, st)
      BY <1>2, <1>3, <1>5, <1>6, AfterStepsInBounds
    <2> QED
      BY <2>1 DEF Grows, Present
  <1>9. \A s : call # Call("err", s)
    BY DEF FailIgnored, Call
  <1>10. st.running = running
    <2>1. call \in MakingCalls(o)
      BY <1>2, <1>9 DEF Calls
    <2>2. call.steps \in Seq(MakingSteps(o))
      BY <2>1 DEF MakingCalls
    <2> QED
      BY <1>3, <1>5, <1>6, <2>2, MakingRunsNothing
  <1>11. /\ ContextsMade(o, at, DOMAIN ptr) /\ DataMade(o, at, live) /\ HandlersRun(o, at, running)
    BY <1>0, <1>1 DEF StartInv
  <1>12. ContextsMade(o, at + 1, DOMAIN st.ptr)
    <2> SUFFICES ASSUME NEW c \in ContextsOf(o), NEW b, Block(StartUp(o), CreateContext(o, c), b)
                 PROVE  /\ b + 2 < at + 1 => HostReady(o, c, DOMAIN st.ptr)
                        /\ b + 3 < at + 1 => RqReady(o, c, DOMAIN st.ptr)
                        /\ b + 4 < at + 1 => SqReady(o, c, DOMAIN st.ptr)
      BY DEF ContextsMade
    <2>1. /\ b + 2 < at => HostReady(o, c, DOMAIN ptr)
          /\ b + 3 < at => RqReady(o, c, DOMAIN ptr)
          /\ b + 4 < at => SqReady(o, c, DOMAIN ptr)
      BY <1>11 DEF ContextsMade
    <2>2. b \in Nat /\ at # b + 2 /\ at # b + 3 /\ at # b + 4
      BY <1>2, <1>9, BlockCalls
    <2>3. \A m \in {2, 3, 4} : b + m < at + 1 => b + m < at \/ at = b + m
      BY <1>2, <2>2
    <2> QED
      BY <1>8, <2>1, <2>2, <2>3, ReadyGrows
  <1>13. \A x \in 1..((at + 1) - 1) : x \in 1..(at - 1) \/ x = at
    BY <1>2
  <1>14. DataMade(o, at + 1, st.live)
    BY <1>2, <1>8, <1>9, <1>11, <1>13 DEF DataMade
  <1>15. HandlersRun(o, at + 1, st.running)
    <2>1. \A x \in 1..(at - 1) : x \in 1..((at + 1) - 1)
      BY <1>2
    <2>2. \A x \in 1..((at + 1) - 1) : \A c \in ContextsOf(o) :
              StartUp(o)[x] = Call("err", <<Run(c)>>) => c \in st.running
      BY <1>2, <1>9, <1>10, <1>11, <1>13 DEF HandlersRun
    <2>3. \A c \in st.running : \E x \in 1..((at + 1) - 1) :
              x <= Len(StartUp(o)) /\ StartUp(o)[x] = Call("err", <<Run(c)>>)
      BY <1>10, <1>11, <2>1 DEF HandlersRun
    <2> QED
      BY <2>2, <2>3 DEF HandlersRun
  <1> QED
    BY <1>0, <1>1, <1>7, <1>12, <1>14, <1>15 DEF StartInv

\* and the other steps begin or end the start-up.
LEMMA OtherStartInv ==
    ASSUME HostInv, StartInv,
           \/ Refuse \/ Accept \/ FailAndQuit \/ FailWithError \/ FailSilently \/ Crash
           \/ KeyPressed \/ Release \/ Return \/ UNCHANGED vars
    PROVE  StartInv'
  <1>1. CASE Accept
    <2>1. at' = 1 /\ running' = {} /\ phase' = "build" /\ ptr' = ptr /\ live' = live /\ options' = options
      BY <1>1 DEF Accept, StartInv
    <2>2. ContextsMade(options', 1, DOMAIN ptr')
      BY BlockCalls DEF ContextsMade
    <2>3. DataMade(options', 1, live') /\ HandlersRun(options', 1, {})
      BY DEF DataMade, HandlersRun
    <2> QED
      BY <2>1, <2>2, <2>3 DEF StartInv
  <1>2. CASE UNCHANGED vars
    BY <1>2 DEF StartInv, vars
  <1>3. CASE \/ Refuse \/ FailAndQuit \/ FailWithError \/ FailSilently \/ Crash
             \/ KeyPressed \/ Release \/ Return
    <2>1. phase' \notin {"args", "build"}
      BY <1>3 DEF Refuse, FailAndQuit, FailWithError, FailSilently, Crash, KeyPressed,
                  Release, Cleaning, Return
    <2> QED
      BY <2>1 DEF StartInv
  <1> QED
    BY <1>1, <1>2, <1>3

\* So it always holds.
LEMMA StartInvariance == Spec => []StartInv
  <1>1. Init => StartInv
    BY DEF Init, StartInv
  <1>2. HostInv /\ StartInv /\ [Next]_vars => StartInv'
    <2> SUFFICES ASSUME HostInv, StartInv, [Next]_vars PROVE StartInv'
      OBVIOUS
    <2> QED
      BY SucceedStartInv, IgnoredStartInv, OtherStartInv, Zenon DEF Next
  <1> QED
    BY <1>1, <1>2, HostInvariance, PTL DEF Spec

\* Whatever the command line says and whichever calls fail, main runs a handler only
\* when the rings, buffers and queues that the handler's data names exist and the
\* data itself has been copied, and a worker only when every scheduler runs: the
\* receive data may lie on the device or on the host, and the send side may share
\* it, use memory of its own or the mapped one.
THEOREM HandlersStartWhenComplete == Spec => []HandlersStartComplete
  <1>1. HostInv /\ StartInv => HandlersStartComplete
    <2> SUFFICES ASSUME HostInv, StartInv, phase = "build", NEW c \in running
                 PROVE  /\ Of(c, "app_data_daddr") \in live
                        /\ \A j \in 0..(num_queues(options, c) - 1), n \in TransferFields :
                              IsSet(OfQueue(c, j, n)) /\ ptr[OfQueue(c, j, n)] \in live
                        /\ c[1] = "thd" => Range(SchCtx(options)) \subseteq running
      BY DEF HandlersStartComplete
    <2>1. PICK o \in OptionRecords : o = options
      BY HostAssumption DEF HostInv
    <2>2. /\ ContextsMade(o, at, DOMAIN ptr) /\ DataMade(o, at, live) /\ HandlersRun(o, at, running)
          /\ at \in Nat /\ InBounds(o, Present) /\ PointsToLive(o, Present)
      BY <2>1 DEF StartInv, HostInv
    <2>3. c \in ContextsOf(o)
      BY <2>2 DEF InBounds, Present
    <2>4. PICK x \in 1..(at - 1) : x <= Len(StartUp(o)) /\ StartUp(o)[x] = Call("err", <<Run(c)>>)
      BY <2>2 DEF HandlersRun
    <2>5. x \in 1..Len(StartUp(o)) /\ x < at /\ \A y \in 1..(x - 1) : y \in 1..(at - 1)
      <3>1. Len(StartUp(o)) \in Nat
        BY StartUpCalls
      <3> QED
        BY <2>2, <2>4, <3>1
    <2>6. /\ Prepared(o, StartUp(o), x, c)
          /\ c \in ThdContexts(o) =>
                 \A d \in SchContexts(o) : \E y \in 1..(x - 1) : StartUp(o)[y] = Call("err", <<Run(d)>>)
      BY <2>3, <2>4, <2>5, StartUpOrder
    <2>7. Of(c, "app_data_daddr") \in live
      BY <2>2, <2>5, <2>6 DEF Prepared, DataMade
    <2>8. RqReady(o, c, DOMAIN ptr) /\ SqReady(o, c, DOMAIN ptr)
      <3>1. PICK b : Block(StartUp(o), CreateContext(o, c), b) /\ b + 4 < x
        BY <2>6 DEF Prepared
      <3>2. b \in Nat
        BY <3>1, BlockCalls
      <3>3. b + 3 < at /\ b + 4 < at
        BY <2>2, <2>5, <3>1, <3>2
      <3> QED
        BY <2>2, <2>3, <3>1, <3>3 DEF ContextsMade
    <2>9. ASSUME NEW j \in 0..(num_queues(options, c) - 1), NEW n \in TransferFields
          PROVE  IsSet(OfQueue(c, j, n)) /\ ptr[OfQueue(c, j, n)] \in live
      <3>1. j \in QueuesOf(o, c)
        BY <2>1 DEF QueuesOf
      <3>2. n \in RqFields \/ n \in SqFields
        BY DEF TransferFields, RqFields, SqFields
      <3>3. OfQueue(c, j, n) \in DOMAIN ptr
        BY <2>8, <3>1, <3>2 DEF RqReady, SqReady
      <3>4. OfQueue(c, j, n) \in DataFields(o)
        <4>1. n \in QueueNames
          BY DEF TransferFields, QueueNames
        <4> QED
          BY <2>3, <3>1, <4>1, FieldsOfContexts
      <3>5. ptr[OfQueue(c, j, n)] \in live
        BY <2>2, <3>3, <3>4 DEF PointsToLive, Present
      <3> QED
        BY <3>3, <3>5 DEF IsSet
    <2>10. ASSUME c[1] = "thd" PROVE Range(SchCtx(options)) \subseteq running
      <3>1. c \in ThdContexts(o)
        BY <2>3, <2>10 DEF ContextsOf, SchContexts
      <3>2. ASSUME NEW d \in SchContexts(o) PROVE d \in running
        <4>1. PICK y \in 1..(x - 1) : StartUp(o)[y] = Call("err", <<Run(d)>>)
          BY <2>6, <3>1
        <4>2. d \in ContextsOf(o) /\ y \in 1..(at - 1)
          BY <2>5 DEF ContextsOf
        <4> QED
          BY <2>2, <4>1, <4>2 DEF HandlersRun
      <3> QED
        BY <2>1, <3>2, ContextsAgree
    <2> QED
      BY <2>7, <2>9, <2>10
  <1> QED
    BY <1>1, HostInvariance, StartInvariance, PTL

-----------------------------------------------------------------------------
(***************************************************************************)
(* The calls of main, one by one.                                          *)
(***************************************************************************)
\* What holds of the empty sequence and is kept by concatenation holds of a sequence
\* put together from sequences of which it holds.
LEMMA FlattenSeqClosed ==
    ASSUME NEW S, NEW G \in SUBSET Seq(S), <<>> \in G, \A a, b \in G : a \o b \in G,
           NEW n \in Nat, NEW f \in [1..n -> G]
    PROVE  FlattenSeq(f) \in G
  <1>0. f \in Seq(Seq(S)) /\ Len(f) = n
    <2>1. f \in [1..n -> Seq(S)]
      OBVIOUS
    <2> QED
      BY <2>1, FunctionIsSeq
  <1>1. CASE n = 0
    <2>1. f = <<>>
      BY <1>0, <1>1
    <2> QED
      BY <1>0, <1>1, <2>1 DEF FlattenSeq
  <1>2. CASE n # 0
    <2>1. PICK g : /\ FlattenSeq(f) = g[n]
                   /\ \A i \in 1..n :
                         g[i] \in Seq(S) /\ g[i] = IF i = 1 THEN f[i] ELSE g[i - 1] \o f[i]
      <3>1. PICK seqs \in Seq(Seq(S)) : seqs = f
        BY <1>0, Zenon
      <3>2. Len(seqs) # 0
        BY <1>0, <1>2, <3>1
      <3>3. PICK h : /\ FlattenSeq(seqs) = h[Len(seqs)]
                     /\ \A i \in 1..Len(seqs) :
                           h[i] \in Seq(S) /\ h[i] = IF i = 1 THEN seqs[i] ELSE h[i - 1] \o seqs[i]
        BY <3>2, FlattenSeqIs
      <3> QED
        BY <1>0, <3>1, <3>3, Zenon
    <2> DEFINE K == {k \in Nat : k + 1 <= n => g[k + 1] \in G}
    <2>2. 0 \in K
      <3>1. 1 \in 1..n /\ 0 + 1 = 1
        BY <1>2
      <3>2. g[1] = f[1] /\ f[1] \in G
        BY <2>1, <3>1
      <3> QED
        BY <3>1, <3>2
    <2>3. ASSUME NEW k \in K PROVE k + 1 \in K
      <3> SUFFICES ASSUME (k + 1) + 1 <= n PROVE g[(k + 1) + 1] \in G
        OBVIOUS
      <3>1. /\ g[k + 1] \in G /\ k \in Nat
            /\ (k + 1) + 1 \in 1..n /\ ((k + 1) + 1) - 1 = k + 1 /\ (k + 1) + 1 # 1
        OBVIOUS
      <3>2. g[(k + 1) + 1] = g[k + 1] \o f[(k + 1) + 1] /\ f[(k + 1) + 1] \in G
        BY <2>1, <3>1, Zenon
      <3> QED
        BY <3>1, <3>2, Zenon
    <2>4. K = Nat
      <3> HIDE DEF K
      <3>1. K \in SUBSET Nat
        BY DEF K
      <3> QED
        BY <2>2, <2>3, <3>1, SetInduction
    <2>5. n - 1 \in Nat /\ (n - 1) + 1 = n
      BY <1>2
    <2>6. n - 1 \in K
      BY <2>4, <2>5, Zenon
    <2> QED
      BY <2>1, <2>5, <2>6
  <1> QED
    BY <1>1, <1>2

\* Where the elements of a concatenation come from.
LEMMA ConcatElements ==
    ASSUME NEW S, NEW s1 \in Seq(S), NEW s2 \in Seq(S), NEW s, s = s1 \o s2
    PROVE  /\ s \in Seq(S) /\ Len(s) = Len(s1) + Len(s2)
           /\ \A x \in 1..Len(s1) : x \in 1..Len(s) /\ s[x] = s1[x]
           /\ \A x \in 1..Len(s2) : Len(s1) + x \in 1..Len(s) /\ s[Len(s1) + x] = s2[x]
           /\ \A x \in 1..Len(s) : \/ x \in 1..Len(s1) /\ s[x] = s1[x]
                                   \/ \E y \in 1..Len(s2) : x = Len(s1) + y /\ s[x] = s2[y]
  <1>1. s \in Seq(S) /\ Len(s) = Len(s1) + Len(s2) /\ Len(s1) \in Nat /\ Len(s2) \in Nat
    OBVIOUS
  <1>2. \A x \in 1..Len(s1) : x \in 1..Len(s) /\ s[x] = s1[x]
    OBVIOUS
  <1>3. \A x \in 1..Len(s2) : Len(s1) + x \in 1..Len(s) /\ s[Len(s1) + x] = s2[x]
    OBVIOUS
  <1>4. ASSUME NEW x \in 1..Len(s), ~(x \in 1..Len(s1))
        PROVE  \E y \in 1..Len(s2) : x = Len(s1) + y /\ s[x] = s2[y]
    <2>1. x - Len(s1) \in 1..Len(s2) /\ x = Len(s1) + (x - Len(s1))
      BY <1>1, <1>4
    <2> QED
      BY <1>3, <2>1
  <1> QED
    BY <1>1, <1>2, <1>3, <1>4

CreateHandler(c) == Call("silent", <<Make(Of(c, "event_handler"))>>)
CopyData(c) == Call("err", <<Make(Of(c, "app_data_daddr"))>>)
RunHandler(c) == Call("err", <<Run(c)>>)

RulesOf(o, c) ==
    {RuleCall(create_rule_rx_mac_match(c, j)) : j \in QueuesOf(o, c)}
    \cup {RuleCall(create_rule_tx_fwd_to_sws_table(c, j)) : j \in QueuesOf(o, c)}
    \cup {RuleCall(create_rule_tx_fwd_to_vport(c, j)) : j \in QueuesOf(o, c)}

\* All that main calls for one context, and for the program.
CallsFor(o, c) ==
    {CreateHandler(c), Call("err", alloc_context_host_memory(o, c)),
     Call("err", create_app_rq(o, c)), Call("err", create_app_sq(o, c)),
     CopyData(c), RunHandler(c), Call("silent", <<Attempt>>), Call("ignore", <<Attempt>>)}
    \cup (IF c \in SchContexts(o) THEN RulesOf(o, c) ELSE {})

\* Only the first call of all ends the program.
LaterCalls(o) ==
    {ca \in Calls(o) : \/ \E x \in 2..7 : ca = ProgramCalls[x]
                       \/ \E c \in ContextsOf(o) : ca \in CallsFor(o, c)}

\* The four calls for one queue of a scheduler.
SteerRound(c, j) ==
    <<Call("silent", <<Attempt>>),
      RuleCall(create_rule_rx_mac_match(c, j)),
      RuleCall(create_rule_tx_fwd_to_sws_table(c, j)),
      RuleCall(create_rule_tx_fwd_to_vport(c, j))>>

SteerRounds(o, c) == [i \in 1..num_queues(o, c) |-> SteerRound(c, i - 1)]

\* The rounds of SteerQueues.
LEMMA SteerRoundsAre ==
    ASSUME NEW o \in OptionRecords, NEW c \in SchContexts(o)
    PROVE  /\ SteerQueues(o, c) = FlattenSeq(SteerRounds(o, c))
           /\ num_queues(o, c) \in Nat
           /\ SteerRounds(o, c) \in [1..num_queues(o, c) -> Seq(CallsFor(o, c))]
           /\ \A j \in QueuesOf(o, c) :
                 j + 1 \in 1..num_queues(o, c) /\ SteerRounds(o, c)[j + 1] = SteerRound(c, j)
  <1>1. SteerQueues(o, c) = FlattenSeq(SteerRounds(o, c))
    BY DEF SteerQueues, Loop, SteerRounds, SteerRound
  <1>2. num_queues(o, c) \in Nat
    BY OptionFacts DEF num_queues
  <1>3. ASSUME NEW j \in QueuesOf(o, c) PROVE SteerRound(c, j) \in Seq(CallsFor(o, c))
    <2>1. /\ Call("silent", <<Attempt>>) \in CallsFor(o, c)
          /\ RuleCall(create_rule_rx_mac_match(c, j)) \in CallsFor(o, c)
          /\ RuleCall(create_rule_tx_fwd_to_sws_table(c, j)) \in CallsFor(o, c)
          /\ RuleCall(create_rule_tx_fwd_to_vport(c, j)) \in CallsFor(o, c)
      BY Zenon DEF CallsFor, RulesOf
    <2> QED
      BY <2>1 DEF SteerRound
  <1>4. \A i \in 1..num_queues(o, c) : i - 1 \in QueuesOf(o, c)
    BY <1>2 DEF QueuesOf
  <1>5. SteerRounds(o, c) \in [1..num_queues(o, c) -> Seq(CallsFor(o, c))]
    BY <1>3, <1>4, Zenon DEF SteerRounds
  <1>6. ASSUME NEW j \in QueuesOf(o, c)
        PROVE  j + 1 \in 1..num_queues(o, c) /\ SteerRounds(o, c)[j + 1] = SteerRound(c, j)
    <2>1. j + 1 \in 1..num_queues(o, c) /\ (j + 1) - 1 = j
      BY <1>2 DEF QueuesOf
    <2> QED
      BY <2>1, Zenon DEF SteerRounds
  <1> QED
    BY <1>1, <1>2, <1>5, <1>6

\* The calls for one context are those listed,
LEMMA PartCalls ==
    ASSUME NEW o \in OptionRecords
    PROVE  /\ \A c \in ContextsOf(o) : CreateContext(o, c) \in Seq(CallsFor(o, c))
           /\ \A c \in SchContexts(o) : SteerQueues(o, c) \in Seq(CallsFor(o, c))
           /\ \A c \in ContextsOf(o) : StartScheduler(c) \in Seq(CallsFor(o, c))
           /\ \A c \in ContextsOf(o) : StartWorker(c) \in Seq(CallsFor(o, c))
  <1>1. ASSUME NEW c \in ContextsOf(o) PROVE CreateContext(o, c) \in Seq(CallsFor(o, c))
    <2>1. /\ Call("silent", <<Make(Of(c, "event_handler"))>>) \in CallsFor(o, c)
          /\ Call("err", alloc_context_host_memory(o, c)) \in CallsFor(o, c)
          /\ Call("err", create_app_rq(o, c)) \in CallsFor(o, c)
          /\ Call("err", create_app_sq(o, c)) \in CallsFor(o, c)
      BY Zenon DEF CallsFor, CreateHandler
    <2> QED
      BY <2>1 DEF CreateContext
  <1>2. ASSUME NEW c \in SchContexts(o) PROVE SteerQueues(o, c) \in Seq(CallsFor(o, c))
    BY SteerRoundsAre, LoopType
  <1>3. ASSUME NEW c \in ContextsOf(o)
        PROVE  StartScheduler(c) \in Seq(CallsFor(o, c)) /\ StartWorker(c) \in Seq(CallsFor(o, c))
    <2>1. /\ Call("err", <<Make(Of(c, "app_data_daddr"))>>) \in CallsFor(o, c)
          /\ Call("err", <<Run(c)>>) \in CallsFor(o, c)
          /\ Call("ignore", <<Attempt>>) \in CallsFor(o, c)
      BY Zenon DEF CallsFor, CopyData, RunHandler
    <2> QED
      BY <2>1 DEF StartScheduler, StartWorker, copy_sch_data_to_dpa, copy_thd_data_to_dpa
  <1> QED
    BY <1>1, <1>2, <1>3

\* so main makes no others, and only the first ends the program.
LEMMA CallsOfMain ==
    ASSUME NEW o \in OptionRecords, NEW x \in 1..Len(StartUp(o))
    PROVE  (x = 1 /\ StartUp(o)[x] = ProgramCalls[1]) \/ StartUp(o)[x] \in LaterCalls(o)
  <1> DEFINE T == LaterCalls(o)
  <1>1. /\ StartUp(o) = ProgramCalls \o FlattenSeq(Schedulers(o)) \o FlattenSeq(Workers(o))
        /\ ProgramCalls \in Seq(Calls(o))
        /\ FlattenSeq(Schedulers(o)) \in Seq(Calls(o)) /\ FlattenSeq(Workers(o)) \in Seq(Calls(o))
        /\ StartUp(o) \in Seq(Calls(o))
    BY StartUpCalls
  <1>2. Len(ProgramCalls) = 7
    BY DEF ProgramCalls
  <1>3. ASSUME NEW c \in ContextsOf(o), NEW part \in Seq(Calls(o)), part \in Seq(CallsFor(o, c))
        PROVE  part \in Seq(T)
    <2>1. \A l \in 1..Len(part) : part[l] \in Calls(o) /\ part[l] \in CallsFor(o, c)
      BY <1>3
    <2>2. \A l \in 1..Len(part) : part[l] \in T
      BY <2>1 DEF LaterCalls
    <2> HIDE DEF T
    <2> QED
      BY <2>2
  <1>4. /\ \A i \in 1..o.scheduler_num :
              <<"sch", i - 1>> \in SchContexts(o) /\ Starts(o, Schedulers(o)[i], <<"sch", i - 1>>)
        /\ \A i \in 1..threads_num(o) :
              <<"thd", i - 1>> \in ThdContexts(o) /\ Starts(o, Workers(o)[i], <<"thd", i - 1>>)
        /\ Schedulers(o) \in Seq(Seq(Calls(o))) /\ Len(Schedulers(o)) = o.scheduler_num
        /\ Workers(o) \in Seq(Seq(Calls(o))) /\ Len(Workers(o)) = threads_num(o)
    BY PartsOfContexts
  <1>5. o.scheduler_num \in Nat /\ threads_num(o) \in Nat
    BY OptionFacts
  <1>6. ASSUME NEW i \in 1..o.scheduler_num PROVE Schedulers(o)[i] \in Seq(T)
    <2>1. PICK c \in SchContexts(o) : c = <<"sch", i - 1>> /\ Starts(o, Schedulers(o)[i], c)
      BY <1>4, Zenon
    <2>2. Schedulers(o)[i] = SchedulerCalls(o, c)
      BY <1>5, <2>1 DEF Schedulers, SchCtx
    <2>3. c \in ContextsOf(o)
      BY DEF ContextsOf
    <2>4. SchedulerCalls(o, c) \in Seq(CallsFor(o, c))
      BY <2>3, PartCalls DEF SchedulerCalls
    <2>5. Schedulers(o)[i] \in Seq(Calls(o))
      BY <2>1, Zenon DEF Starts
    <2> QED
      BY <1>3, <2>2, <2>3, <2>4, <2>5, Zenon
  <1>7. ASSUME NEW i \in 1..threads_num(o) PROVE Workers(o)[i] \in Seq(T)
    <2>1. PICK c \in ThdContexts(o) : c = <<"thd", i - 1>> /\ Starts(o, Workers(o)[i], c)
      BY <1>4, Zenon
    <2>2. Workers(o)[i] = WorkerCalls(o, c)
      BY <1>5, <2>1 DEF Workers, ThdCtx
    <2>3. c \in ContextsOf(o)
      BY DEF ContextsOf
    <2>4. WorkerCalls(o, c) \in Seq(CallsFor(o, c))
      BY <2>3, PartCalls DEF WorkerCalls
    <2>5. Workers(o)[i] \in Seq(Calls(o))
      BY <2>1, Zenon DEF Starts
    <2> QED
      BY <1>3, <2>2, <2>3, <2>4, <2>5, Zenon
  <1> HIDE DEF T
  <1>8. FlattenSeq(Schedulers(o)) \in Seq(T) /\ FlattenSeq(Workers(o)) \in Seq(T)
    <2>1. Schedulers(o) \in [1..o.scheduler_num -> Seq(T)]
      <3>1. Schedulers(o) = [i \in 1..o.scheduler_num |-> Schedulers(o)[i]]
        BY Zenon DEF Schedulers
      <3> QED
        BY <1>6, <3>1, Zenon
    <2>2. Workers(o) \in [1..threads_num(o) -> Seq(T)]
      <3>1. Workers(o) = [i \in 1..threads_num(o) |-> Workers(o)[i]]
        BY Zenon DEF Workers
      <3> QED
        BY <1>7, <3>1, Zenon
    <2> QED
      BY <1>5, <2>1, <2>2, LoopType
  <1>9. PICK mid \in Seq(Calls(o)) : mid = FlattenSeq(Schedulers(o)) /\ \A z \in 1..Len(mid) : mid[z] \in T
    <2>1. \A z \in 1..Len(FlattenSeq(Schedulers(o))) : FlattenSeq(Schedulers(o))[z] \in T
      BY <1>8
    <2> QED
      BY <1>1, <2>1, Zenon
  <1>10. PICK last \in Seq(Calls(o)) : last = FlattenSeq(Workers(o)) /\ \A z \in 1..Len(last) : last[z] \in T
    <2>1. \A z \in 1..Len(FlattenSeq(Workers(o))) : FlattenSeq(Workers(o))[z] \in T
      BY <1>8
    <2> QED
      BY <1>1, <2>1, Zenon
  <1>11. PICK first \in Seq(Calls(o)) : first = ProgramCalls
    BY <1>1, Zenon
  <1>13. StartUp(o) = (first \o mid) \o last /\ Len(first) = 7
    BY <1>1, <1>2, <1>9, <1>10, <1>11
  <1>14. PICK front : front = first \o mid
    OBVIOUS
  <1>15. \A y \in 1..Len(front) : \/ y \in 1..Len(first) /\ front[y] = first[y]
                                  \/ \E z \in 1..Len(mid) : y = Len(first) + z /\ front[y] = mid[z]
    BY <1>14, ConcatElements
  <1>a. front \in Seq(Calls(o))
    BY <1>14, ConcatElements
  <1>16. \/ x \in 1..Len(front) /\ StartUp(o)[x] = front[x]
         \/ \E z \in 1..Len(last) : x = Len(front) + z /\ StartUp(o)[x] = last[z]
    <2>1. PICK s : s = front \o last
      OBVIOUS
    <2>2. \A y \in 1..Len(s) : \/ y \in 1..Len(front) /\ s[y] = front[y]
                               \/ \E z \in 1..Len(last) : y = Len(front) + z /\ s[y] = last[z]
      <3>1. Len(s) = Len(front) + Len(last) /\ Len(front) \in Nat /\ Len(last) \in Nat
        BY <1>a, <2>1
      <3> SUFFICES ASSUME NEW y \in 1..Len(s), y \notin 1..Len(front)
                   PROVE  \E z \in 1..Len(last) : y = Len(front) + z /\ s[y] = last[z]
        BY <1>a, <2>1, <3>1
      <3>2. PICK z \in 1..Len(last) : y = Len(front) + z
        <4>1. y - Len(front) \in 1..Len(last) /\ y = Len(front) + (y - Len(front))
          BY <3>1
        <4> QED
          BY <4>1
      <3>3. s[y] = last[z]
        BY <1>a, <2>1, <3>1, <3>2
      <3> QED
        BY <3>2, <3>3
    <2>3. s = StartUp(o)
      BY <1>13, <1>14, <2>1
    <2> QED
      BY <2>2, <2>3, Zenon
  <1>17. CASE x \in 1..Len(first) /\ StartUp(o)[x] = first[x]
    <2>1. x \in 2..7 => StartUp(o)[x] \in LaterCalls(o)
      <3>1. StartUp(o)[x] \in Calls(o)
        BY <1>1
      <3> QED
        BY <1>11, <1>17, <3>1, Zenon DEF LaterCalls
    <2>2. x = 1 \/ x \in 2..7
      BY <1>13, <1>17
    <2> QED
      BY <1>11, <1>17, <2>1, <2>2
  <1>18. ASSUME NEW z \in 1..Len(mid), StartUp(o)[x] = mid[z] PROVE StartUp(o)[x] \in LaterCalls(o)
    BY <1>9, <1>18 DEF T
  <1>19. ASSUME NEW z \in 1..Len(last), StartUp(o)[x] = last[z] PROVE StartUp(o)[x] \in LaterCalls(o)
    BY <1>10, <1>19 DEF T
  <1> QED
    BY <1>15, <1>16, <1>17, <1>18, <1>19, Zenon
-----------------------------------------------------------------------------
(***************************************************************************)
(* Where what is there comes from.                                         *)
(***************************************************************************)
\* A step sets its own field, and no other.
LEMMA DoSets ==
    ASSUME NEW o, NEW st, NEW s \in Steps(o), InBounds(o, st)
    PROVE  /\ \A f \in DOMAIN Do(st, s).ptr :
                 f \in DOMAIN st.ptr \/ (f = s.field /\ s.do \in {"make", "point", "flag"})
           /\ \A r \in Do(st, s).live : r \in st.live \/ (r = s.field /\ s.do = "make")
           /\ s.do = "flag" => s.field \in DOMAIN Do(st, s).ptr
  <1>0. \A f, r : DOMAIN Assign(st.ptr, f, r) = DOMAIN st.ptr \cup {f}
    BY DEF Assign
  <1>1. CASE s.do = "make"
    <2>1. Do(st, s) = [live |-> st.live \cup {s.field}, ptr |-> Assign(st.ptr, s.field, s.field),
                       running |-> st.running]
      BY <1>1 DEF Do, InBounds
    <2>2. Do(st, s).live = st.live \cup {s.field} /\ Do(st, s).ptr = Assign(st.ptr, s.field, s.field)
      BY <2>1
    <2>3. DOMAIN Do(st, s).ptr = DOMAIN st.ptr \cup {s.field}
      BY <1>0, <2>2
    <2> QED
      BY <1>1, <2>2, <2>3
  <1>2. CASE s.do = "attempt"
    <2>1. Do(st, s) = st
      BY <1>2 DEF Do
    <2> QED
      BY <1>2, <2>1
  <1>3. CASE s.do = "point" /\ s.from \in DOMAIN st.ptr
    <2>1. Do(st, s) = [live |-> st.live, ptr |-> Assign(st.ptr, s.field, st.ptr[s.from]),
                       running |-> st.running]
      BY <1>3 DEF Do, InBounds
    <2>2. Do(st, s).live = st.live /\ Do(st, s).ptr = Assign(st.ptr, s.field, st.ptr[s.from])
      BY <2>1
    <2>3. DOMAIN Do(st, s).ptr = DOMAIN st.ptr \cup {s.field}
      BY <1>0, <2>2
    <2> QED
      BY <1>3, <2>2, <2>3
  <1>4. CASE s.do = "point" /\ s.from \notin DOMAIN st.ptr
    <2>1. Do(st, s) = st
      BY <1>4 DEF Do
    <2> QED
      BY <1>4, <2>1
  <1>5. CASE s.do = "flag"
    <2>1. Do(st, s) = [live |-> st.live, ptr |-> Assign(st.ptr, s.field, s.field), running |-> st.running]
      BY <1>5 DEF Do, InBounds
    <2>2. Do(st, s).live = st.live /\ Do(st, s).ptr = Assign(st.ptr, s.field, s.field)
      BY <2>1
    <2>3. DOMAIN Do(st, s).ptr = DOMAIN st.ptr \cup {s.field}
      BY <1>0, <2>2
    <2> QED
      BY <1>5, <2>2, <2>3
  <1>6. CASE s.do = "run"
    <2>1. Do(st, s) = [live |-> st.live, ptr |-> st.ptr, running |-> st.running \cup {Owner(s.field)}]
      BY <1>6 DEF Do, InBounds
    <2> QED
      BY <1>6, <2>1
  <1> QED
    BY <1>1, <1>2, <1>3, <1>4, <1>5, <1>6, StepKinds

\* So what a call leaves was there before it or is the field of one of its steps.
LEMMA StepsSet ==
    ASSUME NEW o, call.steps \in Seq(Steps(o)), NEW n \in 0..Len(call.steps),
           InBounds(o, Present), PointsToLive(o, Present), NEW st, st = AfterSteps(n)
    PROVE  /\ \A f \in DOMAIN st.ptr :
                 \/ f \in DOMAIN ptr
                 \/ \E k \in 1..n : call.steps[k].field = f /\ call.steps[k].do \in {"make", "point", "flag"}
           /\ \A r \in st.live :
                 r \in live \/ \E k \in 1..n : call.steps[k].field = r /\ call.steps[k].do = "make"
           /\ \A k \in 1..n : call.steps[k].do = "flag" => call.steps[k].field \in DOMAIN st.ptr
           /\ n = 0 => st = Present
  <1>1. PICK g : Progress(o, g, n)
    BY AfterStepsProgress
  <1>2. /\ st = g[n] /\ g[0] = Present
        /\ \A k \in 0..n : InBounds(o, g[k])
        /\ \A k \in 1..n : g[k] = Do(g[k - 1], call.steps[k])
        /\ \A k \in 0..n, i \in 0..n : i <= k => Grows(g[i], g[k])
    BY <1>1, Zenon DEF Progress
  <1>3. \A k \in 1..n : call.steps[k] \in Steps(o) /\ k - 1 \in 0..n /\ k \in 0..n /\ k <= n /\ n \in 0..n
    OBVIOUS
  <1> DEFINE set(k, f) == \/ f \in DOMAIN ptr
                          \/ \E i \in 1..k : call.steps[i].field = f
                                             /\ call.steps[i].do \in {"make", "point", "flag"}
             made(k, r) == r \in live \/ \E i \in 1..k : call.steps[i].field = r /\ call.steps[i].do = "make"
             Good(k) == (\A f \in DOMAIN g[k].ptr : set(k, f)) /\ (\A r \in g[k].live : made(k, r))
             K == {k \in Nat : k <= n => Good(k)}
  <1>4. 0 \in K
    <2>1. Good(0)
      BY <1>2 DEF Present
    <2> HIDE DEF Good
    <2> QED
      BY <2>1
  <1>5. ASSUME NEW k \in K PROVE k + 1 \in K
    <2> HIDE DEF Good
    <2> SUFFICES ASSUME k + 1 <= n PROVE Good(k + 1)
      OBVIOUS
    <2>1. k \in Nat /\ k + 1 \in 1..n /\ (k + 1) - 1 = k /\ k \in 0..n /\ Good(k)
      OBVIOUS
    <2>2. g[k + 1] = Do(g[k], call.steps[k + 1]) /\ InBounds(o, g[k]) /\ call.steps[k + 1] \in Steps(o)
      BY <1>2, <1>3, <2>1, Zenon
    <2>3. \A i \in 1..k : i \in 1..(k + 1)
      BY <2>1
    <2>4. k + 1 \in 1..(k + 1)
      BY <2>1
    <2>5. /\ \A f \in DOMAIN g[k + 1].ptr :
                 \/ f \in DOMAIN g[k].ptr
                 \/ f = call.steps[k + 1].field /\ call.steps[k + 1].do \in {"make", "point", "flag"}
          /\ \A r \in g[k + 1].live :
                 r \in g[k].live \/ (r = call.steps[k + 1].field /\ call.steps[k + 1].do = "make")
      BY <2>2, DoSets, Zenon
    <2>6. (\A f \in DOMAIN g[k].ptr : set(k, f)) /\ (\A r \in g[k].live : made(k, r))
      BY <2>1, Zenon DEF Good
    <2>7. ASSUME NEW f \in DOMAIN g[k + 1].ptr PROVE set(k + 1, f)
      <3>1. CASE f \in DOMAIN g[k].ptr
        <4>1. set(k, f)
          BY <2>6, <3>1, Zenon
        <4> QED
          BY <2>3, <4>1, Zenon
      <3>2. CASE f = call.steps[k + 1].field /\ call.steps[k + 1].do \in {"make", "point", "flag"}
        BY <2>4, <3>2, Zenon
      <3> QED
        BY <2>5, <3>1, <3>2, Zenon
    <2>8. ASSUME NEW r \in g[k + 1].live PROVE made(k + 1, r)
      <3>1. CASE r \in g[k].live
        <4>1. made(k, r)
          BY <2>6, <3>1, Zenon
        <4> QED
          BY <2>3, <4>1, Zenon
      <3>2. CASE r = call.steps[k + 1].field /\ call.steps[k + 1].do = "make"
        BY <2>4, <3>2, Zenon
      <3> QED
        BY <2>5, <3>1, <3>2, Zenon
    <2> QED
      BY <2>7, <2>8, Zenon DEF Good
  <1>6. K = Nat
    <2> HIDE DEF K
    <2>1. K \in SUBSET Nat
      BY Zenon DEF K
    <2> QED
      BY <1>4, <1>5, <2>1, SetInduction
  <1>7. Good(n)
    <2> HIDE DEF Good
    <2>1. n \in Nat /\ n <= n
      OBVIOUS
    <2> QED
      BY <1>6, <2>1
  <1>8. ASSUME NEW k \in 1..n, call.steps[k].do = "flag" PROVE call.steps[k].field \in DOMAIN st.ptr
    <2>1. g[k] = Do(g[k - 1], call.steps[k]) /\ InBounds(o, g[k - 1]) /\ call.steps[k] \in Steps(o)
      BY <1>2, <1>3
    <2>2. call.steps[k].field \in DOMAIN g[k].ptr
      BY <1>8, <2>1, DoSets
    <2>3. Grows(g[k], st)
      BY <1>2, <1>3
    <2> QED
      BY <2>2, <2>3 DEF Grows
  <1> QED
    BY <1>2, <1>7, <1>8
-----------------------------------------------------------------------------
(***************************************************************************)
(* Rules.  A call whose failure main ignores sets at most one flag, and    *)
(* all rules of a scheduler are asked for before its handler is run.       *)
(***************************************************************************)
\* The call asks for what flag f stands for, and main does not look at its result.
Steers(ca, f) == ca.onfail = "ignore" /\ Has(ca.steps, Flag(f))

\* Steps that make something, and then set a flag, set this flag only.
LEMMA FlagLast ==
    ASSUME NEW S, NEW m \in Seq(S), NEW f, Flag(f) \in S,
           \A l \in 1..Len(m) : m[l].do # "flag",
           NEW s, s = m \o <<Flag(f)>>
    PROVE  Has(s, Flag(f)) /\ \A g : Has(s, Flag(g)) => g = f
  <1>0. <<Flag(f)>> \in Seq(S) /\ Len(<<Flag(f)>>) = 1 /\ <<Flag(f)>>[1] = Flag(f)
    OBVIOUS
  <1>1. PICK t \in Seq(S) : t = <<Flag(f)>>
    BY <1>0, Zenon
  <1>2. \A g : Flag(g).do = "flag" /\ Flag(g).field = g
    BY DEF Flag
  <1>3. Has(t, Flag(f))
    BY <1>0, <1>1 DEF Has
  <1>4. s = m \o t
    BY <1>1
  <1>5. Has(s, Flag(f))
    BY <1>3, <1>4, HasInConcat
  <1>6. \A x \in 1..Len(s) : \/ x \in 1..Len(m) /\ s[x] = m[x]
                             \/ \E y \in 1..Len(t) : x = Len(m) + y /\ s[x] = t[y]
    BY <1>4, ConcatElements
  <1>7. \A y \in 1..Len(t) : t[y] = Flag(f)
    BY <1>0, <1>1
  <1>8. ASSUME NEW g, Has(s, Flag(g)) PROVE g = f
    <2>1. PICK x \in 1..Len(s) : s[x] = Flag(g)
      BY <1>8 DEF Has
    <2>2. s[x].do = "flag"
      BY <1>2, <2>1
    <2>3. s[x] = Flag(f)
      BY <1>6, <1>7, <2>2
    <2>4. Flag(g).field = Flag(f).field
      BY <2>1, <2>3
    <2> QED
      BY <1>2, <2>4
  <1> QED
    BY <1>5, <1>8

\* The rules of a queue, and the flags they set.
LEMMA RuleSteps ==
    ASSUME NEW c, NEW j
    PROVE  /\ Has(create_rule_rx_mac_match(c, j), Flag(OfQueue(c, j, "rx_flow_rule")))
           /\ Has(create_rule_tx_fwd_to_sws_table(c, j), Flag(OfQueue(c, j, "tx_flow_rule")))
           /\ Has(create_rule_tx_fwd_to_vport(c, j), Flag(OfQueue(c, j, "tx_flow_rule2")))
           /\ \A g : Has(create_rule_rx_mac_match(c, j), Flag(g)) => g = OfQueue(c, j, "rx_flow_rule")
           /\ \A g : Has(create_rule_tx_fwd_to_sws_table(c, j), Flag(g)) => g = OfQueue(c, j, "tx_flow_rule")
           /\ \A g : Has(create_rule_tx_fwd_to_vport(c, j), Flag(g)) => g = OfQueue(c, j, "tx_flow_rule2")
  <1>0. \A p, f : Make(f).do = "make" /\ MakeThrough(p, f).do = "make"
    BY DEF Make, MakeThrough
  <1>1. ASSUME NEW a, NEW b, NEW f, NEW s, s = <<a, b>> \o <<Flag(f)>>, a.do = "make", b.do = "make"
        PROVE  Has(s, Flag(f)) /\ \A g : Has(s, Flag(g)) => g = f
    <2>1. PICK S : a \in S /\ b \in S /\ Flag(f) \in S
      <3>1. a \in {a, b, Flag(f)} /\ b \in {a, b, Flag(f)} /\ Flag(f) \in {a, b, Flag(f)}
        OBVIOUS
      <3> QED
        BY <3>1, Zenon
    <2>2. PICK m \in Seq(S) : m = <<a, b>>
      <3>1. <<a, b>> \in Seq(S)
        BY <2>1
      <3> QED
        BY <3>1, Zenon
    <2>3. \A l \in 1..Len(m) : m[l].do # "flag"
      BY <1>1, <2>2
    <2>4. s = m \o <<Flag(f)>>
      BY <1>1, <2>2, Zenon
    <2> HIDE <1>1
    <2> QED
      BY <2>1, <2>3, <2>4, FlagLast, ZenonT(60)
  <1>2. /\ Has(create_rule_rx_mac_match(c, j), Flag(OfQueue(c, j, "rx_flow_rule")))
        /\ \A g : Has(create_rule_rx_mac_match(c, j), Flag(g)) => g = OfQueue(c, j, "rx_flow_rule")
    <2>1. PICK a, b, f : /\ a = Make(OfQueue(c, j, "rx_action")) /\ b = MakeThrough(App("rx_matcher"), OfQueue(c, j, "rx_rule"))
                         /\ f = OfQueue(c, j, "rx_flow_rule")
      OBVIOUS
    <2>2. create_rule_rx_mac_match(c, j) = <<a, b>> \o <<Flag(f)>>
      BY <2>1 DEF create_rule_rx_mac_match, create_flow_rule_rx
    <2>3. a.do = "make" /\ b.do = "make"
      BY <1>0, <2>1
    <2>4. Has(create_rule_rx_mac_match(c, j), Flag(f)) /\ \A g : Has(create_rule_rx_mac_match(c, j), Flag(g)) => g = f
      BY <1>1, <2>2, <2>3, ZenonT(60)
    <2> QED
      BY <2>1, <2>4, Zenon
  <1>3. /\ Has(create_rule_tx_fwd_to_sws_table(c, j), Flag(OfQueue(c, j, "tx_flow_rule")))
        /\ \A g : Has(create_rule_tx_fwd_to_sws_table(c, j), Flag(g)) => g = OfQueue(c, j, "tx_flow_rule")
    <2>1. PICK a, b, f : /\ a = MakeThrough(App("tx_matcher"), OfQueue(c, j, "tx_action")) /\ b = MakeThrough(App("tx_matcher"), OfQueue(c, j, "tx_rule"))
                         /\ f = OfQueue(c, j, "tx_flow_rule")
      OBVIOUS
    <2>2. create_rule_tx_fwd_to_sws_table(c, j) = <<a, b>> \o <<Flag(f)>>
      BY <2>1 DEF create_rule_tx_fwd_to_sws_table, create_flow_rule_tx_table
    <2>3. a.do = "make" /\ b.do = "make"
      BY <1>0, <2>1
    <2>4. Has(create_rule_tx_fwd_to_sws_table(c, j), Flag(f)) /\ \A g : Has(create_rule_tx_fwd_to_sws_table(c, j), Flag(g)) => g = f
      BY <1>1, <2>2, <2>3, ZenonT(60)
    <2> QED
      BY <2>1, <2>4, Zenon
  <1>4. /\ Has(create_rule_tx_fwd_to_vport(c, j), Flag(OfQueue(c, j, "tx_flow_rule2")))
        /\ \A g : Has(create_rule_tx_fwd_to_vport(c, j), Flag(g)) => g = OfQueue(c, j, "tx_flow_rule2")
    <2>1. PICK a, b, f : /\ a = MakeThrough(App("tx_matcher"), OfQueue(c, j, "tx_action2")) /\ b = MakeThrough(App("tx_matcher"), OfQueue(c, j, "tx_rule2"))
                         /\ f = OfQueue(c, j, "tx_flow_rule2")
      OBVIOUS
    <2>2. create_rule_tx_fwd_to_vport(c, j) = <<a, b>> \o <<Flag(f)>>
      BY <2>1 DEF create_rule_tx_fwd_to_vport, create_flow_rule_tx
    <2>3. a.do = "make" /\ b.do = "make"
      BY <1>0, <2>1
    <2>4. Has(create_rule_tx_fwd_to_vport(c, j), Flag(f)) /\ \A g : Has(create_rule_tx_fwd_to_vport(c, j), Flag(g)) => g = f
      BY <1>1, <2>2, <2>3, ZenonT(60)
    <2> QED
      BY <2>1, <2>4, Zenon
  <1> QED
    BY <1>2, <1>3, <1>4

\* So a failure that main ignores concerns one flag at most.
LEMMA OneFlag ==
    ASSUME NEW o \in OptionRecords, NEW x \in 1..Len(StartUp(o)), StartUp(o)[x].onfail = "ignore"
    PROVE  \E f : \A g : Has(StartUp(o)[x].steps, Flag(g)) => g = f
  <1>1. PICK ca : ca = StartUp(o)[x]
    OBVIOUS
  <1> SUFFICES \E f : \A g : Has(ca.steps, Flag(g)) => g = f
    BY <1>1
  <1>2. /\ \A how, s : Call(how, s).onfail = how /\ Call(how, s).steps = s
        /\ \A s : RuleCall(s).steps = s
    BY DEF Call, RuleCall
  <1>3. ca.onfail = "ignore"
    BY <1>1
  <1>4. ASSUME ca = Call("ignore", <<Attempt>>) PROVE \A g : ~Has(ca.steps, Flag(g))
    <2>1. ca.steps = <<Attempt>>
      BY <1>2, <1>4
    <2>2. \A g : Flag(g) # Attempt
      BY DEF Flag, Attempt
    <2> QED
      BY <2>1, <2>2 DEF Has
  <1>5. ASSUME NEW m, NEW f, ca = Call("ignore", m \o <<Flag(f)>>),
               NEW S, m \in Seq(S), Flag(f) \in S, \A l \in 1..Len(m) : m[l].do # "flag"
        PROVE  \A g : Has(ca.steps, Flag(g)) => g = f
    <2>1. PICK s : s = m \o <<Flag(f)>>
      OBVIOUS
    <2>2. ca.steps = s
      BY <1>2, <1>5, <2>1
    <2> QED
      BY <1>5, <2>1, <2>2, FlagLast
  <1>6. \A f : Make(f).do = "make"
    BY DEF Make
  <1>7. ASSUME ca = Call("ignore", create_matcher_rx) PROVE \E f : \A g : Has(ca.steps, Flag(g)) => g = f
    <2>1. PICK m : m = create_flow_matcher_sw_steer_rx
      OBVIOUS
    <2>2. PICK a, b, e : m = <<a, b, e>> /\ a.do = "make" /\ b.do = "make" /\ e.do = "make"
      BY <1>6, <2>1, Zenon DEF create_flow_matcher_sw_steer_rx
    <2>3. PICK f : ca = Call("ignore", m \o <<Flag(f)>>)
      BY <1>7, <2>1, Zenon DEF create_matcher_rx
    <2>4. /\ m \in Seq({a, b, e, Flag(f)}) /\ Flag(f) \in {a, b, e, Flag(f)}
          /\ \A l \in 1..Len(m) : m[l].do # "flag"
      BY <2>2
    <2> QED
      BY <1>5, <2>3, <2>4, Zenon
  <1>8. ASSUME ca = Call("ignore", create_matcher_tx) PROVE \E f : \A g : Has(ca.steps, Flag(g)) => g = f
    <2>1. PICK m : m = create_flow_matcher_sw_steer_tx
      OBVIOUS
    <2>2. PICK a, b, e, u, v : m = <<a, b, e, u, v>> /\ a.do = "make" /\ b.do = "make" /\ e.do = "make"
                               /\ u.do = "make" /\ v.do = "make"
      BY <1>6, <2>1, Zenon DEF create_flow_matcher_sw_steer_tx
    <2>3. PICK f : ca = Call("ignore", m \o <<Flag(f)>>)
      BY <1>8, <2>1, Zenon DEF create_matcher_tx
    <2>4. /\ m \in Seq({a, b, e, u, v, Flag(f)}) /\ Flag(f) \in {a, b, e, u, v, Flag(f)}
          /\ \A l \in 1..Len(m) : m[l].do # "flag"
      BY <2>2
    <2> QED
      BY <1>5, <2>3, <2>4, Zenon
  <1>9. ASSUME NEW y \in 1..7, ca = ProgramCalls[y] PROVE \E f : \A g : Has(ca.steps, Flag(g)) => g = f
    <2>1. \A z \in 1..5 : ProgramCalls[z].onfail \in {"quit", "err"}
      BY <1>2 DEF ProgramCalls
    <2>2. ProgramCalls[6] = Call("ignore", create_matcher_rx) /\ ProgramCalls[7] = Call("ignore", create_matcher_tx)
      BY DEF ProgramCalls
    <2>3. y \in 1..5 \/ y = 6 \/ y = 7
      OBVIOUS
    <2> QED
      BY <1>3, <1>7, <1>8, <1>9, <2>1, <2>2, <2>3
  <1>10. ASSUME NEW c \in ContextsOf(o), ca \in CallsFor(o, c)
         PROVE  \E f : \A g : Has(ca.steps, Flag(g)) => g = f
    <2>1. CASE ca \in RulesOf(o, c)
      <3>1. PICK j \in QueuesOf(o, c) : \/ ca = RuleCall(create_rule_rx_mac_match(c, j))
                                       \/ ca = RuleCall(create_rule_tx_fwd_to_sws_table(c, j))
                                       \/ ca = RuleCall(create_rule_tx_fwd_to_vport(c, j))
        BY <2>1, Zenon DEF RulesOf
      <3>2. \/ ca.steps = create_rule_rx_mac_match(c, j)
            \/ ca.steps = create_rule_tx_fwd_to_sws_table(c, j)
            \/ ca.steps = create_rule_tx_fwd_to_vport(c, j)
        BY <1>2, <3>1, Zenon
      <3>3. /\ \A g : Has(create_rule_rx_mac_match(c, j), Flag(g)) => g = OfQueue(c, j, "rx_flow_rule")
            /\ \A g : Has(create_rule_tx_fwd_to_sws_table(c, j), Flag(g)) => g = OfQueue(c, j, "tx_flow_rule")
            /\ \A g : Has(create_rule_tx_fwd_to_vport(c, j), Flag(g)) => g = OfQueue(c, j, "tx_flow_rule2")
        BY RuleSteps
      <3> QED
        BY <3>2, <3>3, Zenon
    <2>2. CASE ca \notin RulesOf(o, c)
      <3>1. ca = Call("ignore", <<Attempt>>)
        BY <1>2, <1>3, <1>10, <2>2 DEF CallsFor, CreateHandler, CopyData, RunHandler
      <3> QED
        BY <1>4, <3>1
    <2> QED
      BY <2>1, <2>2
  <1>11. 1 \in 1..7 /\ \A y \in 2..7 : y \in 1..7
    OBVIOUS
  <1> QED
    BY <1>1, <1>9, <1>10, <1>11, CallsOfMain, Zenon DEF LaterCalls
\* What concatenation keeps holds of the start-up if it holds of its parts.
LEMMA StartUpClosed ==
    ASSUME NEW o \in OptionRecords, NEW G \in SUBSET Seq(Calls(o)),
           <<>> \in G, \A a, b \in G : a \o b \in G, ProgramCalls \in G,
           \A c \in SchContexts(o) : SchedulerCalls(o, c) \in G,
           \A c \in ThdContexts(o) : WorkerCalls(o, c) \in G
    PROVE  StartUp(o) \in G
  <1>1. o.scheduler_num \in Nat /\ threads_num(o) \in Nat
    BY OptionFacts
  <1>2. /\ \A i \in 1..o.scheduler_num : <<"sch", i - 1>> \in SchContexts(o)
        /\ \A i \in 1..threads_num(o) : <<"thd", i - 1>> \in ThdContexts(o)
    BY PartsOfContexts
  <1>3. ASSUME NEW i \in 1..o.scheduler_num PROVE Schedulers(o)[i] \in G
    <2>1. PICK c \in SchContexts(o) : c = <<"sch", i - 1>>
      BY <1>2, Zenon
    <2>2. Schedulers(o)[i] = SchedulerCalls(o, c)
      BY <1>1, <2>1 DEF Schedulers, SchCtx
    <2> QED
      BY <2>2
  <1>4. ASSUME NEW i \in 1..threads_num(o) PROVE Workers(o)[i] \in G
    <2>1. PICK c \in ThdContexts(o) : c = <<"thd", i - 1>>
      BY <1>2, Zenon
    <2>2. Workers(o)[i] = WorkerCalls(o, c)
      BY <1>1, <2>1 DEF Workers, ThdCtx
    <2> QED
      BY <2>2
  <1>5. Schedulers(o) \in [1..o.scheduler_num -> G]
    <2>1. Schedulers(o) = [i \in 1..o.scheduler_num |-> Schedulers(o)[i]]
      BY Zenon DEF Schedulers
    <2> QED
      BY <1>3, <2>1, Zenon
  <1>6. Workers(o) \in [1..threads_num(o) -> G]
    <2>1. Workers(o) = [i \in 1..threads_num(o) |-> Workers(o)[i]]
      BY Zenon DEF Workers
    <2> QED
      BY <1>4, <2>1, Zenon
  <1>7. FlattenSeq(Schedulers(o)) \in G
    BY <1>1, <1>5, FlattenSeqClosed
  <1>8. FlattenSeq(Workers(o)) \in G
    BY <1>1, <1>6, FlattenSeqClosed
  <1>9. StartUp(o) = (ProgramCalls \o FlattenSeq(Schedulers(o))) \o FlattenSeq(Workers(o))
    BY StartUpCalls
  <1> QED
    BY <1>7, <1>8, <1>9, Zenon

\* Every rule of a scheduler is asked for before its handler is run.
RulesFirst(o) ==
    {s \in Seq(Calls(o)) :
        \A x \in 1..Len(s), c \in SchContexts(o) :
            s[x] = RunHandler(c) =>
                \A j \in QueuesOf(o, c), n \in RuleFlags : \E y \in 1..(x - 1) : Steers(s[y], OfQueue(c, j, n))}

\* Concatenation keeps this.
LEMMA RulesFirstClosed ==
    ASSUME NEW o, NEW a \in RulesFirst(o), NEW b \in RulesFirst(o)
    PROVE  a \o b \in RulesFirst(o)
  <1>1. a \in Seq(Calls(o)) /\ b \in Seq(Calls(o)) /\ Len(a) \in Nat /\ Len(b) \in Nat
    BY DEF RulesFirst
  <1>2. PICK s : s = a \o b
    OBVIOUS
  <1>3. s \in Seq(Calls(o)) /\ Len(s) = Len(a) + Len(b)
    BY <1>1, <1>2, ConcatElements
  <1>4. /\ \A x \in 1..Len(a) : x \in 1..Len(s) /\ s[x] = a[x]
        /\ \A x \in 1..Len(b) : Len(a) + x \in 1..Len(s) /\ s[Len(a) + x] = b[x]
    BY <1>1, <1>2, ConcatElements
  <1>5. \A x \in 1..Len(s) : \/ x \in 1..Len(a) /\ s[x] = a[x]
                             \/ \E y \in 1..Len(b) : x = Len(a) + y /\ s[x] = b[y]
    BY <1>1, <1>2, ConcatElements
  <1>6. ASSUME NEW x \in 1..Len(s), NEW c \in SchContexts(o), s[x] = RunHandler(c),
               NEW j \in QueuesOf(o, c), NEW n \in RuleFlags
        PROVE  \E y \in 1..(x - 1) : Steers(s[y], OfQueue(c, j, n))
    <2>1. CASE x \in 1..Len(a) /\ s[x] = a[x]
      <3>1. PICK y \in 1..(x - 1) : Steers(a[y], OfQueue(c, j, n))
        BY <1>6, <2>1 DEF RulesFirst
      <3>2. y \in 1..Len(a)
        BY <1>1, <2>1
      <3> QED
        BY <1>4, <3>1, <3>2
    <2>2. ASSUME NEW z \in 1..Len(b), x = Len(a) + z, s[x] = b[z]
          PROVE  \E y \in 1..(x - 1) : Steers(s[y], OfQueue(c, j, n))
      <3>1. b[z] = RunHandler(c)
        BY <1>6, <2>2
      <3>2. PICK y \in 1..(z - 1) : Steers(b[y], OfQueue(c, j, n))
        BY <3>1 DEF RulesFirst
      <3>3. y \in 1..Len(b) /\ Len(a) + y \in 1..(x - 1)
        BY <1>1, <2>2
      <3>4. s[Len(a) + y] = b[y]
        BY <1>4, <3>3
      <3> QED
        BY <3>2, <3>3, <3>4
    <2> QED
      BY <1>5, <2>1, <2>2
  <1>7. s \in RulesFirst(o)
    BY <1>3, <1>6 DEF RulesFirst
  <1> QED
    BY <1>2, <1>7

\* The start-up has that order.
LEMMA StartUpRulesFirst ==
    ASSUME NEW o \in OptionRecords
    PROVE  StartUp(o) \in RulesFirst(o)
  <1>1. RulesFirst(o) \in SUBSET Seq(Calls(o)) /\ MakingCalls(o) \subseteq Calls(o)
    BY DEF RulesFirst, Calls
  <1>2. \A d \in SchContexts(o) : d \in ContextsOf(o) /\ RunHandler(d) \notin MakingCalls(o)
    BY RunCalls DEF ContextsOf, RunHandler
  <1>3. ASSUME NEW s \in Seq(MakingCalls(o)) PROVE s \in RulesFirst(o)
    <2>1. s \in Seq(Calls(o)) /\ \A x \in 1..Len(s) : s[x] \in MakingCalls(o)
      BY <1>1, SeqMonotonic
    <2> QED
      BY <1>2, <2>1 DEF RulesFirst
  <1>4. <<>> \in RulesFirst(o) /\ ProgramCalls \in RulesFirst(o)
    <2>1. <<>> \in Seq(MakingCalls(o))
      OBVIOUS
    <2> QED
      BY <1>3, <2>1, ProgramCallsMake
  <1>5. ASSUME NEW c \in SchContexts(o) PROVE SchedulerCalls(o, c) \in RulesFirst(o)
    <2>1. Starts(o, SchedulerCalls(o, c), c)
      BY PartsStart
    <2>2. PICK a \in Seq(MakingCalls(o)) : a = CreateContext(o, c)
      BY <1>2, CreateContextCalls, Zenon
    <2>3. PICK b \in Seq(MakingCalls(o)) : b = SteerQueues(o, c)
      BY SteerQueuesCalls, Zenon
    <2>4. PICK h \in Seq(MakingCalls(o)) : h = a \o b
      BY ConcatElements
    <2>5. \A e : Has(b, e) => Has(h, e)
      BY <2>4, HasInConcat
    <2>6. PICK t \in Seq(Calls(o)) : t = StartScheduler(c)
      <3>1. CopyData(c) \in Calls(o) /\ RunHandler(c) \in Calls(o)
        <4>1. 0 \in QueuesOf(o, c)
          BY OptionFacts DEF QueuesOf, num_queues
        <4>2. Of(c, "app_data_daddr") \in DataFields(o)
          BY <1>2, <4>1, FieldsOfContexts DEF ContextNames
        <4>3. <<Make(Of(c, "app_data_daddr"))>> \in Seq(MakingSteps(o))
          BY <4>2, StepsOfFields
        <4>4. CopyData(c) \in MakingCalls(o)
          BY <4>3, CallsOfSteps DEF CopyData
        <4> QED
          BY <1>1, <1>2, <4>4 DEF Calls, RunHandler
      <3>2. StartScheduler(c) = <<CopyData(c), RunHandler(c)>>
        BY DEF StartScheduler, CopyData, RunHandler, copy_sch_data_to_dpa
      <3>3. <<CopyData(c), RunHandler(c)>> \in Seq(Calls(o))
        BY <3>1
      <3> QED
        BY <3>2, <3>3, Zenon
    <2>7. PICK s \in Seq(Calls(o)) : s = SchedulerCalls(o, c)
      BY <2>1, Zenon DEF Starts
    <2>8. s = h \o t /\ h \in Seq(Calls(o))
      BY <1>1, <2>2, <2>3, <2>4, <2>6, <2>7, SeqMonotonic DEF SchedulerCalls
    <2>9. \A x \in 1..Len(s) : \/ x \in 1..Len(h) /\ s[x] = h[x]
                               \/ \E y \in 1..Len(t) : x = Len(h) + y /\ s[x] = t[y]
      BY <2>8, ConcatElements
    <2>10. \A x \in 1..Len(h) : x \in 1..Len(s) /\ s[x] = h[x]
      BY <2>8, ConcatElements
    <2>11. ASSUME NEW j \in QueuesOf(o, c), NEW n \in RuleFlags
           PROVE  \E y \in 1..Len(h) : Steers(h[y], OfQueue(c, j, n))
      <3>1. PICK e : Has(SteerRound(c, j), e) /\ Steers(e, OfQueue(c, j, n))
        <4>1. \A steps : RuleCall(steps).onfail = "ignore" /\ RuleCall(steps).steps = steps
          BY DEF RuleCall
        <4>2. /\ Steers(RuleCall(create_rule_rx_mac_match(c, j)), OfQueue(c, j, "rx_flow_rule"))
              /\ Steers(RuleCall(create_rule_tx_fwd_to_sws_table(c, j)), OfQueue(c, j, "tx_flow_rule"))
              /\ Steers(RuleCall(create_rule_tx_fwd_to_vport(c, j)), OfQueue(c, j, "tx_flow_rule2"))
          BY <4>1, RuleSteps DEF Steers
        <4>3. /\ Has(SteerRound(c, j), RuleCall(create_rule_rx_mac_match(c, j)))
              /\ Has(SteerRound(c, j), RuleCall(create_rule_tx_fwd_to_sws_table(c, j)))
              /\ Has(SteerRound(c, j), RuleCall(create_rule_tx_fwd_to_vport(c, j)))
          <5>1. /\ Len(SteerRound(c, j)) = 4 /\ SteerRound(c, j)[2] = RuleCall(create_rule_rx_mac_match(c, j))
                /\ SteerRound(c, j)[3] = RuleCall(create_rule_tx_fwd_to_sws_table(c, j))
                /\ SteerRound(c, j)[4] = RuleCall(create_rule_tx_fwd_to_vport(c, j))
            BY DEF SteerRound
          <5>2. 2 \in 1..4 /\ 3 \in 1..4 /\ 4 \in 1..4
            OBVIOUS
          <5> QED
            BY <5>1, <5>2, Zenon DEF Has
        <4> QED
          BY <4>2, <4>3, Zenon DEF RuleFlags
      <3>2. Has(b, e)
        <4>1. /\ b = FlattenSeq(SteerRounds(o, c))
              /\ num_queues(o, c) \in Nat
              /\ SteerRounds(o, c) \in [1..num_queues(o, c) -> Seq(CallsFor(o, c))]
              /\ j + 1 \in 1..num_queues(o, c) /\ SteerRounds(o, c)[j + 1] = SteerRound(c, j)
          BY <2>3, SteerRoundsAre
        <4>2. PICK f \in [1..num_queues(o, c) -> Seq(CallsFor(o, c))] : f = SteerRounds(o, c)
          BY <4>1, Zenon
        <4>3. PICK i \in 1..num_queues(o, c) : i = j + 1
          BY <4>1, Zenon
        <4>4. Has(f[i], e)
          BY <3>1, <4>1, <4>2, <4>3, Zenon
        <4> QED
          BY <4>1, <4>2, <4>4, LoopHas, Zenon
      <3>3. Has(h, e)
        BY <2>5, <3>2
      <3> QED
        BY <3>1, <3>3 DEF Has
    <2>12. ASSUME NEW x \in 1..Len(s), NEW d \in SchContexts(o), s[x] = RunHandler(d)
           PROVE  d = c /\ \A y \in 1..Len(h) : y \in 1..(x - 1)
      <3>1. d = c
        BY <1>2, <2>1, <2>7, <2>12 DEF Starts, RunHandler
      <3>2. ~(x \in 1..Len(h) /\ s[x] = h[x])
        <4>1. \A y \in 1..Len(h) : h[y] \in MakingCalls(o)
          OBVIOUS
        <4> QED
          BY <1>2, <2>12, <4>1
      <3>3. PICK y \in 1..Len(t) : x = Len(h) + y
        BY <2>9, <3>2
      <3> QED
        BY <3>1, <3>3
    <2>13. ASSUME NEW x \in 1..Len(s), NEW d \in SchContexts(o), s[x] = RunHandler(d),
                  NEW j \in QueuesOf(o, d), NEW n \in RuleFlags
           PROVE  \E y \in 1..(x - 1) : Steers(s[y], OfQueue(d, j, n))
      <3>1. d = c /\ \A y \in 1..Len(h) : y \in 1..(x - 1)
        BY <2>12, <2>13
      <3>2. PICK y \in 1..Len(h) : Steers(h[y], OfQueue(d, j, n))
        BY <2>11, <3>1
      <3> QED
        BY <2>10, <3>1, <3>2
    <2>14. s \in RulesFirst(o)
      BY <2>13 DEF RulesFirst
    <2> QED
      BY <2>7, <2>14
  <1>6. ASSUME NEW c \in ThdContexts(o) PROVE WorkerCalls(o, c) \in RulesFirst(o)
    <2>1. Starts(o, WorkerCalls(o, c), c) /\ c \in ContextsOf(o)
      BY PartsStart DEF ContextsOf
    <2>2. \A x \in 1..Len(WorkerCalls(o, c)), d \in SchContexts(o) : WorkerCalls(o, c)[x] # RunHandler(d)
      <3>1. \A d \in SchContexts(o) : d # c
        BY DEF SchContexts, ThdContexts
      <3> QED
        BY <1>2, <2>1, <3>1, Zenon DEF Starts, RunHandler
    <2>3. WorkerCalls(o, c) \in Seq(Calls(o))
      BY <2>1, Zenon DEF Starts
    <2> QED
      BY <2>2, <2>3, Zenon DEF RulesFirst
  <1>7. \A a, b \in RulesFirst(o) : a \o b \in RulesFirst(o)
    BY RulesFirstClosed
  <1> QED
    BY <1>1, <1>4, <1>5, <1>6, <1>7, StartUpClosed, Zenon
\* Flags of the calls before the n-th that main does not look at, and that are not
\* among D.
Skipped(o, n, D) ==
    {f \in FlagFields(o) : \E x \in 1..(n - 1) : x <= Len(StartUp(o)) /\ Steers(StartUp(o)[x], f)} \ D

\* There is no more of them than failures that main has ignored, and rules that a
\* running scheduler lacks are among them.
RuleInv ==
    /\ phase = "build" => /\ IsFiniteSet(Skipped(options, at, DOMAIN ptr))
                          /\ Cardinality(Skipped(options, at, DOMAIN ptr)) <= ignored
    /\ phase # "build" => IsFiniteSet(MissingRules) /\ Cardinality(MissingRules) <= ignored

\* Sets that grow by one element at most.
LEMMA CardinalityBound ==
    ASSUME NEW A, NEW B, IsFiniteSet(B), NEW n \in Nat, Cardinality(B) <= n
    PROVE  /\ A \subseteq B => IsFiniteSet(A) /\ Cardinality(A) <= n
           /\ \A f : A \subseteq B \cup {f} => IsFiniteSet(A) /\ Cardinality(A) <= n + 1
  <1>1. Cardinality(B) \in Nat
    BY FS_CardinalityType
  <1>2. ASSUME A \subseteq B PROVE IsFiniteSet(A) /\ Cardinality(A) <= n
    <2>1. IsFiniteSet(A) /\ Cardinality(A) <= Cardinality(B)
      BY <1>2, FS_Subset
    <2>2. Cardinality(A) \in Nat
      BY <2>1, FS_CardinalityType
    <2> QED
      BY <1>1, <2>1, <2>2
  <1>3. ASSUME NEW f, A \subseteq B \cup {f} PROVE IsFiniteSet(A) /\ Cardinality(A) <= n + 1
    <2>1. PICK C : C = B \cup {f}
      OBVIOUS
    <2>2. IsFiniteSet(C) /\ (Cardinality(C) = Cardinality(B) \/ Cardinality(C) = Cardinality(B) + 1)
      BY <2>1, FS_AddElement
    <2>3. IsFiniteSet(A) /\ Cardinality(A) <= Cardinality(C)
      BY <1>3, <2>1, <2>2, FS_Subset
    <2>4. Cardinality(A) \in Nat
      BY <2>3, FS_CardinalityType
    <2> QED
      BY <1>1, <2>2, <2>3, <2>4
  <1> QED
    BY <1>2, <1>3

\* While main builds, the missing rules are among the skipped ones.
LEMMA MissingAreSkipped ==
    ASSUME HostInv, StartInv, phase = "build"
    PROVE  MissingRules \subseteq Skipped(options, at, DOMAIN ptr)
  <1>1. PICK o \in OptionRecords : o = options
    BY HostAssumption DEF HostInv
  <1>2. HandlersRun(o, at, running) /\ at \in Nat /\ running \subseteq ContextsOf(o)
    BY <1>1 DEF StartInv, HostInv, InBounds, Present
  <1>3. StartUp(o) \in RulesFirst(o) /\ StartUp(o) \in Seq(Calls(o)) /\ Len(StartUp(o)) \in Nat
    BY StartUpRulesFirst DEF RulesFirst
  <1>4. ASSUME NEW c \in running, c[1] = "sch", NEW j \in 0..(scheduler_queue_count(o) - 1),
               NEW n \in {"rx_flow_rule", "tx_flow_rule", "tx_flow_rule2"}
        PROVE  /\ OfQueue(c, j, n) \in FlagFields(o)
               /\ \E y \in 1..(at - 1) : y <= Len(StartUp(o)) /\ Steers(StartUp(o)[y], OfQueue(c, j, n))
    <2>1. c \in SchContexts(o) /\ c \in ContextsOf(o)
      BY <1>2, <1>4 DEF ContextsOf, ThdContexts
    <2>2. j \in QueuesOf(o, c) /\ n \in RuleFlags
      BY <1>4 DEF QueuesOf, num_queues, RuleFlags
    <2>3. OfQueue(c, j, n) \in FlagFields(o)
      BY <2>1, <2>2, FieldsOfContexts
    <2>4. PICK x \in 1..(at - 1) : x <= Len(StartUp(o)) /\ StartUp(o)[x] = RunHandler(c)
      BY <1>2 DEF HandlersRun, RunHandler
    <2>5. x \in 1..Len(StartUp(o))
      BY <1>2, <1>3, <2>4
    <2>6. PICK y \in 1..(x - 1) : Steers(StartUp(o)[y], OfQueue(c, j, n))
      BY <1>3, <2>1, <2>2, <2>4, <2>5 DEF RulesFirst
    <2>7. y \in 1..(at - 1) /\ y <= Len(StartUp(o))
      BY <1>2, <1>3, <2>4, <2>5, <2>6
    <2> QED
      BY <2>3, <2>6, <2>7
  <1>5. ASSUME NEW f \in MissingRules PROVE f \in Skipped(o, at, DOMAIN ptr)
    <2>1. f \notin DOMAIN ptr
      BY DEF MissingRules
    <2>2. PICK c \in running, j \in 0..(scheduler_queue_count(o) - 1),
               n \in {"rx_flow_rule", "tx_flow_rule", "tx_flow_rule2"} : c[1] = "sch" /\ f = OfQueue(c, j, n)
      BY <1>1 DEF MissingRules
    <2>3. f \in FlagFields(o) /\ \E y \in 1..(at - 1) : y <= Len(StartUp(o)) /\ Steers(StartUp(o)[y], f)
      BY <1>4, <2>2
    <2> QED
      BY <2>1, <2>3 DEF Skipped
  <1> QED
    BY <1>1, <1>5

\* Fewer handlers and more fields leave fewer rules missing.
LEMMA MissingShrinks ==
    ASSUME options' = options, running' \subseteq running, DOMAIN ptr \subseteq DOMAIN ptr'
    PROVE  MissingRules' \subseteq MissingRules
  BY DEF MissingRules

\* A call that fails runs no handler and takes back nothing that was there before it.
LEMMA FailingCall ==
    ASSUME HostInv, Building, NEW k \in DOMAIN call.steps, FailAt(k)
    PROVE  running' = running /\ DOMAIN ptr \subseteq DOMAIN ptr'
  <1>1. PICK o : o = options
    OBVIOUS
  <1>2. /\ o \in OptionRecords /\ call \in Calls(o) /\ call.steps \in Seq(Steps(o))
    BY <1>1, CallInRange
  <1>3. InBounds(o, Present) /\ PointsToLive(o, Present)
    BY <1>1 DEF HostInv, Building
  <1>4. PICK n \in 0..Len(call.steps) : n = IF call.undo THEN 0 ELSE k - 1
    BY <1>2
  <1>5. PICK st : st = AfterSteps(n)
    OBVIOUS
  <1>6. ptr' = st.ptr /\ running' = st.running
    BY <1>4, <1>5 DEF FailAt, Become
  <1>7. DOMAIN ptr \subseteq DOMAIN st.ptr
    <2>1. Grows(Present, st)
      BY <1>2, <1>3, <1>5, AfterStepsInBounds
    <2> QED
      BY <2>1 DEF Grows, Present
  <1>8. CASE call \in MakingCalls(o)
    <2>1. call.steps \in Seq(MakingSteps(o))
      BY <1>8 DEF MakingCalls
    <2>2. st.running = running
      BY <1>3, <1>5, <2>1, MakingRunsNothing
    <2> QED
      BY <1>6, <1>7, <2>2
  <1>9. ASSUME NEW c \in ContextsOf(o), call = Call("err", <<Run(c)>>) PROVE st.running = running
    <2>1. call.steps = <<Run(c)>>
      BY <1>9 DEF Call
    <2>2. n = 0
      BY <1>4, <2>1
    <2>3. st = Present
      BY <1>2, <1>3, <1>5, <2>2, StepsSet
    <2> QED
      BY <2>3 DEF Present
  <1> QED
    BY <1>2, <1>6, <1>7, <1>8, <1>9 DEF Calls

\* Every step keeps the number of missing rules below that of ignored failures.
LEMMA RuleInvStep ==
    ASSUME HostInv, StartInv, RuleInv, [Next]_vars
    PROVE  RuleInv'
  <1>1. PICK o \in OptionRecords : o = options
    BY HostAssumption DEF HostInv
  <1>2. ignored \in Nat /\ at \in Nat
    BY HostAssumption DEF HostInv
  <1>3. ASSUME phase = "build"
        PROVE  IsFiniteSet(MissingRules) /\ Cardinality(MissingRules) <= ignored
    BY <1>2, <1>3, MissingAreSkipped, CardinalityBound DEF RuleInv
  <1>4. IsFiniteSet(MissingRules) /\ Cardinality(MissingRules) <= ignored
    BY <1>3 DEF RuleInv
  <1>5. ASSUME phase' # "build", options' = options, ignored' = ignored,
               running' \subseteq running, DOMAIN ptr \subseteq DOMAIN ptr'
        PROVE  RuleInv'
    <2>1. MissingRules' \subseteq MissingRules
      BY <1>5, MissingShrinks
    <2>2. PICK A : A = MissingRules'
      OBVIOUS
    <2>3. IsFiniteSet(A) /\ Cardinality(A) <= ignored
      BY <1>2, <1>4, <2>1, <2>2, CardinalityBound
    <2> QED
      BY <1>5, <2>2, <2>3 DEF RuleInv
  <1>6. CASE Refuse \/ Crash \/ KeyPressed \/ Return
    BY <1>5, <1>6 DEF Refuse, Crash, KeyPressed, Return
  <1>7. CASE Release
    <2>1. running' \subseteq running
      BY <1>7 DEF Release
    <2> QED
      BY <1>5, <1>7, <2>1 DEF Release, Cleaning
  <1>8. CASE FailAndQuit \/ FailWithError \/ FailSilently
    <2>1. Building /\ \E k \in DOMAIN call.steps : FailAt(k)
      BY <1>8 DEF FailAndQuit, FailWithError, FailSilently
    <2>2. running' = running /\ DOMAIN ptr \subseteq DOMAIN ptr'
      BY <2>1, FailingCall
    <2> QED
      BY <1>5, <1>8, <2>2 DEF FailAndQuit, FailWithError, FailSilently
  <1>9. CASE UNCHANGED vars
    <2>1. MissingRules' = MissingRules
      BY <1>9 DEF MissingRules, vars
    <2> QED
      BY <1>9, <2>1 DEF RuleInv, vars
  <1>10. CASE Accept
    <2>1. options' = options /\ at' = 1 /\ phase' = "build" /\ ignored' = ignored
      BY <1>10 DEF Accept, StartInv
    <2>2. Skipped(options', at', DOMAIN ptr') = {}
      BY <2>1 DEF Skipped
    <2> QED
      BY <1>2, <2>1, <2>2, FS_EmptySet DEF RuleInv
  <1>11. CASE CallSucceeds \/ FailIgnored
    <2>0. Building /\ phase = "build" /\ phase' = "build" /\ options' = options /\ at' = at + 1
      BY <1>11 DEF CallSucceeds, FailIgnored, Building
    <2>1. /\ at \in 1..Len(StartUp(o)) /\ call = StartUp(o)[at]
          /\ call \in Calls(o) /\ call.steps \in Seq(Steps(o))
      BY <1>1, <2>0, CallInRange
    <2>2. InBounds(o, Present) /\ PointsToLive(o, Present)
      BY <1>1, <2>0 DEF HostInv
    <2>3. PICK B : /\ B = Skipped(o, at, DOMAIN ptr)
                   /\ IsFiniteSet(B) /\ Cardinality(B) <= ignored
      BY <1>1, <2>0 DEF RuleInv
    <2>4. PICK A : A = Skipped(o, at + 1, DOMAIN ptr')
      OBVIOUS
    <2>5. ASSUME NEW f \in A, f \notin B, DOMAIN ptr \subseteq DOMAIN ptr' PROVE Steers(call, f)
      <3>1. f \in FlagFields(o) /\ f \notin DOMAIN ptr'
        BY <2>4 DEF Skipped
      <3>2. PICK x \in 1..((at + 1) - 1) : x <= Len(StartUp(o)) /\ Steers(StartUp(o)[x], f)
        BY <2>4 DEF Skipped
      <3>3. x \in 1..(at - 1) \/ x = at
        BY <1>2
      <3>4. x \notin 1..(at - 1)
        BY <2>3, <2>5, <3>1, <3>2 DEF Skipped
      <3> QED
        BY <2>1, <3>2, <3>3, <3>4
    <2>6. CASE CallSucceeds
      <3>1. PICK st : st = AfterSteps(Len(call.steps))
        OBVIOUS
      <3>2. ptr' = st.ptr /\ ignored' = ignored
        BY <2>6, <3>1 DEF CallSucceeds, Become
      <3>3. Len(call.steps) \in 0..Len(call.steps) /\ Len(call.steps) \in Nat
        BY <2>1
      <3>4. DOMAIN ptr \subseteq DOMAIN st.ptr
        <4>1. Grows(Present, st)
          BY <2>1, <2>2, <3>1, <3>3, AfterStepsInBounds
        <4> QED
          BY <4>1 DEF Grows, Present
      <3>5. \A k \in 1..Len(call.steps) : call.steps[k].do = "flag" => call.steps[k].field \in DOMAIN st.ptr
        BY <2>1, <2>2, <3>1, <3>3, StepsSet
      <3>6. ASSUME NEW f, Steers(call, f) PROVE f \in DOMAIN st.ptr
        <4>1. PICK k \in 1..Len(call.steps) : call.steps[k] = Flag(f)
          BY <3>6 DEF Steers, Has
        <4>2. call.steps[k].do = "flag" /\ call.steps[k].field = f
          BY <4>1 DEF Flag
        <4> QED
          BY <3>5, <4>2
      <3>7. A \subseteq B
        <4>1. \A f \in A : f \notin DOMAIN ptr'
          BY <2>4 DEF Skipped
        <4> QED
          BY <2>5, <3>2, <3>4, <3>6, <4>1
      <3>8. IsFiniteSet(A) /\ Cardinality(A) <= ignored
        BY <1>2, <2>3, <3>7, CardinalityBound
      <3> QED
        BY <1>1, <2>0, <2>4, <3>2, <3>8 DEF RuleInv
    <2>7. CASE FailIgnored
      <3>1. DOMAIN ptr \subseteq DOMAIN ptr' /\ ignored' = ignored + 1 /\ call.onfail = "ignore"
        BY <2>0, <2>7, FailingCall DEF FailIgnored
      <3>2. PICK f : \A g : Has(call.steps, Flag(g)) => g = f
        BY <2>1, <3>1, OneFlag
      <3>3. A \subseteq B \cup {f}
        BY <2>5, <3>1, <3>2 DEF Steers
      <3>4. IsFiniteSet(A) /\ Cardinality(A) <= ignored + 1
        BY <1>2, <2>3, <3>3, CardinalityBound
      <3> QED
        BY <1>1, <2>0, <2>4, <3>1, <3>4 DEF RuleInv
    <2> QED
      BY <1>11, <2>6, <2>7
  <1> QED
    BY <1>6, <1>7, <1>8, <1>9, <1>10, <1>11 DEF Next

\* Whatever the command line says and whichever calls fail, a scheduler whose handler
\* runs lacks at most one rule for every failure that main has passed over: a matcher
\* that could not be made costs no rule, since the first rule that needs it ends the
\* program, and a rule that fails takes no other with it.
THEOREM OneRulePerIgnoredFailure == Spec => []OneFaultOneRule
  <1>1. Init => RuleInv
    <2> SUFFICES ASSUME Init PROVE RuleInv
      OBVIOUS
    <2>1. phase = "args" /\ running = {} /\ ignored = 0
      BY DEF Init
    <2>2. MissingRules = {}
      BY <2>1 DEF MissingRules
    <2> QED
      BY <2>1, <2>2, FS_EmptySet DEF RuleInv
  <1>2. HostInv /\ StartInv /\ RuleInv /\ [Next]_vars => RuleInv'
    BY RuleInvStep
  <1>3. HostInv /\ StartInv /\ RuleInv => OneFaultOneRule
    <2> SUFFICES ASSUME HostInv, StartInv, RuleInv PROVE Cardinality(MissingRules) <= ignored
      BY DEF OneFaultOneRule
    <2>1. ignored \in Nat
      BY HostAssumption DEF HostInv
    <2>2. CASE phase = "build"
      BY <2>1, <2>2, MissingAreSkipped, CardinalityBound DEF RuleInv
    <2>3. CASE phase # "build"
      BY <2>3 DEF RuleInv
    <2> QED
      BY <2>2, <2>3
  <1> QED
    BY <1>1, <1>2, <1>3, HostInvariance, StartInvariance, PTL DEF Spec
-----------------------------------------------------------------------------
(***************************************************************************)
(* Fields by what becomes of them under given options: made (the field     *)
(* owns a resource), or pointed to what another field owns.                *)
(***************************************************************************)
HostBuffers == {"host_rq_buffer", "host_sq_buffer"}

PointedNames(o) ==
    HostBuffers
    \cup (IF o.buffer_location = 1 THEN {"rq_wqd_daddr"} ELSE {})
    \cup (IF o.use_copy = 0 THEN {"sq_wqd_daddr", "sqd_mkey"} ELSE {})
    \cup (IF o.buffer_location = 1 THEN {"sq_wqd_daddr"} ELSE {})

UsedFlagNames(o) ==
    AppFlags \cup RuleFlags
    \cup (IF o.buffer_location = 1 THEN {"rq_data_on_host", "sq_data_on_host"} ELSE {})
    \cup (IF o.use_copy = 0 THEN {"sq_data_reuses_rq"} ELSE {})

MadeFields(o) == {f \in DataFields(o) : Name(f) \notin PointedNames(o)}
PointedFields(o) == {f \in DataFields(o) : Name(f) \in PointedNames(o)}
UsedFlags(o) == {f \in FlagFields(o) : Name(f) \in UsedFlagNames(o)}

\* The flag that tells the clean-up not to release what field f points to.
GuardName(o, name) ==
    IF name = "rq_wqd_daddr" THEN "rq_data_on_host"
    ELSE IF o.use_copy = 0 THEN "sq_data_reuses_rq" ELSE "sq_data_on_host"
Guard(o, f) == OfQueue(Owner(f), f[3], GuardName(o, Name(f)))

\* Steps on the memory and the queues of a context.
PlainSteps(o) ==
    {s \in MakingSteps(o) :
        \/ s.do = "attempt"
        \/ /\ s.do = "make" /\ s.field \in MadeFields(o)
           /\ Name(s.field) \in QueueNames \cup {"host_alloc_base", "mr"}
        \/ s.do = "point" /\ s.field \in PointedFields(o)
        \/ s.do = "flag" /\ s.field \in UsedFlags(o) /\ Name(s.field) \in QueueFlags}

\* A field that is made to share a buffer or a key has its flag set before it, or in
\* the very next step.
GuardedSteps(o) ==
    {s \in Seq(PlainSteps(o)) :
        \A x \in 1..Len(s) :
            s[x].do = "point" /\ Name(s[x].field) \notin HostBuffers =>
                \/ \E y \in 1..(x - 1) : s[y] = Flag(Guard(o, s[x].field))
                \/ x + 1 \in 1..Len(s) /\ s[x + 1] = Flag(Guard(o, s[x].field))}

\* Concatenation keeps this.
LEMMA GuardedClosed ==
    ASSUME NEW o, NEW a \in GuardedSteps(o), NEW b \in GuardedSteps(o)
    PROVE  a \o b \in GuardedSteps(o)
  <1>1. a \in Seq(PlainSteps(o)) /\ b \in Seq(PlainSteps(o)) /\ Len(a) \in Nat /\ Len(b) \in Nat
    BY DEF GuardedSteps
  <1>2. PICK s : s = a \o b
    OBVIOUS
  <1>3. s \in Seq(PlainSteps(o)) /\ Len(s) = Len(a) + Len(b)
    BY <1>1, <1>2, ConcatElements
  <1>4. /\ \A x \in 1..Len(a) : x \in 1..Len(s) /\ s[x] = a[x]
        /\ \A x \in 1..Len(b) : Len(a) + x \in 1..Len(s) /\ s[Len(a) + x] = b[x]
    BY <1>1, <1>2, ConcatElements
  <1>5. \A x \in 1..Len(s) : \/ x \in 1..Len(a) /\ s[x] = a[x]
                             \/ \E y \in 1..Len(b) : x = Len(a) + y /\ s[x] = b[y]
    BY <1>1, <1>2, ConcatElements
  <1>6. ASSUME NEW x \in 1..Len(s), s[x].do = "point", Name(s[x].field) \notin HostBuffers, NEW e,
               e = Flag(Guard(o, s[x].field))
        PROVE  (\E y \in 1..(x - 1) : s[y] = e) \/ (x + 1 \in 1..Len(s) /\ s[x + 1] = e)
    <2>1. CASE x \in 1..Len(a) /\ s[x] = a[x]
      <3>1. (\E y \in 1..(x - 1) : a[y] = e) \/ (x + 1 \in 1..Len(a) /\ a[x + 1] = e)
        BY <1>6, <2>1 DEF GuardedSteps
      <3>2. \A y \in 1..(x - 1) : y \in 1..Len(a)
        BY <1>1, <2>1
      <3> QED
        BY <1>4, <3>1, <3>2
    <2>2. ASSUME NEW z \in 1..Len(b), x = Len(a) + z, s[x] = b[z]
          PROVE  (\E y \in 1..(x - 1) : s[y] = e) \/ (x + 1 \in 1..Len(s) /\ s[x + 1] = e)
      <3>1. (\E y \in 1..(z - 1) : b[y] = e) \/ (z + 1 \in 1..Len(b) /\ b[z + 1] = e)
        BY <1>6, <2>2 DEF GuardedSteps
      <3>2. \A y \in 1..(z - 1) : y \in 1..Len(b) /\ Len(a) + y \in 1..(x - 1)
        BY <1>1, <2>2
      <3>3. Len(a) + (z + 1) = x + 1
        BY <1>1, <2>2
      <3> QED
        BY <1>4, <3>1, <3>2, <3>3
    <2> QED
      BY <1>5, <2>1, <2>2
  <1>7. s \in GuardedSteps(o)
    BY <1>3, <1>6 DEF GuardedSteps
  <1> QED
    BY <1>2, <1>7

\* Fields of a context and of its queues, by what becomes of them.
LEMMA FieldsByUse ==
    ASSUME NEW o, NEW c \in ContextsOf(o), NEW j \in QueuesOf(o, c)
    PROVE  /\ \A n \in ContextNames : Of(c, n) \in MadeFields(o)
           /\ \A n \in QueueNames : n \notin PointedNames(o) => OfQueue(c, j, n) \in MadeFields(o)
           /\ \A n \in PointedNames(o) : OfQueue(c, j, n) \in PointedFields(o)
           /\ \A n \in QueueFlags : n \in UsedFlagNames(o) => OfQueue(c, j, n) \in UsedFlags(o)
           /\ c \in SchContexts(o) =>
                  /\ \A n \in RuleNames : OfQueue(c, j, n) \in MadeFields(o)
                  /\ \A n \in RuleFlags : OfQueue(c, j, n) \in UsedFlags(o)
  <1>1. \A n : Name(Of(c, n)) = n /\ Name(OfQueue(c, j, n)) = n
    BY DEF Name, Of, OfQueue
  <1>2. PointedNames(o) \subseteq QueueNames
    BY DEF PointedNames, HostBuffers, QueueNames
  <1>3. \A n \in ContextNames \cup RuleNames : n \notin PointedNames(o)
    BY DEF PointedNames, HostBuffers, ContextNames, RuleNames
  <1>4. RuleFlags \subseteq UsedFlagNames(o)
    BY DEF UsedFlagNames
  <1> QED
    BY <1>1, <1>2, <1>3, <1>4, FieldsOfContexts DEF MadeFields, PointedFields, UsedFlags

\* Single steps are guarded, unless they share a buffer or a key.
LEMMA GuardedPieces ==
    ASSUME NEW o \in OptionRecords, NEW c \in ContextsOf(o), NEW j \in QueuesOf(o, c)
    PROVE  /\ \A n \in {"host_alloc_base", "mr"} : <<Make(Of(c, n))>> \in GuardedSteps(o)
           /\ \A n \in QueueNames : n \notin PointedNames(o) => <<Make(OfQueue(c, j, n))>> \in GuardedSteps(o)
           /\ <<Attempt>> \in GuardedSteps(o)
           /\ \A n \in HostBuffers : \A g \in DataFields(o) : <<Point(OfQueue(c, j, n), g)>> \in GuardedSteps(o)
           /\ \A n \in QueueFlags : n \in UsedFlagNames(o) => <<Flag(OfQueue(c, j, n))>> \in GuardedSteps(o)
           /\ \A n \in PointedNames(o) : \A g \in DataFields(o) : Point(OfQueue(c, j, n), g) \in PlainSteps(o)
           /\ \A n \in QueueFlags : n \in UsedFlagNames(o) => Flag(OfQueue(c, j, n)) \in PlainSteps(o)
  <1>1. \A n : Name(Of(c, n)) = n /\ Name(OfQueue(c, j, n)) = n
    BY DEF Name, Of, OfQueue
  <1>2. /\ \A f : Make(f).do = "make" /\ Make(f).field = f
        /\ \A f : Flag(f).do = "flag" /\ Flag(f).field = f
        /\ \A f, g : Point(f, g).do = "point" /\ Point(f, g).field = f
        /\ Attempt.do = "attempt"
    BY DEF Make, Flag, Point, Attempt
  <1>3. /\ \A f \in MadeFields(o) : Make(f) \in MakingSteps(o)
        /\ \A f \in PointedFields(o), g \in DataFields(o) : Point(f, g) \in MakingSteps(o)
        /\ \A f \in UsedFlags(o) : Flag(f) \in MakingSteps(o)
        /\ Attempt \in MakingSteps(o)
    BY StepsOfFields DEF MadeFields, PointedFields, UsedFlags
  <1>4. ASSUME NEW s \in PlainSteps(o), s.do = "point" => Name(s.field) \in HostBuffers
        PROVE  <<s>> \in GuardedSteps(o)
    <2>1. <<s>> \in Seq(PlainSteps(o)) /\ \A x \in 1..Len(<<s>>) : <<s>>[x] = s
      OBVIOUS
    <2> QED
      BY <1>4, <2>1, Zenon DEF GuardedSteps
  <1>5. ASSUME NEW n \in {"host_alloc_base", "mr"} PROVE <<Make(Of(c, n))>> \in GuardedSteps(o)
    <2>1. Of(c, n) \in MadeFields(o)
      BY FieldsByUse DEF ContextNames
    <2>2. Make(Of(c, n)) \in PlainSteps(o)
      BY <1>1, <1>2, <1>3, <2>1 DEF PlainSteps
    <2> QED
      BY <1>2, <1>4, <2>2
  <1>6. ASSUME NEW n \in QueueNames, n \notin PointedNames(o) PROVE <<Make(OfQueue(c, j, n))>> \in GuardedSteps(o)
    <2>1. OfQueue(c, j, n) \in MadeFields(o)
      BY <1>6, FieldsByUse
    <2>2. Make(OfQueue(c, j, n)) \in PlainSteps(o)
      BY <1>1, <1>2, <1>3, <2>1 DEF PlainSteps
    <2> QED
      BY <1>2, <1>4, <2>2
  <1>7. <<Attempt>> \in GuardedSteps(o)
    <2>1. Attempt \in PlainSteps(o)
      BY <1>2, <1>3 DEF PlainSteps
    <2> QED
      BY <1>2, <1>4, <2>1
  <1>8. ASSUME NEW n \in PointedNames(o), NEW g \in DataFields(o) PROVE Point(OfQueue(c, j, n), g) \in PlainSteps(o)
    <2>1. OfQueue(c, j, n) \in PointedFields(o)
      BY FieldsByUse
    <2> QED
      BY <1>2, <1>3, <2>1 DEF PlainSteps
  <1>9. ASSUME NEW n \in HostBuffers, NEW g \in DataFields(o) PROVE <<Point(OfQueue(c, j, n), g)>> \in GuardedSteps(o)
    <2>1. n \in PointedNames(o)
      BY DEF PointedNames
    <2> QED
      BY <1>1, <1>2, <1>4, <1>8, <2>1
  <1>10. ASSUME NEW n \in QueueFlags, n \in UsedFlagNames(o) PROVE Flag(OfQueue(c, j, n)) \in PlainSteps(o)
    <2>1. OfQueue(c, j, n) \in UsedFlags(o)
      BY <1>10, FieldsByUse
    <2> QED
      BY <1>1, <1>2, <1>3, <2>1 DEF PlainSteps
  <1>11. ASSUME NEW n \in QueueFlags, n \in UsedFlagNames(o) PROVE <<Flag(OfQueue(c, j, n))>> \in GuardedSteps(o)
    BY <1>2, <1>4, <1>10, <1>11
  <1> QED
    BY <1>5, <1>6, <1>7, <1>8, <1>9, <1>10, <1>11

\* Sequences of two and three guarded steps.
LEMMA GuardedTuples ==
    ASSUME NEW o, NEW a, NEW b, <<a>> \in GuardedSteps(o), <<b>> \in GuardedSteps(o)
    PROVE  /\ <<a, b>> \in GuardedSteps(o)
           /\ \A e : <<e>> \in GuardedSteps(o) => <<a, b, e>> \in GuardedSteps(o)
  <1>1. <<a, b>> \in GuardedSteps(o)
    BY GuardedClosed, ConcatShort, Zenon
  <1>2. ASSUME NEW e, <<e>> \in GuardedSteps(o) PROVE <<a, b, e>> \in GuardedSteps(o)
    BY <1>1, <1>2, GuardedClosed, ConcatShort, Zenon
  <1> QED
    BY <1>1, <1>2

\* A shared buffer together with its flag.
LEMMA GuardedShares ==
    ASSUME NEW o, NEW e \in PlainSteps(o), NEW s \in PlainSteps(o), NEW t \in PlainSteps(o),
           e.do = "flag", e = Flag(Guard(o, s.field)), e = Flag(Guard(o, t.field))
    PROVE  <<s, e>> \in GuardedSteps(o) /\ <<e, s, t>> \in GuardedSteps(o)
  <1>1. PICK u : u = <<s, e>>
    OBVIOUS
  <1>2. u \in Seq(PlainSteps(o)) /\ Len(u) = 2 /\ u[1] = s /\ u[2] = e
    BY <1>1
  <1>3. ASSUME NEW x \in 1..Len(u), u[x].do = "point"
        PROVE  x + 1 \in 1..Len(u) /\ u[x + 1] = Flag(Guard(o, u[x].field))
    <2>1. x = 1 \/ x = 2
      BY <1>2
    <2>2. x = 1 /\ x + 1 = 2 /\ x + 1 \in 1..Len(u)
      BY <1>2, <1>3, <2>1
    <2>3. u[x] = s /\ u[x + 1] = e
      BY <1>2, <2>2
    <2> QED
      BY <2>2, <2>3
  <1>4. u \in GuardedSteps(o)
    BY <1>2, <1>3, Zenon DEF GuardedSteps
  <1>5. PICK v : v = <<e, s, t>>
    OBVIOUS
  <1>6. v \in Seq(PlainSteps(o)) /\ Len(v) = 3 /\ v[1] = e /\ v[2] = s /\ v[3] = t
    BY <1>5
  <1>7. ASSUME NEW x \in 1..Len(v), v[x].do = "point"
        PROVE  \E y \in 1..(x - 1) : v[y] = Flag(Guard(o, v[x].field))
    <2>1. x = 1 \/ x = 2 \/ x = 3
      BY <1>6
    <2>2. x = 2 \/ x = 3
      BY <1>6, <1>7, <2>1
    <2>3. 1 \in 1..(x - 1)
      BY <2>2
    <2>4. v[1] = Flag(Guard(o, v[x].field))
      BY <1>6, <2>2
    <2> QED
      BY <2>3, <2>4
  <1>8. v \in GuardedSteps(o)
    BY <1>6, <1>7, Zenon DEF GuardedSteps
  <1> QED
    BY <1>1, <1>4, <1>5, <1>8

\* One round of each creating function.
LEMMA GuardedRounds ==
    ASSUME NEW o \in OptionRecords, NEW c \in ContextsOf(o), NEW j \in QueuesOf(o, c)
    PROVE  /\ HostRound(o, c, j) \in GuardedSteps(o)
           /\ RqRound(o, c, j) \in GuardedSteps(o)
           /\ SqRound(o, c, j) \in GuardedSteps(o)
  <1> DEFINE G == GuardedSteps(o)
             q(n) == OfQueue(c, j, n)
  <1>1. /\ \A n \in QueueNames : n \notin PointedNames(o) => <<Make(q(n))>> \in G
        /\ <<Attempt>> \in G
        /\ \A n \in HostBuffers : \A g \in DataFields(o) : <<Point(q(n), g)>> \in G
        /\ \A n \in QueueFlags : n \in UsedFlagNames(o) => <<Flag(q(n))>> \in G
        /\ \A n \in PointedNames(o) : \A g \in DataFields(o) : Point(q(n), g) \in PlainSteps(o)
        /\ \A n \in QueueFlags : n \in UsedFlagNames(o) => Flag(q(n)) \in PlainSteps(o)
    BY GuardedPieces
  <1>2. /\ Of(c, "host_alloc_base") \in DataFields(o)
        /\ \A n \in QueueNames : q(n) \in DataFields(o)
    BY FieldsOfContexts DEF ContextNames
  <1>3. \A a, b \in G : a \o b \in G
    BY GuardedClosed
  <1>4. \A a, b : <<a>> \in G /\ <<b>> \in G => <<a, b>> \in G
    BY GuardedTuples
  <1>5. \A a, b, e : <<a>> \in G /\ <<b>> \in G /\ <<e>> \in G => <<a, b, e>> \in G
    BY GuardedTuples
  <1>6. \A n, m : Guard(o, q(n)) = q(GuardName(o, n))
    BY DEF Guard, OfQueue, Owner, Name
  <1>7. \A f, g : Point(f, g).field = f /\ Flag(f).do = "flag"
    BY DEF Point, Flag
  <1>8. o.buffer_location \in {0, 1} /\ o.use_copy \in {0, 1}
    BY OptionFacts
  <1>9. {"host_rq_buffer", "host_sq_buffer", "rq_wqd_daddr", "rqd_mkey"} \subseteq QueueNames
    BY DEF QueueNames
  <1>10. HostRound(o, c, j) \in G
    <2>1. PICK g \in DataFields(o) :
             g = IF o.use_copy = 0 THEN q("host_rq_buffer") ELSE Of(c, "host_alloc_base")
      BY <1>2, <1>9
    <2>2. <<Point(q("host_rq_buffer"), Of(c, "host_alloc_base"))>> \in G /\ <<Point(q("host_sq_buffer"), g)>> \in G
      BY <1>1, <1>2 DEF HostBuffers
    <2>3. <<Point(q("host_rq_buffer"), Of(c, "host_alloc_base")), Point(q("host_sq_buffer"), g)>> \in G
      BY <1>4, <2>2, Zenon
    <2> QED
      BY <2>1, <2>3, Zenon DEF HostRound
  <1>11. \A n \in {"rq_cq_dbr_daddr", "rq_cq_ring_daddr", "flexio_rq_cq_ptr", "rqd_mkey", "rq_wq_ring_daddr",
                   "rq_wq_dbr_daddr", "flexio_rq_ptr", "sq_cq_dbr_daddr", "sq_cq_ring_daddr",
                   "flexio_sq_cq_ptr", "sq_wq_ring_daddr", "flexio_sq_ptr"} : <<Make(q(n))>> \in G
    <2>1. \A n \in {"rq_cq_dbr_daddr", "rq_cq_ring_daddr", "flexio_rq_cq_ptr", "rqd_mkey", "rq_wq_ring_daddr",
                    "rq_wq_dbr_daddr", "flexio_rq_ptr", "sq_cq_dbr_daddr", "sq_cq_ring_daddr",
                    "flexio_sq_cq_ptr", "sq_wq_ring_daddr", "flexio_sq_ptr"} :
              n \in QueueNames /\ n \notin PointedNames(o)
      BY DEF QueueNames, PointedNames, HostBuffers
    <2> QED
      BY <1>1, <2>1
  <1> HIDE DEF G
  <1>12. /\ <<Make(q("rq_cq_dbr_daddr")), Make(q("rq_cq_ring_daddr"))>> \in G
         /\ <<Make(q("sq_cq_dbr_daddr")), Make(q("sq_cq_ring_daddr"))>> \in G
         /\ <<Make(q("rq_wq_ring_daddr")), Make(q("rq_wq_dbr_daddr"))>> \in G
         /\ <<Attempt, Make(q("flexio_rq_ptr")), Attempt>> \in G
    <2>1. /\ <<Make(q("rq_cq_dbr_daddr"))>> \in G /\ <<Make(q("rq_cq_ring_daddr"))>> \in G
          /\ <<Make(q("sq_cq_dbr_daddr"))>> \in G /\ <<Make(q("sq_cq_ring_daddr"))>> \in G
          /\ <<Make(q("rq_wq_ring_daddr"))>> \in G /\ <<Make(q("rq_wq_dbr_daddr"))>> \in G
          /\ <<Make(q("flexio_rq_ptr"))>> \in G
      BY <1>11
    <2> QED
      BY <1>1, <1>4, <1>5, <2>1, Zenon
  <1>13. cq_mem_alloc(c, j, "rq") \in G /\ cq_mem_alloc(c, j, "sq") \in G
    <2>1. /\ cq_mem_alloc(c, j, "rq") = <<Make(q("rq_cq_dbr_daddr")), Make(q("rq_cq_ring_daddr"))>>
          /\ cq_mem_alloc(c, j, "sq") = <<Make(q("sq_cq_dbr_daddr")), Make(q("sq_cq_ring_daddr"))>>
      BY DEF cq_mem_alloc
    <2> QED
      BY <1>12, <2>1, Zenon
  <1>14. rq_mem_alloc(o, c, j) \in G
    <2>1. CASE o.buffer_location = 0
      <3>1. <<Make(q("rq_wqd_daddr"))>> \in G
        <4>1. "rq_wqd_daddr" \in QueueNames /\ "rq_wqd_daddr" \notin PointedNames(o)
          BY <2>1 DEF QueueNames, PointedNames, HostBuffers
        <4> QED
          BY <1>1, <4>1
      <3>2. <<Make(q("rqd_mkey"))>> \in G
        BY <1>11
      <3>3. rq_mem_alloc(o, c, j) =
              (<<Make(q("rq_wqd_daddr"))>> \o <<Make(q("rqd_mkey"))>> \o <<Attempt>>)
              \o <<Make(q("rq_wq_ring_daddr")), Make(q("rq_wq_dbr_daddr"))>>
        BY <2>1, Zenon DEF rq_mem_alloc, create_dpa_mkey
      <3>4. <<Make(q("rq_wqd_daddr"))>> \o <<Make(q("rqd_mkey"))>> \o <<Attempt>> \in G
        BY <1>1, <1>3, <3>1, <3>2, Zenon DEF G
      <3> QED
        BY <1>3, <1>12, <3>3, <3>4, Zenon
    <2>2. CASE o.buffer_location # 0
      <3>1. PICK s \in PlainSteps(o) : s = Point(q("rq_wqd_daddr"), q("host_rq_buffer"))
        <4>1. "rq_wqd_daddr" \in PointedNames(o)
          BY <1>8, <2>2 DEF PointedNames
        <4>2. q("host_rq_buffer") \in DataFields(o)
          BY <1>2, <1>9
        <4> QED
          BY <1>1, <4>1, <4>2, Zenon
      <3>2. PICK e \in PlainSteps(o) : e = Flag(q("rq_data_on_host"))
        <4>1. "rq_data_on_host" \in QueueFlags /\ "rq_data_on_host" \in UsedFlagNames(o)
          BY <1>8, <2>2 DEF QueueFlags, UsedFlagNames
        <4> QED
          BY <1>1, <4>1, Zenon
      <3>3. e.do = "flag" /\ e = Flag(Guard(o, s.field))
        BY <1>6, <1>7, <3>1, <3>2 DEF GuardName
      <3>4. <<s, e>> \in G
        BY <3>3, GuardedShares DEF G
      <3>5. rq_mem_alloc(o, c, j) = <<s, e>> \o <<Make(q("rq_wq_ring_daddr")), Make(q("rq_wq_dbr_daddr"))>>
        BY <2>2, <3>1, <3>2, Zenon DEF rq_mem_alloc
      <3> QED
        BY <1>3, <1>12, <3>4, <3>5, Zenon
    <2> QED
      BY <2>1, <2>2
  <1>15. RqRound(o, c, j) \in G
    <2>1. <<Make(q("flexio_rq_cq_ptr"))>> \in G
      BY <1>11
    <2> QED
      BY <1>3, <1>12, <1>13, <1>14, <2>1, Zenon DEF RqRound
  <1>16. sq_mem_alloc(o, c, j) \in G
    <2>0. <<Make(q("sq_wq_ring_daddr"))>> \in G
      BY <1>11
    <2>1. CASE o.use_copy = 0
      <3>1. PICK e \in PlainSteps(o) : e = Flag(q("sq_data_reuses_rq"))
        <4>1. "sq_data_reuses_rq" \in QueueFlags /\ "sq_data_reuses_rq" \in UsedFlagNames(o)
          BY <2>1 DEF QueueFlags, UsedFlagNames
        <4> QED
          BY <1>1, <4>1, Zenon
      <3>2. "sq_wqd_daddr" \in PointedNames(o) /\ "sqd_mkey" \in PointedNames(o)
        BY <2>1 DEF PointedNames
      <3>3. q("rq_wqd_daddr") \in DataFields(o) /\ q("rqd_mkey") \in DataFields(o)
        BY <1>2, <1>9
      <3>4. PICK s \in PlainSteps(o) : s = Point(q("sq_wqd_daddr"), q("rq_wqd_daddr"))
        BY <1>1, <3>2, <3>3, Zenon
      <3>5. PICK t \in PlainSteps(o) : t = Point(q("sqd_mkey"), q("rqd_mkey"))
        BY <1>1, <3>2, <3>3, Zenon
      <3>6. e.do = "flag" /\ e = Flag(Guard(o, s.field)) /\ e = Flag(Guard(o, t.field))
        BY <1>6, <1>7, <2>1, <3>1, <3>4, <3>5 DEF GuardName
      <3>7. <<e, s, t>> \in G
        BY <3>6, GuardedShares DEF G
      <3>8. CASE o.buffer_location = 1
        <4>1. <<Flag(q("sq_data_on_host"))>> \in G
          <5>1. "sq_data_on_host" \in QueueFlags /\ "sq_data_on_host" \in UsedFlagNames(o)
            BY <3>8 DEF QueueFlags, UsedFlagNames
          <5> QED
            BY <1>1, <5>1
        <4>2. sq_mem_alloc(o, c, j) = (<<e, s, t>> \o <<Flag(q("sq_data_on_host"))>>) \o <<Make(q("sq_wq_ring_daddr"))>>
          BY <2>1, <3>1, <3>4, <3>5, <3>8 DEF sq_mem_alloc
        <4> QED
          BY <1>3, <2>0, <3>7, <4>1, <4>2, Zenon
      <3>9. CASE o.buffer_location # 1
        <4>1. sq_mem_alloc(o, c, j) = (<<e, s, t>> \o <<>>) \o <<Make(q("sq_wq_ring_daddr"))>>
          BY <2>1, <3>1, <3>4, <3>5, <3>9 DEF sq_mem_alloc
        <4>2. <<>> \in G
          BY DEF G, GuardedSteps
        <4> QED
          BY <1>3, <2>0, <3>7, <4>1, <4>2, Zenon
      <3> QED
        BY <3>8, <3>9
    <2>2. CASE o.use_copy # 0 /\ o.buffer_location = 0
      <3>1. \A n \in {"sq_wqd_daddr", "sqd_mkey"} : n \in QueueNames /\ n \notin PointedNames(o)
        BY <2>2 DEF QueueNames, PointedNames, HostBuffers
      <3>2. <<Make(q("sq_wqd_daddr"))>> \in G /\ <<Make(q("sqd_mkey"))>> \in G
        BY <1>1, <3>1
      <3>3. sq_mem_alloc(o, c, j) = (<<Make(q("sq_wqd_daddr"))>> \o <<Make(q("sqd_mkey"))>>) \o <<Make(q("sq_wq_ring_daddr"))>>
        BY <2>2 DEF sq_mem_alloc, create_dpa_mkey
      <3> QED
        BY <1>3, <2>0, <3>2, <3>3, Zenon
    <2>3. CASE o.use_copy # 0 /\ o.buffer_location # 0
      <3>1. PICK s \in PlainSteps(o) : s = Point(q("sq_wqd_daddr"), q("host_sq_buffer"))
        <4>1. "sq_wqd_daddr" \in PointedNames(o)
          BY <1>8, <2>3 DEF PointedNames
        <4>2. q("host_sq_buffer") \in DataFields(o)
          BY <1>2, <1>9
        <4> QED
          BY <1>1, <4>1, <4>2, Zenon
      <3>2. PICK e \in PlainSteps(o) : e = Flag(q("sq_data_on_host"))
        <4>1. "sq_data_on_host" \in QueueFlags /\ "sq_data_on_host" \in UsedFlagNames(o)
          BY <1>8, <2>3 DEF QueueFlags, UsedFlagNames
        <4> QED
          BY <1>1, <4>1, Zenon
      <3>3. e.do = "flag" /\ e = Flag(Guard(o, s.field))
        BY <1>6, <1>7, <2>3, <3>1, <3>2 DEF GuardName
      <3>4. <<s, e>> \in G
        BY <3>3, GuardedShares DEF G
      <3>5. sq_mem_alloc(o, c, j) = <<s, e>> \o <<Make(q("sq_wq_ring_daddr"))>>
        BY <2>3, <3>1, <3>2 DEF sq_mem_alloc
      <3> QED
        BY <1>3, <2>0, <3>4, <3>5, Zenon
    <2> QED
      BY <2>1, <2>2, <2>3
  <1>17. SqRound(o, c, j) \in G
    <2>1. <<Make(q("flexio_sq_cq_ptr"))>> \in G /\ <<Make(q("flexio_sq_ptr"))>> \in G
      BY <1>11
    <2> QED
      BY <1>3, <1>13, <1>16, <2>1, Zenon DEF SqRound
  <1> QED
    BY <1>10, <1>15, <1>17 DEF G

\* The steps of the three functions that create a context's memory and queues.
LEMMA GuardedFunctions ==
    ASSUME NEW o \in OptionRecords, NEW c \in ContextsOf(o)
    PROVE  /\ alloc_context_host_memory(o, c) \in GuardedSteps(o)
           /\ create_app_rq(o, c) \in GuardedSteps(o)
           /\ create_app_sq(o, c) \in GuardedSteps(o)
  <1>1. num_queues(o, c) \in Nat
    BY OptionFacts DEF num_queues
  <1>2. \A i \in 1..num_queues(o, c) : i - 1 \in QueuesOf(o, c)
    BY <1>1 DEF QueuesOf
  <1>3. /\ GuardedSteps(o) \in SUBSET Seq(PlainSteps(o)) /\ <<>> \in GuardedSteps(o)
        /\ \A a, b \in GuardedSteps(o) : a \o b \in GuardedSteps(o)
    <2>1. GuardedSteps(o) \in SUBSET Seq(PlainSteps(o)) /\ <<>> \in GuardedSteps(o)
      BY DEF GuardedSteps
    <2> QED
      BY <2>1, GuardedClosed
  <1>4. ASSUME NEW f \in [1..num_queues(o, c) -> GuardedSteps(o)] PROVE FlattenSeq(f) \in GuardedSteps(o)
    BY <1>1, <1>3, FlattenSeqClosed
  <1>5. PICK h, r, s : /\ h = [i \in 1..num_queues(o, c) |-> HostRound(o, c, i - 1)]
                       /\ r = [i \in 1..num_queues(o, c) |-> RqRound(o, c, i - 1)]
                       /\ s = [i \in 1..num_queues(o, c) |-> SqRound(o, c, i - 1)]
    OBVIOUS
  <1>6. /\ h \in [1..num_queues(o, c) -> GuardedSteps(o)]
        /\ r \in [1..num_queues(o, c) -> GuardedSteps(o)]
        /\ s \in [1..num_queues(o, c) -> GuardedSteps(o)]
    BY <1>2, <1>5, GuardedRounds, Zenon
  <1>7. create_app_rq(o, c) = FlattenSeq(r) /\ create_app_sq(o, c) = FlattenSeq(s)
    BY <1>5 DEF create_app_rq, create_app_sq, Loop, RqRound, SqRound
  <1>8. alloc_context_host_memory(o, c) =
          <<Make(Of(c, "host_alloc_base")), Make(Of(c, "mr"))>>
          \o (IF o.buffer_location = 1 THEN FlattenSeq(h) ELSE <<>>)
    BY <1>5 DEF alloc_context_host_memory, Loop, HostRound
  <1>9. <<Make(Of(c, "host_alloc_base")), Make(Of(c, "mr"))>> \in GuardedSteps(o)
    <2>1. 0 \in QueuesOf(o, c)
      BY OptionFacts DEF QueuesOf, num_queues
    <2>2. <<Make(Of(c, "host_alloc_base"))>> \in GuardedSteps(o) /\ <<Make(Of(c, "mr"))>> \in GuardedSteps(o)
      BY <2>1, GuardedPieces
    <2> QED
      BY <2>2, GuardedTuples, Zenon
  <1>10. (IF o.buffer_location = 1 THEN FlattenSeq(h) ELSE <<>>) \in GuardedSteps(o)
    BY <1>3, <1>4, <1>6, Zenon
  <1>11. alloc_context_host_memory(o, c) \in GuardedSteps(o)
    BY <1>3, <1>8, <1>9, <1>10, Zenon
  <1>12. create_app_rq(o, c) \in GuardedSteps(o) /\ create_app_sq(o, c) \in GuardedSteps(o)
    BY <1>4, <1>6, <1>7, Zenon
  <1> QED
    BY <1>11, <1>12

\* The pointer that is set once a rule, or a matcher, is complete.
RuleFlagName(name) ==
    IF name \in {"rx_action", "rx_rule"} THEN "rx_flow_rule"
    ELSE IF name \in {"tx_action", "tx_rule"} THEN "tx_flow_rule" ELSE "tx_flow_rule2"
RuleFlag(f) == OfQueue(Owner(f), f[3], RuleFlagName(Name(f)))

\* Step k of call ca: it makes, shares or sets what is to be made, shared or set; a
\* handler is made by a call of its own; a shared buffer is flagged; and what a rule
\* consists of is taken back when the rule cannot be completed.
Shaped(o, ca, k, s) ==
    /\ s.do = "make" => s.field \in MadeFields(o)
    /\ s.do = "point" => s.field \in PointedFields(o)
    /\ s.do = "flag" => s.field \in UsedFlags(o)
    /\ s.do \in {"make", "point", "flag"} /\ Name(s.field) = "event_handler" =>
          ca = CreateHandler(Owner(s.field))
    /\ s.do = "point" /\ Name(s.field) \notin HostBuffers =>
          \/ \E y \in 1..(k - 1) : ca.steps[y] = Flag(Guard(o, s.field))
          \/ k + 1 \in 1..Len(ca.steps) /\ ca.steps[k + 1] = Flag(Guard(o, s.field))
    /\ s.do = "make" /\ Name(s.field) \in RuleNames =>
          ca.undo /\ Has(ca.steps, Flag(RuleFlag(s.field)))

ShapedCall(o, ca) == \A k \in 1..Len(ca.steps) : Shaped(o, ca, k, ca.steps[k])

\* Steps that make what belongs neither to a rule nor to a handler, or set a flag.
SimpleSteps(o) ==
    {s \in MakingSteps(o) :
        \/ s.do = "attempt"
        \/ s.do = "make" /\ s.field \in MadeFields(o) /\ Name(s.field) \notin RuleNames \cup {"event_handler"}
        \/ s.do = "flag" /\ s.field \in UsedFlags(o)}

\* Names are of one kind.
LEMMA NamesApart ==
    /\ \A n \in QueueNames : n \notin RuleNames /\ n # "event_handler"
    /\ \A n \in AppNames \cup MatcherNames : n \notin RuleNames /\ n # "event_handler"
    /\ \A n \in FlagNames : n # "event_handler"
    /\ \A n \in RuleNames : n # "event_handler"
    /\ \A o : "event_handler" \notin PointedNames(o)
    /\ \A o : \A n \in AppNames \cup MatcherNames : n \notin PointedNames(o)
  <1>1. /\ \A n \in QueueNames : n \notin RuleNames /\ n # "event_handler"
        /\ \A n \in RuleNames : n # "event_handler"
    BY DEF QueueNames, RuleNames
  <1>2. \A n \in AppNames \cup MatcherNames : n \notin RuleNames /\ n # "event_handler"
    BY DEF AppNames, MatcherNames, RuleNames
  <1>3. \A n \in FlagNames : n # "event_handler"
    BY DEF FlagNames, AppFlags, QueueFlags, RuleFlags
  <1>4. \A o : "event_handler" \notin PointedNames(o)
    BY DEF PointedNames, HostBuffers
  <1>5. \A o : \A n \in AppNames \cup MatcherNames : n \notin PointedNames(o)
    BY DEF PointedNames, HostBuffers, AppNames, MatcherNames
  <1> QED
    BY <1>1, <1>2, <1>3, <1>4, <1>5

\* Flags have the names of flags.
LEMMA FlagsNamed ==
    ASSUME NEW o, NEW f \in FlagFields(o)
    PROVE  Name(f) \in FlagNames
  BY DEF FlagFields, Name, App, OfQueue, FlagNames

\* Calls with such steps, and those that create memory and queues, are shaped.
LEMMA SimpleShaped ==
    ASSUME NEW o, NEW ca, ca.steps \in Seq(SimpleSteps(o)) \/ ca.steps \in GuardedSteps(o)
    PROVE  ShapedCall(o, ca)
  <1>0. \A f \in UsedFlags(o) : Name(f) # "event_handler"
    BY FlagsNamed, NamesApart DEF UsedFlags
  <1>1. CASE ca.steps \in Seq(SimpleSteps(o))
    <2>1. ASSUME NEW k \in 1..Len(ca.steps), NEW s \in SimpleSteps(o) PROVE Shaped(o, ca, k, s)
      <3>1. s.do \in {"attempt", "make", "flag"}
        BY DEF SimpleSteps
      <3>2. /\ s.do = "make" => s.field \in MadeFields(o) /\ Name(s.field) \notin RuleNames /\ Name(s.field) # "event_handler"
            /\ s.do = "flag" => s.field \in UsedFlags(o)
        BY DEF SimpleSteps
      <3>3. s.do # "point"
        BY <3>1
      <3> QED
        BY <1>0, <3>1, <3>2, <3>3 DEF Shaped
    <2>2. \A k \in 1..Len(ca.steps) : ca.steps[k] \in SimpleSteps(o)
      BY <1>1
    <2> QED
      BY <2>1, <2>2, Zenon DEF ShapedCall
  <1>2. CASE ca.steps \in GuardedSteps(o)
    <2>1. ASSUME NEW k \in 1..Len(ca.steps), NEW s, s = ca.steps[k] PROVE Shaped(o, ca, k, s)
      <3>1. s \in PlainSteps(o)
        BY <1>2, <2>1 DEF GuardedSteps
      <3>2. /\ s.do = "make" => s.field \in MadeFields(o) /\ Name(s.field) \in QueueNames \cup {"host_alloc_base", "mr"}
            /\ s.do = "point" => s.field \in PointedFields(o)
            /\ s.do = "flag" => s.field \in UsedFlags(o)
            /\ s.do \in {"attempt", "make", "point", "flag"}
        BY <3>1 DEF PlainSteps
      <3>3. s.do = "make" => Name(s.field) \notin RuleNames /\ Name(s.field) # "event_handler"
        BY <3>2, NamesApart DEF RuleNames
      <3>4. s.do = "point" => Name(s.field) # "event_handler"
        BY <3>2, NamesApart DEF PointedFields
      <3>5. s.do = "point" /\ Name(s.field) \notin HostBuffers =>
              \/ \E y \in 1..(k - 1) : ca.steps[y] = Flag(Guard(o, s.field))
              \/ k + 1 \in 1..Len(ca.steps) /\ ca.steps[k + 1] = Flag(Guard(o, s.field))
        BY <1>2, <2>1, Zenon DEF GuardedSteps
      <3> QED
        BY <1>0, <3>2, <3>3, <3>4, <3>5, Zenon DEF Shaped
    <2> QED
      BY <2>1, Zenon DEF ShapedCall
  <1> QED
    BY <1>1, <1>2

\* A rule: two things are made, and then its flag is set.
LEMMA RuleShaped ==
    ASSUME NEW o, NEW c \in ContextsOf(o), NEW j \in QueuesOf(o, c), c \in SchContexts(o),
           NEW a, NEW b, NEW f, NEW g, NEW h, NEW n, NEW m, NEW fl,
           f = OfQueue(c, j, n), g = OfQueue(c, j, m), h = OfQueue(c, j, fl),
           n \in RuleNames, m \in RuleNames, RuleFlagName(n) = fl, RuleFlagName(m) = fl, fl \in RuleFlags,
           a.do = "make", a.field = f, b.do = "make", b.field = g,
           NEW ca, ca = RuleCall(<<a, b>> \o <<Flag(h)>>)
    PROVE  ShapedCall(o, ca)
  <1>1. ca.steps = <<a, b, Flag(h)>> /\ ca.undo
    <2>1. ca.steps = <<a, b>> \o <<Flag(h)>> /\ ca.undo
      BY DEF RuleCall
    <2>2. <<a, b>> \o <<Flag(h)>> = <<a, b, Flag(h)>>
      BY ConcatShort
    <2> QED
      BY <2>1, <2>2, Zenon
  <1>2. PICK s : s = ca.steps
    OBVIOUS
  <1>3. Len(s) = 3 /\ s[1] = a /\ s[2] = b /\ s[3] = Flag(h)
    BY <1>1, <1>2
  <1>4. Flag(h).do = "flag" /\ Flag(h).field = h
    BY DEF Flag
  <1>5. f \in MadeFields(o) /\ g \in MadeFields(o) /\ h \in UsedFlags(o)
    BY FieldsByUse
  <1>6. Name(f) = n /\ Name(g) = m /\ Name(h) = fl /\ RuleFlag(f) = h /\ RuleFlag(g) = h
    BY DEF Name, OfQueue, RuleFlag, Owner
  <1>7. n # "event_handler" /\ m # "event_handler" /\ fl # "event_handler"
    BY NamesApart DEF FlagNames
  <1>8. Has(ca.steps, Flag(h))
    BY <1>2, <1>3 DEF Has
  <1>9. Shaped(o, ca, 1, a) /\ Shaped(o, ca, 2, b) /\ Shaped(o, ca, 3, Flag(h))
    BY <1>1, <1>4, <1>5, <1>6, <1>7, <1>8 DEF Shaped
  <1>10. ASSUME NEW k \in 1..Len(s) PROVE Shaped(o, ca, k, s[k])
    <2>1. k = 1 \/ k = 2 \/ k = 3
      BY <1>3
    <2> QED
      BY <1>3, <1>9, <2>1, Zenon
  <1> QED
    BY <1>2, <1>10, Zenon DEF ShapedCall

\* The matchers.
LEMMA MatchersSimple ==
    ASSUME NEW o
    PROVE  create_matcher_rx \in Seq(SimpleSteps(o)) /\ create_matcher_tx \in Seq(SimpleSteps(o))
  <1>1. \A n \in MatcherNames : Make(Matcher("rx", n)) \in SimpleSteps(o) /\ Make(Matcher("tx", n)) \in SimpleSteps(o)
    <2>1. ASSUME NEW n \in MatcherNames, NEW dir \in {"rx", "tx"} PROVE Make(Matcher(dir, n)) \in SimpleSteps(o)
      <3>1. Matcher(dir, n) \in DataFields(o) /\ Name(Matcher(dir, n)) = n
        BY DEF DataFields, Name, Matcher
      <3>2. Matcher(dir, n) \in MadeFields(o) /\ n \notin RuleNames \cup {"event_handler"}
        BY <3>1, NamesApart DEF MadeFields
      <3>3. Make(Matcher(dir, n)) \in MakingSteps(o) /\ Make(Matcher(dir, n)).do = "make" /\ Make(Matcher(dir, n)).field = Matcher(dir, n)
        BY <3>1, StepsOfFields DEF Make
      <3> QED
        BY <3>1, <3>2, <3>3 DEF SimpleSteps
    <2> QED
      BY <2>1
  <1>2. Flag(App("rx_matcher")) \in SimpleSteps(o) /\ Flag(App("tx_matcher")) \in SimpleSteps(o)
    <2>1. ASSUME NEW n \in AppFlags PROVE Flag(App(n)) \in SimpleSteps(o)
      <3>1. App(n) \in FlagFields(o) /\ Name(App(n)) = n /\ n \in UsedFlagNames(o)
        BY FieldsOfApp DEF Name, App, UsedFlagNames
      <3>2. Flag(App(n)) \in MakingSteps(o) /\ Flag(App(n)).do = "flag" /\ Flag(App(n)).field = App(n)
        BY <3>1, StepsOfFields DEF Flag
      <3> QED
        BY <3>1, <3>2 DEF SimpleSteps, UsedFlags
    <2> QED
      BY <2>1 DEF AppFlags
  <1>3. \A n \in {"dr_domain", "dr_table_root", "dr_matcher_root", "dr_table_sws", "dr_matcher_sws"} : n \in MatcherNames
    BY DEF MatcherNames
  <1>4. create_flow_matcher_sw_steer_rx \in Seq(SimpleSteps(o)) /\ create_flow_matcher_sw_steer_tx \in Seq(SimpleSteps(o))
    BY <1>1, <1>3 DEF create_flow_matcher_sw_steer_rx, create_flow_matcher_sw_steer_tx
  <1>5. <<Flag(App("rx_matcher"))>> \in Seq(SimpleSteps(o)) /\ <<Flag(App("tx_matcher"))>> \in Seq(SimpleSteps(o))
    BY <1>2
  <1> QED
    BY <1>4, <1>5, ConcatProperties DEF create_matcher_rx, create_matcher_tx

\* Every call of main is shaped.
LEMMA CallsShaped ==
    ASSUME NEW o \in OptionRecords, NEW x \in 1..Len(StartUp(o))
    PROVE  ShapedCall(o, StartUp(o)[x])
  <1>1. /\ \A how, s : Call(how, s).steps = s
        /\ \A s : RuleCall(s).steps = s
    BY DEF Call, RuleCall
  <1>2. ASSUME NEW how, NEW s, s \in Seq(SimpleSteps(o)) \/ s \in GuardedSteps(o) PROVE ShapedCall(o, Call(how, s))
    <2>1. PICK ca : ca = Call(how, s)
      OBVIOUS
    <2>2. ca.steps = s
      BY <1>1, <2>1
    <2>3. ca.steps \in Seq(SimpleSteps(o)) \/ ca.steps \in GuardedSteps(o)
      BY <1>2, <2>2
    <2> QED
      BY <2>1, <2>3, SimpleShaped, Zenon
  <1>3. ASSUME NEW f \in MadeFields(o), Name(f) \notin RuleNames, Name(f) # "event_handler"
        PROVE  <<Make(f)>> \in Seq(SimpleSteps(o))
    <2>1. f \in DataFields(o)
      BY DEF MadeFields
    <2>2. Make(f) \in MakingSteps(o) /\ Make(f).do = "make" /\ Make(f).field = f
      BY <2>1, StepsOfFields DEF Make
    <2>3. Make(f) \in SimpleSteps(o)
      BY <1>3, <2>2 DEF SimpleSteps
    <2> QED
      BY <2>3
  <1>4. ASSUME NEW n \in AppNames PROVE <<Make(App(n))>> \in Seq(SimpleSteps(o))
    <2>1. App(n) \in DataFields(o) /\ Name(App(n)) = n
      BY FieldsOfApp DEF Name, App
    <2>2. App(n) \in MadeFields(o)
      BY <2>1, NamesApart DEF MadeFields
    <2> QED
      BY <1>3, <2>1, <2>2, NamesApart
  <1>5. ASSUME NEW y \in 1..7 PROVE ShapedCall(o, ProgramCalls[y])
    <2>1. \A n \in {"ibv_ctx", "process_pd", "flexio_process", "flexio_window", "stream"} : <<Make(App(n))>> \in Seq(SimpleSteps(o))
      BY <1>4 DEF AppNames
    <2>2. /\ <<Make(App("ibv_ctx"))>> \in Seq(SimpleSteps(o)) /\ <<Make(App("process_pd"))>> \in Seq(SimpleSteps(o))
          /\ <<Make(App("flexio_process"))>> \in Seq(SimpleSteps(o)) /\ <<Make(App("flexio_window"))>> \in Seq(SimpleSteps(o))
          /\ <<Make(App("stream"))>> \in Seq(SimpleSteps(o))
      BY <2>1
    <2>3. PICK how, s : ProgramCalls[y] = Call(how, s) /\ s \in Seq(SimpleSteps(o))
      <3>1. /\ ProgramCalls[1] = Call("quit", <<Make(App("ibv_ctx"))>>)
            /\ ProgramCalls[2] = Call("err", <<Make(App("process_pd"))>>)
            /\ ProgramCalls[3] = Call("err", <<Make(App("flexio_process"))>>)
            /\ ProgramCalls[4] = Call("err", <<Make(App("flexio_window"))>>)
            /\ ProgramCalls[5] = Call("err", <<Make(App("stream"))>>)
            /\ ProgramCalls[6] = Call("ignore", create_matcher_rx)
            /\ ProgramCalls[7] = Call("ignore", create_matcher_tx)
        BY DEF ProgramCalls, app_open_ibv_ctx
      <3>2. y = 1 \/ y = 2 \/ y = 3 \/ y = 4 \/ y = 5 \/ y = 6 \/ y = 7
        OBVIOUS
      <3> QED
        BY <2>2, <3>1, <3>2, MatchersSimple, Zenon
    <2> QED
      BY <1>2, <2>3, Zenon
  <1>6. <<Attempt>> \in Seq(SimpleSteps(o))
    <2>1. Attempt \in SimpleSteps(o)
      <3>1. Attempt \in MakingSteps(o) /\ Attempt.do = "attempt"
        BY StepsOfFields DEF Attempt
      <3> QED
        BY <3>1 DEF SimpleSteps
    <2> QED
      BY <2>1
  <1>7. ASSUME NEW c \in ContextsOf(o), NEW ca \in CallsFor(o, c) PROVE ShapedCall(o, ca)
    <2>0. 0 \in QueuesOf(o, c)
      BY OptionFacts DEF QueuesOf, num_queues
    <2>1. CASE ca = CreateHandler(c)
      <3>1. PICK f : f = Of(c, "event_handler")
        OBVIOUS
      <3>2. f \in MadeFields(o) /\ Name(f) = "event_handler" /\ Owner(f) = c
        <4>1. f \in MadeFields(o)
          BY <2>0, <3>1, FieldsByUse DEF ContextNames
        <4> QED
          BY <3>1, <4>1 DEF Name, Of, Owner, ContextsOf, SchContexts, ThdContexts
      <3>3. ca.steps = <<Make(f)>>
        BY <1>1, <2>1, <3>1 DEF CreateHandler
      <3>4. Make(f).do = "make" /\ Make(f).field = f
        BY DEF Make
      <3>5. Shaped(o, ca, 1, Make(f))
        BY <2>1, <3>2, <3>4 DEF Shaped, RuleNames
      <3>6. \A k \in 1..Len(ca.steps) : k = 1 /\ ca.steps[k] = Make(f)
        BY <3>3
      <3> QED
        BY <3>5, <3>6, Zenon DEF ShapedCall
    <2>2. CASE ca = CopyData(c)
      <3>1. Of(c, "app_data_daddr") \in MadeFields(o) /\ Name(Of(c, "app_data_daddr")) = "app_data_daddr"
        <4>1. Of(c, "app_data_daddr") \in MadeFields(o)
          BY <2>0, FieldsByUse DEF ContextNames
        <4> QED
          BY <4>1 DEF Name, Of
      <3>2. <<Make(Of(c, "app_data_daddr"))>> \in Seq(SimpleSteps(o))
        BY <1>3, <3>1 DEF RuleNames
      <3> QED
        BY <1>2, <2>2, <3>2, Zenon DEF CopyData
    <2>3. CASE ca = RunHandler(c)
      <3>1. ca.steps = <<Run(c)>> /\ Run(c).do = "run"
        BY <1>1, <2>3 DEF RunHandler, Run
      <3>2. \A k \in 1..Len(ca.steps) : ca.steps[k].do = "run"
        BY <3>1
      <3> QED
        BY <3>2 DEF ShapedCall, Shaped
    <2>4. CASE \/ ca = Call("err", alloc_context_host_memory(o, c)) \/ ca = Call("err", create_app_rq(o, c))
               \/ ca = Call("err", create_app_sq(o, c))
      BY <1>2, <2>4, GuardedFunctions, Zenon
    <2>5. CASE ca = Call("silent", <<Attempt>>) \/ ca = Call("ignore", <<Attempt>>)
      BY <1>2, <1>6, <2>5, Zenon
    <2>6. CASE c \in SchContexts(o) /\ ca \in RulesOf(o, c)
      <3>1. PICK j \in QueuesOf(o, c) : \/ ca = RuleCall(create_rule_rx_mac_match(c, j))
                                       \/ ca = RuleCall(create_rule_tx_fwd_to_sws_table(c, j))
                                       \/ ca = RuleCall(create_rule_tx_fwd_to_vport(c, j))
        BY <2>6, Zenon DEF RulesOf
      <3>2. \A p, f : Make(f).do = "make" /\ Make(f).field = f /\ MakeThrough(p, f).do = "make" /\ MakeThrough(p, f).field = f
        BY DEF Make, MakeThrough
      <3>3. PICK a, b, f, g, h, n, m, fl :
               /\ f = OfQueue(c, j, n) /\ g = OfQueue(c, j, m) /\ h = OfQueue(c, j, fl)
               /\ n \in RuleNames /\ m \in RuleNames /\ RuleFlagName(n) = fl /\ RuleFlagName(m) = fl /\ fl \in RuleFlags
               /\ a.do = "make" /\ a.field = f /\ b.do = "make" /\ b.field = g
               /\ ca = RuleCall(<<a, b>> \o <<Flag(h)>>)
        <4> DEFINE R(a, b, f, g, h, n, m, fl) ==
               /\ f = OfQueue(c, j, n) /\ g = OfQueue(c, j, m) /\ h = OfQueue(c, j, fl)
               /\ n \in RuleNames /\ m \in RuleNames /\ RuleFlagName(n) = fl /\ RuleFlagName(m) = fl /\ fl \in RuleFlags
               /\ a.do = "make" /\ a.field = f /\ b.do = "make" /\ b.field = g
               /\ ca = RuleCall(<<a, b>> \o <<Flag(h)>>)
        <4>1. CASE ca = RuleCall(create_rule_rx_mac_match(c, j))
          <5>1. R(Make(OfQueue(c, j, "rx_action")), MakeThrough(App("rx_matcher"), OfQueue(c, j, "rx_rule")),
                  OfQueue(c, j, "rx_action"), OfQueue(c, j, "rx_rule"), OfQueue(c, j, "rx_flow_rule"),
                  "rx_action", "rx_rule", "rx_flow_rule")
            BY <3>2, <4>1 DEF create_rule_rx_mac_match, create_flow_rule_rx, RuleNames, RuleFlags, RuleFlagName
          <5> HIDE DEF R
          <5>2. \E a, b, f, g, h, n, m, fl : R(a, b, f, g, h, n, m, fl)
            BY <5>1, Zenon
          <5> QED
            BY <5>2, Zenon DEF R
        <4>2. CASE ca = RuleCall(create_rule_tx_fwd_to_sws_table(c, j))
          <5>1. R(MakeThrough(App("tx_matcher"), OfQueue(c, j, "tx_action")), MakeThrough(App("tx_matcher"), OfQueue(c, j, "tx_rule")),
                  OfQueue(c, j, "tx_action"), OfQueue(c, j, "tx_rule"), OfQueue(c, j, "tx_flow_rule"),
                  "tx_action", "tx_rule", "tx_flow_rule")
            BY <3>2, <4>2 DEF create_rule_tx_fwd_to_sws_table, create_flow_rule_tx_table, RuleNames, RuleFlags, RuleFlagName
          <5> HIDE DEF R
          <5>2. \E a, b, f, g, h, n, m, fl : R(a, b, f, g, h, n, m, fl)
            BY <5>1, Zenon
          <5> QED
            BY <5>2, Zenon DEF R
        <4>3. CASE ca = RuleCall(create_rule_tx_fwd_to_vport(c, j))
          <5>1. R(MakeThrough(App("tx_matcher"), OfQueue(c, j, "tx_action2")), MakeThrough(App("tx_matcher"), OfQueue(c, j, "tx_rule2")),
                  OfQueue(c, j, "tx_action2"), OfQueue(c, j, "tx_rule2"), OfQueue(c, j, "tx_flow_rule2"),
                  "tx_action2", "tx_rule2", "tx_flow_rule2")
            BY <3>2, <4>3 DEF create_rule_tx_fwd_to_vport, create_flow_rule_tx, RuleNames, RuleFlags, RuleFlagName
          <5> HIDE DEF R
          <5>2. \E a, b, f, g, h, n, m, fl : R(a, b, f, g, h, n, m, fl)
            BY <5>1, Zenon
          <5> QED
            BY <5>2, Zenon DEF R
        <4> QED
          BY <3>1, <4>1, <4>2, <4>3, Zenon
      <3> QED
        BY <2>6, <3>3, RuleShaped, Zenon
    <2> QED
      BY <2>1, <2>2, <2>3, <2>4, <2>5, <2>6, Zenon DEF CallsFor
  <1>8. 1 \in 1..7 /\ \A y \in 2..7 : y \in 1..7
    OBVIOUS
  <1> QED
    BY <1>5, <1>7, <1>8, CallsOfMain, Zenon DEF LaterCalls
-----------------------------------------------------------------------------
(***************************************************************************)
(* Contexts that are given up.  main jumps to the clean-up without an      *)
(* error, or is asked to end, only where every handler it has created has  *)
(* its data on the device, or is that of a scheduler whose queues exist.   *)
(***************************************************************************)
Excused(o, s, x, c) ==
    \/ \E z \in 1..(x - 1) : s[z] = CopyData(c)
    \/ c \in SchContexts(o) /\ \E b : Block(s, CreateContext(o, c), b) /\ b + 4 < x

Covered(o) ==
    {s \in Seq(Calls(o)) :
        \A x \in 1..(Len(s) + 1) :
            (x \in 1..Len(s) => s[x].onfail = "silent") =>
                \A y \in 1..(x - 1), c \in ContextsOf(o) : s[y] = CreateHandler(c) => Excused(o, s, x, c)}

\* The block that creates a context is made of calls.
LEMMA CreateContextIs ==
    ASSUME NEW o \in OptionRecords, NEW c \in ContextsOf(o)
    PROVE  /\ CreateContext(o, c) \in Seq(Calls(o)) /\ Len(CreateContext(o, c)) = 4
           /\ CreateContext(o, c)[1] = CreateHandler(c)
           /\ \A l \in 2..4 : CreateContext(o, c)[l].onfail = "err"
  <1>1. MakingCalls(o) \subseteq Calls(o)
    BY DEF Calls
  <1>2. CreateContext(o, c) \in Seq(Calls(o))
    BY <1>1, CreateContextCalls, SeqMonotonic
  <1>3. \A how, s : Call(how, s).onfail = how
    BY DEF Call
  <1>4. Len(CreateContext(o, c)) = 4 /\ CreateContext(o, c)[1] = CreateHandler(c)
    BY DEF CreateContext, CreateHandler
  <1>5. /\ CreateContext(o, c)[2].onfail = "err" /\ CreateContext(o, c)[3].onfail = "err"
        /\ CreateContext(o, c)[4].onfail = "err"
    BY <1>3 DEF CreateContext
  <1>6. \A l \in 2..4 : l = 2 \/ l = 3 \/ l = 4
    OBVIOUS
  <1> QED
    BY <1>2, <1>4, <1>5, <1>6

\* An excuse holds in a longer sequence, and later on.
LEMMA ExcusedInConcat ==
    ASSUME NEW o \in OptionRecords, NEW a \in Seq(Calls(o)), NEW b \in Seq(Calls(o)), NEW c \in ContextsOf(o),
           NEW s, s = a \o b, NEW x \in Nat, NEW w \in Nat
    PROVE  /\ Excused(o, a, x, c) /\ x <= Len(a) + 1 /\ x <= w => Excused(o, s, w, c)
           /\ Excused(o, b, x, c) /\ x <= Len(b) + 1 => Excused(o, s, Len(a) + x, c)
  <1>1. /\ \A y \in 1..Len(a) : y \in 1..Len(s) /\ s[y] = a[y]
        /\ \A y \in 1..Len(b) : Len(a) + y \in 1..Len(s) /\ s[Len(a) + y] = b[y]
    BY ConcatElements
  <1>2. Len(a) \in Nat /\ Len(b) \in Nat
    OBVIOUS
  <1>3. PICK t \in Seq(Calls(o)) : t = CreateContext(o, c) /\ Len(t) = 4
    BY CreateContextIs, Zenon
  <1>4. \A d : (Block(a, t, d) => Block(s, t, d)) /\ (Block(b, t, d) => Block(s, t, Len(a) + d))
    BY BlockInConcat
  <1>5. ASSUME Excused(o, a, x, c), x <= Len(a) + 1, x <= w PROVE Excused(o, s, w, c)
    <2>1. CASE \E z \in 1..(x - 1) : a[z] = CopyData(c)
      <3>1. PICK z \in 1..(x - 1) : a[z] = CopyData(c)
        BY <2>1
      <3>2. z \in 1..Len(a) /\ z \in 1..(w - 1)
        BY <1>2, <1>5
      <3> QED
        BY <1>1, <3>1, <3>2 DEF Excused
    <2>2. CASE c \in SchContexts(o) /\ \E d : Block(a, t, d) /\ d + 4 < x
      <3>1. PICK d : Block(a, t, d) /\ d + 4 < x
        BY <2>2
      <3>2. d \in Nat
        BY <3>1 DEF Block
      <3>3. d + 4 < w /\ Block(s, t, d)
        BY <1>4, <1>5, <3>1, <3>2
      <3> QED
        BY <1>3, <2>2, <3>3, Zenon DEF Excused
    <2> QED
      BY <1>3, <1>5, <2>1, <2>2, Zenon DEF Excused
  <1>6. ASSUME Excused(o, b, x, c), x <= Len(b) + 1 PROVE Excused(o, s, Len(a) + x, c)
    <2>1. CASE \E z \in 1..(x - 1) : b[z] = CopyData(c)
      <3>1. PICK z \in 1..(x - 1) : b[z] = CopyData(c)
        BY <2>1
      <3>2. z \in 1..Len(b) /\ Len(a) + z \in 1..((Len(a) + x) - 1)
        BY <1>2, <1>6
      <3>3. s[Len(a) + z] = CopyData(c)
        BY <1>1, <3>1, <3>2
      <3> QED
        BY <3>2, <3>3, Zenon DEF Excused
    <2>2. CASE c \in SchContexts(o) /\ \E d : Block(b, t, d) /\ d + 4 < x
      <3>1. PICK d : Block(b, t, d) /\ d + 4 < x
        BY <2>2
      <3>2. d \in Nat
        BY <3>1 DEF Block
      <3>3. (Len(a) + d) + 4 < Len(a) + x /\ Block(s, t, Len(a) + d)
        BY <1>2, <1>4, <3>1, <3>2
      <3> QED
        BY <1>3, <2>2, <3>3, Zenon DEF Excused
    <2> QED
      BY <1>3, <1>6, <2>1, <2>2, Zenon DEF Excused
  <1> QED
    BY <1>5, <1>6

\* Concatenation keeps this.
LEMMA CoveredClosed ==
    ASSUME NEW o \in OptionRecords, NEW a \in Covered(o), NEW b \in Covered(o)
    PROVE  a \o b \in Covered(o)
  <1>1. a \in Seq(Calls(o)) /\ b \in Seq(Calls(o)) /\ Len(a) \in Nat /\ Len(b) \in Nat
    BY DEF Covered
  <1>2. PICK s : s = a \o b
    OBVIOUS
  <1>3. s \in Seq(Calls(o)) /\ Len(s) = Len(a) + Len(b)
    BY <1>1, <1>2, ConcatElements
  <1>4. /\ \A x \in 1..Len(a) : x \in 1..Len(s) /\ s[x] = a[x]
        /\ \A x \in 1..Len(b) : Len(a) + x \in 1..Len(s) /\ s[Len(a) + x] = b[x]
    BY <1>1, <1>2, ConcatElements
  <1>5. \A y \in 1..Len(s) : \/ y \in 1..Len(a) /\ s[y] = a[y]
                             \/ \E z \in 1..Len(b) : y = Len(a) + z /\ s[y] = b[z]
    BY <1>1, <1>2, ConcatElements
  <1>6. ASSUME NEW x \in 1..(Len(s) + 1), x \in 1..Len(s) => s[x].onfail = "silent",
               NEW y \in 1..(x - 1), NEW c \in ContextsOf(o), s[y] = CreateHandler(c)
        PROVE  Excused(o, s, x, c)
    <2>1. x \in Nat /\ y \in 1..Len(s)
      BY <1>1, <1>3
    <2>2. CASE x \in 1..Len(a)
      <3>1. y \in 1..Len(a) /\ a[y] = CreateHandler(c) /\ a[x].onfail = "silent" /\ x \in 1..(Len(a) + 1)
        BY <1>1, <1>3, <1>4, <1>6, <2>2
      <3>2. Excused(o, a, x, c)
        BY <3>1, Zenon DEF Covered
      <3>3. x <= Len(a) + 1 /\ x <= x
        BY <1>1, <2>2
      <3> QED
        BY <1>1, <1>2, <2>1, <3>2, <3>3, ExcusedInConcat
    <2>3. CASE x \notin 1..Len(a) /\ y \in 1..Len(a) /\ s[y] = a[y]
      <3>1. PICK l \in 1..(Len(a) + 1) : l = Len(a) + 1
        BY <1>1
      <3>2. l \notin 1..Len(a) /\ y \in 1..(l - 1) /\ l \in Nat /\ l <= Len(a) + 1 /\ l <= x
        BY <1>1, <2>1, <2>3, <3>1
      <3>3. Excused(o, a, l, c)
        BY <1>6, <2>3, <3>2, Zenon DEF Covered
      <3> QED
        BY <1>1, <1>2, <2>1, <3>2, <3>3, ExcusedInConcat
    <2>4. ASSUME x \notin 1..Len(a), NEW z \in 1..Len(b), y = Len(a) + z, s[y] = b[z]
          PROVE  Excused(o, s, x, c)
      <3>1. PICK l \in Nat : l = x - Len(a)
        BY <1>1, <2>1, <2>4
      <3>2. /\ l \in 1..(Len(b) + 1) /\ z \in 1..(l - 1) /\ x = Len(a) + l /\ l <= Len(b) + 1
            /\ l \in 1..Len(b) => x \in 1..Len(s)
        BY <1>1, <1>3, <2>1, <2>4, <3>1
      <3>3. l \in 1..Len(b) => b[l].onfail = "silent"
        BY <1>4, <1>6, <3>2
      <3>4. b[z] = CreateHandler(c)
        BY <1>6, <2>4
      <3>5. Excused(o, b, l, c)
        BY <3>2, <3>3, <3>4, Zenon DEF Covered
      <3>6. Excused(o, s, Len(a) + l, c)
        BY <1>1, <1>2, <2>1, <3>2, <3>5, ExcusedInConcat
      <3> QED
        BY <3>2, <3>6
    <2> QED
      BY <1>5, <2>1, <2>2, <2>3, <2>4, Zenon
  <1>7. s \in Covered(o)
    BY <1>3, <1>6, Zenon DEF Covered
  <1> QED
    BY <1>2, <1>7

\* The start-up is covered.
LEMMA StartUpCovered ==
    ASSUME NEW o \in OptionRecords
    PROVE  StartUp(o) \in Covered(o)
  <1>0. \A how, s : Call(how, s).onfail = how /\ Call(how, s).steps = s
    BY DEF Call
  <1>1. Covered(o) \in SUBSET Seq(Calls(o)) /\ MakingCalls(o) \subseteq Calls(o)
    BY DEF Covered, Calls
  <1>2. \A c : CreateHandler(c).onfail = "silent" /\ CreateHandler(c).steps = <<Make(Of(c, "event_handler"))>>
    BY <1>0 DEF CreateHandler
  <1>3. ASSUME NEW s \in Seq(Calls(o)), \A y \in 1..Len(s) : \A c : s[y] # CreateHandler(c)
        PROVE  s \in Covered(o)
    <2>1. \A x \in 1..(Len(s) + 1) : \A y \in 1..(x - 1) : y \in 1..Len(s)
      OBVIOUS
    <2> QED
      BY <1>3, <2>1, Zenon DEF Covered
  <1>4. <<>> \in Covered(o)
    <2>1. <<>> \in Seq(Calls(o)) /\ \A y \in 1..Len(<<>>) : FALSE
      OBVIOUS
    <2> QED
      BY <1>3, <2>1, Zenon
  <1>5. ProgramCalls \in Covered(o)
    <2>1. ProgramCalls \in Seq(Calls(o))
      BY <1>1, ProgramCallsMake, SeqMonotonic
    <2>2. \A y \in 1..Len(ProgramCalls) : ProgramCalls[y].onfail # "silent"
      BY <1>0 DEF ProgramCalls
    <2> QED
      BY <1>2, <1>3, <2>1, <2>2, Zenon
  \* A part of the start-up concerns one context.
  <1>6. ASSUME NEW c \in ContextsOf(o), NEW d, CreateHandler(d) \in CallsFor(o, c), d \in ContextsOf(o) PROVE d = c
    <2>1. CreateHandler(d) = CreateHandler(c)
      <3>1. \A s : RuleCall(s).onfail = "ignore"
        BY DEF RuleCall
      <3>2. CreateHandler(d) \notin RulesOf(o, c)
        BY <1>2, <3>1 DEF RulesOf
      <3>3. CreateHandler(d) # Call("silent", <<Attempt>>)
        <4>1. Make(Of(d, "event_handler")) # Attempt
          BY DEF Make, Attempt
        <4>2. <<Make(Of(d, "event_handler"))>> # <<Attempt>>
          BY <4>1
        <4> QED
          BY <1>0, <1>2, <4>2
      <3> QED
        BY <1>0, <1>2, <1>6, <3>2, <3>3 DEF CallsFor, CopyData, RunHandler
    <2>2. <<Make(Of(d, "event_handler"))>> = <<Make(Of(c, "event_handler"))>>
      BY <1>2, <2>1
    <2>3. Make(Of(d, "event_handler")) = Make(Of(c, "event_handler"))
      BY <2>2
    <2>4. Of(d, "event_handler") = Of(c, "event_handler")
      BY <2>3 DEF Make
    <2> QED
      BY <1>6, <2>4 DEF Of, ContextsOf, SchContexts, ThdContexts
  <1>7. ASSUME NEW c \in SchContexts(o) PROVE SchedulerCalls(o, c) \in Covered(o)
    <2>1. c \in ContextsOf(o)
      BY DEF ContextsOf
    <2>2. PICK s \in Seq(Calls(o)) : s = SchedulerCalls(o, c) /\ Block(s, CreateContext(o, c), 0)
      BY PartsStart, Zenon DEF Starts
    <2>3. \A y \in 1..Len(s) : s[y] \in CallsFor(o, c)
      <3>1. s \in Seq(CallsFor(o, c))
        BY <2>1, <2>2, PartCalls DEF SchedulerCalls
      <3> QED
        BY <3>1
    <2>4. /\ Len(CreateContext(o, c)) = 4 /\ \A l \in 2..4 : CreateContext(o, c)[l].onfail = "err"
      BY <2>1, CreateContextIs
    <2>5. Len(s) >= 4 /\ \A l \in 2..4 : s[l].onfail = "err"
      BY <2>2, <2>4 DEF Block
    <2>6. ASSUME NEW x \in 1..(Len(s) + 1), x \in 1..Len(s) => s[x].onfail = "silent",
                 NEW y \in 1..(x - 1), NEW d \in ContextsOf(o), s[y] = CreateHandler(d)
          PROVE  Excused(o, s, x, d)
      <3>1. y \in 1..Len(s) /\ x \in Nat
        BY <2>2
      <3>2. d = c
        BY <1>6, <2>1, <2>3, <2>6, <3>1
      <3>3. x \notin 2..4
        BY <2>5, <2>6
      <3>4. 0 + 4 < x
        BY <2>5, <3>1, <3>3
      <3> QED
        BY <2>2, <3>2, <3>4, Zenon DEF Excused
    <2>7. s \in Covered(o)
      BY <2>6, Zenon DEF Covered
    <2> QED
      BY <2>2, <2>7
  <1>8. ASSUME NEW c \in ThdContexts(o) PROVE WorkerCalls(o, c) \in Covered(o)
    <2>1. c \in ContextsOf(o)
      BY DEF ContextsOf
    <2>2. PICK s \in Seq(Calls(o)) : s = WorkerCalls(o, c) /\ Block(s, CreateContext(o, c), 0)
      BY PartsStart, Zenon DEF Starts
    <2>3. \A y \in 1..Len(s) : s[y] \in CallsFor(o, c)
      <3>1. s \in Seq(CallsFor(o, c))
        BY <2>1, <2>2, PartCalls DEF WorkerCalls
      <3> QED
        BY <3>1
    <2>4. /\ CreateContext(o, c) \in Seq(Calls(o)) /\ Len(CreateContext(o, c)) = 4
          /\ \A l \in 2..4 : CreateContext(o, c)[l].onfail = "err"
      BY <2>1, CreateContextIs
    <2>5. PICK t : t = StartWorker(c)
      OBVIOUS
    <2>6. Len(t) = 3 /\ t[1] = CopyData(c) /\ t[2].onfail = "ignore" /\ t[3].onfail = "err" /\ CopyData(c).onfail = "err"
      BY <1>0, <2>5 DEF StartWorker, CopyData, copy_thd_data_to_dpa
    <2>7. Len(s) = 7 /\ s[5] = CopyData(c) /\ \A l \in 2..7 : s[l].onfail # "silent"
      <3>1. PICK a \in Seq(Calls(o)) : /\ a = CreateContext(o, c) /\ Len(a) = 4
                                       /\ \A l \in 2..4 : a[l].onfail = "err"
        BY <2>4, Zenon
      <3>2. PICK T : a \in Seq(T) /\ t \in Seq(T)
        <4>1. t \in Seq(CallsFor(o, c)) /\ a \in Seq(CallsFor(o, c))
          BY <2>1, <2>5, <3>1, PartCalls
        <4> QED
          BY <4>1, Zenon
      <3>3. s = a \o t
        BY <2>2, <2>5, <3>1, Zenon DEF WorkerCalls
      <3>4. Len(s) = Len(a) + Len(t)
        BY <3>2, <3>3, ConcatElements
      <3>5. \A y \in 1..Len(a) : y \in 1..Len(s) /\ s[y] = a[y]
        BY <3>2, <3>3, ConcatElements
      <3>6. \A y \in 1..Len(t) : Len(a) + y \in 1..Len(s) /\ s[Len(a) + y] = t[y]
        BY <3>2, <3>3, ConcatElements
      <3>7. s[5] = t[1] /\ s[6] = t[2] /\ s[7] = t[3]
        <4>1. Len(a) = 4 /\ Len(a) + 1 = 5 /\ Len(a) + 2 = 6 /\ Len(a) + 3 = 7 /\ 1 \in 1..3 /\ 2 \in 1..3 /\ 3 \in 1..3
          BY <3>1
        <4> QED
          BY <2>6, <3>6, <4>1, Zenon
      <3>8. \A l \in 2..4 : s[l].onfail = "err"
        <4>1. \A l \in 2..4 : l \in 1..4
          OBVIOUS
        <4> QED
          BY <3>1, <3>5, <4>1, Zenon
      <3>9. \A l \in 2..7 : l \in 2..4 \/ l = 5 \/ l = 6 \/ l = 7
        OBVIOUS
      <3> QED
        BY <2>4, <2>6, <3>1, <3>4, <3>7, <3>8, <3>9
    <2>8. ASSUME NEW x \in 1..(Len(s) + 1), x \in 1..Len(s) => s[x].onfail = "silent",
                 NEW y \in 1..(x - 1), NEW d \in ContextsOf(o), s[y] = CreateHandler(d)
          PROVE  Excused(o, s, x, d)
      <3>1. y \in 1..Len(s) /\ x \in Nat
        BY <2>7
      <3>2. d = c
        BY <1>6, <2>1, <2>3, <2>8, <3>1
      <3>3. x \notin 2..7
        BY <2>7, <2>8
      <3>4. 5 \in 1..(x - 1)
        BY <2>7, <3>1, <3>3
      <3> QED
        BY <2>7, <3>2, <3>4, Zenon DEF Excused
    <2>9. s \in Covered(o)
      BY <2>8, Zenon DEF Covered
    <2> QED
      BY <2>2, <2>9
  <1>9. \A a, b \in Covered(o) : a \o b \in Covered(o)
    BY CoveredClosed
  <1> QED
    BY <1>1, <1>4, <1>5, <1>7, <1>8, <1>9, StartUpClosed, Zenon

\* Calls that lead to the clean-up without an error, or end the program, have one step.
LEMMA QuietCalls ==
    ASSUME NEW o \in OptionRecords, NEW x \in 1..Len(StartUp(o)), NEW ca, ca = StartUp(o)[x],
           ca.onfail \in {"silent", "quit"}
    PROVE  Len(ca.steps) = 1 /\ (ca.onfail = "quit" => x = 1)
  <1>0. /\ \A how, s : Call(how, s).onfail = how /\ Call(how, s).steps = s
        /\ \A s : RuleCall(s).onfail = "ignore"
    BY DEF Call, RuleCall
  <1>1. CASE x = 1 /\ ca = ProgramCalls[1]
    <2>1. ProgramCalls[1] = Call("quit", <<Make(App("ibv_ctx"))>>)
      BY DEF ProgramCalls, app_open_ibv_ctx
    <2> QED
      BY <1>0, <1>1, <2>1
  <1>2. ASSUME NEW y \in 2..7, ca = ProgramCalls[y] PROVE FALSE
    <2>1. \A z \in 2..7 : ProgramCalls[z].onfail \in {"err", "ignore"}
      BY <1>0 DEF ProgramCalls
    <2> QED
      BY <1>2, <2>1
  <1>3. ASSUME NEW c \in ContextsOf(o), ca \in CallsFor(o, c) PROVE Len(ca.steps) = 1 /\ ca.onfail # "quit"
    <2>1. ca \notin RulesOf(o, c)
      BY <1>0 DEF RulesOf
    <2>2. ca = CreateHandler(c) \/ ca = Call("silent", <<Attempt>>)
      BY <1>0, <1>3, <2>1 DEF CallsFor, CopyData, RunHandler
    <2>3. ca.onfail = "silent" /\ (ca.steps = <<Make(Of(c, "event_handler"))>> \/ ca.steps = <<Attempt>>)
      BY <1>0, <2>2 DEF CreateHandler
    <2> QED
      BY <2>3
  <1> QED
    BY <1>1, <1>2, <1>3, CallsOfMain, Zenon DEF LaterCalls

\* Such a call, when it fails, leaves everything as it was.
LEMMA QuietFailure ==
    ASSUME HostInv, Building, call.onfail \in {"silent", "quit"}, NEW k \in DOMAIN call.steps, FailAt(k)
    PROVE  live' = live /\ ptr' = ptr
  <1>1. PICK o : o = options
    OBVIOUS
  <1>2. /\ o \in OptionRecords /\ at \in 1..Len(StartUp(o)) /\ call = StartUp(o)[at]
        /\ call.steps \in Seq(Steps(o))
    BY <1>1, CallInRange
  <1>3. InBounds(o, Present) /\ PointsToLive(o, Present)
    BY <1>1 DEF HostInv, Building
  <1>4. Len(call.steps) = 1
    BY <1>2, QuietCalls
  <1>5. k = 1
    BY <1>2, <1>4
  <1>6. PICK n \in 0..Len(call.steps) : n = (IF call.undo THEN 0 ELSE k - 1) /\ n = 0
    BY <1>4, <1>5
  <1>7. PICK st : st = AfterSteps(n)
    OBVIOUS
  <1>8. st = Present
    BY <1>2, <1>3, <1>6, <1>7, StepsSet
  <1>9. live' = st.live /\ ptr' = st.ptr
    BY <1>6, <1>7 DEF FailAt, Become
  <1> QED
    BY <1>8, <1>9 DEF Present

\* A context whose data is on the device, whose handler does not exist, or a scheduler
\* that has its queues.
Settled(o, c, D) ==
    \/ Of(c, "app_data_daddr") \in D
    \/ Of(c, "event_handler") \notin D
    \/ c \in SchContexts(o) /\ \A j \in QueuesOf(o, c) : OfQueue(c, j, "flexio_sq_ptr") \in D

\* A handler exists only if the call that creates it has been made, and the clean-up
\* begins without an error only if every context is settled.
AbandonInv ==
    /\ phase = "args" => DOMAIN ptr = {}
    /\ phase = "build" =>
          \A c \in ContextsOf(options) :
              Of(c, "event_handler") \in DOMAIN ptr =>
                  \E y \in 1..(at - 1) : y <= Len(StartUp(options)) /\ StartUp(options)[y] = CreateHandler(c)
    /\ phase \in {"clean", "returned"} /\ err = 0 =>
          \A c \in ContextsOf(options) : Settled(options, c, DOMAIN ptr)

\* Where the covered start-up stops quietly, every context is settled.
LEMMA QuietlySettled ==
    ASSUME HostInv, StartInv, AbandonInv, phase = "build",
           at \in 1..Len(StartUp(options)) => StartUp(options)[at].onfail = "silent",
           NEW c \in ContextsOf(options)
    PROVE  Settled(options, c, DOMAIN ptr)
  <1>1. PICK o \in OptionRecords : o = options
    BY HostAssumption DEF HostInv
  <1>2. /\ ContextsMade(o, at, DOMAIN ptr) /\ DataMade(o, at, live) /\ at \in Nat /\ at # 0
        /\ live \subseteq DOMAIN ptr
    BY <1>1 DEF StartInv, HostInv, InBounds, Present
  <1> SUFFICES ASSUME Of(c, "event_handler") \in DOMAIN ptr PROVE Settled(o, c, DOMAIN ptr)
    BY <1>1 DEF Settled
  <1>3. PICK y \in 1..(at - 1) : y <= Len(StartUp(o)) /\ StartUp(o)[y] = CreateHandler(c)
    BY <1>1 DEF AbandonInv
  <1>4. StartUp(o) \in Covered(o) /\ StartUp(o) \in Seq(Calls(o)) /\ Len(StartUp(o)) \in Nat
    BY StartUpCovered DEF Covered
  <1>5. PICK x \in 1..(Len(StartUp(o)) + 1) :
            /\ x <= at /\ y \in 1..(x - 1)
            /\ x \in 1..Len(StartUp(o)) => StartUp(o)[x].onfail = "silent"
    <2>1. CASE at <= Len(StartUp(o))
      <3>1. /\ at \in 1..(Len(StartUp(o)) + 1) /\ at <= at /\ y \in 1..(at - 1)
            /\ at \in 1..Len(StartUp(o)) => StartUp(o)[at].onfail = "silent"
        BY <1>1, <1>2, <1>4, <2>1
      <3> QED
        BY <3>1, Zenon
    <2>2. CASE ~(at <= Len(StartUp(o)))
      <3>1. PICK l \in Nat : l = Len(StartUp(o)) + 1
        BY <1>4
      <3>2. l \in 1..(Len(StartUp(o)) + 1) /\ l <= at /\ y \in 1..(l - 1) /\ l \notin 1..Len(StartUp(o))
        BY <1>2, <1>3, <1>4, <2>2, <3>1
      <3> QED
        BY <3>2, Zenon
    <2> QED
      BY <2>1, <2>2
  <1>6. Excused(o, StartUp(o), x, c)
    BY <1>1, <1>3, <1>4, <1>5, Zenon DEF Covered
  <1>7. CASE \E z \in 1..(x - 1) : StartUp(o)[z] = CopyData(c)
    <2>1. PICK z \in 1..(x - 1) : StartUp(o)[z] = Call("err", <<Make(Of(c, "app_data_daddr"))>>)
      BY <1>7 DEF CopyData
    <2>2. z \in 1..(at - 1)
      BY <1>2, <1>5
    <2>3. Of(c, "app_data_daddr") \in live
      BY <1>2, <2>1, <2>2, Zenon DEF DataMade
    <2> QED
      BY <1>2, <2>3 DEF Settled
  <1>8. CASE c \in SchContexts(o) /\ \E b : Block(StartUp(o), CreateContext(o, c), b) /\ b + 4 < x
    <2>1. PICK b : Block(StartUp(o), CreateContext(o, c), b) /\ b + 4 < x
      BY <1>8
    <2>2. b \in Nat
      BY <2>1 DEF Block
    <2>3. b + 4 < at
      BY <1>2, <1>5, <2>1, <2>2
    <2>4. SqReady(o, c, DOMAIN ptr)
      BY <1>1, <1>2, <2>1, <2>3, Zenon DEF ContextsMade
    <2> QED
      BY <1>8, <2>4 DEF SqReady, SqFields, Settled
  <1> QED
    BY <1>6, <1>7, <1>8, Zenon DEF Excused

\* The calls that go on keep track of the handlers.
LEMMA AbandonInvBuild ==
    ASSUME HostInv, AbandonInv, CallSucceeds \/ FailIgnored
    PROVE  AbandonInv'
  <1>1. Building /\ phase = "build" /\ phase' = "build" /\ options' = options /\ at' = at + 1
    BY DEF CallSucceeds, FailIgnored, Building
  <1>2. PICK o : o = options
    OBVIOUS
  <1>3. /\ o \in OptionRecords /\ at \in 1..Len(StartUp(o)) /\ call = StartUp(o)[at]
        /\ call.steps \in Seq(Steps(o))
    BY <1>1, <1>2, CallInRange
  <1>4. InBounds(o, Present) /\ PointsToLive(o, Present)
    BY <1>1, <1>2 DEF HostInv
  <1>5. PICK n \in 0..Len(call.steps) : ptr' = AfterSteps(n).ptr
    <2>1. CASE CallSucceeds
      <3>1. Len(call.steps) \in 0..Len(call.steps)
        BY <1>3
      <3> QED
        BY <2>1, <3>1, Zenon DEF CallSucceeds, Become
    <2>2. CASE FailIgnored
      <3>1. PICK k \in DOMAIN call.steps : FailAt(k)
        BY <2>2 DEF FailIgnored
      <3>2. (IF call.undo THEN 0 ELSE k - 1) \in 0..Len(call.steps)
        BY <1>3
      <3> QED
        BY <3>1, <3>2, Zenon DEF FailAt, Become
    <2> QED
      BY <2>1, <2>2
  <1>6. PICK st : st = AfterSteps(n)
    OBVIOUS
  <1>7. ASSUME NEW c \in ContextsOf(o), Of(c, "event_handler") \in DOMAIN ptr'
        PROVE  \E y \in 1..((at + 1) - 1) : y <= Len(StartUp(o)) /\ StartUp(o)[y] = CreateHandler(c)
    <2>1. PICK f : f = Of(c, "event_handler")
      OBVIOUS
    <2>2. Name(f) = "event_handler" /\ Owner(f) = c
      BY <2>1 DEF Name, Owner, Of, ContextsOf, SchContexts, ThdContexts
    <2>3. \/ f \in DOMAIN ptr
          \/ \E k \in 1..n : call.steps[k].field = f /\ call.steps[k].do \in {"make", "point", "flag"}
      BY <1>3, <1>4, <1>5, <1>6, <1>7, <2>1, StepsSet
    <2>4. CASE f \in DOMAIN ptr
      <3>1. PICK y \in 1..(at - 1) : y <= Len(StartUp(o)) /\ StartUp(o)[y] = CreateHandler(c)
        BY <1>1, <1>2, <2>1, <2>4 DEF AbandonInv
      <3>2. y \in 1..((at + 1) - 1)
        BY <1>3
      <3> QED
        BY <3>1, <3>2
    <2>5. ASSUME NEW k \in 1..n, call.steps[k].field = f, call.steps[k].do \in {"make", "point", "flag"}
          PROVE  call = CreateHandler(c)
      <3>1. k \in 1..Len(call.steps)
        BY <1>3
      <3>2. Shaped(o, call, k, call.steps[k])
        BY <1>3, <3>1, CallsShaped DEF ShapedCall
      <3> QED
        BY <2>2, <2>5, <3>2 DEF Shaped
    <2>6. at \in 1..((at + 1) - 1) /\ at <= Len(StartUp(o))
      BY <1>3
    <2> QED
      BY <1>3, <2>3, <2>4, <2>5, <2>6
  <1> QED
    BY <1>1, <1>2, <1>7 DEF AbandonInv

\* Every step keeps it.
LEMMA AbandonInvStep ==
    ASSUME HostInv, StartInv, AbandonInv, [Next]_vars
    PROVE  AbandonInv'
  <1>1. CASE CallSucceeds \/ FailIgnored
    BY <1>1, AbandonInvBuild
  <1>2. CASE Refuse \/ FailAndQuit \/ FailWithError
    <2>1. phase' \in {"returned", "clean"} /\ err' = -1
      BY <1>2 DEF Refuse, FailAndQuit, FailWithError
    <2> QED
      BY <2>1 DEF AbandonInv
  <1>3. CASE Accept
    <2>1. phase = "args" /\ phase' = "build" /\ DOMAIN ptr' = {}
      BY <1>3 DEF Accept, AbandonInv
    <2> QED
      BY <2>1 DEF AbandonInv
  <1>4. CASE FailSilently
    <2>1. Building /\ phase = "build" /\ phase' = "clean" /\ options' = options /\ call.onfail = "silent"
      BY <1>4 DEF FailSilently, Building
    <2>2. ptr' = ptr
      BY <1>4, <2>1, QuietFailure DEF FailSilently
    <2>3. call = StartUp(options)[at]
      BY <2>1, CallInRange
    <2>4. \A c \in ContextsOf(options) : Settled(options, c, DOMAIN ptr)
      BY <2>1, <2>3, QuietlySettled
    <2> QED
      BY <2>1, <2>2, <2>4 DEF AbandonInv
  <1>5. CASE KeyPressed
    <2>1. phase = "build" /\ phase' = "clean" /\ options' = options /\ ptr' = ptr
      BY <1>5 DEF KeyPressed
    <2>2. at \notin 1..Len(StartUp(options))
      <3>1. StartUps[options] = StartUp(options)
        BY DEF StartUps, HostInv
      <3>2. at > Len(StartUp(options)) /\ at \in Nat
        BY <1>5, <3>1 DEF KeyPressed, HostInv
      <3>3. Len(StartUp(options)) \in Nat
        BY HostAssumption, StartUpCalls DEF HostInv
      <3> QED
        BY <3>2, <3>3
    <2>3. \A c \in ContextsOf(options) : Settled(options, c, DOMAIN ptr)
      BY <2>1, <2>2, QuietlySettled
    <2> QED
      BY <2>1, <2>3 DEF AbandonInv
  <1>6. CASE Release \/ Return
    BY <1>6 DEF Release, Cleaning, Return, AbandonInv
  <1>7. CASE Crash
    BY <1>7 DEF Crash, AbandonInv
  <1>8. CASE UNCHANGED vars
    BY <1>8 DEF vars, AbandonInv
  <1> QED
    BY <1>1, <1>2, <1>3, <1>4, <1>5, <1>6, <1>7, <1>8 DEF Next

\* Whatever fails, main returns 0 only if no context was given up in the middle: a
\* context whose data never reached the device is one whose handler could not be
\* created, or a scheduler with all its queues that lacked a TIR.
THEOREM NothingAbandonedUnnoticed == Spec => []ZeroMeansNothingAbandoned
  <1>1. Init => AbandonInv
    BY DEF Init, AbandonInv
  <1>2. HostInv /\ StartInv /\ AbandonInv /\ [Next]_vars => AbandonInv'
    BY AbandonInvStep
  <1>3. HostInv /\ AbandonInv => ZeroMeansNothingAbandoned
    <2> SUFFICES ASSUME HostInv, AbandonInv, phase = "returned", err = 0, NEW c \in Contexts
                 PROVE  \/ IsSet(Of(c, "app_data_daddr"))
                        \/ ~IsSet(Of(c, "event_handler"))
                        \/ /\ c[1] = "sch"
                           /\ \A j \in 0..(num_queues(options, c) - 1) : IsSet(OfQueue(c, j, "flexio_sq_ptr"))
      BY DEF ZeroMeansNothingAbandoned
    <2>1. options \in OptionRecords
      BY HostAssumption DEF HostInv
    <2>2. c \in ContextsOf(options)
      BY <2>1, ContextsAgree DEF Contexts, ContextsOf
    <2>3. Settled(options, c, DOMAIN ptr)
      BY <2>2 DEF AbandonInv
    <2>4. c \in SchContexts(options) => c[1] = "sch"
      BY DEF SchContexts
    <2> QED
      BY <2>3, <2>4 DEF Settled, IsSet, QueuesOf
  <1> QED
    BY <1>1, <1>2, <1>3, HostInvariance, StartInvariance, PTL DEF Spec
-----------------------------------------------------------------------------
(***************************************************************************)
(* The order of the releases.                                              *)
(***************************************************************************)
\* Fields of one queue are released in this order, and so are fields of the program.
Place(name) ==
    CASE name = "app_data_daddr" -> 1
      [] name = "rx_rule" -> 2 [] name = "rx_action" -> 3
      [] name = "tx_rule" -> 4 [] name = "tx_action" -> 5
      [] name = "tx_rule2" -> 6 [] name = "tx_action2" -> 7
      [] name = "dr_matcher_root" -> 8 [] name = "dr_table_root" -> 9
      [] name = "dr_matcher_sws" -> 10 [] name = "dr_table_sws" -> 11 [] name = "dr_domain" -> 12
      [] name = "flexio_sq_ptr" -> 13 [] name = "sqd_mkey" -> 14 [] name = "sq_wq_ring_daddr" -> 15
      [] name = "sq_wqd_daddr" -> 16 [] name = "flexio_sq_cq_ptr" -> 17
      [] name = "sq_cq_ring_daddr" -> 18 [] name = "sq_cq_dbr_daddr" -> 19
      [] name = "flexio_rq_ptr" -> 20 [] name = "rqd_mkey" -> 21 [] name = "rq_wq_dbr_daddr" -> 22
      [] name = "rq_wq_ring_daddr" -> 23 [] name = "rq_wqd_daddr" -> 24 [] name = "flexio_rq_cq_ptr" -> 25
      [] name = "rq_cq_ring_daddr" -> 26 [] name = "rq_cq_dbr_daddr" -> 27
      [] name = "event_handler" -> 28
      [] name = "stream" -> 29 [] name = "flexio_window" -> 30 [] name = "flexio_process" -> 31
      [] name = "ibv_ctx" -> 32
      [] OTHER -> 0

\* Names of one send queue and of one receive queue that the clean-up releases.
SqNames == {"flexio_sq_ptr", "sqd_mkey", "sq_wq_ring_daddr", "sq_wqd_daddr", "flexio_sq_cq_ptr",
            "sq_cq_ring_daddr", "sq_cq_dbr_daddr"}
RqNames == {"flexio_rq_ptr", "rqd_mkey", "rq_wq_dbr_daddr", "rq_wq_ring_daddr", "rq_wqd_daddr",
            "flexio_rq_cq_ptr", "rq_cq_ring_daddr", "rq_cq_dbr_daddr"}
PerQueue == SqNames \cup RqNames \cup RuleNames

\* What the clean-up may release.
ReleaseFields(o) ==
    {App(n) : n \in {"stream", "flexio_window", "flexio_process", "ibv_ctx"}}
    \cup {Matcher(dir, n) : dir \in {"rx", "tx"}, n \in MatcherNames}
    \cup {Of(c, n) : c \in ContextsOf(o), n \in {"app_data_daddr", "event_handler"}}
    \cup {OfQueue(c, j, n) : c \in ContextsOf(o), j \in Nat, n \in PerQueue}

\* Fields that have nothing to do with each other: of two contexts, of two matchers, or
\* of two queues.
Apart(f, g) ==
    \/ Owner(f) # Owner(g) /\ f[1] \in {"sch", "thd"} /\ g[1] \in {"sch", "thd"}
    \/ Owner(f) # Owner(g) /\ f[1] \in {"rx", "tx"} /\ g[1] \in {"rx", "tx"}
    \/ f[3] # g[3] /\ Name(f) \in PerQueue /\ Name(g) \in PerQueue

Before(f, g) == Place(Name(f)) < Place(Name(g)) \/ Apart(f, g)

\* The four kinds of fields that are released.
LEMMA ReleaseKinds ==
    ASSUME NEW o, NEW f \in ReleaseFields(o)
    PROVE  \/ Name(f) \in {"stream", "flexio_window", "flexio_process", "ibv_ctx"} /\ f = App(Name(f))
           \/ Name(f) \in MatcherNames /\ f[1] \in {"rx", "tx"} /\ f = Matcher(f[1], Name(f))
           \/ /\ Name(f) \in {"app_data_daddr", "event_handler"} /\ Owner(f) \in ContextsOf(o)
              /\ f[1] \in {"sch", "thd"} /\ f = Of(Owner(f), Name(f))
           \/ /\ Name(f) \in PerQueue /\ Owner(f) \in ContextsOf(o) /\ f[3] \in Nat
              /\ f[1] \in {"sch", "thd"} /\ f = OfQueue(Owner(f), f[3], Name(f))
  <1>1. ASSUME NEW c \in ContextsOf(o) PROVE c[1] \in {"sch", "thd"} /\ c = <<c[1], c[2]>>
    BY DEF ContextsOf, SchContexts, ThdContexts
  <1>2. ASSUME NEW n \in {"stream", "flexio_window", "flexio_process", "ibv_ctx"}, f = App(n)
        PROVE  Name(f) \in {"stream", "flexio_window", "flexio_process", "ibv_ctx"} /\ f = App(Name(f))
    BY <1>2 DEF App, Name
  <1>3. ASSUME NEW dir \in {"rx", "tx"}, NEW n \in MatcherNames, f = Matcher(dir, n)
        PROVE  Name(f) \in MatcherNames /\ f[1] \in {"rx", "tx"} /\ f = Matcher(f[1], Name(f))
    BY <1>3 DEF Matcher, Name
  <1>4. ASSUME NEW c \in ContextsOf(o), NEW n \in {"app_data_daddr", "event_handler"}, f = Of(c, n)
        PROVE  /\ Name(f) \in {"app_data_daddr", "event_handler"} /\ Owner(f) \in ContextsOf(o)
               /\ f[1] \in {"sch", "thd"} /\ f = Of(Owner(f), Name(f))
    BY <1>1, <1>4 DEF Of, Name, Owner
  <1>5. ASSUME NEW c \in ContextsOf(o), NEW j \in Nat, NEW n \in PerQueue, f = OfQueue(c, j, n)
        PROVE  /\ Name(f) \in PerQueue /\ Owner(f) \in ContextsOf(o) /\ f[3] \in Nat
               /\ f[1] \in {"sch", "thd"} /\ f = OfQueue(Owner(f), f[3], Name(f))
    BY <1>1, <1>5 DEF OfQueue, Name, Owner
  <1> QED
    BY <1>2, <1>3, <1>4, <1>5 DEF ReleaseFields

\* What a resource is built on comes later in this order, and is not apart from it.
LEMMA BuiltOnLater ==
    ASSUME NEW o, NEW u \in ReleaseFields(o), NEW f \in ReleaseFields(o), f \in BuiltOn(u)
    PROVE  Place(Name(u)) < Place(Name(f)) /\ ~Apart(f, u)
  <1>1. \A n : Name(App(n)) = n /\ App(n)[1] = "app" /\ App(n)[3] = 0
    BY DEF App, Name
  <1>2. \A c, n : Name(Of(c, n)) = n /\ Owner(Of(c, n)) = <<c[1], c[2]>> /\ Of(c, n)[3] = 0
    BY DEF Of, Name, Owner
  <1>3. \A c, j, n : /\ Name(OfQueue(c, j, n)) = n /\ Owner(OfQueue(c, j, n)) = <<c[1], c[2]>>
                     /\ OfQueue(c, j, n)[3] = j
    BY DEF OfQueue, Name, Owner
  <1>4. \A d, n : Name(Matcher(d, n)) = n /\ Owner(Matcher(d, n)) = <<d, 0>> /\ Matcher(d, n)[1] = d
    BY DEF Matcher, Name, Owner
  <1>5. Owner(u) = <<Owner(u)[1], Owner(u)[2]>>
    BY DEF Owner
  <1>6. /\ "event_handler" \notin PerQueue /\ "flexio_process" \notin PerQueue /\ "ibv_ctx" \notin PerQueue
        /\ \A n \in MatcherNames : n \notin PerQueue
    BY DEF PerQueue, SqNames, RqNames, RuleNames, MatcherNames
  <1>7. \A n : App(n) = f => n # "process_pd"
    BY <1>1, ReleaseKinds DEF MatcherNames, PerQueue, SqNames, RqNames, RuleNames
  <1>8. CASE Name(u) \in {"stream", "flexio_window", "flexio_process", "ibv_ctx"} /\ u = App(Name(u))
    <2>1. CASE Name(u) \in {"stream", "flexio_window"}
      <3>1. f = App("flexio_process")
        BY <1>7, <2>1 DEF BuiltOn, QueueParts
      <3> QED
        BY <1>1, <1>6, <2>1, <3>1 DEF Place, Apart
    <2>2. CASE Name(u) = "flexio_process"
      <3>1. f = App("ibv_ctx")
        BY <2>2 DEF BuiltOn, QueueParts
      <3> QED
        BY <1>1, <1>6, <2>2, <3>1 DEF Place, Apart
    <2>3. CASE Name(u) = "ibv_ctx"
      BY <2>3 DEF BuiltOn, QueueParts
    <2> QED
      BY <1>8, <2>1, <2>2, <2>3
  <1>9. CASE Name(u) \in MatcherNames /\ u[1] \in {"rx", "tx"} /\ u = Matcher(u[1], Name(u))
    <2>1. CASE Name(u) \in {"dr_matcher_root", "dr_matcher_sws"}
      <3>1. Name(u) = "dr_matcher_root" => f = Matcher(u[1], "dr_table_root")
        BY DEF BuiltOn, QueueParts
      <3>2. Name(u) = "dr_matcher_sws" => f = Matcher(u[1], "dr_table_sws")
        BY DEF BuiltOn, QueueParts
      <3>3. Place(Name(u)) < Place(Name(f))
        BY <1>4, <2>1, <3>1, <3>2 DEF Place
      <3>4. Owner(f) = Owner(u) /\ Name(f) \in MatcherNames
        <4>1. PICK n \in MatcherNames : f = Matcher(u[1], n)
          BY <2>1, <3>1, <3>2 DEF MatcherNames
        <4>2. Owner(f) = <<u[1], 0>> /\ Name(f) = n
          BY <1>4, <4>1, Zenon
        <4>3. Owner(u) = <<u[1], 0>>
          BY <1>4, <1>9, Zenon
        <4> QED
          BY <4>2, <4>3
      <3> QED
        BY <1>6, <3>3, <3>4 DEF Apart
    <2>2. CASE Name(u) \in {"dr_table_root", "dr_table_sws"}
      <3>1. f = Matcher(u[1], "dr_domain")
        BY <2>2 DEF BuiltOn, QueueParts
      <3>2. Place(Name(u)) < Place(Name(f))
        BY <1>4, <2>2, <3>1 DEF Place
      <3>3. Owner(f) = Owner(u) /\ Name(f) \in MatcherNames
        <4>1. Owner(f) = <<u[1], 0>> /\ Name(f) = "dr_domain"
          BY <1>4, <3>1, Zenon
        <4>2. Owner(u) = <<u[1], 0>>
          BY <1>4, <1>9, Zenon
        <4> QED
          BY <4>1, <4>2 DEF MatcherNames
      <3> QED
        BY <1>6, <3>2, <3>3 DEF Apart
    <2>3. CASE Name(u) = "dr_domain"
      <3>1. f = App("ibv_ctx")
        BY <2>3 DEF BuiltOn, QueueParts
      <3> QED
        BY <1>1, <1>6, <2>3, <3>1 DEF Place, Apart
    <2> QED
      BY <1>9, <2>1, <2>2, <2>3 DEF MatcherNames
  <1>10. CASE Name(u) \in {"app_data_daddr", "event_handler"} /\ u[1] \in {"sch", "thd"}
    <2>1. f = App("flexio_process")
      BY <1>10 DEF BuiltOn, QueueParts
    <2> QED
      BY <1>1, <1>6, <1>10, <2>1 DEF Place, Apart
  <1>11. CASE Name(u) \in PerQueue /\ u[1] \in {"sch", "thd"}
    <2>1. \/ \E n \in QueueParts(Name(u)) : f = OfQueue(Owner(u), u[3], n)
          \/ f = App("flexio_process")
          \/ Name(u) = "flexio_rq_cq_ptr" /\ f = Of(Owner(u), "event_handler")
          \/ Name(u) = "rx_rule" /\ f = Matcher("rx", "dr_matcher_root")
          \/ Name(u) = "tx_rule" /\ f = Matcher("tx", "dr_matcher_root")
          \/ Name(u) = "tx_rule2" /\ f = Matcher("tx", "dr_matcher_sws")
          \/ Name(u) = "tx_action" /\ f = Matcher("tx", "dr_table_sws")
          \/ Name(u) = "tx_action2" /\ f = Matcher("tx", "dr_domain")
      BY <1>7, <1>11 DEF BuiltOn, PerQueue, SqNames, RqNames, RuleNames
    <2>2. ASSUME NEW n \in QueueParts(Name(u)), f = OfQueue(Owner(u), u[3], n)
          PROVE  Place(Name(u)) < Place(Name(f)) /\ ~Apart(f, u)
      <3>1. Place(Name(u)) < Place(n)
        BY <1>11 DEF QueueParts, Place, PerQueue, SqNames, RqNames, RuleNames
      <3>2. Name(f) = n /\ Owner(f) = Owner(u) /\ f[3] = u[3]
        BY <1>3, <1>5, <2>2
      <3> QED
        BY <3>1, <3>2 DEF Apart
    <2>3. CASE f = App("flexio_process")
      BY <1>1, <1>6, <1>11, <2>3 DEF Place, Apart, PerQueue, SqNames, RqNames, RuleNames
    <2>4. CASE Name(u) = "flexio_rq_cq_ptr" /\ f = Of(Owner(u), "event_handler")
      <3>1. Name(f) = "event_handler" /\ Owner(f) = Owner(u)
        BY <1>2, <1>5, <2>4
      <3> QED
        BY <1>6, <2>4, <3>1 DEF Place, Apart
    <2>5. ASSUME NEW d \in {"rx", "tx"}, NEW n \in MatcherNames, f = Matcher(d, n), Name(u) \in RuleNames
          PROVE  Place(Name(u)) < Place(Name(f)) /\ ~Apart(f, u)
      <3>1. Name(f) = n /\ f[1] = d
        BY <1>4, <2>5
      <3>2. Place(Name(u)) < Place(Name(f))
        BY <2>5, <3>1 DEF Place, MatcherNames, RuleNames
      <3>3. ~Apart(f, u)
        BY <1>6, <1>11, <2>5, <3>1 DEF Apart
      <3> QED
        BY <3>2, <3>3
    <2> QED
      BY <2>1, <2>2, <2>3, <2>4, <2>5 DEF MatcherNames, RuleNames
  <1> QED
    BY <1>8, <1>9, <1>10, <1>11, ReleaseKinds

\* Nothing comes before itself, nor before what it is built on or released after.
LEMMA BeforeFacts ==
    ASSUME NEW o, NEW f \in ReleaseFields(o), NEW u \in ReleaseFields(o), Before(f, u)
    PROVE  f # u /\ f \notin BuiltOn(u)
  <1>1. \A n : Place(n) \in Nat
    BY DEF Place
  <1>2. f # u
    BY <1>1 DEF Before, Apart
  <1>3. f \notin BuiltOn(u)
    BY <1>1, BuiltOnLater DEF Before
  <1> QED
    BY <1>2, <1>3

\* Pointers and flags that the clean-up looks at.
ReleaseFlags(o) ==
    {App(n) : n \in AppFlags}
    \cup {OfQueue(c, j, n) : c \in ContextsOf(o), j \in Nat, n \in QueueFlags \cup RuleFlags}

\* Release e passes over what is shared, and over nothing that its field owns; it goes
\* through the pointer that says the rule or the matcher is complete; and it only waits
\* for what comes before it in the same queue, or in the same matcher.
Fit(o, e) ==
    /\ e.field \in PointedFields(o) => Guard(o, e.field) \in e.unless
    /\ e.field \in MadeFields(o) => \A g \in e.unless : Name(g) \in FlagNames /\ Name(g) \notin UsedFlagNames(o)
    /\ \/ e.via = e.field
       \/ Name(e.field) \in RuleNames /\ e.via = RuleFlag(e.field)
       \/ e.field[1] = "rx" /\ e.via = App("rx_matcher")
       \/ e.field[1] = "tx" /\ e.via = App("tx_matcher")
    /\ \A h \in e.after : /\ Owner(h) = Owner(e.field) /\ h[3] = e.field[3]
                          /\ 0 < Place(Name(h)) /\ Place(Name(h)) < Place(Name(e.field))

Releases(o) ==
    {e \in [field : ReleaseFields(o), via : ReleaseFields(o) \cup ReleaseFlags(o),
            unless : SUBSET ReleaseFlags(o), after : SUBSET ReleaseFields(o)] : Fit(o, e)}

\* Sequences of releases, in order, of the fields F.
Tidy(o, F) ==
    {s \in Seq(Releases(o)) :
        /\ \A x \in 1..Len(s), y \in 1..Len(s) : x < y => Before(s[x].field, s[y].field)
        /\ \A x \in 1..Len(s) : s[x].field \in F
        /\ \A f \in F : \E x \in 1..Len(s) : s[x].field = f}

\* One tidy sequence after another is tidy when all fields of the first come before those of the second,
LEMMA TidyConcat ==
    ASSUME NEW o, NEW F, NEW G, NEW a \in Tidy(o, F), NEW b \in Tidy(o, G),
           \A f \in F, g \in G : Before(f, g)
    PROVE  a \o b \in Tidy(o, F \cup G)
  <1>1. a \in Seq(Releases(o)) /\ b \in Seq(Releases(o)) /\ Len(a) \in Nat /\ Len(b) \in Nat
    BY DEF Tidy
  <1>2. PICK s : s = a \o b
    OBVIOUS
  <1>3. s \in Seq(Releases(o)) /\ Len(s) = Len(a) + Len(b)
    BY <1>1, <1>2, ConcatElements
  <1>4. /\ \A x \in 1..Len(a) : x \in 1..Len(s) /\ s[x] = a[x]
        /\ \A x \in 1..Len(b) : Len(a) + x \in 1..Len(s) /\ s[Len(a) + x] = b[x]
    BY <1>1, <1>2, ConcatElements
  <1>5. \A x \in 1..Len(s) : \/ x \in 1..Len(a) /\ s[x] = a[x]
                             \/ \E y \in 1..Len(b) : x = Len(a) + y /\ s[x] = b[y]
    BY <1>1, <1>2, ConcatElements
  <1>6. /\ \A x \in 1..Len(a), y \in 1..Len(a) : x < y => Before(a[x].field, a[y].field)
        /\ \A x \in 1..Len(a) : a[x].field \in F
        /\ \A f \in F : \E x \in 1..Len(a) : a[x].field = f
    BY DEF Tidy
  <1>7. /\ \A x \in 1..Len(b), y \in 1..Len(b) : x < y => Before(b[x].field, b[y].field)
        /\ \A x \in 1..Len(b) : b[x].field \in G
        /\ \A f \in G : \E x \in 1..Len(b) : b[x].field = f
    BY DEF Tidy
  <1>8. ASSUME NEW x \in 1..Len(s), NEW y \in 1..Len(s), x < y PROVE Before(s[x].field, s[y].field)
    <2>1. CASE x \in 1..Len(a) /\ s[x] = a[x]
      <3>1. CASE y \in 1..Len(a) /\ s[y] = a[y]
        BY <1>6, <1>8, <2>1, <3>1
      <3>2. ASSUME NEW z \in 1..Len(b), s[y] = b[z] PROVE Before(s[x].field, s[y].field)
        BY <1>6, <1>7, <2>1, <3>2
      <3> QED
        BY <1>5, <3>1, <3>2
    <2>2. ASSUME NEW w \in 1..Len(b), x = Len(a) + w, s[x] = b[w] PROVE Before(s[x].field, s[y].field)
      <3>1. ~(y \in 1..Len(a))
        BY <1>1, <1>8, <2>2
      <3>2. PICK z \in 1..Len(b) : y = Len(a) + z /\ s[y] = b[z]
        BY <1>5, <3>1
      <3>3. w < z
        BY <1>1, <1>8, <2>2, <3>2
      <3> QED
        BY <1>7, <2>2, <3>2, <3>3
    <2> QED
      BY <1>5, <2>1, <2>2
  <1>9. ASSUME NEW x \in 1..Len(s) PROVE s[x].field \in F \cup G
    BY <1>5, <1>6, <1>7
  <1>10. ASSUME NEW f \in F \cup G PROVE \E x \in 1..Len(s) : s[x].field = f
    BY <1>4, <1>6, <1>7
  <1>11. s \in Tidy(o, F \cup G)
    BY <1>3, <1>8, <1>9, <1>10 DEF Tidy
  <1> QED
    BY <1>2, <1>11

\* and so are any number of them.
LEMMA TidyFlatten ==
    ASSUME NEW o, NEW n \in Nat, NEW f, f = [i \in 1..n |-> f[i]], NEW F, NEW U,
           \A i \in 1..n : f[i] \in Tidy(o, F[i]),
           \A i \in 1..n, j \in 1..n : i < j => \A p \in F[i], q \in F[j] : Before(p, q),
           \A p : p \in U <=> \E i \in 1..n : p \in F[i]
    PROVE  FlattenSeq(f) \in Tidy(o, U)
  <1>0. f \in Seq(Seq(Releases(o))) /\ Len(f) = n
    <2>1. \A i \in 1..n : f[i] \in Seq(Releases(o))
      BY DEF Tidy
    <2>2. f \in [1..n -> Seq(Releases(o))]
      BY <2>1
    <2> QED
      BY <2>2, FunctionIsSeq
  <1>1. CASE n = 0
    <2>1. f = <<>>
      BY <1>0, <1>1
    <2>2. FlattenSeq(f) = <<>>
      BY <1>0, <1>1, <2>1 DEF FlattenSeq
    <2>3. \A p : p \notin U
      BY <1>1
    <2>4. <<>> \in Tidy(o, U)
      BY <2>3 DEF Tidy
    <2> QED
      BY <2>2, <2>4
  <1>2. CASE n # 0
    <2>1. PICK g : /\ FlattenSeq(f) = g[n]
                   /\ \A i \in 1..n :
                         g[i] \in Seq(Releases(o)) /\ g[i] = IF i = 1 THEN f[i] ELSE g[i - 1] \o f[i]
      <3>1. PICK seqs \in Seq(Seq(Releases(o))) : seqs = f
        BY <1>0, Zenon
      <3>2. Len(seqs) # 0
        BY <1>0, <1>2, <3>1
      <3>3. PICK h : /\ FlattenSeq(seqs) = h[Len(seqs)]
                     /\ \A i \in 1..Len(seqs) :
                           h[i] \in Seq(Releases(o)) /\ h[i] = IF i = 1 THEN seqs[i] ELSE h[i - 1] \o seqs[i]
        BY <3>2, FlattenSeqIs
      <3> QED
        BY <1>0, <3>1, <3>3, Zenon
    <2> DEFINE Sofar(k) == {p \in U : \E i \in 1..k : p \in F[i]}
               K == {k \in Nat : k + 1 <= n => g[k + 1] \in Tidy(o, Sofar(k + 1))}
    <2>2. 0 \in K
      <3>1. 1 \in 1..n /\ 0 + 1 = 1
        BY <1>2
      <3>2. g[1] = f[1] /\ f[1] \in Tidy(o, F[1])
        BY <2>1, <3>1
      <3>3. \A i \in 1..1 : i = 1
        OBVIOUS
      <3>4. Sofar(1) = F[1]
        BY <3>1, <3>3
      <3> HIDE DEF Sofar
      <3> QED
        BY <3>1, <3>2, <3>4
    <2>3. ASSUME NEW k \in K PROVE k + 1 \in K
      <3> HIDE DEF Sofar
      <3> SUFFICES ASSUME (k + 1) + 1 <= n PROVE g[(k + 1) + 1] \in Tidy(o, Sofar((k + 1) + 1))
        OBVIOUS
      <3>1. /\ g[k + 1] \in Tidy(o, Sofar(k + 1)) /\ k \in Nat
            /\ (k + 1) + 1 \in 1..n /\ ((k + 1) + 1) - 1 = k + 1 /\ (k + 1) + 1 # 1
        OBVIOUS
      <3>2. PICK m \in 1..n : m = (k + 1) + 1 /\ m # 1 /\ m - 1 = k + 1
        BY <3>1, Zenon
      <3>3. g[m] = g[k + 1] \o f[m] /\ f[m] \in Tidy(o, F[m])
        BY <2>1, <3>2
      <3>4. \A i \in 1..(k + 1) : i \in 1..n /\ i < m /\ i \in 1..m
        BY <3>1, <3>2
      <3>5. \A p \in Sofar(k + 1), q \in F[m] : Before(p, q)
        BY <3>2, <3>4, Zenon DEF Sofar
      <3>6. g[m] \in Tidy(o, Sofar(k + 1) \cup F[m])
        <4>1. g[k + 1] \o f[m] \in Tidy(o, Sofar(k + 1) \cup F[m])
          BY <3>1, <3>3, <3>5, TidyConcat, Zenon
        <4> QED
          BY <3>3, <4>1, Zenon
      <3>7. \A i \in 1..m : i \in 1..(k + 1) \/ i = m
        BY <3>1, <3>2
      <3>8. m \in 1..m
        BY <3>2
      <3>9. Sofar(m) = Sofar(k + 1) \cup F[m]
        BY <3>2, <3>4, <3>7, <3>8 DEF Sofar
      <3> QED
        BY <3>2, <3>6, <3>9
    <2>4. K = Nat
      <3> HIDE DEF K
      <3>1. K \in SUBSET Nat
        BY DEF K
      <3> QED
        BY <2>2, <2>3, <3>1, SetInduction
    <2>5. n - 1 \in Nat /\ (n - 1) + 1 = n
      BY <1>2
    <2>6. n - 1 \in K
      BY <2>4, <2>5, Zenon
    <2>7. g[n] \in Tidy(o, Sofar(n))
      <3> HIDE DEF Sofar
      <3> QED
        BY <2>5, <2>6
    <2>8. Sofar(n) = U
      OBVIOUS
    <2> QED
      BY <2>1, <2>7, <2>8
  <1> QED
    BY <1>1, <1>2

\* Where the names stand in the order.
LEMMA PlaceRanges ==
    /\ \A n : Place(n) \in Nat
    /\ Place("app_data_daddr") = 1 /\ Place("event_handler") = 28
    /\ \A n \in RuleNames : Place(n) \in 2..7
    /\ \A n \in MatcherNames : Place(n) \in 8..12
    /\ \A n \in SqNames : Place(n) \in 13..19
    /\ \A n \in RqNames : Place(n) \in 20..27
    /\ \A n \in {"stream", "flexio_window", "flexio_process", "ibv_ctx"} : Place(n) \in 29..32
  <1>1. \A n : Place(n) \in Nat
    BY DEF Place
  <1>2. Place("app_data_daddr") = 1 /\ Place("event_handler") = 28
    BY DEF Place
  <1>3. \A n \in RuleNames : Place(n) \in 2..7
    BY DEF Place, RuleNames
  <1>4. \A n \in MatcherNames : Place(n) \in 8..12
    BY DEF Place, MatcherNames
  <1>5. \A n \in SqNames : Place(n) \in 13..19
    BY DEF Place, SqNames
  <1>6. \A n \in RqNames : Place(n) \in 20..27
    BY DEF Place, RqNames
  <1>7. \A n \in {"stream", "flexio_window", "flexio_process", "ibv_ctx"} : Place(n) \in 29..32
    BY DEF Place
  <1> QED
    BY <1>1, <1>2, <1>3, <1>4, <1>5, <1>6, <1>7

\* The fields that the clean-up releases for contexts C, under the names N.
PartOf(o, C, N) ==
    {f \in ReleaseFields(o) : Owner(f) \in C /\ f[3] \in QueuesOf(o, Owner(f)) /\ Name(f) \in N}

\* Those of one queue, of a matcher and of the program.
QueuePart(o, c, j, N) == {f \in ReleaseFields(o) : Owner(f) = c /\ f[3] = j /\ Name(f) \in N}
KindPart(o, kind) == {f \in ReleaseFields(o) : f[1] = kind}

\* The fields of a queue.
LEMMA QueuePartFields ==
    ASSUME NEW o, NEW c \in ContextsOf(o), NEW j \in Nat, NEW n \in PerQueue, NEW f, f = OfQueue(c, j, n)
    PROVE  /\ f \in ReleaseFields(o) /\ Owner(f) = c /\ f[3] = j /\ Name(f) = n
           /\ \A N : n \in N => f \in QueuePart(o, c, j, N)
  <1>1. f \in ReleaseFields(o)
    BY DEF ReleaseFields
  <1>2. Owner(f) = c /\ f[3] = j /\ Name(f) = n
    BY DEF OfQueue, Owner, Name, ContextsOf, SchContexts, ThdContexts
  <1> QED
    BY <1>1, <1>2 DEF QueuePart

\* A release that asks for nothing but its own field, which is always made.
LEMMA FreeFits ==
    ASSUME NEW o, NEW f \in ReleaseFields(o), Name(f) \notin PointedNames(o)
    PROVE  Free(f) \in Releases(o) /\ Free(f).field = f
  <1>1. f \notin PointedFields(o)
    BY DEF PointedFields
  <1>2. Free(f).field = f /\ Free(f).via = f /\ Free(f).unless = {} /\ Free(f).after = {}
    BY DEF Free
  <1>3. Fit(o, Free(f))
    BY <1>1, <1>2 DEF Fit
  <1> QED
    BY <1>2, <1>3 DEF Releases, Free

\* Releases that leave out what is shared.
LEMMA FreeUnlessFits ==
    ASSUME NEW o \in OptionRecords, NEW f \in ReleaseFields(o), NEW flags,
           \A g \in flags : \E n \in QueueFlags : g = OfQueue(Owner(f), f[3], n),
           Name(f) \in PerQueue,
           \/ Name(f) = "rq_wqd_daddr" /\ flags = {OfQueue(Owner(f), f[3], "rq_data_on_host")}
           \/ Name(f) = "sqd_mkey" /\ flags = {OfQueue(Owner(f), f[3], "sq_data_reuses_rq")}
           \/ Name(f) = "sq_wqd_daddr" /\ flags = {OfQueue(Owner(f), f[3], "sq_data_on_host"),
                                                   OfQueue(Owner(f), f[3], "sq_data_reuses_rq")}
    PROVE  FreeUnless(f, flags) \in Releases(o) /\ FreeUnless(f, flags).field = f
  <1>0. o.buffer_location \in {0, 1} /\ o.use_copy \in {0, 1}
    BY OptionFacts
  <1>1. FreeUnless(f, flags) = [field |-> f, via |-> f, unless |-> flags, after |-> {}]
    BY DEF FreeUnless, Free
  <1>2. PICK e : e = FreeUnless(f, flags)
    OBVIOUS
  <1>3. e = [field |-> f, via |-> f, unless |-> flags, after |-> {}]
    BY <1>1, <1>2
  <1>4. Name(f) \in PointedNames(o) => Guard(o, f) \in flags
    BY <1>0 DEF PointedNames, HostBuffers, Guard, GuardName
  <1>5. ASSUME Name(f) \notin PointedNames(o), NEW g \in flags
        PROVE  Name(g) \in FlagNames /\ Name(g) \notin UsedFlagNames(o)
    <2>1. \A c, j, n : Name(OfQueue(c, j, n)) = n
      BY DEF Name, OfQueue
    <2>2. PICK n \in QueueFlags : g = OfQueue(Owner(f), f[3], n)
      OBVIOUS
    <2>3. n \in FlagNames
      BY DEF FlagNames
    <2>4. \/ Name(f) = "rq_wqd_daddr" /\ Name(g) = "rq_data_on_host"
          \/ Name(f) = "sqd_mkey" /\ Name(g) = "sq_data_reuses_rq"
          \/ Name(f) = "sq_wqd_daddr" /\ Name(g) \in {"sq_data_on_host", "sq_data_reuses_rq"}
      BY <1>5, <2>1
    <2>5. Name(g) \notin UsedFlagNames(o)
      BY <1>0, <1>5, <2>4 DEF PointedNames, UsedFlagNames, AppFlags, RuleFlags
    <2> QED
      BY <2>1, <2>2, <2>3, <2>5
  <1>6. e.field = f /\ e.via = f /\ e.unless = flags /\ e.after = {}
    BY <1>3
  <1>7. Fit(o, e)
    <2>1. e.field \in PointedFields(o) => Guard(o, e.field) \in e.unless
      BY <1>4, <1>6 DEF PointedFields
    <2>2. e.field \in MadeFields(o) => \A g \in e.unless : Name(g) \in FlagNames /\ Name(g) \notin UsedFlagNames(o)
      BY <1>5, <1>6 DEF MadeFields
    <2> QED
      BY <1>6, <2>1, <2>2 DEF Fit
  <1>8. flags \subseteq ReleaseFlags(o)
    <2>1. Owner(f) \in ContextsOf(o) /\ f[3] \in Nat
      BY ReleaseKinds DEF PerQueue, SqNames, RqNames, RuleNames, MatcherNames
    <2>2. \A n \in QueueFlags : OfQueue(Owner(f), f[3], n) \in ReleaseFlags(o)
      BY <2>1 DEF ReleaseFlags
    <2> QED
      BY <2>2
  <1>9. e \in Releases(o)
    BY <1>3, <1>7, <1>8 DEF Releases
  <1> QED
    BY <1>2, <1>6, <1>9

\* Releases that stand at consecutive places are in order.
LEMMA ConsecutiveTidy ==
    ASSUME NEW o, NEW F, NEW s \in Seq(Releases(o)), NEW b \in Nat,
           \A x \in 1..Len(s) : s[x].field \in F /\ Place(Name(s[x].field)) = b + x,
           \A f \in F : \E x \in 1..Len(s) : s[x].field = f
    PROVE  s \in Tidy(o, F)
  <1>1. ASSUME NEW x \in 1..Len(s), NEW y \in 1..Len(s), x < y PROVE Before(s[x].field, s[y].field)
    <2>1. Place(Name(s[x].field)) < Place(Name(s[y].field))
      BY <1>1
    <2> QED
      BY <2>1 DEF Before
  <1> QED
    BY <1>1 DEF Tidy

\* What is released for one send queue, one receive queue and the rules of one queue.
SqReleases(c, j) ==
    <<Free(OfQueue(c, j, "flexio_sq_ptr")),
      FreeUnless(OfQueue(c, j, "sqd_mkey"), {OfQueue(c, j, "sq_data_reuses_rq")}),
      Free(OfQueue(c, j, "sq_wq_ring_daddr")),
      FreeUnless(OfQueue(c, j, "sq_wqd_daddr"),
                 {OfQueue(c, j, "sq_data_on_host"), OfQueue(c, j, "sq_data_reuses_rq")}),
      Free(OfQueue(c, j, "flexio_sq_cq_ptr")),
      Free(OfQueue(c, j, "sq_cq_ring_daddr")), Free(OfQueue(c, j, "sq_cq_dbr_daddr"))>>

RqReleases(c, j) ==
    <<Free(OfQueue(c, j, "flexio_rq_ptr")), Free(OfQueue(c, j, "rqd_mkey")),
      Free(OfQueue(c, j, "rq_wq_dbr_daddr")), Free(OfQueue(c, j, "rq_wq_ring_daddr")),
      FreeUnless(OfQueue(c, j, "rq_wqd_daddr"), {OfQueue(c, j, "rq_data_on_host")}),
      Free(OfQueue(c, j, "flexio_rq_cq_ptr")),
      Free(OfQueue(c, j, "rq_cq_ring_daddr")), Free(OfQueue(c, j, "rq_cq_dbr_daddr"))>>

\* The release of a field that may be shared.
LEMMA QueueReleaseFits ==
    ASSUME NEW o \in OptionRecords, NEW c \in ContextsOf(o), NEW j \in Nat
    PROVE  /\ \A n \in SqNames \cup RqNames :
                  n \notin {"rq_wqd_daddr", "sqd_mkey", "sq_wqd_daddr"} =>
                      Free(OfQueue(c, j, n)) \in Releases(o) /\ Free(OfQueue(c, j, n)).field = OfQueue(c, j, n)
           /\ \A e : e = FreeUnless(OfQueue(c, j, "rq_wqd_daddr"), {OfQueue(c, j, "rq_data_on_host")}) =>
                  e \in Releases(o) /\ e.field = OfQueue(c, j, "rq_wqd_daddr")
           /\ \A e : e = FreeUnless(OfQueue(c, j, "sqd_mkey"), {OfQueue(c, j, "sq_data_reuses_rq")}) =>
                  e \in Releases(o) /\ e.field = OfQueue(c, j, "sqd_mkey")
           /\ \A e : e = FreeUnless(OfQueue(c, j, "sq_wqd_daddr"),
                                    {OfQueue(c, j, "sq_data_on_host"), OfQueue(c, j, "sq_data_reuses_rq")}) =>
                  e \in Releases(o) /\ e.field = OfQueue(c, j, "sq_wqd_daddr")
  <1>1. ASSUME NEW n \in SqNames \cup RqNames, n \notin {"rq_wqd_daddr", "sqd_mkey", "sq_wqd_daddr"}
        PROVE  Free(OfQueue(c, j, n)) \in Releases(o) /\ Free(OfQueue(c, j, n)).field = OfQueue(c, j, n)
    <2>1. PICK f : f = OfQueue(c, j, n)
      OBVIOUS
    <2>2. n \in PerQueue /\ n \notin PointedNames(o)
      BY <1>1 DEF PerQueue, PointedNames, HostBuffers, SqNames, RqNames
    <2>3. f \in ReleaseFields(o) /\ Name(f) = n
      BY <2>1, <2>2, QueuePartFields
    <2> QED
      BY <2>1, <2>2, <2>3, FreeFits
  <1>2. "rq_data_on_host" \in QueueFlags /\ "sq_data_reuses_rq" \in QueueFlags /\ "sq_data_on_host" \in QueueFlags
    BY DEF QueueFlags
  <1>3. "rq_wqd_daddr" \in PerQueue /\ "sqd_mkey" \in PerQueue /\ "sq_wqd_daddr" \in PerQueue
    BY DEF PerQueue, SqNames, RqNames
  <1>4. ASSUME NEW n \in PerQueue, NEW flags, \A g \in flags : \E m \in QueueFlags : g = OfQueue(c, j, m),
               \/ n = "rq_wqd_daddr" /\ flags = {OfQueue(c, j, "rq_data_on_host")}
               \/ n = "sqd_mkey" /\ flags = {OfQueue(c, j, "sq_data_reuses_rq")}
               \/ n = "sq_wqd_daddr" /\ flags = {OfQueue(c, j, "sq_data_on_host"), OfQueue(c, j, "sq_data_reuses_rq")},
               NEW e, e = FreeUnless(OfQueue(c, j, n), flags)
        PROVE  e \in Releases(o) /\ e.field = OfQueue(c, j, n)
    <2>1. PICK f : f = OfQueue(c, j, n)
      OBVIOUS
    <2>2. f \in ReleaseFields(o) /\ Name(f) = n /\ Owner(f) = c /\ f[3] = j
      BY <2>1, QueuePartFields
    <2>3. Name(f) \in PerQueue /\ \A g \in flags : \E m \in QueueFlags : g = OfQueue(Owner(f), f[3], m)
      BY <1>4, <2>2
    <2>4. \/ Name(f) = "rq_wqd_daddr" /\ flags = {OfQueue(Owner(f), f[3], "rq_data_on_host")}
          \/ Name(f) = "sqd_mkey" /\ flags = {OfQueue(Owner(f), f[3], "sq_data_reuses_rq")}
          \/ Name(f) = "sq_wqd_daddr" /\ flags = {OfQueue(Owner(f), f[3], "sq_data_on_host"),
                                                  OfQueue(Owner(f), f[3], "sq_data_reuses_rq")}
      BY <1>4, <2>2
    <2>5. FreeUnless(f, flags) \in Releases(o) /\ FreeUnless(f, flags).field = f
      BY <2>2, <2>3, <2>4, FreeUnlessFits
    <2> QED
      BY <1>4, <2>1, <2>5
  <1>5. /\ \A g \in {OfQueue(c, j, "rq_data_on_host")} : \E m \in QueueFlags : g = OfQueue(c, j, m)
        /\ \A g \in {OfQueue(c, j, "sq_data_reuses_rq")} : \E m \in QueueFlags : g = OfQueue(c, j, m)
        /\ \A g \in {OfQueue(c, j, "sq_data_on_host"), OfQueue(c, j, "sq_data_reuses_rq")} :
              \E m \in QueueFlags : g = OfQueue(c, j, m)
    BY <1>2
  <1> QED
    BY <1>1, <1>3, <1>4, <1>5

\* They are in order, and complete.
LEMMA SqReleasesTidy ==
    ASSUME NEW o \in OptionRecords, NEW c \in ContextsOf(o), NEW j \in Nat
    PROVE  SqReleases(c, j) \in Tidy(o, QueuePart(o, c, j, SqNames))
  <1>1. PICK s : s = SqReleases(c, j)
    OBVIOUS
  <1>2. /\ s \in Seq(Releases(o)) /\ Len(s) = 7
        /\ s[1].field = OfQueue(c, j, "flexio_sq_ptr") /\ s[2].field = OfQueue(c, j, "sqd_mkey")
        /\ s[3].field = OfQueue(c, j, "sq_wq_ring_daddr") /\ s[4].field = OfQueue(c, j, "sq_wqd_daddr")
        /\ s[5].field = OfQueue(c, j, "flexio_sq_cq_ptr") /\ s[6].field = OfQueue(c, j, "sq_cq_ring_daddr")
        /\ s[7].field = OfQueue(c, j, "sq_cq_dbr_daddr")
    <2>1. PICK e1 : e1 = Free(OfQueue(c, j, "flexio_sq_ptr"))
      OBVIOUS
    <2>2. PICK e2 : e2 = FreeUnless(OfQueue(c, j, "sqd_mkey"), {OfQueue(c, j, "sq_data_reuses_rq")})
      OBVIOUS
    <2>3. PICK e3 : e3 = Free(OfQueue(c, j, "sq_wq_ring_daddr"))
      OBVIOUS
    <2>4. PICK e4 : e4 = FreeUnless(OfQueue(c, j, "sq_wqd_daddr"),
                              {OfQueue(c, j, "sq_data_on_host"), OfQueue(c, j, "sq_data_reuses_rq")})
      OBVIOUS
    <2>5. PICK e5 : e5 = Free(OfQueue(c, j, "flexio_sq_cq_ptr"))
      OBVIOUS
    <2>6. PICK e6 : e6 = Free(OfQueue(c, j, "sq_cq_ring_daddr"))
      OBVIOUS
    <2>7. PICK e7 : e7 = Free(OfQueue(c, j, "sq_cq_dbr_daddr"))
      OBVIOUS
    <2>8. s = <<e1, e2, e3, e4, e5, e6, e7>>
      BY <1>1, <2>1, <2>2, <2>3, <2>4, <2>5, <2>6, <2>7, Zenon DEF SqReleases
    <2>a. \A n \in {"flexio_sq_ptr", "sq_wq_ring_daddr", "flexio_sq_cq_ptr", "sq_cq_ring_daddr", "sq_cq_dbr_daddr"} :
              Free(OfQueue(c, j, n)) \in Releases(o) /\ Free(OfQueue(c, j, n)).field = OfQueue(c, j, n)
      <3>1. \A n \in {"flexio_sq_ptr", "sq_wq_ring_daddr", "flexio_sq_cq_ptr", "sq_cq_ring_daddr", "sq_cq_dbr_daddr"} :
                n \in SqNames \cup RqNames /\ n \notin {"rq_wqd_daddr", "sqd_mkey", "sq_wqd_daddr"}
        BY DEF SqNames, RqNames
      <3> QED
        BY <3>1, QueueReleaseFits, ZenonT(60)
    <2>9. e1 \in Releases(o) /\ e1.field = OfQueue(c, j, "flexio_sq_ptr")
      BY <2>1, <2>a, Zenon
    <2>10. e2 \in Releases(o) /\ e2.field = OfQueue(c, j, "sqd_mkey")
      BY <2>2, QueueReleaseFits
    <2>11. e3 \in Releases(o) /\ e3.field = OfQueue(c, j, "sq_wq_ring_daddr")
      BY <2>3, <2>a, Zenon
    <2>12. e4 \in Releases(o) /\ e4.field = OfQueue(c, j, "sq_wqd_daddr")
      BY <2>4, QueueReleaseFits
    <2>13. e5 \in Releases(o) /\ e5.field = OfQueue(c, j, "flexio_sq_cq_ptr")
      BY <2>5, <2>a, Zenon
    <2>14. e6 \in Releases(o) /\ e6.field = OfQueue(c, j, "sq_cq_ring_daddr")
      BY <2>6, <2>a, Zenon
    <2>15. e7 \in Releases(o) /\ e7.field = OfQueue(c, j, "sq_cq_dbr_daddr")
      BY <2>7, <2>a, Zenon
    <2> QED
      BY <2>8, <2>9, <2>10, <2>11, <2>12, <2>13, <2>14, <2>15
  <1>3. \A x \in 1..7 : \E n \in SqNames : s[x].field = OfQueue(c, j, n) /\ Place(n) = 12 + x
    BY <1>2 DEF SqNames, Place
  <1>4. \A n \in SqNames : \E x \in 1..7 : s[x].field = OfQueue(c, j, n)
    BY <1>2 DEF SqNames
  <1>5. \A n \in SqNames : /\ OfQueue(c, j, n) \in QueuePart(o, c, j, SqNames)
                           /\ Name(OfQueue(c, j, n)) = n
    BY QueuePartFields DEF PerQueue
  <1>6. ASSUME NEW f \in QueuePart(o, c, j, SqNames) PROVE \E n \in SqNames : f = OfQueue(c, j, n)
    BY ReleaseKinds DEF QueuePart, SqNames, MatcherNames
  <1>7. \A x \in 1..Len(s) : s[x].field \in QueuePart(o, c, j, SqNames) /\ Place(Name(s[x].field)) = 12 + x
    BY <1>2, <1>3, <1>5
  <1>8. \A f \in QueuePart(o, c, j, SqNames) : \E x \in 1..Len(s) : s[x].field = f
    BY <1>2, <1>4, <1>6
  <1>9. s \in Tidy(o, QueuePart(o, c, j, SqNames))
    BY <1>2, <1>7, <1>8, ConsecutiveTidy
  <1> QED
    BY <1>1, <1>9

\* So are those of a receive queue,
LEMMA RqReleasesTidy ==
    ASSUME NEW o \in OptionRecords, NEW c \in ContextsOf(o), NEW j \in Nat
    PROVE  RqReleases(c, j) \in Tidy(o, QueuePart(o, c, j, RqNames))
  <1>1. PICK s : s = RqReleases(c, j)
    OBVIOUS
  <1>2. /\ s \in Seq(Releases(o)) /\ Len(s) = 8
        /\ s[1].field = OfQueue(c, j, "flexio_rq_ptr") /\ s[2].field = OfQueue(c, j, "rqd_mkey")
        /\ s[3].field = OfQueue(c, j, "rq_wq_dbr_daddr") /\ s[4].field = OfQueue(c, j, "rq_wq_ring_daddr")
        /\ s[5].field = OfQueue(c, j, "rq_wqd_daddr") /\ s[6].field = OfQueue(c, j, "flexio_rq_cq_ptr")
        /\ s[7].field = OfQueue(c, j, "rq_cq_ring_daddr") /\ s[8].field = OfQueue(c, j, "rq_cq_dbr_daddr")
    <2>1. PICK e1 : e1 = Free(OfQueue(c, j, "flexio_rq_ptr"))
      OBVIOUS
    <2>2. PICK e2 : e2 = Free(OfQueue(c, j, "rqd_mkey"))
      OBVIOUS
    <2>3. PICK e3 : e3 = Free(OfQueue(c, j, "rq_wq_dbr_daddr"))
      OBVIOUS
    <2>4. PICK e4 : e4 = Free(OfQueue(c, j, "rq_wq_ring_daddr"))
      OBVIOUS
    <2>5. PICK e5 : e5 = FreeUnless(OfQueue(c, j, "rq_wqd_daddr"), {OfQueue(c, j, "rq_data_on_host")})
      OBVIOUS
    <2>6. PICK e6 : e6 = Free(OfQueue(c, j, "flexio_rq_cq_ptr"))
      OBVIOUS
    <2>7. PICK e7 : e7 = Free(OfQueue(c, j, "rq_cq_ring_daddr"))
      OBVIOUS
    <2>8. PICK e8 : e8 = Free(OfQueue(c, j, "rq_cq_dbr_daddr"))
      OBVIOUS
    <2>9. s = <<e1, e2, e3, e4, e5, e6, e7, e8>>
      BY <1>1, <2>1, <2>2, <2>3, <2>4, <2>5, <2>6, <2>7, <2>8, Zenon DEF RqReleases
    <2>a. \A n \in {"flexio_rq_ptr", "rqd_mkey", "rq_wq_dbr_daddr", "rq_wq_ring_daddr", "flexio_rq_cq_ptr",
                    "rq_cq_ring_daddr", "rq_cq_dbr_daddr"} :
              Free(OfQueue(c, j, n)) \in Releases(o) /\ Free(OfQueue(c, j, n)).field = OfQueue(c, j, n)
      <3>1. \A n \in {"flexio_rq_ptr", "rqd_mkey", "rq_wq_dbr_daddr", "rq_wq_ring_daddr", "flexio_rq_cq_ptr",
                      "rq_cq_ring_daddr", "rq_cq_dbr_daddr"} :
                n \in SqNames \cup RqNames /\ n \notin {"rq_wqd_daddr", "sqd_mkey", "sq_wqd_daddr"}
        BY DEF SqNames, RqNames
      <3> QED
        BY <3>1, QueueReleaseFits, ZenonT(60)
    <2>10. e1 \in Releases(o) /\ e1.field = OfQueue(c, j, "flexio_rq_ptr")
      BY <2>1, <2>a, Zenon
    <2>11. e2 \in Releases(o) /\ e2.field = OfQueue(c, j, "rqd_mkey")
      BY <2>2, <2>a, Zenon
    <2>12. e3 \in Releases(o) /\ e3.field = OfQueue(c, j, "rq_wq_dbr_daddr")
      BY <2>3, <2>a, Zenon
    <2>13. e4 \in Releases(o) /\ e4.field = OfQueue(c, j, "rq_wq_ring_daddr")
      BY <2>4, <2>a, Zenon
    <2>14. e5 \in Releases(o) /\ e5.field = OfQueue(c, j, "rq_wqd_daddr")
      BY <2>5, QueueReleaseFits
    <2>15. e6 \in Releases(o) /\ e6.field = OfQueue(c, j, "flexio_rq_cq_ptr")
      BY <2>6, <2>a, Zenon
    <2>16. e7 \in Releases(o) /\ e7.field = OfQueue(c, j, "rq_cq_ring_daddr")
      BY <2>7, <2>a, Zenon
    <2>17. e8 \in Releases(o) /\ e8.field = OfQueue(c, j, "rq_cq_dbr_daddr")
      BY <2>8, <2>a, Zenon
    <2> QED
      BY <2>9, <2>10, <2>11, <2>12, <2>13, <2>14, <2>15, <2>16, <2>17
  <1>3. \A x \in 1..8 : \E n \in RqNames : s[x].field = OfQueue(c, j, n) /\ Place(n) = 19 + x
    BY <1>2 DEF RqNames, Place
  <1>4. \A n \in RqNames : \E x \in 1..8 : s[x].field = OfQueue(c, j, n)
    BY <1>2 DEF RqNames
  <1>5. \A n \in RqNames : /\ OfQueue(c, j, n) \in QueuePart(o, c, j, RqNames)
                           /\ Name(OfQueue(c, j, n)) = n
    BY QueuePartFields DEF PerQueue
  <1>6. ASSUME NEW f \in QueuePart(o, c, j, RqNames) PROVE \E n \in RqNames : f = OfQueue(c, j, n)
    BY ReleaseKinds DEF QueuePart, RqNames, MatcherNames
  <1>7. \A x \in 1..Len(s) : s[x].field \in QueuePart(o, c, j, RqNames) /\ Place(Name(s[x].field)) = 19 + x
    BY <1>2, <1>3, <1>5
  <1>8. \A f \in QueuePart(o, c, j, RqNames) : \E x \in 1..Len(s) : s[x].field = f
    BY <1>2, <1>4, <1>6
  <1>9. s \in Tidy(o, QueuePart(o, c, j, RqNames))
    BY <1>2, <1>7, <1>8, ConsecutiveTidy
  <1> QED
    BY <1>1, <1>9

\* A rule and its action are released through the pointer that says it is complete.
LEMMA RuleReleasesTidy ==
    ASSUME NEW o, NEW c \in ContextsOf(o), NEW j \in Nat,
           NEW p \in RuleFlags, NEW rule \in RuleNames, NEW action \in RuleNames,
           RuleFlagName(rule) = p, RuleFlagName(action) = p, Place(action) = Place(rule) + 1
    PROVE  destroy_rule(c, j, p, rule, action) \in Tidy(o, QueuePart(o, c, j, {rule, action}))
  <1>0. rule \in PerQueue /\ action \in PerQueue /\ Place(rule) \in 2..7
    BY PlaceRanges DEF PerQueue
  <1>1. PICK f, g, v : f = OfQueue(c, j, rule) /\ g = OfQueue(c, j, action) /\ v = OfQueue(c, j, p)
    OBVIOUS
  <1>2. /\ f \in ReleaseFields(o) /\ Owner(f) = c /\ f[3] = j /\ Name(f) = rule
        /\ g \in ReleaseFields(o) /\ Owner(g) = c /\ g[3] = j /\ Name(g) = action
    BY <1>0, <1>1, QueuePartFields
  <1>3. v = RuleFlag(f) /\ v = RuleFlag(g)
    BY <1>1, <1>2 DEF RuleFlag
  <1>4. v \in ReleaseFlags(o)
    BY <1>1 DEF ReleaseFlags
  <1>5. f \notin PointedFields(o) /\ g \notin PointedFields(o)
    <2>1. \A n \in RuleNames : n \notin PointedNames(o)
      BY DEF RuleNames, PointedNames, HostBuffers
    <2> QED
      BY <1>2, <2>1 DEF PointedFields
  <1>6. PICK a, b : a = FreeThrough(v, f, {}) /\ b = FreeThrough(v, g, {f})
    OBVIOUS
  <1>7. /\ a = [field |-> f, via |-> v, unless |-> {}, after |-> {}]
        /\ b = [field |-> g, via |-> v, unless |-> {}, after |-> {f}]
    BY <1>6 DEF FreeThrough
  <1>8. Fit(o, a)
    BY <1>2, <1>3, <1>5, <1>7 DEF Fit
  <1>9. Fit(o, b)
    BY <1>0, <1>2, <1>3, <1>5, <1>7 DEF Fit
  <1>10. a \in Releases(o) /\ b \in Releases(o)
    BY <1>2, <1>4, <1>7, <1>8, <1>9 DEF Releases
  <1>11. PICK s : s = destroy_rule(c, j, p, rule, action)
    OBVIOUS
  <1>12. s = <<a, b>>
    BY <1>1, <1>6, <1>11 DEF destroy_rule
  <1>13. s \in Seq(Releases(o)) /\ Len(s) = 2 /\ s[1].field = f /\ s[2].field = g
    BY <1>7, <1>10, <1>12
  <1>14. PICK m \in Nat : m + 1 = Place(rule)
    <2>1. Place(rule) - 1 \in Nat /\ (Place(rule) - 1) + 1 = Place(rule)
      BY <1>0
    <2> QED
      BY <2>1, Zenon
  <1>15. PICK P : P = QueuePart(o, c, j, {rule, action})
    OBVIOUS
  <1>16. f \in P /\ g \in P
    BY <1>2, <1>15 DEF QueuePart
  <1>17. \A x \in 1..Len(s) : s[x].field \in P /\ Place(Name(s[x].field)) = m + x
    <2>1. \A x \in 1..Len(s) : x = 1 \/ x = 2
      BY <1>13
    <2>2. Place(Name(f)) = m + 1 /\ Place(Name(g)) = m + 2
      BY <1>2, <1>14
    <2> QED
      BY <1>13, <1>16, <2>1, <2>2
  <1>18. ASSUME NEW h \in P PROVE \E x \in 1..Len(s) : s[x].field = h
    <2>1. h \in ReleaseFields(o) /\ Owner(h) = c /\ h[3] = j /\ Name(h) \in {rule, action}
      BY <1>15 DEF QueuePart
    <2>2. Name(h) \in RuleNames
      BY <2>1
    <2>3. h = OfQueue(Owner(h), h[3], Name(h))
      BY <2>1, <2>2, ReleaseKinds DEF RuleNames, MatcherNames
    <2>4. h = f \/ h = g
      BY <1>1, <2>1, <2>3
    <2> QED
      BY <1>13, <2>4
  <1>19. s \in Tidy(o, P)
    BY <1>13, <1>17, <1>18, ConsecutiveTidy
  <1> QED
    BY <1>11, <1>15, <1>19

\* and the three rules of a queue.
LEMMA RulesTidy ==
    ASSUME NEW o, NEW c \in ContextsOf(o), NEW j \in Nat
    PROVE  destroy_rules(c, j) \in Tidy(o, QueuePart(o, c, j, RuleNames))
  <1> DEFINE P(n, m) == QueuePart(o, c, j, {n, m})
  <1>1. /\ "rx_flow_rule" \in RuleFlags /\ "tx_flow_rule" \in RuleFlags /\ "tx_flow_rule2" \in RuleFlags
        /\ "rx_rule" \in RuleNames /\ "rx_action" \in RuleNames /\ "tx_rule" \in RuleNames
        /\ "tx_action" \in RuleNames /\ "tx_rule2" \in RuleNames /\ "tx_action2" \in RuleNames
    BY DEF RuleFlags, RuleNames
  <1>2. PICK a : a = destroy_rule(c, j, "rx_flow_rule", "rx_rule", "rx_action") /\ a \in Tidy(o, P("rx_rule", "rx_action"))
    <2>1. /\ RuleFlagName("rx_rule") = "rx_flow_rule" /\ RuleFlagName("rx_action") = "rx_flow_rule"
          /\ Place("rx_action") = Place("rx_rule") + 1
      BY DEF RuleFlagName, Place
    <2> QED
      BY <1>1, <2>1, RuleReleasesTidy, Zenon
  <1>3. PICK b : b = destroy_rule(c, j, "tx_flow_rule", "tx_rule", "tx_action") /\ b \in Tidy(o, P("tx_rule", "tx_action"))
    <2>1. /\ RuleFlagName("tx_rule") = "tx_flow_rule" /\ RuleFlagName("tx_action") = "tx_flow_rule"
          /\ Place("tx_action") = Place("tx_rule") + 1
      BY DEF RuleFlagName, Place
    <2> QED
      BY <1>1, <2>1, RuleReleasesTidy, Zenon
  <1>4. PICK e : e = destroy_rule(c, j, "tx_flow_rule2", "tx_rule2", "tx_action2")
                 /\ e \in Tidy(o, P("tx_rule2", "tx_action2"))
    <2>1. /\ RuleFlagName("tx_rule2") = "tx_flow_rule2" /\ RuleFlagName("tx_action2") = "tx_flow_rule2"
          /\ Place("tx_action2") = Place("tx_rule2") + 1
      BY DEF RuleFlagName, Place
    <2> QED
      BY <1>1, <2>1, RuleReleasesTidy, Zenon
  <1>5. /\ \A f \in P("rx_rule", "rx_action") : Place(Name(f)) \in 2..3
        /\ \A f \in P("tx_rule", "tx_action") : Place(Name(f)) \in 4..5
        /\ \A f \in P("tx_rule2", "tx_action2") : Place(Name(f)) \in 6..7
    BY DEF QueuePart, Place
  <1>6. P("rx_rule", "rx_action") \cup P("tx_rule", "tx_action") \cup P("tx_rule2", "tx_action2")
            = QueuePart(o, c, j, RuleNames)
    BY DEF QueuePart, RuleNames
  <1> HIDE DEF P
  <1>7. a \o b \in Tidy(o, P("rx_rule", "rx_action") \cup P("tx_rule", "tx_action"))
    <2>1. \A f \in P("rx_rule", "rx_action"), g \in P("tx_rule", "tx_action") : Before(f, g)
      BY <1>5 DEF Before
    <2> QED
      BY <1>2, <1>3, <2>1, TidyConcat
  <1>8. (a \o b) \o e \in Tidy(o, (P("rx_rule", "rx_action") \cup P("tx_rule", "tx_action"))
                                  \cup P("tx_rule2", "tx_action2"))
    <2>1. \A f \in P("rx_rule", "rx_action") \cup P("tx_rule", "tx_action"), g \in P("tx_rule2", "tx_action2") : Before(f, g)
      BY <1>5 DEF Before
    <2> QED
      BY <1>4, <1>7, <2>1, TidyConcat
  <1>9. destroy_rules(c, j) = (a \o b) \o e
    BY <1>2, <1>3, <1>4, Zenon DEF destroy_rules
  <1> QED
    BY <1>6, <1>8, <1>9

\* The queues of a context, one after the other,
LEMMA QueuesTidy ==
    ASSUME NEW o \in OptionRecords, NEW c \in ContextsOf(o), NEW N \in SUBSET PerQueue,
           NEW f, f = [i \in 1..num_queues(o, c) |-> f[i]],
           \A i \in 1..num_queues(o, c) : f[i] \in Tidy(o, QueuePart(o, c, i - 1, N))
    PROVE  FlattenSeq(f) \in Tidy(o, PartOf(o, {c}, N))
  <1>1. PICK n \in Nat : n = num_queues(o, c)
    BY OptionFacts DEF num_queues
  <1> DEFINE F == [i \in 1..n |-> QueuePart(o, c, i - 1, N)]
  <1>2. \A i \in 1..n : F[i] = QueuePart(o, c, i - 1, N)
    OBVIOUS
  <1> HIDE DEF F
  <1>3. \A i \in 1..n : f[i] \in Tidy(o, F[i])
    BY <1>1, <1>2
  <1>4. ASSUME NEW i \in 1..n, NEW j \in 1..n, i < j, NEW p \in F[i], NEW q \in F[j] PROVE Before(p, q)
    <2>1. p[3] = i - 1 /\ q[3] = j - 1 /\ Name(p) \in PerQueue /\ Name(q) \in PerQueue
      BY <1>2 DEF QueuePart
    <2>2. p[3] # q[3]
      BY <1>4, <2>1
    <2> QED
      BY <2>1, <2>2 DEF Before, Apart
  <1>5. ASSUME NEW p PROVE p \in PartOf(o, {c}, N) <=> \E i \in 1..n : p \in F[i]
    <2>1. ASSUME p \in PartOf(o, {c}, N) PROVE \E i \in 1..n : p \in F[i]
      <3>1. p \in ReleaseFields(o) /\ Owner(p) = c /\ p[3] \in 0..(n - 1) /\ Name(p) \in N
        BY <1>1, <2>1 DEF PartOf, QueuesOf
      <3>2. p[3] + 1 \in 1..n /\ (p[3] + 1) - 1 = p[3]
        BY <3>1
      <3>3. p \in F[p[3] + 1]
        BY <1>2, <3>1, <3>2 DEF QueuePart
      <3> QED
        BY <3>2, <3>3
    <2>2. ASSUME NEW i \in 1..n, p \in F[i] PROVE p \in PartOf(o, {c}, N)
      <3>1. p \in ReleaseFields(o) /\ Owner(p) = c /\ p[3] = i - 1 /\ Name(p) \in N
        BY <1>2, <2>2 DEF QueuePart
      <3>2. p[3] \in 0..(n - 1)
        BY <3>1
      <3> QED
        BY <1>1, <3>1, <3>2 DEF PartOf, QueuesOf
    <2> QED
      BY <2>1, <2>2
  <1> QED
    BY <1>1, <1>3, <1>4, <1>5, TidyFlatten

\* and the contexts of one kind.
LEMMA ContextsTidy ==
    ASSUME NEW o, NEW kind \in {"sch", "thd"}, NEW n \in Nat, NEW N, NEW f, f = [i \in 1..n |-> f[i]],
           \A i \in 1..n : f[i] \in Tidy(o, PartOf(o, {<<kind, i - 1>>}, N))
    PROVE  FlattenSeq(f) \in Tidy(o, PartOf(o, {kind} \X (0..(n - 1)), N))
  <1> DEFINE F == [i \in 1..n |-> PartOf(o, {<<kind, i - 1>>}, N)]
  <1>1. \A i \in 1..n : F[i] = PartOf(o, {<<kind, i - 1>>}, N)
    OBVIOUS
  <1> HIDE DEF F
  <1>2. \A i \in 1..n : f[i] \in Tidy(o, F[i])
    BY <1>1
  <1>3. ASSUME NEW i \in 1..n, NEW j \in 1..n, i < j, NEW p \in F[i], NEW q \in F[j] PROVE Before(p, q)
    <2>1. Owner(p) = <<kind, i - 1>> /\ Owner(q) = <<kind, j - 1>>
      BY <1>1 DEF PartOf
    <2>2. Owner(p) # Owner(q)
      BY <1>3, <2>1
    <2>3. p[1] = kind /\ q[1] = kind
      BY <2>1 DEF Owner
    <2> QED
      BY <2>2, <2>3 DEF Before, Apart
  <1>4. ASSUME NEW p PROVE p \in PartOf(o, {kind} \X (0..(n - 1)), N) <=> \E i \in 1..n : p \in F[i]
    <2>1. ASSUME p \in PartOf(o, {kind} \X (0..(n - 1)), N) PROVE \E i \in 1..n : p \in F[i]
      <3>1. PICK x \in 0..(n - 1) : Owner(p) = <<kind, x>>
        BY <2>1 DEF PartOf
      <3>2. x + 1 \in 1..n /\ (x + 1) - 1 = x
        BY <3>1
      <3>3. p \in F[x + 1]
        BY <1>1, <2>1, <3>1, <3>2 DEF PartOf
      <3> QED
        BY <3>2, <3>3
    <2>2. ASSUME NEW i \in 1..n, p \in F[i] PROVE p \in PartOf(o, {kind} \X (0..(n - 1)), N)
      <3>1. Owner(p) = <<kind, i - 1>> /\ i - 1 \in 0..(n - 1)
        BY <1>1, <2>2 DEF PartOf
      <3>2. Owner(p) \in {kind} \X (0..(n - 1))
        BY <3>1
      <3> QED
        BY <1>1, <2>2, <3>2 DEF PartOf
    <2> QED
      BY <2>1, <2>2
  <1> QED
    BY <1>2, <1>3, <1>4, TidyFlatten

\* The rules of a context.
ContextRules(o, c) == Loop(num_queues(o, c), LAMBDA j : destroy_rules(c, j))
\* Its queues and its handler.
ContextQueues(o, c) == clean_up_app_sq(o, c) \o clean_up_app_rq(o, c) \o <<Free(Of(c, "event_handler"))>>

HandlerNames == SqNames \cup RqNames \cup {"event_handler"}

\* The rules of all queues of a context are released in order,
LEMMA ContextRulesTidy ==
    ASSUME NEW o \in OptionRecords, NEW c \in ContextsOf(o)
    PROVE  ContextRules(o, c) \in Tidy(o, PartOf(o, {c}, RuleNames))
  <1>1. PICK n \in Nat : n = num_queues(o, c)
    BY OptionFacts DEF num_queues
  <1>2. PICK f : f = [i \in 1..n |-> destroy_rules(c, i - 1)]
    OBVIOUS
  <1>3. \A i \in 1..n : i - 1 \in Nat
    OBVIOUS
  <1>4. f = [i \in 1..n |-> f[i]] /\ \A i \in 1..n : f[i] = destroy_rules(c, i - 1)
    BY <1>2
  <1>5. \A i \in 1..n : f[i] \in Tidy(o, QueuePart(o, c, i - 1, RuleNames))
    BY <1>3, <1>4, RulesTidy
  <1>6. RuleNames \in SUBSET PerQueue
    BY DEF PerQueue
  <1>7. FlattenSeq(f) \in Tidy(o, PartOf(o, {c}, RuleNames))
    BY <1>1, <1>4, <1>5, <1>6, QueuesTidy
  <1>8. ContextRules(o, c) = FlattenSeq(f)
    BY <1>1, <1>2 DEF ContextRules, Loop
  <1> QED
    BY <1>7, <1>8

\* and its send queues,
LEMMA CleanUpSqTidy ==
    ASSUME NEW o \in OptionRecords, NEW c \in ContextsOf(o)
    PROVE  clean_up_app_sq(o, c) \in Tidy(o, PartOf(o, {c}, SqNames))
  <1>1. PICK n \in Nat : n = num_queues(o, c)
    BY OptionFacts DEF num_queues
  <1>2. PICK f : f = [i \in 1..n |-> SqReleases(c, i - 1)]
    OBVIOUS
  <1>3. \A i \in 1..n : i - 1 \in Nat
    OBVIOUS
  <1>4. f = [i \in 1..n |-> f[i]] /\ \A i \in 1..n : f[i] = SqReleases(c, i - 1)
    BY <1>2
  <1>5. \A i \in 1..n : f[i] \in Tidy(o, QueuePart(o, c, i - 1, SqNames))
    BY <1>3, <1>4, SqReleasesTidy
  <1>6. SqNames \in SUBSET PerQueue
    BY DEF PerQueue
  <1>7. FlattenSeq(f) \in Tidy(o, PartOf(o, {c}, SqNames))
    BY <1>1, <1>4, <1>5, <1>6, QueuesTidy
  <1>8. clean_up_app_sq(o, c) = FlattenSeq(f)
    BY <1>1, <1>2, Zenon DEF clean_up_app_sq, Loop, SqReleases
  <1> QED
    BY <1>7, <1>8

\* and its receive queues.
LEMMA CleanUpRqTidy ==
    ASSUME NEW o \in OptionRecords, NEW c \in ContextsOf(o)
    PROVE  clean_up_app_rq(o, c) \in Tidy(o, PartOf(o, {c}, RqNames))
  <1>1. PICK n \in Nat : n = num_queues(o, c)
    BY OptionFacts DEF num_queues
  <1>2. PICK f : f = [i \in 1..n |-> RqReleases(c, i - 1)]
    OBVIOUS
  <1>3. \A i \in 1..n : i - 1 \in Nat
    OBVIOUS
  <1>4. f = [i \in 1..n |-> f[i]] /\ \A i \in 1..n : f[i] = RqReleases(c, i - 1)
    BY <1>2
  <1>5. \A i \in 1..n : f[i] \in Tidy(o, QueuePart(o, c, i - 1, RqNames))
    BY <1>3, <1>4, RqReleasesTidy
  <1>6. RqNames \in SUBSET PerQueue
    BY DEF PerQueue
  <1>7. FlattenSeq(f) \in Tidy(o, PartOf(o, {c}, RqNames))
    BY <1>1, <1>4, <1>5, <1>6, QueuesTidy
  <1>8. clean_up_app_rq(o, c) = FlattenSeq(f)
    BY <1>1, <1>2, Zenon DEF clean_up_app_rq, Loop, RqReleases
  <1> QED
    BY <1>7, <1>8

\* A field of a context that is no field of a queue.
LEMMA OwnField ==
    ASSUME NEW o \in OptionRecords, NEW c \in ContextsOf(o), NEW n \in {"app_data_daddr", "event_handler"},
           NEW f, f = Of(c, n)
    PROVE  /\ f \in PartOf(o, {c}, {n}) /\ \A g \in PartOf(o, {c}, {n}) : g = f
           /\ Name(f) = n /\ Owner(f) = c
           /\ Free(f) \in Releases(o) /\ Free(f).field = f
  <1>1. f \in ReleaseFields(o)
    BY DEF ReleaseFields
  <1>2. Owner(f) = c /\ f[3] = 0 /\ Name(f) = n
    BY DEF Of, Owner, Name, ContextsOf, SchContexts, ThdContexts
  <1>3. 0 \in QueuesOf(o, c)
    BY OptionFacts DEF QueuesOf, num_queues
  <1>4. f \in PartOf(o, {c}, {n})
    BY <1>1, <1>2, <1>3 DEF PartOf
  <1>5. ASSUME NEW g \in PartOf(o, {c}, {n}) PROVE g = f
    <2>1. g \in ReleaseFields(o) /\ Owner(g) = c /\ Name(g) = n
      BY DEF PartOf
    <2>2. g = Of(Owner(g), Name(g))
      BY <2>1, ReleaseKinds DEF MatcherNames, PerQueue, SqNames, RqNames, RuleNames
    <2> QED
      BY <2>1, <2>2
  <1>6. n \notin PointedNames(o)
    BY DEF PointedNames, HostBuffers
  <1> QED
    BY <1>1, <1>2, <1>4, <1>5, <1>6, FreeFits

\* One release alone.
LEMMA SingleTidy ==
    ASSUME NEW o, NEW e \in Releases(o), NEW F, e.field \in F, \A g \in F : g = e.field
    PROVE  <<e>> \in Tidy(o, F)
  <1>1. <<e>> \in Seq(Releases(o)) /\ Len(<<e>>) = 1 /\ <<e>>[1] = e
    OBVIOUS
  <1>2. \A x \in 1..1 : x = 1
    OBVIOUS
  <1> QED
    BY <1>1, <1>2 DEF Tidy

\* The send queues come first, then the receive queues, then the handler.
LEMMA ContextQueuesTidy ==
    ASSUME NEW o \in OptionRecords, NEW c \in ContextsOf(o)
    PROVE  ContextQueues(o, c) \in Tidy(o, PartOf(o, {c}, HandlerNames))
  <1> DEFINE P(N) == PartOf(o, {c}, N)
  <1>1. PICK a : a = clean_up_app_sq(o, c) /\ a \in Tidy(o, P(SqNames))
    BY CleanUpSqTidy
  <1>2. PICK b : b = clean_up_app_rq(o, c) /\ b \in Tidy(o, P(RqNames))
    BY CleanUpRqTidy
  <1>3. PICK e : e = <<Free(Of(c, "event_handler"))>> /\ e \in Tidy(o, P({"event_handler"}))
    <2>1. PICK f : f = Of(c, "event_handler")
      OBVIOUS
    <2>2. PICK r : r = Free(f)
      OBVIOUS
    <2>3. r \in Releases(o) /\ r.field = f /\ f \in P({"event_handler"}) /\ \A g \in P({"event_handler"}) : g = f
      BY <2>1, <2>2, OwnField
    <2> HIDE DEF P
    <2>4. <<r>> \in Tidy(o, P({"event_handler"}))
      BY <2>3, SingleTidy
    <2> QED
      BY <2>1, <2>2, <2>4
  <1>4. /\ \A f \in P(SqNames) : Place(Name(f)) \in 13..19
        /\ \A f \in P(RqNames) : Place(Name(f)) \in 20..27
        /\ \A f \in P({"event_handler"}) : Place(Name(f)) = 28
    BY PlaceRanges DEF PartOf
  <1>5. P(SqNames) \cup P(RqNames) \cup P({"event_handler"}) = P(HandlerNames)
    BY DEF PartOf, HandlerNames
  <1> HIDE DEF P
  <1>6. a \o b \in Tidy(o, P(SqNames) \cup P(RqNames))
    <2>1. \A f \in P(SqNames), g \in P(RqNames) : Before(f, g)
      BY <1>4 DEF Before
    <2> QED
      BY <1>1, <1>2, <2>1, TidyConcat
  <1>7. (a \o b) \o e \in Tidy(o, (P(SqNames) \cup P(RqNames)) \cup P({"event_handler"}))
    <2>1. \A f \in P(SqNames) \cup P(RqNames), g \in P({"event_handler"}) : Before(f, g)
      BY <1>4 DEF Before
    <2> QED
      BY <1>3, <1>6, <2>1, TidyConcat
  <1>8. ContextQueues(o, c) = (a \o b) \o e
    BY <1>1, <1>2, <1>3, Zenon DEF ContextQueues
  <1>9. (a \o b) \o e \in Tidy(o, P(HandlerNames))
    BY <1>5, <1>7
  <1> QED
    BY <1>8, <1>9 DEF P

\* The data of the contexts of one kind.
LEMMA DataTidy ==
    ASSUME NEW o \in OptionRecords, NEW kind \in {"sch", "thd"}, NEW n \in Nat,
           {kind} \X (0..(n - 1)) \subseteq ContextsOf(o), NEW s,
           s = [i \in 1..n |-> Free(Of(<<kind, i - 1>>, "app_data_daddr"))]
    PROVE  s \in Tidy(o, PartOf(o, {kind} \X (0..(n - 1)), {"app_data_daddr"}))
  <1> DEFINE C(i) == <<kind, i - 1>>
             D(i) == Of(C(i), "app_data_daddr")
  <1>0. \A i \in 1..n : C(i) \in ContextsOf(o)
    OBVIOUS
  <1>1. \A i \in 1..n : s[i] = Free(D(i))
    OBVIOUS
  <1>2. \A i \in 1..n, j \in 1..n : i < j => C(i) # C(j)
    OBVIOUS
  <1>3. \A i \in 1..n : C(i)[1] = kind
    OBVIOUS
  <1>4. PICK P : P = PartOf(o, {kind} \X (0..(n - 1)), {"app_data_daddr"})
    OBVIOUS
  <1>5. ASSUME NEW i \in 1..n
        PROVE  s[i] \in Releases(o) /\ s[i].field = D(i) /\ Owner(D(i)) = C(i) /\ D(i) \in P
    <2> HIDE DEF C
    <2>1. PICK c \in ContextsOf(o) : c = C(i)
      BY <1>0
    <2>2. PICK f : f = Of(c, "app_data_daddr")
      OBVIOUS
    <2>3. /\ f \in PartOf(o, {c}, {"app_data_daddr"}) /\ Owner(f) = c
          /\ Free(f) \in Releases(o) /\ Free(f).field = f
      BY <2>2, OwnField
    <2>4. c \in {kind} \X (0..(n - 1))
      BY <2>1 DEF C
    <2>5. f \in P
      BY <1>4, <2>3, <2>4 DEF PartOf
    <2> QED
      BY <1>1, <2>1, <2>2, <2>3, <2>5
  <1>6. s \in [1..n -> Releases(o)]
    <2>1. \A i \in 1..n : s[i] \in Releases(o)
      BY <1>5
    <2>2. s = [i \in 1..n |-> s[i]]
      OBVIOUS
    <2> QED
      BY <2>1, <2>2
  <1>7. s \in Seq(Releases(o)) /\ Len(s) = n
    BY <1>6, FunctionIsSeq
  <1>8. ASSUME NEW i \in 1..n, NEW j \in 1..n, i < j PROVE Before(D(i), D(j))
    <2> HIDE DEF C, D
    <2>1. Owner(D(i)) # Owner(D(j))
      BY <1>2, <1>5, <1>8
    <2>2. Owner(D(i))[1] = kind /\ Owner(D(j))[1] = kind
      BY <1>3, <1>5
    <2>3. D(i)[1] = kind /\ D(j)[1] = kind
      BY <2>2 DEF Owner
    <2> QED
      BY <2>1, <2>3 DEF Before, Apart
  <1>9. ASSUME NEW g \in P PROVE \E i \in 1..n : D(i) = g
    <2>1. g \in ReleaseFields(o) /\ Name(g) = "app_data_daddr" /\ Owner(g) \in {kind} \X (0..(n - 1))
      BY <1>4 DEF PartOf
    <2>2. PICK x \in 0..(n - 1) : Owner(g) = <<kind, x>>
      BY <2>1
    <2>3. g = Of(Owner(g), Name(g))
      BY <2>1, ReleaseKinds DEF MatcherNames, PerQueue, SqNames, RqNames, RuleNames
    <2>4. x + 1 \in 1..n /\ (x + 1) - 1 = x
      BY <2>2
    <2>5. D(x + 1) = g
      BY <2>1, <2>2, <2>3, <2>4
    <2> QED
      BY <2>4, <2>5
  <1> HIDE DEF D, C
  <1>10. s \in Tidy(o, P)
    <2>1. \A x \in 1..Len(s), y \in 1..Len(s) : x < y => Before(s[x].field, s[y].field)
      BY <1>5, <1>7, <1>8
    <2>2. \A x \in 1..Len(s) : s[x].field \in P
      BY <1>5, <1>7
    <2>3. \A g \in P : \E x \in 1..Len(s) : s[x].field = g
      BY <1>5, <1>7, <1>9
    <2> QED
      BY <1>7, <2>1, <2>2, <2>3, Zenon DEF Tidy
  <1> QED
    BY <1>4, <1>10

\* The parts of a matcher.
LEMMA MatcherTidy ==
    ASSUME NEW o, NEW dir \in {"rx", "tx"}, NEW p, p = IF dir = "rx" THEN "rx_matcher" ELSE "tx_matcher"
    PROVE  destroy_matcher(p, dir) \in Tidy(o, KindPart(o, dir))
  <1> DEFINE parts == <<"dr_matcher_root", "dr_table_root", "dr_matcher_sws", "dr_table_sws", "dr_domain">>
             r(k) == FreeThrough(App(p), Matcher(dir, parts[k]), {Matcher(dir, parts[l]) : l \in 1..(k - 1)})
  <1>1. /\ Len(parts) = 5 /\ \A k \in 1..5 : parts[k] \in MatcherNames /\ Place(parts[k]) = 7 + k
        /\ \A n \in MatcherNames : \E k \in 1..5 : parts[k] = n
    BY DEF MatcherNames, Place
  <1>2. PICK s : s = destroy_matcher(p, dir)
    OBVIOUS
  <1>3. s = [k \in 1..5 |-> r(k)]
    <2>1. s = [k \in 1..Len(parts) |-> r(k)]
      BY <1>2, Zenon DEF destroy_matcher
    <2> HIDE DEF parts, r
    <2> QED
      BY <1>1, <2>1
  <1> HIDE DEF parts
  <1>4. ASSUME NEW n \in MatcherNames
        PROVE  /\ Matcher(dir, n) \in ReleaseFields(o) /\ Owner(Matcher(dir, n)) = <<dir, 0>>
               /\ Matcher(dir, n)[1] = dir /\ Matcher(dir, n)[3] = 0 /\ Name(Matcher(dir, n)) = n
    BY DEF ReleaseFields, Matcher, Owner, Name
  <1>5. \A n \in MatcherNames : n \notin PointedNames(o)
    BY DEF MatcherNames, PointedNames, HostBuffers
  <1>6. App(p) \in ReleaseFlags(o) /\ (dir = "rx" => p = "rx_matcher") /\ (dir = "tx" => p = "tx_matcher")
    BY DEF ReleaseFlags, AppFlags
  <1>7. ASSUME NEW k \in 1..5 PROVE r(k) \in Releases(o) /\ r(k).field = Matcher(dir, parts[k])
    <2>1. PICK f, A : f = Matcher(dir, parts[k]) /\ A = {Matcher(dir, parts[l]) : l \in 1..(k - 1)}
      OBVIOUS
    <2>2. /\ f \in ReleaseFields(o) /\ Owner(f) = <<dir, 0>> /\ f[1] = dir /\ f[3] = 0
          /\ Name(f) = parts[k] /\ Place(Name(f)) = 7 + k
      BY <1>1, <1>4, <2>1
    <2>3. f \notin PointedFields(o)
      BY <1>1, <1>5, <2>2 DEF PointedFields
    <2>4. ASSUME NEW h \in A
          PROVE  /\ h \in ReleaseFields(o) /\ Owner(h) = Owner(f) /\ h[3] = f[3]
                 /\ 0 < Place(Name(h)) /\ Place(Name(h)) < Place(Name(f))
      <3>1. PICK l \in 1..(k - 1) : h = Matcher(dir, parts[l])
        BY <2>1
      <3>2. l \in 1..5 /\ l < k
        BY <3>1
      <3>3. /\ h \in ReleaseFields(o) /\ Owner(h) = <<dir, 0>> /\ h[3] = 0
            /\ Name(h) = parts[l] /\ Place(Name(h)) = 7 + l
        BY <1>1, <1>4, <3>1, <3>2
      <3> QED
        BY <2>2, <3>2, <3>3
    <2>5. PICK e : e = [field |-> f, via |-> App(p), unless |-> {}, after |-> A]
      OBVIOUS
    <2>6. Fit(o, e)
      <3>1. e.field = f /\ e.via = App(p) /\ e.unless = {} /\ e.after = A
        BY <2>5
      <3>2. \/ e.field[1] = "rx" /\ e.via = App("rx_matcher")
            \/ e.field[1] = "tx" /\ e.via = App("tx_matcher")
        BY <1>6, <2>2, <3>1
      <3>3. \A h \in e.after : /\ Owner(h) = Owner(e.field) /\ h[3] = e.field[3]
                               /\ 0 < Place(Name(h)) /\ Place(Name(h)) < Place(Name(e.field))
        BY <2>4, <3>1
      <3>4. e.field \notin PointedFields(o) /\ \A g \in e.unless : FALSE
        BY <2>3, <3>1
      <3> QED
        BY <3>2, <3>3, <3>4 DEF Fit
    <2>7. A \subseteq ReleaseFields(o)
      BY <2>4
    <2>8. e \in Releases(o)
      BY <1>6, <2>2, <2>5, <2>6, <2>7 DEF Releases
    <2>9. r(k) = e
      BY <2>1, <2>5 DEF FreeThrough
    <2>10. e.field = f
      BY <2>5
    <2> QED
      BY <2>1, <2>8, <2>9, <2>10
  <1> HIDE DEF r
  <1>8. \A k \in 1..5 : s[k] = r(k)
    BY <1>3
  <1>9. s \in [1..5 -> Releases(o)]
    <2>1. \A k \in 1..5 : r(k) \in Releases(o)
      BY <1>7
    <2> QED
      BY <1>3, <2>1
  <1>10. s \in Seq(Releases(o)) /\ Len(s) = 5
    BY <1>9, FunctionIsSeq
  <1>11. \A x \in 1..Len(s) : s[x].field = Matcher(dir, parts[x])
    BY <1>7, <1>8, <1>10
  <1>12. \A x \in 1..Len(s) : s[x].field \in KindPart(o, dir) /\ Place(Name(s[x].field)) = 7 + x
    BY <1>1, <1>4, <1>10, <1>11 DEF KindPart
  <1>13. ASSUME NEW f \in KindPart(o, dir) PROVE \E x \in 1..Len(s) : s[x].field = f
    <2>1. f \in ReleaseFields(o) /\ f[1] = dir
      BY DEF KindPart
    <2>2. Name(f) \in MatcherNames /\ f = Matcher(dir, Name(f))
      BY <2>1, ReleaseKinds DEF App
    <2>3. PICK x \in 1..5 : parts[x] = Name(f)
      BY <1>1, <2>2
    <2> QED
      BY <1>10, <1>11, <2>2, <2>3
  <1>14. s \in Tidy(o, KindPart(o, dir))
    BY <1>10, <1>12, <1>13, ConsecutiveTidy
  <1> QED
    BY <1>2, <1>14

\* What belongs to the program.
AppReleases == <<Free(App("stream")), Free(App("flexio_window")), Free(App("flexio_process")), Free(App("ibv_ctx"))>>

\* It is released in order.
LEMMA AppTidy ==
    ASSUME NEW o
    PROVE  AppReleases \in Tidy(o, KindPart(o, "app"))
  <1> DEFINE names == {"stream", "flexio_window", "flexio_process", "ibv_ctx"}
  <1>1. ASSUME NEW n \in names
        PROVE  /\ App(n) \in ReleaseFields(o) /\ Name(App(n)) = n /\ App(n) \in KindPart(o, "app")
               /\ Free(App(n)) \in Releases(o) /\ Free(App(n)).field = App(n)
    <2>1. App(n) \in ReleaseFields(o) /\ Name(App(n)) = n /\ App(n)[1] = "app"
      BY DEF ReleaseFields, App, Name
    <2>2. n \notin PointedNames(o)
      BY DEF PointedNames, HostBuffers
    <2> QED
      BY <2>1, <2>2, FreeFits DEF KindPart
  <1>2. PICK a, b, c, d : /\ a = Free(App("stream")) /\ b = Free(App("flexio_window"))
                          /\ c = Free(App("flexio_process")) /\ d = Free(App("ibv_ctx"))
    OBVIOUS
  <1>3. /\ a \in Releases(o) /\ a.field = App("stream") /\ b \in Releases(o) /\ b.field = App("flexio_window")
        /\ c \in Releases(o) /\ c.field = App("flexio_process") /\ d \in Releases(o) /\ d.field = App("ibv_ctx")
    BY <1>1, <1>2
  <1>4. PICK s : s = <<a, b, c, d>>
    OBVIOUS
  <1>5. s \in Seq(Releases(o)) /\ Len(s) = 4
    BY <1>3, <1>4
  <1>6. /\ s[1].field = App("stream") /\ s[2].field = App("flexio_window")
        /\ s[3].field = App("flexio_process") /\ s[4].field = App("ibv_ctx")
    BY <1>3, <1>4
  <1>7. \A x \in 1..4 : \E n \in names : s[x].field = App(n) /\ Place(n) = 28 + x
    BY <1>6 DEF Place
  <1>8. \A n \in names : \E x \in 1..4 : s[x].field = App(n)
    BY <1>6
  <1>9. ASSUME NEW f \in KindPart(o, "app") PROVE \E n \in names : f = App(n)
    BY ReleaseKinds DEF KindPart
  <1> HIDE DEF names
  <1>10. \A x \in 1..Len(s) : s[x].field \in KindPart(o, "app") /\ Place(Name(s[x].field)) = 28 + x
    BY <1>1, <1>5, <1>7
  <1>11. \A f \in KindPart(o, "app") : \E x \in 1..Len(s) : s[x].field = f
    BY <1>5, <1>8, <1>9
  <1>12. s \in Tidy(o, KindPart(o, "app"))
    BY <1>5, <1>10, <1>11, ConsecutiveTidy
  <1> QED
    BY <1>2, <1>4, <1>12 DEF AppReleases

\* The clean-up of main, part by part.
CleanUpParts(o) ==
    << [i \in 1..Len(ThdCtx(o)) |-> Free(Of(ThdCtx(o)[i], "app_data_daddr"))],
       [i \in 1..Len(SchCtx(o)) |-> Free(Of(SchCtx(o)[i], "app_data_daddr"))],
       FlattenSeq([i \in 1..Len(SchCtx(o)) |-> ContextRules(o, SchCtx(o)[i])]),
       FlattenSeq([i \in 1..Len(ThdCtx(o)) |-> ContextRules(o, ThdCtx(o)[i])]),
       destroy_matcher("rx_matcher", "rx"), destroy_matcher("tx_matcher", "tx"),
       FlattenSeq([i \in 1..Len(ThdCtx(o)) |-> ContextQueues(o, ThdCtx(o)[i])]),
       FlattenSeq([i \in 1..Len(SchCtx(o)) |-> ContextQueues(o, SchCtx(o)[i])]),
       AppReleases >>

\* They make up the clean-up.
LEMMA CleanUpIs ==
    ASSUME NEW o, NEW s, s = CleanUpParts(o)
    PROVE  CleanUp(o) = s[1] \o s[2] \o s[3] \o s[4] \o s[5] \o s[6] \o s[7] \o s[8] \o s[9]
  <1>1. /\ s[1] = [i \in 1..Len(ThdCtx(o)) |-> Free(Of(ThdCtx(o)[i], "app_data_daddr"))]
        /\ s[2] = [i \in 1..Len(SchCtx(o)) |-> Free(Of(SchCtx(o)[i], "app_data_daddr"))]
        /\ s[3] = FlattenSeq([i \in 1..Len(SchCtx(o)) |-> ContextRules(o, SchCtx(o)[i])])
        /\ s[4] = FlattenSeq([i \in 1..Len(ThdCtx(o)) |-> ContextRules(o, ThdCtx(o)[i])])
        /\ s[5] = destroy_matcher("rx_matcher", "rx") /\ s[6] = destroy_matcher("tx_matcher", "tx")
        /\ s[7] = FlattenSeq([i \in 1..Len(ThdCtx(o)) |-> ContextQueues(o, ThdCtx(o)[i])])
        /\ s[8] = FlattenSeq([i \in 1..Len(SchCtx(o)) |-> ContextQueues(o, SchCtx(o)[i])])
        /\ s[9] = AppReleases
    BY DEF CleanUpParts
  <1> QED
    BY <1>1, Zenon DEF CleanUp, ContextRules, ContextQueues, AppReleases

\* The contexts, by number.
LEMMA ContextsByNumber ==
    ASSUME NEW o \in OptionRecords
    PROVE  /\ Len(SchCtx(o)) = o.scheduler_num /\ o.scheduler_num \in Nat
           /\ \A i \in 1..o.scheduler_num : SchCtx(o)[i] = <<"sch", i - 1>> /\ <<"sch", i - 1>> \in ContextsOf(o)
           /\ Len(ThdCtx(o)) = threads_num(o) /\ threads_num(o) \in Nat
           /\ \A i \in 1..threads_num(o) : ThdCtx(o)[i] = <<"thd", i - 1>> /\ <<"thd", i - 1>> \in ContextsOf(o)
  <1>1. o.scheduler_num \in Nat /\ threads_num(o) \in Nat
    BY OptionFacts
  <1>2. ASSUME NEW n \in Nat, NEW kind PROVE Len([i \in 1..n |-> <<kind, i - 1>>]) = n
    <2>1. PICK f : f = [i \in 1..n |-> <<kind, i - 1>>]
      OBVIOUS
    <2>2. f \in [1..n -> {kind} \X Int]
      BY <2>1
    <2> QED
      BY <2>1, <2>2, FunctionIsSeq
  <1>3. Len(SchCtx(o)) = o.scheduler_num /\ Len(ThdCtx(o)) = threads_num(o)
    BY <1>1, <1>2, Zenon DEF SchCtx, ThdCtx
  <1>4. \A i \in 1..o.scheduler_num : SchCtx(o)[i] = <<"sch", i - 1>> /\ <<"sch", i - 1>> \in ContextsOf(o)
    BY <1>1 DEF SchCtx, ContextsOf, SchContexts
  <1>5. \A i \in 1..threads_num(o) : ThdCtx(o)[i] = <<"thd", i - 1>> /\ <<"thd", i - 1>> \in ContextsOf(o)
    BY <1>1 DEF ThdCtx, ContextsOf, ThdContexts
  <1> QED
    BY <1>1, <1>3, <1>4, <1>5

\* Each part is in order.
LEMMA CleanUpPartsTidy ==
    ASSUME NEW o \in OptionRecords, NEW s, s = CleanUpParts(o)
    PROVE  /\ s[1] \in Tidy(o, PartOf(o, ThdContexts(o), {"app_data_daddr"}))
           /\ s[2] \in Tidy(o, PartOf(o, SchContexts(o), {"app_data_daddr"}))
           /\ s[3] \in Tidy(o, PartOf(o, SchContexts(o), RuleNames))
           /\ s[4] \in Tidy(o, PartOf(o, ThdContexts(o), RuleNames))
           /\ s[5] \in Tidy(o, KindPart(o, "rx")) /\ s[6] \in Tidy(o, KindPart(o, "tx"))
           /\ s[7] \in Tidy(o, PartOf(o, ThdContexts(o), HandlerNames))
           /\ s[8] \in Tidy(o, PartOf(o, SchContexts(o), HandlerNames))
           /\ s[9] \in Tidy(o, KindPart(o, "app"))
  <1>1. /\ s[1] = [i \in 1..Len(ThdCtx(o)) |-> Free(Of(ThdCtx(o)[i], "app_data_daddr"))]
        /\ s[2] = [i \in 1..Len(SchCtx(o)) |-> Free(Of(SchCtx(o)[i], "app_data_daddr"))]
        /\ s[3] = FlattenSeq([i \in 1..Len(SchCtx(o)) |-> ContextRules(o, SchCtx(o)[i])])
        /\ s[4] = FlattenSeq([i \in 1..Len(ThdCtx(o)) |-> ContextRules(o, ThdCtx(o)[i])])
        /\ s[5] = destroy_matcher("rx_matcher", "rx") /\ s[6] = destroy_matcher("tx_matcher", "tx")
        /\ s[7] = FlattenSeq([i \in 1..Len(ThdCtx(o)) |-> ContextQueues(o, ThdCtx(o)[i])])
        /\ s[8] = FlattenSeq([i \in 1..Len(SchCtx(o)) |-> ContextQueues(o, SchCtx(o)[i])])
        /\ s[9] = AppReleases
    BY DEF CleanUpParts
  <1>2. s[5] \in Tidy(o, KindPart(o, "rx")) /\ s[6] \in Tidy(o, KindPart(o, "tx"))
    BY <1>1, MatcherTidy
  <1>3. s[9] \in Tidy(o, KindPart(o, "app"))
    BY <1>1, AppTidy
  <1>4. ASSUME NEW kind \in {"sch", "thd"}, NEW n \in Nat, NEW cs, Len(cs) = n,
               \A i \in 1..n : cs[i] = <<kind, i - 1>> /\ <<kind, i - 1>> \in ContextsOf(o)
        PROVE  /\ [i \in 1..Len(cs) |-> Free(Of(cs[i], "app_data_daddr"))]
                      \in Tidy(o, PartOf(o, {kind} \X (0..(n - 1)), {"app_data_daddr"}))
               /\ FlattenSeq([i \in 1..Len(cs) |-> ContextRules(o, cs[i])])
                      \in Tidy(o, PartOf(o, {kind} \X (0..(n - 1)), RuleNames))
               /\ FlattenSeq([i \in 1..Len(cs) |-> ContextQueues(o, cs[i])])
                      \in Tidy(o, PartOf(o, {kind} \X (0..(n - 1)), HandlerNames))
    <2>1. {kind} \X (0..(n - 1)) \subseteq ContextsOf(o)
      <3> SUFFICES ASSUME NEW x \in 0..(n - 1) PROVE <<kind, x>> \in ContextsOf(o)
        OBVIOUS
      <3>1. x + 1 \in 1..n /\ (x + 1) - 1 = x
        OBVIOUS
      <3> QED
        BY <1>4, <3>1
    <2>2. [i \in 1..Len(cs) |-> Free(Of(cs[i], "app_data_daddr"))]
              \in Tidy(o, PartOf(o, {kind} \X (0..(n - 1)), {"app_data_daddr"}))
      <3>1. PICK t : t = [i \in 1..n |-> Free(Of(<<kind, i - 1>>, "app_data_daddr"))]
        OBVIOUS
      <3>2. [i \in 1..Len(cs) |-> Free(Of(cs[i], "app_data_daddr"))] = t
        BY <1>4, <3>1
      <3>3. t \in Tidy(o, PartOf(o, {kind} \X (0..(n - 1)), {"app_data_daddr"}))
        BY <2>1, <3>1, DataTidy
      <3> QED
        BY <3>2, <3>3
    <2>3. FlattenSeq([i \in 1..Len(cs) |-> ContextRules(o, cs[i])])
              \in Tidy(o, PartOf(o, {kind} \X (0..(n - 1)), RuleNames))
      <3>1. PICK t : t = [i \in 1..Len(cs) |-> ContextRules(o, cs[i])]
        OBVIOUS
      <3>2. t = [i \in 1..n |-> t[i]] /\ \A i \in 1..n : t[i] = ContextRules(o, <<kind, i - 1>>)
        BY <1>4, <3>1
      <3>3. \A i \in 1..n : t[i] \in Tidy(o, PartOf(o, {<<kind, i - 1>>}, RuleNames))
        BY <1>4, <3>2, ContextRulesTidy
      <3> QED
        BY <3>1, <3>2, <3>3, ContextsTidy
    <2>4. FlattenSeq([i \in 1..Len(cs) |-> ContextQueues(o, cs[i])])
              \in Tidy(o, PartOf(o, {kind} \X (0..(n - 1)), HandlerNames))
      <3>1. PICK t : t = [i \in 1..Len(cs) |-> ContextQueues(o, cs[i])]
        OBVIOUS
      <3>2. t = [i \in 1..n |-> t[i]] /\ \A i \in 1..n : t[i] = ContextQueues(o, <<kind, i - 1>>)
        BY <1>4, <3>1
      <3>3. \A i \in 1..n : t[i] \in Tidy(o, PartOf(o, {<<kind, i - 1>>}, HandlerNames))
        BY <1>4, <3>2, ContextQueuesTidy
      <3> QED
        BY <3>1, <3>2, <3>3, ContextsTidy
    <2> QED
      BY <2>2, <2>3, <2>4
  <1>5. /\ s[2] \in Tidy(o, PartOf(o, SchContexts(o), {"app_data_daddr"}))
        /\ s[3] \in Tidy(o, PartOf(o, SchContexts(o), RuleNames))
        /\ s[8] \in Tidy(o, PartOf(o, SchContexts(o), HandlerNames))
    <2>0. PICK cs : cs = SchCtx(o)
      OBVIOUS
    <2>1. PICK n \in Nat : n = o.scheduler_num
      BY ContextsByNumber
    <2>2. Len(cs) = n /\ \A i \in 1..n : cs[i] = <<"sch", i - 1>> /\ <<"sch", i - 1>> \in ContextsOf(o)
      BY <2>0, <2>1, ContextsByNumber, Zenon
    <2>3. {"sch"} \X (0..(n - 1)) = SchContexts(o) /\ "sch" \in {"sch", "thd"}
      BY <2>1 DEF SchContexts
    <2>4. /\ [i \in 1..Len(cs) |-> Free(Of(cs[i], "app_data_daddr"))] \in Tidy(o, PartOf(o, SchContexts(o), {"app_data_daddr"}))
          /\ FlattenSeq([i \in 1..Len(cs) |-> ContextRules(o, cs[i])]) \in Tidy(o, PartOf(o, SchContexts(o), RuleNames))
          /\ FlattenSeq([i \in 1..Len(cs) |-> ContextQueues(o, cs[i])]) \in Tidy(o, PartOf(o, SchContexts(o), HandlerNames))
      <3>1. PICK X : X = {"sch"} \X (0..(n - 1))
        OBVIOUS
      <3>2. /\ [i \in 1..Len(cs) |-> Free(Of(cs[i], "app_data_daddr"))] \in Tidy(o, PartOf(o, X, {"app_data_daddr"}))
            /\ FlattenSeq([i \in 1..Len(cs) |-> ContextRules(o, cs[i])]) \in Tidy(o, PartOf(o, X, RuleNames))
            /\ FlattenSeq([i \in 1..Len(cs) |-> ContextQueues(o, cs[i])]) \in Tidy(o, PartOf(o, X, HandlerNames))
        BY <1>4, <2>2, <2>3, <3>1, Zenon
      <3>3. X = SchContexts(o)
        BY <2>3, <3>1
      <3> QED
        BY <3>2, <3>3, Zenon
    <2> QED
      BY <1>1, <2>0, <2>4, Zenon
  <1>6. /\ s[1] \in Tidy(o, PartOf(o, ThdContexts(o), {"app_data_daddr"}))
        /\ s[4] \in Tidy(o, PartOf(o, ThdContexts(o), RuleNames))
        /\ s[7] \in Tidy(o, PartOf(o, ThdContexts(o), HandlerNames))
    <2>0. PICK cs : cs = ThdCtx(o)
      OBVIOUS
    <2>1. PICK n \in Nat : n = threads_num(o)
      BY ContextsByNumber
    <2>2. Len(cs) = n /\ \A i \in 1..n : cs[i] = <<"thd", i - 1>> /\ <<"thd", i - 1>> \in ContextsOf(o)
      BY <2>0, <2>1, ContextsByNumber, Zenon
    <2>3. {"thd"} \X (0..(n - 1)) = ThdContexts(o) /\ "thd" \in {"sch", "thd"}
      BY <2>1 DEF ThdContexts
    <2>4. /\ [i \in 1..Len(cs) |-> Free(Of(cs[i], "app_data_daddr"))] \in Tidy(o, PartOf(o, ThdContexts(o), {"app_data_daddr"}))
          /\ FlattenSeq([i \in 1..Len(cs) |-> ContextRules(o, cs[i])]) \in Tidy(o, PartOf(o, ThdContexts(o), RuleNames))
          /\ FlattenSeq([i \in 1..Len(cs) |-> ContextQueues(o, cs[i])]) \in Tidy(o, PartOf(o, ThdContexts(o), HandlerNames))
      <3>1. PICK X : X = {"thd"} \X (0..(n - 1))
        OBVIOUS
      <3>2. /\ [i \in 1..Len(cs) |-> Free(Of(cs[i], "app_data_daddr"))] \in Tidy(o, PartOf(o, X, {"app_data_daddr"}))
            /\ FlattenSeq([i \in 1..Len(cs) |-> ContextRules(o, cs[i])]) \in Tidy(o, PartOf(o, X, RuleNames))
            /\ FlattenSeq([i \in 1..Len(cs) |-> ContextQueues(o, cs[i])]) \in Tidy(o, PartOf(o, X, HandlerNames))
        BY <1>4, <2>2, <2>3, <3>1, Zenon
      <3>3. X = ThdContexts(o)
        BY <2>3, <3>1
      <3> QED
        BY <3>2, <3>3, Zenon
    <2> QED
      BY <1>1, <2>0, <2>4, Zenon
  <1> QED
    BY <1>2, <1>3, <1>5, <1>6

\* All that is made, but for what is never released.
ToRelease(o) == {f \in MadeFields(o) : Name(f) \notin {"process_pd", "mr", "host_alloc_base"}}

\* The whole clean-up is in order and releases all of that.
LEMMA CleanUpTidy ==
    ASSUME NEW o \in OptionRecords
    PROVE  \E F : CleanUp(o) \in Tidy(o, F) /\ ToRelease(o) \subseteq F
  <1>1. PICK s : s = CleanUpParts(o)
    OBVIOUS
  <1> DEFINE D(C) == PartOf(o, C, {"app_data_daddr"})
             R(C) == PartOf(o, C, RuleNames)
             H(C) == PartOf(o, C, HandlerNames)
             S == SchContexts(o)
             T == ThdContexts(o)
             K(kind) == KindPart(o, kind)
             F4 == D(T) \cup D(S) \cup R(S) \cup R(T)
             F6 == F4 \cup K("rx") \cup K("tx")
             F8 == F6 \cup H(T) \cup H(S)
  <1>2. /\ s[1] \in Tidy(o, D(T)) /\ s[2] \in Tidy(o, D(S)) /\ s[3] \in Tidy(o, R(S)) /\ s[4] \in Tidy(o, R(T))
        /\ s[5] \in Tidy(o, K("rx")) /\ s[6] \in Tidy(o, K("tx"))
        /\ s[7] \in Tidy(o, H(T)) /\ s[8] \in Tidy(o, H(S)) /\ s[9] \in Tidy(o, K("app"))
    BY <1>1, CleanUpPartsTidy
  <1>3. ASSUME NEW f, NEW g, Owner(f) \in S, Owner(g) \in T PROVE Before(f, g) /\ Before(g, f)
    <2>1. f[1] = "sch" /\ g[1] = "thd" /\ Owner(f) # Owner(g)
      BY <1>3 DEF SchContexts, ThdContexts, Owner
    <2> QED
      BY <2>1 DEF Before, Apart
  <1>4. /\ \A f \in D(S) \cup R(S) \cup H(S) : Owner(f) \in S
        /\ \A f \in D(T) \cup R(T) \cup H(T) : Owner(f) \in T
    BY DEF PartOf
  <1>5. /\ \A C : \A f \in D(C) : Place(Name(f)) = 1
        /\ \A C : \A f \in R(C) : Place(Name(f)) \in 2..7
        /\ \A C : \A f \in H(C) : Place(Name(f)) \in 13..28
    <2>1. \A C : \A f \in D(C) : Place(Name(f)) = 1
      BY PlaceRanges DEF PartOf
    <2>2. \A C : \A f \in R(C) : Place(Name(f)) \in 2..7
      BY PlaceRanges DEF PartOf
    <2>3. \A n \in HandlerNames : Place(n) \in 13..28
      BY PlaceRanges DEF HandlerNames
    <2>4. \A C : \A f \in H(C) : Name(f) \in HandlerNames
      BY DEF PartOf
    <2> QED
      BY <2>1, <2>2, <2>3, <2>4
  <1>6. /\ \A f \in K("rx") \cup K("tx") : Place(Name(f)) \in 8..12
        /\ \A f \in K("app") : Place(Name(f)) \in 29..32
    <2>1. \A f \in K("rx") \cup K("tx") : Name(f) \in MatcherNames
      BY ReleaseKinds DEF KindPart, App
    <2>2. \A f \in K("app") : Name(f) \in {"stream", "flexio_window", "flexio_process", "ibv_ctx"}
      BY ReleaseKinds DEF KindPart
    <2> QED
      BY <2>1, <2>2, PlaceRanges
  <1>7. ASSUME NEW f \in K("rx"), NEW g \in K("tx") PROVE Before(f, g)
    <2>1. f[1] = "rx" /\ g[1] = "tx" /\ Owner(f) # Owner(g)
      BY DEF KindPart, Owner
    <2> QED
      BY <2>1 DEF Before, Apart
  <1>8. ToRelease(o) \subseteq F8 \cup K("app")
    <2> SUFFICES ASSUME NEW f \in MadeFields(o), Name(f) \notin {"process_pd", "mr", "host_alloc_base"}
                 PROVE  f \in F8 \cup K("app")
      BY DEF ToRelease
    <2>1. f \in DataFields(o) /\ Name(f) \notin HostBuffers
      BY DEF MadeFields, PointedNames
    <2>2. ASSUME NEW n \in AppNames, f = App(n) PROVE f \in K("app")
      <3>1. Name(f) = n /\ f[1] = "app"
        BY <2>2 DEF App, Name
      <3> QED
        BY <2>2, <3>1 DEF KindPart, ReleaseFields, AppNames
    <2>3. ASSUME NEW dir \in {"rx", "tx"}, NEW n \in MatcherNames, f = Matcher(dir, n)
          PROVE  f \in K("rx") \cup K("tx")
      <3>1. f[1] = dir
        BY <2>3 DEF Matcher
      <3> QED
        BY <2>3, <3>1 DEF KindPart, ReleaseFields
    <2>4. ASSUME NEW c \in ContextsOf(o), NEW n \in ContextNames, f = Of(c, n)
          PROVE  f \in D(S) \cup D(T) \cup H(S) \cup H(T)
      <3>1. Name(f) = n
        BY <2>4 DEF Of, Name
      <3>2. n \in {"app_data_daddr", "event_handler"}
        BY <3>1 DEF ContextNames
      <3>3. f \in PartOf(o, {c}, {n})
        BY <2>4, <3>2, OwnField
      <3>4. c \in S \/ c \in T
        BY DEF ContextsOf
      <3>5. n = "app_data_daddr" \/ n \in HandlerNames
        BY <3>2 DEF HandlerNames
      <3> QED
        BY <3>3, <3>4, <3>5 DEF PartOf
    <2>5. ASSUME NEW c \in ContextsOf(o), NEW j \in QueuesOf(o, c), NEW n \in QueueNames \cup RuleNames, f = OfQueue(c, j, n)
          PROVE  f \in R(S) \cup R(T) \cup H(S) \cup H(T)
      <3>1. Name(f) = n
        BY <2>5 DEF OfQueue, Name
      <3>2. n \in SqNames \cup RqNames \cup RuleNames
        BY <2>1, <3>1 DEF QueueNames, HostBuffers, SqNames, RqNames
      <3>3. n \in PerQueue /\ j \in Nat
        BY <3>2, OptionFacts DEF PerQueue, QueuesOf
      <3>4. f \in ReleaseFields(o) /\ Owner(f) = c /\ f[3] = j
        BY <2>5, <3>3, QueuePartFields
      <3>5. c \in S \/ c \in T
        BY DEF ContextsOf
      <3>6. n \in RuleNames \/ n \in HandlerNames
        BY <3>2 DEF HandlerNames
      <3> QED
        BY <2>5, <3>1, <3>4, <3>5, <3>6 DEF PartOf
    <2>6. \A c \in S : c \in ContextsOf(o) /\ QueuesOf(o, c) = 0..(scheduler_queue_count(o) - 1)
      BY DEF ContextsOf, SchContexts, QueuesOf, num_queues
    <2>7. \A c \in T : c \in ContextsOf(o) /\ QueuesOf(o, c) = {0}
      BY DEF ContextsOf, ThdContexts, QueuesOf, num_queues
    <2>8. \/ \E n \in AppNames : f = App(n)
          \/ \E dir \in {"rx", "tx"}, n \in MatcherNames : f = Matcher(dir, n)
          \/ \E c \in ContextsOf(o), n \in ContextNames : f = Of(c, n)
          \/ \E c \in S, j \in 0..(scheduler_queue_count(o) - 1), n \in QueueNames \cup RuleNames : f = OfQueue(c, j, n)
          \/ \E c \in T, j \in {0}, n \in QueueNames : f = OfQueue(c, j, n)
      BY <2>1 DEF DataFields
    <2>9. ASSUME NEW c \in S, NEW j \in 0..(scheduler_queue_count(o) - 1), NEW n \in QueueNames \cup RuleNames, f = OfQueue(c, j, n)
          PROVE  f \in R(S) \cup R(T) \cup H(S) \cup H(T)
      <3>1. c \in ContextsOf(o) /\ j \in QueuesOf(o, c)
        BY <2>6
      <3> HIDE DEF R, H, S, T
      <3> QED
        BY <2>5, <2>9, <3>1, Zenon
    <2>10. ASSUME NEW c \in T, NEW j \in {0}, NEW n \in QueueNames, f = OfQueue(c, j, n)
          PROVE  f \in R(S) \cup R(T) \cup H(S) \cup H(T)
      <3>1. c \in ContextsOf(o) /\ j \in QueuesOf(o, c) /\ n \in QueueNames \cup RuleNames
        BY <2>7
      <3> HIDE DEF R, H, S, T
      <3> QED
        BY <2>5, <2>10, <3>1, Zenon
    <2> HIDE DEF D, R, H, K, S, T
    <2> QED
      BY <2>2, <2>3, <2>4, <2>8, <2>9, <2>10
  <1> HIDE DEF D, R, H, K, S, T
  <1>9. s[1] \o s[2] \in Tidy(o, D(T) \cup D(S))
    <2>1. \A f \in D(T), g \in D(S) : Before(f, g)
      BY <1>3, <1>4
    <2> QED
      BY <1>2, <2>1, TidyConcat
  <1>10. (s[1] \o s[2]) \o s[3] \in Tidy(o, (D(T) \cup D(S)) \cup R(S))
    <2>1. \A f \in D(T) \cup D(S), g \in R(S) : Before(f, g)
      BY <1>5 DEF Before
    <2> QED
      BY <1>2, <1>9, <2>1, TidyConcat
  <1>11. ((s[1] \o s[2]) \o s[3]) \o s[4] \in Tidy(o, F4)
    <2>1. \A f \in D(T) \cup D(S), g \in R(T) : Before(f, g)
      BY <1>5 DEF Before
    <2>2. \A f \in R(S), g \in R(T) : Before(f, g)
      BY <1>3, <1>4
    <2> QED
      BY <1>2, <1>10, <2>1, <2>2, TidyConcat
  <1>12. PICK t4 : t4 = s[1] \o s[2] \o s[3] \o s[4] /\ t4 \in Tidy(o, F4)
    BY <1>11, Zenon
  <1>13. \A f \in F4 : Place(Name(f)) \in 1..7
    BY <1>5
  <1> HIDE DEF F4
  <1>14. t4 \o s[5] \in Tidy(o, F4 \cup K("rx"))
    <2>1. \A f \in F4, g \in K("rx") : Before(f, g)
      BY <1>6, <1>13 DEF Before
    <2> QED
      BY <1>2, <1>12, <2>1, TidyConcat
  <1>15. (t4 \o s[5]) \o s[6] \in Tidy(o, F6)
    <2>1. \A f \in F4, g \in K("tx") : Before(f, g)
      BY <1>6, <1>13 DEF Before
    <2> QED
      BY <1>2, <1>7, <1>14, <2>1, TidyConcat
  <1>16. PICK t6 : t6 = t4 \o s[5] \o s[6] /\ t6 \in Tidy(o, F6)
    BY <1>15, Zenon
  <1>17. \A f \in F6 : Place(Name(f)) \in 1..12
    BY <1>6, <1>13
  <1> HIDE DEF F6
  <1>18. t6 \o s[7] \in Tidy(o, F6 \cup H(T))
    <2>1. \A f \in F6, g \in H(T) : Before(f, g)
      BY <1>5, <1>17 DEF Before
    <2> QED
      BY <1>2, <1>16, <2>1, TidyConcat
  <1>19. (t6 \o s[7]) \o s[8] \in Tidy(o, F8)
    <2>1. \A f \in F6, g \in H(S) : Before(f, g)
      BY <1>5, <1>17 DEF Before
    <2>2. \A f \in H(T), g \in H(S) : Before(f, g)
      BY <1>3, <1>4
    <2> QED
      BY <1>2, <1>18, <2>1, <2>2, TidyConcat
  <1>20. PICK t8 : t8 = t6 \o s[7] \o s[8] /\ t8 \in Tidy(o, F8)
    BY <1>19, Zenon
  <1>21. \A f \in F8 : Place(Name(f)) \in 1..28
    BY <1>5, <1>17
  <1> HIDE DEF F8
  <1>22. t8 \o s[9] \in Tidy(o, F8 \cup K("app"))
    <2>1. \A f \in F8, g \in K("app") : Before(f, g)
      BY <1>6, <1>21 DEF Before
    <2> QED
      BY <1>2, <1>20, <2>1, TidyConcat
  <1>23. CleanUp(o) = t8 \o s[9]
    BY <1>1, <1>12, <1>16, <1>20, CleanUpIs, Zenon
  <1> QED
    BY <1>8, <1>22, <1>23
-----------------------------------------------------------------------------
(***************************************************************************)
(* What the clean-up finds and what it leaves.                             *)
(***************************************************************************)
\* A field that is made points to its own resource, whoever else points there too.
OwnPointers(o, st) == \A f \in DOMAIN st.ptr : f \in MadeFields(o) => st.ptr[f] = f

\* Only what is to be made exists; a field that shares a buffer or a key has its flag
\* set; and the parts of a rule exist only if the rule is complete.
Marked(o, D, lv) ==
    /\ lv \subseteq MadeFields(o)
    /\ \A f \in D : f \in DataFields(o) \/ f \in UsedFlags(o)
    /\ \A f \in D : f \in PointedFields(o) /\ Name(f) \notin HostBuffers => Guard(o, f) \in D
    /\ \A r \in lv : Name(r) \in RuleNames => RuleFlag(r) \in D

\* What exists is kept or is still to be released, and a field that owns a resource
\* which is gone has been dealt with.
ReleaseInv ==
    /\ OwnPointers(options, Present) /\ Marked(options, DOMAIN ptr, live)
    /\ phase = "build" /\ at = 1 => live = {}
    /\ phase = "clean" =>
          /\ \A r \in live : Kept(r) \/ \E y \in at..Len(CleanUp(options)) : CleanUp(options)[y].field = r
          /\ \A f \in DOMAIN ptr : f \in MadeFields(options) =>
                f \in live \/ \E y \in 1..(at - 1) : y <= Len(CleanUp(options)) /\ CleanUp(options)[y].field = f
    /\ phase = "returned" => \A r \in live : Kept(r)

\* The names of pointers are not those of flags.
LEMMA DataNames ==
    ASSUME NEW o, NEW f \in DataFields(o)
    PROVE  Name(f) \notin FlagNames
  <1> DEFINE Names == AppNames \cup MatcherNames \cup ContextNames \cup QueueNames \cup RuleNames
  <1>1. Name(f) \in Names
    BY DEF DataFields, Name, App, Matcher, Of, OfQueue
  <1>2. Names \cap FlagNames = {}
    BY DEF AppNames, MatcherNames, ContextNames, QueueNames, RuleNames,
           FlagNames, AppFlags, QueueFlags, RuleFlags
  <1> QED
    BY <1>1, <1>2

\* A field is made, shared or a flag, and only one of these.
LEMMA FieldUses ==
    ASSUME NEW o
    PROVE  /\ \A f \in DataFields(o) : f \in MadeFields(o) \/ f \in PointedFields(o)
           /\ \A f \in MadeFields(o) : f \in DataFields(o) /\ f \notin PointedFields(o) /\ f \notin UsedFlags(o)
           /\ \A f \in PointedFields(o) : f \in DataFields(o) /\ f \notin UsedFlags(o)
  BY FlagsApart DEF MadeFields, PointedFields, UsedFlags

\* A step that is shaped leaves the pointers of what is made alone.
LEMMA DoOwns ==
    ASSUME NEW o, NEW st, NEW s \in Steps(o), InBounds(o, st), OwnPointers(o, st), NEW ca, NEW k, Shaped(o, ca, k, s)
    PROVE  OwnPointers(o, Do(st, s))
  <1>0. /\ \A f, r : DOMAIN Assign(st.ptr, f, r) = DOMAIN st.ptr \cup {f}
        /\ \A f, r : Assign(st.ptr, f, r)[f] = r
        /\ \A f, r : \A g \in DOMAIN st.ptr : g # f => Assign(st.ptr, f, r)[g] = st.ptr[g]
    BY DEF Assign
  <1>1. ASSUME NEW f, NEW r, f \in MadeFields(o) => r = f, Do(st, s).ptr = Assign(st.ptr, f, r)
        PROVE  OwnPointers(o, Do(st, s))
    <2>1. PICK p : p = Do(st, s).ptr
      OBVIOUS
    <2>2. /\ DOMAIN p = DOMAIN st.ptr \cup {f} /\ p[f] = r
          /\ \A g \in DOMAIN st.ptr : g # f => p[g] = st.ptr[g]
      <3>1. DOMAIN p = DOMAIN st.ptr \cup {f}
        BY <1>0, <1>1, <2>1, Zenon
      <3>2. p[f] = r
        BY <1>0, <1>1, <2>1, Zenon
      <3>3. ASSUME NEW g \in DOMAIN st.ptr, g # f PROVE p[g] = st.ptr[g]
        <4>1. Assign(st.ptr, f, r)[g] = st.ptr[g]
          BY <1>0, <3>3
        <4> QED
          BY <1>1, <2>1, <4>1
      <3> QED
        BY <3>1, <3>2, <3>3
    <2>3. \A g \in DOMAIN st.ptr : g \in MadeFields(o) => st.ptr[g] = g
      BY DEF OwnPointers
    <2>4. \A g \in DOMAIN p : g \in MadeFields(o) => p[g] = g
      BY <1>1, <2>2, <2>3
    <2> QED
      BY <2>1, <2>4, Zenon DEF OwnPointers
  <1>2. CASE s.do = "make"
    <2>1. Do(st, s).ptr = Assign(st.ptr, s.field, s.field)
      BY <1>2 DEF Do, InBounds
    <2> QED
      BY <1>1, <2>1, Zenon
  <1>3. CASE s.do = "flag"
    <2>1. Do(st, s).ptr = Assign(st.ptr, s.field, s.field)
      BY <1>3 DEF Do, InBounds
    <2> QED
      BY <1>1, <2>1, Zenon
  <1>4. CASE s.do = "point" /\ s.from \in DOMAIN st.ptr
    <2>1. Do(st, s).ptr = Assign(st.ptr, s.field, st.ptr[s.from])
      BY <1>4 DEF Do, InBounds
    <2>2. s.field \notin MadeFields(o)
      BY <1>4, FieldUses DEF Shaped
    <2> QED
      BY <1>1, <2>1, <2>2, Zenon
  <1>5. CASE s.do = "attempt" \/ (s.do = "point" /\ s.from \notin DOMAIN st.ptr)
    <2>1. Do(st, s) = st
      BY <1>5 DEF Do
    <2> QED
      BY <2>1
  <1>6. CASE s.do = "run"
    <2>1. Do(st, s).ptr = st.ptr
      BY <1>6 DEF Do, InBounds
    <2> QED
      BY <2>1 DEF OwnPointers
  <1> QED
    BY <1>2, <1>3, <1>4, <1>5, <1>6, StepKinds

\* So does a call.
LEMMA StepsOwn ==
    ASSUME NEW o, call.steps \in Seq(Steps(o)), NEW n \in 0..Len(call.steps), ShapedCall(o, call),
           InBounds(o, Present), PointsToLive(o, Present), OwnPointers(o, Present)
    PROVE  OwnPointers(o, AfterSteps(n))
  <1>1. PICK g : Progress(o, g, n)
    BY AfterStepsProgress
  <1>2. /\ AfterSteps(n) = g[n] /\ g[0] = Present
        /\ \A k \in 0..n : InBounds(o, g[k])
        /\ \A k \in 1..n : g[k] = Do(g[k - 1], call.steps[k])
    BY <1>1, Zenon DEF Progress
  <1>3. \A k \in 1..n : call.steps[k] \in Steps(o) /\ k \in 1..Len(call.steps)
    OBVIOUS
  <1>4. \A k \in 1..n : Shaped(o, call, k, call.steps[k])
    BY <1>3, Zenon DEF ShapedCall
  <1> DEFINE K == {k \in Nat : k <= n => OwnPointers(o, g[k])}
  <1>5. 0 \in K
    BY <1>2
  <1>6. ASSUME NEW k \in K PROVE k + 1 \in K
    <2> SUFFICES ASSUME k + 1 <= n PROVE OwnPointers(o, g[k + 1])
      OBVIOUS
    <2>1. k \in Nat /\ k + 1 \in 1..n /\ (k + 1) - 1 = k /\ k \in 0..n /\ OwnPointers(o, g[k])
      OBVIOUS
    <2>2. g[k + 1] = Do(g[k], call.steps[k + 1]) /\ InBounds(o, g[k])
      BY <1>2, <2>1, Zenon
    <2> QED
      BY <1>3, <1>4, <2>1, <2>2, DoOwns, Zenon
  <1>7. K = Nat
    <2> HIDE DEF K
    <2>1. K \in SUBSET Nat
      BY Zenon DEF K
    <2> QED
      BY <1>5, <1>6, <2>1, SetInduction
  <1>8. n \in Nat /\ n <= n
    OBVIOUS
  <1>9. OwnPointers(o, g[n])
    BY <1>7, <1>8
  <1> QED
    BY <1>2, <1>9

\* A call that is not cut short between sharing a buffer and flagging it, and that takes
\* back what it made unless it is complete, leaves everything marked.
LEMMA StepsMark ==
    ASSUME NEW o, call.steps \in Seq(Steps(o)), NEW n \in 0..Len(call.steps), ShapedCall(o, call),
           InBounds(o, Present), PointsToLive(o, Present), Marked(o, DOMAIN ptr, live),
           n # 0 /\ n # Len(call.steps) => n + 1 \in 1..Len(call.steps) /\ call.steps[n + 1].do # "flag",
           n # Len(call.steps) => (call.undo => n = 0),
           NEW st, st = AfterSteps(n)
    PROVE  Marked(o, DOMAIN st.ptr, st.live)
  <1>1. /\ \A f \in DOMAIN st.ptr :
              \/ f \in DOMAIN ptr
              \/ \E k \in 1..n : call.steps[k].field = f /\ call.steps[k].do \in {"make", "point", "flag"}
        /\ \A r \in st.live :
              r \in live \/ \E k \in 1..n : call.steps[k].field = r /\ call.steps[k].do = "make"
        /\ \A k \in 1..n : call.steps[k].do = "flag" => call.steps[k].field \in DOMAIN st.ptr
    BY StepsSet
  <1>2. live \subseteq st.live /\ DOMAIN ptr \subseteq DOMAIN st.ptr
    BY AfterStepsInBounds DEF Grows, Present
  <1>3. \A k \in 1..n : Shaped(o, call, k, call.steps[k]) /\ k \in 1..Len(call.steps)
    <2>1. \A k \in 1..n : k \in 1..Len(call.steps)
      OBVIOUS
    <2> QED
      BY <2>1, Zenon DEF ShapedCall
  <1>4. st.live \subseteq MadeFields(o)
    BY <1>1, <1>3 DEF Shaped, Marked
  <1>5. \A f \in DOMAIN st.ptr : f \in DataFields(o) \/ f \in UsedFlags(o)
    BY <1>1, <1>3, FieldUses DEF Shaped, Marked
  <1>6. ASSUME NEW f \in DOMAIN st.ptr, f \in PointedFields(o), Name(f) \notin HostBuffers
        PROVE  Guard(o, f) \in DOMAIN st.ptr
    <2>1. CASE f \in DOMAIN ptr
      BY <1>2, <1>6, <2>1 DEF Marked
    <2>2. ASSUME NEW k \in 1..n, call.steps[k].field = f, call.steps[k].do \in {"make", "point", "flag"}
          PROVE  Guard(o, f) \in DOMAIN st.ptr
      <3>1. PICK s : s = call.steps[k]
        OBVIOUS
      <3>2. Shaped(o, call, k, s) /\ s.field = f /\ s.do \in {"make", "point", "flag"}
        BY <1>3, <2>2, <3>1
      <3>3. s.do = "point"
        BY <1>6, <3>2, FieldUses DEF Shaped
      <3>4. \/ \E y \in 1..(k - 1) : call.steps[y] = Flag(Guard(o, f))
            \/ k + 1 \in 1..Len(call.steps) /\ call.steps[k + 1] = Flag(Guard(o, f))
        BY <1>6, <3>2, <3>3, Zenon DEF Shaped
      <3>5. \A g : Flag(g).do = "flag" /\ Flag(g).field = g
        BY DEF Flag
      <3>6. ASSUME NEW y \in 1..n, call.steps[y] = Flag(Guard(o, f)) PROVE Guard(o, f) \in DOMAIN st.ptr
        BY <1>1, <3>5, <3>6
      <3>7. ASSUME NEW y \in 1..(k - 1), call.steps[y] = Flag(Guard(o, f)) PROVE Guard(o, f) \in DOMAIN st.ptr
        <4>1. y \in 1..n
          OBVIOUS
        <4> QED
          BY <3>6, <3>7, <4>1
      <3>8. CASE k + 1 \in 1..Len(call.steps) /\ call.steps[k + 1] = Flag(Guard(o, f))
        <4>1. call.steps[k + 1].do = "flag"
          BY <3>5, <3>8
        <4>2. k # n
          BY <3>8, <4>1
        <4>3. k + 1 \in 1..n
          BY <4>2
        <4> QED
          BY <3>6, <3>8, <4>3
      <3> QED
        BY <3>4, <3>7, <3>8
    <2> QED
      BY <1>1, <2>1, <2>2
  <1>7. ASSUME NEW r \in st.live, Name(r) \in RuleNames PROVE RuleFlag(r) \in DOMAIN st.ptr
    <2>1. CASE r \in live
      BY <1>2, <1>7, <2>1 DEF Marked
    <2>2. ASSUME NEW k \in 1..n, call.steps[k].field = r, call.steps[k].do = "make"
          PROVE  RuleFlag(r) \in DOMAIN st.ptr
      <3>1. call.undo /\ Has(call.steps, Flag(RuleFlag(r)))
        BY <1>3, <1>7, <2>2 DEF Shaped
      <3>2. n = Len(call.steps)
        BY <3>1
      <3>3. PICK l \in 1..Len(call.steps) : call.steps[l] = Flag(RuleFlag(r))
        BY <3>1 DEF Has
      <3>4. call.steps[l].do = "flag" /\ call.steps[l].field = RuleFlag(r)
        BY <3>3 DEF Flag
      <3> QED
        BY <1>1, <3>2, <3>4
    <2> QED
      BY <1>1, <2>1, <2>2
  <1> QED
    BY <1>4, <1>5, <1>6, <1>7 DEF Marked

\* Every call, whether it succeeds or fails, keeps the pointers and the marks.
LEMMA BecomeMarked ==
    ASSUME HostInv, ReleaseInv, Building, CallSucceeds \/ \E k \in DOMAIN call.steps : FailAt(k)
    PROVE  /\ \A f \in DOMAIN ptr' : f \in MadeFields(options) => ptr'[f] = f
           /\ Marked(options, DOMAIN ptr', live')
  <1>1. PICK o : o = options
    OBVIOUS
  <1>2. /\ o \in OptionRecords /\ at \in 1..Len(StartUp(o)) /\ call = StartUp(o)[at]
        /\ call.steps \in Seq(Steps(o))
    BY <1>1, CallInRange
  <1>3. InBounds(o, Present) /\ PointsToLive(o, Present)
    BY <1>1 DEF HostInv, Building
  <1>4. OwnPointers(o, Present) /\ Marked(o, DOMAIN ptr, live)
    BY <1>1 DEF ReleaseInv
  <1>5. ShapedCall(o, call)
    BY <1>2, CallsShaped
  <1>6. PICK n \in 0..Len(call.steps) :
            /\ Become(AfterSteps(n))
            /\ n # 0 /\ n # Len(call.steps) => n + 1 \in 1..Len(call.steps) /\ call.steps[n + 1].do # "flag"
            /\ n # Len(call.steps) => (call.undo => n = 0)
    <2>1. CASE CallSucceeds
      <3>1. Len(call.steps) \in 0..Len(call.steps)
        BY <1>2
      <3> QED
        BY <2>1, <3>1, Zenon DEF CallSucceeds
    <2>2. ASSUME NEW k \in DOMAIN call.steps, FailAt(k)
          PROVE  \E n \in 0..Len(call.steps) :
                     /\ Become(AfterSteps(n))
                     /\ n # 0 /\ n # Len(call.steps) => n + 1 \in 1..Len(call.steps) /\ call.steps[n + 1].do # "flag"
                     /\ n # Len(call.steps) => (call.undo => n = 0)
      <3>1. k \in 1..Len(call.steps) /\ Len(call.steps) \in Nat
        BY <1>2
      <3>2. call.steps[k].do \in {"make", "attempt", "run"} /\ Become(AfterSteps(IF call.undo THEN 0 ELSE k - 1))
        BY <2>2 DEF FailAt
      <3>3. CASE ~call.undo
        <4>1. PICK n \in 0..Len(call.steps) : n = k - 1
          BY <3>1
        <4>2. Become(AfterSteps(n))
          BY <3>2, <3>3, <4>1
        <4>3. n + 1 \in 1..Len(call.steps) /\ call.steps[n + 1].do # "flag"
          BY <3>1, <3>2, <4>1
        <4> QED
          BY <3>3, <4>2, <4>3, Zenon
      <3>4. CASE call.undo
        <4>1. PICK n \in 0..Len(call.steps) : n = 0
          BY <3>1
        <4>2. Become(AfterSteps(n))
          BY <3>2, <3>4, <4>1
        <4> QED
          BY <4>1, <4>2, Zenon
      <3> QED
        BY <3>3, <3>4
    <2> QED
      BY <2>1, <2>2
  <1>7. PICK st : st = AfterSteps(n)
    OBVIOUS
  <1>8. live' = st.live /\ ptr' = st.ptr
    BY <1>6, <1>7 DEF Become
  <1>9. OwnPointers(o, st)
    BY <1>2, <1>3, <1>4, <1>5, <1>7, StepsOwn
  <1>10. Marked(o, DOMAIN st.ptr, st.live)
    BY <1>2, <1>3, <1>4, <1>5, <1>6, <1>7, StepsMark
  <1> QED
    BY <1>1, <1>8, <1>9, <1>10 DEF OwnPointers

\* The release that is next is one of the tidy clean-up.
LEMMA ReleaseInRange ==
    ASSUME HostInv, Cleaning
    PROVE  /\ options \in OptionRecords
           /\ at \in 1..Len(CleanUp(options)) /\ release = CleanUp(options)[at] /\ release \in Releases(options)
           /\ \A y \in 1..Len(CleanUp(options)) : CleanUp(options)[y].field \in ReleaseFields(options)
           /\ \A x \in 1..Len(CleanUp(options)), y \in 1..Len(CleanUp(options)) :
                 x < y => Before(CleanUp(options)[x].field, CleanUp(options)[y].field)
  <1>1. options \in OptionRecords /\ options \in Options
    BY HostAssumption DEF HostInv
  <1>2. PICK s : s = CleanUp(options)
    OBVIOUS
  <1>3. PICK F : s \in Tidy(options, F)
    BY <1>1, <1>2, CleanUpTidy
  <1>4. /\ s \in Seq(Releases(options))
        /\ \A x \in 1..Len(s), y \in 1..Len(s) : x < y => Before(s[x].field, s[y].field)
    BY <1>3 DEF Tidy
  <1>5. CleanUps[options] = s
    BY <1>1, <1>2 DEF CleanUps
  <1>6. at \in 1..Len(s) /\ release = s[at]
    BY <1>4, <1>5 DEF HostInv, Cleaning, release
  <1>7. \A y \in 1..Len(s) : s[y] \in Releases(options)
    BY <1>4
  <1>8. \A y \in 1..Len(s) : s[y].field \in ReleaseFields(options)
    BY <1>7 DEF Releases
  <1> QED
    BY <1>1, <1>2, <1>4, <1>6, <1>7, <1>8

\* When the next release is due, its field owns what it points to, which exists, and
\* nothing is built on it but what is kept.
LEMMA DueIsSafe ==
    ASSUME HostInv, ReleaseInv, Cleaning, NEW f, f = release.field
    PROVE  /\ \A u \in Users(f) : Kept(u)
           /\ Due => ptr[f] = f /\ f \in live
  <1>1. PICK o, s : o = options /\ s = CleanUp(options)
    OBVIOUS
  <1>2. /\ at \in 1..Len(s) /\ f = s[at].field /\ release \in Releases(o) /\ f \in ReleaseFields(o)
        /\ \A y \in 1..Len(s) : s[y].field \in ReleaseFields(o)
        /\ \A x \in 1..Len(s), y \in 1..Len(s) : x < y => Before(s[x].field, s[y].field)
    BY <1>1, ReleaseInRange
  <1>3. /\ \A r \in live : Kept(r) \/ \E y \in at..Len(s) : s[y].field = r
        /\ \A g \in DOMAIN ptr : g \in MadeFields(o) =>
              g \in live \/ \E y \in 1..(at - 1) : y <= Len(s) /\ s[y].field = g
    BY <1>1 DEF ReleaseInv, Cleaning
  <1>4. ASSUME NEW u \in live, f \in BuiltOn(u) PROVE Kept(u)
    <2> SUFFICES ASSUME NEW y \in at..Len(s), s[y].field = u PROVE FALSE
      BY <1>3
    <2>1. y \in 1..Len(s) /\ (at = y \/ at < y)
      BY <1>2
    <2>2. u \in ReleaseFields(o)
      BY <1>2, <2>1
    <2>3. Place(Name(u)) < Place(Name(f)) /\ ~Apart(f, u)
      BY <1>2, <1>4, <2>2, BuiltOnLater
    <2>4. f # u
      BY <2>3, PlaceRanges
    <2>5. at < y
      BY <1>2, <2>1, <2>4
    <2>6. Before(f, u)
      BY <1>2, <2>1, <2>5
    <2> QED
      BY <1>2, <1>4, <2>2, <2>6, BeforeFacts
  <1>5. ASSUME Due PROVE ptr[f] = f /\ f \in live
    <2>1. f \in DOMAIN ptr /\ \A g \in release.unless : g \notin DOMAIN ptr
      BY <1>5 DEF Due, IsSet
    <2>2. Marked(o, DOMAIN ptr, live) /\ \A g \in DOMAIN ptr : g \in MadeFields(o) => ptr[g] = g
      BY <1>1 DEF ReleaseInv, OwnPointers, Present
    <2>3. f \in DataFields(o)
      <3>1. Name(f) \notin FlagNames
        BY <1>2, ReleaseKinds DEF FlagNames, AppFlags, QueueFlags, RuleFlags, MatcherNames, PerQueue,
                                  SqNames, RqNames, RuleNames
      <3>2. f \notin UsedFlags(o)
        BY <3>1, FlagsNamed DEF UsedFlags
      <3> QED
        BY <2>1, <2>2, <3>2 DEF Marked
    <2>4. f \notin PointedFields(o)
      <3>1. Name(f) \notin HostBuffers
        BY <1>2, ReleaseKinds DEF HostBuffers, MatcherNames, PerQueue, SqNames, RqNames, RuleNames
      <3>2. f \in PointedFields(o) => Guard(o, f) \in release.unless
        BY <1>2 DEF Releases, Fit
      <3> QED
        BY <2>1, <2>2, <3>1, <3>2 DEF Marked
    <2>5. f \in MadeFields(o)
      BY <2>3, <2>4, FieldUses
    <2>6. ASSUME NEW y \in 1..(at - 1), y <= Len(s), s[y].field = f PROVE FALSE
      <3>1. y \in 1..Len(s) /\ y < at
        BY <1>2, <2>6
      <3>2. Before(f, f)
        BY <1>2, <2>6, <3>1
      <3> QED
        BY <1>2, <3>2, BeforeFacts
    <2> QED
      BY <1>3, <2>1, <2>2, <2>5, <2>6
  <1> QED
    BY <1>4, <1>5 DEF Users

\* What is kept is built on nothing that the clean-up could release, but for the device.
LEMMA KeptUsers ==
    ASSUME NEW o, NEW u \in DataFields(o), Kept(u), NEW f \in ReleaseFields(o), f \in BuiltOn(u),
           Name(f) # "ibv_ctx"
    PROVE  Kept(f)
  <1>1. \A n : Name(App(n)) = n
    BY DEF App, Name
  <1>2. \A c, n : Name(Of(c, n)) = n
    BY DEF Of, Name
  <1>3. Name(f) \notin {"process_pd", "host_alloc_base"}
    BY ReleaseKinds DEF MatcherNames, PerQueue, SqNames, RqNames, RuleNames
  <1>4. CASE Name(u) = "process_pd"
    <2>1. f = App("ibv_ctx")
      BY <1>4 DEF BuiltOn, QueueParts
    <2> QED
      BY <1>1, <2>1
  <1>5. CASE Name(u) = "mr"
    <2>1. f = App("process_pd") \/ f = Of(Owner(u), "host_alloc_base")
      BY <1>5 DEF BuiltOn, QueueParts
    <2> QED
      BY <1>1, <1>2, <1>3, <2>1
  <1>6. CASE Name(u) = "host_alloc_base"
    BY <1>6 DEF BuiltOn, QueueParts
  <1>7. ASSUME u[1] \in {"rx", "tx"} PROVE f[1] = u[1]
    <2>1. Name(u) \in MatcherNames
      BY <1>7 DEF DataFields, App, Matcher, Of, OfQueue, Name, ContextsOf, SchContexts, ThdContexts
    <2>2. \A d, n : Matcher(d, n)[1] = d
      BY DEF Matcher
    <2>3. f = App("ibv_ctx") \/ \E n \in MatcherNames : f = Matcher(u[1], n)
      BY <2>1 DEF BuiltOn, QueueParts, MatcherNames
    <2> QED
      BY <1>1, <2>2, <2>3
  <1>8. CASE u[1] = "rx" /\ ~IsSet(App("rx_matcher"))
    BY <1>7, <1>8 DEF Kept
  <1>9. CASE u[1] = "tx" /\ ~IsSet(App("tx_matcher"))
    BY <1>7, <1>9 DEF Kept
  <1> QED
    BY <1>4, <1>5, <1>6, <1>8, <1>9 DEF Kept

\* What exists when its turn comes and is not kept is released.
LEMMA TurnComes ==
    ASSUME HostInv, ReleaseInv, Release, NEW f, f = release.field, f \in live
    PROVE  Kept(f) \/ f \notin live'
  <1> SUFFICES ASSUME ~Kept(f) PROVE f \notin live'
    OBVIOUS
  <1>0. Cleaning
    BY DEF Release
  <1>1. PICK o, s : o = options /\ s = CleanUp(options)
    OBVIOUS
  <1>2. /\ at \in 1..Len(s) /\ f = s[at].field /\ release \in Releases(o) /\ f \in ReleaseFields(o)
        /\ \A y \in 1..Len(s) : s[y].field \in ReleaseFields(o)
        /\ \A x \in 1..Len(s), y \in 1..Len(s) : x < y => Before(s[x].field, s[y].field)
    BY <1>0, <1>1, ReleaseInRange
  <1>3. \A r \in live : Kept(r) \/ \E y \in at..Len(s) : s[y].field = r
    BY <1>0, <1>1 DEF ReleaseInv, Cleaning
  <1>4. /\ Marked(o, DOMAIN ptr, live) /\ live \subseteq DOMAIN ptr
        /\ \A g \in DOMAIN ptr : g \in MadeFields(o) => ptr[g] = g
    BY <1>1 DEF ReleaseInv, OwnPointers, Present, HostInv, InBounds
  <1>5. f \in MadeFields(o) /\ f \in DOMAIN ptr
    BY <1>4 DEF Marked
  <1>6. Fit(o, release)
    BY <1>2 DEF Releases
  <1>7. release.via \in DOMAIN ptr
    <2>1. \/ release.via = f
          \/ Name(f) \in RuleNames /\ release.via = RuleFlag(f)
          \/ f[1] = "rx" /\ release.via = App("rx_matcher")
          \/ f[1] = "tx" /\ release.via = App("tx_matcher")
      BY <1>6 DEF Fit
    <2>2. Name(f) \in RuleNames => RuleFlag(f) \in DOMAIN ptr
      BY <1>4 DEF Marked
    <2>3. /\ f[1] = "rx" => App("rx_matcher") \in DOMAIN ptr
          /\ f[1] = "tx" => App("tx_matcher") \in DOMAIN ptr
      BY DEF Kept, IsSet
    <2> QED
      BY <1>5, <2>1, <2>2, <2>3
  <1>8. ASSUME NEW g \in release.unless PROVE g \notin DOMAIN ptr
    <2>1. Name(g) \in FlagNames /\ Name(g) \notin UsedFlagNames(o)
      BY <1>5, <1>6 DEF Fit
    <2>2. g \notin DataFields(o)
      BY <2>1, DataNames
    <2>3. g \notin UsedFlags(o)
      BY <2>1 DEF UsedFlags
    <2> QED
      BY <1>4, <2>2, <2>3 DEF Marked
  <1>9. ASSUME NEW h \in release.after, h \in live PROVE FALSE
    <2>1. /\ Owner(h) = Owner(f) /\ h[3] = f[3]
          /\ 0 < Place(Name(h)) /\ Place(Name(h)) < Place(Name(f))
      BY <1>6 DEF Fit
    <2>2. ~Kept(h)
      <3>1. Name(h) \notin {"process_pd", "mr", "host_alloc_base"}
        BY <2>1 DEF Place
      <3>2. h[1] = f[1]
        BY <2>1 DEF Owner
      <3> QED
        BY <3>1, <3>2 DEF Kept
    <2>3. PICK y \in at..Len(s) : s[y].field = h
      BY <1>3, <1>9, <2>2
    <2>4. f # h
      BY <2>1, PlaceRanges
    <2>5. y \in 1..Len(s) /\ at < y
      BY <1>2, <2>3, <2>4
    <2>6. Before(f, h)
      BY <1>2, <2>3, <2>5
    <2>7. ~(Place(Name(f)) < Place(Name(h)))
      BY <2>1, PlaceRanges
    <2>8. ~Apart(f, h)
      BY <2>1 DEF Apart
    <2> QED
      BY <2>6, <2>7, <2>8 DEF Before
  <1>10. Due
    <2>1. release.after \cap live = {}
      BY <1>9
    <2> QED
      BY <1>5, <1>7, <1>8, <2>1 DEF Due, IsSet
  <1>11. ptr[release.field] = f
    BY <1>4, <1>5
  <1>12. ~Refused(f)
    <2> SUFFICES ASSUME Name(f) # "ibv_ctx", NEW u \in Users(f) PROVE FALSE
      BY DEF Refused
    <2>1. Kept(u)
      BY <1>0, DueIsSafe
    <2>2. u \in live /\ f \in BuiltOn(u)
      BY DEF Users
    <2>3. u \in DataFields(o)
      BY <1>4, <2>2, FieldUses DEF Marked
    <2> QED
      BY <1>2, <2>1, <2>2, <2>3, KeptUsers
  <1>13. live' = live \ {f}
    BY <1>10, <1>11, <1>12 DEF Release
  <1> QED
    BY <1>13

\* A release keeps the invariant.
LEMMA ReleaseInvRelease ==
    ASSUME HostInv, ReleaseInv, Release
    PROVE  ReleaseInv'
  <1>0. Cleaning /\ phase = "clean" /\ phase' = "clean" /\ options' = options /\ ptr' = ptr /\ at' = at + 1 /\ live' \subseteq live
    BY DEF Release, Cleaning
  <1>1. PICK o, s, f : o = options /\ s = CleanUp(options) /\ f = release.field
    OBVIOUS
  <1>2. at \in 1..Len(s) /\ f = s[at].field
    BY <1>0, <1>1, ReleaseInRange
  <1>3. /\ \A r \in live : Kept(r) \/ \E y \in at..Len(s) : s[y].field = r
        /\ \A g \in DOMAIN ptr : g \in MadeFields(o) =>
              g \in live \/ \E y \in 1..(at - 1) : y <= Len(s) /\ s[y].field = g
    BY <1>0, <1>1 DEF ReleaseInv
  <1>4. \A r : Kept(r)' <=> Kept(r)
    BY <1>0 DEF Kept, IsSet
  <1>5. ASSUME NEW r \in live' PROVE Kept(r) \/ \E y \in (at + 1)..Len(s) : s[y].field = r
    <2>1. r \in live
      BY <1>0, <1>5
    <2>2. ASSUME NEW y \in at..Len(s), s[y].field = r PROVE Kept(r) \/ \E z \in (at + 1)..Len(s) : s[z].field = r
      <3>1. CASE y = at
        <4>1. r = f
          BY <1>2, <2>2, <3>1
        <4> QED
          BY <1>1, <1>5, <2>1, <4>1, TurnComes
      <3>2. CASE y # at
        <4>1. y \in (at + 1)..Len(s)
          BY <1>2, <3>2
        <4> QED
          BY <2>2, <4>1
      <3> QED
        BY <3>1, <3>2
    <2> QED
      BY <1>3, <2>1, <2>2
  <1>6. \A g \in live : g \in live' \/ g = f
    <2>1. Due => ptr[f] = f
      BY <1>0, <1>1, DueIsSafe
    <2>2. live' = live \/ (Due /\ live' = live \ {ptr[f]})
      BY <1>1 DEF Release
    <2> QED
      BY <2>1, <2>2
  <1>7. ASSUME NEW g \in DOMAIN ptr, g \in MadeFields(o)
        PROVE  g \in live' \/ \E y \in 1..((at + 1) - 1) : y <= Len(s) /\ s[y].field = g
    <2>1. at \in 1..((at + 1) - 1) /\ at <= Len(s) /\ \A y \in 1..(at - 1) : y \in 1..((at + 1) - 1)
      BY <1>2
    <2> QED
      BY <1>2, <1>3, <1>6, <1>7, <2>1
  <1>8. OwnPointers(options, Present)'
    <2>1. \A g \in DOMAIN ptr : g \in MadeFields(o) => ptr[g] = g
      BY <1>1 DEF ReleaseInv, OwnPointers, Present
    <2> QED
      BY <1>0, <1>1, <2>1 DEF OwnPointers, Present
  <1>9. Marked(options', DOMAIN ptr', live')
    BY <1>0 DEF ReleaseInv, Marked
  <1> QED
    BY <1>0, <1>1, <1>4, <1>5, <1>7, <1>8, <1>9 DEF ReleaseInv

\* When the clean-up begins, all that exists is kept or will have its turn, and every
\* field that owns a resource points to one that exists.
LEMMA CleanUpBegins ==
    ASSUME NEW o \in OptionRecords, NEW lv, NEW p, lv \subseteq MadeFields(o),
           \A f \in DOMAIN p : f \in DataFields(o) => p[f] \in lv,
           \A f \in DOMAIN p : f \in MadeFields(o) => p[f] = f
    PROVE  /\ \A r \in lv : \/ Name(r) \in {"process_pd", "mr", "host_alloc_base"}
                            \/ \E y \in 1..Len(CleanUp(o)) : CleanUp(o)[y].field = r
           /\ \A f \in DOMAIN p : f \in MadeFields(o) => f \in lv
  <1>1. PICK F : CleanUp(o) \in Tidy(o, F) /\ ToRelease(o) \subseteq F
    BY CleanUpTidy
  <1>2. \A f \in F : \E y \in 1..Len(CleanUp(o)) : CleanUp(o)[y].field = f
    BY <1>1 DEF Tidy
  <1>3. \A r \in lv : Name(r) \in {"process_pd", "mr", "host_alloc_base"} \/ r \in F
    BY <1>1 DEF ToRelease
  <1>4. \A f \in DOMAIN p : f \in MadeFields(o) => f \in lv
    <2>1. \A f \in MadeFields(o) : f \in DataFields(o)
      BY FieldUses
    <2> QED
      BY <2>1
  <1> QED
    BY <1>2, <1>3, <1>4

\* So the invariant holds there.
LEMMA ReleaseInvBegins ==
    ASSUME HostInv, ReleaseInv, KeyPressed \/ FailWithError \/ FailSilently
    PROVE  ReleaseInv'
  <1>1. phase' = "clean" /\ at' = 1 /\ options' = options
    BY DEF KeyPressed, FailWithError, FailSilently
  <1>2. PICK o \in OptionRecords : o = options
    BY HostAssumption DEF HostInv
  <1>3. /\ InBounds(o, [live |-> live', ptr |-> ptr', running |-> running'])
        /\ PointsToLive(o, [live |-> live', ptr |-> ptr', running |-> running'])
        /\ \A f \in DOMAIN ptr' : f \in MadeFields(o) => ptr'[f] = f
        /\ Marked(o, DOMAIN ptr', live')
    <2>1. CASE KeyPressed
      <3>1. live' = live /\ ptr' = ptr /\ running' = running /\ phase = "build"
        BY <2>1 DEF KeyPressed
      <3>2. InBounds(o, Present) /\ PointsToLive(o, Present)
        BY <1>2, <3>1 DEF HostInv
      <3>3. OwnPointers(o, Present) /\ Marked(o, DOMAIN ptr, live)
        BY <1>2 DEF ReleaseInv
      <3> QED
        BY <3>1, <3>2, <3>3 DEF Present, OwnPointers
    <2>2. CASE FailWithError \/ FailSilently
      <3>1. Building /\ \E k \in DOMAIN call.steps : FailAt(k)
        BY <2>2 DEF FailWithError, FailSilently
      <3>2. /\ InBounds(o, [live |-> live', ptr |-> ptr', running |-> running'])
            /\ PointsToLive(o, [live |-> live', ptr |-> ptr', running |-> running'])
        BY <1>2, <3>1, FailAtInBounds
      <3>3. /\ \A f \in DOMAIN ptr' : f \in MadeFields(o) => ptr'[f] = f
            /\ Marked(o, DOMAIN ptr', live')
        BY <1>2, <3>1, BecomeMarked
      <3> QED
        BY <3>2, <3>3
    <2> QED
      BY <2>1, <2>2
  <1>4. PICK s : s = CleanUp(o)
    OBVIOUS
  <1>5. live' \subseteq MadeFields(o)
    BY <1>3 DEF Marked
  <1>6. \A f \in DOMAIN ptr' : f \in DataFields(o) => ptr'[f] \in live'
    BY <1>3 DEF PointsToLive
  <1>7. /\ \A r \in live' : \/ Name(r) \in {"process_pd", "mr", "host_alloc_base"}
                            \/ \E y \in 1..Len(s) : s[y].field = r
        /\ \A f \in DOMAIN ptr' : f \in MadeFields(o) => f \in live'
    BY <1>3, <1>4, <1>5, <1>6, CleanUpBegins
  <1>8. \A r : Name(r) \in {"process_pd", "mr", "host_alloc_base"} => Kept(r)'
    BY DEF Kept
  <1>9. OwnPointers(options, Present)'
    BY <1>1, <1>2, <1>3 DEF OwnPointers, Present
  <1> QED
    BY <1>1, <1>2, <1>3, <1>4, <1>7, <1>8, <1>9 DEF ReleaseInv

\* Every step keeps the invariant.
LEMMA ReleaseInvStep ==
    ASSUME HostInv, ReleaseInv, [Next]_vars
    PROVE  ReleaseInv'
  <1>0. OwnPointers(options, Present) /\ Marked(options, DOMAIN ptr, live)
    BY DEF ReleaseInv
  <1>1. CASE KeyPressed \/ FailWithError \/ FailSilently
    BY <1>1, ReleaseInvBegins
  <1>2. CASE Release
    BY <1>2, ReleaseInvRelease
  <1>3. CASE CallSucceeds \/ FailIgnored
    <2>1. Building /\ phase = "build" /\ phase' = "build" /\ options' = options /\ at' = at + 1 /\ at' # 1
      BY <1>3 DEF CallSucceeds, FailIgnored, Building, HostInv
    <2>2. CallSucceeds \/ \E k \in DOMAIN call.steps : FailAt(k)
      BY <1>3 DEF FailIgnored
    <2>3. /\ \A f \in DOMAIN ptr' : f \in MadeFields(options) => ptr'[f] = f
          /\ Marked(options, DOMAIN ptr', live')
      BY <2>1, <2>2, BecomeMarked
    <2>4. OwnPointers(options, Present)'
      BY <2>1, <2>3 DEF OwnPointers, Present
    <2> QED
      BY <2>1, <2>3, <2>4 DEF ReleaseInv
  <1>4. CASE FailAndQuit
    <2>1. Building /\ phase = "build" /\ phase' = "returned" /\ options' = options /\ call.onfail = "quit"
      BY <1>4 DEF FailAndQuit, Building
    <2>2. live' = live /\ ptr' = ptr
      BY <1>4, <2>1, QuietFailure DEF FailAndQuit
    <2>3. at = 1
      BY <2>1, CallInRange, QuietCalls
    <2>4. live = {}
      BY <2>1, <2>3 DEF ReleaseInv
    <2>5. OwnPointers(options, Present)'
      BY <1>0, <2>1, <2>2 DEF OwnPointers, Present
    <2> QED
      BY <1>0, <2>1, <2>2, <2>4, <2>5 DEF ReleaseInv
  <1>5. CASE Refuse \/ Accept \/ Crash \/ Return \/ UNCHANGED vars
    <2>1. live' = live /\ ptr' = ptr /\ options' = options /\ at' = at
      BY <1>5 DEF Refuse, Accept, Crash, Return, vars
    <2>2. OwnPointers(options, Present)' /\ Marked(options', DOMAIN ptr', live')
      BY <1>0, <2>1 DEF OwnPointers, Present
    <2>3. \A r : Kept(r)' <=> Kept(r)
      BY <2>1 DEF Kept, IsSet
    <2>4. CASE Refuse \/ Accept
      <3>1. phase' \in {"returned", "build"} /\ live' = {}
        BY <2>1, <2>4 DEF Refuse, Accept, HostInv
      <3> QED
        BY <2>2, <3>1 DEF ReleaseInv
    <2>5. CASE Crash
      <3>1. phase' = "crashed"
        BY <2>5 DEF Crash
      <3> QED
        BY <2>2, <3>1 DEF ReleaseInv
    <2>6. CASE Return
      <3>1. phase = "clean" /\ phase' = "returned" /\ at > Len(CleanUps[options])
        BY <2>6 DEF Return
      <3>2. PICK s : s = CleanUp(options)
        OBVIOUS
      <3>3. CleanUps[options] = s /\ Len(s) \in Nat /\ at \in Nat
        <4>1. options \in OptionRecords /\ options \in Options
          BY HostAssumption DEF HostInv
        <4>2. PICK F : s \in Tidy(options, F)
          BY <3>2, <4>1, CleanUpTidy
        <4>3. s \in Seq(Releases(options))
          BY <4>2 DEF Tidy
        <4> QED
          BY <3>2, <4>1, <4>3 DEF CleanUps, HostInv
      <3>4. \A y \in at..Len(s) : FALSE
        BY <3>1, <3>3
      <3>5. \A r \in live : Kept(r)
        BY <3>1, <3>2, <3>4 DEF ReleaseInv
      <3> QED
        BY <2>1, <2>2, <2>3, <3>1, <3>5 DEF ReleaseInv
    <2>7. CASE UNCHANGED vars
      <3>1. phase' = phase
        BY <2>7 DEF vars
      <3> QED
        BY <2>1, <2>2, <2>3, <3>1 DEF ReleaseInv
    <2> QED
      BY <1>5, <2>4, <2>5, <2>6, <2>7
  <1> QED
    BY <1>1, <1>2, <1>3, <1>4, <1>5 DEF Next

\* So it always holds.
LEMMA ReleaseInvariance == Spec => []ReleaseInv
  <1>1. Init => ReleaseInv
    <2> SUFFICES ASSUME Init PROVE ReleaseInv
      OBVIOUS
    <2>1. DOMAIN ptr = {} /\ live = {} /\ phase = "args"
      BY DEF Init
    <2>2. OwnPointers(options, Present) /\ Marked(options, DOMAIN ptr, live)
      BY <2>1 DEF OwnPointers, Marked, Present
    <2> QED
      BY <2>1, <2>2 DEF ReleaseInv
  <1>2. HostInv /\ ReleaseInv /\ [Next]_vars => ReleaseInv'
    BY ReleaseInvStep
  <1> QED
    BY <1>1, <1>2, HostInvariance, PTL DEF Spec

\* For every command line, and wherever the start-up failed, the clean-up releases only
\* what exists and nothing twice, hands no host memory to the device's allocator, and
\* releases nothing that another resource is still built on.
THEOREM CleanUpIsSafe == Spec => []ReleasesAreSafe
  <1>1. HostInv /\ ReleaseInv => ReleasesAreSafe
    <2> SUFFICES ASSUME HostInv, ReleaseInv, Cleaning, Due, NEW f, f = release.field
                 PROVE  /\ ptr[f] \in live
                        /\ Name(ptr[f]) # "host_alloc_base"
                        /\ \A u \in Users(ptr[f]) : Kept(u)
      BY DEF ReleasesAreSafe
    <2>1. ptr[f] = f /\ f \in live /\ \A u \in Users(f) : Kept(u)
      BY DueIsSafe
    <2>2. f \in ReleaseFields(options)
      BY ReleaseInRange
    <2>3. Name(f) # "host_alloc_base"
      BY <2>2, ReleaseKinds DEF MatcherNames, PerQueue, SqNames, RqNames, RuleNames
    <2> QED
      BY <2>1, <2>3
  <1> QED
    BY <1>1, HostInvariance, ReleaseInvariance, PTL

\* When main returns, nothing it created remains but the protection domain, the memory
\* regions with their memory, and the parts of a matcher that could not be completed.
THEOREM CleanUpIsComplete == Spec => []OnlyKeptRemain
  <1>1. ReleaseInv => OnlyKeptRemain
    BY DEF ReleaseInv, OnlyKeptRemain
  <1> QED
    BY <1>1, ReleaseInvariance, PTL
=============================================================================
