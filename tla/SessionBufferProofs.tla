-------------------------- MODULE SessionBufferProofs --------------------------
(***************************************************************************)
(* Facts about the operations of SessionBuffer, for any messages, weights  *)
(* and budget: what freezing keeps, and what it cuts.                      *)
(*                                                                         *)
(* The loops of the buffer are recursive functions on an interval.  That   *)
(* such a function exists, and what its values are, is shown by induction  *)
(* over sets of numbers (SetInduction), which rests on the well-founded    *)
(* order of Nat.                                                           *)
(***************************************************************************)
EXTENDS SessionBuffer, WellFoundedInduction, SequenceTheorems, TLAPS

\* A set of numbers with 0 and every successor has all of them.
LEMMA SetInduction ==
  ASSUME NEW S \in SUBSET Nat, 0 \in S, \A n \in S : n + 1 \in S
  PROVE  S = Nat
<1> SUFFICES ASSUME S # Nat PROVE FALSE
  OBVIOUS
<1> DEFINE R == {p \in Nat \X Nat : p[1] < p[2]}
           T == Nat \ S
<1>1. T \subseteq Nat /\ T # {}
  OBVIOUS
<1>2. IsWellFoundedOn(R, Nat)
  <2>1. OpToRel(<, Nat) = R
    BY DEF OpToRel
  <2> QED
    BY <2>1, NatLessThanWellFounded
<1> HIDE DEF R
<1>3. PICK x \in T : \A y \in T : ~(<<y, x>> \in R)
  <2> HIDE DEF T
  <2> QED  BY <1>1, <1>2, WFMin
<1>4. x \in Nat /\ x # 0 /\ x \notin S
  OBVIOUS
<1>5. x - 1 \in Nat /\ x - 1 < x
  BY <1>4
<1>6. x - 1 \in S
  BY <1>3, <1>4, <1>5 DEF R
<1>7. (x - 1) + 1 = x
  BY <1>4
<1> QED
  BY <1>4, <1>6, <1>7

\* Values made one from the other, x first, the k-th from the one before by G.
Steps(f, S, x, G, n) ==
  /\ f \in [0 .. n -> S]
  /\ f[0] = x
  /\ \A k \in 1 .. n : f[k] = G[<<k, f[k - 1]>>]

Iterates(S, x, G, n) == \E f : Steps(f, S, x, G, n)

LEMMA Iteration ==
  ASSUME NEW S, NEW x \in S, NEW G \in [Nat \X S -> S], NEW n \in Nat
  PROVE  Iterates(S, x, G, n)
<1> DEFINE T == {m \in Nat : Iterates(S, x, G, m)}
<1>1. Iterates(S, x, G, 0)
  <2> DEFINE h == [k \in 0 .. 0 |-> x]
  <2>1. h \in [0 .. 0 -> S] /\ h[0] = x /\ \A k \in 1 .. 0 : FALSE
    OBVIOUS
  <2> HIDE DEF h
  <2>2. Steps(h, S, x, G, 0)
    BY <2>1, Zenon DEF Steps
  <2> QED BY <2>2 DEF Iterates
<1>2. ASSUME NEW m \in Nat, Iterates(S, x, G, m)
      PROVE  Iterates(S, x, G, m + 1)
  <2>1. PICK f : Steps(f, S, x, G, m)
    BY <1>2 DEF Iterates
  <2> DEFINE h == [k \in 0 .. m + 1 |-> IF k = m + 1 THEN G[<<m + 1, f[m]>>] ELSE f[k]]
  <2>2. m \in 0 .. m /\ m + 1 \in Nat
    OBVIOUS
  <2>3. G[<<m + 1, f[m]>>] \in S
    <3>1. f[m] \in S  BY <2>1, <2>2 DEF Steps
    <3>2. <<m + 1, f[m]>> \in Nat \X S  BY <3>1, <2>2
    <3> QED BY <3>2
  <2>4. \A k \in 0 .. m + 1 : k = m + 1 \/ k \in 0 .. m
    OBVIOUS
  <2>5. h \in [0 .. m + 1 -> S]
    <3>1. \A k \in 0 .. m : f[k] \in S  BY <2>1 DEF Steps
    <3> QED BY <3>1, <2>3, <2>4
  <2>6. h[0] = x
    <3>1. 0 \in 0 .. m + 1 /\ 0 # m + 1  OBVIOUS
    <3> QED BY <3>1, <2>1 DEF Steps
  <2>7. ASSUME NEW k \in 1 .. m + 1
        PROVE  h[k] = G[<<k, h[k - 1]>>]
    <3>1. k - 1 \in 0 .. m /\ k - 1 \in 0 .. m + 1 /\ k - 1 # m + 1 /\ k \in 0 .. m + 1
      OBVIOUS
    <3>2. h[k - 1] = f[k - 1]
      BY <3>1
    <3>3. CASE k = m + 1
      <4>1. k - 1 = m  BY <3>3
      <4>2. h[k] = G[<<m + 1, f[m]>>]  BY <3>1, <3>3
      <4> HIDE DEF h
      <4> QED BY <4>1, <4>2, <3>2, <3>3
    <3>4. CASE k # m + 1
      <4>1. k \in 1 .. m  BY <3>4
      <4>2. h[k] = f[k]  BY <3>1, <3>4
      <4>3. f[k] = G[<<k, f[k - 1]>>]  BY <4>1, <2>1 DEF Steps
      <4> HIDE DEF h
      <4> QED BY <4>2, <4>3, <3>2
    <3> HIDE DEF h
    <3> QED BY <3>3, <3>4
  <2> HIDE DEF h
  <2>8. Steps(h, S, x, G, m + 1)
    BY <2>5, <2>6, <2>7 DEF Steps
  <2> QED BY <2>8 DEF Iterates
<1>3. T \in SUBSET Nat /\ 0 \in T /\ \A m \in T : m + 1 \in T
  BY <1>1, <1>2
<1> HIDE DEF T
<1>4. T = Nat
  BY <1>3, SetInduction
<1> QED
  BY <1>4 DEF T

\* A set of numbers within a bound has a largest one.
LEMMA MaxExists ==
  ASSUME NEW n \in Nat, NEW S \in SUBSET (0 .. n), S # {}
  PROVE  Max(S) \in S /\ \A k \in S : k <= Max(S)
<1> DEFINE Q == {m \in Nat : (\E k \in S : k >= n - m) => \E k \in S : \A l \in S : l <= k}
<1>1. 0 \in Q
  OBVIOUS
<1>2. ASSUME NEW m \in Q
      PROVE  m + 1 \in Q
  <2>1. m \in Nat /\ m + 1 \in Nat
    OBVIOUS
  <2>2. SUFFICES ASSUME NEW k \in S, k >= n - (m + 1)
                 PROVE  \E a \in S : \A l \in S : l <= a
    BY <2>1
  <2>3. CASE \E a \in S : a >= n - m
    BY <2>3
  <2>4. CASE \A a \in S : ~(a >= n - m)
    BY <2>1, <2>2, <2>4
  <2> QED BY <2>3, <2>4
<1>3. Q \in SUBSET Nat
  OBVIOUS
<1>4. Q = Nat
  <2> HIDE DEF Q
  <2> QED BY <1>1, <1>2, <1>3, SetInduction
<1>5. n \in Q
  BY <1>4
<1>6. \E a \in S : \A l \in S : l <= a
  <2>1. PICK a \in S : a \in 0 .. n
    OBVIOUS
  <2>2. a >= n - n
    BY <2>1
  <2> QED BY <1>5, <2>2
<1>7. \E a \in S : \A l \in S : a >= l
  BY <1>6
<1> QED
  BY <1>7 DEF Max

-------------------------------------------------------------------------------
(* Weights. *)

LEMMA TokensNat ==
  ASSUME NEW ms \in Seq(Msg)
  PROVE  Tokens(ms) \in Nat
<1> DEFINE Eqn(g) == g = [n \in 0 .. Len(ms) |-> IF n = 0 THEN 0 ELSE g[n - 1] + Weight[ms[n]]]
           G == [p \in Nat \X Nat |-> IF p[1] \in 1 .. Len(ms) THEN p[2] + Weight[ms[p[1]]] ELSE 0]
<1>1. Sums(ms) = CHOOSE g : Eqn(g)
  BY DEF Sums
<1>2. Len(ms) \in Nat
  OBVIOUS
<1>3. \A k \in 1 .. Len(ms) : Weight[ms[k]] \in Nat
  BY BufferAssumption
<1>4. \E g : Eqn(g)
  <2>1. G \in [Nat \X Nat -> Nat]
    <3> SUFFICES ASSUME NEW p \in Nat \X Nat
                 PROVE  (IF p[1] \in 1 .. Len(ms) THEN p[2] + Weight[ms[p[1]]] ELSE 0) \in Nat
      OBVIOUS
    <3>1. p[2] \in Nat /\ 0 \in Nat  OBVIOUS
    <3>2. \A a, b \in Nat : a + b \in Nat  OBVIOUS
    <3> QED BY <1>3, <3>1, <3>2, Zenon
  <2>2. 0 \in Nat
    OBVIOUS
  <2>3. PICK f : Steps(f, Nat, 0, G, Len(ms))
    <3> HIDE DEF G
    <3>1. Iterates(Nat, 0, G, Len(ms))
      BY <1>2, <2>1, <2>2, Iteration
    <3> QED BY <3>1 DEF Iterates
  <2>4. ASSUME NEW k \in 1 .. Len(ms)
        PROVE  f[k] = f[k - 1] + Weight[ms[k]]
    <3>1. k - 1 \in 0 .. Len(ms) /\ k \in Nat
      OBVIOUS
    <3>2. f[k - 1] \in Nat
      BY <2>3, <3>1 DEF Steps
    <3>3. <<k, f[k - 1]>> \in Nat \X Nat
      BY <3>1, <3>2
    <3>4. G[<<k, f[k - 1]>>] = f[k - 1] + Weight[ms[k]]
      BY <3>3
    <3> HIDE DEF G
    <3> QED BY <2>3, <3>4 DEF Steps
  <2>5. \A k \in 0 .. Len(ms) : k = 0 \/ k \in 1 .. Len(ms)
    OBVIOUS
  <2>6. f = [k \in DOMAIN f |-> f[k]] /\ DOMAIN f = 0 .. Len(ms) /\ f[0] = 0
    BY <2>3 DEF Steps
  <2>7. Eqn(f)
    <3> HIDE DEF G
    <3> QED BY <2>4, <2>5, <2>6
  <2> QED BY <2>7
<1>5. Eqn(Sums(ms))
  <2> HIDE DEF Eqn
  <2> QED BY <1>1, <1>4
<1> DEFINE T == {n \in Nat : n <= Len(ms) => Sums(ms)[n] \in Nat}
<1>6. 0 \in T
  BY <1>5
<1>7. ASSUME NEW n \in T
      PROVE  n + 1 \in T
  <2>1. SUFFICES ASSUME n + 1 <= Len(ms)
                 PROVE  Sums(ms)[n + 1] \in Nat
    OBVIOUS
  <2>2. n \in Nat /\ n + 1 \in 1 .. Len(ms) /\ n + 1 \in 0 .. Len(ms) /\ n + 1 # 0 /\ (n + 1) - 1 = n
    BY <1>2, <2>1
  <2>3. Sums(ms)[n] \in Nat
    BY <1>2, <2>1, <2>2
  <2>4. Sums(ms)[n + 1] = Sums(ms)[n] + Weight[ms[n + 1]]
    BY <1>5, <2>2
  <2>5. Weight[ms[n + 1]] \in Nat
    BY <1>3, <2>2
  <2> QED BY <2>3, <2>4, <2>5
<1>8. T = Nat
  <2>1. T \in SUBSET Nat
    OBVIOUS
  <2> HIDE DEF T
  <2> QED BY <1>6, <1>7, <2>1, SetInduction
<1> QED
  BY <1>2, <1>8 DEF Tokens

-------------------------------------------------------------------------------
(* One round of freezing. *)

\* FreezeMergeChunk leaves the buffer alone or cuts the unfrozen messages in two,
\* the first part within the bounds of a chunk.
Cut(b, n) ==
  [active  |-> SubSeq(b.active, n + 1, Len(b.active)),
   start   |-> b.start + n,
   pending |-> Append(b.pending, [start    |-> b.start,
                                  messages |-> SubSeq(b.active, 1, n)])]

LEMMA FreezeCuts ==
  ASSUME NEW b \in Buffer, NEW force \in BOOLEAN
  PROVE  \/ FreezeMergeChunk(b, force) = b /\ (force => b.active = <<>>)
         \/ \E n \in 1 .. Len(b.active) :
               /\ FreezeMergeChunk(b, force) = Cut(b, n)
               /\ Tokens(SubSeq(b.active, 1, n)) <= Budget \/ n = 1
<1>1. CASE b.active = <<>> \/ (~force /\ ~ShouldMerge(b))
  BY <1>1 DEF FreezeMergeChunk
<1>2. CASE ~(b.active = <<>> \/ (~force /\ ~ShouldMerge(b)))
  <2> DEFINE n == MergeChunkSize(b, force)
             ms == b.active
  <2>1. ms \in Seq(Msg) /\ ms # <<>>
    BY <1>2 DEF Buffer
  <2>2. Len(ms) \in Nat /\ Len(ms) # 0 /\ DOMAIN ms = 1 .. Len(ms)
    BY <2>1
  <2>3. FreezeMergeChunk(b, force) = Cut(b, n)
    BY <1>2 DEF FreezeMergeChunk, Cut
  <2>4. n \in 1 .. Len(ms) /\ (Tokens(SubSeq(ms, 1, n)) <= Budget \/ n = 1)
    <3>1. CASE force /\ ~ShouldMerge(b)
      <4>1. n = Len(ms)
        BY <3>1 DEF MergeChunkSize
      <4>2. SubSeq(ms, 1, Len(ms)) = ms
        BY <2>1
      <4>3. ~(Tokens(ms) >= Budget)
        BY <3>1 DEF ShouldMerge
      <4>4. Tokens(ms) \in Nat /\ Budget \in Nat
        BY <2>1, TokensNat, BufferAssumption
      <4>5. Tokens(ms) <= Budget
        <5> DEFINE tk == Tokens(ms)
        <5> HIDE DEF tk
        <5> QED BY <4>3, <4>4 DEF tk
      <4> HIDE DEF n
      <4>6. n \in 1 .. Len(ms)
        BY <2>2, <4>1
      <4>7. SubSeq(ms, 1, n) = ms
        BY <4>1, <4>2
      <4> QED BY <4>5, <4>6, <4>7, Zenon
    <3>2. CASE ~(force /\ ~ShouldMerge(b))
      <4> DEFINE fits == {k \in DOMAIN ms : Tokens(SubSeq(ms, 1, k)) <= Budget}
                 S == {1} \cup fits
      <4>1. n = Max(S)
        BY <3>2 DEF MergeChunkSize
      <4>2. S \in SUBSET (0 .. Len(ms)) /\ S # {}
        <5>1. 1 \in 0 .. Len(ms)  BY <2>2
        <5>2. fits \subseteq 1 .. Len(ms)  BY <2>2
        <5>3. 1 .. Len(ms) \subseteq 0 .. Len(ms)  BY <2>2
        <5> HIDE DEF fits
        <5> QED BY <5>1, <5>2, <5>3
      <4>3. n \in S
        <5> HIDE DEF S, n
        <5> QED BY <2>2, <4>1, <4>2, MaxExists
      <4>4. 1 \in 1 .. Len(ms)
        BY <2>2
      <4> HIDE DEF n
      <4> QED BY <2>2, <4>3, <4>4
    <3> QED BY <3>1, <3>2
  <2> HIDE DEF n
  <2> QED BY <2>3, <2>4
<1> QED
  BY <1>1, <1>2

LEMMA CutParts ==
  ASSUME NEW b \in Buffer, NEW n \in 1 .. Len(b.active)
  PROVE  /\ Cut(b, n) \in Buffer
         /\ Len(Cut(b, n).active) = Len(b.active) - n
         /\ NextMsgIndex(Cut(b, n)) = NextMsgIndex(b)
         /\ SubSeq(b.active, 1, n) \in Seq(Msg)
         /\ Len(SubSeq(b.active, 1, n)) = n
         /\ Len(SubSeq(b.active, n + 1, Len(b.active))) = Len(b.active) - n
         /\ \A k \in 1 .. n : SubSeq(b.active, 1, n)[k] = b.active[k]
         /\ \A k \in 1 .. Len(b.active) - n :
               SubSeq(b.active, n + 1, Len(b.active))[k] = b.active[n + k]
<1> DEFINE ms == b.active
           L == Len(ms)
           p == SubSeq(ms, 1, n)
           q == SubSeq(ms, n + 1, L)
<1>1. ms \in Seq(Msg) /\ b.start \in Nat /\ b.pending \in Seq(Chunk)
  BY DEF Buffer
<1>2. L \in Nat /\ n \in Nat /\ n >= 1 /\ n <= L
  BY <1>1
<1>3. p \in Seq(Msg) /\ Len(p) = n /\ \A k \in 1 .. n : p[k] = ms[k]
  BY <1>1, <1>2, SubSeqProperties
<1>4. q \in Seq(Msg) /\ Len(q) = L - n /\ \A k \in 1 .. L - n : q[k] = ms[n + k]
  <2>1. \A i \in n + 1 .. L : ms[i] \in Msg
    BY <1>1, <1>2
  <2>2. q \in Seq(Msg)
    BY <1>1, <1>2
  <2>3. Len(q) = L - n
    BY <1>1, <1>2
  <2>4. \A k \in 1 .. L - n : q[k] = ms[n + k]
    BY <1>1, <1>2
  <2> QED BY <2>2, <2>3, <2>4
<1>5. [start |-> b.start, messages |-> p] \in Chunk
  <2> HIDE DEF p
  <2> QED BY <1>1, <1>3 DEF Chunk
<1>6. b.start + n \in Nat
  BY <1>1, <1>2
<1>7. /\ Cut(b, n).active = q
      /\ Cut(b, n).start = b.start + n
      /\ Cut(b, n).pending = Append(b.pending, [start |-> b.start, messages |-> p])
  BY DEF Cut
<1>8. Append(b.pending, [start |-> b.start, messages |-> p]) \in Seq(Chunk)
  <2> HIDE DEF p
  <2> QED BY <1>1, <1>5
<1>9. Cut(b, n) \in Buffer
  <2> HIDE DEF p, q
  <2> QED BY <1>4, <1>6, <1>8 DEF Cut, Buffer, p, q
<1>10. NextMsgIndex(Cut(b, n)) = NextMsgIndex(b)
  <2>1. \A s \in Nat : (s + n) + (L - n) = s + L
    <3> HIDE DEF L
    <3> QED BY <1>2
  <2>2. NextMsgIndex(Cut(b, n)) = (b.start + n) + (L - n)
    BY <1>4, <1>7 DEF NextMsgIndex
  <2>3. NextMsgIndex(b) = b.start + L
    BY DEF NextMsgIndex
  <2> HIDE DEF L
  <2> QED BY <1>1, <2>1, <2>2, <2>3
<1> HIDE DEF p, q
<1> QED
  BY <1>3, <1>4, <1>7, <1>9, <1>10 DEF p, q

\* The runs of a buffer: its pending chunks, and one more.
LEMMA RunsOf ==
  ASSUME NEW b \in Buffer
  PROVE  /\ Len(b.pending) \in Nat
         /\ Runs(b) \in Seq(Chunk)
         /\ DOMAIN Runs(b) = 1 .. Len(b.pending) + 1
         /\ \A i \in 1 .. Len(b.pending) : Runs(b)[i] = b.pending[i]
         /\ Runs(b)[Len(b.pending) + 1] = Remainder(b)
<1>1. b.pending \in Seq(Chunk) /\ Remainder(b) \in Chunk
  BY DEF Buffer, Remainder, Chunk
<1> QED
  BY <1>1, AppendProperties DEF Runs

\* The runs of Cut(b, n) have the messages of those of b, each where it was or, if
\* the cut is before it, in the new last run.
Moved(b, n, i) == IF i = Len(b.pending) + 2 THEN Len(b.pending) + 1 ELSE i

Offset(b, n, i) == IF i = Len(b.pending) + 2 THEN n ELSE 0

LEMMA CutRuns ==
  ASSUME NEW b \in Buffer, NEW n \in 1 .. Len(b.active)
  PROVE  LET runs == Runs(b)
             cuts == Runs(Cut(b, n))
         IN  /\ DOMAIN cuts = 1 .. Len(b.pending) + 2
             /\ \A i \in DOMAIN cuts :
                   /\ Moved(b, n, i) \in DOMAIN runs
                   /\ cuts[i].start = runs[Moved(b, n, i)].start + Offset(b, n, i)
                   /\ \A k \in DOMAIN cuts[i].messages :
                         /\ k + Offset(b, n, i) \in DOMAIN runs[Moved(b, n, i)].messages
                         /\ cuts[i].messages[k]
                              = runs[Moved(b, n, i)].messages[k + Offset(b, n, i)]
             /\ \A i, j \in DOMAIN cuts :
                   \A k \in DOMAIN cuts[i].messages, l \in DOMAIN cuts[j].messages :
                      /\ Moved(b, n, i) = Moved(b, n, j)
                      /\ k + Offset(b, n, i) = l + Offset(b, n, j)
                      => i = j /\ k = l
             /\ \A i \in DOMAIN runs : \A k \in DOMAIN runs[i].messages :
                   \E j \in DOMAIN cuts : \E l \in DOMAIN cuts[j].messages :
                      cuts[j].messages[l] = runs[i].messages[k]
<1> DEFINE runs == Runs(b)
           cuts == Runs(Cut(b, n))
           P == Len(b.pending)
           L == Len(b.active)
           first == [start |-> b.start, messages |-> SubSeq(b.active, 1, n)]
           last == [start |-> b.start + n, messages |-> SubSeq(b.active, n + 1, L)]
<1>1. /\ P \in Nat /\ DOMAIN runs = 1 .. P + 1
      /\ \A i \in 1 .. P : runs[i] = b.pending[i]
      /\ runs[P + 1] = Remainder(b)
  BY RunsOf
<1>2. b.pending \in Seq(Chunk) /\ b.start \in Nat /\ b.active \in Seq(Msg)
  BY DEF Buffer
<1>3. L \in Nat /\ n \in Nat /\ n >= 1 /\ n <= L /\ L - n \in Nat
  BY <1>2
<1>4. /\ Cut(b, n) \in Buffer
      /\ Cut(b, n).pending = Append(b.pending, first)
      /\ Remainder(Cut(b, n)) = last
  BY CutParts DEF Cut, Remainder
<1>5. first \in Chunk
  BY <1>2, CutParts DEF Chunk
<1>6. /\ Len(Cut(b, n).pending) = P + 1
      /\ \A i \in 1 .. P : Cut(b, n).pending[i] = b.pending[i]
      /\ Cut(b, n).pending[P + 1] = first
  <2> HIDE DEF first
  <2> QED BY <1>2, <1>4, <1>5, AppendProperties
<1>7. /\ DOMAIN cuts = 1 .. (P + 1) + 1
      /\ \A i \in 1 .. P + 1 : cuts[i] = Cut(b, n).pending[i]
      /\ cuts[(P + 1) + 1] = last
  <2> HIDE DEF last
  <2> QED BY <1>4, <1>6, RunsOf
<1>8. /\ (P + 1) + 1 = P + 2 /\ P + 1 # P + 2 /\ P + 1 \in 1 .. P + 1
      /\ \A i \in 1 .. P : i \in 1 .. P + 1 /\ i # P + 1 /\ i # P + 2
      /\ \A i \in 1 .. P + 1 : i \in 1 .. P \/ i = P + 1
      /\ \A i \in 1 .. P + 2 : i \in 1 .. P \/ i = P + 1 \/ i = P + 2
      /\ P + 1 \in 1 .. P + 2 /\ P + 2 \in 1 .. P + 2
      /\ \A i \in 1 .. P : i \in 1 .. P + 2
  <2> HIDE DEF P
  <2> QED BY <1>1
<1>9. /\ DOMAIN cuts = 1 .. P + 2
      /\ \A i \in 1 .. P : cuts[i] = runs[i]
      /\ cuts[P + 1] = first /\ cuts[P + 2] = last
  <2> HIDE DEF cuts, runs, first, last, P
  <2> QED BY <1>1, <1>6, <1>7, <1>8
<1>10. /\ first.start = b.start /\ DOMAIN first.messages = 1 .. n
       /\ \A k \in 1 .. n : first.messages[k] = b.active[k]
       /\ last.start = b.start + n /\ DOMAIN last.messages = 1 .. L - n
       /\ \A k \in 1 .. L - n : last.messages[k] = b.active[n + k]
  <2>1. first.messages = SubSeq(b.active, 1, n) /\ last.messages = SubSeq(b.active, n + 1, L)
    OBVIOUS
  <2>2. last.messages \in Seq(Msg)
    BY <1>4, CutParts DEF Cut, Buffer
  <2> QED BY <1>3, <2>1, <2>2, CutParts
<1>11. /\ runs[P + 1].start = b.start /\ runs[P + 1].messages = b.active
       /\ DOMAIN b.active = 1 .. L
  BY <1>1, <1>2 DEF Remainder
<1>12. \A i \in 1 .. P : /\ runs[i].start \in Nat
                         /\ DOMAIN runs[i].messages \subseteq Nat
  <2> SUFFICES ASSUME NEW i \in 1 .. P
               PROVE  runs[i].start \in Nat /\ DOMAIN runs[i].messages \subseteq Nat
    OBVIOUS
  <2>1. b.pending[i] \in Chunk
    BY <1>2
  <2>2. b.pending[i].start \in Nat /\ b.pending[i].messages \in Seq(Msg)
    BY <2>1 DEF Chunk
  <2>3. DOMAIN b.pending[i].messages \subseteq Nat
    BY <2>2
  <2>4. runs[i] = b.pending[i]
    BY <1>1
  <2> HIDE DEF runs, P
  <2> QED BY <2>2, <2>3, <2>4
<1>13. /\ \A i \in 1 .. P + 1 : Moved(b, n, i) = i /\ Offset(b, n, i) = 0
       /\ Moved(b, n, P + 2) = P + 1 /\ Offset(b, n, P + 2) = n
  BY <1>8 DEF Moved, Offset
<1> HIDE DEF cuts, runs, first, last, P, L
<1>14. \A k \in 1 .. n : k \in 1 .. L /\ k + 0 = k
  BY <1>3
<1>15. \A k \in 1 .. L - n : k + n \in 1 .. L /\ k + n = n + k /\ k + n # n
  BY <1>3
<1>16. \A k \in Nat : k + 0 = k
  OBVIOUS
<1>17. ASSUME NEW i \in DOMAIN cuts
       PROVE  /\ Moved(b, n, i) \in DOMAIN runs
              /\ cuts[i].start = runs[Moved(b, n, i)].start + Offset(b, n, i)
              /\ \A k \in DOMAIN cuts[i].messages :
                    /\ k + Offset(b, n, i) \in DOMAIN runs[Moved(b, n, i)].messages
                    /\ cuts[i].messages[k] = runs[Moved(b, n, i)].messages[k + Offset(b, n, i)]
  <2>1. CASE i \in 1 .. P
    BY <2>1, <1>1, <1>8, <1>9, <1>12, <1>13, <1>16
  <2>2. CASE i = P + 1
    BY <2>2, <1>1, <1>2, <1>8, <1>9, <1>10, <1>11, <1>13, <1>14, <1>16
  <2>3. CASE i = P + 2
    <3>1. /\ Moved(b, n, i) = P + 1 /\ Offset(b, n, i) = n /\ cuts[i] = last
          /\ P + 1 \in DOMAIN runs
      BY <2>3, <1>1, <1>8, <1>9, <1>13
    <3>2. ASSUME NEW k \in DOMAIN last.messages
          PROVE  k + n \in DOMAIN runs[P + 1].messages /\ last.messages[k] = runs[P + 1].messages[k + n]
      <4>1. k \in 1 .. L - n /\ last.messages[k] = b.active[n + k]
        BY <3>2, <1>10
      <4>2. k + n \in 1 .. L /\ k + n = n + k
        BY <4>1, <1>15
      <4> QED BY <4>1, <4>2, <1>11
    <3>3. last.start = runs[P + 1].start + n
      BY <1>10, <1>11
    <3> QED BY <3>1, <3>2, <3>3, Zenon
  <2> QED BY <1>8, <1>9, <2>1, <2>2, <2>3
<1>18. ASSUME NEW i \in DOMAIN cuts, NEW j \in DOMAIN cuts,
              NEW k \in DOMAIN cuts[i].messages, NEW l \in DOMAIN cuts[j].messages,
              Moved(b, n, i) = Moved(b, n, j),
              k + Offset(b, n, i) = l + Offset(b, n, j)
       PROVE  i = j /\ k = l
  <2>1. CASE i \in 1 .. P + 1 /\ j \in 1 .. P + 1
    <3>1. i = j /\ k + 0 = l + 0
      BY <2>1, <1>13, <1>18
    <3>2. CASE i \in 1 .. P
      <4>1. k \in Nat /\ l \in Nat
        BY <3>1, <3>2, <1>9, <1>12
      <4> QED BY <3>1, <4>1
    <3>3. CASE i = P + 1
      <4>1. k \in 1 .. n /\ l \in 1 .. n
        BY <3>1, <3>3, <1>9, <1>10
      <4> QED BY <3>1, <4>1, <1>3
    <3> QED BY <2>1, <3>2, <3>3, <1>8
  <2>2. CASE i = P + 2 /\ j = P + 2
    <3>1. k + n = l + n
      BY <2>2, <1>13, <1>18
    <3>2. k \in Nat /\ l \in Nat
      BY <2>2, <1>9, <1>10, <1>3
    <3> QED BY <2>2, <3>1, <3>2, <1>3
  <2>3. CASE i \in 1 .. P + 1 /\ j = P + 2
    <3>1. i = P + 1
      BY <2>3, <1>13, <1>18
    <3>2. k \in 1 .. n /\ k + 0 = l + n /\ l \in 1 .. L - n
      BY <2>3, <3>1, <1>8, <1>9, <1>10, <1>13, <1>18
    <3> QED BY <3>2, <1>3
  <2>4. CASE i = P + 2 /\ j \in 1 .. P + 1
    <3>1. j = P + 1
      BY <2>4, <1>13, <1>18
    <3>2. l \in 1 .. n /\ k + n = l + 0 /\ k \in 1 .. L - n
      BY <2>4, <3>1, <1>8, <1>9, <1>10, <1>13, <1>18
    <3> QED BY <3>2, <1>3
  <2>5. \A a \in DOMAIN cuts : a \in 1 .. P + 1 \/ a = P + 2
    BY <1>8, <1>9
  <2> QED BY <2>1, <2>2, <2>3, <2>4, <2>5
<1>19. ASSUME NEW i \in DOMAIN runs, NEW k \in DOMAIN runs[i].messages
       PROVE  \E j \in DOMAIN cuts : \E l \in DOMAIN cuts[j].messages :
                 cuts[j].messages[l] = runs[i].messages[k]
  <2>1. CASE i \in 1 .. P
    BY <2>1, <1>8, <1>9
  <2>2. CASE i = P + 1
    <3>1. k \in 1 .. L /\ runs[i].messages[k] = b.active[k]
      BY <2>2, <1>11
    <3>2. CASE k \in 1 .. n
      BY <3>1, <3>2, <1>8, <1>9, <1>10
    <3>3. CASE k \notin 1 .. n
      <4>1. k - n \in 1 .. L - n /\ n + (k - n) = k
        BY <3>1, <3>3, <1>3
      <4>2. last.messages[k - n] = b.active[k]
        BY <4>1, <1>10
      <4>3. P + 2 \in DOMAIN cuts /\ cuts[P + 2] = last /\ k - n \in DOMAIN last.messages
        BY <4>1, <1>8, <1>9, <1>10
      <4>4. cuts[P + 2].messages[k - n] = runs[i].messages[k] /\ k - n \in DOMAIN cuts[P + 2].messages
        BY <3>1, <4>2, <4>3
      <4> QED BY <4>3, <4>4, Zenon
    <3> QED BY <3>2, <3>3
  <2> QED BY <1>1, <1>8, <2>1, <2>2
<1> QED
  BY <1>9, <1>17, <1>18, <1>19 DEF cuts, runs, P

-------------------------------------------------------------------------------
(* Freezing as a whole. *)

\* Buffer c is b after some of its messages were frozen: it has the same messages,
\* each of them once and at the same index if that was so in b, and its chunks are
\* within their bounds if those of b are.
Refrozen(b, c) ==
  /\ c \in Buffer
  /\ NextMsgIndex(c) = NextMsgIndex(b)
  /\ Waiting(c) = Waiting(b)
  /\ Distinct(b) => Distinct(c)
  /\ (\A x \in ToSet(b.pending) : Bounded(x.messages)) => (\A x \in ToSet(c.pending) : Bounded(x.messages))
  /\ \A s : (\A x \in ToSet(Runs(b)) : PlacedIn(x, s)) => (\A x \in ToSet(Runs(c)) : PlacedIn(x, s))

LEMMA RefrozenSame ==
  ASSUME NEW b \in Buffer
  PROVE  Refrozen(b, b)
BY DEF Refrozen

LEMMA RefrozenTransitive ==
  ASSUME NEW b, NEW c, NEW d, Refrozen(b, c), Refrozen(c, d)
  PROVE  Refrozen(b, d)
BY DEF Refrozen

\* The waiting messages, one by one.
LEMMA WaitingIs ==
  ASSUME NEW b \in Buffer, NEW m
  PROVE  m \in Waiting(b) <=> \E i \in DOMAIN Runs(b) :
                                 \E k \in DOMAIN Runs(b)[i].messages : m = Runs(b)[i].messages[k]
<1> DEFINE runs == Runs(b)
<1>1. m \in Waiting(b) <=> \E x \in ToSet(runs) : m \in ToSet(x.messages)
  BY DEF Waiting, MessagesOf
<1>2. ToSet(runs) = {runs[i] : i \in DOMAIN runs}
  BY DEF ToSet
<1>3. \A i \in DOMAIN runs : m \in ToSet(runs[i].messages)
                             <=> \E k \in DOMAIN runs[i].messages : m = runs[i].messages[k]
  BY DEF ToSet
<1> HIDE DEF runs
<1>4. (\E x \in ToSet(runs) : m \in ToSet(x.messages)) <=> \E i \in DOMAIN runs : m \in ToSet(runs[i].messages)
  BY <1>2
<1> QED
  BY <1>1, <1>3, <1>4 DEF runs

LEMMA CutRefreezes ==
  ASSUME NEW b \in Buffer, NEW n \in 1 .. Len(b.active),
         Tokens(SubSeq(b.active, 1, n)) <= Budget \/ n = 1
  PROVE  Refrozen(b, Cut(b, n))
<1> DEFINE runs == Runs(b)
           cuts == Runs(Cut(b, n))
           moved(i) == Moved(b, n, i)
           offset(i) == Offset(b, n, i)
<1>1. Cut(b, n) \in Buffer /\ NextMsgIndex(Cut(b, n)) = NextMsgIndex(b)
  BY CutParts
<1>2. \A i \in DOMAIN cuts :
         /\ moved(i) \in DOMAIN runs
         /\ cuts[i].start = runs[moved(i)].start + offset(i)
         /\ \A k \in DOMAIN cuts[i].messages :
               /\ k + offset(i) \in DOMAIN runs[moved(i)].messages
               /\ cuts[i].messages[k] = runs[moved(i)].messages[k + offset(i)]
  BY CutRuns
<1>3. \A i, j \in DOMAIN cuts :
         \A k \in DOMAIN cuts[i].messages, l \in DOMAIN cuts[j].messages :
            moved(i) = moved(j) /\ k + offset(i) = l + offset(j) => i = j /\ k = l
  BY CutRuns
<1>4. \A i \in DOMAIN runs : \A k \in DOMAIN runs[i].messages :
         \E j \in DOMAIN cuts : \E l \in DOMAIN cuts[j].messages :
            cuts[j].messages[l] = runs[i].messages[k]
  BY CutRuns
<1>5. \A i \in DOMAIN runs : runs[i] \in Chunk /\ runs[i].start \in Nat /\ DOMAIN runs[i].messages \subseteq Nat
  <2> TAKE i \in DOMAIN runs
  <2>1. runs[i] \in Chunk
    BY RunsOf
  <2>2. runs[i].start \in Nat /\ runs[i].messages \in Seq(Msg)
    BY <2>1 DEF Chunk
  <2>3. DOMAIN runs[i].messages \subseteq Nat
    <3> DEFINE ms == runs[i].messages
    <3>1. ms \in Seq(Msg)
      BY <2>2
    <3> HIDE DEF ms
    <3>2. DOMAIN ms \subseteq Nat
      BY <3>1
    <3> QED BY <3>2 DEF ms
  <2> QED BY <2>1, <2>2, <2>3
<1>6. \A i \in DOMAIN cuts : offset(i) \in Nat /\ cuts[i] \in Chunk /\ DOMAIN cuts[i].messages \subseteq Nat
  <2> TAKE i \in DOMAIN cuts
  <2>1. cuts[i] \in Chunk
    BY <1>1, RunsOf
  <2>2. cuts[i].messages \in Seq(Msg)
    BY <2>1 DEF Chunk
  <2>3. DOMAIN cuts[i].messages \subseteq Nat
    <3> DEFINE ms == cuts[i].messages
    <3>1. ms \in Seq(Msg)
      BY <2>2
    <3> HIDE DEF ms
    <3>2. DOMAIN ms \subseteq Nat
      BY <3>1
    <3> QED BY <3>2 DEF ms
  <2>4. offset(i) \in Nat
    BY DEF Offset, Buffer
  <2> QED BY <2>1, <2>3, <2>4
<1>7. Waiting(Cut(b, n)) = Waiting(b)
  <2>1. ASSUME NEW m
        PROVE  m \in Waiting(Cut(b, n)) <=> m \in Waiting(b)
    <3>1. m \in Waiting(b) <=> \E i \in DOMAIN runs :
                                 \E k \in DOMAIN runs[i].messages : m = runs[i].messages[k]
      BY WaitingIs
    <3>2. m \in Waiting(Cut(b, n)) <=> \E i \in DOMAIN cuts :
                                 \E k \in DOMAIN cuts[i].messages : m = cuts[i].messages[k]
      BY <1>1, WaitingIs
    <3> HIDE DEF runs, cuts, moved, offset
    <3> QED BY <3>1, <3>2, <1>2, <1>4
  <2> QED BY <2>1
<1>8. ASSUME Distinct(b)
      PROVE  Distinct(Cut(b, n))
  <2>1. \A i, j \in DOMAIN runs :
           \A k \in DOMAIN runs[i].messages, l \in DOMAIN runs[j].messages :
              runs[i].messages[k] = runs[j].messages[l] => i = j /\ k = l
    BY <1>8 DEF Distinct
  <2>2. SUFFICES ASSUME NEW i \in DOMAIN cuts, NEW j \in DOMAIN cuts,
                        NEW k \in DOMAIN cuts[i].messages, NEW l \in DOMAIN cuts[j].messages,
                        cuts[i].messages[k] = cuts[j].messages[l]
                 PROVE  i = j /\ k = l
    BY DEF Distinct
  <2> HIDE DEF runs, cuts, moved, offset
  <2>3. moved(i) = moved(j) /\ k + offset(i) = l + offset(j)
    <3>1. /\ moved(i) \in DOMAIN runs /\ k + offset(i) \in DOMAIN runs[moved(i)].messages
          /\ cuts[i].messages[k] = runs[moved(i)].messages[k + offset(i)]
      BY <1>2
    <3>2. /\ moved(j) \in DOMAIN runs /\ l + offset(j) \in DOMAIN runs[moved(j)].messages
          /\ cuts[j].messages[l] = runs[moved(j)].messages[l + offset(j)]
      BY <1>2
    <3>3. runs[moved(i)].messages[k + offset(i)] = runs[moved(j)].messages[l + offset(j)]
      BY <2>2, <3>1, <3>2
    <3> DEFINE x == moved(i)
               y == moved(j)
               p == k + offset(i)
               q == l + offset(j)
    <3>4. /\ x \in DOMAIN runs /\ y \in DOMAIN runs
          /\ p \in DOMAIN runs[x].messages /\ q \in DOMAIN runs[y].messages
          /\ runs[x].messages[p] = runs[y].messages[q]
      BY <3>1, <3>2, <3>3
    <3> HIDE DEF x, y, p, q
    <3>5. x = y /\ p = q
      BY <2>1, <3>4
    <3> QED BY <3>5 DEF x, y, p, q
  <2> QED BY <1>3, <2>3, Zenon
<1>9. ASSUME \A x \in ToSet(b.pending) : Bounded(x.messages)
      PROVE  \A x \in ToSet(Cut(b, n).pending) : Bounded(x.messages)
  <2> DEFINE first == [start |-> b.start, messages |-> SubSeq(b.active, 1, n)]
  <2>1. Cut(b, n).pending = Append(b.pending, first) /\ b.pending \in Seq(Chunk)
    BY DEF Cut, Buffer
  <2>2. Bounded(first.messages)
    <3>1. Len(SubSeq(b.active, 1, n)) = n /\ n \in 1 .. Len(b.active) /\ Len(b.active) \in Nat
      BY CutParts DEF Buffer
    <3>2. SubSeq(b.active, 1, n) # <<>>
      BY <3>1
    <3> QED BY <3>1, <3>2 DEF Bounded
  <2>3. first \in Chunk
    BY CutParts DEF Buffer, Chunk
  <2> HIDE DEF first
  <2>4. \A x \in ToSet(Append(b.pending, first)) : x = first \/ x \in ToSet(b.pending)
    BY <2>1, <2>3, AppendProperties DEF ToSet
  <2> QED BY <1>9, <2>1, <2>2, <2>4
<1>10. ASSUME NEW s, \A x \in ToSet(runs) : PlacedIn(x, s)
       PROVE  \A x \in ToSet(cuts) : PlacedIn(x, s)
  <2>1. SUFFICES ASSUME NEW i \in DOMAIN cuts
                 PROVE  PlacedIn(cuts[i], s)
    BY DEF ToSet
  <2>2. SUFFICES ASSUME NEW k \in DOMAIN cuts[i].messages
                 PROVE  cuts[i].start + k \in DOMAIN s /\ s[cuts[i].start + k] = cuts[i].messages[k]
    BY DEF PlacedIn
  <2> DEFINE x == runs[moved(i)]
  <2>3. PlacedIn(x, s)
    <3>1. x \in ToSet(runs)
      BY <1>2 DEF ToSet
    <3> HIDE DEF runs, x
    <3> QED BY <3>1, <1>10
  <2> HIDE DEF runs, cuts, moved, offset, x
  <2>4. /\ x.start \in Nat /\ offset(i) \in Nat /\ k \in Nat
        /\ k + offset(i) \in DOMAIN x.messages
        /\ cuts[i].start = x.start + offset(i)
        /\ cuts[i].messages[k] = x.messages[k + offset(i)]
    BY <1>2, <1>5, <1>6 DEF x
  <2>5. x.start + (k + offset(i)) = cuts[i].start + k
    <3>1. \A p, q, r \in Nat : p + (q + r) = (p + r) + q
      OBVIOUS
    <3> QED BY <2>4, <3>1
  <2>6. /\ x.start + (k + offset(i)) \in DOMAIN s
        /\ s[x.start + (k + offset(i))] = x.messages[k + offset(i)]
    BY <2>3, <2>4, Zenon DEF PlacedIn
  <2> QED BY <2>4, <2>5, <2>6
<1> QED
  BY <1>1, <1>7, <1>8, <1>9, <1>10 DEF Refrozen

\* A round of freezing freezes, and a forced one leaves fewer messages.
LEMMA FreezeRefreezes ==
  ASSUME NEW b \in Buffer, NEW force \in BOOLEAN
  PROVE  /\ Refrozen(b, FreezeMergeChunk(b, force))
         /\ FreezeMergeChunk(b, force) = b \/ Len(FreezeMergeChunk(b, force).active) < Len(b.active)
         /\ force => \/ b.active = <<>> /\ FreezeMergeChunk(b, force) = b
                     \/ Len(FreezeMergeChunk(b, force).active) < Len(b.active)
<1>1. CASE FreezeMergeChunk(b, force) = b /\ (force => b.active = <<>>)
  BY <1>1, RefrozenSame
<1>2. CASE \E n \in 1 .. Len(b.active) :
               /\ FreezeMergeChunk(b, force) = Cut(b, n)
               /\ Tokens(SubSeq(b.active, 1, n)) <= Budget \/ n = 1
  <2>1. PICK n \in 1 .. Len(b.active) :
               /\ FreezeMergeChunk(b, force) = Cut(b, n)
               /\ Tokens(SubSeq(b.active, 1, n)) <= Budget \/ n = 1
    BY <1>2
  <2>2. Len(Cut(b, n).active) = Len(b.active) - n /\ Refrozen(b, Cut(b, n))
    BY <2>1, CutParts, CutRefreezes
  <2>3. Len(b.active) \in Nat
    BY DEF Buffer
  <2>4. Len(b.active) - n < Len(b.active)
    BY <2>3
  <2> QED BY <2>1, <2>2, <2>4
<1> QED
  BY <1>1, <1>2, FreezeCuts

\* The loops over it end, with a buffer that is b with some messages frozen, and
\* with none left if they are forced.
THEOREM FreezeChunksRefreezes ==
  ASSUME NEW b \in Buffer, NEW force \in BOOLEAN
  PROVE  /\ Refrozen(b, FreezeChunks(b, force))
         /\ force => FreezeChunks(b, force).active = <<>>
<1> DEFINE L == Len(b.active)
           Eqn(g) == g = [n \in 0 .. L |-> IF n = 0 THEN b ELSE FreezeMergeChunk(g[n - 1], force)]
           G == [p \in Nat \X Buffer |-> FreezeMergeChunk(p[2], force)]
           round == Rounds(b, force)
<1>1. Rounds(b, force) = CHOOSE g : Eqn(g)
  BY DEF Rounds
<1>2. L \in Nat
  BY DEF Buffer
<1>3. \E g : Eqn(g)
  <2>1. G \in [Nat \X Buffer -> Buffer]
    <3> SUFFICES ASSUME NEW p \in Nat \X Buffer
                 PROVE  FreezeMergeChunk(p[2], force) \in Buffer
      OBVIOUS
    <3> QED BY FreezeRefreezes DEF Refrozen
  <2>2. PICK f : Steps(f, Buffer, b, G, L)
    <3> HIDE DEF G, L
    <3>1. Iterates(Buffer, b, G, L)
      BY <1>2, <2>1, Iteration
    <3> QED BY <3>1 DEF Iterates
  <2>3. ASSUME NEW k \in 1 .. L
        PROVE  f[k] = FreezeMergeChunk(f[k - 1], force)
    <3>1. k - 1 \in 0 .. L /\ k \in Nat
      BY <1>2
    <3>2. <<k, f[k - 1]>> \in Nat \X Buffer
      BY <2>2, <3>1 DEF Steps
    <3>3. G[<<k, f[k - 1]>>] = FreezeMergeChunk(f[k - 1], force)
      BY <3>2
    <3> HIDE DEF G
    <3> QED BY <2>2, <3>3 DEF Steps
  <2>4. \A k \in 0 .. L : k = 0 \/ k \in 1 .. L
    BY <1>2
  <2>5. f = [k \in DOMAIN f |-> f[k]] /\ DOMAIN f = 0 .. L /\ f[0] = b
    BY <2>2 DEF Steps
  <2>6. Eqn(f)
    <3> HIDE DEF G, L
    <3> QED BY <2>3, <2>4, <2>5
  <2> QED BY <2>6
<1>4. Eqn(round)
  <2> HIDE DEF Eqn
  <2> QED BY <1>1, <1>3
<1> HIDE DEF round
<1> DEFINE good(n) == /\ Refrozen(b, round[n])
                      /\ force => round[n].active = <<>> \/ Len(round[n].active) <= L - n
           T == {n \in Nat : n <= L => good(n)}
<1>5. 0 \in T
  <2>1. 0 \in 0 .. L
    BY <1>2
  <2>2. round[0] = b
    BY <1>4, <2>1
  <2>3. L <= L - 0
    BY <1>2
  <2>4. good(0)
    BY <2>2, <2>3, RefrozenSame
  <2> QED BY <2>4
<1>6. ASSUME NEW n \in T
      PROVE  n + 1 \in T
  <2>1. SUFFICES ASSUME n + 1 <= L
                 PROVE  good(n + 1)
    OBVIOUS
  <2> DEFINE c == round[n]
             d == FreezeMergeChunk(c, force)
  <2>2. n \in Nat /\ n + 1 \in 0 .. L /\ n + 1 # 0 /\ (n + 1) - 1 = n /\ n <= L
    BY <1>2, <2>1
  <2>3. good(n)
    BY <2>2
  <2>4. round[n + 1] = d
    BY <1>4, <2>2
  <2>5. c \in Buffer
    BY <2>3 DEF Refrozen
  <2>6. /\ Refrozen(c, d)
        /\ force => \/ c.active = <<>> /\ d = c
                    \/ Len(d.active) < Len(c.active)
    BY <2>5, FreezeRefreezes
  <2>7. Refrozen(b, d)
    BY <2>3, <2>6, RefrozenTransitive
  <2>8. Len(c.active) \in Nat /\ Len(d.active) \in Nat /\ (c.active = <<>> => Len(c.active) = 0)
    <3>1. c.active \in Seq(Msg)
      BY <2>5 DEF Buffer
    <3>2. d.active \in Seq(Msg)
      BY <2>7 DEF Refrozen, Buffer
    <3> HIDE DEF c, d
    <3> QED BY <3>1, <3>2
  <2>9. force => c.active = <<>> \/ Len(c.active) <= L - n
    BY <2>3
  <2> HIDE DEF c, d, L
  <2>10. force => d.active = <<>> \/ Len(d.active) <= L - (n + 1)
    BY <1>2, <2>2, <2>6, <2>8, <2>9
  <2> QED BY <2>4, <2>7, <2>10
<1>7. T = Nat
  <2>1. T \in SUBSET Nat
    OBVIOUS
  <2> HIDE DEF T
  <2> QED BY <1>5, <1>6, <2>1, SetInduction
<1>8. good(L)
  <2>1. L \in T
    BY <1>2, <1>7
  <2>2. L <= L
    BY <1>2
  <2> HIDE DEF good
  <2> QED BY <2>1, <2>2
<1>9. round[L] = FreezeChunks(b, force)
  BY DEF FreezeChunks, round
<1>10. round[L].active \in Seq(Msg)
  BY <1>8 DEF Refrozen, Buffer
<1>11. Len(round[L].active) <= L - L => round[L].active = <<>>
  <2> DEFINE ms == round[L].active
  <2>1. ms \in Seq(Msg) /\ L - L = 0
    BY <1>2, <1>10
  <2> HIDE DEF ms
  <2>2. Len(ms) <= 0 => ms = <<>>
    BY <2>1
  <2> QED BY <2>1, <2>2 DEF ms
<1> QED
  BY <1>8, <1>9, <1>11

-------------------------------------------------------------------------------
(* Appending a message and taking a chunk. *)

LEMMA PlacedInLonger ==
  ASSUME NEW x, NEW s \in Seq(Msg), NEW m \in Msg, PlacedIn(x, s)
  PROVE  PlacedIn(x, Append(s, m))
<1>1. \A i \in DOMAIN s : i \in DOMAIN Append(s, m) /\ Append(s, m)[i] = s[i]
  OBVIOUS
<1> QED
  BY <1>1 DEF PlacedIn

LEMMA AppendRuns ==
  ASSUME NEW b \in Buffer, NEW m \in Msg
  PROVE  LET runs == Runs(b)
             more == Runs(AppendMessage(b, m))
             P    == Len(b.pending)
         IN  /\ AppendMessage(b, m) \in Buffer
             /\ P \in Nat /\ DOMAIN runs = 1 .. P + 1 /\ DOMAIN more = 1 .. P + 1
             /\ \A i \in 1 .. P : more[i] = runs[i]
             /\ runs[P + 1] = Remainder(b)
             /\ more[P + 1] = [start |-> b.start, messages |-> Append(b.active, m)]
<1>1. b.active \in Seq(Msg) /\ b.start \in Nat /\ b.pending \in Seq(Chunk)
  BY DEF Buffer
<1>2. Append(b.active, m) \in Seq(Msg)
  BY <1>1
<1>3. /\ AppendMessage(b, m).active = Append(b.active, m)
      /\ AppendMessage(b, m).start = b.start
      /\ AppendMessage(b, m).pending = b.pending
  BY DEF AppendMessage, Buffer
<1>4. AppendMessage(b, m) \in Buffer
  BY <1>2 DEF AppendMessage, Buffer
<1>5. Remainder(AppendMessage(b, m)) = [start |-> b.start, messages |-> Append(b.active, m)]
  BY <1>3 DEF Remainder
<1> QED
  BY <1>3, <1>4, <1>5, RunsOf

LEMMA AppendKeeps ==
  ASSUME NEW b \in Buffer, NEW m \in Msg
  PROVE  /\ AppendMessage(b, m) \in Buffer
         /\ AppendMessage(b, m).pending = b.pending
         /\ NextMsgIndex(AppendMessage(b, m)) = NextMsgIndex(b) + 1
         /\ Waiting(AppendMessage(b, m)) = Waiting(b) \cup {m}
         /\ Distinct(b) /\ m \notin Waiting(b) => Distinct(AppendMessage(b, m))
         /\ \A s \in Seq(Msg) :
               /\ NextMsgIndex(b) = Len(s)
               /\ \A x \in ToSet(Runs(b)) : PlacedIn(x, s)
               => \A x \in ToSet(Runs(AppendMessage(b, m))) : PlacedIn(x, Append(s, m))
<1> DEFINE c == AppendMessage(b, m)
           runs == Runs(b)
           more == Runs(c)
           P == Len(b.pending)
           L == Len(b.active)
           last == [start |-> b.start, messages |-> Append(b.active, m)]
<1>1. /\ c \in Buffer
      /\ P \in Nat /\ DOMAIN runs = 1 .. P + 1 /\ DOMAIN more = 1 .. P + 1
      /\ \A i \in 1 .. P : more[i] = runs[i]
      /\ runs[P + 1] = Remainder(b)
      /\ more[P + 1] = last
  BY AppendRuns
<1>2. b.active \in Seq(Msg) /\ b.start \in Nat /\ L \in Nat
  BY DEF Buffer
<1>3. /\ c.active = Append(b.active, m) /\ c.start = b.start /\ c.pending = b.pending
  BY DEF AppendMessage, Buffer
<1>4. NextMsgIndex(c) = NextMsgIndex(b) + 1
  <2>1. Len(Append(b.active, m)) = L + 1
    BY <1>2
  <2>2. \A s \in Nat : s + (L + 1) = (s + L) + 1
    BY <1>2
  <2> QED BY <1>2, <1>3, <2>1, <2>2 DEF NextMsgIndex
<1>5. /\ DOMAIN b.active = 1 .. L /\ DOMAIN Append(b.active, m) = 1 .. L + 1
      /\ \A k \in 1 .. L : Append(b.active, m)[k] = b.active[k]
      /\ Append(b.active, m)[L + 1] = m
  BY <1>2
<1>6. /\ \A k \in 1 .. L : k \in 1 .. L + 1 /\ k # L + 1
      /\ \A k \in 1 .. L + 1 : k \in 1 .. L \/ k = L + 1
      /\ L + 1 \in 1 .. L + 1
  BY <1>2
<1>7. /\ runs[P + 1].messages = b.active /\ runs[P + 1].start = b.start
      /\ last.messages = Append(b.active, m) /\ last.start = b.start
  BY <1>1 DEF Remainder
<1>8. /\ \A i \in 1 .. P : i \in 1 .. P + 1 /\ i # P + 1
      /\ \A i \in 1 .. P + 1 : i \in 1 .. P \/ i = P + 1
      /\ P + 1 \in 1 .. P + 1
  BY <1>1
<1> HIDE DEF c, runs, more, P, L, last
\* An entry of the longer buffer is one of b, or the new one.
<1>9. ASSUME NEW i \in DOMAIN more, NEW k \in DOMAIN more[i].messages
      PROVE  \/ /\ i \in DOMAIN runs /\ k \in DOMAIN runs[i].messages
                /\ more[i].messages[k] = runs[i].messages[k]
             \/ i = P + 1 /\ k = L + 1 /\ more[i].messages[k] = m
  <2>1. CASE i \in 1 .. P
    BY <2>1, <1>1, <1>8
  <2>2. CASE i = P + 1
    <3>1. k \in 1 .. L + 1 /\ more[i].messages[k] = Append(b.active, m)[k]
      BY <2>2, <1>1, <1>5, <1>7
    <3>2. CASE k \in 1 .. L
      BY <2>2, <3>1, <3>2, <1>1, <1>5, <1>7, <1>8
    <3>3. CASE k = L + 1
      BY <2>2, <3>1, <3>3, <1>5
    <3> QED BY <3>1, <3>2, <3>3, <1>6
  <2> QED BY <1>1, <1>8, <2>1, <2>2
<1>10. ASSUME NEW i \in DOMAIN runs, NEW k \in DOMAIN runs[i].messages
       PROVE  i \in DOMAIN more /\ k \in DOMAIN more[i].messages
              /\ more[i].messages[k] = runs[i].messages[k]
  <2>1. CASE i \in 1 .. P
    BY <2>1, <1>1, <1>8
  <2>2. CASE i = P + 1
    BY <2>2, <1>1, <1>5, <1>6, <1>7
  <2> QED BY <1>1, <1>8, <2>1, <2>2
<1>11. /\ P + 1 \in DOMAIN more /\ L + 1 \in DOMAIN more[P + 1].messages
       /\ more[P + 1].messages[L + 1] = m
  BY <1>1, <1>5, <1>6, <1>7, <1>8
<1>12. Waiting(c) = Waiting(b) \cup {m}
  <2>1. ASSUME NEW y
        PROVE  y \in Waiting(c) <=> (y \in Waiting(b) \/ y = m)
    <3>1. y \in Waiting(b) <=> \E i \in DOMAIN runs : \E k \in DOMAIN runs[i].messages : y = runs[i].messages[k]
      BY WaitingIs DEF runs
    <3>2. y \in Waiting(c) <=> \E i \in DOMAIN more : \E k \in DOMAIN more[i].messages : y = more[i].messages[k]
      BY <1>1, WaitingIs DEF more
    <3> QED BY <3>1, <3>2, <1>9, <1>10, <1>11
  <2> QED BY <2>1
<1>13. ASSUME Distinct(b), m \notin Waiting(b)
       PROVE  Distinct(c)
  <2>1. \A i, j \in DOMAIN runs :
           \A k \in DOMAIN runs[i].messages, l \in DOMAIN runs[j].messages :
              runs[i].messages[k] = runs[j].messages[l] => i = j /\ k = l
    BY <1>13 DEF Distinct, runs
  <2>2. \A i \in DOMAIN runs : \A k \in DOMAIN runs[i].messages : runs[i].messages[k] # m
    BY <1>13, WaitingIs DEF runs
  <2>3. SUFFICES ASSUME NEW i \in DOMAIN more, NEW j \in DOMAIN more,
                        NEW k \in DOMAIN more[i].messages, NEW l \in DOMAIN more[j].messages,
                        more[i].messages[k] = more[j].messages[l]
                 PROVE  i = j /\ k = l
    BY DEF Distinct, more
  <2>4. \/ /\ i \in DOMAIN runs /\ k \in DOMAIN runs[i].messages
           /\ more[i].messages[k] = runs[i].messages[k]
        \/ i = P + 1 /\ k = L + 1 /\ more[i].messages[k] = m
    BY <1>9
  <2>5. \/ /\ j \in DOMAIN runs /\ l \in DOMAIN runs[j].messages
           /\ more[j].messages[l] = runs[j].messages[l]
        \/ j = P + 1 /\ l = L + 1 /\ more[j].messages[l] = m
    BY <1>9
  <2> QED BY <2>1, <2>2, <2>3, <2>4, <2>5
<1>14. ASSUME NEW s \in Seq(Msg), NextMsgIndex(b) = Len(s),
              \A x \in ToSet(runs) : PlacedIn(x, s)
       PROVE  \A x \in ToSet(more) : PlacedIn(x, Append(s, m))
  <2>1. SUFFICES ASSUME NEW i \in DOMAIN more
                 PROVE  PlacedIn(more[i], Append(s, m))
    BY DEF ToSet
  <2>2. CASE i \in 1 .. P
    <3>1. more[i] = runs[i] /\ runs[i] \in ToSet(runs)
      BY <2>2, <1>1, <1>8 DEF ToSet
    <3> QED BY <3>1, <1>14, PlacedInLonger
  <2>3. CASE i = P + 1
    <3>1. PlacedIn(runs[P + 1], s)
      BY <1>1, <1>8, <1>14 DEF ToSet
    <3>2. PlacedIn(runs[P + 1], Append(s, m))
      BY <3>1, PlacedInLonger
    <3>3. b.start + L = Len(s)
      BY <1>14 DEF NextMsgIndex, L
    <3>4. Len(s) + 1 \in DOMAIN Append(s, m) /\ Append(s, m)[Len(s) + 1] = m
      OBVIOUS
    <3>5. b.start + (L + 1) = Len(s) + 1
      <4>1. \A p, q \in Nat : p + (q + 1) = (p + q) + 1
        OBVIOUS
      <4> QED BY <3>3, <4>1, <1>2
    <3>6. SUFFICES ASSUME NEW k \in 1 .. L + 1
                   PROVE  /\ b.start + k \in DOMAIN Append(s, m)
                          /\ Append(s, m)[b.start + k] = Append(b.active, m)[k]
      BY <2>3, <1>1, <1>5, <1>7 DEF PlacedIn
    <3>7. CASE k \in 1 .. L
      BY <3>2, <3>7, <1>5, <1>7 DEF PlacedIn
    <3>8. CASE k = L + 1
      BY <3>4, <3>5, <3>8, <1>5
    <3> QED BY <3>7, <3>8, <1>6
  <2> QED BY <1>1, <1>8, <2>2, <2>3
<1> QED
  BY <1>1, <1>3, <1>4, <1>12, <1>13, <1>14 DEF c, runs, more

LEMMA PopKeeps ==
  ASSUME NEW b \in Buffer, b.pending # <<>>
  PROVE  LET head == Head(b.pending)
             c    == PopMergeChunk(b)
         IN  /\ c \in Buffer /\ head \in Chunk
             /\ c.active = b.active
             /\ NextMsgIndex(c) = NextMsgIndex(b)
             /\ ToSet(b.pending) = ToSet(c.pending) \cup {head}
             /\ ToSet(Runs(b)) = ToSet(Runs(c)) \cup {head}
             /\ Waiting(b) = Waiting(c) \cup ToSet(head.messages)
             /\ Distinct(b) => Distinct(c) /\ Waiting(c) \cap ToSet(head.messages) = {}
<1> DEFINE head == Head(b.pending)
           c == PopMergeChunk(b)
           runs == Runs(b)
           less == Runs(c)
           P == Len(b.pending)
<1>1. b.pending \in Seq(Chunk) /\ b.active \in Seq(Msg) /\ b.start \in Nat
  BY DEF Buffer
<1>2. /\ head \in Chunk /\ Tail(b.pending) \in Seq(Chunk)
      /\ Len(Tail(b.pending)) = P - 1 /\ head = b.pending[1]
      /\ \A i \in 1 .. P - 1 : Tail(b.pending)[i] = b.pending[i + 1]
      /\ P \in Nat /\ P >= 1
  BY <1>1
<1>3. c.active = b.active /\ c.start = b.start /\ c.pending = Tail(b.pending)
  BY DEF PopMergeChunk, Buffer
<1>4. c \in Buffer
  BY <1>1, <1>2 DEF PopMergeChunk, Buffer
<1>5. NextMsgIndex(c) = NextMsgIndex(b)
  BY <1>3 DEF NextMsgIndex
<1>6. /\ DOMAIN runs = 1 .. P + 1 /\ runs[P + 1] = Remainder(b)
      /\ \A i \in 1 .. P : runs[i] = b.pending[i]
  BY RunsOf
<1>7. /\ DOMAIN less = 1 .. (P - 1) + 1 /\ less[(P - 1) + 1] = Remainder(c)
      /\ \A i \in 1 .. P - 1 : less[i] = Tail(b.pending)[i]
  BY <1>2, <1>3, <1>4, RunsOf
<1>8. Remainder(c) = Remainder(b)
  BY <1>3 DEF Remainder
<1> HIDE DEF head, c, runs, less, P
<1>9. /\ (P - 1) + 1 = P /\ 1 \in 1 .. P /\ 1 \in 1 .. P + 1 /\ P \in 1 .. P
      /\ \A i \in 1 .. P : i + 1 \in 1 .. P + 1 /\ (i \in 1 .. P - 1 \/ i = P) /\ i \in Nat
      /\ \A i \in 1 .. P - 1 : i + 1 \in 1 .. P /\ i \in 1 .. P
      /\ \A i \in 1 .. P + 1 : i = 1 \/ (i - 1 \in 1 .. P /\ (i - 1) + 1 = i)
      /\ \A i \in 1 .. P : i = 1 \/ (i - 1 \in 1 .. P - 1 /\ (i - 1) + 1 = i)
  <2>0. P \in Nat /\ P >= 1
    BY <1>2
  <2>1. (P - 1) + 1 = P /\ 1 \in 1 .. P /\ 1 \in 1 .. P + 1 /\ P \in 1 .. P
    BY <2>0
  <2>2. \A i \in 1 .. P : i + 1 \in 1 .. P + 1 /\ (i \in 1 .. P - 1 \/ i = P) /\ i \in Nat
    BY <2>0
  <2>3. \A i \in 1 .. P - 1 : i + 1 \in 1 .. P /\ i \in 1 .. P
    BY <2>0
  <2>4. \A i \in 1 .. P + 1 : i = 1 \/ (i - 1 \in 1 .. P /\ (i - 1) + 1 = i)
    BY <2>0
  <2>5. \A i \in 1 .. P : i = 1 \/ (i - 1 \in 1 .. P - 1 /\ (i - 1) + 1 = i)
    BY <2>0
  <2> QED BY <2>1, <2>2, <2>3, <2>4, <2>5
<1>10. /\ DOMAIN less = 1 .. P
       /\ \A i \in 1 .. P : less[i] = runs[i + 1]
       /\ runs[1] = head
  BY <1>2, <1>6, <1>7, <1>8, <1>9
<1>11. ToSet(runs) = ToSet(less) \cup {head}
  <2>1. ASSUME NEW x \in ToSet(runs)
        PROVE  x \in ToSet(less) \cup {head}
    <3>1. PICK i \in 1 .. P + 1 : x = runs[i]
      BY <2>1, <1>6 DEF ToSet
    <3>2. CASE i = 1
      BY <3>1, <3>2, <1>10
    <3>3. CASE i - 1 \in 1 .. P /\ (i - 1) + 1 = i
      BY <3>1, <3>3, <1>10 DEF ToSet
    <3> QED BY <3>2, <3>3, <1>9
  <2>2. ToSet(less) \subseteq ToSet(runs) /\ head \in ToSet(runs)
    <3>1. \A i \in 1 .. P : i + 1 \in DOMAIN runs /\ less[i] = runs[i + 1]
      BY <1>6, <1>9, <1>10
    <3>2. 1 \in DOMAIN runs /\ runs[1] = head /\ DOMAIN less = 1 .. P
      BY <1>6, <1>9, <1>10
    <3> QED BY <3>1, <3>2 DEF ToSet
  <2> QED BY <2>1, <2>2
<1>12. ToSet(b.pending) = ToSet(c.pending) \cup {head}
  <2>1. DOMAIN b.pending = 1 .. P /\ DOMAIN c.pending = 1 .. P - 1
    BY <1>1, <1>2, <1>3 DEF P
  <2>2. ASSUME NEW x \in ToSet(b.pending)
        PROVE  x \in ToSet(c.pending) \cup {head}
    <3>1. PICK i \in 1 .. P : x = b.pending[i]
      BY <2>1, <2>2 DEF ToSet
    <3>2. CASE i = 1
      BY <3>1, <3>2, <1>2
    <3>3. CASE i - 1 \in 1 .. P - 1 /\ (i - 1) + 1 = i
      <4>1. c.pending[i - 1] = x
        BY <3>1, <3>3, <1>2, <1>3
      <4> QED BY <2>1, <3>3, <4>1 DEF ToSet
    <3> QED BY <3>2, <3>3, <1>9
  <2>3. ASSUME NEW i \in 1 .. P - 1
        PROVE  c.pending[i] \in ToSet(b.pending)
    BY <2>1, <1>2, <1>3, <1>9 DEF ToSet
  <2>4. head \in ToSet(b.pending)
    BY <2>1, <1>2, <1>9 DEF ToSet
  <2> QED BY <2>1, <2>2, <2>3, <2>4 DEF ToSet
<1>13. Waiting(b) = Waiting(c) \cup ToSet(head.messages)
  BY <1>11 DEF Waiting, MessagesOf, runs, less
<1>14. ASSUME Distinct(b)
       PROVE  Distinct(c) /\ Waiting(c) \cap ToSet(head.messages) = {}
  <2>1. \A i, j \in DOMAIN runs :
           \A k \in DOMAIN runs[i].messages, l \in DOMAIN runs[j].messages :
              runs[i].messages[k] = runs[j].messages[l] => i = j /\ k = l
    BY <1>14 DEF Distinct, runs
  <2>2. ASSUME NEW i \in DOMAIN less, NEW j \in DOMAIN less,
               NEW k \in DOMAIN less[i].messages, NEW l \in DOMAIN less[j].messages,
               less[i].messages[k] = less[j].messages[l]
        PROVE  i = j /\ k = l
    <3>1. /\ i + 1 \in DOMAIN runs /\ j + 1 \in DOMAIN runs
          /\ less[i] = runs[i + 1] /\ less[j] = runs[j + 1] /\ i \in Nat /\ j \in Nat
      BY <1>6, <1>9, <1>10
    <3>2. i + 1 = j + 1 /\ k = l
      BY <2>1, <2>2, <3>1
    <3> QED BY <3>1, <3>2
  <2>3. Distinct(c)
    BY <2>2 DEF Distinct, less
  <2>4. ASSUME NEW m \in Waiting(c), m \in ToSet(head.messages)
        PROVE  FALSE
    <3>1. PICK i \in DOMAIN less : \E k \in DOMAIN less[i].messages : m = less[i].messages[k]
      BY <1>4, WaitingIs DEF less
    <3>2. PICK k \in DOMAIN less[i].messages : m = less[i].messages[k]
      BY <3>1
    <3>3. PICK l \in DOMAIN head.messages : m = head.messages[l]
      BY <2>4 DEF ToSet
    <3>4. i + 1 \in DOMAIN runs /\ less[i] = runs[i + 1] /\ 1 \in DOMAIN runs /\ head = runs[1] /\ i >= 1
      BY <1>2, <1>6, <1>9, <1>10
    <3>5. /\ k \in DOMAIN runs[i + 1].messages /\ l \in DOMAIN runs[1].messages
          /\ runs[i + 1].messages[k] = runs[1].messages[l]
      BY <3>2, <3>3, <3>4
    <3>6. i + 1 = 1
      <4> DEFINE j == i + 1
      <4>1. j \in DOMAIN runs /\ k \in DOMAIN runs[j].messages
            /\ runs[j].messages[k] = runs[1].messages[l]
        BY <3>4, <3>5
      <4> HIDE DEF j
      <4>2. j = 1
        BY <2>1, <3>4, <3>5, <4>1
      <4> QED BY <4>2 DEF j
    <3>7. i \in Nat
      BY <1>9, <1>10
    <3> QED BY <3>4, <3>6, <3>7
  <2> QED BY <2>3, <2>4
<1> QED
  BY <1>2, <1>3, <1>4, <1>5, <1>11, <1>12, <1>13, <1>14 DEF head, c, runs, less
===============================================================================
