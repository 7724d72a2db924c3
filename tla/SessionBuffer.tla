----------------------------- MODULE SessionBuffer -----------------------------
(***************************************************************************)
(* The buffer of one session (store/session/buffer.py) and its operations, *)
(* each as a function from a buffer to a buffer.                           *)
(*                                                                         *)
(* A buffer holds the written messages that are not frozen yet, the index  *)
(* of the first of them, and the frozen chunks that wait to be merged.     *)
(*                                                                         *)
(* An operator with a suffix after the name of another                     *)
(* (PopMergeChunkLeaving beside PopMergeChunk) is a wrong variant of it    *)
(* that no action uses.                                                    *)
(***************************************************************************)
EXTENDS Integers, Sequences, SequencesExt

CONSTANTS Msg,     \* messages
          Weight,  \* estimate_tokens of each message
          Budget   \* merge_token_budget

ASSUME BufferAssumption == /\ Weight \in [Msg -> Nat]
                           /\ Budget \in Nat \ {0}

Chunk == [start : Nat, messages : Seq(Msg)]

Buffer == [active : Seq(Msg), start : Nat, pending : Seq(Chunk)]

EmptyBuffer == [active |-> <<>>, start |-> 0, pending |-> <<>>]

\* The weight of the first n messages, for each n.
Sums(messages) ==
  LET sum[n \in 0 .. Len(messages)] ==
        IF n = 0 THEN 0 ELSE sum[n - 1] + Weight[messages[n]]
  IN  sum

Tokens(messages) == Sums(messages)[Len(messages)]

NextMsgIndexActive(b) == Len(b.active)

NextMsgIndex(b) == b.start + Len(b.active)

AppendMessage(b, m) == [b EXCEPT !.active = Append(@, m)]

ShouldMerge(b) == Tokens(b.active) >= Budget

MergeChunkSizeUnbounded(b, force) == Len(b.active)

\* merge_chunk_size: everything if it is forced and small, else the longest
\* prefix within the budget, and at least one message.
MergeChunkSize(b, force) ==
  IF force /\ ~ShouldMerge(b)
  THEN Len(b.active)
  ELSE Max({1} \cup {n \in DOMAIN b.active : Tokens(SubSeq(b.active, 1, n)) <= Budget})

FreezeMergeChunkSkipping(b, force) ==
  IF b.active = <<>> \/ (~force /\ ~ShouldMerge(b)) THEN b
  ELSE LET n == MergeChunkSize(b, force)
       IN  [active  |-> SubSeq(b.active, n + 2, Len(b.active)),
            start   |-> b.start + n,
            pending |-> Append(b.pending, [start    |-> b.start,
                                           messages |-> SubSeq(b.active, 1, n)])]

FreezeMergeChunkInPlace(b, force) ==
  IF b.active = <<>> \/ (~force /\ ~ShouldMerge(b)) THEN b
  ELSE LET n == MergeChunkSize(b, force)
       IN  [active  |-> SubSeq(b.active, n + 1, Len(b.active)),
            start   |-> b.start,
            pending |-> Append(b.pending, [start    |-> b.start,
                                           messages |-> SubSeq(b.active, 1, n)])]

\* freeze_merge_chunk: at most one chunk moves to the pending queue.
FreezeMergeChunk(b, force) ==
  IF b.active = <<>> \/ (~force /\ ~ShouldMerge(b)) THEN b
  ELSE LET n == MergeChunkSize(b, force)
       IN  [active  |-> SubSeq(b.active, n + 1, Len(b.active)),
            start   |-> b.start + n,
            pending |-> Append(b.pending, [start    |-> b.start,
                                           messages |-> SubSeq(b.active, 1, n)])]

\* The while loops over freeze_merge_chunk, round by round: each round that freezes
\* takes a message, so as many rounds as there are messages are enough.
Rounds(b, force) ==
  LET round[n \in 0 .. Len(b.active)] ==
        IF n = 0 THEN b ELSE FreezeMergeChunk(round[n - 1], force)
  IN  round

FreezeChunks(b, force) == Rounds(b, force)[Len(b.active)]

FreezeReadyChunks(b) == FreezeChunks(b, FALSE)

FreezeAllChunksFull(b) == FreezeChunks(b, FALSE)

FreezeAllChunks(b) == FreezeChunks(b, TRUE)

HasPendingMerge(b) == b.pending # <<>>

PopMergeChunkLeaving(b) == b

PopMergeChunk(b) == [b EXCEPT !.pending = Tail(@)]

-------------------------------------------------------------------------------
(* What the properties say of buffers and chunks. *)

MessagesOf(chunks) == UNION {ToSet(x.messages) : x \in chunks}

Remainder(b) == [start |-> b.start, messages |-> b.active]

\* The messages of a buffer in the order they were stored: the frozen chunks and
\* what is not frozen yet.
Runs(b) == Append(b.pending, Remainder(b))

Waiting(b) == MessagesOf(ToSet(Runs(b)))

\* No message is in a buffer twice.
Distinct(b) ==
  LET runs == Runs(b)
  IN  \A i, j \in DOMAIN runs :
         \A k \in DOMAIN runs[i].messages, l \in DOMAIN runs[j].messages :
            runs[i].messages[k] = runs[j].messages[l] => i = j /\ k = l

\* Messages stay within the token budget unless there is only one.
Bounded(messages) == messages # <<>> /\ (Tokens(messages) <= Budget \/ Len(messages) = 1)

\* The messages of chunk x are those of session s from index x.start on.
PlacedIn(x, s) ==
  \A i \in DOMAIN x.messages :
     x.start + i \in DOMAIN s /\ s[x.start + i] = x.messages[i]

===============================================================================
