------------------------------ MODULE SessionFlow ------------------------------
(***************************************************************************)
(* One conversation session through store/session: turns (SessionStore),   *)
(* the merge action of the event worker (SessionMerger), the derivation    *)
(* and cleanup that follow a merge, the end of the session (SessionEnder)  *)
(* and the pruning of idle sessions (SessionBuffer).                       *)
(*                                                                         *)
(* Everything runs on one event loop; an action is what a call does up to  *)
(* its next await.  The lock of the session is an entry of a dictionary:   *)
(* drop() removes the entry whoever holds the lock or waits for it, and    *)
(* the next call makes a new lock.                                         *)
(*                                                                         *)
(* An operator with a suffix after the name of another (UriOfLength        *)
(* beside Uri) is a wrong variant of it that no action uses.               *)
(***************************************************************************)
EXTENDS SessionBuffer, FiniteSets

CONSTANTS Turn,         \* calls of session/message
          End,          \* calls of session/end
          Worker,       \* the worker task that has the session's ordering key
          TurnMessages, \* the messages of each turn
          NoChunk,      \* no chunk in hand
          MaxFailures,  \* bound: embeddings, writes and deletions that fail
          MaxIdle       \* bound: idle periods longer than idle_ttl_seconds

\* A message is one occurrence: the same words stored twice are two messages.
ASSUME MessageAssumption ==
  /\ \A t \in Turn : IsInjective(TurnMessages[t])
  /\ \A t, u \in Turn : t # u => ToSet(TurnMessages[t]) \cap ToSet(TurnMessages[u]) = {}

ASSUME SessionAssumption == /\ TurnMessages \in [Turn -> Seq(Msg) \ {<<>>}]
                            /\ NoChunk \notin Chunk
                            /\ Worker \notin Turn \cup End
                            /\ Turn \cap End = {}
                            /\ MaxFailures \in Nat /\ MaxIdle \in Nat

VARIABLES buf,       \* the session's buffer
          lock,      \* the lock in the dictionary: its number, or 0
          made,      \* locks made so far
          activity,  \* last activity: "none", "recent", or "stale" after the TTL
          mine,      \* the lock each call asked for
          pc,        \* where each call is
          todo,      \* messages a turn has not stored yet
          index,     \* the msg_index a turn took for the next of them
          hand,      \* the chunk a call is merging
          chosen,    \* merged records a session/end takes into the final record
          imm,       \* immediate records in the vector store
          merged,    \* merged records in the vector store
          final,     \* messages of the final record
          events,    \* events in the queue
          event,     \* the event the worker handles
          appended,  \* every message appended to the buffer, in order (history)
          indices,   \* the msg_index each of them was written with (history)
          failures, idles   \* history

dictVars  == <<buf, lock, made, activity>>
storeVars == <<imm, merged, final>>
eventVars == <<events, event>>
histVars  == <<appended, indices, failures, idles>>
vars == <<dictVars, mine, pc, todo, index, hand, chosen, storeVars, eventVars, histVars>>

Call == Turn \cup End \cup {Worker}

\* Places inside `async with self.buffer.lock(key)`.
Inside == {"storing", "writing", "loading", "ending"}

PC == {"ready", "asking", "queued", "derive", "cleanup", "retry",
       "done", "failed", "empty"} \cup Inside

UriOfLength(chunk) == <<0, Len(chunk.messages) - 1>>

Uri(chunk) == <<chunk.start, chunk.start + Len(chunk.messages) - 1>>

\* A merged record: its message range is its URI and its identity.  It is ready
\* once the worker has derived its semantic fields.
Record(chunk, ready) == [uri |-> Uri(chunk), messages |-> chunk.messages, ready |-> ready]

Upsert(records, r) == {x \in records : x.uri # r.uri} \cup {r}

NoEvent            == [kind |-> "none"]
TurnEvent(t)       == [kind |-> "turn", turn |-> t]
MergedEvent(chunk) == [kind |-> "merged", chunk |-> chunk]

TypeOK ==
  /\ buf \in Buffer
  /\ made \in Nat /\ lock \in 0 .. made
  /\ activity \in {"none", "recent", "stale"}
  /\ mine \in [Call -> 0 .. made]
  /\ pc \in [Call -> PC]
  /\ \A c \in Call : pc[c] = "writing" <=> hand[c] # NoChunk
  /\ todo \in [Turn -> Seq(Msg)] /\ index \in [Turn -> Nat]
  /\ imm \subseteq Msg /\ final \subseteq Msg
  /\ \A r, s \in merged : r.uri = s.uri => r = s
  /\ event = NoEvent <=> pc[Worker] = "ready"
  /\ failures \in 0 .. MaxFailures /\ idles \in 0 .. MaxIdle

Init == /\ buf = EmptyBuffer
        /\ lock = 0 /\ made = 0
        /\ activity = "none"
        /\ mine = [c \in Call |-> 0]
        /\ pc = [c \in Call |-> "ready"]
        /\ todo = TurnMessages
        /\ index = [t \in Turn |-> 0]
        /\ hand = [c \in Call |-> NoChunk]
        /\ chosen = [e \in End |-> {}]
        /\ imm = {} /\ merged = {} /\ final = {}
        /\ events = {} /\ event = NoEvent
        /\ appended = <<>> /\ indices = <<>>
        /\ failures = 0 /\ idles = 0

Goto(c, label) == pc' = [pc EXCEPT ![c] = label]

Drop == /\ buf' = EmptyBuffer
        /\ lock' = 0
        /\ activity' = "none"
        /\ UNCHANGED made

Failure == failures < MaxFailures /\ failures' = failures + 1

-------------------------------------------------------------------------------
(* The lock. *)

Held(l) == \E c \in Call : pc[c] \in Inside /\ mine[c] = l

Wanted(l) == \E c \in Call : pc[c] = "queued" /\ mine[c] = l

MergeNextOnce(c, b) ==
  IF HasPendingMerge(b) /\ pc[c] # "writing"
  THEN /\ hand' = [hand EXCEPT ![c] = Head(b.pending)]
       /\ buf' = PopMergeChunk(b)
       /\ Goto(c, "writing")
       /\ UNCHANGED event
  ELSE /\ hand' = [hand EXCEPT ![c] = NoChunk]
       /\ buf' = b
       /\ Goto(c, IF c = Worker THEN "ready" ELSE "loading")
       /\ event' = IF c = Worker THEN NoEvent ELSE event

\* The merge loop of call c over buffer b: take the next frozen chunk, or leave
\* the loop.
MergeNext(c, b) ==
  IF HasPendingMerge(b)
  THEN /\ hand' = [hand EXCEPT ![c] = Head(b.pending)]
       /\ buf' = PopMergeChunk(b)
       /\ Goto(c, "writing")
       /\ UNCHANGED event
  ELSE /\ hand' = [hand EXCEPT ![c] = NoChunk]
       /\ buf' = b
       /\ Goto(c, IF c = Worker THEN "ready" ELSE "loading")
       /\ event' = IF c = Worker THEN NoEvent ELSE event

\* What a call does first when it has the lock, the buffer being b and the last
\* activity a: turns and ends touch the session, merge actions do not.  A turn takes
\* the index of its first message.
Enter(c, b, a) ==
  \/ /\ c \in Turn
     /\ Goto(c, "storing")
     /\ buf' = b
     /\ index' = [index EXCEPT ![c] = NextMsgIndex(b)]
     /\ activity' = "recent"
     /\ UNCHANGED <<hand, event>>
  \/ /\ c \in End
     /\ MergeNext(c, FreezeAllChunks(b))
     /\ activity' = "recent"
     /\ UNCHANGED index
  \/ /\ c = Worker
     /\ MergeNext(c, FreezeReadyChunks(b))
     /\ activity' = a
     /\ UNCHANGED index

\* SessionBuffer.lock: prune idle sessions, then take the lock of the dictionary
\* or make one; a lock that nobody holds or waits for is acquired on the spot.
AskLock(c) ==
  LET stale == activity = "stale"
      a     == IF stale THEN "none" ELSE activity
      b     == IF stale THEN EmptyBuffer ELSE buf
      entry == IF stale THEN 0 ELSE lock
      l     == IF entry = 0 THEN made + 1 ELSE entry
  IN  /\ pc[c] = IF c = Worker THEN "asking" ELSE "ready"
      /\ lock' = l
      /\ made' = IF entry = 0 THEN l ELSE made
      /\ mine' = [mine EXCEPT ![c] = l]
      /\ IF Held(l) \/ Wanted(l)
         THEN /\ Goto(c, "queued")
              /\ buf' = b /\ activity' = a
              /\ UNCHANGED <<index, hand, event>>
         ELSE Enter(c, b, a)
      /\ UNCHANGED <<todo, chosen, storeVars, events, histVars>>

\* A waiter gets the lock it asked for, whatever became of the dictionary.
GetLock(c) ==
  /\ pc[c] = "queued"
  /\ ~Held(mine[c])
  /\ Enter(c, buf, activity)
  /\ UNCHANGED <<lock, made, mine, todo, chosen, storeVars, events, histVars>>

-------------------------------------------------------------------------------
(* SessionStore.message *)

\* A turn awaits the write of the immediate record under the index it took before.
\* When that is done, the message is appended and the index of the next one taken;
\* after the last one the turn publishes its event.
StoreMessage(t) ==
  LET m == Head(todo[t])
  IN  /\ pc[t] = "storing"
      /\ imm' = imm \cup {m}
      /\ buf' = FreezeReadyChunks(AppendMessage(buf, m))
      /\ appended' = Append(appended, m)
      /\ indices' = Append(indices, index[t])
      /\ todo' = [todo EXCEPT ![t] = Tail(@)]
      /\ IF Len(todo[t]) = 1
         THEN Goto(t, "done") /\ events' = events \cup {TurnEvent(t)} /\ UNCHANGED index
         ELSE index' = [index EXCEPT ![t] = NextMsgIndex(buf')] /\ UNCHANGED <<pc, events>>
      /\ UNCHANGED <<lock, made, activity, mine, hand, chosen, merged, final, event,
                     failures, idles>>

\* Embedding or write fail, the latter possibly after the record reached the store:
\* the turn is over without its event.
StoreFails(t) ==
  /\ pc[t] = "storing"
  /\ Failure
  /\ Goto(t, "failed")
  /\ imm' \in {imm, imm \cup {Head(todo[t])}}
  /\ UNCHANGED <<dictVars, mine, todo, index, hand, chosen, merged, final, eventVars,
                 appended, indices, idles>>

-------------------------------------------------------------------------------
(* SessionMerger.merge_unmerged, called by the merge action and session/end *)

WriteMerged(c) ==
  /\ pc[c] = "writing"
  /\ merged' = Upsert(merged, Record(hand[c], FALSE))
  /\ events' = events \cup {MergedEvent(hand[c])}
  /\ chosen' = IF c \in End
               THEN [chosen EXCEPT ![c] = Upsert(@, Record(hand[c], FALSE))]
               ELSE chosen
  /\ MergeNext(c, buf)
  /\ UNCHANGED <<lock, made, activity, mine, todo, index, imm, final, histVars>>

\* The worker's event is retried, or its attempts are used up.
GiveUpEvent == /\ Goto(Worker, "ready")
               /\ event' = NoEvent
               /\ events' \in {events, events \cup {event}}

WriteFailsHoldingChunk(c) ==
  /\ pc[c] = "writing"
  /\ Failure
  /\ UNCHANGED <<hand, merged>>
  /\ IF c = Worker THEN GiveUpEvent ELSE Goto(c, "failed") /\ UNCHANGED eventVars
  /\ UNCHANGED <<dictVars, mine, todo, index, chosen, imm, final, appended, indices, idles>>

\* The write fails, possibly after the record reached the store.  The chunk was
\* taken from the buffer before.
WriteFails(c) ==
  /\ pc[c] = "writing"
  /\ Failure
  /\ hand' = [hand EXCEPT ![c] = NoChunk]
  /\ merged' \in {merged, Upsert(merged, Record(hand[c], FALSE))}
  /\ IF c = Worker THEN GiveUpEvent ELSE Goto(c, "failed") /\ UNCHANGED eventVars
  /\ UNCHANGED <<dictVars, mine, todo, index, chosen, imm, final, appended, indices, idles>>

-------------------------------------------------------------------------------
(* SessionEnder.end *)

\* load_merged_records finds only records that are ready; those this call wrote
\* are added.
LoadMergedRecords(e) ==
  LET ready == {r \in merged : r.ready}
      known == {r.uri : r \in ready}
      all   == ready \cup {r \in chosen[e] : r.uri \notin known}
  IN  /\ pc[e] = "loading"
      /\ chosen' = [chosen EXCEPT ![e] = all]
      /\ IF all = {}
         THEN Goto(e, "empty") /\ Drop
         ELSE Goto(e, "ending") /\ UNCHANGED dictVars
      /\ UNCHANGED <<mine, todo, index, hand, storeVars, eventVars, histVars>>

WriteFinal(e) ==
  /\ pc[e] = "ending"
  /\ final' = MessagesOf(chosen[e])
  /\ Goto(e, "done")
  /\ Drop
  /\ UNCHANGED <<mine, todo, index, hand, chosen, imm, merged, eventVars, histVars>>

\* The load, the final record or its tree fails, the latter after the record is
\* written.
EndFails(e) ==
  /\ pc[e] \in {"loading", "ending"}
  /\ Failure
  /\ Goto(e, "failed")
  /\ final' \in IF pc[e] = "ending" THEN {final, MessagesOf(chosen[e])} ELSE {final}
  /\ UNCHANGED <<dictVars, mine, todo, index, hand, chosen, imm, merged, eventVars,
                 appended, indices, idles>>

-------------------------------------------------------------------------------
(* The worker: one event of the session at a time, in any order, since events *)
(* that are retried are overtaken.                                            *)

TakeEvent ==
  /\ pc[Worker] = "ready"
  /\ \E e \in events :
        /\ event' = e
        /\ events' = events \ {e}
        /\ Goto(Worker, IF e.kind = "turn" THEN "asking" ELSE "derive")
  /\ UNCHANGED <<dictVars, mine, todo, index, hand, chosen, storeVars, histVars>>

\* SemanticDeriveAction writes the ready record from the copy in the event.  The
\* cleanup action runs even if it fails.
Derive ==
  /\ pc[Worker] = "derive"
  /\ \/ /\ merged' = Upsert(merged, Record(event.chunk, TRUE))
        /\ Goto(Worker, "cleanup")
        /\ UNCHANGED failures
     \/ /\ Failure
        /\ Goto(Worker, "retry")
        /\ UNCHANGED merged
  /\ UNCHANGED <<dictVars, mine, todo, index, hand, chosen, imm, final, eventVars,
                 appended, indices, idles>>

\* SessionCleanupAction removes the immediate records of the chunk one by one.
Cleanup ==
  /\ pc[Worker] \in {"cleanup", "retry"}
  /\ imm' = imm \ ToSet(event.chunk.messages)
  /\ IF pc[Worker] = "retry"
     THEN GiveUpEvent
     ELSE Goto(Worker, "ready") /\ event' = NoEvent /\ UNCHANGED events
  /\ UNCHANGED <<dictVars, mine, todo, index, hand, chosen, merged, final, histVars>>

CleanupFails ==
  /\ pc[Worker] \in {"cleanup", "retry"}
  /\ Failure
  /\ \E n \in 0 .. Len(event.chunk.messages) - 1 :
        imm' = imm \ ToSet(SubSeq(event.chunk.messages, 1, n))
  /\ GiveUpEvent
  /\ UNCHANGED <<dictVars, mine, todo, index, hand, chosen, merged, final, appended, indices, idles>>

-------------------------------------------------------------------------------
(* Idle sessions *)

\* idle_ttl_seconds pass after the last touch.  Turns and ends are quicker than
\* that; a merge that waited in the queue need not be.
GoIdle ==
  /\ activity = "recent"
  /\ idles < MaxIdle
  /\ \A c \in Turn \cup End : pc[c] \notin Inside
  /\ activity' = "stale"
  /\ idles' = idles + 1
  /\ UNCHANGED <<buf, lock, made, mine, pc, todo, index, hand, chosen, storeVars, eventVars,
                 appended, indices, failures>>

\* prune_idle, run by a call of another session.
PruneIdle ==
  /\ activity = "stale"
  /\ Drop
  /\ UNCHANGED <<mine, pc, todo, index, hand, chosen, storeVars, eventVars, histVars>>

-------------------------------------------------------------------------------
MergeStep(c) == AskLock(c) \/ GetLock(c) \/ WriteMerged(c)

TurnStep(t) == AskLock(t) \/ GetLock(t) \/ StoreMessage(t)

EndStep(e) == MergeStep(e) \/ LoadMergedRecords(e) \/ WriteFinal(e)

WorkerStep == MergeStep(Worker) \/ TakeEvent \/ Derive \/ Cleanup

Fault == \/ \E t \in Turn : StoreFails(t)
         \/ \E c \in End \cup {Worker} : WriteFails(c)
         \/ \E e \in End : EndFails(e)
         \/ CleanupFails

Next == \/ \E t \in Turn : TurnStep(t)
        \/ \E e \in End : EndStep(e)
        \/ WorkerStep
        \/ Fault
        \/ GoIdle \/ PruneIdle

Spec == Init /\ [][Next]_vars

\* The worker keeps working and calls that were made run on; no call must come.
Fairness == /\ WF_vars(WorkerStep)
            /\ \A t \in Turn : WF_vars(GetLock(t) \/ StoreMessage(t))
            /\ \A e \in End : WF_vars(GetLock(e) \/ WriteMerged(e)
                                      \/ LoadMergedRecords(e) \/ WriteFinal(e))

FairSpec == Spec /\ Fairness

-------------------------------------------------------------------------------
InHand == {hand[c] : c \in {d \in Call : hand[d] # NoChunk}}

\* Messages that will reach a merged record, or have.
Carried == Waiting(buf) \cup MessagesOf(InHand) \cup MessagesOf(merged) \cup final

\* No message goes into two merged records, whatever fails, is dropped or merged
\* concurrently: it is in one place of the buffer, one chunk on its way, or one
\* merged record.
MergedOnce ==
  LET chunks == InHand \cup merged
  IN  /\ Distinct(buf)
      /\ Waiting(buf) \cap MessagesOf(chunks) = {}
      /\ \A x, y \in chunks : x # y => ToSet(x.messages) \cap ToSet(y.messages) = {}

\* A frozen chunk stays within the token budget unless it is a single message, in
\* the queue and on its way into a merged record.
ChunksBounded == \A x \in ToSet(buf.pending) \cup InHand \cup merged : Bounded(x.messages)

\* The session was neither ended nor idle, so that its buffer was never dropped.
NeverDropped == idles = 0 /\ \A e \in End : pc[e] \notin {"done", "empty"}

\* The range in the URI of a merged record names its messages: turns and ends
\* interleave with merges and writes fail, yet the indexes count the messages of
\* the session in the order they were stored, until the buffer is dropped.
InPlace(x) == PlacedIn(x, appended)

RecordInPlace(r) == InPlace([start |-> r.uri[1], messages |-> r.messages])

RangesExact ==
  NeverDropped => /\ \A x \in ToSet(Runs(buf)) \cup InHand : InPlace(x)
                  /\ \A r \in merged : RecordInPlace(r)

\* The msg_index an immediate record was written with is the place its message took
\* in the session, although the buffer is left to others between next_msg_index and
\* append, until the buffer is dropped.
IndexesExact ==
  NeverDropped => /\ Len(indices) = Len(appended)
                  /\ \A k \in DOMAIN indices : indices[k] = k - 1

\* docs/design/opencortex-functional-parity.md: no immediate record is lost before
\* it is merged.  An immediate record is only ever removed when a merged record
\* carries its message, whatever fails, until the buffer is dropped.
ImmediateUntilMerged ==
  NeverDropped => ToSet(appended) \subseteq imm \cup MessagesOf(merged)

\* Every stored message stays on its way to a merged record: in the buffer, in
\* the hands of a merge, or merged.
NothingForgotten == ToSet(appended) \subseteq Carried

\* docs/design/opencortex-functional-parity.md: changes of one session's state
\* must be serial, which the session's lock is for.
SerialSession ==
  \A c, d \in Call : pc[c] \in Inside /\ pc[d] \in Inside => c = d

\* SessionEnder.end: the final record takes in every message of the session that was
\* stored when the end reads the merged records, those still in the buffer included,
\* provided nothing failed, the buffer was never dropped, and the worker has derived
\* the records it merged itself.
EndCoversSession ==
  [][\A e \in End :
       /\ pc[e] = "loading" /\ pc'[e] = "ending"
       /\ failures = 0 /\ NeverDropped
       /\ \A r \in merged : r.ready \/ \E own \in chosen[e] : own.uri = r.uri
       => ToSet(appended) \subseteq MessagesOf(chosen'[e])]_vars

\* A frozen chunk is merged and its immediate records are cleaned up, eventually.
FrozenGetsMerged ==
  \A m \in Msg : m \in MessagesOf(ToSet(buf.pending))
                 ~> m \in MessagesOf({r \in merged : r.ready}) /\ m \notin imm
===============================================================================
