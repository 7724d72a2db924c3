--------------------------- MODULE SessionFlowProofs ---------------------------
(***************************************************************************)
(* Proofs about SessionFlow, for any turns, ends, messages, weights and    *)
(* budget, and any number of failures and idle periods.                    *)
(***************************************************************************)
EXTENDS SessionFlow, SessionBufferProofs

TurnEvents   == [kind : {"turn"}, turn : Turn]
MergedEvents == [kind : {"merged"}, chunk : Chunk]

RecordSet == [uri : Nat \X Int, messages : Seq(Msg), ready : BOOLEAN]

Hands == [Call -> Chunk \cup {NoChunk}]

TurnPC   == {"ready", "queued", "storing", "done", "failed"}
EndPC    == {"ready", "queued", "writing", "loading", "ending", "done", "failed", "empty"}
WorkerPC == {"ready", "asking", "queued", "writing", "derive", "cleanup", "retry"}

Typed ==
  /\ buf \in Buffer
  /\ made \in Nat /\ lock \in 0 .. made
  /\ activity \in {"none", "recent", "stale"}
  /\ mine \in [Call -> 0 .. made]
  /\ pc \in [Call -> PC]
  /\ todo \in [Turn -> Seq(Msg)]
  /\ hand \in Hands
  /\ chosen \in [End -> SUBSET RecordSet]
  /\ imm \subseteq Msg /\ merged \subseteq RecordSet /\ final \subseteq Msg
  /\ events \subseteq TurnEvents \cup MergedEvents
  /\ event \in TurnEvents \cup MergedEvents \cup {NoEvent}
  /\ appended \in Seq(Msg)
  /\ failures \in 0 .. MaxFailures /\ idles \in 0 .. MaxIdle

\* Where a call is decides what it has.
PlacesInv ==
  /\ \A t \in Turn : /\ pc[t] \in TurnPC
                     /\ pc[t] \in {"ready", "queued", "storing"} => todo[t] # <<>>
  /\ \A e \in End : pc[e] \in EndPC
  /\ pc[Worker] \in WorkerPC
  /\ pc[Worker] \in {"derive", "cleanup", "retry"} => event \in MergedEvents
  /\ \A c \in Call : pc[c] = "writing" <=> hand[c] # NoChunk
  /\ event = NoEvent <=> pc[Worker] = "ready"

OneRecord == \A r, s \in merged : r.uri = s.uri => r = s

Basic == Typed /\ PlacesInv /\ OneRecord

\* A merged chunk is known by its identity and its messages, in the collection and
\* in the events that carry a copy of it.
Pair(x) == <<Uri(x), x.messages>>

EventChunks == {e.chunk : e \in {x \in events \cup {event} : x.kind = "merged"}}

Written == {<<r.uri, r.messages>> : r \in merged} \cup {Pair(x) : x \in EventChunks}

Pairs == (Nat \X Int) \X Seq(Msg)

\* What a buffer b, the hands h of the calls, and the written pairs W have of the
\* stored messages s.  No message is in two places:
Apart(b, h, W) ==
  /\ Distinct(b)
  /\ \A c \in Call : h[c] # NoChunk =>
        /\ Waiting(b) \cap ToSet(h[c].messages) = {}
        /\ \A d \in Call : d # c /\ h[d] # NoChunk
              => ToSet(h[c].messages) \cap ToSet(h[d].messages) = {}
        /\ \A w \in W : ToSet(w[2]) \cap ToSet(h[c].messages) = {}
  /\ \A w \in W : Waiting(b) \cap ToSet(w[2]) = {}
  /\ \A v, w \in W : ToSet(v[2]) \cap ToSet(w[2]) # {} => v = w

\* nothing but stored messages is in any place,
Within(b, h, W, s) ==
  /\ Waiting(b) \subseteq ToSet(s)
  /\ \A c \in Call : h[c] # NoChunk => ToSet(h[c].messages) \subseteq ToSet(s)
  /\ \A w \in W : ToSet(w[2]) \subseteq ToSet(s)

\* no chunk is too large,
Small(b, h, W) ==
  /\ \A x \in ToSet(b.pending) : Bounded(x.messages)
  /\ \A c \in Call : h[c] # NoChunk => Bounded(h[c].messages)
  /\ \A w \in W : Bounded(w[2])

\* and the indexes are those of the messages.
Numbered(b, h, W, s) ==
  /\ NextMsgIndex(b) = Len(s)
  /\ \A x \in ToSet(Runs(b)) : PlacedIn(x, s)
  /\ \A c \in Call : h[c] # NoChunk => PlacedIn(h[c], s)
  /\ \A w \in W : PlacedIn([start |-> w[1][1], messages |-> w[2]], s)

FreshInv ==
  /\ \A t \in Turn : /\ IsInjective(todo[t])
                     /\ ToSet(todo[t]) \cap ToSet(appended) = {}
  /\ \A t, u \in Turn : t # u => ToSet(todo[t]) \cap ToSet(todo[u]) = {}

ContentInv == /\ Apart(buf, hand, Written)
              /\ Within(buf, hand, Written, appended)
              /\ Small(buf, hand, Written)
              /\ FreshInv

IdleInv == activity = "stale" => idles > 0

\* Chosen records are counted among the written ones here.
Chosen == UNION {{<<r.uri, r.messages>> : r \in chosen[e]} : e \in End}

RangeInv == \A w \in Written \cup Chosen : w[1][2] = w[1][1] + Len(w[2]) - 1

NumberedInv == NeverDropped => Numbered(buf, hand, Written \cup Chosen, appended)

\* The event of a merged record comes with it.
EventsMerged == \A x \in EventChunks : \E r \in merged : r.uri = Uri(x)

\* There is one lock as long as it is not dropped.
LockInv ==
  NeverDropped => \A c \in Call : pc[c] \in Inside \cup {"queued"} => lock # 0 /\ mine[c] = lock

\* An end has frozen everything, and then taken every chunk.
EndInv ==
  NeverDropped => \A e \in End :
     /\ pc[e] \in {"writing", "loading"} => buf.active = <<>>
     /\ pc[e] = "loading" => buf.pending = <<>>

\* Nothing gets lost without a failure.
KeptInv ==
  failures = 0 /\ NeverDropped
    => ToSet(appended) \subseteq Waiting(buf) \cup MessagesOf(InHand) \cup MessagesOf(merged)

-------------------------------------------------------------------------------
(* Values and the forms of the steps that calls share. *)

LEMMA Calls ==
  /\ Turn \subseteq Call /\ End \subseteq Call /\ Worker \in Call
  /\ \A c \in Call : c \in Turn \/ c \in End \/ c = Worker
  /\ Worker \notin Turn /\ Worker \notin End
  /\ \A t \in Turn : t \notin End
BY SessionAssumption DEF Call

LEMMA UriTyped ==
  ASSUME NEW x \in Chunk
  PROVE  /\ Uri(x) \in Nat \X Int /\ x.messages \in Seq(Msg) /\ x.start \in Nat
         /\ Pair(x) \in Pairs
         /\ \A b \in BOOLEAN : /\ Record(x, b) \in RecordSet
                               /\ Record(x, b).uri = Uri(x)
                               /\ Record(x, b).messages = x.messages
<1>1. x.messages \in Seq(Msg) /\ x.start \in Nat
  BY DEF Chunk
<1>2. Len(x.messages) \in Nat
  BY <1>1
<1>3. x.start + Len(x.messages) - 1 \in Int
  <2> DEFINE l == Len(x.messages)
  <2> HIDE DEF l
  <2>1. l \in Nat  BY <1>2 DEF l
  <2>2. x.start + l - 1 \in Int  BY <1>1, <2>1
  <2> QED BY <2>2 DEF l
<1>4. Uri(x) \in Nat \X Int
  BY <1>1, <1>3 DEF Uri
<1> QED
  BY <1>1, <1>4 DEF Pair, Pairs, Record, RecordSet

LEMMA UpsertTyped ==
  ASSUME NEW S \in SUBSET RecordSet, NEW r \in RecordSet
  PROVE  /\ Upsert(S, r) \in SUBSET RecordSet
         /\ (\A x, y \in S : x.uri = y.uri => x = y)
               => \A x, y \in Upsert(S, r) : x.uri = y.uri => x = y
BY DEF Upsert

LEMMA MessagesTyped ==
  ASSUME NEW S \in SUBSET RecordSet
  PROVE  MessagesOf(S) \subseteq Msg
<1>1. \A r \in S : r.messages \in Seq(Msg)
  BY DEF RecordSet
<1>2. \A ms \in Seq(Msg) : ToSet(ms) \subseteq Msg
  BY DEF ToSet
<1> QED
  BY <1>1, <1>2 DEF MessagesOf

LEMMA EmptyTyped == EmptyBuffer \in Buffer
BY DEF EmptyBuffer, Buffer

\* A merge loop takes a chunk or ends.
Takes(c, f) ==
  /\ f.pending # <<>>
  /\ hand' = [hand EXCEPT ![c] = Head(f.pending)]
  /\ buf' = PopMergeChunk(f)
  /\ pc' = [pc EXCEPT ![c] = "writing"]
  /\ event' = event

Leaves(c, f) ==
  /\ f.pending = <<>>
  /\ hand' = [hand EXCEPT ![c] = NoChunk]
  /\ buf' = f
  /\ \/ c = Worker /\ pc' = [pc EXCEPT ![c] = "ready"] /\ event' = NoEvent
     \/ c # Worker /\ pc' = [pc EXCEPT ![c] = "loading"] /\ event' = event

LEMMA MergeNextForms ==
  ASSUME NEW c, NEW f, MergeNext(c, f)
  PROVE  Takes(c, f) \/ Leaves(c, f)
<1>1. CASE f.pending # <<>>
  BY <1>1 DEF MergeNext, HasPendingMerge, Takes, Goto
<1>2. CASE f.pending = <<>>
  BY <1>2 DEF MergeNext, HasPendingMerge, Leaves, Goto
<1> QED
  BY <1>1, <1>2

\* A turn goes on with the buffer as it is; an end and the worker freeze first.
Enters(c, b, a) ==
  \/ /\ c \in Turn
     /\ pc' = [pc EXCEPT ![c] = "storing"]
     /\ buf' = b
     /\ activity' = "recent"
     /\ hand' = hand /\ event' = event
  \/ /\ c \in End \cup {Worker}
     /\ \E f \in Buffer : /\ Refrozen(b, f)
                          /\ c \in End => f.active = <<>>
                          /\ Takes(c, f) \/ Leaves(c, f)
     /\ activity' \in {"recent", a}

LEMMA EnterForms ==
  ASSUME NEW c \in Call, NEW b \in Buffer, NEW a, Enter(c, b, a)
  PROVE  Enters(c, b, a)
<1>1. CASE c \in Turn /\ Goto(c, "storing") /\ buf' = b /\ activity' = "recent"
           /\ UNCHANGED <<hand, event>>
  BY <1>1 DEF Enters, Goto
<1>2. CASE c \in End /\ MergeNext(c, FreezeAllChunks(b)) /\ activity' = "recent"
  <2>1. Refrozen(b, FreezeAllChunks(b)) /\ FreezeAllChunks(b).active = <<>>
    BY FreezeChunksRefreezes DEF FreezeAllChunks
  <2>2. FreezeAllChunks(b) \in Buffer
    BY <2>1 DEF Refrozen
  <2> QED BY <1>2, <2>1, <2>2, MergeNextForms DEF Enters
<1>3. CASE c = Worker /\ MergeNext(c, FreezeReadyChunks(b)) /\ activity' = a
  <2>1. Refrozen(b, FreezeReadyChunks(b))
    BY FreezeChunksRefreezes DEF FreezeReadyChunks
  <2>2. FreezeReadyChunks(b) \in Buffer
    BY <2>1 DEF Refrozen
  <2> QED BY <1>3, <2>1, <2>2, MergeNextForms, Calls DEF Enters
<1> QED
  BY <1>1, <1>2, <1>3 DEF Enter

\* Asking for the lock prunes an idle session, and waits or enters.
Asks(c, b, l) ==
  /\ pc[c] = IF c = Worker THEN "asking" ELSE "ready"
  /\ \/ b = buf /\ activity # "stale"
     \/ b = EmptyBuffer /\ activity = "stale"
  /\ l # 0 /\ lock' = l /\ mine' = [mine EXCEPT ![c] = l]
  /\ made' \in Nat /\ l \in 0 .. made' /\ made \in 0 .. made'
  /\ (lock # 0 /\ activity # "stale") => l = lock
  /\ \/ /\ pc' = [pc EXCEPT ![c] = "queued"]
        /\ buf' = b /\ hand' = hand /\ event' = event
        /\ activity' \in {activity, "none"}
     \/ /\ \A d \in Call : ~(pc[d] \in Inside /\ mine[d] = l)
        /\ \A d \in Call : ~(pc[d] = "queued" /\ mine[d] = l)
        /\ Enters(c, b, activity) \/ Enters(c, b, "none")
  /\ activity' # "stale"
  /\ UNCHANGED <<todo, chosen, storeVars, events, histVars>>

LEMMA AskForms ==
  ASSUME NEW c \in Call, Typed, AskLock(c)
  PROVE  \E b \in {buf, EmptyBuffer}, l \in Nat : Asks(c, b, l)
<1> DEFINE stale == activity = "stale"
           a     == IF stale THEN "none" ELSE activity
           b     == IF stale THEN EmptyBuffer ELSE buf
           entry == IF stale THEN 0 ELSE lock
           l     == IF entry = 0 THEN made + 1 ELSE entry
<1>1. /\ pc[c] = IF c = Worker THEN "asking" ELSE "ready"
      /\ lock' = l
      /\ made' = IF entry = 0 THEN l ELSE made
      /\ mine' = [mine EXCEPT ![c] = l]
      /\ UNCHANGED <<todo, chosen, storeVars, events, histVars>>
  BY DEF AskLock
<1>2. \/ /\ Goto(c, "queued")
         /\ buf' = b /\ activity' = a
         /\ UNCHANGED <<hand, event>>
      \/ ~(Held(l) \/ Wanted(l)) /\ Enter(c, b, a)
  BY DEF AskLock
<1>3. b \in {buf, EmptyBuffer} /\ b \in Buffer
  BY EmptyTyped DEF Typed
<1>4. \/ b = buf /\ activity # "stale" /\ a = activity
      \/ b = EmptyBuffer /\ activity = "stale" /\ a = "none"
  OBVIOUS
<1>5. /\ l \in Nat /\ l # 0 /\ made' \in Nat /\ l \in 0 .. made' /\ made \in 0 .. made'
      /\ (lock # 0 /\ activity # "stale") => l = lock
  <2>1. made \in Nat /\ lock \in 0 .. made /\ made + 1 \in Nat /\ made + 1 # 0
        /\ made \in 0 .. made + 1 /\ made + 1 \in 0 .. made + 1 /\ made \in 0 .. made
    BY DEF Typed
  <2>2. CASE entry = 0
    BY <1>1, <2>1, <2>2
  <2>3. CASE entry # 0
    BY <1>1, <2>1, <2>3
  <2> QED BY <2>2, <2>3
<1> HIDE DEF b, a, l, entry
<1>6. \/ /\ pc' = [pc EXCEPT ![c] = "queued"]
         /\ buf' = b /\ hand' = hand /\ event' = event
         /\ activity' = a
      \/ /\ \A d \in Call : ~(pc[d] \in Inside /\ mine[d] = l)
         /\ \A d \in Call : ~(pc[d] = "queued" /\ mine[d] = l)
         /\ Enters(c, b, a)
  BY <1>2, <1>3, EnterForms DEF Goto, Held, Wanted
<1>7. activity' # "stale"
  BY <1>4, <1>6 DEF Enters
<1> QED
  BY <1>1, <1>3, <1>4, <1>5, <1>6, <1>7 DEF Asks

-------------------------------------------------------------------------------
(* Types and places. *)

\* The part of Typed and PlacesInv that merge loops and entering calls change.
Moving == /\ buf \in Buffer /\ hand \in Hands
          /\ pc \in [Call -> PC]
          /\ event \in TurnEvents \cup MergedEvents \cup {NoEvent}
          /\ PlacesInv

LEMMA EventValues ==
  /\ NoEvent \notin TurnEvents \cup MergedEvents
  /\ \A e \in TurnEvents : e.kind = "turn"
  /\ \A e \in MergedEvents : e.kind = "merged" /\ e.chunk \in Chunk
  /\ NoEvent.kind = "none"
<1>1. NoEvent.kind = "none"
  BY DEF NoEvent
<1>2. \A e \in TurnEvents : e.kind = "turn"
  BY DEF TurnEvents
<1>3. \A e \in MergedEvents : e.kind = "merged" /\ e.chunk \in Chunk
  BY DEF MergedEvents
<1> QED
  BY <1>1, <1>2, <1>3

LEMMA MergeMoves ==
  ASSUME Typed, PlacesInv, NEW c \in End \cup {Worker}, NEW f \in Buffer,
         Takes(c, f) \/ Leaves(c, f), todo' = todo,
         pc[c] \in {"ready", "asking", "queued", "writing"}, c = Worker => pc[c] # "ready"
  PROVE  Moving'
<1>1. c \in Call /\ c \notin Turn
  BY Calls
<1>2. pc \in [Call -> PC] /\ hand \in Hands
      /\ event \in TurnEvents \cup MergedEvents \cup {NoEvent}
  BY DEF Typed
<1>3. NoChunk \notin Chunk
  BY SessionAssumption
<1>4. CASE Takes(c, f)
  <2>1. Head(f.pending) \in Chunk /\ PopMergeChunk(f) \in Buffer
    BY <1>4, PopKeeps DEF Takes
  <2>2. /\ hand' = [hand EXCEPT ![c] = Head(f.pending)] /\ buf' = PopMergeChunk(f)
        /\ pc' = [pc EXCEPT ![c] = "writing"] /\ event' = event
    BY <1>4 DEF Takes
  <2>3. hand' \in Hands
    BY <1>1, <1>2, <2>1, <2>2 DEF Hands
  <2>4. "writing" \in PC
    BY DEF PC, Inside
  <2>5. pc' \in [Call -> PC]
    BY <1>1, <1>2, <2>2, <2>4
  <2>6. PlacesInv'
    <3>1. \A d \in Call : pc'[d] = "writing" <=> hand'[d] # NoChunk
      BY <1>1, <1>2, <1>3, <2>1, <2>2 DEF PlacesInv, Hands
    <3>2. \A t \in Turn : /\ pc'[t] \in TurnPC
                          /\ pc'[t] \in {"ready", "queued", "storing"} => todo'[t] # <<>>
      BY <1>1, <1>2, <2>2, Calls DEF PlacesInv
    <3>3. \A e \in End : pc'[e] \in EndPC
      BY <1>1, <1>2, <2>2, Calls DEF PlacesInv, EndPC
    <3>4. pc'[Worker] \in WorkerPC
      BY <1>1, <1>2, <2>2, Calls DEF PlacesInv, WorkerPC
    <3>5. pc'[Worker] \in {"derive", "cleanup", "retry"} => event' \in MergedEvents
      BY <1>1, <1>2, <2>2, Calls DEF PlacesInv
    <3>6. event' = NoEvent <=> pc'[Worker] = "ready"
      BY <1>1, <1>2, <2>2, Calls DEF PlacesInv
    <3> QED BY <3>1, <3>2, <3>3, <3>4, <3>5, <3>6 DEF PlacesInv
  <2> QED BY <1>2, <2>1, <2>2, <2>3, <2>5, <2>6 DEF Moving
<1>5. CASE Leaves(c, f)
  <2>1. PICK label \in {"ready", "loading"} :
           /\ hand' = [hand EXCEPT ![c] = NoChunk] /\ buf' = f
           /\ pc' = [pc EXCEPT ![c] = label]
           /\ \/ c = Worker /\ label = "ready" /\ event' = NoEvent
              \/ c # Worker /\ label = "loading" /\ event' = event
    BY <1>5 DEF Leaves
  <2>2. label \in PC /\ label # "writing"
    BY DEF PC, Inside
  <2>3. hand' \in Hands /\ pc' \in [Call -> PC]
    BY <1>1, <1>2, <2>1, <2>2 DEF Hands
  <2>4. PlacesInv'
    <3>1. \A d \in Call : pc'[d] = "writing" <=> hand'[d] # NoChunk
      BY <1>1, <1>2, <2>1, <2>2 DEF PlacesInv, Hands
    <3>2. \A t \in Turn : /\ pc'[t] \in TurnPC
                          /\ pc'[t] \in {"ready", "queued", "storing"} => todo'[t] # <<>>
      BY <1>1, <1>2, <2>1, Calls DEF PlacesInv
    <3>3. \A e \in End : pc'[e] \in EndPC
      BY <1>1, <1>2, <2>1, Calls DEF PlacesInv, EndPC
    <3>4. pc'[Worker] \in WorkerPC
      BY <1>1, <1>2, <2>1, Calls DEF PlacesInv, WorkerPC
    <3>5. pc'[Worker] \in {"derive", "cleanup", "retry"} => event' \in MergedEvents
      BY <1>1, <1>2, <2>1, Calls DEF PlacesInv
    <3>6. event' = NoEvent <=> pc'[Worker] = "ready"
      BY <1>1, <1>2, <2>1, Calls DEF PlacesInv
    <3> QED BY <3>1, <3>2, <3>3, <3>4, <3>5, <3>6 DEF PlacesInv
  <2> QED BY <1>2, <2>1, <2>3, <2>4 DEF Moving
<1> QED
  BY <1>4, <1>5

\* A call that goes to a place where no chunk and no event is needed.
LEMMA PlainMove ==
  ASSUME Typed, PlacesInv, NEW c \in Turn \cup End \cup {Worker}, NEW label,
         \/ c \in Turn /\ label \in {"queued", "storing", "failed"} /\ todo' = todo
         \/ c \in Turn /\ label = "done"
            /\ \A t \in Turn : t = c \/ todo'[t] = todo[t]
         \/ c \in End /\ label \in EndPC \ {"writing"} /\ todo' = todo
         \/ c = Worker /\ label = "queued" /\ todo' = todo,
         pc[c] # "writing", c = Worker => pc[c] # "ready", todo[c] # <<>> \/ c \notin Turn,
         buf' \in Buffer, hand' = hand, event' = event,
         pc' = [pc EXCEPT ![c] = label]
  PROVE  Moving'
<1>1. c \in Call
  BY DEF Call
<1>2. pc \in [Call -> PC] /\ hand \in Hands
      /\ event \in TurnEvents \cup MergedEvents \cup {NoEvent}
  BY DEF Typed
<1>3. label \in PC /\ label # "writing"
  BY DEF PC, Inside, EndPC
<1>4. pc' \in [Call -> PC] /\ hand' \in Hands
  BY <1>1, <1>2, <1>3
<1>5. \A d \in Call : pc'[d] = "writing" <=> hand'[d] # NoChunk
  BY <1>1, <1>2, <1>3 DEF PlacesInv
<1>6. \A t \in Turn : /\ pc'[t] \in TurnPC
                      /\ pc'[t] \in {"ready", "queued", "storing"} => todo'[t] # <<>>
  <2> TAKE t \in Turn
  <2>1. CASE t = c
    BY <2>1, <1>1, <1>2, Calls DEF PlacesInv, TurnPC
  <2>2. CASE t # c
    BY <2>2, <1>1, <1>2, Calls DEF PlacesInv
  <2> QED BY <2>1, <2>2
<1>7. \A e \in End : pc'[e] \in EndPC
  BY <1>1, <1>2, Calls DEF PlacesInv, EndPC
<1>8. pc'[Worker] \in WorkerPC
  BY <1>1, <1>2, Calls DEF PlacesInv, WorkerPC
<1>9. pc'[Worker] \in {"derive", "cleanup", "retry"} => event' \in MergedEvents
  BY <1>1, <1>2, Calls DEF PlacesInv
<1>10. event' = NoEvent <=> pc'[Worker] = "ready"
  BY <1>1, <1>2, Calls DEF PlacesInv
<1>11. PlacesInv'
  BY <1>5, <1>6, <1>7, <1>8, <1>9, <1>10 DEF PlacesInv
<1> QED
  BY <1>2, <1>4, <1>11 DEF Moving

LEMMA EnterMoves ==
  ASSUME Typed, PlacesInv, NEW c \in Call, NEW b \in Buffer, NEW a, Enters(c, b, a),
         pc[c] \in {"ready", "asking", "queued"}, c = Worker => pc[c] # "ready",
         todo' = todo
  PROVE  Moving'
<1>1. CASE c \in Turn
  <2>1. /\ pc' = [pc EXCEPT ![c] = "storing"] /\ buf' = b /\ hand' = hand /\ event' = event
    BY <1>1, Calls DEF Enters
  <2>2. todo[c] # <<>>
    BY <1>1 DEF PlacesInv, TurnPC
  <2> QED BY <1>1, <2>1, <2>2, Calls, PlainMove
<1>2. CASE c \in End \cup {Worker}
  <2>1. PICK f \in Buffer : Takes(c, f) \/ Leaves(c, f)
    BY <1>2, Calls DEF Enters
  <2> QED BY <1>2, <2>1, MergeMoves
<1> QED
  BY <1>1, <1>2, Calls

\* The rest of Typed.
Others == /\ made \in Nat /\ lock \in 0 .. made
          /\ activity \in {"none", "recent", "stale"}
          /\ mine \in [Call -> 0 .. made]
          /\ todo \in [Turn -> Seq(Msg)]
          /\ chosen \in [End -> SUBSET RecordSet]
          /\ imm \subseteq Msg /\ merged \subseteq RecordSet /\ final \subseteq Msg
          /\ events \subseteq TurnEvents \cup MergedEvents
          /\ appended \in Seq(Msg)
          /\ failures \in 0 .. MaxFailures /\ idles \in 0 .. MaxIdle

LEMMA TypedParts == Typed /\ PlacesInv <=> Moving /\ Others
BY DEF Typed, Moving, Others

LEMMA AskTyped ==
  ASSUME Basic, NEW c \in Call, AskLock(c)
  PROVE  Basic'
<1>1. Typed /\ PlacesInv /\ OneRecord
  BY DEF Basic
<1>0. PICK b \in {buf, EmptyBuffer}, l \in Nat : Asks(c, b, l)
  BY <1>1, AskForms
<1>2. /\ pc[c] = IF c = Worker THEN "asking" ELSE "ready"
      /\ lock' = l /\ mine' = [mine EXCEPT ![c] = l]
      /\ made' \in Nat /\ l \in 0 .. made' /\ made \in 0 .. made'
      /\ \/ /\ pc' = [pc EXCEPT ![c] = "queued"]
            /\ buf' = b /\ hand' = hand /\ event' = event
            /\ activity' \in {activity, "none"}
         \/ Enters(c, b, activity) \/ Enters(c, b, "none")
      /\ UNCHANGED <<todo, chosen, storeVars, events, histVars>>
  BY <1>0 DEF Asks
<1>3. b \in Buffer
  BY <1>1, EmptyTyped DEF Typed
<1>4. /\ pc[c] \in {"ready", "asking", "queued"} /\ pc[c] # "writing"
      /\ c = Worker => pc[c] # "ready"
  BY <1>2
<1>5. todo' = todo
  BY <1>2
<1>6. Moving'
  <2>1. CASE Enters(c, b, activity) \/ Enters(c, b, "none")
    BY <2>1, <1>1, <1>3, <1>4, <1>5, EnterMoves
  <2>2. CASE /\ pc' = [pc EXCEPT ![c] = "queued"]
             /\ buf' = b /\ hand' = hand /\ event' = event
    <3>1. todo[c] # <<>> \/ c \notin Turn
      BY <1>1, <1>2, Calls DEF PlacesInv
    <3>2. "queued" \in EndPC \ {"writing"}
      BY DEF EndPC
    <3> QED BY <2>2, <3>1, <3>2, <1>1, <1>3, <1>4, <1>5, Calls, PlainMove
  <2> QED BY <1>2, <2>1, <2>2
<1>7. activity' \in {"none", "recent", "stale"}
  BY <1>1, <1>2 DEF Typed, Enters
<1>8. mine' \in [Call -> 0 .. made']
  <2>1. \A d \in Call : mine[d] \in 0 .. made'
    <3>1. \A n \in 0 .. made : n \in 0 .. made'
      BY <1>1, <1>2 DEF Typed
    <3> QED BY <1>1, <3>1 DEF Typed
  <2> QED BY <1>1, <1>2, <2>1 DEF Typed
<1>9. Others'
  BY <1>1, <1>2, <1>7, <1>8 DEF Typed, Others, storeVars, histVars
<1>10. OneRecord'
  BY <1>1, <1>2 DEF OneRecord, storeVars
<1> QED
  BY <1>6, <1>9, <1>10, TypedParts DEF Basic, Typed, PlacesInv, Moving, Others

LEMMA GetTyped ==
  ASSUME Basic, NEW c \in Call, GetLock(c)
  PROVE  Basic'
<1>1. Typed /\ PlacesInv /\ OneRecord
  BY DEF Basic
<1>2. /\ pc[c] = "queued"
      /\ Enter(c, buf, activity)
      /\ UNCHANGED <<lock, made, mine, todo, chosen, storeVars, events, histVars>>
  BY DEF GetLock
<1>3. Enters(c, buf, activity)
  BY <1>1, <1>2, EnterForms DEF Typed
<1>4. Moving'
  BY <1>1, <1>2, <1>3, EnterMoves DEF Typed
<1>5. activity' \in {"none", "recent", "stale"}
  BY <1>1, <1>3 DEF Typed, Enters
<1>6. Others'
  BY <1>1, <1>2, <1>5 DEF Typed, Others, storeVars, histVars
<1>7. OneRecord'
  BY <1>1, <1>2 DEF OneRecord, storeVars
<1> QED
  BY <1>4, <1>6, <1>7 DEF Basic, Typed, PlacesInv, Moving, Others

LEMMA StoreTyped ==
  ASSUME Basic, NEW t \in Turn, StoreMessage(t)
  PROVE  /\ Basic'
         /\ todo[t] # <<>> /\ Head(todo[t]) \in Msg
         /\ todo' = [todo EXCEPT ![t] = Tail(todo[t])]
         /\ appended' = Append(appended, Head(todo[t]))
         /\ Refrozen(AppendMessage(buf, Head(todo[t])), buf')
<1> DEFINE m == Head(todo[t])
<1>1. Typed /\ PlacesInv /\ OneRecord
  BY DEF Basic
<1>2. pc[t] = "storing" /\ t \in Call
  BY Calls DEF StoreMessage
<1>3. todo[t] \in Seq(Msg) /\ todo[t] # <<>>
  BY <1>1, <1>2 DEF Typed, PlacesInv
<1>4. m \in Msg /\ Tail(todo[t]) \in Seq(Msg) /\ (Len(todo[t]) # 1 => Tail(todo[t]) # <<>>)
  <2>1. m \in Msg /\ Tail(todo[t]) \in Seq(Msg) /\ Len(Tail(todo[t])) = Len(todo[t]) - 1
    BY <1>3
  <2>2. Tail(todo[t]) = <<>> => Len(Tail(todo[t])) = 0
    <3>1. Len(<<>>) = 0
      OBVIOUS
    <3> QED BY <3>1, Zenon
  <2>3. Len(todo[t]) \in Nat
    BY <1>3
  <2> QED BY <2>1, <2>2, <2>3
<1>5. AppendMessage(buf, m) \in Buffer
  BY <1>1, <1>4, AppendKeeps DEF Typed
<1>6. Refrozen(AppendMessage(buf, m), buf')
  <2>1. buf' = FreezeChunks(AppendMessage(buf, m), FALSE)
    BY DEF StoreMessage, FreezeReadyChunks
  <2> HIDE DEF m
  <2> QED BY <1>5, <2>1, FreezeChunksRefreezes
<1>7. buf' \in Buffer
  BY <1>6 DEF Refrozen
<1>8. /\ imm' = imm \cup {m}
      /\ appended' = Append(appended, m)
      /\ todo' = [todo EXCEPT ![t] = Tail(todo[t])]
      /\ \/ Len(todo[t]) = 1 /\ pc' = [pc EXCEPT ![t] = "done"] /\ events' = events \cup {TurnEvent(t)}
         \/ Len(todo[t]) # 1 /\ pc' = pc /\ events' = events
      /\ hand' = hand /\ event' = event
      /\ UNCHANGED <<lock, made, activity, mine, chosen, merged, final, failures, idles>>
  BY DEF StoreMessage, Goto
<1> HIDE DEF m
<1>9. /\ todo' \in [Turn -> Seq(Msg)]
      /\ \A u \in Turn : u = t \/ todo'[u] = todo[u]
      /\ todo'[t] = Tail(todo[t])
  BY <1>1, <1>4, <1>8 DEF Typed
<1>10. Moving'
  <2>1. CASE Len(todo[t]) = 1 /\ pc' = [pc EXCEPT ![t] = "done"]
    <3>1. pc[t] # "writing" /\ t # Worker
      BY <1>2, Calls
    <3> QED BY <2>1, <3>1, <1>1, <1>3, <1>7, <1>8, <1>9, PlainMove
  <2>2. CASE Len(todo[t]) # 1 /\ pc' = pc
    BY <2>2, <1>1, <1>4, <1>7, <1>8, <1>9 DEF Moving, Typed, PlacesInv
  <2> QED BY <1>8, <2>1, <2>2
<1>11. Others'
  <2>1. events' \subseteq TurnEvents \cup MergedEvents
    BY <1>1, <1>8 DEF Typed, TurnEvent, TurnEvents
  <2>2. appended' \in Seq(Msg)
    BY <1>1, <1>4, <1>8 DEF Typed
  <2> QED BY <1>1, <1>4, <1>8, <1>9, <2>1, <2>2 DEF Typed, Others
<1>12. OneRecord'
  BY <1>1, <1>8 DEF OneRecord
<1> QED
  BY <1>3, <1>4, <1>6, <1>8, <1>10, <1>11, <1>12 DEF Basic, Typed, PlacesInv, Moving, Others, m

LEMMA StoreFailsTyped ==
  ASSUME Basic, NEW t \in Turn, StoreFails(t)
  PROVE  Basic'
<1>1. Typed /\ PlacesInv /\ OneRecord
  BY DEF Basic
<1>2. /\ pc[t] = "storing" /\ pc' = [pc EXCEPT ![t] = "failed"]
      /\ failures < MaxFailures /\ failures' = failures + 1
      /\ imm' \in {imm, imm \cup {Head(todo[t])}}
      /\ UNCHANGED <<buf, lock, made, activity, mine, todo, hand, chosen, merged, final,
                     events, event, appended, idles>>
  BY DEF StoreFails, Failure, Goto, dictVars, eventVars
<1>3. pc[t] # "writing" /\ t # Worker /\ todo[t] # <<>>
  BY <1>1, <1>2, Calls DEF PlacesInv
<1>4. buf' \in Buffer /\ hand' = hand /\ event' = event /\ todo' = todo
  BY <1>1, <1>2 DEF Typed
<1>5. Moving'
  BY <1>1, <1>2, <1>3, <1>4, PlainMove
<1>6. failures' \in 0 .. MaxFailures
  BY <1>1, <1>2, SessionAssumption DEF Typed
<1>7. imm' \subseteq Msg
  <2>1. todo[t] \in Seq(Msg)
    BY <1>1 DEF Typed
  <2>2. Head(todo[t]) \in Msg
    BY <1>3, <2>1
  <2> QED BY <1>1, <1>2, <2>2 DEF Typed
<1>8. Others'
  BY <1>1, <1>2, <1>6, <1>7 DEF Typed, Others
<1>9. OneRecord'
  BY <1>1, <1>2 DEF OneRecord
<1> QED
  BY <1>5, <1>8, <1>9 DEF Basic, Typed, PlacesInv, Moving, Others

\* The worker gives up its event: its place is "ready", and it has none.
LEMMA GiveUpMoves ==
  ASSUME Typed, PlacesInv, pc[Worker] # "ready", pc[Worker] # "writing" \/ hand'[Worker] = NoChunk,
         pc' = [pc EXCEPT ![Worker] = "ready"], event' = NoEvent,
         buf' = buf, todo' = todo,
         hand' = [hand EXCEPT ![Worker] = NoChunk] \/ hand' = hand
  PROVE  Moving'
<1>1. Worker \in Call /\ Worker \notin Turn /\ Worker \notin End
  BY Calls
<1>2. pc \in [Call -> PC] /\ hand \in Hands
  BY DEF Typed
<1>3. "ready" \in PC
  BY DEF PC
<1>4. pc' \in [Call -> PC] /\ hand' \in Hands
  BY <1>1, <1>2, <1>3 DEF Hands
<1>5. \A d \in Call : pc'[d] = "writing" <=> hand'[d] # NoChunk
  BY <1>1, <1>2 DEF PlacesInv, Hands
<1>6. \A t \in Turn : /\ pc'[t] \in TurnPC
                      /\ pc'[t] \in {"ready", "queued", "storing"} => todo'[t] # <<>>
  BY <1>1, <1>2, Calls DEF PlacesInv
<1>7. \A e \in End : pc'[e] \in EndPC
  BY <1>1, <1>2, Calls DEF PlacesInv
<1>8. pc'[Worker] = "ready"
  BY <1>1, <1>2
<1>9. "ready" \in WorkerPC
  BY DEF WorkerPC
<1>10. PlacesInv'
  BY <1>5, <1>6, <1>7, <1>8, <1>9 DEF PlacesInv
<1> QED
  BY <1>4, <1>10 DEF Moving, Typed

LEMMA WriteTyped ==
  ASSUME Basic, NEW c \in End \cup {Worker}, WriteMerged(c)
  PROVE  /\ Basic'
         /\ hand[c] \in Chunk
<1>1. Typed /\ PlacesInv /\ OneRecord
  BY DEF Basic
<1>2. /\ pc[c] = "writing"
      /\ merged' = Upsert(merged, Record(hand[c], FALSE))
      /\ events' = events \cup {MergedEvent(hand[c])}
      /\ chosen' = IF c \in End
                   THEN [chosen EXCEPT ![c] = Upsert(chosen[c], Record(hand[c], FALSE))]
                   ELSE chosen
      /\ MergeNext(c, buf)
      /\ UNCHANGED <<lock, made, activity, mine, todo, imm, final, appended, failures, idles>>
  BY DEF WriteMerged, histVars
<1>3. c \in Call
  BY Calls
<1>4. hand[c] \in Chunk
  BY <1>1, <1>2, <1>3 DEF Typed, PlacesInv, Hands
<1>5. buf \in Buffer
  BY <1>1 DEF Typed
<1>6. Moving'
  BY <1>1, <1>2, <1>5, MergeMoves, MergeNextForms
<1>7. Record(hand[c], FALSE) \in RecordSet
  BY <1>4, UriTyped
<1>8. merged' \in SUBSET RecordSet /\ OneRecord'
  BY <1>1, <1>2, <1>7, UpsertTyped DEF Typed, OneRecord
<1>9. chosen' \in [End -> SUBSET RecordSet]
  <2>1. CASE c \in End
    <3>1. Upsert(chosen[c], Record(hand[c], FALSE)) \in SUBSET RecordSet
      BY <2>1, <1>1, <1>7, UpsertTyped DEF Typed
    <3> QED BY <2>1, <3>1, <1>1, <1>2 DEF Typed
  <2>2. CASE c \notin End
    BY <2>2, <1>1, <1>2 DEF Typed
  <2> QED BY <2>1, <2>2
<1>10. events' \subseteq TurnEvents \cup MergedEvents
  BY <1>1, <1>2, <1>4 DEF Typed, MergedEvent, MergedEvents
<1>11. Others'
  BY <1>1, <1>2, <1>8, <1>9, <1>10 DEF Typed, Others
<1> QED
  BY <1>4, <1>6, <1>8, <1>11 DEF Basic, Typed, PlacesInv, Moving, Others

LEMMA WriteFailsTyped ==
  ASSUME Basic, NEW c \in End \cup {Worker}, WriteFails(c)
  PROVE  /\ Basic'
         /\ hand[c] \in Chunk
<1>1. Typed /\ PlacesInv /\ OneRecord
  BY DEF Basic
<1>2. /\ pc[c] = "writing"
      /\ failures < MaxFailures /\ failures' = failures + 1
      /\ hand' = [hand EXCEPT ![c] = NoChunk]
      /\ merged' \in {merged, Upsert(merged, Record(hand[c], FALSE))}
      /\ \/ /\ c = Worker /\ pc' = [pc EXCEPT ![Worker] = "ready"] /\ event' = NoEvent
            /\ events' \in {events, events \cup {event}}
         \/ /\ c # Worker /\ pc' = [pc EXCEPT ![c] = "failed"] /\ events' = events /\ event' = event
      /\ UNCHANGED <<buf, lock, made, activity, mine, todo, chosen, imm, final, appended, idles>>
  BY DEF WriteFails, Failure, GiveUpEvent, Goto, dictVars, eventVars
<1>3. c \in Call
  BY Calls
<1>4. hand[c] \in Chunk
  BY <1>1, <1>2, <1>3 DEF Typed, PlacesInv, Hands
<1>5. Record(hand[c], FALSE) \in RecordSet
  BY <1>4, UriTyped
<1>6. merged' \in SUBSET RecordSet /\ OneRecord'
  BY <1>1, <1>2, <1>5, UpsertTyped DEF Typed, OneRecord
<1>7. Moving'
  <2>1. CASE c = Worker /\ pc' = [pc EXCEPT ![Worker] = "ready"] /\ event' = NoEvent
    <3>1. pc[Worker] # "ready" /\ hand'[Worker] = NoChunk
      BY <2>1, <1>1, <1>2, <1>3 DEF Typed, Hands
    <3> QED BY <2>1, <3>1, <1>1, <1>2, GiveUpMoves
  <2>2. CASE c # Worker /\ pc' = [pc EXCEPT ![c] = "failed"] /\ event' = event
    <3>1. c \in End /\ c \notin Turn
      BY <2>2, Calls
    <3>2. pc \in [Call -> PC] /\ hand \in Hands
      BY <1>1 DEF Typed
    <3>3. "failed" \in PC /\ "failed" \in EndPC
      BY DEF PC, EndPC
    <3>4. pc' \in [Call -> PC] /\ hand' \in Hands
      BY <2>2, <3>2, <3>3, <1>2, <1>3 DEF Hands
    <3>5. PlacesInv'
      <4>1. \A d \in Call : pc'[d] = "writing" <=> hand'[d] # NoChunk
        BY <2>2, <3>2, <1>1, <1>2, <1>3 DEF PlacesInv, Hands
      <4>2. \A t \in Turn : /\ pc'[t] \in TurnPC
                            /\ pc'[t] \in {"ready", "queued", "storing"} => todo'[t] # <<>>
        BY <2>2, <3>1, <3>2, <1>1, <1>2, Calls DEF PlacesInv
      <4>3. \A e \in End : pc'[e] \in EndPC
        BY <2>2, <3>2, <3>3, <1>1, <1>3, Calls DEF PlacesInv
      <4>4. pc'[Worker] = pc[Worker]
        BY <2>2, <3>2, <1>3, Calls
      <4> QED BY <4>1, <4>2, <4>3, <4>4, <2>2, <1>1 DEF PlacesInv
    <3> QED BY <3>4, <3>5, <2>2, <1>1, <1>2 DEF Moving, Typed
  <2> QED BY <1>2, <2>1, <2>2
<1>8. events' \subseteq TurnEvents \cup MergedEvents
  <2>1. CASE events' = events
    BY <2>1, <1>1 DEF Typed
  <2>2. CASE c = Worker /\ events' = events \cup {event}
    BY <2>2, <1>1, <1>2 DEF Typed, PlacesInv
  <2> QED BY <1>2, <2>1, <2>2
<1>9. failures' \in 0 .. MaxFailures
  BY <1>1, <1>2, SessionAssumption DEF Typed
<1>10. Others'
  BY <1>1, <1>2, <1>6, <1>8, <1>9 DEF Typed, Others
<1> QED
  BY <1>4, <1>6, <1>7, <1>10 DEF Basic, Typed, PlacesInv, Moving, Others

LEMMA LoadTyped ==
  ASSUME Basic, NEW e \in End, LoadMergedRecords(e)
  PROVE  Basic'
<1> DEFINE ready == {r \in merged : r.ready}
           known == {r.uri : r \in ready}
           all   == ready \cup {r \in chosen[e] : r.uri \notin known}
<1>1. Typed /\ PlacesInv /\ OneRecord
  BY DEF Basic
<1>2. /\ pc[e] = "loading"
      /\ chosen' = [chosen EXCEPT ![e] = all]
      /\ \/ pc' = [pc EXCEPT ![e] = "empty"] /\ buf' = EmptyBuffer /\ lock' = 0 /\ activity' = "none"
         \/ pc' = [pc EXCEPT ![e] = "ending"] /\ buf' = buf /\ lock' = lock /\ activity' = activity
      /\ UNCHANGED <<made, mine, todo, hand, imm, merged, final, events, event, appended, failures, idles>>
  BY DEF LoadMergedRecords, Drop, Goto, dictVars, storeVars, eventVars, histVars
<1>3. all \in SUBSET RecordSet
  BY <1>1 DEF Typed
<1> HIDE DEF all
<1>4. chosen' \in [End -> SUBSET RecordSet]
  BY <1>1, <1>2, <1>3 DEF Typed
<1>5. Moving'
  <2>1. "empty" \in EndPC \ {"writing"} /\ "ending" \in EndPC \ {"writing"}
    BY DEF EndPC
  <2>2. buf' \in Buffer /\ hand' = hand /\ event' = event /\ todo' = todo
    BY <1>1, <1>2, EmptyTyped DEF Typed
  <2>3. pc[e] # "writing" /\ e # Worker /\ e \notin Turn
    BY <1>2, Calls
  <2> QED BY <1>1, <1>2, <2>1, <2>2, <2>3, PlainMove
<1>6. lock' \in 0 .. made'
  <2>1. made \in Nat /\ lock \in 0 .. made /\ 0 \in 0 .. made
    BY <1>1 DEF Typed
  <2> QED BY <2>1, <1>2
<1>7. Others'
  BY <1>1, <1>2, <1>4, <1>6 DEF Typed, Others
<1>8. OneRecord'
  BY <1>1, <1>2 DEF OneRecord
<1> QED
  BY <1>5, <1>7, <1>8 DEF Basic, Typed, PlacesInv, Moving, Others

LEMMA FinalTyped ==
  ASSUME Basic, NEW e \in End, WriteFinal(e) \/ EndFails(e)
  PROVE  Basic'
<1>1. Typed /\ PlacesInv /\ OneRecord
  BY DEF Basic
<1>2. /\ pc[e] \in {"loading", "ending"}
      /\ final' \in {final, MessagesOf(chosen[e])}
      /\ \/ pc' = [pc EXCEPT ![e] = "done"] /\ buf' = EmptyBuffer /\ lock' = 0 /\ activity' = "none"
            /\ failures' = failures
         \/ pc' = [pc EXCEPT ![e] = "failed"] /\ buf' = buf /\ lock' = lock /\ activity' = activity
            /\ failures < MaxFailures /\ failures' = failures + 1
      /\ UNCHANGED <<made, mine, todo, hand, chosen, imm, merged, events, event, appended, idles>>
  <2>1. CASE WriteFinal(e)
    BY <2>1 DEF WriteFinal, Drop, Goto, dictVars, eventVars, histVars
  <2>2. CASE EndFails(e)
    BY <2>2 DEF EndFails, Failure, Goto, dictVars, eventVars, histVars
  <2> QED BY <2>1, <2>2
<1>3. final' \subseteq Msg
  BY <1>1, <1>2, MessagesTyped DEF Typed
<1>4. Moving'
  <2>1. "done" \in EndPC \ {"writing"} /\ "failed" \in EndPC \ {"writing"}
    BY DEF EndPC
  <2>2. buf' \in Buffer /\ hand' = hand /\ event' = event /\ todo' = todo
    BY <1>1, <1>2, EmptyTyped DEF Typed
  <2>3. pc[e] # "writing" /\ e # Worker /\ e \notin Turn
    BY <1>2, Calls
  <2> QED BY <1>1, <1>2, <2>1, <2>2, <2>3, PlainMove
<1>5. lock' \in 0 .. made'
  <2>1. made \in Nat /\ lock \in 0 .. made /\ 0 \in 0 .. made
    BY <1>1 DEF Typed
  <2> QED BY <2>1, <1>2
<1>6. failures' \in 0 .. MaxFailures
  BY <1>1, <1>2, SessionAssumption DEF Typed
<1>7. Others'
  BY <1>1, <1>2, <1>3, <1>5, <1>6 DEF Typed, Others
<1>8. OneRecord'
  BY <1>1, <1>2 DEF OneRecord
<1> QED
  BY <1>4, <1>7, <1>8 DEF Basic, Typed, PlacesInv, Moving, Others

LEMMA TakeTyped ==
  ASSUME Basic, TakeEvent
  PROVE  Basic'
<1>1. Typed /\ PlacesInv /\ OneRecord
  BY DEF Basic
<1>2. PICK x \in events :
         /\ pc[Worker] = "ready"
         /\ event' = x /\ events' = events \ {x}
         /\ pc' = [pc EXCEPT ![Worker] = IF x.kind = "turn" THEN "asking" ELSE "derive"]
         /\ UNCHANGED <<buf, lock, made, activity, mine, todo, hand, chosen, imm, merged, final,
                        appended, failures, idles>>
  BY DEF TakeEvent, Goto, dictVars, storeVars, histVars
<1>3. x \in TurnEvents \cup MergedEvents
  BY <1>1, <1>2 DEF Typed
<1>4. PICK label \in {"asking", "derive"} :
         /\ pc' = [pc EXCEPT ![Worker] = label]
         /\ label = "derive" => x \in MergedEvents
  <2>1. CASE x.kind = "turn"
    BY <2>1, <1>2
  <2>2. CASE x.kind # "turn"
    BY <2>2, <1>2, <1>3, EventValues
  <2> QED BY <2>1, <2>2
<1>5. pc \in [Call -> PC] /\ hand \in Hands /\ Worker \in Call
  BY <1>1, Calls DEF Typed
<1>6. label \in PC /\ label \in WorkerPC /\ label # "writing" /\ label # "ready"
  BY DEF PC, WorkerPC
<1>7. PlacesInv'
  <2>1. \A d \in Call : pc'[d] = "writing" <=> hand'[d] # NoChunk
    BY <1>1, <1>2, <1>4, <1>5, <1>6 DEF PlacesInv
  <2>2. \A t \in Turn : /\ pc'[t] \in TurnPC
                        /\ pc'[t] \in {"ready", "queued", "storing"} => todo'[t] # <<>>
    BY <1>1, <1>2, <1>4, <1>5, Calls DEF PlacesInv
  <2>3. \A e \in End : pc'[e] \in EndPC
    BY <1>1, <1>4, <1>5, Calls DEF PlacesInv
  <2>4. pc'[Worker] = label
    BY <1>4, <1>5
  <2>5. event' # NoEvent
    BY <1>2, <1>3, EventValues
  <2> QED BY <2>1, <2>2, <2>3, <2>4, <2>5, <1>2, <1>4, <1>6 DEF PlacesInv
<1>8. pc' \in [Call -> PC]
  BY <1>4, <1>5, <1>6
<1>9. Moving'
  BY <1>1, <1>2, <1>3, <1>7, <1>8 DEF Moving, Typed
<1>10. Others'
  BY <1>1, <1>2 DEF Typed, Others
<1>11. OneRecord'
  BY <1>1, <1>2 DEF OneRecord
<1> QED
  BY <1>9, <1>10, <1>11 DEF Basic, Typed, PlacesInv, Moving, Others

LEMMA DeriveTyped ==
  ASSUME Basic, Derive
  PROVE  /\ Basic'
         /\ event \in MergedEvents
<1>1. Typed /\ PlacesInv /\ OneRecord
  BY DEF Basic
<1>2. PICK label \in {"cleanup", "retry"} :
         /\ pc[Worker] = "derive"
         /\ pc' = [pc EXCEPT ![Worker] = label]
         /\ \/ merged' = Upsert(merged, Record(event.chunk, TRUE)) /\ failures' = failures
            \/ merged' = merged /\ failures < MaxFailures /\ failures' = failures + 1
         /\ UNCHANGED <<buf, lock, made, activity, mine, todo, hand, chosen, imm, final, events,
                        event, appended, idles>>
  BY DEF Derive, Goto, Failure, dictVars, eventVars
<1>3. event \in MergedEvents /\ event # NoEvent
  BY <1>1, <1>2, EventValues DEF PlacesInv
<1>4. Record(event.chunk, TRUE) \in RecordSet
  BY <1>3, EventValues, UriTyped
<1>5. merged' \in SUBSET RecordSet /\ OneRecord'
  BY <1>1, <1>2, <1>4, UpsertTyped DEF Typed, OneRecord
<1>6. failures' \in 0 .. MaxFailures
  <2>1. failures \in 0 .. MaxFailures /\ MaxFailures \in Nat
    BY <1>1, SessionAssumption DEF Typed
  <2>2. failures < MaxFailures => failures + 1 \in 0 .. MaxFailures
    BY <2>1
  <2> QED BY <1>2, <2>1, <2>2, Zenon
<1>7. pc \in [Call -> PC] /\ hand \in Hands /\ Worker \in Call
  BY <1>1, Calls DEF Typed
<1>8. label \in PC /\ label \in WorkerPC /\ label # "writing" /\ label # "ready"
  BY DEF PC, WorkerPC
<1>9. PlacesInv'
  <2>1. \A d \in Call : pc'[d] = "writing" <=> hand'[d] # NoChunk
    BY <1>1, <1>2, <1>7, <1>8 DEF PlacesInv
  <2>2. \A t \in Turn : /\ pc'[t] \in TurnPC
                        /\ pc'[t] \in {"ready", "queued", "storing"} => todo'[t] # <<>>
    BY <1>1, <1>2, <1>7, Calls DEF PlacesInv
  <2>3. \A e \in End : pc'[e] \in EndPC
    BY <1>1, <1>2, <1>7, Calls DEF PlacesInv
  <2>4. pc'[Worker] = label
    BY <1>2, <1>7
  <2> QED BY <2>1, <2>2, <2>3, <2>4, <1>2, <1>3, <1>8 DEF PlacesInv
<1>10. Moving'
  BY <1>1, <1>2, <1>7, <1>8, <1>9 DEF Moving, Typed
<1>11. Others'
  BY <1>1, <1>2, <1>5, <1>6 DEF Typed, Others
<1> QED
  BY <1>3, <1>5, <1>10, <1>11 DEF Basic, Typed, PlacesInv, Moving, Others

\* Both ways in which the cleanup ends.
LEMMA CleanupForms ==
  ASSUME Cleanup \/ CleanupFails
  PROVE  /\ pc[Worker] \in {"cleanup", "retry"}
         /\ pc' = [pc EXCEPT ![Worker] = "ready"] /\ event' = NoEvent
         /\ events' \in {events, events \cup {event}}
         /\ failures' \in {failures} \cup (IF failures < MaxFailures THEN {failures + 1} ELSE {})
         /\ imm' \subseteq imm
         /\ UNCHANGED <<buf, lock, made, activity, mine, todo, hand, chosen, merged, final,
                        appended, idles>>
<1>1. CASE Cleanup
  BY <1>1 DEF Cleanup, GiveUpEvent, Goto, dictVars, histVars
<1>2. CASE CleanupFails
  <2>1. imm' \subseteq imm
    BY <1>2 DEF CleanupFails
  <2> QED BY <1>2, <2>1 DEF CleanupFails, GiveUpEvent, Failure, Goto, dictVars
<1> QED
  BY <1>1, <1>2

LEMMA CleanupTyped ==
  ASSUME Basic, Cleanup \/ CleanupFails
  PROVE  /\ Basic'
         /\ event \in MergedEvents
<1>1. Typed /\ PlacesInv /\ OneRecord
  BY DEF Basic
<1>2. /\ pc[Worker] \in {"cleanup", "retry"}
      /\ pc' = [pc EXCEPT ![Worker] = "ready"] /\ event' = NoEvent
      /\ events' \in {events, events \cup {event}}
      /\ failures' \in {failures} \cup (IF failures < MaxFailures THEN {failures + 1} ELSE {})
      /\ imm' \subseteq imm
      /\ UNCHANGED <<buf, lock, made, activity, mine, todo, hand, chosen, merged, final,
                     appended, idles>>
  BY CleanupForms
<1>3. event \in MergedEvents
  BY <1>1, <1>2 DEF PlacesInv
<1>4. Moving'
  <2>1. pc[Worker] # "ready" /\ pc[Worker] # "writing"
    BY <1>2
  <2> QED BY <1>1, <1>2, <2>1, GiveUpMoves
<1>5. failures' \in 0 .. MaxFailures
  BY <1>1, <1>2, SessionAssumption DEF Typed
<1>6. Others'
  BY <1>1, <1>2, <1>3, <1>5 DEF Typed, Others
<1>7. OneRecord'
  BY <1>1, <1>2 DEF OneRecord
<1> QED
  BY <1>3, <1>4, <1>6, <1>7 DEF Basic, Typed, PlacesInv, Moving, Others

LEMMA IdleTyped ==
  ASSUME Basic, GoIdle \/ PruneIdle
  PROVE  Basic'
<1>1. Typed /\ PlacesInv /\ OneRecord
  BY DEF Basic
<1>2. CASE GoIdle
  <2>1. /\ activity' = "stale" /\ idles < MaxIdle /\ idles' = idles + 1
        /\ UNCHANGED <<buf, lock, made, mine, pc, todo, hand, chosen, imm, merged, final, events,
                       event, appended, failures>>
    BY <1>2 DEF GoIdle, storeVars, eventVars
  <2>2. idles' \in 0 .. MaxIdle
    BY <1>1, <2>1, SessionAssumption DEF Typed
  <2>3. Typed'
    BY <1>1, <2>1, <2>2 DEF Typed
  <2> QED BY <1>1, <2>1, <2>3 DEF Basic, PlacesInv, OneRecord
<1>3. CASE PruneIdle
  <2>1. /\ activity' = "none" /\ buf' = EmptyBuffer /\ lock' = 0 /\ made' = made
        /\ UNCHANGED <<mine, pc, todo, hand, chosen, imm, merged, final, events,
                       event, appended, failures, idles>>
    BY <1>3 DEF PruneIdle, Drop, storeVars, eventVars, histVars
  <2>2. lock' \in 0 .. made'
    <3>1. made \in Nat /\ 0 \in 0 .. made
      BY <1>1 DEF Typed
    <3> QED BY <3>1, <2>1
  <2>3. Typed'
    BY <1>1, <2>1, <2>2, EmptyTyped DEF Typed
  <2> QED BY <1>1, <2>1, <2>3 DEF Basic, PlacesInv, OneRecord
<1> QED
  BY <1>2, <1>3

LEMMA BasicInit == Init => Basic
<1> SUFFICES ASSUME Init
             PROVE  Basic
  OBVIOUS
<1> USE DEF Init
<1>1. \A e \in End : {} \in SUBSET RecordSet
  OBVIOUS
<1>2. Typed
  <2>1. buf \in Buffer /\ lock \in 0 .. made /\ made \in Nat /\ activity \in {"none", "recent", "stale"}
    BY EmptyTyped
  <2>2. mine \in [Call -> 0 .. made]
    BY <2>1
  <2>3. pc \in [Call -> PC]
    BY DEF PC
  <2>4. todo \in [Turn -> Seq(Msg)]
    BY SessionAssumption
  <2>5. hand \in Hands
    BY DEF Hands
  <2>6. chosen \in [End -> SUBSET RecordSet]
    BY <1>1
  <2>7. appended \in Seq(Msg)
    OBVIOUS
  <2>8. failures \in 0 .. MaxFailures /\ idles \in 0 .. MaxIdle
    BY SessionAssumption
  <2> QED BY <2>1, <2>2, <2>3, <2>4, <2>5, <2>6, <2>7, <2>8 DEF Typed
<1>3. PlacesInv
  <2>1. \A c \in Call : pc[c] = "ready" /\ hand[c] = NoChunk
    OBVIOUS
  <2>2. \A t \in Turn : todo[t] # <<>>
    BY SessionAssumption
  <2> QED BY <2>1, <2>2, Calls DEF PlacesInv, TurnPC, EndPC, WorkerPC
<1>4. OneRecord
  BY DEF OneRecord
<1> QED
  BY <1>2, <1>3, <1>4 DEF Basic

LEMMA BasicStep == Basic /\ [Next]_vars => Basic'
<1> SUFFICES ASSUME Basic, [Next]_vars
             PROVE  Basic'
  OBVIOUS
<1>1. CASE \E t \in Turn : TurnStep(t)
  BY <1>1, AskTyped, GetTyped, StoreTyped, Calls DEF TurnStep
<1>2. CASE \E e \in End : EndStep(e)
  BY <1>2, AskTyped, GetTyped, WriteTyped, LoadTyped, FinalTyped, Calls DEF EndStep, MergeStep
<1>3. CASE WorkerStep
  BY <1>3, AskTyped, GetTyped, WriteTyped, TakeTyped, DeriveTyped, CleanupTyped, Calls
     DEF WorkerStep, MergeStep
<1>4. CASE Fault
  BY <1>4, StoreFailsTyped, WriteFailsTyped, FinalTyped, CleanupTyped DEF Fault
<1>5. CASE GoIdle \/ PruneIdle
  BY <1>5, IdleTyped
<1>6. CASE UNCHANGED vars
  BY <1>6 DEF vars, dictVars, storeVars, eventVars, histVars, Basic, Typed, PlacesInv, OneRecord
<1> QED
  BY <1>1, <1>2, <1>3, <1>4, <1>5, <1>6 DEF Next

LEMMA BasicAlways == Spec => []Basic
<1> QED
  BY BasicInit, BasicStep, PTL DEF Spec

-------------------------------------------------------------------------------
(* The msg_index of the next message: taken by a turn that enters or goes on, and *)
(* used when the write it was taken for is done.                                  *)

LEMMA MoveOthers ==
  ASSUME Basic, NEW c \in Call, NEW l, pc' = [pc EXCEPT ![c] = l]
  PROVE  pc'[c] = l /\ \A d \in Call : d # c => pc'[d] = pc[d]
BY DEF Basic, Typed

LEMMA EnterOthers ==
  ASSUME Basic, NEW c \in Call, NEW b, NEW a, Enters(c, b, a)
  PROVE  \A d \in Call : d # c => pc'[d] = pc[d]
<1>1. \E l : pc' = [pc EXCEPT ![c] = l]
  BY DEF Enters, Takes, Leaves
<1> QED
  BY <1>1, MoveOthers

\* Turn t takes the index from buffer b, uses it, or nothing is done about it.
TakesIndex(t, b) ==
  /\ index' = [index EXCEPT ![t] = NextMsgIndex(b)]
  /\ indices' = indices /\ appended' = appended
  /\ \A u \in Turn : u # t => pc'[u] = pc[u]

UsesIndex(t) ==
  /\ pc[t] = "storing"
  /\ indices' = Append(indices, index[t])
  /\ \E m \in Msg : appended' = Append(appended, m)
  /\ \/ index' = [index EXCEPT ![t] = NextMsgIndex(buf')]
     \/ index' = index /\ pc'[t] = "done"
  /\ \A u \in Turn : u # t => pc'[u] = pc[u]

KeepsIndex ==
  /\ index' = index /\ indices' = indices /\ appended' = appended
  /\ \A t \in Turn : pc'[t] = "storing" => pc[t] = "storing"

IndexStep ==
  \/ KeepsIndex
  \/ \E t \in Turn : TakesIndex(t, buf) \/ UsesIndex(t)
  \/ activity = "stale" /\ \E t \in Turn : TakesIndex(t, EmptyBuffer)

LEMMA EnterIndex ==
  ASSUME Basic, NEW c \in Call, NEW b \in Buffer, NEW a, Enter(c, b, a),
         indices' = indices, appended' = appended
  PROVE  KeepsIndex \/ \E t \in Turn : TakesIndex(t, b)
<1>1. \A d \in Call : d # c => pc'[d] = pc[d]
  BY EnterForms, EnterOthers
<1>2. CASE c \in Turn /\ index' = [index EXCEPT ![c] = NextMsgIndex(b)]
  BY <1>1, <1>2, Calls DEF TakesIndex
<1>3. CASE c \in End \cup {Worker} /\ index' = index
  BY <1>1, <1>3, Calls DEF KeepsIndex
<1> QED
  BY <1>2, <1>3 DEF Enter

LEMMA AskIndex ==
  ASSUME Basic, NEW c \in Call, AskLock(c) \/ GetLock(c)
  PROVE  IndexStep
<1>1. buf \in Buffer /\ EmptyBuffer \in Buffer
  BY EmptyTyped DEF Basic, Typed
<1>2. CASE AskLock(c)
  <2> DEFINE stale == activity = "stale"
             a     == IF stale THEN "none" ELSE activity
             b     == IF stale THEN EmptyBuffer ELSE buf
  <2>1. /\ indices' = indices /\ appended' = appended
        /\ (Goto(c, "queued") /\ index' = index) \/ Enter(c, b, a)
    BY <1>2 DEF AskLock, histVars
  <2>2. b \in Buffer /\ (b = buf \/ (activity = "stale" /\ b = EmptyBuffer))
    BY <1>1
  <2> HIDE DEF a, b
  <2>3. CASE Goto(c, "queued") /\ index' = index
    BY <2>1, <2>3, MoveOthers, Calls DEF Goto, IndexStep, KeepsIndex
  <2>4. CASE Enter(c, b, a)
    <3>1. KeepsIndex \/ \E t \in Turn : TakesIndex(t, b)
      BY <2>1, <2>2, <2>4, EnterIndex
    <3> QED BY <2>2, <3>1 DEF IndexStep
  <2> QED BY <2>1, <2>3, <2>4
<1>3. CASE GetLock(c)
  <2>1. Enter(c, buf, activity) /\ indices' = indices /\ appended' = appended
    BY <1>3 DEF GetLock, histVars
  <2> QED BY <1>1, <2>1, EnterIndex DEF IndexStep
<1> QED
  BY <1>2, <1>3

LEMMA TurnIndex ==
  ASSUME Basic, NEW t \in Turn, StoreMessage(t) \/ StoreFails(t)
  PROVE  IndexStep
<1>1. CASE StoreMessage(t)
  <2>1. t \in Call /\ Head(todo[t]) \in Msg /\ appended' = Append(appended, Head(todo[t]))
    BY <1>1, StoreTyped, Calls
  <2>2. /\ pc[t] = "storing" /\ indices' = Append(indices, index[t])
        /\ \/ pc' = [pc EXCEPT ![t] = "done"] /\ index' = index
           \/ pc' = pc /\ index' = [index EXCEPT ![t] = NextMsgIndex(buf')]
    BY <1>1 DEF StoreMessage, Goto
  <2>3. \A u \in Turn : u # t => pc'[u] = pc[u]
    BY <2>1, <2>2, MoveOthers, Calls
  <2>4. index' = index => pc'[t] = "done" \/ index' = [index EXCEPT ![t] = NextMsgIndex(buf')]
    BY <2>1, <2>2, MoveOthers
  <2> QED BY <2>1, <2>2, <2>3, <2>4 DEF IndexStep, UsesIndex
<1>2. CASE StoreFails(t)
  <2>1. /\ pc' = [pc EXCEPT ![t] = "failed"] /\ t \in Call
        /\ index' = index /\ indices' = indices /\ appended' = appended
    BY <1>2, Calls DEF StoreFails, Goto
  <2> QED BY <2>1, MoveOthers, Calls DEF IndexStep, KeepsIndex
<1> QED
  BY <1>1, <1>2

\* Everything that no turn does itself.
LEMMA RestIndex ==
  ASSUME Basic,
         \/ \E c \in End \cup {Worker} : WriteMerged(c) \/ WriteFails(c)
         \/ \E e \in End : LoadMergedRecords(e) \/ WriteFinal(e) \/ EndFails(e)
         \/ TakeEvent \/ Derive \/ Cleanup \/ CleanupFails
         \/ GoIdle \/ PruneIdle \/ UNCHANGED vars
  PROVE  IndexStep
<1>1. index' = index /\ indices' = indices /\ appended' = appended
  BY DEF WriteMerged, WriteFails, LoadMergedRecords, WriteFinal, EndFails, TakeEvent, Derive,
         Cleanup, CleanupFails, GoIdle, PruneIdle, vars, histVars
<1>2. \/ pc' = pc
      \/ \E c \in End \cup {Worker} : \E l : pc' = [pc EXCEPT ![c] = l]
  <2>1. ASSUME NEW c \in End \cup {Worker}, WriteMerged(c) \/ WriteFails(c)
        PROVE  \E l : pc' = [pc EXCEPT ![c] = l]
    BY <2>1, MergeNextForms DEF WriteMerged, WriteFails, Takes, Leaves, GiveUpEvent, Goto
  <2>2. ASSUME NEW e \in End, LoadMergedRecords(e) \/ WriteFinal(e) \/ EndFails(e)
        PROVE  \E l : pc' = [pc EXCEPT ![e] = l]
    BY <2>2 DEF LoadMergedRecords, WriteFinal, EndFails, Goto
  <2>3. CASE TakeEvent \/ Derive \/ Cleanup \/ CleanupFails
    <3>1. \E l : pc' = [pc EXCEPT ![Worker] = l]
      BY <2>3 DEF TakeEvent, Derive, Cleanup, CleanupFails, GiveUpEvent, Goto
    <3> QED BY <3>1
  <2>4. CASE GoIdle \/ PruneIdle \/ UNCHANGED vars
    BY <2>4 DEF GoIdle, PruneIdle, vars
  <2> QED BY <2>1, <2>2, <2>3, <2>4
<1>3. \A t \in Turn : pc'[t] = pc[t]
  BY <1>2, MoveOthers, Calls
<1> QED
  BY <1>1, <1>3 DEF IndexStep, KeepsIndex

LEMMA IndexSteps == Basic /\ [Next]_vars => IndexStep
<1> SUFFICES ASSUME Basic, [Next]_vars
             PROVE  IndexStep
  OBVIOUS
<1>1. CASE \E t \in Turn : TurnStep(t)
  BY <1>1, AskIndex, TurnIndex, Calls DEF TurnStep
<1>2. CASE \E e \in End : EndStep(e)
  BY <1>2, AskIndex, RestIndex, Calls DEF EndStep, MergeStep
<1>3. CASE WorkerStep
  BY <1>3, AskIndex, RestIndex, Calls DEF WorkerStep, MergeStep
<1>4. CASE Fault
  BY <1>4, TurnIndex, RestIndex DEF Fault
<1>5. CASE GoIdle \/ PruneIdle \/ UNCHANGED vars
  BY <1>5, RestIndex
<1> QED
  BY <1>1, <1>2, <1>3, <1>4, <1>5 DEF Next

IndexTyped == index \in [Turn -> Nat] /\ indices \in Seq(Nat)

LEMMA IndexAlways == Spec => []IndexTyped
<1>1. Init => IndexTyped
  BY DEF Init, IndexTyped
<1>2. Basic /\ Basic' /\ IndexTyped /\ [Next]_vars => IndexTyped'
  <2> SUFFICES ASSUME Basic, Basic', IndexTyped, [Next]_vars
               PROVE  IndexTyped'
    OBVIOUS
  <2>1. \A b \in Buffer : NextMsgIndex(b) \in Nat
    BY DEF Buffer, NextMsgIndex
  <2>2. buf \in Buffer /\ EmptyBuffer \in Buffer
    BY EmptyTyped DEF Basic, Typed
  <2>3. NextMsgIndex(buf') \in Nat
    BY <2>1 DEF Basic, Typed
  <2>4. NextMsgIndex(buf) \in Nat /\ NextMsgIndex(EmptyBuffer) \in Nat
    BY <2>1, <2>2
  <2>5. CASE KeepsIndex
    BY <2>5 DEF KeepsIndex, IndexTyped
  <2>6. ASSUME NEW t \in Turn, TakesIndex(t, buf) \/ TakesIndex(t, EmptyBuffer)
        PROVE  IndexTyped'
    BY <2>4, <2>6 DEF TakesIndex, IndexTyped
  <2>7. ASSUME NEW t \in Turn, UsesIndex(t)
        PROVE  IndexTyped'
    <3>1. index[t] \in Nat
      BY DEF IndexTyped
    <3>2. indices' \in Seq(Nat)
      BY <2>7, <3>1 DEF UsesIndex, IndexTyped
    <3>3. index' \in [Turn -> Nat]
      BY <2>3, <2>7 DEF UsesIndex, IndexTyped
    <3> QED BY <3>2, <3>3 DEF IndexTyped
  <2> QED BY <2>5, <2>6, <2>7, IndexSteps DEF IndexStep
<1> QED
  BY <1>1, <1>2, BasicAlways, PTL DEF Spec

\* TypeOK: the variables have their types; a call holds a chunk exactly while it
\* writes it, the worker has an event exactly while it handles one, and a merged
\* record is known by its message range.
THEOREM TypeCorrect == Spec => []TypeOK
<1>1. Basic /\ IndexTyped => TypeOK
  BY DEF Basic, Typed, PlacesInv, OneRecord, IndexTyped, TypeOK
<1> QED
  BY <1>1, BasicAlways, IndexAlways, PTL

-------------------------------------------------------------------------------
(* What a step does to the messages: it may prepare the buffer and the hands in   *)
(* one of four ways, freeze, and take a chunk into a free hand.                   *)

\* What is written or chosen comes from what was, and from pair set P.
Grows(P) == /\ Written' \subseteq Written \cup P
            /\ Chosen' \subseteq Written \cup Chosen \cup P

Same(b, h) == /\ b = buf /\ h = hand /\ Grows({})
              /\ appended' = appended /\ todo' = todo

Dropped(b, h) == /\ b = EmptyBuffer /\ h = hand /\ Grows({})
                 /\ appended' = appended /\ todo' = todo
                 /\ (IdleInv => ~NeverDropped')

Stored(b, h, t) == /\ todo[t] # <<>> /\ Head(todo[t]) \in Msg
                   /\ b = AppendMessage(buf, Head(todo[t])) /\ h = hand /\ Grows({})
                   /\ appended' = Append(appended, Head(todo[t]))
                   /\ todo' = [todo EXCEPT ![t] = Tail(todo[t])]

Wrote(b, h, c) == /\ hand[c] \in Chunk
                  /\ b = buf /\ h = [hand EXCEPT ![c] = NoChunk] /\ Grows({Pair(hand[c])})
                  /\ appended' = appended /\ todo' = todo
                  /\ failures' = failures => ToSet(hand[c].messages) \subseteq MessagesOf(merged')

Prepared(b, h) == \/ Same(b, h) \/ Dropped(b, h)
                  \/ \E t \in Turn : Stored(b, h, t)
                  \/ \E c \in Call : Wrote(b, h, c)

Taken(f, h) ==
  \/ buf' = f /\ hand' = h
  \/ \E c \in Call : /\ h[c] = NoChunk /\ f.pending # <<>>
                     /\ buf' = PopMergeChunk(f)
                     /\ hand' = [h EXCEPT ![c] = Head(f.pending)]

ContentStep == \E b \in Buffer, h \in Hands, f \in Buffer :
                  Prepared(b, h) /\ Refrozen(b, f) /\ Taken(f, h)

LEMMA GrowsBy ==
  ASSUME NEW P,
         \A r \in merged' : r \in merged \/ <<r.uri, r.messages>> \in P,
         \A x \in events' \cup {event'} :
            x.kind = "merged" => x \in events \cup {event} \/ Pair(x.chunk) \in P,
         \A e \in End : \A r \in chosen'[e] :
            r \in merged \/ r \in chosen[e] \/ <<r.uri, r.messages>> \in P
  PROVE  Grows(P)
<1>1. ASSUME NEW x \in EventChunks'
      PROVE  x \in EventChunks \/ Pair(x) \in P
  BY <1>1 DEF EventChunks
<1>2. Written' \subseteq Written \cup P
  <2> SUFFICES ASSUME NEW w \in Written'
               PROVE  w \in Written \cup P
    OBVIOUS
  <2>1. CASE \E r \in merged' : w = <<r.uri, r.messages>>
    BY <2>1 DEF Written
  <2>2. CASE \E x \in EventChunks' : w = <<Uri(x), x.messages>>
    BY <2>2, <1>1 DEF Written, Pair
  <2> QED BY <2>1, <2>2 DEF Written, Pair, Uri
<1>3. Chosen' \subseteq Written \cup Chosen \cup P
  <2> SUFFICES ASSUME NEW e \in End, NEW r \in chosen'[e]
               PROVE  <<r.uri, r.messages>> \in Written \cup Chosen \cup P
    BY DEF Chosen
  <2> QED BY DEF Written, Chosen
<1> QED
  BY <1>2, <1>3 DEF Grows

\* Without a write, events that come are no merged ones.
LEMMA GrowsNothing ==
  ASSUME merged' = merged, chosen' = chosen,
         \A x \in events' \cup {event'} : x.kind = "merged" => x \in events \cup {event}
  PROVE  Grows({})
BY GrowsBy

LEMMA QuietContent ==
  ASSUME Basic, buf' = buf, hand' = hand, appended' = appended, todo' = todo, Grows({})
  PROVE  ContentStep
<1>1. buf \in Buffer /\ hand \in Hands
  BY DEF Basic, Typed
<1> QED
  BY <1>1, RefrozenSame DEF ContentStep, Prepared, Same, Taken

LEMMA EnterContent ==
  ASSUME Basic, NEW c \in Call, NEW a, NEW b \in Buffer, Enters(c, b, a),
         Same(b, hand) \/ Dropped(b, hand),
         hand[c] = NoChunk
  PROVE  ContentStep
<1>1. buf \in Buffer /\ hand \in Hands
  BY DEF Basic, Typed
<1>2. CASE buf' = b /\ hand' = hand
  BY <1>1, <1>2, RefrozenSame DEF ContentStep, Prepared, Taken
<1>3. CASE \E f \in Buffer : Refrozen(b, f) /\ (Takes(c, f) \/ Leaves(c, f))
  <2>1. PICK f \in Buffer : Refrozen(b, f) /\ (Takes(c, f) \/ Leaves(c, f))
    BY <1>3
  <2>2. [hand EXCEPT ![c] = NoChunk] = hand
    BY <1>1 DEF Hands
  <2>3. Taken(f, hand)
    BY <2>1, <2>2 DEF Takes, Leaves, Taken
  <2> QED BY <1>1, <2>1, <2>3 DEF ContentStep, Prepared
<1> QED
  BY <1>2, <1>3 DEF Enters

LEMMA Droppings ==
  ASSUME NeverDropped', pc \in [Call -> PC], pc' \in [Call -> PC], idles \in Nat, idles' \in Nat,
         idles' = idles \/ idles' = idles + 1,
         \A e \in End : pc[e] \in {"done", "empty"} => pc'[e] = pc[e]
  PROVE  NeverDropped
BY DEF NeverDropped

LEMMA AskContent ==
  ASSUME Basic, NEW c \in Call, AskLock(c)
  PROVE  ContentStep
<1>1. Typed /\ PlacesInv
  BY DEF Basic
<1>2. PICK b \in {buf, EmptyBuffer}, l \in Nat : Asks(c, b, l)
  BY <1>1, AskForms
<1>3. b \in Buffer
  BY <1>1, EmptyTyped DEF Typed
<1>4. UNCHANGED <<todo, chosen, merged, events, appended, idles>>
  BY <1>2 DEF Asks, storeVars, histVars
<1>5. pc[c] # "writing" /\ hand[c] = NoChunk /\ (event' = event \/ event' = NoEvent)
  BY <1>1, <1>2 DEF Asks, PlacesInv, Enters, Takes, Leaves
<1>6. Grows({})
  <2>1. NoEvent.kind # "merged"
    BY EventValues
  <2> QED BY <1>4, <1>5, <2>1, GrowsNothing
<1>7. Same(b, hand) \/ Dropped(b, hand)
  <2>1. CASE b = buf
    BY <2>1, <1>4, <1>6 DEF Same
  <2>2. CASE b = EmptyBuffer /\ activity = "stale"
    <3>1. IdleInv => ~NeverDropped'
      BY <2>2, <1>4 DEF IdleInv, NeverDropped
    <3> QED BY <2>2, <3>1, <1>4, <1>6 DEF Dropped
  <2> QED BY <2>1, <2>2, <1>2 DEF Asks
<1>8. CASE Enters(c, b, activity) \/ Enters(c, b, "none")
  BY <1>3, <1>5, <1>7, <1>8, EnterContent
<1>9. CASE buf' = b /\ hand' = hand
  <2>1. hand \in Hands
    BY <1>1 DEF Typed
  <2> QED BY <2>1, <1>3, <1>7, <1>9, RefrozenSame DEF ContentStep, Prepared, Taken
<1> QED
  BY <1>2, <1>8, <1>9 DEF Asks

LEMMA GetContent ==
  ASSUME Basic, NEW c \in Call, GetLock(c)
  PROVE  ContentStep
<1>1. Typed /\ PlacesInv
  BY DEF Basic
<1>2. /\ pc[c] = "queued"
      /\ Enter(c, buf, activity)
      /\ UNCHANGED <<todo, chosen, merged, events, appended>>
  BY DEF GetLock, storeVars, histVars
<1>3. Enters(c, buf, activity) /\ buf \in Buffer
  BY <1>1, <1>2, EnterForms DEF Typed
<1>4. hand[c] = NoChunk /\ (event' = event \/ event' = NoEvent)
  BY <1>1, <1>2, <1>3 DEF PlacesInv, Enters, Takes, Leaves
<1>5. Grows({})
  <2>1. NoEvent.kind # "merged"
    BY EventValues
  <2> QED BY <1>2, <1>4, <2>1, GrowsNothing
<1> QED
  BY <1>2, <1>3, <1>4, <1>5, EnterContent DEF Same

LEMMA StoreContent ==
  ASSUME Basic, NEW t \in Turn, StoreMessage(t)
  PROVE  ContentStep
<1> DEFINE b == AppendMessage(buf, Head(todo[t]))
<1>1. /\ todo[t] # <<>> /\ Head(todo[t]) \in Msg
      /\ todo' = [todo EXCEPT ![t] = Tail(todo[t])]
      /\ appended' = Append(appended, Head(todo[t]))
      /\ Refrozen(b, buf')
  BY StoreTyped
<1>2. buf \in Buffer /\ hand \in Hands /\ buf' \in Buffer
  BY <1>1 DEF Basic, Typed, Refrozen
<1>3. b \in Buffer
  BY <1>1, <1>2, AppendKeeps
<1>4. /\ merged' = merged /\ chosen' = chosen /\ event' = event /\ hand' = hand
      /\ events' = events \/ events' = events \cup {TurnEvent(t)}
  BY DEF StoreMessage
<1>5. TurnEvent(t).kind # "merged"
  BY DEF TurnEvent
<1>6. Grows({})
  BY <1>4, <1>5, GrowsNothing
<1>7. Stored(b, hand, t)
  BY <1>1, <1>6 DEF Stored
<1> HIDE DEF b
<1>8. Prepared(b, hand)
  BY <1>7 DEF Prepared
<1> QED
  BY <1>1, <1>2, <1>3, <1>4, <1>8 DEF ContentStep, Taken

LEMMA WriteContent ==
  ASSUME Basic, NEW c \in End \cup {Worker}, WriteMerged(c)
  PROVE  ContentStep
<1> DEFINE h == [hand EXCEPT ![c] = NoChunk]
           r == Record(hand[c], FALSE)
<1>1. hand[c] \in Chunk /\ c \in Call /\ buf \in Buffer /\ hand \in Hands
  BY WriteTyped, Calls DEF Basic, Typed
<1>2. /\ merged' = Upsert(merged, r)
      /\ events' = events \cup {MergedEvent(hand[c])}
      /\ chosen' = IF c \in End THEN [chosen EXCEPT ![c] = Upsert(chosen[c], r)] ELSE chosen
      /\ MergeNext(c, buf)
      /\ todo' = todo /\ appended' = appended
  BY DEF WriteMerged, histVars
<1>3. <<r.uri, r.messages>> = Pair(hand[c])
  BY <1>1, UriTyped DEF Pair
<1>4. MergedEvent(hand[c]).chunk = hand[c] /\ NoEvent.kind # "merged"
  BY EventValues DEF MergedEvent
<1>5. Takes(c, buf) \/ Leaves(c, buf)
  BY <1>2, MergeNextForms
<1>6. event' = event \/ event' = NoEvent
  BY <1>5 DEF Takes, Leaves
<1> HIDE DEF r
<1>7. Grows({Pair(hand[c])})
  <2>1. \A x \in merged' : x \in merged \/ <<x.uri, x.messages>> \in {Pair(hand[c])}
    BY <1>2, <1>3 DEF Upsert
  <2>2. \A x \in events' \cup {event'} :
           x.kind = "merged" => x \in events \cup {event} \/ Pair(x.chunk) \in {Pair(hand[c])}
    BY <1>2, <1>4, <1>6
  <2>3. ASSUME NEW e \in End, NEW x \in chosen'[e]
        PROVE  x \in merged \/ x \in chosen[e] \/ <<x.uri, x.messages>> \in {Pair(hand[c])}
    <3>1. chosen \in [End -> SUBSET RecordSet]
      BY DEF Basic, Typed
    <3>2. CASE e = c
      BY <2>3, <3>1, <3>2, <1>2, <1>3 DEF Upsert
    <3>3. CASE e # c
      BY <2>3, <3>1, <3>3, <1>2
    <3> QED BY <3>2, <3>3
  <2> QED BY <2>1, <2>2, <2>3, GrowsBy
<1>8. h \in Hands /\ h[c] = NoChunk
  BY <1>1 DEF Hands
<1>9. Taken(buf, h)
  <2>1. CASE Takes(c, buf)
    <3>1. hand' = [h EXCEPT ![c] = Head(buf.pending)]
      BY <2>1, <1>1 DEF Takes, Hands
    <3> HIDE DEF h
    <3> QED BY <2>1, <3>1, <1>1, <1>8 DEF Takes, Taken
  <2>2. CASE Leaves(c, buf)
    BY <2>2 DEF Leaves, Taken
  <2> QED BY <1>5, <2>1, <2>2
<1>10. Wrote(buf, h, c)
  <2>1. r \in merged' /\ r.messages = hand[c].messages
    BY <1>1, <1>2, UriTyped DEF Upsert, r
  <2>2. ToSet(hand[c].messages) \subseteq MessagesOf(merged')
    BY <2>1 DEF MessagesOf
  <2> QED BY <1>1, <1>2, <1>7, <2>2 DEF Wrote
<1> HIDE DEF h
<1> QED
  BY <1>1, <1>8, <1>9, <1>10, RefrozenSame DEF ContentStep, Prepared

LEMMA WriteFailsContent ==
  ASSUME Basic, NEW c \in End \cup {Worker}, WriteFails(c)
  PROVE  ContentStep
<1> DEFINE h == [hand EXCEPT ![c] = NoChunk]
           r == Record(hand[c], FALSE)
<1>1. hand[c] \in Chunk /\ c \in Call /\ buf \in Buffer /\ hand \in Hands
  BY WriteFailsTyped, Calls DEF Basic, Typed
<1>2. /\ merged' \in {merged, Upsert(merged, r)}
      /\ events' \in {events, events \cup {event}}
      /\ event' = event \/ event' = NoEvent
      /\ chosen' = chosen /\ todo' = todo /\ appended' = appended /\ buf' = buf /\ hand' = h
  BY DEF WriteFails, GiveUpEvent, dictVars, eventVars
<1>3. <<r.uri, r.messages>> = Pair(hand[c])
  BY <1>1, UriTyped DEF Pair
<1>4. NoEvent.kind # "merged"
  BY EventValues
<1> HIDE DEF r
<1>5. Grows({Pair(hand[c])})
  <2>1. \A x \in merged' : x \in merged \/ <<x.uri, x.messages>> \in {Pair(hand[c])}
    BY <1>2, <1>3 DEF Upsert
  <2>2. \A x \in events' \cup {event'} :
           x.kind = "merged" => x \in events \cup {event} \/ Pair(x.chunk) \in {Pair(hand[c])}
    BY <1>2, <1>4
  <2> QED BY <2>1, <2>2, <1>2, GrowsBy
<1>6. h \in Hands
  BY <1>1 DEF Hands
<1>7. Wrote(buf, h, c)
  <2>1. failures' = failures + 1 /\ failures \in Nat
    BY SessionAssumption DEF WriteFails, Failure, Basic, Typed
  <2>2. failures' # failures
    BY <2>1
  <2> QED BY <1>1, <1>2, <1>5, <2>2 DEF Wrote
<1> HIDE DEF h
<1> QED
  BY <1>1, <1>2, <1>6, <1>7, RefrozenSame DEF ContentStep, Prepared, Taken

\* An end that comes to its end drops the buffer, as pruning does.
LEMMA DropContent ==
  ASSUME Basic, buf' = EmptyBuffer, hand' = hand, appended' = appended, todo' = todo, Grows({}),
         IdleInv => ~NeverDropped'
  PROVE  ContentStep
<1>1. EmptyBuffer \in Buffer /\ hand \in Hands
  BY EmptyTyped DEF Basic, Typed
<1>2. Dropped(EmptyBuffer, hand)
  BY DEF Dropped
<1>3. Prepared(EmptyBuffer, hand) /\ Taken(EmptyBuffer, hand)
  BY <1>2 DEF Prepared, Taken
<1> QED
  BY <1>1, <1>3, RefrozenSame DEF ContentStep

LEMMA EndContent ==
  ASSUME Basic, NEW e \in End, LoadMergedRecords(e) \/ WriteFinal(e) \/ EndFails(e)
  PROVE  ContentStep
<1>1. /\ hand' = hand /\ appended' = appended /\ todo' = todo
      /\ merged' = merged /\ events' = events /\ event' = event
  BY DEF LoadMergedRecords, WriteFinal, EndFails, storeVars, eventVars, histVars
<1>2. \A d \in End : \A r \in chosen'[d] : r \in merged \/ r \in chosen[d]
  <2>1. chosen \in [End -> SUBSET RecordSet]
    BY DEF Basic, Typed
  <2>2. CASE LoadMergedRecords(e)
    BY <2>1, <2>2 DEF LoadMergedRecords
  <2>3. CASE WriteFinal(e) \/ EndFails(e)
    BY <2>3 DEF WriteFinal, EndFails
  <2> QED BY <2>2, <2>3
<1>3. Grows({})
  BY <1>1, <1>2, GrowsBy
<1>4. pc \in [Call -> PC] /\ e \in Call
  BY Calls DEF Basic, Typed
<1>5. \/ buf' = buf
      \/ buf' = EmptyBuffer /\ pc' \in {[pc EXCEPT ![e] = "done"], [pc EXCEPT ![e] = "empty"]}
  BY DEF LoadMergedRecords, WriteFinal, EndFails, Drop, Goto, dictVars
<1>6. CASE buf' = buf
  BY <1>1, <1>3, <1>6, QuietContent
<1>7. CASE buf' = EmptyBuffer /\ pc' \in {[pc EXCEPT ![e] = "done"], [pc EXCEPT ![e] = "empty"]}
  <2>1. ~NeverDropped'
    BY <1>4, <1>7 DEF NeverDropped
  <2> QED BY <2>1, <1>1, <1>3, <1>7, DropContent
<1> QED
  BY <1>5, <1>6, <1>7

LEMMA EventContent ==
  ASSUME Basic, TakeEvent \/ Derive \/ Cleanup \/ CleanupFails
  PROVE  ContentStep
<1>1. /\ buf' = buf /\ hand' = hand /\ appended' = appended /\ todo' = todo /\ chosen' = chosen
  BY CleanupForms DEF TakeEvent, Derive, dictVars, storeVars, histVars
<1>2. NoEvent.kind # "merged"
  BY EventValues
<1>3. \A x \in events' \cup {event'} : x.kind = "merged" => x \in events \cup {event}
  <2>1. CASE TakeEvent
    BY <2>1 DEF TakeEvent
  <2>2. CASE Derive
    BY <2>2 DEF Derive, eventVars
  <2>3. CASE Cleanup \/ CleanupFails
    BY <2>3, <1>2, CleanupForms
  <2> QED BY <2>1, <2>2, <2>3
<1>4. Grows({})
  <2>1. CASE TakeEvent \/ Cleanup \/ CleanupFails
    <3>1. merged' = merged
      BY <2>1, CleanupForms DEF TakeEvent, storeVars
    <3> QED BY <3>1, <1>1, <1>3, GrowsNothing
  <2>2. CASE Derive
    <3> DEFINE r == Record(event.chunk, TRUE)
    <3>1. event \in MergedEvents
      BY <2>2, DeriveTyped
    <3>2. <<r.uri, r.messages>> = Pair(event.chunk) /\ event.kind = "merged"
      BY <3>1, EventValues, UriTyped DEF Pair
    <3>3. Pair(event.chunk) \in Written
      BY <3>2 DEF Written, EventChunks
    <3> HIDE DEF r
    <3>4. \A x \in merged' : x \in merged \/ <<x.uri, x.messages>> \in {Pair(event.chunk)}
      BY <2>2, <3>2 DEF Derive, Upsert, r
    <3>5. Grows({Pair(event.chunk)})
      BY <3>4, <1>1, <1>3, GrowsBy
    <3> QED BY <3>3, <3>5 DEF Grows
  <2> QED BY <2>1, <2>2
<1> QED
  BY <1>1, <1>4, QuietContent

LEMMA RestContent ==
  ASSUME Basic, GoIdle \/ PruneIdle \/ UNCHANGED vars \/ \E t \in Turn : StoreFails(t)
  PROVE  ContentStep
<1>1. /\ hand' = hand /\ appended' = appended /\ todo' = todo /\ chosen' = chosen
      /\ merged' = merged /\ events' = events /\ event' = event
  BY DEF GoIdle, PruneIdle, StoreFails, vars, storeVars, eventVars, histVars
<1>2. Grows({})
  BY <1>1, GrowsNothing
<1>3. CASE PruneIdle
  <2>1. IdleInv => ~NeverDropped'
    BY <1>3 DEF PruneIdle, IdleInv, NeverDropped, histVars
  <2>2. buf' = EmptyBuffer
    BY <1>3 DEF PruneIdle, Drop
  <2> QED BY <2>1, <2>2, <1>1, <1>2, DropContent
<1>4. CASE GoIdle \/ UNCHANGED vars \/ \E t \in Turn : StoreFails(t)
  <2>1. buf' = buf
    BY <1>4 DEF GoIdle, StoreFails, vars, dictVars
  <2> QED BY <2>1, <1>1, <1>2, QuietContent
<1> QED
  BY <1>3, <1>4

LEMMA ContentSteps == Basic /\ [Next]_vars => ContentStep
<1> SUFFICES ASSUME Basic, [Next]_vars
             PROVE  ContentStep
  OBVIOUS
<1>1. CASE \E t \in Turn : TurnStep(t)
  BY <1>1, AskContent, GetContent, StoreContent, Calls DEF TurnStep
<1>2. CASE \E e \in End : EndStep(e)
  BY <1>2, AskContent, GetContent, WriteContent, EndContent, Calls DEF EndStep, MergeStep
<1>3. CASE WorkerStep
  BY <1>3, AskContent, GetContent, WriteContent, EventContent, Calls DEF WorkerStep, MergeStep
<1>4. CASE Fault
  BY <1>4, RestContent, WriteFailsContent, EndContent, EventContent DEF Fault
<1>5. CASE GoIdle \/ PruneIdle \/ UNCHANGED vars
  BY <1>5, RestContent
<1> QED
  BY <1>1, <1>2, <1>3, <1>4, <1>5 DEF Next

-------------------------------------------------------------------------------
(* Every message is in one place, and no chunk is too large. *)

LEMMA AppendSet ==
  ASSUME NEW s \in Seq(Msg), NEW m \in Msg
  PROVE  /\ Append(s, m) \in Seq(Msg) /\ Len(Append(s, m)) = Len(s) + 1
         /\ ToSet(Append(s, m)) = ToSet(s) \cup {m}
<1> DEFINE t == Append(s, m)
<1>1. Len(s) \in Nat /\ DOMAIN s = 1 .. Len(s)
  OBVIOUS
<1>2. /\ t \in Seq(Msg) /\ Len(t) = Len(s) + 1 /\ DOMAIN t = 1 .. Len(s) + 1
      /\ \A i \in 1 .. Len(s) : t[i] = s[i]
      /\ t[Len(s) + 1] = m
  OBVIOUS
<1> HIDE DEF t
<1>3. DOMAIN t = DOMAIN s \cup {Len(s) + 1}
  BY <1>1, <1>2
<1>4. ToSet(t) = ToSet(s) \cup {m}
  <2>1. \A x : x \in ToSet(t) <=> \E i \in DOMAIN t : x = t[i]
    BY DEF ToSet
  <2>2. \A x : x \in ToSet(s) <=> \E i \in DOMAIN s : x = s[i]
    BY DEF ToSet
  <2>3. \A i \in DOMAIN s : t[i] = s[i]
    BY <1>1, <1>2
  <2> DEFINE l == Len(s) + 1
  <2> HIDE DEF l
  <2>4. DOMAIN t = DOMAIN s \cup {l} /\ t[l] = m
    BY <1>2, <1>3 DEF l
  <2>5. \A x : x \in ToSet(t) <=> x \in ToSet(s) \/ x = m
    BY <2>1, <2>2, <2>3, <2>4
  <2> QED BY <2>5
<1> QED
  BY <1>2, <1>4 DEF t

LEMMA HeadTail ==
  ASSUME NEW s \in Seq(Msg), s # <<>>, IsInjective(s)
  PROVE  /\ Head(s) \in ToSet(s)
         /\ ToSet(Tail(s)) \subseteq ToSet(s) \ {Head(s)}
         /\ IsInjective(Tail(s))
<1> DEFINE t == Tail(s)
<1>1. Len(s) \in Nat /\ Len(s) >= 1 /\ DOMAIN s = 1 .. Len(s) /\ Head(s) = s[1]
  OBVIOUS
<1>2. /\ Len(t) = Len(s) - 1 /\ DOMAIN t = 1 .. Len(s) - 1
      /\ \A i \in 1 .. Len(s) - 1 : t[i] = s[i + 1]
  OBVIOUS
<1> HIDE DEF t
<1>3. \A i \in DOMAIN t : i + 1 \in DOMAIN s /\ i + 1 # 1 /\ t[i] = s[i + 1]
  BY <1>1, <1>2
<1>4. \A i, j \in DOMAIN t : i + 1 = j + 1 => i = j
  BY <1>1, <1>2
<1>5. Head(s) \in ToSet(s)
  BY <1>1 DEF ToSet
<1>6. 1 \in DOMAIN s
  BY <1>1
<1>7. ToSet(t) \subseteq ToSet(s) \ {Head(s)}
  BY <1>1, <1>3, <1>6 DEF ToSet, IsInjective
<1>8. IsInjective(t)
  BY <1>3, <1>4 DEF IsInjective
<1> QED
  BY <1>5, <1>7, <1>8 DEF t

Content(b, h, W, s) == Apart(b, h, W) /\ Within(b, h, W, s) /\ Small(b, h, W)

LEMMA ContentFewer ==
  ASSUME NEW b, NEW h, NEW W, NEW V \in SUBSET W, NEW s, Content(b, h, W, s)
  PROVE  Content(b, h, V, s)
BY DEF Content, Apart, Within, Small

LEMMA EmptyHolds ==
  /\ Waiting(EmptyBuffer) = {} /\ Distinct(EmptyBuffer)
  /\ ToSet(EmptyBuffer.pending) = {}
<1> DEFINE runs == Runs(EmptyBuffer)
<1>1. EmptyBuffer.pending = <<>> /\ EmptyBuffer.active = <<>>
  BY DEF EmptyBuffer
<1>2. Len(EmptyBuffer.pending) = 0
  BY <1>1
<1>3. /\ DOMAIN runs = 1 .. Len(EmptyBuffer.pending) + 1
      /\ runs[Len(EmptyBuffer.pending) + 1] = Remainder(EmptyBuffer)
  BY EmptyTyped, RunsOf
<1> HIDE DEF runs
<1>4. DOMAIN runs = {1} /\ runs[1] = Remainder(EmptyBuffer)
  BY <1>2, <1>3
<1>5. \A i \in DOMAIN runs : runs[i].messages = <<>>
  BY <1>1, <1>4 DEF Remainder
<1>6. \A i \in DOMAIN runs : DOMAIN runs[i].messages = {}
  BY <1>5
<1>7. Distinct(EmptyBuffer)
  BY <1>6 DEF Distinct, runs
<1>8. Waiting(EmptyBuffer) = {}
  BY <1>6, EmptyTyped, WaitingIs DEF runs
<1>9. ToSet(EmptyBuffer.pending) = {}
  BY <1>1 DEF ToSet
<1> QED
  BY <1>7, <1>8, <1>9

LEMMA ContentEmpty ==
  ASSUME NEW b, NEW h, NEW W, NEW s, Content(b, h, W, s)
  PROVE  Content(EmptyBuffer, h, W, s)
BY EmptyHolds DEF Content, Apart, Within, Small

LEMMA ContentAppend ==
  ASSUME NEW b \in Buffer, NEW h, NEW W, NEW s \in Seq(Msg), NEW m \in Msg, m \notin ToSet(s),
         Content(b, h, W, s)
  PROVE  Content(AppendMessage(b, m), h, W, Append(s, m))
<1>1. /\ AppendMessage(b, m).pending = b.pending
      /\ Waiting(AppendMessage(b, m)) = Waiting(b) \cup {m}
      /\ Distinct(b) /\ m \notin Waiting(b) => Distinct(AppendMessage(b, m))
  BY AppendKeeps
<1>2. ToSet(Append(s, m)) = ToSet(s) \cup {m}
  BY AppendSet
<1>3. /\ m \notin Waiting(b)
      /\ \A c \in Call : h[c] # NoChunk => m \notin ToSet(h[c].messages)
      /\ \A w \in W : m \notin ToSet(w[2])
  BY DEF Content, Within
<1>4. Apart(AppendMessage(b, m), h, W)
  BY <1>1, <1>3 DEF Content, Apart
<1>5. Within(AppendMessage(b, m), h, W, Append(s, m))
  BY <1>1, <1>2 DEF Content, Within
<1>6. Small(AppendMessage(b, m), h, W)
  BY <1>1 DEF Content, Small
<1> QED
  BY <1>4, <1>5, <1>6 DEF Content

LEMMA ContentWrote ==
  ASSUME NEW b, NEW h \in Hands, NEW W, NEW s, NEW c \in Call, h[c] \in Chunk,
         Content(b, h, W, s)
  PROVE  Content(b, [h EXCEPT ![c] = NoChunk], W \cup {Pair(h[c])}, s)
<1> DEFINE g == [h EXCEPT ![c] = NoChunk]
           p == Pair(h[c])
<1>1. h[c] # NoChunk /\ p[2] = h[c].messages
  BY SessionAssumption DEF Pair
<1>2. \A d \in Call : g[d] # NoChunk => d # c /\ g[d] = h[d]
  BY DEF Hands
<1> HIDE DEF g, p
<1>3. Apart(b, g, W \cup {p})
  BY <1>1, <1>2 DEF Content, Apart
<1>4. Within(b, g, W \cup {p}, s) /\ Small(b, g, W \cup {p})
  BY <1>1, <1>2 DEF Content, Within, Small
<1> QED
  BY <1>3, <1>4 DEF Content, g, p

LEMMA ContentRefrozen ==
  ASSUME NEW b, NEW h, NEW W, NEW s, NEW f, Refrozen(b, f), Content(b, h, W, s)
  PROVE  Content(f, h, W, s)
BY DEF Refrozen, Content, Apart, Within, Small

LEMMA ContentTaken ==
  ASSUME NEW f \in Buffer, NEW h \in Hands, NEW W, NEW s, NEW c \in Call, h[c] = NoChunk,
         f.pending # <<>>, Content(f, h, W, s)
  PROVE  Content(PopMergeChunk(f), [h EXCEPT ![c] = Head(f.pending)], W, s)
<1> DEFINE g == [h EXCEPT ![c] = Head(f.pending)]
           b == PopMergeChunk(f)
           x == Head(f.pending)
<1>1. /\ ToSet(f.pending) = ToSet(b.pending) \cup {x}
      /\ Waiting(f) = Waiting(b) \cup ToSet(x.messages)
      /\ Distinct(f) => Distinct(b) /\ Waiting(b) \cap ToSet(x.messages) = {}
  BY PopKeeps
<1>2. g[c] = x /\ \A d \in Call : d # c => g[d] = h[d]
  BY DEF Hands
<1> HIDE DEF g, b, x
<1>3. Apart(b, g, W)
  BY <1>1, <1>2 DEF Content, Apart
<1>4. Within(b, g, W, s)
  BY <1>1, <1>2 DEF Content, Within
<1>5. Small(b, g, W)
  BY <1>1, <1>2 DEF Content, Small
<1> QED
  BY <1>3, <1>4, <1>5 DEF Content, g, b, x

LEMMA ContentPrepared ==
  ASSUME Basic, ContentInv, NEW b \in Buffer, NEW h \in Hands, Prepared(b, h)
  PROVE  Content(b, h, Written', appended')
<1>1. /\ buf \in Buffer /\ hand \in Hands /\ todo \in [Turn -> Seq(Msg)] /\ appended \in Seq(Msg)
      /\ Content(buf, hand, Written, appended)
  BY DEF Basic, Typed, ContentInv, Content
<1>2. CASE Same(b, h)
  <2>1. Written' \subseteq Written
    BY <1>2 DEF Same, Grows
  <2> QED BY <1>1, <1>2, <2>1, ContentFewer DEF Same
<1>3. CASE Dropped(b, h)
  <2>1. Written' \subseteq Written
    BY <1>3 DEF Dropped, Grows
  <2>2. Content(EmptyBuffer, hand, Written, appended)
    BY <1>1, ContentEmpty
  <2> QED BY <1>3, <2>1, <2>2, ContentFewer DEF Dropped
<1>4. ASSUME NEW t \in Turn, Stored(b, h, t)
      PROVE  Content(b, h, Written', appended')
  <2> DEFINE m == Head(todo[t])
  <2>1. Written' \subseteq Written /\ m \in Msg /\ b = AppendMessage(buf, m) /\ h = hand
        /\ appended' = Append(appended, m) /\ todo[t] # <<>>
    BY <1>4 DEF Stored, Grows
  <2>2. m \in ToSet(todo[t])
    BY <1>1, <2>1, HeadTail DEF ContentInv, FreshInv
  <2> HIDE DEF m
  <2>3. m \notin ToSet(appended)
    BY <2>2 DEF ContentInv, FreshInv
  <2>4. Content(AppendMessage(buf, m), hand, Written, Append(appended, m))
    BY <1>1, <2>1, <2>3, ContentAppend
  <2> QED BY <2>1, <2>4, ContentFewer
<1>5. ASSUME NEW c \in Call, Wrote(b, h, c)
      PROVE  Content(b, h, Written', appended')
  <2>1. Written' \subseteq Written \cup {Pair(hand[c])}
    BY <1>5 DEF Wrote, Grows
  <2>2. Content(buf, [hand EXCEPT ![c] = NoChunk], Written \cup {Pair(hand[c])}, appended)
    BY <1>1, <1>5, ContentWrote DEF Wrote
  <2> QED BY <1>5, <2>1, <2>2, ContentFewer DEF Wrote
<1> QED
  BY <1>2, <1>3, <1>4, <1>5 DEF Prepared

LEMMA FreshPrepared ==
  ASSUME Basic, ContentInv, NEW b \in Buffer, NEW h \in Hands, Prepared(b, h)
  PROVE  FreshInv'
<1>1. todo \in [Turn -> Seq(Msg)] /\ appended \in Seq(Msg) /\ FreshInv
  BY DEF Basic, Typed, ContentInv
<1>2. CASE todo' = todo /\ appended' = appended
  BY <1>1, <1>2 DEF FreshInv
<1>3. ASSUME NEW t \in Turn, Stored(b, h, t)
      PROVE  FreshInv'
  <2> DEFINE m == Head(todo[t])
             r == Tail(todo[t])
  <2>1. m \in Msg /\ appended' = Append(appended, m) /\ todo[t] # <<>>
        /\ todo' = [todo EXCEPT ![t] = r]
    BY <1>3 DEF Stored
  <2>2. m \in ToSet(todo[t]) /\ ToSet(r) \subseteq ToSet(todo[t]) \ {m} /\ IsInjective(r)
    BY <1>1, <2>1, HeadTail DEF FreshInv
  <2>3. todo'[t] = r /\ \A u \in Turn : u # t => todo'[u] = todo[u]
    BY <1>1, <2>1
  <2> HIDE DEF m, r
  <2>4. ToSet(appended') = ToSet(appended) \cup {m}
    BY <1>1, <2>1, AppendSet
  <2>5. \A u \in Turn : IsInjective(todo'[u]) /\ ToSet(todo'[u]) \cap ToSet(appended') = {}
    <3> SUFFICES ASSUME NEW u \in Turn
                 PROVE  IsInjective(todo'[u]) /\ ToSet(todo'[u]) \cap ToSet(appended') = {}
      OBVIOUS
    <3>1. CASE u = t
      BY <3>1, <1>1, <2>2, <2>3, <2>4 DEF FreshInv
    <3>2. CASE u # t
      <4>1. ToSet(todo[t]) \cap ToSet(todo[u]) = {} /\ ToSet(todo[u]) \cap ToSet(appended) = {}
            /\ IsInjective(todo[u]) /\ todo'[u] = todo[u]
        BY <3>2, <1>1, <2>3 DEF FreshInv
      <4> QED BY <4>1, <2>2, <2>4
    <3> QED BY <3>1, <3>2
  <2>6. \A u \in Turn : ToSet(todo'[u]) \subseteq ToSet(todo[u])
    BY <2>2, <2>3
  <2>7. \A u, v \in Turn : u # v => ToSet(todo'[u]) \cap ToSet(todo'[v]) = {}
    BY <1>1, <2>6 DEF FreshInv
  <2> QED BY <2>5, <2>7 DEF FreshInv
<1> QED
  BY <1>2, <1>3 DEF Prepared, Same, Dropped, Wrote

LEMMA ContentSame == Basic /\ ContentInv /\ [Next]_vars => ContentInv'
<1> SUFFICES ASSUME Basic, ContentInv, [Next]_vars
             PROVE  ContentInv'
  OBVIOUS
<1>1. PICK b \in Buffer, h \in Hands, f \in Buffer :
         Prepared(b, h) /\ Refrozen(b, f) /\ Taken(f, h)
  BY ContentSteps DEF ContentStep
<1>2. Content(f, h, Written', appended')
  BY <1>1, ContentPrepared, ContentRefrozen
<1>3. Content(buf', hand', Written', appended')
  <2>1. CASE buf' = f /\ hand' = h
    BY <2>1, <1>2
  <2>2. ASSUME NEW c \in Call, h[c] = NoChunk, f.pending # <<>>,
               buf' = PopMergeChunk(f), hand' = [h EXCEPT ![c] = Head(f.pending)]
        PROVE  Content(buf', hand', Written', appended')
    BY <2>2, <1>2, ContentTaken
  <2> QED BY <1>1, <2>1, <2>2 DEF Taken
<1>4. FreshInv'
  BY <1>1, FreshPrepared
<1> QED
  BY <1>3, <1>4 DEF Content, ContentInv

LEMMA NothingWritten ==
  ASSUME Init
  PROVE  /\ Written = {} /\ Chosen = {} /\ EventChunks = {}
         /\ \A c \in Call : hand[c] = NoChunk
         /\ buf = EmptyBuffer /\ appended = <<>>
<1>1. NoEvent.kind # "merged"
  BY EventValues
<1>2. merged = {} /\ events = {} /\ event = NoEvent /\ chosen = [e \in End |-> {}]
      /\ hand = [c \in Call |-> NoChunk] /\ buf = EmptyBuffer /\ appended = <<>>
  BY DEF Init
<1>3. EventChunks = {}
  BY <1>1, <1>2 DEF EventChunks
<1>4. Written = {}
  BY <1>2, <1>3 DEF Written
<1>5. Chosen = {}
  BY <1>2 DEF Chosen
<1> QED
  BY <1>2, <1>3, <1>4, <1>5

LEMMA ContentInit == Init => ContentInv
<1> SUFFICES ASSUME Init
             PROVE  ContentInv
  OBVIOUS
<1>1. Content(buf, hand, Written, appended)
  BY NothingWritten, EmptyHolds DEF Content, Apart, Within, Small
<1>2. ToSet(appended) = {}
  BY NothingWritten DEF ToSet
<1>3. todo = TurnMessages
  BY DEF Init
<1>4. FreshInv
  BY <1>2, <1>3, MessageAssumption DEF FreshInv
<1> QED
  BY <1>1, <1>4 DEF Content, ContentInv

LEMMA ContentAlways == Spec => []ContentInv
<1> QED
  BY BasicAlways, ContentInit, ContentSame, PTL DEF Spec

\* MergedOnce: no message goes into two merged records.  A chunk leaves the buffer
\* before its record is written, a record is known by its range, and an event carries
\* the chunk of a record that was written: each message stays in one of these places.
THEOREM MergedOnceAlways == Spec => []MergedOnce
<1>1. Basic /\ ContentInv => MergedOnce
  <2> SUFFICES ASSUME Basic, ContentInv
               PROVE  MergedOnce
    OBVIOUS
  <2>1. \A x \in InHand : \E c \in Call : x = hand[c] /\ hand[c] # NoChunk
    BY DEF InHand
  <2>2. \A r \in merged : <<r.uri, r.messages>> \in Written
    BY DEF Written
  <2>3. /\ \A x, y \in InHand : x # y => ToSet(x.messages) \cap ToSet(y.messages) = {}
        /\ \A x \in InHand : Waiting(buf) \cap ToSet(x.messages) = {}
    BY <2>1 DEF ContentInv, Apart
  <2>4. ASSUME NEW x \in InHand, NEW r \in merged
        PROVE  ToSet(r.messages) \cap ToSet(x.messages) = {}
    <3> DEFINE w == <<r.uri, r.messages>>
    <3>1. w \in Written /\ w[2] = r.messages
      BY <2>2
    <3> HIDE DEF w
    <3> QED BY <2>1, <3>1 DEF ContentInv, Apart
  <2>5. ASSUME NEW r \in merged
        PROVE  Waiting(buf) \cap ToSet(r.messages) = {}
    <3> DEFINE w == <<r.uri, r.messages>>
    <3>1. w \in Written /\ w[2] = r.messages
      BY <2>2
    <3> HIDE DEF w
    <3> QED BY <3>1 DEF ContentInv, Apart
  <2>6. ASSUME NEW r \in merged, NEW s \in merged, r # s
        PROVE  ToSet(r.messages) \cap ToSet(s.messages) = {}
    <3> DEFINE v == <<r.uri, r.messages>>
               w == <<s.uri, s.messages>>
    <3>1. v \in Written /\ w \in Written /\ v[2] = r.messages /\ w[2] = s.messages
      BY <2>2
    <3>2. v # w
      BY <2>6 DEF Basic, OneRecord
    <3> HIDE DEF v, w
    <3> QED BY <3>1, <3>2 DEF ContentInv, Apart
  <2>7. \A x \in InHand \cup merged : Waiting(buf) \cap ToSet(x.messages) = {}
    BY <2>3, <2>5
  <2>8. Waiting(buf) \cap MessagesOf(InHand \cup merged) = {}
    BY <2>7 DEF MessagesOf
  <2>9. \A x, y \in InHand \cup merged : x # y => ToSet(x.messages) \cap ToSet(y.messages) = {}
    BY <2>3, <2>4, <2>6
  <2>10. Distinct(buf)
    BY DEF ContentInv, Apart
  <2> QED BY <2>8, <2>9, <2>10 DEF MergedOnce
<1> QED
  BY <1>1, BasicAlways, ContentAlways, PTL

\* ChunksBounded: a frozen chunk is within the token budget or one message, wherever
\* it is on its way to a merged record.
THEOREM ChunksBoundedAlways == Spec => []ChunksBounded
<1>1. ContentInv => ChunksBounded
  <2> SUFFICES ASSUME ContentInv
               PROVE  ChunksBounded
    OBVIOUS
  <2>1. ASSUME NEW r \in merged
        PROVE  Bounded(r.messages)
    <3> DEFINE w == <<r.uri, r.messages>>
    <3>1. w \in Written /\ w[2] = r.messages
      BY DEF Written
    <3> HIDE DEF w
    <3> QED BY <3>1 DEF ContentInv, Small
  <2> QED BY <2>1 DEF ChunksBounded, InHand, ContentInv, Small
<1> QED
  BY <1>1, ContentAlways, PTL

-------------------------------------------------------------------------------
(* Ranges: as long as the buffer is not dropped, indexes are those of messages.   *)

\* A call that is over stays so; idle periods and failures are counted.
Flow ==
  /\ \A c \in Call : pc[c] \in {"done", "empty"} => pc'[c] = pc[c]
  /\ activity' = "stale" => activity = "stale" \/ idles' = idles + 1
  /\ idles' = idles \/ idles' = idles + 1
  /\ failures' = failures \/ failures' = failures + 1

LEMMA MoveFlow ==
  ASSUME Basic, NEW c \in Call, NEW l, pc[c] \notin {"done", "empty"},
         pc' = [pc EXCEPT ![c] = l]
  PROVE  \A d \in Call : pc[d] \in {"done", "empty"} => pc'[d] = pc[d]
BY DEF Basic, Typed

LEMMA EnterFlow ==
  ASSUME Basic, NEW c \in Call, NEW b, NEW a, Enters(c, b, a), pc[c] \notin {"done", "empty"}
  PROVE  /\ \A d \in Call : pc[d] \in {"done", "empty"} => pc'[d] = pc[d]
         /\ activity' \in {"recent", a}
<1>1. \E l : pc' = [pc EXCEPT ![c] = l]
  BY DEF Enters, Takes, Leaves
<1> QED
  BY <1>1, MoveFlow DEF Enters

LEMMA LockFlow ==
  ASSUME Basic, NEW c \in Call, AskLock(c) \/ GetLock(c)
  PROVE  Flow
<1>1. CASE AskLock(c)
  <2>1. PICK b \in {buf, EmptyBuffer}, l \in Nat : Asks(c, b, l)
    BY <1>1, AskForms DEF Basic
  <2>2. /\ pc[c] \notin {"done", "empty"} /\ activity' # "stale"
        /\ failures' = failures /\ idles' = idles
    BY <2>1 DEF Asks, histVars
  <2>3. \/ pc' = [pc EXCEPT ![c] = "queued"]
        \/ Enters(c, b, activity) \/ Enters(c, b, "none")
    BY <2>1 DEF Asks
  <2>4. \A d \in Call : pc[d] \in {"done", "empty"} => pc'[d] = pc[d]
    BY <2>2, <2>3, MoveFlow, EnterFlow
  <2> QED BY <2>2, <2>4 DEF Flow
<1>2. CASE GetLock(c)
  <2>1. /\ pc[c] \notin {"done", "empty"} /\ failures' = failures /\ idles' = idles
        /\ Enter(c, buf, activity)
    BY <1>2 DEF GetLock, histVars
  <2>2. Enters(c, buf, activity)
    BY <2>1, EnterForms DEF Basic, Typed
  <2> QED BY <2>1, <2>2, EnterFlow DEF Flow
<1> QED
  BY <1>1, <1>2

LEMMA MergeFlow ==
  ASSUME Basic, NEW c \in End \cup {Worker}, WriteMerged(c) \/ WriteFails(c)
  PROVE  Flow
<1>1. c \in Call /\ Worker \in Call /\ pc[c] = "writing"
  BY Calls DEF WriteMerged, WriteFails
<1>2. CASE WriteMerged(c)
  <2>1. MergeNext(c, buf) /\ activity' = activity /\ failures' = failures /\ idles' = idles
    BY <1>2 DEF WriteMerged, histVars
  <2>2. \E l : pc' = [pc EXCEPT ![c] = l]
    BY <2>1, MergeNextForms DEF Takes, Leaves
  <2> QED BY <1>1, <2>1, <2>2, MoveFlow DEF Flow
<1>3. CASE WriteFails(c)
  <2>1. activity' = activity /\ failures' = failures + 1 /\ idles' = idles
    BY <1>3 DEF WriteFails, Failure, dictVars
  <2>2. \E l : pc' = [pc EXCEPT ![c] = l]
    BY <1>3 DEF WriteFails, GiveUpEvent, Goto
  <2> QED BY <1>1, <2>1, <2>2, MoveFlow DEF Flow
<1> QED
  BY <1>2, <1>3

LEMMA TurnFlow ==
  ASSUME Basic, NEW t \in Turn, StoreMessage(t) \/ StoreFails(t)
  PROVE  Flow
<1>1. t \in Call /\ pc[t] = "storing"
  BY Calls DEF StoreMessage, StoreFails
<1>2. activity' = activity /\ idles' = idles /\ (failures' = failures \/ failures' = failures + 1)
  BY DEF StoreMessage, StoreFails, Failure, dictVars
<1>3. pc' = pc \/ \E l : pc' = [pc EXCEPT ![t] = l]
  BY DEF StoreMessage, StoreFails, Goto
<1> QED
  BY <1>1, <1>2, <1>3, MoveFlow DEF Flow

LEMMA EndFlow ==
  ASSUME Basic, NEW e \in End, LoadMergedRecords(e) \/ WriteFinal(e) \/ EndFails(e)
  PROVE  Flow
<1>1. e \in Call /\ pc[e] \notin {"done", "empty"}
  BY Calls DEF LoadMergedRecords, WriteFinal, EndFails
<1>2. activity' \in {activity, "none"} /\ idles' = idles
      /\ (failures' = failures \/ failures' = failures + 1)
  BY DEF LoadMergedRecords, WriteFinal, EndFails, Failure, Drop, dictVars, histVars
<1>3. \E l : pc' = [pc EXCEPT ![e] = l]
  BY DEF LoadMergedRecords, WriteFinal, EndFails, Goto
<1> QED
  BY <1>1, <1>2, <1>3, MoveFlow DEF Flow

LEMMA EventFlow ==
  ASSUME Basic, TakeEvent \/ Derive \/ Cleanup \/ CleanupFails
  PROVE  Flow
<1>1. Worker \in Call /\ pc[Worker] \notin {"done", "empty"}
  BY Calls DEF TakeEvent, Derive, Cleanup, CleanupFails
<1>2. activity' = activity /\ idles' = idles /\ (failures' = failures \/ failures' = failures + 1)
  BY DEF TakeEvent, Derive, Cleanup, CleanupFails, Failure, dictVars, histVars
<1>3. \E l : pc' = [pc EXCEPT ![Worker] = l]
  BY DEF TakeEvent, Derive, Cleanup, CleanupFails, GiveUpEvent, Goto
<1> QED
  BY <1>1, <1>2, <1>3, MoveFlow DEF Flow

LEMMA IdleFlow ==
  ASSUME Basic, GoIdle \/ PruneIdle \/ UNCHANGED vars
  PROVE  Flow
BY DEF GoIdle, PruneIdle, Drop, Flow, vars, dictVars, histVars

LEMMA FlowSteps == Basic /\ [Next]_vars => Flow
<1> SUFFICES ASSUME Basic, [Next]_vars
             PROVE  Flow
  OBVIOUS
<1>1. CASE \E t \in Turn : TurnStep(t)
  BY <1>1, LockFlow, TurnFlow, Calls DEF TurnStep
<1>2. CASE \E e \in End : EndStep(e)
  BY <1>2, LockFlow, MergeFlow, EndFlow, Calls DEF EndStep, MergeStep
<1>3. CASE WorkerStep
  BY <1>3, LockFlow, MergeFlow, EventFlow, Calls DEF WorkerStep, MergeStep
<1>4. CASE Fault
  BY <1>4, TurnFlow, MergeFlow, EndFlow, EventFlow DEF Fault
<1>5. CASE GoIdle \/ PruneIdle \/ UNCHANGED vars
  BY <1>5, IdleFlow
<1> QED
  BY <1>1, <1>2, <1>3, <1>4, <1>5 DEF Next

\* Once the buffer was dropped it stays so.
LEMMA DropStays == Basic /\ [Next]_vars /\ NeverDropped' => NeverDropped
<1> SUFFICES ASSUME Basic, [Next]_vars, NeverDropped'
             PROVE  NeverDropped
  OBVIOUS
<1>1. Flow /\ idles \in Nat /\ End \subseteq Call
  BY FlowSteps, Calls, SessionAssumption DEF Basic, Typed
<1>2. idles = 0
  BY <1>1 DEF Flow, NeverDropped
<1> QED
  BY <1>1, <1>2 DEF Flow, NeverDropped

LEMMA IdleAlways == Spec => []IdleInv
<1>1. Init => IdleInv
  BY DEF Init, IdleInv
<1>2. Basic /\ IdleInv /\ [Next]_vars => IdleInv'
  <2> SUFFICES ASSUME Basic, IdleInv, [Next]_vars
               PROVE  IdleInv'
    OBVIOUS
  <2>1. Flow /\ idles \in Nat
    BY FlowSteps, SessionAssumption DEF Basic, Typed
  <2> QED BY <2>1 DEF Flow, IdleInv
<1> QED
  BY <1>1, <1>2, BasicAlways, PTL DEF Spec

\* What a step adds to the pairs is the pair of a chunk.
LEMMA PairsGrow ==
  ASSUME Basic, [Next]_vars, NEW w \in Written' \cup Chosen'
  PROVE  w \in Written \cup Chosen \/ \E x \in Chunk : w = Pair(x)
<1>1. PICK b \in Buffer, h \in Hands : Prepared(b, h)
  BY ContentSteps DEF ContentStep
<1> QED
  BY <1>1 DEF Prepared, Same, Dropped, Stored, Wrote, Grows

LEMMA RangeAlways == Spec => []RangeInv
<1>1. Init => RangeInv
  BY NothingWritten DEF RangeInv
<1>2. Basic /\ RangeInv /\ [Next]_vars => RangeInv'
  <2> SUFFICES ASSUME Basic, RangeInv, [Next]_vars, NEW w \in Written' \cup Chosen'
               PROVE  w[1][2] = w[1][1] + Len(w[2]) - 1
    BY DEF RangeInv
  <2>1. CASE w \in Written \cup Chosen
    BY <2>1 DEF RangeInv
  <2>2. CASE \E x \in Chunk : w = Pair(x)
    BY <2>2 DEF Pair, Uri
  <2> QED BY <2>1, <2>2, PairsGrow
<1> QED
  BY <1>1, <1>2, BasicAlways, PTL DEF Spec

LEMMA NumberedFewer ==
  ASSUME NEW b, NEW h, NEW W, NEW V \in SUBSET W, NEW s, Numbered(b, h, W, s)
  PROVE  Numbered(b, h, V, s)
BY DEF Numbered

LEMMA NumberedAppend ==
  ASSUME NEW b \in Buffer, NEW h, NEW W, NEW s \in Seq(Msg), NEW m \in Msg,
         Numbered(b, h, W, s)
  PROVE  Numbered(AppendMessage(b, m), h, W, Append(s, m))
<1>1. /\ NextMsgIndex(AppendMessage(b, m)) = NextMsgIndex(b) + 1
      /\ \A x \in ToSet(Runs(AppendMessage(b, m))) : PlacedIn(x, Append(s, m))
  BY AppendKeeps DEF Numbered
<1>2. Len(Append(s, m)) = Len(s) + 1
  BY AppendSet
<1>3. \A c \in Call : h[c] # NoChunk => PlacedIn(h[c], Append(s, m))
  BY PlacedInLonger DEF Numbered
<1>4. \A w \in W : PlacedIn([start |-> w[1][1], messages |-> w[2]], Append(s, m))
  BY PlacedInLonger DEF Numbered
<1> QED
  BY <1>1, <1>2, <1>3, <1>4 DEF Numbered

LEMMA NumberedWrote ==
  ASSUME NEW b, NEW h \in Hands, NEW W, NEW s, NEW c \in Call, h[c] \in Chunk,
         Numbered(b, h, W, s)
  PROVE  Numbered(b, [h EXCEPT ![c] = NoChunk], W \cup {Pair(h[c])}, s)
<1> DEFINE g == [h EXCEPT ![c] = NoChunk]
           p == Pair(h[c])
<1>1. h[c] # NoChunk /\ p[2] = h[c].messages /\ p[1][1] = h[c].start
  BY SessionAssumption DEF Pair, Uri
<1>2. \A d \in Call : g[d] # NoChunk => d # c /\ g[d] = h[d]
  BY DEF Hands
<1>3. PlacedIn(h[c], s)
  BY <1>1 DEF Numbered
<1> HIDE DEF g, p
<1>4. PlacedIn([start |-> p[1][1], messages |-> p[2]], s)
  BY <1>1, <1>3 DEF PlacedIn
<1>5. Numbered(b, g, W \cup {p}, s)
  BY <1>2, <1>4 DEF Numbered
<1> QED
  BY <1>5 DEF g, p

LEMMA NumberedRefrozen ==
  ASSUME NEW b, NEW h, NEW W, NEW s, NEW f, Refrozen(b, f), Numbered(b, h, W, s)
  PROVE  Numbered(f, h, W, s)
BY DEF Refrozen, Numbered

LEMMA NumberedTaken ==
  ASSUME NEW f \in Buffer, NEW h \in Hands, NEW W, NEW s, NEW c \in Call, h[c] = NoChunk,
         f.pending # <<>>, Numbered(f, h, W, s)
  PROVE  Numbered(PopMergeChunk(f), [h EXCEPT ![c] = Head(f.pending)], W, s)
<1> DEFINE g == [h EXCEPT ![c] = Head(f.pending)]
           b == PopMergeChunk(f)
           x == Head(f.pending)
<1>1. NextMsgIndex(b) = NextMsgIndex(f) /\ ToSet(Runs(f)) = ToSet(Runs(b)) \cup {x}
  BY PopKeeps
<1>2. g[c] = x /\ \A d \in Call : d # c => g[d] = h[d]
  BY DEF Hands
<1> HIDE DEF g, b, x
<1>3. Numbered(b, g, W, s)
  BY <1>1, <1>2 DEF Numbered
<1> QED
  BY <1>3 DEF g, b, x

LEMMA NumberedPrepared ==
  ASSUME Basic, IdleInv, Numbered(buf, hand, Written \cup Chosen, appended), NeverDropped',
         NEW b \in Buffer, NEW h \in Hands, Prepared(b, h)
  PROVE  Numbered(b, h, Written' \cup Chosen', appended')
<1> DEFINE W == Written \cup Chosen
           V == Written' \cup Chosen'
<1>1. /\ buf \in Buffer /\ hand \in Hands /\ appended \in Seq(Msg)
      /\ Numbered(buf, hand, W, appended)
  BY DEF Basic, Typed
<1>2. \A P : Grows(P) => V \subseteq W \cup P
  BY DEF Grows
<1> HIDE DEF W, V
<1>3. CASE Same(b, h)
  <2>1. V \subseteq W
    BY <1>2, <1>3 DEF Same
  <2>2. Numbered(b, h, V, appended')
    BY <1>1, <1>3, <2>1, NumberedFewer DEF Same
  <2> QED BY <2>2 DEF V
<1>4. CASE Dropped(b, h)
  BY <1>4 DEF Dropped
<1>5. ASSUME NEW t \in Turn, Stored(b, h, t)
      PROVE  Numbered(b, h, Written' \cup Chosen', appended')
  <2> DEFINE m == Head(todo[t])
  <2>1. V \subseteq W /\ m \in Msg /\ b = AppendMessage(buf, m) /\ h = hand
        /\ appended' = Append(appended, m)
    BY <1>2, <1>5 DEF Stored
  <2> HIDE DEF m
  <2>2. Numbered(AppendMessage(buf, m), hand, W, Append(appended, m))
    BY <1>1, <2>1, NumberedAppend
  <2>3. Numbered(b, h, V, appended')
    BY <2>1, <2>2, NumberedFewer
  <2> QED BY <2>3 DEF V
<1>6. ASSUME NEW c \in Call, Wrote(b, h, c)
      PROVE  Numbered(b, h, Written' \cup Chosen', appended')
  <2>1. V \subseteq W \cup {Pair(hand[c])}
    BY <1>2, <1>6 DEF Wrote
  <2>2. Numbered(buf, [hand EXCEPT ![c] = NoChunk], W \cup {Pair(hand[c])}, appended)
    BY <1>1, <1>6, NumberedWrote DEF Wrote
  <2>3. Numbered(b, h, V, appended')
    BY <1>6, <2>1, <2>2, NumberedFewer DEF Wrote
  <2> QED BY <2>3 DEF V
<1> QED
  BY <1>3, <1>4, <1>5, <1>6 DEF Prepared

LEMMA NumberedSame == Basic /\ IdleInv /\ NumberedInv /\ [Next]_vars => NumberedInv'
<1> SUFFICES ASSUME Basic, IdleInv, NumberedInv, [Next]_vars, NeverDropped'
             PROVE  Numbered(buf', hand', Written' \cup Chosen', appended')
  BY DEF NumberedInv
<1> DEFINE V == Written' \cup Chosen'
<1>1. Numbered(buf, hand, Written \cup Chosen, appended)
  BY DropStays DEF NumberedInv
<1>2. PICK b \in Buffer, h \in Hands, f \in Buffer :
         Prepared(b, h) /\ Refrozen(b, f) /\ Taken(f, h)
  BY ContentSteps DEF ContentStep
<1>3. Numbered(b, h, V, appended')
  BY <1>1, <1>2, NumberedPrepared
<1> HIDE DEF V
<1>4. Numbered(f, h, V, appended')
  BY <1>2, <1>3, NumberedRefrozen
<1>5. Numbered(buf', hand', V, appended')
  <2>1. CASE buf' = f /\ hand' = h
    BY <2>1, <1>4
  <2>2. ASSUME NEW c \in Call, h[c] = NoChunk, f.pending # <<>>,
               buf' = PopMergeChunk(f), hand' = [h EXCEPT ![c] = Head(f.pending)]
        PROVE  Numbered(buf', hand', V, appended')
    BY <2>2, <1>4, NumberedTaken
  <2> QED BY <1>2, <2>1, <2>2 DEF Taken
<1> QED
  BY <1>5 DEF V

LEMMA NumberedInit == Init => NumberedInv
<1> SUFFICES ASSUME Init
             PROVE  Numbered(buf, hand, Written \cup Chosen, appended)
  BY DEF NumberedInv
<1> DEFINE runs == Runs(EmptyBuffer)
<1>1. NextMsgIndex(EmptyBuffer) = 0 /\ Len(EmptyBuffer.pending) = 0
  BY DEF NextMsgIndex, EmptyBuffer
<1>2. /\ DOMAIN runs = 1 .. Len(EmptyBuffer.pending) + 1
      /\ runs[Len(EmptyBuffer.pending) + 1] = Remainder(EmptyBuffer)
  BY EmptyTyped, RunsOf
<1> HIDE DEF runs
<1>3. DOMAIN runs = {1} /\ runs[1] = Remainder(EmptyBuffer)
  BY <1>1, <1>2
<1>4. Remainder(EmptyBuffer).messages = <<>>
  BY DEF Remainder, EmptyBuffer
<1>5. \A x \in ToSet(runs) : x = Remainder(EmptyBuffer)
  BY <1>3 DEF ToSet
<1>6. PlacedIn(Remainder(EmptyBuffer), <<>>)
  BY <1>4 DEF PlacedIn
<1> QED
  BY <1>1, <1>5, <1>6, NothingWritten DEF Numbered, runs

LEMMA NumberedAlways == Spec => []NumberedInv
<1> QED
  BY BasicAlways, IdleAlways, NumberedInit, NumberedSame, PTL DEF Spec

\* RangesExact: until the buffer is dropped, the range in a merged record's URI is
\* that of its messages in the session.  The next index is the number of messages
\* stored, and neither a freeze nor a merge moves a message to another index.
THEOREM RangesExactAlways == Spec => []RangesExact
<1>1. NumberedInv => RangesExact
  <2> SUFFICES ASSUME NeverDropped, Numbered(buf, hand, Written \cup Chosen, appended)
               PROVE  /\ \A x \in ToSet(Runs(buf)) \cup InHand : InPlace(x)
                      /\ \A r \in merged : RecordInPlace(r)
    BY DEF NumberedInv, RangesExact
  <2>1. \A x \in ToSet(Runs(buf)) \cup InHand : InPlace(x)
    BY DEF Numbered, InPlace, InHand
  <2>2. ASSUME NEW r \in merged
        PROVE  RecordInPlace(r)
    <3> DEFINE w == <<r.uri, r.messages>>
    <3>1. w \in Written /\ w[1][1] = r.uri[1] /\ w[2] = r.messages
      BY DEF Written
    <3> HIDE DEF w
    <3>2. PlacedIn([start |-> w[1][1], messages |-> w[2]], appended)
      BY <3>1 DEF Numbered
    <3> QED BY <3>1, <3>2 DEF RecordInPlace, InPlace
  <2> QED BY <2>1, <2>2
<1> QED
  BY <1>1, NumberedAlways, PTL

-------------------------------------------------------------------------------
(* Records: once written they are renewed with the messages they have.            *)

\* The record of chunk x is written or written again.
Renewed(x, ready) ==
  /\ Pair(x) \in Written \/ \E c \in Call : hand[c] = x /\ x # NoChunk
  /\ merged' = Upsert(merged, Record(x, ready))
  /\ EventChunks' \subseteq EventChunks \cup {x}

RecordStep ==
  /\ \/ merged' = merged /\ EventChunks' \subseteq EventChunks
     \/ \E x \in Chunk, ready \in BOOLEAN : Renewed(x, ready)
  /\ imm \subseteq imm' \cup MessagesOf(EventChunks)
  /\ ToSet(appended') \subseteq ToSet(appended) \cup imm'

LEMMA RecordsQuiet ==
  ASSUME merged' = merged, imm \subseteq imm', appended' = appended,
         \A x \in events' \cup {event'} : x.kind = "merged" => x \in events \cup {event}
  PROVE  RecordStep
<1>1. EventChunks' \subseteq EventChunks
  BY DEF EventChunks
<1> QED
  BY <1>1 DEF RecordStep

LEMMA LockRecords ==
  ASSUME Basic, NEW c \in Call, AskLock(c) \/ GetLock(c)
  PROVE  RecordStep
<1>1. NoEvent.kind # "merged"
  BY EventValues
<1>2. CASE AskLock(c)
  <2>1. PICK b \in {buf, EmptyBuffer}, l \in Nat : Asks(c, b, l)
    BY <1>2, AskForms DEF Basic
  <2>2. event' = event \/ event' = NoEvent
    BY <2>1 DEF Asks, Enters, Takes, Leaves
  <2>3. merged' = merged /\ imm' = imm /\ appended' = appended /\ events' = events
    BY <2>1 DEF Asks, storeVars, histVars
  <2> QED BY <1>1, <2>2, <2>3, RecordsQuiet
<1>3. CASE GetLock(c)
  <2>1. Enter(c, buf, activity) /\ buf \in Buffer
    BY <1>3 DEF GetLock, Basic, Typed
  <2>2. event' = event \/ event' = NoEvent
    BY <2>1, EnterForms DEF Enters, Takes, Leaves
  <2>3. merged' = merged /\ imm' = imm /\ appended' = appended /\ events' = events
    BY <1>3 DEF GetLock, storeVars, histVars
  <2> QED BY <1>1, <2>2, <2>3, RecordsQuiet
<1> QED
  BY <1>2, <1>3

LEMMA StoreRecords ==
  ASSUME Basic, NEW t \in Turn, StoreMessage(t)
  PROVE  RecordStep
<1> DEFINE m == Head(todo[t])
<1>1. /\ m \in Msg /\ appended' = Append(appended, m) /\ appended \in Seq(Msg)
  BY StoreTyped DEF Basic, Typed
<1>2. /\ merged' = merged /\ imm' = imm \cup {m} /\ event' = event
      /\ events' = events \/ events' = events \cup {TurnEvent(t)}
  BY DEF StoreMessage
<1> HIDE DEF m
<1>3. TurnEvent(t).kind # "merged"
  BY DEF TurnEvent
<1>4. EventChunks' \subseteq EventChunks
  BY <1>2, <1>3 DEF EventChunks
<1>5. ToSet(appended') = ToSet(appended) \cup {m}
  BY <1>1, AppendSet
<1> QED
  BY <1>2, <1>4, <1>5 DEF RecordStep

LEMMA WriteRecords ==
  ASSUME Basic, NEW c \in End \cup {Worker}, WriteMerged(c) \/ WriteFails(c)
  PROVE  RecordStep
<1>1. c \in Call /\ hand[c] \in Chunk /\ hand[c] # NoChunk
  BY WriteTyped, WriteFailsTyped, Calls, SessionAssumption
<1>2. NoEvent.kind # "merged" /\ MergedEvent(hand[c]).chunk = hand[c]
  BY EventValues DEF MergedEvent
<1>3. imm' = imm /\ appended' = appended
  BY DEF WriteMerged, WriteFails, histVars
<1>4. CASE WriteMerged(c)
  <2>1. /\ merged' = Upsert(merged, Record(hand[c], FALSE))
        /\ events' = events \cup {MergedEvent(hand[c])}
        /\ MergeNext(c, buf)
    BY <1>4 DEF WriteMerged
  <2>2. event' = event \/ event' = NoEvent
    BY <2>1, MergeNextForms DEF Takes, Leaves
  <2>3. EventChunks' \subseteq EventChunks \cup {hand[c]}
    BY <1>2, <2>1, <2>2 DEF EventChunks
  <2>4. Renewed(hand[c], FALSE)
    BY <1>1, <2>1, <2>3 DEF Renewed
  <2> QED BY <1>1, <1>3, <2>4 DEF RecordStep
<1>5. CASE WriteFails(c)
  <2>1. /\ merged' \in {merged, Upsert(merged, Record(hand[c], FALSE))}
        /\ events' \in {events, events \cup {event}}
        /\ event' = event \/ event' = NoEvent
    BY <1>5 DEF WriteFails, GiveUpEvent, eventVars
  <2>2. EventChunks' \subseteq EventChunks
    BY <1>2, <2>1 DEF EventChunks
  <2>3. merged' = merged \/ Renewed(hand[c], FALSE)
    BY <1>1, <2>1, <2>2 DEF Renewed
  <2> QED BY <1>1, <1>3, <2>2, <2>3 DEF RecordStep
<1> QED
  BY <1>4, <1>5

LEMMA EndRecords ==
  ASSUME Basic, NEW e \in End, LoadMergedRecords(e) \/ WriteFinal(e) \/ EndFails(e)
  PROVE  RecordStep
<1>1. /\ merged' = merged /\ imm' = imm /\ appended' = appended
      /\ events' = events /\ event' = event
  BY DEF LoadMergedRecords, WriteFinal, EndFails, storeVars, eventVars, histVars
<1> QED
  BY <1>1, RecordsQuiet

\* Cleanup removes nothing but messages of the event's chunk.
LEMMA CleanupRecords ==
  ASSUME Basic, Cleanup \/ CleanupFails
  PROVE  RecordStep
<1>1. event \in MergedEvents
  BY CleanupTyped
<1>2. event.kind = "merged" /\ event.chunk \in Chunk /\ NoEvent.kind # "merged"
  BY <1>1, EventValues
<1>3. /\ merged' = merged /\ appended' = appended
      /\ event' = NoEvent /\ events' \in {events, events \cup {event}}
  BY CleanupForms DEF Cleanup, CleanupFails, histVars
<1>4. event.chunk \in EventChunks
  BY <1>2 DEF EventChunks
<1>5. EventChunks' \subseteq EventChunks
  BY <1>2, <1>3 DEF EventChunks
<1>6. imm \subseteq imm' \cup ToSet(event.chunk.messages)
  <2> DEFINE ms == event.chunk.messages
  <2>1. ms \in Seq(Msg)
    BY <1>2 DEF Chunk
  <2>2. CASE Cleanup
    BY <2>2 DEF Cleanup
  <2>3. CASE CleanupFails
    <3>1. PICK n \in 0 .. Len(ms) - 1 : imm' = imm \ ToSet(SubSeq(ms, 1, n))
      BY <2>3 DEF CleanupFails
    <3> HIDE DEF ms
    <3>2. \A i \in 1 .. n : SubSeq(ms, 1, n)[i] = ms[i] /\ i \in DOMAIN ms
      BY <2>1
    <3>3. DOMAIN SubSeq(ms, 1, n) = 1 .. n
      BY <2>1
    <3>4. ToSet(SubSeq(ms, 1, n)) \subseteq ToSet(ms)
      BY <3>2, <3>3 DEF ToSet
    <3> QED BY <3>1, <3>4 DEF ms
  <2> QED BY <2>2, <2>3
<1>7. imm \subseteq imm' \cup MessagesOf(EventChunks)
  BY <1>4, <1>6 DEF MessagesOf
<1> QED
  BY <1>3, <1>5, <1>7 DEF RecordStep

LEMMA EventRecords ==
  ASSUME Basic, TakeEvent \/ Derive
  PROVE  RecordStep
<1>1. /\ imm' = imm /\ appended' = appended
      /\ \A x \in events' \cup {event'} : x.kind = "merged" => x \in events \cup {event}
  BY DEF TakeEvent, Derive, eventVars, storeVars, histVars
<1>2. CASE merged' = merged
  BY <1>1, <1>2, RecordsQuiet
<1>3. CASE Derive /\ merged' = Upsert(merged, Record(event.chunk, TRUE))
  <2>1. event \in MergedEvents
    BY <1>3, DeriveTyped
  <2>2. event.chunk \in Chunk /\ event.kind = "merged"
    BY <2>1, EventValues
  <2>3. event.chunk \in EventChunks /\ EventChunks' \subseteq EventChunks
    BY <1>1, <2>2 DEF EventChunks
  <2>4. Pair(event.chunk) \in Written
    BY <2>3 DEF Written
  <2>5. Renewed(event.chunk, TRUE)
    BY <1>3, <2>3, <2>4 DEF Renewed
  <2> QED BY <1>1, <2>2, <2>5 DEF RecordStep
<1> QED
  BY <1>2, <1>3 DEF TakeEvent, Derive, storeVars

LEMMA RestRecords ==
  ASSUME Basic, GoIdle \/ PruneIdle \/ UNCHANGED vars \/ \E t \in Turn : StoreFails(t)
  PROVE  RecordStep
<1>1. /\ merged' = merged /\ imm \subseteq imm' /\ appended' = appended
      /\ events' = events /\ event' = event
  BY DEF GoIdle, PruneIdle, StoreFails, vars, storeVars, eventVars, histVars
<1> QED
  BY <1>1, RecordsQuiet

LEMMA RecordSteps == Basic /\ [Next]_vars => RecordStep
<1> SUFFICES ASSUME Basic, [Next]_vars
             PROVE  RecordStep
  OBVIOUS
<1>1. CASE \E t \in Turn : TurnStep(t)
  BY <1>1, LockRecords, StoreRecords, Calls DEF TurnStep
<1>2. CASE \E e \in End : EndStep(e)
  BY <1>2, LockRecords, WriteRecords, EndRecords, Calls DEF EndStep, MergeStep
<1>3. CASE WorkerStep
  BY <1>3, LockRecords, WriteRecords, EventRecords, CleanupRecords, Calls
     DEF WorkerStep, MergeStep
<1>4. CASE Fault
  BY <1>4, RestRecords, WriteRecords, EndRecords, CleanupRecords DEF Fault
<1>5. CASE GoIdle \/ PruneIdle \/ UNCHANGED vars
  BY <1>5, RestRecords
<1> QED
  BY <1>1, <1>2, <1>3, <1>4, <1>5 DEF Next

LEMMA EventsMergedAlways == Spec => []EventsMerged
<1>1. Init => EventsMerged
  BY NothingWritten DEF EventsMerged
<1>2. Basic /\ EventsMerged /\ [Next]_vars => EventsMerged'
  <2> SUFFICES ASSUME Basic, EventsMerged, [Next]_vars, NEW x \in EventChunks'
               PROVE  \E r \in merged' : r.uri = Uri(x)
    BY DEF EventsMerged
  <2>1. CASE merged' = merged /\ EventChunks' \subseteq EventChunks
    BY <2>1 DEF EventsMerged
  <2>2. ASSUME NEW y \in Chunk, NEW ready \in BOOLEAN, Renewed(y, ready)
        PROVE  \E r \in merged' : r.uri = Uri(x)
    <3>1. Record(y, ready).uri = Uri(y) /\ Record(y, ready) \in merged'
      BY <2>2, UriTyped DEF Renewed, Upsert
    <3>2. CASE x = y
      BY <3>1, <3>2
    <3>3. CASE x \in EventChunks
      <4>1. PICK r \in merged : r.uri = Uri(x)
        BY <3>3 DEF EventsMerged
      <4>2. r \in merged' \/ r.uri = Record(y, ready).uri
        BY <2>2 DEF Renewed, Upsert
      <4> QED BY <3>1, <4>1, <4>2
    <3> QED BY <2>2, <3>2, <3>3 DEF Renewed
  <2> QED BY <2>1, <2>2, RecordSteps DEF RecordStep
<1> QED
  BY <1>1, <1>2, BasicAlways, PTL DEF Spec

\* Chunks in the same range of the session have the same messages.
LEMMA PlacedSame ==
  ASSUME NEW a \in Nat, NEW ms \in Seq(Msg), NEW ns \in Seq(Msg), NEW s, NEW x, NEW y,
         x.start = a, x.messages = ms, y.start = a, y.messages = ns,
         PlacedIn(x, s), PlacedIn(y, s), Len(ms) = Len(ns)
  PROVE  ms = ns
<1>1. DOMAIN ms = DOMAIN ns
  OBVIOUS
<1>2. \A i \in DOMAIN ms : ms[i] = ns[i]
  BY <1>1 DEF PlacedIn
<1> QED
  BY <1>1, <1>2

LEMMA PairsTyped ==
  ASSUME Basic
  PROVE  Written \cup Chosen \subseteq Pairs
<1>1. merged \subseteq RecordSet /\ \A e \in End : chosen[e] \subseteq RecordSet
  BY DEF Basic, Typed
<1>2. \A r \in RecordSet : <<r.uri, r.messages>> \in Pairs
  BY DEF RecordSet, Pairs
<1>3. EventChunks \subseteq Chunk
  <2>1. \A x \in events \cup {event} : x.kind = "merged" => x \in MergedEvents
    BY EventValues DEF Basic, Typed
  <2> QED BY <2>1, EventValues DEF EventChunks
<1>4. \A x \in EventChunks : Pair(x) \in Pairs
  BY <1>3, UriTyped
<1> QED
  BY <1>1, <1>2, <1>4 DEF Written, Chosen

LEMMA SameRange ==
  ASSUME Basic, RangeInv, NumberedInv, NeverDropped,
         NEW v \in Written \cup Chosen, NEW w,
         \/ w \in Written \cup Chosen
         \/ \E c \in Call : hand[c] \in Chunk /\ w = Pair(hand[c]),
         v[1] = w[1]
  PROVE  v[2] = w[2]
<1>1. Numbered(buf, hand, Written \cup Chosen, appended)
  BY DEF NumberedInv
<1>2. v \in Pairs /\ v[1][2] = v[1][1] + Len(v[2]) - 1
      /\ PlacedIn([start |-> v[1][1], messages |-> v[2]], appended)
  BY <1>1, PairsTyped DEF RangeInv, Numbered
<1>3. w \in Pairs /\ w[1][2] = w[1][1] + Len(w[2]) - 1
      /\ PlacedIn([start |-> w[1][1], messages |-> w[2]], appended)
  <2>1. CASE w \in Written \cup Chosen
    BY <2>1, <1>1, PairsTyped DEF RangeInv, Numbered
  <2>2. ASSUME NEW c \in Call, hand[c] \in Chunk, w = Pair(hand[c])
        PROVE  w \in Pairs /\ w[1][2] = w[1][1] + Len(w[2]) - 1
               /\ PlacedIn([start |-> w[1][1], messages |-> w[2]], appended)
    <3>1. w[1][1] = hand[c].start /\ w[2] = hand[c].messages
          /\ w[1][2] = hand[c].start + Len(hand[c].messages) - 1
      BY <2>2 DEF Pair, Uri
    <3>2. PlacedIn(hand[c], appended)
      BY <2>2, <1>1, SessionAssumption DEF Numbered
    <3>3. PlacedIn([start |-> w[1][1], messages |-> w[2]], appended)
      BY <3>1, <3>2 DEF PlacedIn
    <3> QED BY <2>2, <3>1, <3>3, UriTyped
  <2> QED BY <2>1, <2>2
<1>4. v[1][1] \in Nat /\ v[2] \in Seq(Msg) /\ w[2] \in Seq(Msg) /\ v[1][1] = w[1][1]
  BY <1>2, <1>3 DEF Pairs
<1>5. Len(v[2]) = Len(w[2])
  <2>1. Len(v[2]) \in Nat /\ Len(w[2]) \in Nat
    BY <1>4
  <2>2. v[1][1] + Len(v[2]) - 1 = v[1][1] + Len(w[2]) - 1
    BY <1>2, <1>3, <1>4
  <2> QED BY <1>4, <2>1, <2>2
<1> QED
  BY <1>2, <1>3, <1>4, <1>5, PlacedSame

\* So a record that is renewed keeps its messages.
LEMMA MessagesStay ==
  ASSUME Basic, RangeInv, NumberedInv, NeverDropped, RecordStep
  PROVE  MessagesOf(merged) \subseteq MessagesOf(merged')
<1>1. CASE merged' = merged
  BY <1>1
<1>2. ASSUME NEW x \in Chunk, NEW ready \in BOOLEAN, Renewed(x, ready)
      PROVE  MessagesOf(merged) \subseteq MessagesOf(merged')
  <2> DEFINE n == Record(x, ready)
  <2>1. n.uri = Uri(x) /\ n.messages = x.messages /\ merged' = Upsert(merged, n)
    BY <1>2, UriTyped DEF Renewed
  <2> HIDE DEF n
  <2>2. n \in merged' /\ \A r \in merged : r.uri # n.uri => r \in merged'
    BY <2>1 DEF Upsert
  <2>3. ASSUME NEW r \in merged, r.uri = n.uri
        PROVE  r.messages = n.messages
    <3> DEFINE v == <<r.uri, r.messages>>
               w == Pair(x)
    <3>1. v \in Written /\ v[1] = w[1] /\ v[2] = r.messages /\ w[2] = n.messages
      BY <2>1, <2>3 DEF Written, Pair
    <3>2. \/ w \in Written \cup Chosen
          \/ \E c \in Call : hand[c] \in Chunk /\ w = Pair(hand[c])
      BY <1>2 DEF Renewed
    <3> HIDE DEF v, w
    <3> QED BY <3>1, <3>2, SameRange
  <2> QED BY <2>2, <2>3 DEF MessagesOf
<1> QED
  BY <1>1, <1>2 DEF RecordStep

\* ImmediateUntilMerged: until the buffer is dropped, an immediate record is removed
\* only when a merged record has its message: cleanup removes those of the chunk in
\* its event, and the event came with the record of the chunk.
THEOREM ImmediateUntilMergedAlways == Spec => []ImmediateUntilMerged
<1>1. Init => ImmediateUntilMerged
  BY NothingWritten DEF ImmediateUntilMerged, ToSet
<1>2. Basic /\ RangeInv /\ NumberedInv /\ EventsMerged /\ ImmediateUntilMerged /\ [Next]_vars
        => ImmediateUntilMerged'
  <2> SUFFICES ASSUME Basic, RangeInv, NumberedInv, EventsMerged, ImmediateUntilMerged, [Next]_vars,
                      NeverDropped'
               PROVE  ToSet(appended') \subseteq imm' \cup MessagesOf(merged')
    BY DEF ImmediateUntilMerged
  <2>1. NeverDropped
    BY DropStays
  <2>2. ToSet(appended) \subseteq imm \cup MessagesOf(merged)
    BY <2>1 DEF ImmediateUntilMerged
  <2>3. MessagesOf(EventChunks) \subseteq MessagesOf(merged)
    <3> SUFFICES ASSUME NEW x \in EventChunks
                 PROVE  \E r \in merged : ToSet(x.messages) = ToSet(r.messages)
      BY DEF MessagesOf
    <3>1. PICK r \in merged : r.uri = Uri(x)
      BY DEF EventsMerged
    <3> DEFINE v == <<r.uri, r.messages>>
               w == Pair(x)
    <3>2. v \in Written /\ w \in Written /\ v[1] = w[1] /\ v[2] = r.messages /\ w[2] = x.messages
      BY <3>1 DEF Written, Pair
    <3> HIDE DEF v, w
    <3> QED BY <2>1, <3>2, SameRange
  <2>4. MessagesOf(merged) \subseteq MessagesOf(merged')
    BY <2>1, RecordSteps, MessagesStay
  <2>5. imm \subseteq imm' \cup MessagesOf(EventChunks) /\ ToSet(appended') \subseteq ToSet(appended) \cup imm'
    BY RecordSteps DEF RecordStep
  <2> QED BY <2>2, <2>3, <2>4, <2>5
<1> QED
  BY <1>1, <1>2, BasicAlways, RangeAlways, NumberedAlways, EventsMergedAlways, PTL DEF Spec

-------------------------------------------------------------------------------
(* The lock: until it is dropped there is one, and one call has it.               *)

\* Call c has the lock, nobody else having it.
Alone(c, l) == /\ \A d \in Call : ~(pc[d] \in Inside /\ mine[d] = l)
               /\ \A d \in Call : d # c => pc'[d] = pc[d]

Asked(c) == /\ lock' # 0 /\ (lock # 0 /\ activity # "stale" => lock' = lock)
            /\ mine' = [mine EXCEPT ![c] = lock']
            /\ \A d \in Call : d # c => pc'[d] = pc[d]
            /\ pc'[c] \in Inside => Alone(c, lock')

Got(c) == /\ pc[c] = "queued" /\ lock' = lock /\ mine' = mine
          /\ Alone(c, mine[c])

Kept == /\ lock' = lock /\ mine' = mine
        /\ \A c \in Call : /\ pc'[c] \in Inside => pc[c] \in Inside
                           /\ pc'[c] = "queued" => pc[c] = "queued"

LockStep == \/ Kept
            \/ \E c \in Call : Asked(c) \/ Got(c)
            \/ IdleInv => ~NeverDropped'

LEMMA AskLocks ==
  ASSUME Basic, NEW c \in Call, AskLock(c) \/ GetLock(c)
  PROVE  LockStep
<1>1. CASE AskLock(c)
  <2>1. PICK b \in {buf, EmptyBuffer}, l \in Nat : Asks(c, b, l)
    BY <1>1, AskForms DEF Basic
  <2>2. /\ l # 0 /\ lock' = l /\ mine' = [mine EXCEPT ![c] = l]
        /\ (lock # 0 /\ activity # "stale") => l = lock
    BY <2>1 DEF Asks
  <2>3. \/ pc' = [pc EXCEPT ![c] = "queued"]
        \/ /\ \A d \in Call : ~(pc[d] \in Inside /\ mine[d] = l)
           /\ Enters(c, b, activity) \/ Enters(c, b, "none")
    BY <2>1 DEF Asks
  <2>4. \A d \in Call : d # c => pc'[d] = pc[d]
    BY <2>3, MoveOthers, EnterOthers
  <2>5. pc'[c] \in Inside => \A d \in Call : ~(pc[d] \in Inside /\ mine[d] = l)
    <3>1. CASE pc' = [pc EXCEPT ![c] = "queued"]
      <4>1. pc'[c] = "queued"
        BY <3>1, MoveOthers
      <4> QED BY <4>1 DEF Inside
    <3> QED BY <3>1, <2>3
  <2>6. Asked(c)
    BY <2>2, <2>4, <2>5 DEF Asked, Alone
  <2> QED BY <2>6 DEF LockStep
<1>2. CASE GetLock(c)
  <2>1. /\ pc[c] = "queued" /\ lock' = lock /\ mine' = mine
        /\ \A d \in Call : ~(pc[d] \in Inside /\ mine[d] = mine[c])
        /\ Enter(c, buf, activity)
    BY <1>2 DEF GetLock, Held
  <2>2. Enters(c, buf, activity)
    BY <2>1, EnterForms DEF Basic, Typed
  <2>3. Got(c)
    BY <2>1, <2>2, EnterOthers DEF Got, Alone
  <2> QED BY <2>3 DEF LockStep
<1> QED
  BY <1>1, <1>2

\* A call that goes on inside, or leaves, keeps the lock as it is.
LEMMA MoveKeeps ==
  ASSUME Basic, NEW c \in Call, NEW l, pc' = [pc EXCEPT ![c] = l], l # "queued",
         l \in Inside => pc[c] \in Inside, lock' = lock, mine' = mine
  PROVE  LockStep
<1>1. pc'[c] = l /\ \A d \in Call : d # c => pc'[d] = pc[d]
  BY MoveOthers
<1>2. Kept
  BY <1>1 DEF Kept
<1> QED
  BY <1>2 DEF LockStep

LEMMA WorkLocks ==
  ASSUME Basic, NEW c \in End \cup {Worker}, WriteMerged(c) \/ WriteFails(c)
  PROVE  LockStep
<1>1. c \in Call /\ pc[c] \in Inside /\ lock' = lock /\ mine' = mine
  BY Calls DEF WriteMerged, WriteFails, Inside, dictVars
<1>2. \E l \in {"writing", "ready", "loading", "failed"} : pc' = [pc EXCEPT ![c] = l]
  <2>1. CASE WriteMerged(c)
    BY <2>1, MergeNextForms DEF WriteMerged, Takes, Leaves
  <2>2. CASE WriteFails(c)
    BY <2>2 DEF WriteFails, GiveUpEvent, Goto
  <2> QED BY <2>1, <2>2
<1> QED
  BY <1>1, <1>2, MoveKeeps

LEMMA TurnLocks ==
  ASSUME Basic, NEW t \in Turn, StoreMessage(t) \/ StoreFails(t)
  PROVE  LockStep
<1>1. t \in Call /\ lock' = lock /\ mine' = mine
  BY Calls DEF StoreMessage, StoreFails, dictVars
<1>2. CASE pc' = pc
  BY <1>1, <1>2 DEF LockStep, Kept
<1>3. CASE \E l \in {"done", "failed"} : pc' = [pc EXCEPT ![t] = l]
  <2>1. "done" \notin Inside /\ "failed" \notin Inside
    BY DEF Inside
  <2> QED BY <1>1, <1>3, <2>1, MoveKeeps
<1> QED
  BY <1>2, <1>3 DEF StoreMessage, StoreFails, Goto

\* An end that is over has dropped the lock.
LEMMA EndLocks ==
  ASSUME Basic, NEW e \in End, LoadMergedRecords(e) \/ WriteFinal(e) \/ EndFails(e)
  PROVE  LockStep
<1>1. e \in Call /\ pc \in [Call -> PC] /\ mine' = mine /\ pc[e] \in Inside
  BY Calls DEF LoadMergedRecords, WriteFinal, EndFails, Inside, Basic, Typed
<1>2. CASE \E l \in {"done", "empty"} : pc' = [pc EXCEPT ![e] = l]
  <2>1. ~NeverDropped'
    BY <1>1, <1>2 DEF NeverDropped
  <2> QED BY <2>1 DEF LockStep
<1>3. CASE lock' = lock /\ \E l \in {"ending", "failed"} : pc' = [pc EXCEPT ![e] = l]
  BY <1>1, <1>3, MoveKeeps
<1> QED
  BY <1>2, <1>3 DEF LoadMergedRecords, WriteFinal, EndFails, Goto, dictVars

LEMMA EventLocks ==
  ASSUME Basic, TakeEvent \/ Derive \/ Cleanup \/ CleanupFails
  PROVE  LockStep
<1>1. Worker \in Call /\ lock' = lock /\ mine' = mine
  BY Calls DEF TakeEvent, Derive, Cleanup, CleanupFails, dictVars
<1>2. \E l \in {"asking", "derive", "cleanup", "retry", "ready"} : pc' = [pc EXCEPT ![Worker] = l]
  BY DEF TakeEvent, Derive, Cleanup, CleanupFails, GiveUpEvent, Goto
<1>3. {"asking", "derive", "cleanup", "retry", "ready"} \cap Inside = {}
  BY DEF Inside
<1> QED
  BY <1>1, <1>2, <1>3, MoveKeeps

LEMMA IdleLocks ==
  ASSUME Basic, GoIdle \/ PruneIdle \/ UNCHANGED vars
  PROVE  LockStep
<1>1. CASE PruneIdle
  <2>1. IdleInv => ~NeverDropped'
    BY <1>1 DEF PruneIdle, IdleInv, NeverDropped, histVars
  <2> QED BY <2>1 DEF LockStep
<1>2. CASE GoIdle \/ UNCHANGED vars
  BY <1>2 DEF GoIdle, vars, dictVars, LockStep, Kept
<1> QED
  BY <1>1, <1>2

LEMMA LockSteps == Basic /\ [Next]_vars => LockStep
<1> SUFFICES ASSUME Basic, [Next]_vars
             PROVE  LockStep
  OBVIOUS
<1>1. CASE \E t \in Turn : TurnStep(t)
  BY <1>1, AskLocks, TurnLocks, Calls DEF TurnStep
<1>2. CASE \E e \in End : EndStep(e)
  BY <1>2, AskLocks, WorkLocks, EndLocks, Calls DEF EndStep, MergeStep
<1>3. CASE WorkerStep
  BY <1>3, AskLocks, WorkLocks, EventLocks, Calls DEF WorkerStep, MergeStep
<1>4. CASE Fault
  BY <1>4, TurnLocks, WorkLocks, EndLocks, EventLocks DEF Fault
<1>5. CASE GoIdle \/ PruneIdle \/ UNCHANGED vars
  BY <1>5, IdleLocks
<1> QED
  BY <1>1, <1>2, <1>3, <1>4, <1>5 DEF Next

SerialInv == LockInv /\ (NeverDropped => SerialSession)

LEMMA SerialAlways == Spec => []SerialInv
<1>1. Init => SerialInv
  BY DEF Init, SerialInv, LockInv, SerialSession, Inside
<1>2. Basic /\ IdleInv /\ SerialInv /\ [Next]_vars => SerialInv'
  <2> SUFFICES ASSUME Basic, IdleInv, SerialInv, [Next]_vars, NeverDropped'
               PROVE  /\ \A c \in Call : pc'[c] \in Inside \cup {"queued"} => lock' # 0 /\ mine'[c] = lock'
                      /\ SerialSession'
    BY DEF SerialInv, LockInv
  <2>1. NeverDropped
    BY DropStays
  <2>2. /\ \A c \in Call : pc[c] \in Inside \cup {"queued"} => lock # 0 /\ mine[c] = lock
        /\ SerialSession
    BY <2>1 DEF SerialInv, LockInv
  <2>3. activity # "stale"
    <3>1. idles = 0
      BY <2>1 DEF NeverDropped
    <3> QED BY <3>1 DEF IdleInv
  <2>4. CASE Kept
    BY <2>2, <2>4 DEF Kept, SerialSession
  <2>5. ASSUME NEW c \in Call, Asked(c)
        PROVE  /\ \A d \in Call : pc'[d] \in Inside \cup {"queued"} => lock' # 0 /\ mine'[d] = lock'
               /\ SerialSession'
    <3>1. /\ lock' # 0 /\ (lock # 0 => lock' = lock)
          /\ \A d \in Call : d # c => pc'[d] = pc[d]
          /\ mine'[c] = lock' /\ \A d \in Call : d # c => mine'[d] = mine[d]
      BY <2>3, <2>5 DEF Asked, Basic, Typed
    <3>2. \A d \in Call : pc'[d] \in Inside \cup {"queued"} => mine'[d] = lock'
      BY <2>2, <3>1
    <3>3. CASE pc'[c] \in Inside
      <4>1. \A d \in Call : pc[d] \notin Inside
        BY <2>2, <2>5, <3>1, <3>3 DEF Asked, Alone
      <4> QED BY <3>1, <3>2, <4>1 DEF SerialSession
    <3>4. CASE pc'[c] \notin Inside
      BY <2>2, <3>1, <3>2, <3>4 DEF SerialSession
    <3> QED BY <3>3, <3>4
  <2>6. ASSUME NEW c \in Call, Got(c)
        PROVE  /\ \A d \in Call : pc'[d] \in Inside \cup {"queued"} => lock' # 0 /\ mine'[d] = lock'
               /\ SerialSession'
    <3>1. mine[c] = lock /\ lock # 0 /\ lock' = lock /\ mine' = mine
      BY <2>2, <2>6 DEF Got
    <3>2. \A d \in Call : pc[d] \notin Inside
      BY <2>2, <2>6, <3>1 DEF Got, Alone
    <3>3. \A d \in Call : d # c => pc'[d] = pc[d]
      BY <2>6 DEF Got, Alone
    <3> QED BY <2>2, <3>1, <3>2, <3>3 DEF SerialSession
  <2> QED BY <2>4, <2>5, <2>6, LockSteps DEF LockStep
<1> QED
  BY <1>1, <1>2, BasicAlways, IdleAlways, PTL DEF Spec

\* SerialSession until the buffer is dropped: the lock serialises turns, merges and
\* ends as long as its entry of the dictionary is not removed.
THEOREM SerialUntilDropped == Spec => [](NeverDropped => SerialSession)
<1>1. SerialInv => (NeverDropped => SerialSession)
  BY DEF SerialInv
<1> QED
  BY <1>1, SerialAlways, PTL

-------------------------------------------------------------------------------
(* The turn inside has the index of the next message.                             *)

IndexInv ==
  NeverDropped =>
     /\ Len(indices) = Len(appended)
     /\ \A k \in DOMAIN indices : indices[k] = k - 1
     /\ \A t \in Turn : pc[t] = "storing" => index[t] = NextMsgIndex(buf)

LEMMA IndexInvStep ==
  ASSUME Basic, Basic', IndexTyped, IdleInv, NumberedInv, NumberedInv', SerialInv, SerialInv', IndexInv,
         [Next]_vars
  PROVE  IndexInv'
<1> SUFFICES ASSUME NeverDropped'
             PROVE  /\ Len(indices') = Len(appended')
                    /\ \A k \in DOMAIN indices' : indices'[k] = k - 1
                    /\ \A t \in Turn : pc'[t] = "storing" => index'[t] = NextMsgIndex(buf')
  BY DEF IndexInv
<1>1. NeverDropped /\ activity # "stale"
  BY DropStays DEF NeverDropped, IdleInv
<1>2. /\ Len(indices) = Len(appended)
      /\ \A k \in DOMAIN indices : indices[k] = k - 1
      /\ \A t \in Turn : pc[t] = "storing" => index[t] = NextMsgIndex(buf)
  BY <1>1 DEF IndexInv
<1>3. NextMsgIndex(buf) = Len(appended) /\ NextMsgIndex(buf') = Len(appended')
  <2>1. NextMsgIndex(buf) = Len(appended)
    BY <1>1 DEF NumberedInv, Numbered
  <2>2. NextMsgIndex(buf') = Len(appended')
    BY DEF NumberedInv, Numbered, NextMsgIndex
  <2> QED BY <2>1, <2>2
<1>4. \A t, u \in Turn : pc'[t] = "storing" /\ pc'[u] = "storing" => t = u
  BY Calls DEF SerialInv, SerialSession, Inside
<1>5. \A t, u \in Turn : pc[t] = "storing" /\ pc[u] = "storing" => t = u
  BY <1>1, Calls DEF SerialInv, SerialSession, Inside
<1>6. index \in [Turn -> Nat] /\ indices \in Seq(Nat) /\ appended \in Seq(Msg)
  BY DEF IndexTyped, Basic, Typed
<1>7. CASE KeepsIndex
  BY <1>2, <1>3, <1>7 DEF KeepsIndex
<1>8. ASSUME NEW t \in Turn, TakesIndex(t, buf)
      PROVE  /\ Len(indices') = Len(appended')
             /\ \A k \in DOMAIN indices' : indices'[k] = k - 1
             /\ \A u \in Turn : pc'[u] = "storing" => index'[u] = NextMsgIndex(buf')
  <2>1. indices' = indices /\ appended' = appended
    BY <1>8 DEF TakesIndex
  <2>2. ASSUME NEW u \in Turn, pc'[u] = "storing"
        PROVE  index'[u] = NextMsgIndex(buf)
    <3>1. CASE u = t
      BY <1>6, <1>8, <3>1 DEF TakesIndex
    <3>2. CASE u # t
      <4>1. pc[u] = "storing" /\ index'[u] = index[u]
        BY <1>6, <1>8, <2>2, <3>2 DEF TakesIndex
      <4> QED BY <1>2, <4>1
    <3> QED BY <3>1, <3>2
  <2> QED BY <1>2, <1>3, <2>1, <2>2
<1>9. ASSUME NEW t \in Turn, UsesIndex(t)
      PROVE  /\ Len(indices') = Len(appended')
             /\ \A k \in DOMAIN indices' : indices'[k] = k - 1
             /\ \A u \in Turn : pc'[u] = "storing" => index'[u] = NextMsgIndex(buf')
  <2>1. PICK m \in Msg : appended' = Append(appended, m)
    BY <1>9 DEF UsesIndex
  <2>2. indices' = Append(indices, index[t]) /\ index[t] = Len(indices) /\ index[t] \in Nat
    BY <1>2, <1>3, <1>6, <1>9 DEF UsesIndex
  <2>3. Len(indices') = Len(appended')
    BY <1>2, <1>6, <2>1, <2>2
  <2>4. \A k \in DOMAIN indices' : indices'[k] = k - 1
    BY <1>2, <1>6, <2>2
  <2>5. ASSUME NEW u \in Turn, pc'[u] = "storing"
        PROVE  index'[u] = NextMsgIndex(buf')
    <3>1. u = t
      <4>1. u # t => pc[u] = "storing" /\ pc[t] = "storing"
        BY <1>9, <2>5 DEF UsesIndex
      <4> QED BY <1>5, <4>1
    <3>2. index' = [index EXCEPT ![t] = NextMsgIndex(buf')]
      BY <1>9, <2>5, <3>1 DEF UsesIndex
    <3> QED BY <1>6, <3>1, <3>2
  <2> QED BY <2>3, <2>4, <2>5
<1> QED
  BY <1>1, <1>7, <1>8, <1>9, IndexSteps DEF IndexStep

\* IndexesExact: until the buffer is dropped, an immediate record is written with the
\* index its message gets in the session: whoever is between next_msg_index and append
\* has the lock, and the lock is the only one.
THEOREM IndexesExactAlways == Spec => []IndexesExact
<1>1. Init => IndexInv
  BY Calls DEF Init, IndexInv
<1>2. Basic /\ Basic' /\ IndexTyped /\ IdleInv /\ NumberedInv /\ NumberedInv' /\ SerialInv /\ SerialInv'
        /\ IndexInv /\ [Next]_vars => IndexInv'
  BY IndexInvStep
<1>3. IndexInv => IndexesExact
  BY DEF IndexInv, IndexesExact
<1> QED
  BY <1>1, <1>2, <1>3, BasicAlways, IndexAlways, IdleAlways, NumberedAlways, SerialAlways, PTL DEF Spec

-------------------------------------------------------------------------------
(* An end has the buffer to itself: it freezes everything and takes every chunk.  *)

\* Only call c is inside; an end that goes on with the merge loop found everything
\* frozen, and one that leaves the loop found no chunk.
Solo(c) ==
  /\ \A d \in Call : d # c => pc'[d] = pc[d] /\ pc[d] \notin Inside
  /\ c \in End /\ pc'[c] \in {"writing", "loading"}
       => /\ \/ buf'.active = <<>>
             \/ pc[c] = "writing" /\ buf'.active = buf.active
          /\ pc'[c] = "loading" => buf'.pending = <<>>

Still == /\ buf' = buf
         /\ \A e \in End : pc'[e] \in {"writing", "loading"} => pc'[e] = pc[e]

LEMMA MoveStill ==
  ASSUME Basic, NEW c \in Call, NEW l, pc' = [pc EXCEPT ![c] = l],
         c \in End => l \notin {"writing", "loading"}, buf' = buf
  PROVE  Still
<1>1. pc'[c] = l /\ \A d \in Call : d # c => pc'[d] = pc[d]
  BY MoveOthers
<1> QED
  BY <1>1, Calls DEF Still

LEMMA EnterSolo ==
  ASSUME Basic, NEW c \in Call, NEW b \in Buffer, NEW a, Enters(c, b, a),
         \A d \in Call : pc[d] \notin Inside
  PROVE  Solo(c)
<1>1. \A d \in Call : d # c => pc'[d] = pc[d] /\ pc[d] \notin Inside
  BY EnterOthers
<1>2. ASSUME c \in End
      PROVE  buf'.active = <<>> /\ (pc'[c] = "loading" => buf'.pending = <<>>)
  <2>1. PICK f \in Buffer : f.active = <<>> /\ (Takes(c, f) \/ Leaves(c, f))
    BY <1>2, Calls DEF Enters
  <2>2. CASE Takes(c, f)
    <3>1. pc'[c] = "writing"
      BY <2>2, MoveOthers DEF Takes
    <3>2. buf'.active = f.active
      BY <2>2, PopKeeps DEF Takes
    <3> QED BY <2>1, <3>1, <3>2
  <2>3. CASE Leaves(c, f)
    BY <2>1, <2>3 DEF Leaves
  <2> QED BY <2>1, <2>2, <2>3
<1> QED
  BY <1>1, <1>2 DEF Solo

LEMMA LockSolo ==
  ASSUME Basic, IdleInv, LockInv, NeverDropped, NEW c \in Call, AskLock(c) \/ GetLock(c)
  PROVE  Still \/ Solo(c)
<1>1. activity # "stale"
  BY DEF NeverDropped, IdleInv
<1>2. \A d \in Call : pc[d] \in Inside \cup {"queued"} => lock # 0 /\ mine[d] = lock
  BY DEF LockInv
<1>3. buf \in Buffer
  BY DEF Basic, Typed
<1>4. CASE AskLock(c)
  <2>1. PICK b \in {buf, EmptyBuffer}, l \in Nat : Asks(c, b, l)
    BY <1>4, AskForms DEF Basic
  <2>2. b = buf /\ (lock # 0 => l = lock)
    BY <1>1, <2>1 DEF Asks
  <2>3. CASE pc' = [pc EXCEPT ![c] = "queued"] /\ buf' = b
    BY <2>2, <2>3, MoveStill
  <2>4. CASE /\ \A d \in Call : ~(pc[d] \in Inside /\ mine[d] = l)
             /\ Enters(c, b, activity) \/ Enters(c, b, "none")
    <3>1. \A d \in Call : pc[d] \notin Inside
      BY <1>2, <2>2, <2>4
    <3> QED BY <1>3, <2>2, <2>4, <3>1, EnterSolo
  <2> QED BY <2>1, <2>3, <2>4 DEF Asks
<1>5. CASE GetLock(c)
  <2>1. /\ pc[c] = "queued"
        /\ \A d \in Call : ~(pc[d] \in Inside /\ mine[d] = mine[c])
        /\ Enter(c, buf, activity)
    BY <1>5 DEF GetLock, Held
  <2>2. \A d \in Call : pc[d] \notin Inside
    BY <1>2, <2>1
  <2> QED BY <1>3, <2>1, <2>2, EnterForms, EnterSolo
<1> QED
  BY <1>4, <1>5

LEMMA WorkSolo ==
  ASSUME Basic, SerialSession, NEW c \in End \cup {Worker}, WriteMerged(c) \/ WriteFails(c)
  PROVE  Still \/ Solo(c)
<1>1. c \in Call /\ pc[c] = "writing" /\ pc[c] \in Inside /\ buf \in Buffer
  BY Calls DEF WriteMerged, WriteFails, Inside, Basic, Typed
<1>2. CASE WriteFails(c)
  <2>1. buf' = buf /\ \E l \in {"ready", "failed"} : pc' = [pc EXCEPT ![c] = l]
    BY <1>2 DEF WriteFails, GiveUpEvent, Goto, dictVars
  <2> QED BY <1>1, <2>1, MoveStill
<1>3. CASE WriteMerged(c)
  <2>1. Takes(c, buf) \/ Leaves(c, buf)
    BY <1>3, MergeNextForms DEF WriteMerged
  <2>2. \E l : pc' = [pc EXCEPT ![c] = l]
    BY <2>1 DEF Takes, Leaves
  <2>3. \A d \in Call : d # c => pc'[d] = pc[d] /\ pc[d] \notin Inside
    BY <1>1, <2>2, MoveOthers DEF SerialSession
  <2>4. buf'.active = buf.active
    BY <1>1, <2>1, PopKeeps DEF Takes, Leaves
  <2>5. pc'[c] = "loading" => buf'.pending = <<>>
    <3>1. CASE Takes(c, buf)
      <4>1. pc'[c] = "writing"
        BY <1>1, <3>1, MoveOthers DEF Takes
      <4> QED BY <4>1
    <3>2. CASE Leaves(c, buf)
      BY <3>2 DEF Leaves
    <3> QED BY <2>1, <3>1, <3>2
  <2> QED BY <1>1, <2>3, <2>4, <2>5 DEF Solo
<1> QED
  BY <1>2, <1>3

LEMMA TurnSolo ==
  ASSUME Basic, SerialSession, NEW t \in Turn, StoreMessage(t) \/ StoreFails(t)
  PROVE  Still \/ Solo(t)
<1>1. t \in Call /\ t \notin End /\ pc[t] \in Inside
  BY Calls DEF StoreMessage, StoreFails, Inside
<1>2. CASE StoreFails(t)
  <2>1. buf' = buf /\ pc' = [pc EXCEPT ![t] = "failed"]
    BY <1>2 DEF StoreFails, Goto, dictVars
  <2> QED BY <1>1, <2>1, MoveStill
<1>3. CASE StoreMessage(t)
  <2>1. pc' = pc \/ pc' = [pc EXCEPT ![t] = "done"]
    BY <1>3 DEF StoreMessage, Goto
  <2>2. \A d \in Call : d # t => pc'[d] = pc[d]
    BY <1>1, <2>1, MoveOthers
  <2> QED BY <1>1, <2>2 DEF Solo, SerialSession
<1> QED
  BY <1>2, <1>3

LEMMA EndSolo ==
  ASSUME Basic, NeverDropped', NEW e \in End, LoadMergedRecords(e) \/ WriteFinal(e) \/ EndFails(e)
  PROVE  Still
<1>1. e \in Call /\ pc \in [Call -> PC]
  BY Calls DEF Basic, Typed
<1>2. CASE \E l \in {"done", "empty"} : pc' = [pc EXCEPT ![e] = l]
  BY <1>1, <1>2 DEF NeverDropped
<1>3. CASE buf' = buf /\ \E l \in {"ending", "failed"} : pc' = [pc EXCEPT ![e] = l]
  BY <1>1, <1>3, MoveStill
<1> QED
  BY <1>2, <1>3 DEF LoadMergedRecords, WriteFinal, EndFails, Goto, dictVars

LEMMA RestStill ==
  ASSUME Basic, IdleInv, NeverDropped,
         TakeEvent \/ Derive \/ Cleanup \/ CleanupFails \/ GoIdle \/ PruneIdle \/ UNCHANGED vars
  PROVE  Still
<1>1. CASE TakeEvent \/ Derive \/ Cleanup \/ CleanupFails
  <2>1. Worker \in Call /\ Worker \notin End /\ buf' = buf
    BY <1>1, Calls DEF TakeEvent, Derive, Cleanup, CleanupFails, dictVars
  <2>2. \E l : pc' = [pc EXCEPT ![Worker] = l]
    BY <1>1 DEF TakeEvent, Derive, Cleanup, CleanupFails, GiveUpEvent, Goto
  <2> QED BY <2>1, <2>2, MoveStill
<1>2. CASE PruneIdle
  BY <1>2 DEF PruneIdle, IdleInv, NeverDropped
<1>3. CASE GoIdle \/ UNCHANGED vars
  BY <1>3 DEF GoIdle, vars, dictVars, Still
<1> QED
  BY <1>1, <1>2, <1>3

LEMMA SoloSteps ==
  Basic /\ IdleInv /\ SerialInv /\ [Next]_vars /\ NeverDropped' => Still \/ \E c \in Call : Solo(c)
<1> SUFFICES ASSUME Basic, IdleInv, SerialInv, [Next]_vars, NeverDropped'
             PROVE  Still \/ \E c \in Call : Solo(c)
  OBVIOUS
<1>0. NeverDropped /\ LockInv /\ SerialSession
  BY DropStays DEF SerialInv
<1>1. CASE \E t \in Turn : TurnStep(t)
  BY <1>0, <1>1, LockSolo, TurnSolo, Calls DEF TurnStep
<1>2. CASE \E e \in End : EndStep(e)
  BY <1>0, <1>2, LockSolo, WorkSolo, EndSolo, Calls DEF EndStep, MergeStep
<1>3. CASE WorkerStep
  BY <1>0, <1>3, LockSolo, WorkSolo, RestStill, Calls DEF WorkerStep, MergeStep
<1>4. CASE Fault
  BY <1>0, <1>4, TurnSolo, WorkSolo, EndSolo, RestStill, Calls DEF Fault
<1>5. CASE GoIdle \/ PruneIdle \/ UNCHANGED vars
  BY <1>0, <1>5, RestStill
<1> QED
  BY <1>1, <1>2, <1>3, <1>4, <1>5 DEF Next

LEMMA EndAlways == Spec => []EndInv
<1>1. Init => EndInv
  BY Calls DEF Init, EndInv
<1>2. Basic /\ IdleInv /\ SerialInv /\ EndInv /\ [Next]_vars => EndInv'
  <2> SUFFICES ASSUME Basic, IdleInv, SerialInv, EndInv, [Next]_vars, NeverDropped', NEW e \in End
               PROVE  /\ pc'[e] \in {"writing", "loading"} => buf'.active = <<>>
                      /\ pc'[e] = "loading" => buf'.pending = <<>>
    BY DEF EndInv
  <2>1. /\ pc[e] \in {"writing", "loading"} => buf.active = <<>>
        /\ pc[e] = "loading" => buf.pending = <<>>
    BY DropStays DEF EndInv
  <2>2. CASE Still
    BY <2>1, <2>2 DEF Still
  <2>3. ASSUME NEW c \in Call, Solo(c)
        PROVE  /\ pc'[e] \in {"writing", "loading"} => buf'.active = <<>>
               /\ pc'[e] = "loading" => buf'.pending = <<>>
    <3>1. CASE e = c
      BY <2>1, <2>3, <3>1 DEF Solo
    <3>2. CASE e # c
      <4>1. pc'[e] \notin Inside
        BY <2>3, <3>2, Calls DEF Solo
      <4> QED BY <4>1 DEF Inside
    <3> QED BY <3>1, <3>2
  <2> QED BY <2>2, <2>3, SoloSteps
<1> QED
  BY <1>1, <1>2, BasicAlways, IdleAlways, SerialAlways, PTL DEF Spec

-------------------------------------------------------------------------------
(* What was stored is on its way to a merged record.                              *)

Handed(h) == UNION {ToSet(h[c].messages) : c \in {d \in Call : h[d] # NoChunk}}

LEMMA HandedIs ==
  /\ MessagesOf(InHand) = Handed(hand)
  /\ \A h, m : m \in Handed(h) <=> \E c \in Call : h[c] # NoChunk /\ m \in ToSet(h[c].messages)
<1>1. \A h, m : m \in Handed(h) <=> \E c \in Call : h[c] # NoChunk /\ m \in ToSet(h[c].messages)
  BY DEF Handed
<1>2. \A m : m \in MessagesOf(InHand) <=> m \in Handed(hand)
  BY <1>1 DEF MessagesOf, InHand
<1> QED
  BY <1>1, <1>2

LEMMA HandedWrote ==
  ASSUME NEW h \in Hands, NEW c \in Call, h[c] \in Chunk
  PROVE  Handed(h) \subseteq Handed([h EXCEPT ![c] = NoChunk]) \cup ToSet(h[c].messages)
<1> DEFINE g == [h EXCEPT ![c] = NoChunk]
<1>1. \A d \in Call : d # c => g[d] = h[d]
  BY DEF Hands
<1> HIDE DEF g
<1>2. Handed(h) \subseteq Handed(g) \cup ToSet(h[c].messages)
  BY <1>1, HandedIs
<1> QED
  BY <1>2 DEF g

LEMMA HandedTaken ==
  ASSUME NEW h \in Hands, NEW c \in Call, h[c] = NoChunk, NEW x \in Chunk
  PROVE  Handed(h) \cup ToSet(x.messages) \subseteq Handed([h EXCEPT ![c] = x])
<1> DEFINE g == [h EXCEPT ![c] = x]
<1>1. g[c] = x /\ x # NoChunk /\ \A d \in Call : d # c => g[d] = h[d]
  BY SessionAssumption DEF Hands
<1> HIDE DEF g
<1>2. Handed(h) \cup ToSet(x.messages) \subseteq Handed(g)
  BY <1>1, HandedIs
<1> QED
  BY <1>2 DEF g

LEMMA KeptPrepared ==
  ASSUME Basic, IdleInv, NeverDropped', failures' = failures,
         ToSet(appended) \subseteq Waiting(buf) \cup Handed(hand) \cup MessagesOf(merged),
         MessagesOf(merged) \subseteq MessagesOf(merged'),
         NEW b \in Buffer, NEW h \in Hands, Prepared(b, h)
  PROVE  ToSet(appended') \subseteq Waiting(b) \cup Handed(h) \cup MessagesOf(merged')
<1>1. buf \in Buffer /\ hand \in Hands /\ appended \in Seq(Msg)
  BY DEF Basic, Typed
<1>2. CASE Same(b, h)
  BY <1>2 DEF Same
<1>3. CASE Dropped(b, h)
  BY <1>3 DEF Dropped
<1>4. ASSUME NEW t \in Turn, Stored(b, h, t)
      PROVE  ToSet(appended') \subseteq Waiting(b) \cup Handed(h) \cup MessagesOf(merged')
  <2> DEFINE m == Head(todo[t])
  <2>1. m \in Msg /\ b = AppendMessage(buf, m) /\ h = hand /\ appended' = Append(appended, m)
    BY <1>4 DEF Stored
  <2> HIDE DEF m
  <2>2. Waiting(b) = Waiting(buf) \cup {m}
    BY <1>1, <2>1, AppendKeeps
  <2>3. ToSet(appended') = ToSet(appended) \cup {m}
    BY <1>1, <2>1, AppendSet
  <2> QED BY <2>1, <2>2, <2>3
<1>5. ASSUME NEW c \in Call, Wrote(b, h, c)
      PROVE  ToSet(appended') \subseteq Waiting(b) \cup Handed(h) \cup MessagesOf(merged')
  <2>1. Handed(hand) \subseteq Handed(h) \cup ToSet(hand[c].messages)
    BY <1>1, <1>5, HandedWrote DEF Wrote
  <2> QED BY <1>5, <2>1 DEF Wrote
<1> QED
  BY <1>2, <1>3, <1>4, <1>5 DEF Prepared

LEMMA KeptSame ==
  Basic /\ IdleInv /\ RangeInv /\ NumberedInv /\ KeptInv /\ [Next]_vars => KeptInv'
<1> SUFFICES ASSUME Basic, IdleInv, RangeInv, NumberedInv, KeptInv, [Next]_vars,
                    failures' = 0, NeverDropped'
             PROVE  ToSet(appended') \subseteq Waiting(buf') \cup MessagesOf(InHand') \cup MessagesOf(merged')
  BY DEF KeptInv
<1>1. NeverDropped /\ failures = 0
  <2>1. failures \in Nat /\ Flow
    BY FlowSteps, SessionAssumption DEF Basic, Typed
  <2>2. \A n \in Nat : n + 1 # 0
    OBVIOUS
  <2> QED BY <2>1, <2>2, DropStays DEF Flow
<1>2. ToSet(appended) \subseteq Waiting(buf) \cup Handed(hand) \cup MessagesOf(merged)
  BY <1>1, HandedIs DEF KeptInv
<1>3. MessagesOf(merged) \subseteq MessagesOf(merged')
  BY <1>1, RecordSteps, MessagesStay
<1>4. PICK b \in Buffer, h \in Hands, f \in Buffer :
         Prepared(b, h) /\ Refrozen(b, f) /\ Taken(f, h)
  BY ContentSteps DEF ContentStep
<1>5. ToSet(appended') \subseteq Waiting(b) \cup Handed(h) \cup MessagesOf(merged')
  BY <1>1, <1>2, <1>3, <1>4, KeptPrepared
<1>6. Waiting(b) = Waiting(f)
  BY <1>4 DEF Refrozen
<1>7. Waiting(f) \cup Handed(h) \subseteq Waiting(buf') \cup Handed(hand')
  <2>1. CASE buf' = f /\ hand' = h
    BY <2>1
  <2>2. ASSUME NEW c \in Call, h[c] = NoChunk, f.pending # <<>>,
               buf' = PopMergeChunk(f), hand' = [h EXCEPT ![c] = Head(f.pending)]
        PROVE  Waiting(f) \cup Handed(h) \subseteq Waiting(buf') \cup Handed(hand')
    <3>1. Head(f.pending) \in Chunk
          /\ Waiting(f) = Waiting(PopMergeChunk(f)) \cup ToSet(Head(f.pending).messages)
      BY <2>2, PopKeeps
    <3>2. Handed(h) \cup ToSet(Head(f.pending).messages) \subseteq Handed(hand')
      BY <2>2, <3>1, HandedTaken
    <3> QED BY <2>2, <3>1, <3>2
  <2> QED BY <1>4, <2>1, <2>2 DEF Taken
<1>8. MessagesOf(InHand') = Handed(hand')
  <2>1. \A m : m \in MessagesOf(InHand') <=> m \in Handed(hand')
    BY HandedIs DEF MessagesOf, InHand
  <2> QED BY <2>1
<1> QED
  BY <1>5, <1>6, <1>7, <1>8

LEMMA KeptAlways == Spec => []KeptInv
<1>1. Init => KeptInv
  BY NothingWritten DEF KeptInv, ToSet
<1> QED
  BY <1>1, KeptSame, BasicAlways, IdleAlways, RangeAlways, NumberedAlways, PTL DEF Spec

\* NothingForgotten until something fails or the buffer is dropped: every message that
\* was stored is in the buffer, in the hands of a merge, or in a merged record.
THEOREM NothingForgottenUntilDropped ==
  Spec => [](failures = 0 /\ NeverDropped => NothingForgotten)
<1>1. KeptInv => (failures = 0 /\ NeverDropped => NothingForgotten)
  BY DEF KeptInv, NothingForgotten, Carried
<1> QED
  BY <1>1, KeptAlways, PTL

\* NothingForgotten, for a session that is neither ended nor idle and whose merges
\* do not fail.
THEOREM NothingForgottenAlways ==
  ASSUME MaxFailures = 0, MaxIdle = 0, End = {}
  PROVE  Spec => []NothingForgotten
<1>1. Basic => failures = 0 /\ NeverDropped
  BY DEF Basic, Typed, NeverDropped
<1> QED
  BY <1>1, BasicAlways, NothingForgottenUntilDropped, PTL

\* Only LoadMergedRecords takes an end from loading to ending.
LEMMA LoadingStep ==
  ASSUME Basic, [Next]_vars, NEW e \in End, pc[e] = "loading", pc'[e] = "ending"
  PROVE  LoadMergedRecords(e)
<1>0. e \in Call /\ e # Worker /\ e \notin Turn /\ pc'[e] # pc[e]
  BY Calls
<1>1. ASSUME NEW c \in Call, NEW l, pc' = [pc EXCEPT ![c] = l]
      PROVE  c = e /\ l = "ending"
  BY <1>0, <1>1, MoveOthers
<1>2. ASSUME NEW c \in Call, NEW b, NEW a, Enters(c, b, a)
      PROVE  FALSE
  BY <1>0, <1>1, <1>2 DEF Enters, Takes, Leaves
<1>3. ASSUME NEW c \in Call, AskLock(c) \/ GetLock(c)
      PROVE  FALSE
  <2>1. CASE AskLock(c)
    <3>1. PICK b \in {buf, EmptyBuffer}, l \in Nat : Asks(c, b, l)
      BY <2>1, AskForms DEF Basic
    <3> QED BY <1>1, <1>2, <3>1 DEF Asks
  <2>2. CASE GetLock(c)
    BY <1>2, <2>2, EnterForms DEF GetLock, Basic, Typed
  <2> QED BY <1>3, <2>1, <2>2
<1>4. ASSUME NEW c \in End \cup {Worker}, WriteMerged(c) \/ WriteFails(c)
      PROVE  FALSE
  <2>1. c \in Call
    BY Calls
  <2>2. CASE WriteMerged(c)
    BY <1>1, <2>1, <2>2, MergeNextForms DEF WriteMerged, Takes, Leaves
  <2>3. CASE WriteFails(c)
    BY <1>1, <2>1, <2>3, Calls DEF WriteFails, GiveUpEvent, Goto
  <2> QED BY <1>4, <2>2, <2>3
<1>5. ASSUME NEW t \in Turn, StoreMessage(t) \/ StoreFails(t)
      PROVE  FALSE
  BY <1>0, <1>1, <1>5, Calls DEF StoreMessage, StoreFails, Goto
<1>6. ASSUME TakeEvent \/ Derive \/ Cleanup \/ CleanupFails
      PROVE  FALSE
  BY <1>0, <1>1, <1>6, Calls DEF TakeEvent, Derive, Cleanup, CleanupFails, GiveUpEvent, Goto
<1>7. ASSUME NEW d \in End, WriteFinal(d) \/ EndFails(d)
      PROVE  FALSE
  BY <1>1, <1>7, Calls DEF WriteFinal, EndFails, Goto
<1>8. ASSUME NEW d \in End, LoadMergedRecords(d)
      PROVE  LoadMergedRecords(e)
  BY <1>1, <1>8, Calls DEF LoadMergedRecords, Goto
<1>9. ~(GoIdle \/ PruneIdle \/ UNCHANGED vars)
  BY <1>0 DEF GoIdle, PruneIdle, vars
<1> QED
  BY <1>3, <1>4, <1>5, <1>6, <1>7, <1>8, <1>9, Calls
     DEF Next, TurnStep, EndStep, MergeStep, WorkerStep, Fault

LEMMA NothingWaits ==
  ASSUME NEW b \in Buffer, b.active = <<>>, b.pending = <<>>
  PROVE  Waiting(b) = {}
<1> DEFINE runs == Runs(b)
<1>1. /\ DOMAIN runs = 1 .. Len(b.pending) + 1
      /\ runs[Len(b.pending) + 1] = Remainder(b)
  BY RunsOf
<1>2. Len(b.pending) = 0
  OBVIOUS
<1> HIDE DEF runs
<1>3. DOMAIN runs = {1} /\ runs[1] = Remainder(b)
  BY <1>1, <1>2
<1>4. \A i \in DOMAIN runs : DOMAIN runs[i].messages = {}
  BY <1>3 DEF Remainder
<1> QED
  BY <1>4, WaitingIs DEF runs

LEMMA LoadCovers ==
  ASSUME Basic, RangeInv, NumberedInv, SerialInv, EndInv, KeptInv,
         NEW e \in End, LoadMergedRecords(e), failures = 0, NeverDropped,
         \A r \in merged : r.ready \/ \E own \in chosen[e] : own.uri = r.uri
  PROVE  ToSet(appended) \subseteq MessagesOf(chosen'[e])
<1> DEFINE ready == {r \in merged : r.ready}
           known == {r.uri : r \in ready}
           all   == ready \cup {r \in chosen[e] : r.uri \notin known}
<1>1. /\ e \in Call /\ pc[e] = "loading" /\ chosen'[e] = all /\ buf \in Buffer
  BY Calls DEF LoadMergedRecords, Basic, Typed
<1>2. Waiting(buf) = {}
  BY <1>1, NothingWaits DEF EndInv
<1>3. MessagesOf(InHand) = {}
  <2>1. \A c \in Call : hand[c] = NoChunk
    <3>1. \A c \in Call : pc[c] = "writing" => pc[c] \in Inside /\ pc[e] \in Inside /\ c # e
      BY <1>1 DEF Inside
    <3>2. \A c \in Call : pc[c] # "writing"
      BY <1>1, <3>1 DEF SerialInv, SerialSession
    <3> QED BY <3>2 DEF Basic, PlacesInv
  <2> QED BY <2>1 DEF InHand, MessagesOf
<1>4. ToSet(appended) \subseteq MessagesOf(merged)
  BY <1>2, <1>3 DEF KeptInv
<1>5. ASSUME NEW r \in merged
      PROVE  \E s \in all : s.messages = r.messages
  <2>1. CASE r.ready
    BY <2>1
  <2>2. ASSUME ~r.ready, NEW own \in chosen[e], own.uri = r.uri
        PROVE  \E s \in all : s.messages = r.messages
    <3>1. own.uri \notin known
      BY <2>2 DEF Basic, OneRecord
    <3>2. own \in all
      BY <3>1
    <3> DEFINE v == <<r.uri, r.messages>>
               w == <<own.uri, own.messages>>
    <3>3. v \in Written /\ w \in Chosen /\ v[1] = w[1] /\ v[2] = r.messages /\ w[2] = own.messages
      BY <2>2 DEF Written, Chosen
    <3>4. r.messages = own.messages
      <4> HIDE DEF v, w
      <4> QED BY <3>3, SameRange
    <3> QED BY <3>2, <3>4
  <2> QED BY <2>1, <2>2
<1> HIDE DEF all
<1> QED
  BY <1>1, <1>4, <1>5 DEF MessagesOf

\* EndCoversSession: the final record takes in every message of the session.  When an
\* end reads the merged records, its buffer is empty and nobody else merges.
THEOREM EndCoversSessionAlways == Spec => EndCoversSession
<1> DEFINE Covers == \A e \in End :
              /\ pc[e] = "loading" /\ pc'[e] = "ending"
              /\ failures = 0 /\ NeverDropped
              /\ \A r \in merged : r.ready \/ \E own \in chosen[e] : own.uri = r.uri
              => ToSet(appended) \subseteq MessagesOf(chosen'[e])
<1>1. Basic /\ RangeInv /\ NumberedInv /\ SerialInv /\ EndInv /\ KeptInv /\ [Next]_vars => Covers
  BY LoadingStep, LoadCovers
<1>2. Covers => [Covers]_vars
  OBVIOUS
<1> QED
  BY <1>1, <1>2, BasicAlways, RangeAlways, NumberedAlways, SerialAlways, EndAlways, KeptAlways, PTL
     DEF Spec, EndCoversSession
===============================================================================
