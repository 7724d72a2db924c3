------------------------------ MODULE EventWorker ------------------------------
(***************************************************************************)
(* The event pipeline of store/event: publishing (MemoryEventManager), the *)
(* worker tasks that consume the persistent queue (EventWorker), and the   *)
(* request-scoped progress tracker (StoreWaitTracker) behind               *)
(* `wait = true` in store/routes.py.                                       *)
(*                                                                         *)
(* One event loop runs everything except the SQLite calls, which run in    *)
(* threads.  An action is what happens between two suspension points: a    *)
(* row is committed in a thread, and the worker that asked for it goes on  *)
(* later, in a step of its own.                                            *)
(*                                                                         *)
(* An operator with a suffix after the name of another                     *)
(* (MarkFailedUncounted beside MarkFailed) is a wrong variant of it that   *)
(* no action uses.                                                         *)
(***************************************************************************)
EXTENDS QueueTable, FiniteSets

CONSTANTS Msg,          \* events, numbered in the order they are published
          Worker,       \* worker tasks: the concurrency setting
          Request,      \* store requests with wait = true
          None,         \* no message, no request
          KeyOf,        \* ordering_key of each event
          RequestOf,    \* the request scope an event is published in, or None
          ParentOf,     \* the event whose handler publishes it, or None
          RetryDelay,   \* classify_event_failure: delay of a transient failure
          LockedDelay,  \* locked_key_delay_seconds
          MaxFaults,    \* bound: database errors, crashes and restarts
          MaxLapses,    \* bound: ticks on which a worker outlives its lease
          WatchIdle     \* whether somebody calls wait_idle

ASSUME WorkerAssumption == /\ Msg \subseteq Nat \ {0}
                           /\ IsFiniteSet(Msg) /\ IsFiniteSet(Worker)
                           /\ None \notin Msg \cup Request
                           /\ RequestOf \in [Msg -> Request \cup {None}]
                           /\ ParentOf \in [Msg -> Msg \cup {None}]
                           /\ \A m \in Msg : ParentOf[m] # None => RequestOf[m] = None
                           /\ DOMAIN KeyOf = Msg
                           /\ RetryDelay \in Nat \ {0}
                           /\ LockedDelay \in Nat \ {0}
                           /\ MaxFaults \in Nat
                           /\ MaxLapses \in Nat
                           /\ WatchIdle \in BOOLEAN

VARIABLES rows,      \* the table of the persistent queue
          pub,       \* where each event is on its way to the queue
          pc,        \* where each worker task is
          msg,       \* the message a worker task works on
          snap,      \* attempts of that message as dequeue returned it
          phase,     \* where each request is
          tracker,   \* StoreWaitState of each request
          idle,      \* the caller of wait_idle
          up,        \* whether the process runs
          stop,      \* the _stop event
          faults, lapses, orphans   \* history, see CFSQueue

queueVars  == <<rows, orphans>>
workerVars == <<pc, msg, snap>>
clientVars == <<phase, tracker>>
lifeVars   == <<up, stop, faults, lapses>>
vars == <<queueVars, workerVars, clientVars, lifeVars, pub, idle>>

Failing == {"failTransient", "failForGood", "requeueing", "exhausting", "givingUp"}
Holding == {"claimed", "handling", "acking", "releasing"} \cup Failing
Marking == {"markDone", "markRequeued", "markFailed"}
Ended   == {"stopped", "dead", "down"}
PC      == {"idle", "scanning"} \cup Holding \cup Marking \cup Ended
Answer  == {"ready", "processing", "failed"}
Phase   == {"new", "storing", "draining", "waiting", "gone"} \cup Answer

NoState == [known |-> FALSE, pending |-> {}, done |-> 0, failed |-> 0]

TrackerState == [known : BOOLEAN, pending : SUBSET Msg, done : Nat, failed : Nat]

TypeOK ==
  /\ rows \in [Msg -> Row]
  /\ pub \in [Msg -> {"unborn", "task", "lost", "queued"}]
  /\ pc \in [Worker -> PC]
  /\ msg \in [Worker -> Msg \cup {None}]
  /\ \A w \in Worker : pc[w] \in Holding \cup Marking <=> msg[w] # None
  /\ snap \in [Worker -> Nat]
  /\ phase \in [Request -> Phase]
  /\ tracker \in [Request -> TrackerState]
  /\ idle \in [at : {"off", "draining", "asking", "checking", "returned"},
               tasks : SUBSET Msg, quiet : BOOLEAN, before : SUBSET Msg]
  /\ up \in BOOLEAN /\ stop \in BOOLEAN
  /\ faults \in 0 .. MaxFaults /\ lapses \in 0 .. MaxLapses
  /\ orphans \in [Msg -> Nat]

\* Nobody is in wait_idle.
NoCall == [at |-> "off", tasks |-> {}, quiet |-> FALSE, before |-> {}]

Init == /\ rows = [m \in Msg |-> NoRow]
        /\ pub = [m \in Msg |-> "unborn"]
        /\ pc = [w \in Worker |-> "idle"]
        /\ msg = [w \in Worker |-> None]
        /\ snap = [w \in Worker |-> 0]
        /\ phase = [r \in Request |-> "new"]
        /\ tracker = [r \in Request |-> NoState]
        /\ idle = NoCall
        /\ up = TRUE /\ stop = FALSE
        /\ faults = 0 /\ lapses = 0
        /\ orphans = [m \in Msg |-> 0]

Tasks == {m \in Msg : pub[m] = "task"}

Handles(w, m) == pc[w] = "handling" /\ msg[w] = m

\* lock.locked() for the ordering key of m.
KeyLocked(m) == \E w \in Worker : pc[w] = "handling" /\ KeyOf[msg[w]] = KeyOf[m]

-------------------------------------------------------------------------------
(* The tracker.  A request has a state from its registration on; marks for *)
(* a request the process does not know (any more) are dropped.             *)

Tracked(r) == r # None /\ tracker[r].known

RegisterMessage(m) ==
  LET r == RequestOf[m]
  IN  tracker' = IF Tracked(r)
                 THEN [tracker EXCEPT ![r].pending = @ \cup {m}]
                 ELSE tracker

MarkDone(t, m) == IF m \in t.pending
                  THEN [t EXCEPT !.pending = @ \ {m}, !.done = @ + 1]
                  ELSE t

MarkRequeued(t, m) == [t EXCEPT !.pending = @ \cup {m}]

MarkFailedUncounted(t, m) == [t EXCEPT !.pending = @ \ {m}]

MarkFailedStillPending(t, m) == [t EXCEPT !.failed = @ + 1]

MarkFailed(t, m) == [t EXCEPT !.pending = @ \ {m}, !.failed = @ + 1]

IndexStatus(t) == IF t.failed > 0 THEN "failed"
                  ELSE IF t.pending = {} THEN "ready"
                  ELSE "processing"

-------------------------------------------------------------------------------
(* Publishing. *)

\* publish_nowait: a task that will run the subscribed handler.  A handler of
\* the worker publishes while it runs, outside every request scope.
Publish(m) ==
  /\ up
  /\ pub[m] = "unborn"
  /\ \A n \in Msg : pub[n] # "unborn" => n < m
  /\ IF ParentOf[m] # None
     THEN \E w \in Worker : Handles(w, ParentOf[m])
     ELSE RequestOf[m] # None => phase[RequestOf[m]] = "storing"
  /\ pub' = [pub EXCEPT ![m] = "task"]
  /\ UNCHANGED <<queueVars, workerVars, clientVars, lifeVars, idle>>

\* dispatch runs EventWorker.enqueue, which inserts the row and registers the
\* message without yielding; an exception is logged and the event is dropped.
Dispatch(m) ==
  /\ up
  /\ pub[m] = "task"
  /\ \A n \in Tasks : m <= n
  /\ pub' = [pub EXCEPT ![m] = "queued"]
  /\ rows' = [rows EXCEPT ![m] = EnqueueRow]
  /\ RegisterMessage(m)
  /\ UNCHANGED <<orphans, workerVars, phase, lifeVars, idle>>

DispatchFails(m) ==
  /\ up
  /\ pub[m] = "task"
  /\ \A n \in Tasks : m <= n
  /\ faults < MaxFaults
  /\ faults' = faults + 1
  /\ pub' = [pub EXCEPT ![m] = "lost"]
  /\ UNCHANGED <<queueVars, workerVars, clientVars, up, stop, lapses, idle>>

-------------------------------------------------------------------------------
(* A request of memory_store or resource_import with wait = true. *)

RegisterRequest(r) ==
  /\ up
  /\ phase[r] = "new"
  /\ phase' = [phase EXCEPT ![r] = "storing"]
  /\ tracker' = [tracker EXCEPT ![r].known = TRUE]
  /\ UNCHANGED <<queueVars, workerVars, lifeVars, pub, idle>>

\* store() returned: every event of the request is published.
Stored(r) ==
  /\ up
  /\ phase[r] = "storing"
  /\ \A m \in Msg : RequestOf[m] = r =>
        \/ pub[m] # "unborn"
        \/ \E n \in Msg : m < n /\ pub[n] # "unborn"
  /\ phase' = [phase EXCEPT ![r] = "draining"]
  /\ UNCHANGED <<queueVars, workerVars, tracker, lifeVars, pub, idle>>

\* wait_publish_tasks returned; tasks of other requests only delay it.
Drained(r) ==
  /\ up
  /\ phase[r] = "draining"
  /\ \A m \in Tasks : RequestOf[m] # r
  /\ phase' = [phase EXCEPT ![r] = "waiting"]
  /\ UNCHANGED <<queueVars, workerVars, tracker, lifeVars, pub, idle>>

\* wait_for_request saw no pending message.
Completed(r) ==
  /\ up
  /\ phase[r] = "waiting"
  /\ tracker[r].pending = {}
  /\ phase' = [phase EXCEPT ![r] = IndexStatus(tracker[r])]
  /\ UNCHANGED <<queueVars, workerVars, tracker, lifeVars, pub, idle>>

\* The time budget ran out, before or after the publish tasks were done.
TimedOut(r) ==
  /\ up
  /\ phase[r] \in {"draining", "waiting"}
  /\ LET status == IndexStatus(tracker[r])
     IN  phase' = [phase EXCEPT ![r] = IF phase[r] = "draining" /\ status = "ready"
                                       THEN "processing"
                                       ELSE status]
  /\ UNCHANGED <<queueVars, workerVars, tracker, lifeVars, pub, idle>>

-------------------------------------------------------------------------------
(* The worker loop: run, process. *)

Goto(w, label) == pc' = [pc EXCEPT ![w] = label]

\* The loop condition found _stop set.
StopWorker(w) ==
  /\ up /\ stop
  /\ pc[w] = "idle"
  /\ Goto(w, "stopped")
  /\ UNCHANGED <<queueVars, msg, snap, clientVars, lifeVars, pub, idle>>

DequeueRecover(w) ==
  /\ up /\ ~stop
  /\ pc[w] = "idle"
  /\ Goto(w, "scanning")
  /\ rows' = [m \in Msg |-> RecoverRow(rows[m])]
  /\ UNCHANGED <<orphans, msg, snap, clientVars, lifeVars, pub, idle>>

DequeueClaimYoungest(w) ==
  /\ up
  /\ pc[w] = "scanning"
  /\ \E m \in Msg :
        /\ Claimable(rows[m])
        /\ \A n \in Msg : Claimable(rows[n]) => n <= m
        /\ rows' = [rows EXCEPT ![m] = ClaimRow(@)]
        /\ msg' = [msg EXCEPT ![w] = m]
        /\ snap' = [snap EXCEPT ![w] = rows[m].attempts + 1]
  /\ Goto(w, "claimed")
  /\ UNCHANGED <<orphans, clientVars, lifeVars, pub, idle>>

DequeueClaim(w) ==
  /\ up
  /\ pc[w] = "scanning"
  /\ \E m \in Msg :
        /\ Claimable(rows[m])
        /\ \A n \in Msg : Claimable(rows[n]) => m <= n
        /\ rows' = [rows EXCEPT ![m] = ClaimRow(@)]
        /\ msg' = [msg EXCEPT ![w] = m]
        /\ snap' = [snap EXCEPT ![w] = rows[m].attempts + 1]
  /\ Goto(w, "claimed")
  /\ UNCHANGED <<orphans, clientVars, lifeVars, pub, idle>>

DequeueNone(w) ==
  /\ up
  /\ pc[w] = "scanning"
  /\ \A m \in Msg : ~Claimable(rows[m])
  /\ Goto(w, "idle")
  /\ UNCHANGED <<queueVars, msg, snap, clientVars, lifeVars, pub, idle>>

\* process: the key's lock is tested and taken without yielding in between.
Process(w) ==
  /\ up
  /\ pc[w] = "claimed"
  /\ Goto(w, IF KeyLocked(msg[w]) THEN "releasing" ELSE "handling")
  /\ UNCHANGED <<queueVars, msg, snap, clientVars, lifeVars, pub, idle>>

\* handle returned; the lock is free before the row is settled.  The first
\* failure of its actions decides: classify_event_failure.
Finish(w) ==
  /\ up
  /\ pc[w] = "handling"
  /\ \E label \in {"acking", "failTransient", "failForGood"} : Goto(w, label)
  /\ UNCHANGED <<queueVars, msg, snap, clientVars, lifeVars, pub, idle>>

\* The row of w's message becomes r, and w goes on at label.
SettleRow(w, r, label) ==
  /\ rows' = [rows EXCEPT ![msg[w]] = r]
  /\ Goto(w, label)
  /\ UNCHANGED <<orphans, msg, snap, clientVars, lifeVars, pub, idle>>

Ack(w) ==
  /\ up
  /\ pc[w] = "acking"
  /\ SettleRow(w, AckRow(rows[msg[w]]), "markDone")

\* The SELECT of afail, which decides between its two UPDATEs.
FailRead(w) ==
  /\ up
  /\ \/ /\ pc[w] = "failTransient"
        /\ Goto(w, IF ShouldRetry(rows[msg[w]], TRUE) THEN "requeueing" ELSE "exhausting")
     \/ /\ pc[w] = "failForGood"
        /\ Goto(w, "givingUp")
  /\ UNCHANGED <<queueVars, msg, snap, clientVars, lifeVars, pub, idle>>

RetryMarkOffByOne(w) == IF snap[w] <= MaxAttempts THEN "markRequeued" ELSE "markFailed"

\* After a transient failure the UPDATE depends on the row, the mark on the
\* attempts that dequeue returned.
RetryMark(w) == IF snap[w] < MaxAttempts THEN "markRequeued" ELSE "markFailed"

Requeue(w) ==
  /\ up
  /\ pc[w] = "requeueing"
  /\ SettleRow(w, RetryRow(rows[msg[w]], RetryDelay), RetryMark(w))

Exhaust(w) ==
  /\ up
  /\ pc[w] = "exhausting"
  /\ SettleRow(w, FailRow(rows[msg[w]]), RetryMark(w))

GiveUp(w) ==
  /\ up
  /\ pc[w] = "givingUp"
  /\ SettleRow(w, FailRow(rows[msg[w]]), "markFailed")

Release(w) ==
  /\ up
  /\ pc[w] = "releasing"
  /\ SettleRow(w, ReleaseRow(rows[msg[w]], LockedDelay), "markRequeued")

Mark(w) ==
  LET m == msg[w]
      r == RequestOf[m]
      Update(t) == CASE pc[w] = "markDone"     -> MarkDone(t, m)
                     [] pc[w] = "markRequeued" -> MarkRequeued(t, m)
                     [] pc[w] = "markFailed"   -> MarkFailed(t, m)
  IN  /\ up
      /\ pc[w] \in Marking
      /\ tracker' = IF Tracked(r) THEN [tracker EXCEPT ![r] = Update(@)] ELSE tracker
      /\ Goto(w, "idle")
      /\ msg' = [msg EXCEPT ![w] = None]
      /\ snap' = [snap EXCEPT ![w] = 0]
      /\ UNCHANGED <<queueVars, phase, lifeVars, pub, idle>>

\* A claim whose worker is gone: the row stays behind.
Orphaned(w) == orphans' = IF pc[w] \in Holding
                          THEN [orphans EXCEPT ![msg[w]] = @ + 1]
                          ELSE orphans

LeaveLoopWithMessage(w, label) ==
  /\ Goto(w, label)
  /\ UNCHANGED <<msg, snap>>
  /\ Orphaned(w)

LeaveLoop(w, label) ==
  /\ Goto(w, label)
  /\ msg' = [msg EXCEPT ![w] = None]
  /\ snap' = [snap EXCEPT ![w] = 0]
  /\ Orphaned(w)

\* A SQLite call raises.  Only arelease is inside the try of process, whose
\* handler turns the error into a transient failure; from adequeue, aack and
\* afail it leaves run() and ends the worker task.
DatabaseError(w) ==
  /\ up
  /\ faults < MaxFaults
  /\ faults' = faults + 1
  /\ \/ /\ pc[w] = "releasing"
        /\ Goto(w, "failTransient")
        /\ UNCHANGED <<msg, snap, orphans>>
     \/ /\ pc[w] = "idle" => ~stop
        /\ pc[w] \in {"idle", "scanning", "acking"} \cup Failing
        /\ LeaveLoop(w, "dead")
  /\ UNCHANGED <<rows, clientVars, up, stop, lapses, pub, idle>>

-------------------------------------------------------------------------------
(* The process. *)

\* Everything in memory is gone: publish tasks, waiting requests, the tracker.
LoseMemory ==
  /\ up' = FALSE
  /\ pub' = [m \in Msg |-> IF pub[m] = "task" THEN "lost" ELSE pub[m]]
  /\ phase' = [r \in Request |->
                 IF phase[r] \in {"storing", "draining", "waiting"} THEN "gone" ELSE phase[r]]
  /\ tracker' = [r \in Request |-> NoState]
  /\ idle' = NoCall

\* The process is killed, or close() runs into its timeout and cancels.
Crash ==
  /\ up
  /\ faults < MaxFaults
  /\ faults' = faults + 1
  /\ LoseMemory
  /\ UNCHANGED <<queueVars, workerVars, stop, lapses>>

\* close(): workers finish the message they have.
Close ==
  /\ up /\ ~stop
  /\ faults < MaxFaults
  /\ faults' = faults + 1
  /\ stop' = TRUE
  /\ UNCHANGED <<queueVars, workerVars, clientVars, up, lapses, pub, idle>>

\* gather returns when every worker has, or at once if one died of an error: the
\* others are cancelled with the loop, whatever they are doing.
Exit ==
  /\ up /\ stop
  /\ (\E w \in Worker : pc[w] \notin Ended) => \E w \in Worker : pc[w] = "dead"
  /\ LoseMemory
  /\ UNCHANGED <<queueVars, workerVars, stop, faults, lapses>>

\* The worker tasks of a process that is gone.
Vanish(w) ==
  /\ ~up
  /\ pc[w] # "down"
  /\ LeaveLoop(w, "down")
  /\ UNCHANGED <<rows, clientVars, lifeVars, pub, idle>>

Start ==
  /\ ~up
  /\ \A w \in Worker : pc[w] = "down"
  /\ up' = TRUE /\ stop' = FALSE
  /\ pc' = [w \in Worker |-> "idle"]
  /\ UNCHANGED <<queueVars, msg, snap, clientVars, pub, idle, faults, lapses>>

\* Workers whose lease runs out at the next tick.
Overdue == {w \in Worker : /\ pc[w] \in Holding
                           /\ rows[msg[w]].status = "processing"
                           /\ rows[msg[w]].held = StaleAfter}

\* The continuation of a committed SQLite call is already queued on the event
\* loop: it runs before a delay of a tick is over.
Tick ==
  /\ \A w \in Worker : pc[w] \notin Marking
  /\ Overdue = {} \/ lapses < MaxLapses
  /\ rows' = [m \in Msg |-> AgeRow(rows[m])]
  /\ lapses' = IF Overdue = {} THEN lapses ELSE lapses + 1
  /\ UNCHANGED <<orphans, workerVars, clientVars, up, stop, faults, pub, idle>>

-------------------------------------------------------------------------------
(* wait_idle: drain the publish tasks seen at the top of the loop, count the *)
(* rows in a thread, then look at both.  `before` is history: the events     *)
(* published before the call.                                                *)

Active == \E m \in Msg : rows[m].status \in {"pending", "processing"}

CallWaitIdle ==
  /\ up /\ WatchIdle
  /\ idle.at = "off"
  /\ idle' = [idle EXCEPT !.at = "draining", !.tasks = Tasks,
                          !.before = {m \in Msg : pub[m] # "unborn"}]
  /\ UNCHANGED <<queueVars, workerVars, clientVars, lifeVars, pub>>

IdleDrainedAtOnce ==
  /\ up
  /\ idle.at = "draining"
  /\ idle' = [idle EXCEPT !.at = "asking"]
  /\ UNCHANGED <<queueVars, workerVars, clientVars, lifeVars, pub>>

IdleDrained ==
  /\ up
  /\ idle.at = "draining"
  /\ idle.tasks \cap Tasks = {}
  /\ idle' = [idle EXCEPT !.at = "asking"]
  /\ UNCHANGED <<queueVars, workerVars, clientVars, lifeVars, pub>>

IdleStatus ==
  /\ up
  /\ idle.at = "asking"
  /\ idle' = [idle EXCEPT !.at = "checking", !.quiet = ~Active]
  /\ UNCHANGED <<queueVars, workerVars, clientVars, lifeVars, pub>>

IdleCheck ==
  /\ up
  /\ idle.at = "checking"
  /\ idle' = IF idle.quiet /\ Tasks = {}
             THEN [idle EXCEPT !.at = "returned"]
             ELSE [idle EXCEPT !.at = "draining", !.tasks = Tasks]
  /\ UNCHANGED <<queueVars, workerVars, clientVars, lifeVars, pub>>

WaitIdle == CallWaitIdle \/ IdleDrained \/ IdleStatus \/ IdleCheck

-------------------------------------------------------------------------------
\* What a live worker task does, errors of the database aside.
WorkerStep(w) ==
  \/ StopWorker(w)
  \/ DequeueRecover(w) \/ DequeueClaim(w) \/ DequeueNone(w)
  \/ Process(w) \/ Finish(w)
  \/ Ack(w) \/ FailRead(w) \/ Requeue(w) \/ Exhaust(w) \/ GiveUp(w) \/ Release(w)
  \/ Mark(w)

RequestStep(r) == RegisterRequest(r) \/ Stored(r) \/ Drained(r) \/ Completed(r)

Next == \/ \E m \in Msg : Publish(m) \/ Dispatch(m) \/ DispatchFails(m)
        \/ \E r \in Request : RequestStep(r) \/ TimedOut(r)
        \/ \E w \in Worker : WorkerStep(w) \/ DatabaseError(w) \/ Vanish(w)
        \/ Crash \/ Close \/ Exit \/ Start
        \/ WaitIdle
        \/ Tick

Spec == Init /\ [][Next]_vars

\* The event loop runs every ready task, threads and handlers return, time
\* passes, and a process that is down is started again.  Nothing makes requests
\* come, time budgets run out, or faults happen.
Fairness == /\ \A m \in Msg : WF_vars(Dispatch(m))
            /\ \A r \in Request : WF_vars(Drained(r)) /\ WF_vars(Completed(r))
            /\ \A w \in Worker : WF_vars(WorkerStep(w)) /\ WF_vars(Vanish(w))
            /\ WF_vars(Exit) /\ WF_vars(Start)
            /\ WF_vars(Tick)

FairSpec == Spec /\ Fairness

-------------------------------------------------------------------------------
\* The workers are consumers of the queue: each lease-related promise of
\* CFSQueue is theirs.  A worker holds its message until its row is settled.
CONSTANTS Free, Scanning, NoOwner

ASSUME ConsumerAssumption == /\ {Free, Scanning} \cap Msg = {} /\ Free # Scanning
                             /\ NoOwner \notin Worker

Claim == [w \in Worker |-> IF pc[w] \in Holding THEN msg[w]
                         ELSE IF pc[w] = "scanning" THEN Scanning
                         ELSE Free]

Verdict == [w \in Worker |-> CASE pc[w] = "requeueing" -> "retry"
                             [] pc[w] \in {"exhausting", "givingUp"} -> "fail"
                             [] OTHER -> "none"]

Queue == INSTANCE CFSQueue WITH
           Consumer   <- Worker,
           Delays     <- {0, RetryDelay, LockedDelay},
           MaxOrphans <- MaxFaults * Cardinality(Worker),
           MaxPasses  <- 0,
           passes     <- 0,
           claim      <- Claim,
           verdict    <- Verdict

QueueSpec == Queue!Spec

NoLapse == lapses = 0

\* The tracker agrees with the table although each row is settled in a thread
\* before the mark reaches the tracker: a request's pending messages are exactly
\* those whose rows are not final or whose mark is still on its way, and the
\* counters cover the others, once each.
InFlight(m) == \E w \in Worker : pc[w] \in Marking /\ msg[w] = m

Unsettled(m) == rows[m].status \in {"pending", "processing"} \/ InFlight(m)

QueuedBy(r) == {m \in Msg : RequestOf[m] = r /\ pub[m] = "queued"}

TrackerExact ==
  NoLapse => \A r \in Request : tracker[r].known =>
    LET t == tracker[r]
        Settled(s) == {m \in QueuedBy(r) : ~InFlight(m) /\ rows[m].status = s}
    IN  /\ t.pending = {m \in QueuedBy(r) : Unsettled(m)}
        /\ t.done = Cardinality(Settled("done"))
        /\ t.failed = Cardinality(Settled("failed"))

\* A client that is told "ready" finds every event of its request processed
\* successfully; only an event whose enqueue failed is missing.
ReadyMeansIndexed ==
  NoLapse => \A r \in Request : phase[r] = "ready" =>
    \A m \in Msg : RequestOf[m] = r => \/ pub[m] # "queued"
                                      \/ rows[m].status = "done"

\* wait_idle counts rows in a thread and looks at the publish tasks only after
\* that; still, when it returns, whatever was published before the call is settled.
WaitIdleCovers ==
  NoLapse /\ idle.at = "returned" =>
    \A m \in idle.before : pub[m] = "lost" \/ rows[m].status \in {"done", "failed"}

-------------------------------------------------------------------------------
(* What the safety properties rest on: the parts of their inductive invariant. *)

\* What the process knows of a request; a process that is down knows nothing.
LifeInv ==
  /\ \A r \in Request : /\ ~tracker[r].known => tracker[r] = NoState
                        /\ phase[r] = "new" => ~tracker[r].known
                        /\ phase[r] \in {"storing", "draining", "waiting"} => tracker[r].known
  /\ ~up => /\ Tasks = {} /\ idle.at = "off"
            /\ \A r \in Request : ~tracker[r].known

\* An event has a row from its dispatch on, in the order of publication; a request
\* that is told "ready", or waits for its rows only, has no event on its way.
PublishInv ==
  /\ \A m \in Msg : /\ pub[m] = "queued" <=> rows[m].status # "absent"
                    /\ rows[m].status # "gone"
  /\ \A m, n \in Msg : pub[n] = "queued" /\ pub[m] = "task" => n < m
  /\ \A w \in Worker : msg[w] # None => pub[msg[w]] = "queued"
  /\ \A m \in Msg : \A r \in Request : RequestOf[m] = r =>
        /\ phase[r] = "new" => pub[m] = "unborn"
        /\ pub[m] = "task" => phase[r] \notin {"waiting", "ready", "gone"}

\* Until a lease lapses a worker's snapshot of the attempts is right, a row whose mark
\* is on its way can be neither claimed nor recovered, and nobody else works on it.
MarkInv ==
  NoLapse =>
    \A w \in Worker :
       /\ pc[w] \in Holding => snap[w] = rows[msg[w]].attempts
       /\ pc[w] = "requeueing" => snap[w] < MaxAttempts
       /\ pc[w] = "exhausting" => ~(snap[w] < MaxAttempts)
       /\ pc[w] = "markDone" => rows[msg[w]].status = "done"
       /\ pc[w] = "markFailed" => rows[msg[w]].status = "failed"
       /\ pc[w] = "markRequeued" => rows[msg[w]].status = "pending" /\ rows[msg[w]].wait > 0
       /\ \A v \in Worker : msg[v] = msg[w] /\ msg[v] # None => v = w

Final(m) == rows[m].status \in {"done", "failed"}

\* What wait_idle has established of the events published before the call.
IdleInv ==
  /\ idle.at # "off" => \A m \in idle.before : pub[m] # "unborn"
  /\ idle.at = "draining" => idle.before \cap Tasks \subseteq idle.tasks
  /\ idle.at \in {"asking", "checking", "returned"} => idle.before \cap Tasks = {}
  /\ NoLapse /\ ((idle.at = "checking" /\ idle.quiet) \/ idle.at = "returned") =>
        \A m \in idle.before : pub[m] = "lost" \/ Final(m)

\* A fault leaves at most one claim of each worker behind.  AtRisk: the workers
\* that a process which is stopping, or gone, may still leave one of.
AtRisk == IF up /\ ~stop THEN {} ELSE {w \in Worker : pc[w] \notin Ended}

OrphanInv ==
  \A m \in Msg : orphans[m] + Cardinality(AtRisk) <= faults * Cardinality(Worker)

\* An event that reached the queue is processed to an end, across crashes,
\* restarts, database errors, retries and busy keys, as long as a worker is left.
EventuallySettled ==
  \A m \in Msg : pub[m] = "queued" ~> rows[m].status \in {"done", "failed"}

\* A client that waits gets its answer even if it sets no time limit, unless the
\* process goes down.
EventuallyAnswered ==
  \A r \in Request : phase[r] = "draining" ~> phase[r] \in Answer \cup {"gone"}
===============================================================================
