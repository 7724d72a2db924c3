--------------------------- MODULE EventWorkerProofs ---------------------------
(***************************************************************************)
(* Proofs about publishing, worker tasks and the progress tracker, for any *)
(* events, keys, requests and workers and any bounds on faults and lapses. *)
(***************************************************************************)
EXTENDS EventWorker, FiniteSetTheorems, TLAPS

-------------------------------------------------------------------------------
(* The queue that the workers drive, and what is proved of it *)
QP == INSTANCE CFSQueueProofs WITH
        Consumer   <- Worker,
        Delays     <- {0, RetryDelay, LockedDelay},
        MaxOrphans <- MaxFaults * Cardinality(Worker),
        MaxPasses  <- 0,
        passes     <- 0,
        claim      <- Claim,
        verdict    <- Verdict

LEMMA OneMoreFault ==
  ASSUME NEW f \in Nat, NEW n \in Nat
  PROVE  f * n \in Nat /\ (f + 1) * n = f * n + n
OBVIOUS

LEMMA AtRiskCounted ==
  /\ Cardinality(Worker) \in Nat
  /\ IsFiniteSet(AtRisk) /\ Cardinality(AtRisk) \in 0 .. Cardinality(Worker)
<1>1. IsFiniteSet(Worker) /\ AtRisk \subseteq Worker
  BY WorkerAssumption DEF AtRisk
<1>2. QED
  BY <1>1, FS_Subset, FS_CardinalityType

\* The assumptions of CFSQueue hold of the workers.
LEMMA QueueAssumptions ==
  QP!TableAssumption /\ QP!QueueAssumption /\ QP!OwnerAssumption
<1>1. MaxFaults * Cardinality(Worker) \in Nat
  BY WorkerAssumption, AtRiskCounted, OneMoreFault
<1>2. QED
  BY <1>1, TableAssumption, WorkerAssumption, ConsumerAssumption
     DEF QP!TableAssumption, QP!QueueAssumption, QP!OwnerAssumption, QP!IsFiniteSet, IsFiniteSet

\* Every statement of cfs_queue.py maps a row to a row, of the workers' table too.
LEMMA RowOpsTyped ==
  /\ NoRow \in Row /\ EnqueueRow \in Row
  /\ \A r \in Row :
       /\ ClaimRow(r) \in Row /\ AckRow(r) \in Row /\ RecoverRow(r) \in Row
       /\ ClearRow(r) \in Row /\ AgeRow(r) \in Row
       /\ \A d \in Nat : ReleaseRow(r, d) \in Row
       /\ \A b \in BOOLEAN : RequeueFailedRow(r, b) \in Row
       /\ FailRow(r) \in Row /\ \A d \in Nat : RetryRow(r, d) \in Row
<1>1. QP!TableAssumption /\ QP!QueueAssumption /\ QP!OwnerAssumption
  BY QueueAssumptions
<1>2. /\ QP!NoRow \in QP!Row /\ QP!EnqueueRow \in QP!Row
      /\ \A r \in QP!Row :
           /\ QP!ClaimRow(r) \in QP!Row /\ QP!AckRow(r) \in QP!Row /\ QP!RecoverRow(r) \in QP!Row
           /\ QP!ClearRow(r) \in QP!Row /\ QP!AgeRow(r) \in QP!Row
           /\ \A d \in Nat : QP!ReleaseRow(r, d) \in QP!Row
           /\ \A b \in BOOLEAN : QP!RequeueFailedRow(r, b) \in QP!Row
           /\ QP!FailRow(r) \in QP!Row /\ \A d \in Nat : QP!RetryRow(r, d) \in QP!Row
  BY <1>1, QP!RowOpsTyped
<1>3. QP!Row = Row /\ QP!NoRow = NoRow /\ QP!EnqueueRow = EnqueueRow
  BY DEF QP!Row, Row, QP!Status, Status, QP!NoRow, NoRow, QP!EnqueueRow, EnqueueRow
<1>4. \A r : QP!ClaimRow(r) = ClaimRow(r) /\ QP!AckRow(r) = AckRow(r)
  BY DEF QP!ClaimRow, ClaimRow, QP!AckRow, AckRow, QP!Exists, Exists
<1>5. \A r : QP!RecoverRow(r) = RecoverRow(r) /\ QP!ClearRow(r) = ClearRow(r)
  BY DEF QP!RecoverRow, RecoverRow, QP!Stale, Stale, QP!ClearRow, ClearRow, QP!Exists, Exists,
         QP!GoneRow, GoneRow, QP!NoRow, NoRow
<1>6. \A r : QP!AgeRow(r) = AgeRow(r)
  BY DEF QP!AgeRow, AgeRow
<1>7. \A r, d : QP!ReleaseRow(r, d) = ReleaseRow(r, d)
  BY DEF QP!ReleaseRow, ReleaseRow
<1>8. \A r, b : QP!RequeueFailedRow(r, b) = RequeueFailedRow(r, b)
  BY DEF QP!RequeueFailedRow, RequeueFailedRow
<1>9. \A r, d : QP!FailRow(r) = FailRow(r) /\ QP!RetryRow(r, d) = RetryRow(r, d)
  BY DEF QP!FailRow, FailRow, QP!RetryRow, RetryRow, QP!Exists, Exists
<1>10. QED
  BY <1>2, <1>3, <1>4, <1>5, <1>6, <1>7, <1>8, <1>9

-------------------------------------------------------------------------------
\* Registrations and marks map the state of a request to one.
LEMMA MarksTyped ==
  ASSUME NEW t \in TrackerState, NEW m \in Msg
  PROVE  /\ MarkDone(t, m) \in TrackerState /\ MarkRequeued(t, m) \in TrackerState
         /\ MarkFailed(t, m) \in TrackerState
         /\ [t EXCEPT !.pending = @ \cup {m}] \in TrackerState
<1>1. t.done + 1 \in Nat /\ t.failed + 1 \in Nat
  BY DEF TrackerState
<1>2. t.pending \cup {m} \in SUBSET Msg /\ t.pending \ {m} \in SUBSET Msg
  BY DEF TrackerState
<1>3. QED
  BY <1>1, <1>2 DEF MarkDone, MarkRequeued, MarkFailed, TrackerState

\* A settlement of a worker changes one row and where the worker is.
LEMMA SettleTyped ==
  ASSUME TypeOK, NEW w \in Worker, NEW r \in Row, NEW label \in Marking,
         pc[w] \in Holding, SettleRow(w, r, label)
  PROVE  TypeOK'
BY DEF SettleRow, Goto, TypeOK, Holding, Failing, Marking, PC, lifeVars, clientVars

\* The steps of a worker that settle the row of its message.
Settles(w) == Ack(w) \/ Requeue(w) \/ Exhaust(w) \/ GiveUp(w) \/ Release(w)

LEMMA SettlesRow ==
  ASSUME TypeOK, NEW w \in Worker, Settles(w)
  PROVE  /\ pc[w] \in Holding /\ msg[w] \in Msg
         /\ \E r \in Row, label \in Marking : SettleRow(w, r, label)
<1>1. pc[w] \in Holding /\ msg[w] \in Msg
  BY DEF Settles, Ack, Requeue, Exhaust, GiveUp, Release, Holding, Failing, TypeOK
<1>2. rows[msg[w]] \in Row /\ RetryDelay \in Nat /\ LockedDelay \in Nat
  BY <1>1, WorkerAssumption DEF TypeOK
<1>3. CASE Ack(w)
  BY <1>1, <1>2, <1>3, RowOpsTyped DEF Ack, Marking
<1>4. CASE Requeue(w)
  BY <1>1, <1>2, <1>4, RowOpsTyped DEF Requeue, RetryMark, Marking
<1>5. CASE Exhaust(w)
  BY <1>1, <1>2, <1>5, RowOpsTyped DEF Exhaust, RetryMark, Marking
<1>6. CASE GiveUp(w)
  BY <1>1, <1>2, <1>6, RowOpsTyped DEF GiveUp, Marking
<1>7. CASE Release(w)
  BY <1>1, <1>2, <1>7, RowOpsTyped DEF Release, Marking
<1>8. QED
  BY <1>1, <1>3, <1>4, <1>5, <1>6, <1>7 DEF Settles

\* The variables keep their types under every step.
LEMMA TypeStep == TypeOK /\ [Next]_vars => TypeOK'
<1> SUFFICES ASSUME TypeOK, [Next]_vars PROVE TypeOK'
  OBVIOUS
<1> USE WorkerAssumption DEF TypeOK, queueVars, workerVars, clientVars, lifeVars
<1>1. ASSUME NEW m \in Msg, Publish(m) \/ DispatchFails(m) PROVE TypeOK'
  BY <1>1 DEF Publish, DispatchFails
<1>2. ASSUME NEW m \in Msg, Dispatch(m) PROVE TypeOK'
  <2>1. tracker' \in [Request -> TrackerState]
    BY <1>2, MarksTyped DEF Dispatch, RegisterMessage, Tracked
  <2>2. QED
    BY <1>2, <2>1, RowOpsTyped DEF Dispatch
<1>3. ASSUME NEW r \in Request, RequestStep(r) \/ TimedOut(r) PROVE TypeOK'
  <2>1. CASE RegisterRequest(r)
    <3>1. tracker[r] \in TrackerState
      OBVIOUS
    <3>2. [tracker[r] EXCEPT !.known = TRUE] \in TrackerState
      BY <3>1 DEF TrackerState
    <3>3. QED
      BY <2>1, <3>2 DEF RegisterRequest, Phase
  <2>2. CASE Stored(r) \/ Drained(r)
    BY <2>2 DEF Stored, Drained, Phase
  <2>3. CASE Completed(r) \/ TimedOut(r)
    BY <2>3 DEF Completed, TimedOut, IndexStatus, Phase, Answer
  <2>4. QED
    BY <1>3, <2>1, <2>2, <2>3 DEF RequestStep
<1>4. ASSUME NEW w \in Worker, StopWorker(w) \/ DequeueNone(w) \/ Process(w) \/ Finish(w)
      PROVE  TypeOK'
  BY <1>4 DEF StopWorker, DequeueNone, Process, Finish, Goto, PC, Holding, Failing, Marking, Ended
<1>f. ASSUME NEW w \in Worker, FailRead(w) PROVE TypeOK'
  <2>1. /\ UNCHANGED <<rows, orphans, msg, snap, phase, tracker, up, stop, faults, lapses, pub, idle>>
        /\ pc[w] \in Failing /\ \E label \in Failing : pc' = [pc EXCEPT ![w] = label]
    BY <1>f DEF FailRead, Goto, Failing
  <2>2. QED
    BY <2>1 DEF PC, Holding
<1>5. ASSUME NEW w \in Worker, DequeueRecover(w) PROVE TypeOK'
  BY <1>5, RowOpsTyped DEF DequeueRecover, Goto, PC, Holding, Failing, Marking, Ended
<1>6. ASSUME NEW w \in Worker, DequeueClaim(w) PROVE TypeOK'
  <2>1. \A m \in Msg : rows[m].attempts + 1 \in Nat
    BY DEF Row
  <2>2. QED
    BY <1>6, <2>1, RowOpsTyped DEF DequeueClaim, Goto, PC, Holding, Failing, Marking, Ended
<1>7. ASSUME NEW w \in Worker, Settles(w) PROVE TypeOK'
  BY <1>7, SettlesRow, SettleTyped
<1>8. ASSUME NEW w \in Worker, Mark(w) PROVE TypeOK'
  <2>1. tracker' \in [Request -> TrackerState]
    <3>1. msg[w] \in Msg
      BY <1>8 DEF Mark
    <3>2. CASE Tracked(RequestOf[msg[w]])
      <4>1. RequestOf[msg[w]] \in Request
        BY <3>1, <3>2 DEF Tracked
      <4>2. QED
        BY <1>8, <3>1, <3>2, <4>1, MarksTyped DEF Mark, Marking
    <3>3. QED
      BY <1>8, <3>2 DEF Mark
  <2>2. QED
    BY <1>8, <2>1 DEF Mark, Goto, PC, Holding, Failing, Marking, Ended
<1>9. ASSUME NEW w \in Worker, NEW label \in Ended, LeaveLoop(w, label)
      PROVE  /\ pc' \in [Worker -> PC] /\ msg' \in [Worker -> Msg \cup {None}]
             /\ snap' \in [Worker -> Nat] /\ orphans' \in [Msg -> Nat]
             /\ \A v \in Worker : pc'[v] \in Holding \cup Marking <=> msg'[v] # None
  <2>1. /\ pc' \in [Worker -> PC] /\ msg' \in [Worker -> Msg \cup {None}]
        /\ snap' \in [Worker -> Nat]
    BY <1>9 DEF LeaveLoop, Goto, PC, Holding, Failing, Marking, Ended
  <2>2. orphans' \in [Msg -> Nat]
    <3>1. CASE pc[w] \in Holding
      <4>1. msg[w] \in Msg /\ orphans[msg[w]] \in Nat
        BY <3>1
      <4>2. orphans[msg[w]] + 1 \in Nat
        BY <4>1
      <4>3. QED
        BY <1>9, <3>1, <4>1, <4>2 DEF LeaveLoop, Orphaned
    <3>2. QED
      BY <1>9, <3>1 DEF LeaveLoop, Orphaned
  <2>3. ASSUME NEW v \in Worker PROVE pc'[v] \in Holding \cup Marking <=> msg'[v] # None
    BY <1>9 DEF LeaveLoop, Goto, PC, Holding, Failing, Marking, Ended
  <2>4. QED
    BY <2>1, <2>2, <2>3
<1>10. ASSUME NEW w \in Worker, DatabaseError(w) PROVE TypeOK'
  <2>1. faults + 1 \in 0 .. MaxFaults
    BY <1>10 DEF DatabaseError
  <2>2. CASE LeaveLoop(w, "dead")
    BY <1>9, <1>10, <2>1, <2>2 DEF DatabaseError, Ended
  <2>3. CASE pc[w] = "releasing" /\ Goto(w, "failTransient")
    BY <1>10, <2>1, <2>3 DEF DatabaseError, Goto, PC, Holding, Failing, Marking
  <2>4. QED
    BY <1>10, <2>2, <2>3 DEF DatabaseError
<1>11. ASSUME NEW w \in Worker, Vanish(w) PROVE TypeOK'
  BY <1>9, <1>11 DEF Vanish, Ended
<1>12. ASSUME LoseMemory
       PROVE  /\ up' \in BOOLEAN /\ pub' \in [Msg -> {"unborn", "task", "lost", "queued"}]
              /\ phase' \in [Request -> Phase]
              /\ tracker' \in [Request -> TrackerState]
              /\ idle' \in [at : {"off", "draining", "asking", "checking", "returned"},
                            tasks : SUBSET Msg, quiet : BOOLEAN, before : SUBSET Msg]
  <2>1. NoState \in TrackerState
    BY DEF NoState, TrackerState
  <2>2. QED
    BY <1>12, <2>1 DEF LoseMemory, NoCall, Phase
<1>13. CASE Crash \/ Close \/ Exit
  <2>1. faults' \in 0 .. MaxFaults
    BY <1>13 DEF Crash, Close, Exit
  <2>2. CASE Crash
    BY <1>12, <2>1, <2>2 DEF Crash
  <2>3. CASE Close
    BY <2>1, <2>3 DEF Close
  <2>4. CASE Exit
    BY <1>12, <2>4 DEF Exit
  <2>5. QED
    BY <1>13, <2>2, <2>3, <2>4
<1>14. CASE Start
  <2>1. \A w \in Worker : msg[w] = None
    BY <1>14 DEF Start, Holding, Failing, Marking
  <2>2. QED
    BY <1>14, <2>1 DEF Start, PC, Holding, Failing, Marking
<1>15. CASE WaitIdle
  <2>1. Tasks \in SUBSET Msg /\ {m \in Msg : pub[m] # "unborn"} \in SUBSET Msg
    BY DEF Tasks
  <2>2. CASE CallWaitIdle
    BY <2>1, <2>2 DEF CallWaitIdle
  <2>3. CASE IdleDrained
    BY <2>3 DEF IdleDrained
  <2>4. CASE IdleStatus
    BY <2>4 DEF IdleStatus, Active
  <2>5. CASE IdleCheck
    BY <2>1, <2>5 DEF IdleCheck
  <2>6. QED
    BY <1>15, <2>2, <2>3, <2>4, <2>5 DEF WaitIdle
<1>16. CASE Tick
  <2>1. lapses' \in 0 .. MaxLapses
    BY <1>16 DEF Tick
  <2>2. QED
    BY <1>16, <2>1, RowOpsTyped DEF Tick
<1>17. CASE UNCHANGED vars
  BY <1>17 DEF vars
<1>18. QED
  BY <1>1, <1>2, <1>3, <1>4, <1>f, <1>5, <1>6, <1>7, <1>8, <1>10, <1>11, <1>13, <1>14, <1>15,
     <1>16, <1>17 DEF Next, WorkerStep, Settles

\* Type correctness of the model of the workers.
THEOREM TypeCorrect == Spec => []TypeOK
<1>1. Init => TypeOK
  <2> SUFFICES ASSUME Init PROVE TypeOK
    OBVIOUS
  <2> USE WorkerAssumption DEF Init
  <2>1. rows \in [Msg -> Row]
    BY RowOpsTyped
  <2>2. /\ pc \in [Worker -> PC] /\ msg \in [Worker -> Msg \cup {None}]
        /\ \A w \in Worker : pc[w] \in Holding \cup Marking <=> msg[w] # None
    BY DEF PC, Holding, Failing, Marking
  <2>3. tracker \in [Request -> TrackerState] /\ phase \in [Request -> Phase]
    BY DEF NoState, TrackerState, Phase
  <2>4. idle \in [at : {"off", "draining", "asking", "checking", "returned"},
                 tasks : SUBSET Msg, quiet : BOOLEAN, before : SUBSET Msg]
    BY DEF NoCall
  <2>5. faults \in 0 .. MaxFaults /\ lapses \in 0 .. MaxLapses
    OBVIOUS
  <2>6. snap \in [Worker -> Nat] /\ orphans \in [Msg -> Nat]
    OBVIOUS
  <2>7. pub \in [Msg -> {"unborn", "task", "lost", "queued"}]
    OBVIOUS
  <2>8. QED
    BY <2>1, <2>2, <2>3, <2>4, <2>5, <2>6, <2>7 DEF TypeOK
<1>2. QED
  BY <1>1, TypeStep, PTL DEF Spec

-------------------------------------------------------------------------------
(* The workers as consumers of the persistent queue. *)

\* No statement of a worker inserts or deletes a row.
Kept(r, s) == (Exists(r) <=> Exists(s)) /\ (r.status # "gone" => s.status # "gone")

LEMMA RowOpsKeepRow ==
  ASSUME NEW r \in Row
  PROVE  /\ Exists(r) => Kept(r, ClaimRow(r))
         /\ Kept(r, AckRow(r)) /\ Kept(r, RecoverRow(r)) /\ Kept(r, AgeRow(r))
         /\ \A d \in Nat : Kept(r, ReleaseRow(r, d))
         /\ Kept(r, FailRow(r)) /\ \A d \in Nat : Kept(r, RetryRow(r, d))
<1> USE DEF Exists, Kept, Row
<1>1. Exists(r) => Kept(r, ClaimRow(r))
  BY DEF ClaimRow
<1>2. Kept(r, AckRow(r))
  BY DEF AckRow
<1>3. Kept(r, RecoverRow(r))
  BY DEF RecoverRow, Stale
<1>4. Kept(r, AgeRow(r))
  BY DEF AgeRow
<1>5. ASSUME NEW d \in Nat PROVE Kept(r, ReleaseRow(r, d))
  BY DEF ReleaseRow
<1>6. Kept(r, FailRow(r)) /\ \A d \in Nat : Kept(r, RetryRow(r, d))
  BY DEF FailRow, RetryRow
<1>7. QED
  BY <1>1, <1>2, <1>3, <1>4, <1>5, <1>6

\* A step that leaves the way of the events alone and no row appears or goes.
LEMMA PublishKept ==
  ASSUME PublishInv, UNCHANGED <<pub, phase>>, \A m \in Msg : Kept(rows[m], rows'[m]),
         \A w \in Worker : msg'[w] \in {msg[w], None}
  PROVE  PublishInv'
<1>1. \A m \in Msg : /\ rows[m].status = "absent" <=> rows'[m].status = "absent"
                     /\ rows'[m].status # "gone"
  BY DEF PublishInv, Kept, Exists
<1>2. QED
  BY <1>1 DEF PublishInv

\* Publishing and dispatch keep the order of events, and phases their meaning.
LEMMA PublishStep == TypeOK /\ PublishInv /\ [Next]_vars => PublishInv'
<1> SUFFICES ASSUME TypeOK, PublishInv, [Next]_vars PROVE PublishInv'
  OBVIOUS
<1> USE WorkerAssumption DEF queueVars, workerVars, clientVars, lifeVars, Goto
<1>r. \A m \in Msg : rows[m] \in Row /\ Kept(rows[m], rows[m])
  BY DEF TypeOK, Kept
<1>1. ASSUME NEW m \in Msg, Publish(m) PROVE PublishInv'
  BY <1>1 DEF Publish, PublishInv, TypeOK
<1>2. ASSUME NEW m \in Msg, Dispatch(m) PROVE PublishInv'
  <2>1. /\ pub[m] = "task" /\ rows'[m] = EnqueueRow /\ pub'[m] = "queued" /\ phase' = phase
        /\ \A n \in Msg : n # m => rows'[n] = rows[n] /\ pub'[n] = pub[n]
    BY <1>2 DEF Dispatch, TypeOK
  <2>2. \A n \in Msg : /\ pub'[n] = "queued" <=> rows'[n].status # "absent"
                       /\ rows'[n].status # "gone"
    BY <2>1 DEF PublishInv, EnqueueRow, NoRow
  <2>3. ASSUME NEW k \in Msg, NEW n \in Msg, pub'[n] = "queued", pub'[k] = "task" PROVE n < k
    <3>1. k # m /\ pub[k] = "task" /\ m <= k
      BY <1>2, <2>1, <2>3 DEF Dispatch, Tasks
    <3>2. CASE n = m
      BY <3>1, <3>2
    <3>3. CASE n # m
      BY <2>1, <2>3, <3>1, <3>3 DEF PublishInv
    <3>4. QED
      BY <3>2, <3>3
  <2>4. ASSUME NEW n \in Msg, NEW r \in Request, RequestOf[n] = r
        PROVE  /\ phase'[r] = "new" => pub'[n] = "unborn"
               /\ pub'[n] = "task" => phase'[r] \notin {"waiting", "ready", "gone"}
    BY <2>1, <2>4 DEF PublishInv
  <2>5. ASSUME NEW w \in Worker, msg'[w] # None PROVE pub'[msg'[w]] = "queued"
    BY <1>2, <2>1, <2>5 DEF PublishInv, Dispatch, TypeOK
  <2>6. QED
    BY <2>2, <2>3, <2>4, <2>5 DEF PublishInv
<1>3. ASSUME NEW m \in Msg, DispatchFails(m) PROVE PublishInv'
  BY <1>3 DEF DispatchFails, PublishInv, TypeOK
<1>4. ASSUME NEW r \in Request, RequestStep(r) \/ TimedOut(r) PROVE PublishInv'
  BY <1>4 DEF RequestStep, TimedOut, RegisterRequest, Stored, Drained, Completed, Tasks,
              IndexStatus, PublishInv, TypeOK
<1>5. ASSUME NEW w \in Worker, DequeueRecover(w) PROVE PublishInv'
  BY <1>5, <1>r, PublishKept, RowOpsKeepRow DEF DequeueRecover
<1>6. ASSUME NEW w \in Worker, DequeueClaim(w) PROVE PublishInv'
  <2>1. PICK m \in Msg : /\ Claimable(rows[m]) /\ rows' = [rows EXCEPT ![m] = ClaimRow(@)]
                         /\ msg' = [msg EXCEPT ![w] = m]
    BY <1>6 DEF DequeueClaim
  <2>2. Kept(rows[m], ClaimRow(rows[m]))
    BY <1>r, <2>1, RowOpsKeepRow DEF Claimable, Exists
  <2>3. \A n \in Msg : Kept(rows[n], rows'[n])
    BY <1>r, <2>1, <2>2 DEF TypeOK
  <2>4. \A n \in Msg : /\ rows[n].status = "absent" <=> rows'[n].status = "absent"
                       /\ rows'[n].status # "gone"
    BY <2>3 DEF PublishInv, Kept, Exists
  <2>5. \A v \in Worker : msg'[v] # None => pub[msg'[v]] = "queued"
    <3>1. pub[m] = "queued"
      BY <2>1 DEF PublishInv, Claimable
    <3>2. QED
      BY <2>1, <3>1 DEF PublishInv, TypeOK
  <2>6. QED
    BY <1>6, <2>4, <2>5 DEF PublishInv, DequeueClaim
<1>7. ASSUME NEW w \in Worker, msg[w] \in Msg, NEW r, NEW label,
             SettleRow(w, r, label), Kept(rows[msg[w]], r)
      PROVE  PublishInv'
  BY <1>7, <1>r, PublishKept DEF SettleRow, TypeOK
<1>8. ASSUME NEW w \in Worker, Settles(w) PROVE PublishInv'
  <2>1. msg[w] \in Msg
    BY <1>8, SettlesRow
  <2>2. QED
    BY <1>7, <1>8, <1>r, <2>1, RowOpsKeepRow DEF Settles, Ack, Requeue, Exhaust, GiveUp, Release
<1>9. ASSUME NEW w \in Worker,
             StopWorker(w) \/ DequeueNone(w) \/ Process(w) \/ Finish(w) \/ FailRead(w)
             \/ Mark(w) \/ DatabaseError(w) \/ Vanish(w)
      PROVE  PublishInv'
  BY <1>9, <1>r, PublishKept
     DEF StopWorker, DequeueNone, Process, Finish, FailRead, Mark, DatabaseError, Vanish,
         LeaveLoop, TypeOK
<1>10. CASE Crash \/ Exit
  <2>1. /\ pub' = [m \in Msg |-> IF pub[m] = "task" THEN "lost" ELSE pub[m]]
        /\ phase' = [r \in Request |-> IF phase[r] \in {"storing", "draining", "waiting"}
                                        THEN "gone" ELSE phase[r]]
    BY <1>10 DEF Crash, Exit, LoseMemory
  <2>2. UNCHANGED <<rows, msg>>
    BY <1>10 DEF Crash, Exit, LoseMemory, queueVars, workerVars
  <2>3. \A m \in Msg : /\ pub'[m] # "task"
                       /\ \A s \in {"queued", "unborn"} : pub'[m] = s <=> pub[m] = s
    BY <2>1
  <2>4. QED
    BY <2>1, <2>2, <2>3 DEF PublishInv, TypeOK
<1>11. CASE Close \/ Start \/ WaitIdle \/ UNCHANGED vars
  BY <1>11, <1>r, PublishKept
     DEF Close, Start, WaitIdle, CallWaitIdle, IdleDrained, IdleStatus, IdleCheck, vars
<1>12. CASE Tick
  BY <1>12, <1>r, PublishKept, RowOpsKeepRow DEF Tick
<1>13. QED
  BY <1>1, <1>2, <1>3, <1>4, <1>5, <1>6, <1>8, <1>9, <1>10, <1>11, <1>12
     DEF Next, WorkerStep, Settles

THEOREM PublishInvAlways == Spec => []PublishInv
<1>1. Init => PublishInv
  BY DEF Init, PublishInv, NoRow
<1>2. QED
  BY <1>1, PublishStep, TypeCorrect, PTL DEF Spec

-------------------------------------------------------------------------------
\* Every fault leaves at most one claim of each worker behind.
LEMMA OrphansKept ==
  ASSUME OrphanInv, TypeOK, UNCHANGED <<orphans, faults>>, AtRisk' \subseteq AtRisk
  PROVE  OrphanInv'
<1>1. Cardinality(AtRisk') <= Cardinality(AtRisk) /\ Cardinality(AtRisk') \in Nat
  BY AtRiskCounted, FS_Subset, FS_CardinalityType
<1>2. faults * Cardinality(Worker) \in Nat /\ \A m \in Msg : orphans[m] \in Nat
  BY AtRiskCounted, OneMoreFault DEF TypeOK
<1>3. QED
  BY <1>1, <1>2, AtRiskCounted DEF OrphanInv

LEMMA OrphanStep == TypeOK /\ OrphanInv /\ [Next]_vars => OrphanInv'
<1> SUFFICES ASSUME TypeOK, OrphanInv, [Next]_vars PROVE OrphanInv'
  OBVIOUS
<1> USE DEF queueVars, workerVars, clientVars, lifeVars, Goto
<1>0. /\ faults \in Nat /\ faults * Cardinality(Worker) \in Nat
      /\ (faults + 1) * Cardinality(Worker) = faults * Cardinality(Worker) + Cardinality(Worker)
      /\ Cardinality(Worker) \in Nat /\ Cardinality({}) = 0
      /\ \A m \in Msg : orphans[m] \in Nat
  BY AtRiskCounted, OneMoreFault, FS_EmptySet DEF TypeOK
\* Workers that are not at risk of leaving a claim behind do not become so.
<1>1. ASSUME UNCHANGED <<up, stop, orphans, faults>>,
             \A w \in Worker : pc[w] \in Ended => pc'[w] \in Ended
      PROVE  OrphanInv'
  BY <1>1, OrphansKept DEF AtRisk
<1>2. ASSUME NEW m \in Msg, Publish(m) \/ Dispatch(m) PROVE OrphanInv'
  BY <1>1, <1>2 DEF Publish, Dispatch
<1>3. ASSUME NEW r \in Request, RequestStep(r) \/ TimedOut(r) PROVE OrphanInv'
  BY <1>1, <1>3 DEF RequestStep, TimedOut, RegisterRequest, Stored, Drained, Completed
<1>4. ASSUME NEW w \in Worker, WorkerStep(w) PROVE OrphanInv'
  <2>1. UNCHANGED <<up, stop, orphans, faults>>
    BY <1>4 DEF WorkerStep, StopWorker, DequeueRecover, DequeueClaim, DequeueNone, Process,
                Finish, Ack, FailRead, Requeue, Exhaust, GiveUp, Release, SettleRow, Mark
  <2>2. pc[w] \notin Ended /\ \A v \in Worker : v # w => pc'[v] = pc[v]
    BY <1>4 DEF WorkerStep, StopWorker, DequeueRecover, DequeueClaim, DequeueNone, Process,
                Finish, Ack, FailRead, Requeue, Exhaust, GiveUp, Release, SettleRow, Mark,
                Marking, Ended, TypeOK
  <2>3. QED
    BY <1>1, <2>1, <2>2
<1>5. CASE WaitIdle
  BY <1>1, <1>5 DEF WaitIdle, CallWaitIdle, IdleDrained, IdleStatus, IdleCheck
\* A fault makes room for one claim of each worker.
<1>6. ASSUME faults' = faults + 1,
             \A m \in Msg : /\ orphans'[m] \in Nat
                            /\ orphans'[m] + Cardinality(AtRisk')
                                 <= orphans[m] + Cardinality(AtRisk) + Cardinality(Worker)
      PROVE  OrphanInv'
  <2>1. IsFiniteSet(AtRisk')
    BY WorkerAssumption, FS_Subset DEF AtRisk
  <2>2. Cardinality(AtRisk) \in Nat /\ Cardinality(AtRisk') \in Nat
    BY <2>1, AtRiskCounted, FS_CardinalityType
  <2>3. \A m \in Msg : orphans[m] + Cardinality(AtRisk) <= faults * Cardinality(Worker)
    BY DEF OrphanInv
  <2>4. \A m \in Msg : orphans'[m] + Cardinality(AtRisk') <= (faults + 1) * Cardinality(Worker)
    BY <1>0, <1>6, <2>2, <2>3
  <2>5. QED
    BY <1>6, <2>4 DEF OrphanInv
\* It leaves the claims alone, and no more than all workers at risk.
<1>7. ASSUME faults' = faults + 1, orphans' = orphans,
             AtRisk' = AtRisk \/ AtRisk = {}
      PROVE  OrphanInv'
  <2>1. IsFiniteSet(AtRisk') /\ AtRisk' \subseteq Worker
    BY WorkerAssumption, FS_Subset DEF AtRisk
  <2>2. Cardinality(AtRisk') \in 0 .. Cardinality(Worker) /\ Cardinality(AtRisk) \in Nat
    BY <2>1, WorkerAssumption, AtRiskCounted, FS_Subset, FS_CardinalityType
  <2>3. Cardinality(AtRisk') <= Cardinality(AtRisk) + Cardinality(Worker)
    BY <1>0, <1>7, <2>2
  <2>4. QED
    BY <1>0, <1>6, <1>7, <2>2, <2>3
<1>8. CASE Close \/ Crash
  BY <1>7, <1>8 DEF Close, Crash, LoseMemory, AtRisk
<1>9. ASSUME NEW m \in Msg, DispatchFails(m) PROVE OrphanInv'
  BY <1>7, <1>9 DEF DispatchFails, AtRisk
<1>10. ASSUME NEW w \in Worker, DatabaseError(w) PROVE OrphanInv'
  <2>1. Cardinality(Worker) > 0
    BY <1>0, WorkerAssumption, FS_EmptySet
  <2>2. \A m \in Msg : orphans'[m] \in {orphans[m], orphans[m] + 1}
    BY <1>10 DEF DatabaseError, LeaveLoop, Orphaned, TypeOK
  <2>3. AtRisk' \subseteq AtRisk
    BY <1>10 DEF DatabaseError, LeaveLoop, AtRisk, Failing, Ended, TypeOK
  <2>4. Cardinality(AtRisk') <= Cardinality(AtRisk) /\ Cardinality(AtRisk') \in Nat
    BY <2>3, AtRiskCounted, FS_Subset, FS_CardinalityType
  <2>5. Cardinality(AtRisk) \in Nat
    BY AtRiskCounted
  <2>6. ASSUME NEW m \in Msg
        PROVE  /\ orphans'[m] \in Nat
               /\ orphans'[m] + Cardinality(AtRisk')
                    <= orphans[m] + Cardinality(AtRisk) + Cardinality(Worker)
    BY <1>0, <2>1, <2>2, <2>4, <2>5
  <2>7. QED
    BY <1>6, <1>10, <2>6 DEF DatabaseError
<1>11. CASE Exit
  BY <1>11, OrphansKept DEF Exit, LoseMemory, AtRisk
<1>12. ASSUME NEW w \in Worker, Vanish(w) PROVE OrphanInv'
  <2>1. CASE pc[w] \in Holding
    <3>1. AtRisk' = AtRisk \ {w} /\ w \in AtRisk
      BY <1>12, <2>1 DEF Vanish, LeaveLoop, AtRisk, Holding, Failing, Ended, TypeOK
    <3>2. Cardinality(AtRisk') = Cardinality(AtRisk) - 1
      BY <3>1, AtRiskCounted, FS_RemoveElement
    <3>3. \A m \in Msg : orphans'[m] \in {orphans[m], orphans[m] + 1}
      BY <1>12 DEF Vanish, LeaveLoop, Orphaned, TypeOK
    <3>4. faults' = faults
      BY <1>12 DEF Vanish
    <3>5. Cardinality(AtRisk) \in Nat
      BY AtRiskCounted
    <3>6. QED
      BY <1>0, <3>2, <3>3, <3>4, <3>5 DEF OrphanInv
  <2>2. CASE pc[w] \notin Holding
    <3>1. AtRisk' \subseteq AtRisk
      BY <1>12, <2>2 DEF Vanish, LeaveLoop, AtRisk, Ended, TypeOK
    <3>2. QED
      BY <1>12, <2>2, <3>1, OrphansKept DEF Vanish, LeaveLoop, Orphaned
  <2>3. QED
    BY <2>1, <2>2
<1>13. CASE Start
  BY <1>13, OrphansKept DEF Start, AtRisk
<1>14. CASE Tick \/ UNCHANGED vars
  BY <1>14, OrphansKept DEF Tick, vars, AtRisk
<1>15. QED
  BY <1>2, <1>3, <1>4, <1>5, <1>7, <1>8, <1>9, <1>10, <1>11, <1>12, <1>13, <1>14 DEF Next

LEMMA OrphanInvAlways == Spec => []OrphanInv
<1>1. Init => OrphanInv
  <2>1. ASSUME Init PROVE OrphanInv
    <3>1. AtRisk = {} /\ faults = 0 /\ \A m \in Msg : orphans[m] = 0
      BY <2>1 DEF Init, AtRisk
    <3>2. Cardinality({}) = 0 /\ 0 * Cardinality(Worker) = 0
      BY FS_EmptySet, AtRiskCounted
    <3>3. QED
      BY <3>1, <3>2 DEF OrphanInv
  <2>2. QED
    BY <2>1
<1>2. QED
  BY <1>1, OrphanStep, TypeCorrect, PTL DEF Spec

-------------------------------------------------------------------------------
(* The workers are consumers of the persistent queue: every step of the     *)
(* pipeline is a step of CFSQueue or leaves the table and the claims alone. *)

\* What a worker claims follows from where it is, and changes with it alone.
LEMMA ClaimOf ==
  ASSUME NEW w \in Worker
  PROVE  /\ pc[w] \in Holding => Claim[w] = msg[w]
         /\ pc[w] = "scanning" => Claim[w] = Scanning
         /\ pc[w] \notin Holding \cup {"scanning"} => Claim[w] = Free
BY DEF Claim, Holding, Failing

LEMMA ClaimOfHolder ==
  ASSUME TypeOK, NEW w \in Worker
  PROVE  Claim[w] \in Msg <=> pc[w] \in Holding
BY ConsumerAssumption DEF TypeOK, Claim, Holding, Failing

LEMMA ClaimMoves ==
  ASSUME NEW w \in Worker, \A v \in Worker : v # w => pc'[v] = pc[v] /\ msg'[v] = msg[v]
  PROVE  Claim' = [Claim EXCEPT ![w] = IF pc'[w] \in Holding THEN msg'[w]
                                       ELSE IF pc'[w] = "scanning" THEN Scanning
                                       ELSE Free]
BY DEF Claim

LEMMA ClaimStays ==
  ASSUME \A w \in Worker :
            \/ pc'[w] = pc[w] /\ msg'[w] = msg[w]
            \/ pc[w] \in Holding /\ pc'[w] \in Holding /\ msg'[w] = msg[w]
            \/ {pc[w], pc'[w]} \cap (Holding \cup {"scanning"}) = {}
  PROVE  Claim' = Claim
<1>1. ASSUME NEW w \in Worker PROVE Claim'[w] = Claim[w]
  BY DEF Claim, Holding, Failing
<1>2. QED
  BY <1>1 DEF Claim

\* So does what it has read of the row of an event that failed.
Read == {"requeueing", "exhausting", "givingUp"}

LEMMA VerdictOf ==
  ASSUME NEW w \in Worker
  PROVE  /\ pc[w] = "requeueing" => Verdict[w] = "retry"
         /\ pc[w] \in {"exhausting", "givingUp"} => Verdict[w] = "fail"
         /\ pc[w] \notin Read => Verdict[w] = "none"
BY DEF Verdict, Read

LEMMA VerdictMoves ==
  ASSUME NEW w \in Worker, \A v \in Worker : v # w => pc'[v] = pc[v]
  PROVE  /\ pc'[w] = "requeueing" => Verdict' = [Verdict EXCEPT ![w] = "retry"]
         /\ pc'[w] \in {"exhausting", "givingUp"} => Verdict' = [Verdict EXCEPT ![w] = "fail"]
         /\ pc'[w] \notin Read => Verdict' = [Verdict EXCEPT ![w] = "none"]
BY DEF Verdict, Read

LEMMA VerdictStays ==
  ASSUME \A w \in Worker : pc'[w] = pc[w] \/ {pc[w], pc'[w]} \cap Read = {}
  PROVE  Verdict' = Verdict
<1>1. ASSUME NEW w \in Worker PROVE Verdict'[w] = Verdict[w]
  BY DEF Verdict, Read
<1>2. QED
  BY <1>1 DEF Verdict

\* The bound of CFSQueue on abandoned claims is never in the way of one.
LEMMA RoomForOrphan ==
  ASSUME TypeOK, OrphanInv, NEW m \in Msg,
         (up /\ faults < MaxFaults /\ Worker # {}) \/ AtRisk # {}
  PROVE  orphans[m] < MaxFaults * Cardinality(Worker)
<1>1. /\ faults \in Nat /\ MaxFaults \in Nat /\ faults <= MaxFaults
      /\ Cardinality(Worker) \in Nat /\ Cardinality(AtRisk) \in Nat /\ orphans[m] \in Nat
      /\ orphans[m] + Cardinality(AtRisk) <= faults * Cardinality(Worker)
  BY WorkerAssumption, AtRiskCounted DEF TypeOK, OrphanInv
<1>2. \A f, g, n \in Nat : f <= g => f * n <= g * n /\ f * n \in Nat /\ g * n \in Nat
  OBVIOUS
<1>3. CASE AtRisk # {}
  <2>1. Cardinality(AtRisk) # 0
    BY <1>3, AtRiskCounted, FS_EmptySet
  <2>2. faults * Cardinality(Worker) <= MaxFaults * Cardinality(Worker)
    BY <1>1, <1>2
  <2>3. faults * Cardinality(Worker) \in Nat /\ MaxFaults * Cardinality(Worker) \in Nat
    BY <1>1, <1>2
  <2>4. \A o, a, x, y \in Nat : o + a <= x /\ a # 0 /\ x <= y => o < y
    OBVIOUS
  <2>5. QED
    BY <1>1, <2>1, <2>2, <2>3, <2>4, Zenon
<1>4. CASE faults < MaxFaults /\ Worker # {}
  <2>1. Cardinality(Worker) # 0
    BY <1>4, WorkerAssumption, FS_EmptySet
  <2>2. (faults + 1) * Cardinality(Worker) <= MaxFaults * Cardinality(Worker)
    BY <1>1, <1>2, <1>4
  <2>3. /\ (faults + 1) * Cardinality(Worker) = faults * Cardinality(Worker) + Cardinality(Worker)
        /\ faults * Cardinality(Worker) \in Nat /\ MaxFaults * Cardinality(Worker) \in Nat
    BY <1>1, <1>2, OneMoreFault
  <2>4. QED
    BY <1>1, <2>1, <2>2, <2>3
<1>5. QED
  BY <1>3, <1>4

LEMMA QueueStepSimulated ==
  ASSUME TypeOK, PublishInv, OrphanInv, [Next]_vars
  PROVE  Queue!Next \/ UNCHANGED Queue!vars
<1> USE DEF queueVars, workerVars, clientVars, lifeVars, Goto
<1>0. UNCHANGED <<rows, orphans, lapses, Claim, Verdict>> => UNCHANGED Queue!vars
  BY DEF Queue!vars
<1>1. UNCHANGED <<pc, msg>> => Claim' = Claim /\ Verdict' = Verdict
  BY ClaimStays, VerdictStays
<1>2. ASSUME NEW m \in Msg, Publish(m) \/ DispatchFails(m) PROVE UNCHANGED Queue!vars
  BY <1>0, <1>1, <1>2 DEF Publish, DispatchFails
<1>3. ASSUME NEW m \in Msg, Dispatch(m) PROVE Queue!Enqueue(m)
  <2>1. pub[m] = "task" /\ rows' = [rows EXCEPT ![m] = EnqueueRow]
    BY <1>3 DEF Dispatch
  <2>2. rows[m].status = "absent" /\ \A n \in Msg : rows[n].status # "absent" => n < m
    BY <2>1 DEF PublishInv
  <2>3. UNCHANGED <<Claim, Verdict, orphans, lapses>>
    BY <1>1, <1>3 DEF Dispatch
  <2>4. QED
    BY <2>1, <2>2, <2>3 DEF Queue!Enqueue, Queue!EnqueueRow, Queue!NoRow, EnqueueRow, NoRow
<1>4. ASSUME NEW r \in Request, RequestStep(r) \/ TimedOut(r) PROVE UNCHANGED Queue!vars
  <2>1. UNCHANGED <<rows, orphans, lapses, pc, msg>>
    BY <1>4 DEF RequestStep, TimedOut, RegisterRequest, Stored, Drained, Completed
  <2>2. QED
    BY <1>0, <1>1, <2>1
<1>5. ASSUME NEW w \in Worker, DequeueRecover(w) PROVE Queue!DequeueRecover(w)
  <2>1. Claim[w] = Free /\ Claim' = [Claim EXCEPT ![w] = Scanning]
    BY <1>5, ClaimOf, ClaimMoves DEF DequeueRecover, TypeOK, Holding, Failing
  <2>2. Verdict' = Verdict
    BY <1>5, VerdictStays DEF DequeueRecover, TypeOK, Read
  <2>3. QED
    BY <1>5, <2>1, <2>2 DEF DequeueRecover, Queue!DequeueRecover, Queue!RecoverRow, Queue!Stale,
                      RecoverRow, Stale
<1>6. ASSUME NEW w \in Worker, DequeueClaim(w) PROVE Queue!DequeueClaim(w)
  <2>1. PICK m \in Msg : /\ Claimable(rows[m])
                         /\ \A n \in Msg : Claimable(rows[n]) => m <= n
                         /\ rows' = [rows EXCEPT ![m] = ClaimRow(@)]
                         /\ msg' = [msg EXCEPT ![w] = m]
    BY <1>6 DEF DequeueClaim
  <2>2. Claim[w] = Scanning /\ Claim' = [Claim EXCEPT ![w] = m]
    BY <1>6, <2>1, ClaimOf, ClaimMoves DEF DequeueClaim, TypeOK, Holding, Failing
  <2>3. Queue!Oldest(m)
    BY <2>1 DEF Queue!Oldest, Queue!Claimable, Claimable
  <2>4. rows' = [rows EXCEPT ![m] = Queue!ClaimRow(@)]
    BY <2>1 DEF Queue!ClaimRow, ClaimRow
  <2>5. UNCHANGED <<Verdict, orphans, lapses>>
    BY <1>6, VerdictStays DEF DequeueClaim, TypeOK, Read
  <2>6. QED
    BY <2>2, <2>3, <2>4, <2>5 DEF Queue!DequeueClaim
<1>7. ASSUME NEW w \in Worker, DequeueNone(w) PROVE Queue!DequeueNone(w)
  <2>1. Claim[w] = Scanning /\ Claim' = [Claim EXCEPT ![w] = Free]
    BY <1>7, ClaimOf, ClaimMoves DEF DequeueNone, TypeOK, Holding, Failing
  <2>2. Verdict' = Verdict
    BY <1>7, VerdictStays DEF DequeueNone, TypeOK, Read
  <2>3. QED
    BY <1>7, <2>1, <2>2 DEF DequeueNone, Queue!DequeueNone, Queue!Claimable, Claimable
<1>8. ASSUME NEW w \in Worker, pc[w] \in Holding, NEW r, NEW label \in Marking,
             SettleRow(w, r, label)
      PROVE  msg[w] \in Msg /\ Queue!Settle(w, msg[w], r)
  <2>1. msg[w] \in Msg /\ Claim[w] = msg[w]
    BY <1>8, ClaimOf DEF TypeOK
  <2>2. /\ pc'[w] \notin Holding \cup Read /\ pc'[w] # "scanning"
        /\ \A v \in Worker : v # w => pc'[v] = pc[v] /\ msg'[v] = msg[v]
    BY <1>8 DEF SettleRow, TypeOK, Marking, Holding, Failing, Read
  <2>3. Claim' = [Claim EXCEPT ![w] = Free]
    BY <2>2, ClaimMoves
  <2>4. Verdict' = [Verdict EXCEPT ![w] = "none"]
    BY <2>2, VerdictMoves
  <2>5. QED
    BY <1>8, <2>1, <2>3, <2>4 DEF SettleRow, Queue!Settle
<1>9. ASSUME NEW w \in Worker, Ack(w) PROVE Queue!ConsumerStep(w)
  <2>1. msg[w] \in Msg /\ Queue!Settle(w, msg[w], AckRow(rows[msg[w]]))
    BY <1>8, <1>9 DEF Ack, Holding, Failing, Marking
  <2>2. Verdict[w] = "none"
    BY <1>9, VerdictOf DEF Ack, Read
  <2>3. Queue!Ack(w, msg[w])
    BY <2>1, <2>2 DEF Queue!Ack, Queue!AckRow, Queue!Exists, AckRow, Exists
  <2>4. QED
    BY <2>1, <2>3 DEF Queue!ConsumerStep
<1>10. ASSUME NEW w \in Worker, FailRead(w) PROVE Queue!ConsumerStep(w)
  <2>1. /\ pc[w] \in {"failTransient", "failForGood"} /\ msg[w] \in Msg
        /\ Claim[w] = msg[w] /\ Verdict[w] = "none"
    BY <1>10, ClaimOf, VerdictOf DEF FailRead, TypeOK, Holding, Failing, Read
  <2>2. Queue!Exists(rows[msg[w]])
    BY <2>1 DEF PublishInv, Queue!Exists, TypeOK, Holding, Failing
  <2>3. Claim' = Claim
    BY <1>10, <2>1, ClaimStays DEF FailRead, TypeOK, Holding, Failing
  <2>4. \A v \in Worker : v # w => pc'[v] = pc[v]
    BY <1>10 DEF FailRead, TypeOK
  <2>5. \A retry \in BOOLEAN : Queue!ShouldRetry(rows[msg[w]], retry)
                                <=> ShouldRetry(rows[msg[w]], retry)
    BY DEF Queue!ShouldRetry, ShouldRetry
  <2>6. CASE pc[w] = "failTransient"
    <3>1. pc'[w] = IF ShouldRetry(rows[msg[w]], TRUE) THEN "requeueing" ELSE "exhausting"
      BY <1>10, <2>6 DEF FailRead, TypeOK
    <3>2. Verdict' = [Verdict EXCEPT ![w] = IF ShouldRetry(rows[msg[w]], TRUE) THEN "retry"
                                            ELSE "fail"]
      BY <2>4, <3>1, VerdictMoves
    <3>3. Queue!FailRead(w, msg[w])
      BY <1>10, <2>1, <2>2, <2>3, <2>5, <3>2 DEF FailRead, Queue!FailRead
    <3>4. QED
      BY <2>1, <3>3 DEF Queue!ConsumerStep
  <2>7. CASE pc[w] = "failForGood"
    <3>1. pc'[w] = "givingUp"
      BY <1>10, <2>7 DEF FailRead, TypeOK
    <3>2. Verdict' = [Verdict EXCEPT ![w] = "fail"] /\ ~ShouldRetry(rows[msg[w]], FALSE)
      BY <2>4, <3>1, VerdictMoves DEF ShouldRetry
    <3>3. Queue!FailRead(w, msg[w])
      BY <1>10, <2>1, <2>2, <2>3, <2>5, <3>2 DEF FailRead, Queue!FailRead
    <3>4. QED
      BY <2>1, <3>3 DEF Queue!ConsumerStep
  <2>8. QED
    BY <2>1, <2>6, <2>7
<1>11. ASSUME NEW w \in Worker, Requeue(w) \/ Exhaust(w) \/ GiveUp(w)
       PROVE  Queue!ConsumerStep(w)
  <2>1. \A r, d : FailRow(r) = Queue!FailRow(r) /\ RetryRow(r, d) = Queue!RetryRow(r, d)
    BY DEF FailRow, RetryRow, Exists, Queue!FailRow, Queue!RetryRow, Queue!Exists
  <2>2. CASE Requeue(w)
    <3>1. msg[w] \in Msg /\ Queue!Settle(w, msg[w], RetryRow(rows[msg[w]], RetryDelay))
      BY <1>8, <2>2 DEF Requeue, RetryMark, Holding, Failing, Marking
    <3>2. Verdict[w] = "retry"
      BY <2>2, VerdictOf DEF Requeue
    <3>3. Queue!Fail(w, msg[w])
      BY <2>1, <3>1, <3>2 DEF Queue!Fail
    <3>4. QED
      BY <3>1, <3>3 DEF Queue!ConsumerStep
  <2>3. CASE Exhaust(w) \/ GiveUp(w)
    <3>1. msg[w] \in Msg /\ Queue!Settle(w, msg[w], FailRow(rows[msg[w]]))
      BY <1>8, <2>3 DEF Exhaust, GiveUp, RetryMark, Holding, Failing, Marking
    <3>2. Verdict[w] = "fail"
      BY <2>3, VerdictOf DEF Exhaust, GiveUp
    <3>3. Queue!Fail(w, msg[w])
      BY <2>1, <3>1, <3>2 DEF Queue!Fail
    <3>4. QED
      BY <3>1, <3>3 DEF Queue!ConsumerStep
  <2>4. QED
    BY <1>11, <2>2, <2>3
<1>12. ASSUME NEW w \in Worker, Release(w) PROVE Queue!ConsumerStep(w)
  <2>1. msg[w] \in Msg /\ Queue!Settle(w, msg[w], ReleaseRow(rows[msg[w]], LockedDelay))
    BY <1>8, <1>12 DEF Release, Holding, Failing, Marking
  <2>2. Verdict[w] = "none"
    BY <1>12, VerdictOf DEF Release, Read
  <2>3. Queue!Release(w, msg[w])
    BY <2>1, <2>2 DEF Queue!Release, Queue!ReleaseRow, ReleaseRow
  <2>4. QED
    BY <2>1, <2>3 DEF Queue!ConsumerStep
<1>13. ASSUME NEW w \in Worker, StopWorker(w) \/ Process(w) \/ Finish(w) \/ Mark(w)
       PROVE  UNCHANGED Queue!vars
  <2>1. Verdict' = Verdict
    BY <1>13, VerdictStays DEF StopWorker, Process, Finish, Mark, TypeOK, Read, Marking
  <2>2. CASE StopWorker(w)
    BY <1>0, <2>1, <2>2, ClaimStays DEF StopWorker, TypeOK, Holding, Failing
  <2>3. CASE Process(w)
    BY <1>0, <2>1, <2>3, ClaimStays DEF Process, TypeOK, Holding, Failing
  <2>4. CASE Finish(w)
    BY <1>0, <2>1, <2>4, ClaimStays DEF Finish, TypeOK, Holding, Failing
  <2>5. CASE Mark(w)
    BY <1>0, <2>1, <2>5, ClaimStays DEF Mark, TypeOK, Holding, Failing, Marking
  <2>6. QED
    BY <1>13, <2>2, <2>3, <2>4, <2>5
\* A worker that leaves its loop abandons what it claims.
<1>14. ASSUME NEW w \in Worker, NEW label \in {"dead", "down"}, LeaveLoop(w, label),
              UNCHANGED <<rows, lapses>>, pc[w] # label,
              (up /\ faults < MaxFaults) \/ ~up
       PROVE  Queue!Abandon(w) \/ UNCHANGED Queue!vars
  <2>1. Claim' = [Claim EXCEPT ![w] = Free] /\ Verdict' = [Verdict EXCEPT ![w] = "none"]
    BY <1>14, ClaimMoves, VerdictMoves DEF LeaveLoop, TypeOK, Holding, Failing, Read
  <2>2. CASE pc[w] \in Holding
    <3>1. msg[w] \in Msg /\ Claim[w] = msg[w] /\ Claim[w] # Free
      BY <2>2, ClaimOf, ConsumerAssumption DEF TypeOK
    <3>2. orphans[msg[w]] < MaxFaults * Cardinality(Worker)
      BY <1>14, <2>2, <3>1, RoomForOrphan DEF AtRisk, Holding, Failing, Ended
    <3>3. orphans' = [orphans EXCEPT ![msg[w]] = @ + 1]
      BY <1>14, <2>2 DEF LeaveLoop, Orphaned
    <3>4. QED
      BY <1>14, <2>1, <3>1, <3>2, <3>3 DEF Queue!Abandon
  <2>3. CASE pc[w] = "scanning"
    <3>1. Claim[w] = Scanning /\ Claim[w] # Free /\ orphans' = orphans
      BY <1>14, <2>3, ClaimOf, ConsumerAssumption DEF LeaveLoop, Orphaned, Holding, Failing
    <3>2. QED
      BY <1>14, <2>1, <3>1 DEF Queue!Abandon
  <2>4. CASE pc[w] \notin Holding \cup {"scanning"}
    <3>1. orphans' = orphans /\ Claim[w] = Free /\ Verdict[w] = "none"
      BY <1>14, <2>4, ClaimOf, VerdictOf DEF LeaveLoop, Orphaned, Holding, Failing, Read
    <3>2. Claim' = Claim /\ Verdict' = Verdict
      BY <2>1, <3>1 DEF Claim, Verdict
    <3>3. QED
      BY <1>0, <1>14, <3>1, <3>2
  <2>5. QED
    BY <2>2, <2>3, <2>4
<1>15. ASSUME NEW w \in Worker, DatabaseError(w) PROVE Queue!Abandon(w) \/ UNCHANGED Queue!vars
  <2>1. CASE LeaveLoop(w, "dead")
    <3>1. pc[w] # "dead" /\ UNCHANGED <<rows, lapses>> /\ up /\ faults < MaxFaults
      BY <1>15 DEF DatabaseError, Failing
    <3>2. QED
      BY <1>14, <2>1, <3>1
  <2>2. CASE pc[w] = "releasing" /\ Goto(w, "failTransient") /\ UNCHANGED <<msg, orphans>>
    <3>1. Claim' = Claim /\ Verdict' = Verdict
      BY <2>2, ClaimStays, VerdictStays DEF TypeOK, Holding, Failing, Read
    <3>2. QED
      BY <1>0, <1>15, <2>2, <3>1 DEF DatabaseError
  <2>3. QED
    BY <1>15, <2>1, <2>2 DEF DatabaseError
<1>16. ASSUME NEW w \in Worker, Vanish(w) PROVE Queue!Abandon(w) \/ UNCHANGED Queue!vars
  BY <1>14, <1>16 DEF Vanish
<1>17. CASE Start
  <2>1. Claim' = Claim /\ Verdict' = Verdict
    BY <1>17, ClaimStays, VerdictStays DEF Start, TypeOK, Holding, Failing, Read
  <2>2. QED
    BY <1>0, <1>17, <2>1 DEF Start
<1>18. CASE Crash \/ Close \/ Exit \/ WaitIdle \/ UNCHANGED vars
  BY <1>0, <1>1, <1>18 DEF Crash, Close, Exit, WaitIdle, CallWaitIdle, IdleDrained,
                           IdleStatus, IdleCheck, vars
<1>19. ASSUME Tick PROVE Queue!Tick
  <2>1. Queue!Overdue = Overdue
    BY ClaimOf, ClaimOfHolder DEF Queue!Overdue, Overdue
  <2>2. UNCHANGED <<Claim, Verdict, orphans>>
    BY <1>1, <1>19 DEF Tick
  <2>3. QED
    BY <1>19, <2>1, <2>2 DEF Tick, Queue!Tick, Queue!AgeRow, AgeRow
<1>20. ASSUME NEW w \in Worker, WorkerStep(w) PROVE Queue!ConsumerStep(w) \/ UNCHANGED Queue!vars
  BY <1>5, <1>6, <1>7, <1>9, <1>10, <1>11, <1>12, <1>13, <1>20 DEF WorkerStep, Queue!ConsumerStep
<1>21. ASSUME NEW w \in Worker, DatabaseError(w) \/ Vanish(w)
       PROVE  Queue!ConsumerStep(w) \/ UNCHANGED Queue!vars
  BY <1>15, <1>16, <1>21 DEF Queue!ConsumerStep
<1>22. QED
  BY <1>2, <1>3, <1>4, <1>17, <1>18, <1>19, <1>20, <1>21 DEF Next, Queue!Next

\* Whatever requests, faults and restarts do, the table and the claims of the workers
\* behave as the persistent queue and its consumers do.
THEOREM QueueImplemented == Spec => QueueSpec
<1>1. Init => Queue!Init
  BY DEF Init, Queue!Init, Claim, Verdict, Queue!NoRow, NoRow, Holding, Failing
<1>2. TypeOK /\ PublishInv /\ OrphanInv /\ [Next]_vars => [Queue!Next]_(Queue!vars)
  BY QueueStepSimulated
<1>3. QED
  BY <1>1, <1>2, TypeCorrect, PublishInvAlways, OrphanInvAlways, PTL
     DEF Spec, QueueSpec, Queue!Spec

-------------------------------------------------------------------------------
(* What is proved of CFSQueue therefore holds of the workers. *)
\* QP names the same queue, with what is proved of it.
LEMMA SameQueue == (Queue!Init => QP!Init) /\ ([Queue!Next]_(Queue!vars) => [QP!Next]_(QP!vars))
<1>1. Queue!Init => QP!Init
  BY DEF Queue!Init, QP!Init, Queue!NoRow, QP!NoRow
<1>2. [Queue!Next]_(Queue!vars) => [QP!Next]_(QP!vars)
  BY
     DEF Queue!vars, QP!vars, Queue!NoRow, QP!NoRow, Queue!Next, QP!Next, Queue!Enqueue,
         QP!Enqueue, Queue!EnqueueRow, QP!EnqueueRow, Queue!ConsumerStep, QP!ConsumerStep,
         Queue!DequeueRecover, QP!DequeueRecover, Queue!RecoverRow, QP!RecoverRow,
         Queue!Stale, QP!Stale, Queue!DequeueClaim, QP!DequeueClaim, Queue!Oldest,
         QP!Oldest, Queue!Claimable, QP!Claimable, Queue!ClaimRow, QP!ClaimRow,
         Queue!DequeueNone, QP!DequeueNone, Queue!Settle, QP!Settle, Queue!Ack, QP!Ack,
         Queue!AckRow, QP!AckRow, Queue!Exists, QP!Exists, Queue!Release, QP!Release,
         Queue!ReleaseRow, QP!ReleaseRow, Queue!FailRead, QP!FailRead, Queue!FailMissing,
         QP!FailMissing, Queue!Fail, QP!Fail, Queue!FailRow, QP!FailRow, Queue!RetryRow,
         QP!RetryRow,
         Queue!ShouldRetry, QP!ShouldRetry, Queue!Abandon, QP!Abandon, Queue!Overdue,
         QP!Overdue, Queue!Tick, QP!Tick, Queue!AgeRow, QP!AgeRow, Queue!RequeueFailed,
         QP!RequeueFailed, Queue!RequeueFailedRow, QP!RequeueFailedRow, Queue!Clear,
         QP!Clear, Queue!ClearRow, QP!ClearRow, Queue!GoneRow, QP!GoneRow
<1>3. QED
  BY <1>1, <1>2

LEMMA QueueLeases == Spec => [](QP!LeaseInv /\ QP!RetryBudget)
<1>0. QP!TableAssumption /\ QP!QueueAssumption /\ QP!OwnerAssumption
  BY QueueAssumptions
<1>1. QP!Spec => []QP!LeaseInv
  BY <1>0, QP!LeaseInvAlways
<1>2. QP!Spec => []QP!RetryBudget
  BY <1>0, QP!RetryBudgetAlways
<1>3. QueueSpec => QP!Spec
  BY SameQueue, PTL DEF QueueSpec, Queue!Spec, QP!Spec
<1>4. QED
  BY <1>1, <1>2, <1>3, QueueImplemented, PTL

\* A message is dequeued at most once more than max_attempts for each claim that a
\* fault has abandoned, and a fault abandons one claim of each worker.
RetriesBounded ==
  NoLapse => \A m \in Msg : rows[m].attempts <= MaxAttempts + faults * Cardinality(Worker)

THEOREM RetriesBoundedAlways == Spec => []RetriesBounded
<1>1. TypeOK /\ OrphanInv /\ QP!RetryBudget => RetriesBounded
  <2> SUFFICES ASSUME TypeOK, OrphanInv, QP!RetryBudget, NoLapse, NEW m \in Msg
               PROVE  rows[m].attempts <= MaxAttempts + faults * Cardinality(Worker)
    BY DEF RetriesBounded
  <2>1. rows[m].attempts <= MaxAttempts + orphans[m]
    BY TableAssumption DEF QP!RetryBudget, QP!NoLapse, NoLapse, QP!Budget, TypeOK
  <2>2. orphans[m] + Cardinality(AtRisk) <= faults * Cardinality(Worker)
    BY DEF OrphanInv
  <2>3. /\ rows[m].attempts \in Nat /\ orphans[m] \in Nat /\ MaxAttempts \in Nat
        /\ Cardinality(AtRisk) \in Nat /\ faults * Cardinality(Worker) \in Nat
    BY TableAssumption, AtRiskCounted, OneMoreFault DEF TypeOK, Row
  <2>4. \A a, b, c, d, e \in Nat : a <= b + c /\ c + d <= e => a <= b + e
    OBVIOUS
  <2>5. QED
    BY <2>1, <2>2, <2>3, <2>4
<1>2. QED
  BY <1>1, QueueLeases, OrphanInvAlways, TypeCorrect, PTL

\* What a worker holds is being processed, within its lease.
LEMMA HeldLease ==
  ASSUME TypeOK, PublishInv, QP!LeaseInv, NoLapse, NEW w \in Worker, pc[w] \in Holding
  PROVE  /\ msg[w] \in Msg
         /\ rows[msg[w]].status = "processing" /\ rows[msg[w]].held <= StaleAfter
<1>1. msg[w] \in Msg /\ Claim[w] = msg[w]
  BY ClaimOf DEF TypeOK
<1>2. QED
  BY <1>1 DEF QP!LeaseInv, QP!LeaseRespected, QP!NoLapse, NoLapse, PublishInv

LEMMA LapsesStay == TypeOK /\ [Next]_vars /\ NoLapse' => NoLapse
<1> SUFFICES ASSUME TypeOK, [Next]_vars, lapses' = 0 PROVE lapses = 0
  BY DEF NoLapse
<1> USE DEF lifeVars
<1>1. ASSUME NEW m \in Msg, Publish(m) \/ Dispatch(m) \/ DispatchFails(m) PROVE lapses' = lapses
  BY <1>1 DEF Publish, Dispatch, DispatchFails
<1>2. ASSUME NEW r \in Request, RequestStep(r) \/ TimedOut(r) PROVE lapses' = lapses
  BY <1>2 DEF RequestStep, TimedOut, RegisterRequest, Stored, Drained, Completed
<1>3. ASSUME NEW w \in Worker, WorkerStep(w) PROVE lapses' = lapses
  BY <1>3 DEF WorkerStep, StopWorker, DequeueRecover, DequeueClaim, DequeueNone, Process,
              Finish, Ack, FailRead, Requeue, Exhaust, GiveUp, Release, SettleRow, Mark
<1>4. ASSUME NEW w \in Worker, DatabaseError(w) \/ Vanish(w) PROVE lapses' = lapses
  BY <1>4 DEF DatabaseError, Vanish
<1>5. CASE Crash \/ Close \/ Exit \/ Start \/ WaitIdle \/ UNCHANGED vars
  BY <1>5 DEF Crash, Close, Exit, Start, WaitIdle, CallWaitIdle, IdleDrained, IdleStatus,
              IdleCheck, vars
<1>6. CASE Tick
  BY <1>6 DEF Tick, TypeOK
<1>7. QED
  BY <1>1, <1>2, <1>3, <1>4, <1>5, <1>6 DEF Next

-------------------------------------------------------------------------------
\* A step that moves no worker to or from the marks of the tracker, and touches the
\* rows of held messages at most in their timers.
LEMMA MarkKept ==
  ASSUME MarkInv, NoLapse,
         \A w \in Worker : msg'[w] # None =>
            /\ msg'[w] = msg[w] /\ snap'[w] = snap[w]
            /\ \/ pc'[w] = pc[w]
               \/ pc[w] \in Holding /\ pc'[w] \in Holding \ {"requeueing", "exhausting"}
            /\ rows'[msg[w]].status = rows[msg[w]].status
            /\ rows'[msg[w]].attempts = rows[msg[w]].attempts
            /\ pc[w] \in Marking => rows'[msg[w]].wait = rows[msg[w]].wait,
         \A w \in Worker : pc'[w] \in Holding \cup Marking => msg'[w] # None
  PROVE  MarkInv'
BY DEF MarkInv, Holding, Failing, Marking

\* How a settlement leaves a row that is being processed.
LEMMA SettledRows ==
  ASSUME NEW r \in Row, r.status = "processing"
  PROVE  /\ AckRow(r).status = "done" /\ FailRow(r).status = "failed"
         /\ RetryRow(r, RetryDelay).status = "pending" /\ RetryRow(r, RetryDelay).wait > 0
         /\ ReleaseRow(r, LockedDelay).status = "pending"
         /\ ReleaseRow(r, LockedDelay).wait > 0
<1> USE WorkerAssumption DEF Row, Exists
<1>1. AckRow(r).status = "done" /\ FailRow(r).status = "failed"
  BY DEF AckRow, FailRow
<1>2. RetryRow(r, RetryDelay).status = "pending" /\ RetryRow(r, RetryDelay).wait > 0
  BY DEF RetryRow
<1>3. ReleaseRow(r, LockedDelay).status = "pending" /\ ReleaseRow(r, LockedDelay).wait > 0
  BY DEF ReleaseRow
<1>4. QED
  BY <1>1, <1>2, <1>3

\* What a worker has in its hands is neither claimable nor stale.
LEMMA InHand ==
  ASSUME TypeOK, PublishInv, QP!LeaseInv, MarkInv, NoLapse, NEW w \in Worker, msg[w] # None
  PROVE  /\ msg[w] \in Msg
         /\ \/ rows[msg[w]].status = "processing" /\ rows[msg[w]].held <= StaleAfter
            \/ rows[msg[w]].status \in {"done", "failed"}
            \/ rows[msg[w]].status = "pending" /\ rows[msg[w]].wait > 0
<1>1. msg[w] \in Msg /\ pc[w] \in Holding \cup Marking
  BY DEF TypeOK
<1>2. CASE pc[w] \in Holding
  BY <1>2, HeldLease
<1>3. CASE pc[w] \in Marking
  BY <1>1, <1>3 DEF MarkInv, Marking
<1>4. QED
  BY <1>1, <1>2, <1>3

LEMMA MarkStep ==
  ASSUME TypeOK, TypeOK', PublishInv, QP!LeaseInv, MarkInv, [Next]_vars, NoLapse, NoLapse'
  PROVE  MarkInv'
<1> USE DEF queueVars, workerVars, clientVars, lifeVars, Goto
<1>0. \A w \in Worker : pc'[w] \in Holding \cup Marking => msg'[w] # None
  BY DEF TypeOK
<1>1. ASSUME UNCHANGED <<rows, pc, msg, snap>> PROVE MarkInv'
  BY <1>1, <1>0, MarkKept
<1>2. ASSUME NEW m \in Msg, Publish(m) \/ DispatchFails(m) PROVE MarkInv'
  BY <1>1, <1>2 DEF Publish, DispatchFails
<1>3. ASSUME NEW m \in Msg, Dispatch(m) PROVE MarkInv'
  <2>1. rows[m].status = "absent" /\ rows' = [rows EXCEPT ![m] = EnqueueRow]
    BY <1>3 DEF Dispatch, PublishInv
  <2>2. \A w \in Worker : msg[w] # m
    BY <2>1, InHand, WorkerAssumption
  <2>3. QED
    BY <1>0, <1>3, <2>1, <2>2, MarkKept DEF Dispatch, TypeOK
<1>4. ASSUME NEW r \in Request, RequestStep(r) \/ TimedOut(r) PROVE MarkInv'
  <2>1. UNCHANGED <<rows, pc, msg, snap>>
    BY <1>4 DEF RequestStep, TimedOut, RegisterRequest, Stored, Drained, Completed
  <2>2. QED
    BY <1>1, <2>1
<1>5. ASSUME NEW w \in Worker, StopWorker(w) \/ DequeueNone(w) \/ Process(w) \/ Finish(w)
      PROVE  MarkInv'
  BY <1>0, <1>5, MarkKept
     DEF StopWorker, DequeueNone, Process, Finish, TypeOK, Holding, Failing, Marking
\* What fail reads of the row agrees with the snapshot.
<1>f. ASSUME NEW w \in Worker, FailRead(w) PROVE MarkInv'
  <2>1. /\ UNCHANGED <<rows, msg, snap>> /\ pc[w] \in Holding /\ pc'[w] \in Holding
        /\ \A v \in Worker : v # w => pc'[v] = pc[v]
    BY <1>f DEF FailRead, TypeOK, Holding, Failing
  <2>2. /\ pc'[w] \notin Marking
        /\ pc'[w] = "requeueing" => rows[msg[w]].attempts < MaxAttempts
        /\ pc'[w] = "exhausting" => ~(rows[msg[w]].attempts < MaxAttempts)
    BY <1>f DEF FailRead, ShouldRetry, TypeOK, Marking
  <2>3. ASSUME NEW v \in Worker
        PROVE  /\ pc'[v] \in Holding => snap[v] = rows[msg[v]].attempts
               /\ pc'[v] = "requeueing" => snap[v] < MaxAttempts
               /\ pc'[v] = "exhausting" => ~(snap[v] < MaxAttempts)
               /\ pc'[v] = "markDone" => rows[msg[v]].status = "done"
               /\ pc'[v] = "markFailed" => rows[msg[v]].status = "failed"
               /\ pc'[v] = "markRequeued" =>
                    rows[msg[v]].status = "pending" /\ rows[msg[v]].wait > 0
    <3>1. CASE v = w
      BY <2>1, <2>2, <3>1 DEF MarkInv, Marking
    <3>2. CASE v # w
      BY <2>1, <3>2 DEF MarkInv
    <3>3. QED
      BY <3>1, <3>2
  <2>4. QED
    BY <2>1, <2>3 DEF MarkInv
<1>6. ASSUME NEW w \in Worker, DequeueRecover(w) PROVE MarkInv'
  <2>1. \A v \in Worker : msg[v] # None => rows'[msg[v]] = rows[msg[v]]
    <3>1. ASSUME NEW v \in Worker, msg[v] # None PROVE ~Stale(rows[msg[v]]) /\ msg[v] \in Msg
      <4>1. rows[msg[v]] \in Row
        BY <3>1, InHand DEF TypeOK
      <4>2. QED
        BY <3>1, <4>1, InHand, TableAssumption DEF Stale, Row
    <3>2. QED
      BY <1>6, <3>1 DEF DequeueRecover, RecoverRow
  <2>2. \A v \in Worker : \/ pc'[v] = pc[v]
                          \/ v = w /\ pc[v] = "idle" /\ pc'[v] = "scanning"
    <3>1. DOMAIN pc = Worker
      BY DEF TypeOK
    <3>2. pc[w] = "idle" /\ pc' = [pc EXCEPT ![w] = "scanning"]
      BY <1>6 DEF DequeueRecover
    <3>3. QED
      BY <3>1, <3>2
  <2>3. \A v \in Worker : pc'[v] \in Holding \cup Marking => pc[v] \in Holding \cup Marking
    BY <2>2 DEF Holding, Failing, Marking
  <2>4. msg' = msg /\ snap' = snap
    BY <1>6 DEF DequeueRecover
  <2>5. \A v \in Worker : msg[v] # None => pc[v] # "idle"
    BY DEF TypeOK, Holding, Failing, Marking
  <2>6. QED
    BY <1>0, <2>1, <2>2, <2>3, <2>4, <2>5, MarkKept
<1>7. ASSUME NEW w \in Worker, DequeueClaim(w) PROVE MarkInv'
  <2>1. PICK m \in Msg : /\ Claimable(rows[m])
                         /\ rows' = [rows EXCEPT ![m] = ClaimRow(@)]
                         /\ msg' = [msg EXCEPT ![w] = m]
                         /\ snap' = [snap EXCEPT ![w] = rows[m].attempts + 1]
    BY <1>7 DEF DequeueClaim
  <2>2. \A v \in Worker : msg[v] # m
    <3>1. rows[m].status = "pending" /\ rows[m].wait = 0
      BY <2>1 DEF Claimable
    <3>2. QED
      BY <3>1, InHand, WorkerAssumption
  <2>3. pc'[w] = "claimed" /\ msg'[w] = m /\ snap'[w] = rows'[m].attempts
    <3>1. ClaimRow(rows[m]).attempts = rows[m].attempts + 1
      BY DEF ClaimRow, TypeOK, Row
    <3>2. QED
      BY <1>7, <2>1, <3>1 DEF DequeueClaim, TypeOK
  <2>4. \A v \in Worker : v # w => /\ pc'[v] = pc[v] /\ msg'[v] = msg[v] /\ snap'[v] = snap[v]
                                   /\ msg[v] # None => rows'[msg[v]] = rows[msg[v]]
    BY <1>7, <2>1, <2>2 DEF DequeueClaim, TypeOK
  <2>5. ASSUME NEW v \in Worker
        PROVE  /\ pc'[v] \in Holding => snap'[v] = rows'[msg'[v]].attempts
               /\ pc'[v] = "requeueing" => snap'[v] < MaxAttempts
               /\ pc'[v] = "exhausting" => ~(snap'[v] < MaxAttempts)
               /\ pc'[v] = "markDone" => rows'[msg'[v]].status = "done"
               /\ pc'[v] = "markFailed" => rows'[msg'[v]].status = "failed"
               /\ pc'[v] = "markRequeued" =>
                    rows'[msg'[v]].status = "pending" /\ rows'[msg'[v]].wait > 0
    <3>1. CASE v = w
      BY <2>3, <3>1
    <3>2. CASE v # w
      BY <1>0, <2>4, <3>2 DEF MarkInv, Holding, Failing, Marking
    <3>3. QED
      BY <3>1, <3>2
  <2>6. ASSUME NEW u \in Worker, NEW v \in Worker, msg'[u] = msg'[v], msg'[u] # None PROVE u = v
    BY <2>2, <2>3, <2>4, <2>6 DEF MarkInv
  <2>7. QED
    BY <2>5, <2>6 DEF MarkInv
\* The message of the worker that settles it is nobody else's.
<1>8. ASSUME NEW w \in Worker, NEW label \in Marking, NEW r, pc[w] \in Holding,
             SettleRow(w, r, label),
             label = "markDone" => r.status = "done",
             label = "markFailed" => r.status = "failed",
             label = "markRequeued" => r.status = "pending" /\ r.wait > 0
      PROVE  MarkInv'
  <2>1. msg[w] \in Msg /\ msg[w] # None
    BY <1>8 DEF TypeOK
  <2>2. \A v \in Worker : v # w => msg[v] # msg[w]
    BY <2>1 DEF MarkInv
  <2>3. /\ msg' = msg /\ snap' = snap /\ rows'[msg[w]] = r /\ pc'[w] = label
        /\ \A v \in Worker : v # w =>
              /\ pc'[v] = pc[v]
              /\ msg[v] # None => rows'[msg[v]] = rows[msg[v]]
    BY <1>8, <2>1, <2>2 DEF SettleRow, TypeOK
  <2>4. ASSUME NEW v \in Worker
        PROVE  /\ pc'[v] \in Holding => snap'[v] = rows'[msg'[v]].attempts
               /\ pc'[v] = "requeueing" => snap'[v] < MaxAttempts
               /\ pc'[v] = "exhausting" => ~(snap'[v] < MaxAttempts)
               /\ pc'[v] = "markDone" => rows'[msg'[v]].status = "done"
               /\ pc'[v] = "markFailed" => rows'[msg'[v]].status = "failed"
               /\ pc'[v] = "markRequeued" =>
                    rows'[msg'[v]].status = "pending" /\ rows'[msg'[v]].wait > 0
    <3>1. CASE v = w
      BY <1>8, <2>3, <3>1 DEF Holding, Failing, Marking
    <3>2. CASE v # w
      BY <1>0, <2>3, <3>2 DEF MarkInv, Holding, Failing, Marking
    <3>3. QED
      BY <3>1, <3>2
  <2>5. QED
    BY <2>3, <2>4 DEF MarkInv
<1>9. ASSUME NEW w \in Worker, Settles(w) PROVE MarkInv'
  <2>1. pc[w] \in Holding
    BY <1>9, SettlesRow
  <2>2. rows[msg[w]] \in Row /\ rows[msg[w]].status = "processing"
    BY <2>1, HeldLease DEF TypeOK
  <2>3. CASE Ack(w)
    BY <1>8, <2>1, <2>2, <2>3, SettledRows DEF Ack, Marking
  <2>4. CASE Requeue(w)
    <3>1. RetryMark(w) = "markRequeued"
      BY <2>4 DEF Requeue, RetryMark, MarkInv
    <3>2. QED
      BY <1>8, <2>1, <2>2, <2>4, <3>1, SettledRows DEF Requeue, Marking
  <2>5. CASE Exhaust(w)
    <3>1. RetryMark(w) = "markFailed"
      BY <2>5 DEF Exhaust, RetryMark, MarkInv
    <3>2. QED
      BY <1>8, <2>1, <2>2, <2>5, <3>1, SettledRows DEF Exhaust, Marking
  <2>6. CASE GiveUp(w)
    BY <1>8, <2>1, <2>2, <2>6, SettledRows DEF GiveUp, Marking
  <2>7. CASE Release(w)
    BY <1>8, <2>1, <2>2, <2>7, SettledRows DEF Release, Marking
  <2>8. QED
    BY <1>9, <2>3, <2>4, <2>5, <2>6, <2>7 DEF Settles
<1>10. ASSUME NEW w \in Worker, Mark(w) PROVE MarkInv'
  BY <1>0, <1>10, MarkKept DEF Mark, TypeOK
<1>11. ASSUME NEW w \in Worker, DatabaseError(w) \/ Vanish(w) PROVE MarkInv'
  <2>1. CASE pc[w] = "releasing" /\ Goto(w, "failTransient") /\ UNCHANGED <<msg, snap, rows>>
    BY <1>0, <2>1, MarkKept DEF TypeOK, Holding, Failing
  <2>2. ASSUME NEW label, LeaveLoop(w, label), rows' = rows PROVE MarkInv'
    BY <1>0, <2>2, MarkKept DEF LeaveLoop, TypeOK
  <2>3. QED
    BY <1>11, <2>1, <2>2 DEF DatabaseError, Vanish
<1>12. CASE Crash \/ Close \/ Exit \/ WaitIdle \/ UNCHANGED vars
  <2>1. UNCHANGED <<rows, pc, msg, snap>>
    BY <1>12 DEF Crash, Close, Exit, WaitIdle, CallWaitIdle, IdleDrained, IdleStatus,
                 IdleCheck, vars
  <2>2. QED
    BY <1>1, <2>1
<1>13. CASE Start
  BY <1>0, <1>13, MarkKept DEF Start, TypeOK, Holding, Failing, Marking
<1>14. CASE Tick
  <2>1. \A m \in Msg : /\ rows'[m].status = rows[m].status
                       /\ rows'[m].attempts = rows[m].attempts
    BY <1>14 DEF Tick, AgeRow, TypeOK, Row
  <2>2. QED
    BY <1>0, <1>14, <2>1, MarkKept DEF Tick, TypeOK
<1>15. QED
  BY <1>2, <1>3, <1>4, <1>5, <1>f, <1>6, <1>7, <1>9, <1>10, <1>11, <1>12, <1>13, <1>14
     DEF Next, WorkerStep, Settles

\* What PTL needs of the invariants so far, in this state and the next.
LEMMA MarkInvAlways == Spec => []MarkInv
<1>1. Init => MarkInv
  BY DEF Init, MarkInv, Holding, Failing
<1>2. TypeOK /\ TypeOK' /\ PublishInv /\ QP!LeaseInv /\ MarkInv /\ [Next]_vars => MarkInv'
  <2>1. ASSUME ~NoLapse' PROVE MarkInv'
    BY <2>1 DEF MarkInv
  <2>2. QED
    BY <2>1, MarkStep, LapsesStay
<1>3. QED
  BY <1>1, <1>2, TypeCorrect, PublishInvAlways, QueueLeases, PTL DEF Spec

-------------------------------------------------------------------------------
\* A request is known from its registration to the end of the process.
LEMMA LifeStep == TypeOK /\ LifeInv /\ [Next]_vars => LifeInv'
<1> SUFFICES ASSUME TypeOK, LifeInv, [Next]_vars PROVE LifeInv'
  OBVIOUS
<1> USE DEF queueVars, workerVars, clientVars, lifeVars
<1>1. ASSUME up, up', UNCHANGED phase,
             \A r \in Request : tracker'[r] = tracker[r] \/ (tracker[r].known /\ tracker'[r].known)
      PROVE  LifeInv'
  BY <1>1 DEF LifeInv
<1>2. ASSUME NEW m \in Msg, Publish(m) \/ DispatchFails(m) PROVE LifeInv'
  BY <1>1, <1>2 DEF Publish, DispatchFails
<1>3. ASSUME NEW m \in Msg, Dispatch(m) PROVE LifeInv'
  <2>1. ASSUME NEW r \in Request, tracker'[r] # tracker[r]
        PROVE  tracker[r].known /\ tracker'[r].known
    BY <1>3, <2>1 DEF Dispatch, RegisterMessage, Tracked, TypeOK, TrackerState
  <2>2. QED
    BY <1>1, <1>3, <2>1 DEF Dispatch
<1>4. ASSUME NEW r \in Request, RegisterRequest(r) PROVE LifeInv'
  BY <1>4 DEF RegisterRequest, LifeInv, TypeOK, TrackerState
<1>5. ASSUME NEW r \in Request, Stored(r) \/ Drained(r) \/ Completed(r) \/ TimedOut(r)
      PROVE  LifeInv'
  <2>1. CASE Stored(r)
    BY <2>1 DEF Stored, LifeInv, TypeOK
  <2>2. CASE Drained(r)
    BY <2>2 DEF Drained, LifeInv, TypeOK
  <2>3. CASE Completed(r) \/ TimedOut(r)
    BY <2>3 DEF Completed, TimedOut, IndexStatus, LifeInv, TypeOK
  <2>4. QED
    BY <1>5, <2>1, <2>2, <2>3
<1>6. ASSUME NEW w \in Worker, Mark(w) PROVE LifeInv'
  <2>1. ASSUME NEW r \in Request, tracker'[r] # tracker[r]
        PROVE  tracker[r].known /\ tracker'[r].known
    <3>1. /\ pc[w] \in Marking /\ tracker[r].known /\ tracker[r] \in TrackerState
          /\ tracker'[r] = CASE pc[w] = "markDone"     -> MarkDone(tracker[r], msg[w])
                             [] pc[w] = "markRequeued" -> MarkRequeued(tracker[r], msg[w])
                             [] pc[w] = "markFailed"   -> MarkFailed(tracker[r], msg[w])
      BY <1>6, <2>1 DEF Mark, Tracked, TypeOK
    <3>2. QED
      BY <3>1 DEF MarkDone, MarkRequeued, MarkFailed, TrackerState, Marking
  <2>2. QED
    BY <1>1, <1>6, <2>1 DEF Mark
<1>7. ASSUME NEW w \in Worker, WorkerStep(w), ~Mark(w) PROVE LifeInv'
  <2>1. up /\ UNCHANGED <<up, phase, tracker>>
    BY <1>7 DEF WorkerStep, StopWorker, DequeueRecover, DequeueClaim, DequeueNone, Process,
                Finish, Ack, FailRead, Requeue, Exhaust, GiveUp, Release, SettleRow
  <2>2. QED
    BY <1>1, <2>1
<1>8. ASSUME NEW w \in Worker, DatabaseError(w) PROVE LifeInv'
  BY <1>1, <1>8 DEF DatabaseError
<1>9. ASSUME NEW w \in Worker, Vanish(w) PROVE LifeInv'
  BY <1>9 DEF Vanish, LifeInv, Tasks
<1>10. CASE Crash \/ Exit
  <2>1. LoseMemory
    BY <1>10 DEF Crash, Exit
  <2>2. Tasks' = {} /\ idle'.at = "off"
    BY <2>1 DEF LoseMemory, NoCall, Tasks, TypeOK
  <2>3. ASSUME NEW r \in Request
        PROVE  ~tracker'[r].known /\ tracker'[r] = NoState
               /\ phase'[r] \notin {"storing", "draining", "waiting"}
    BY <2>1 DEF LoseMemory, NoState, TypeOK
  <2>4. QED
    BY <2>2, <2>3 DEF LifeInv
<1>11. CASE Start
  BY <1>11 DEF Start, LifeInv
<1>12. CASE Close \/ WaitIdle
  BY <1>1, <1>12 DEF Close, WaitIdle, CallWaitIdle, IdleDrained, IdleStatus, IdleCheck
<1>13. CASE Tick \/ UNCHANGED vars
  BY <1>13 DEF Tick, vars, LifeInv, Tasks
<1>14. QED
  BY <1>2, <1>3, <1>4, <1>5, <1>6, <1>7, <1>8, <1>9, <1>10, <1>11, <1>12, <1>13
     DEF Next, RequestStep

LEMMA LifeInvAlways == Spec => []LifeInv
<1>1. Init => LifeInv
  BY DEF Init, LifeInv, NoState
<1>2. QED
  BY <1>1, LifeStep, TypeCorrect, PTL DEF Spec

-------------------------------------------------------------------------------
(* The tracker of a request against the table. *)
PendingOf(r) == {m \in QueuedBy(r) : Unsettled(m)}

SettledAs(r, s) == {m \in QueuedBy(r) : ~InFlight(m) /\ rows[m].status = s}

Counted(r) == /\ tracker[r].pending = PendingOf(r)
              /\ tracker[r].done = Cardinality(SettledAs(r, "done"))
              /\ tracker[r].failed = Cardinality(SettledAs(r, "failed"))

LEMMA CountedIsExact ==
  TrackerExact <=> (NoLapse => \A r \in Request : tracker[r].known => Counted(r))
BY DEF TrackerExact, Counted, PendingOf, SettledAs

\* A mark is in flight as long as its worker has it.
LEMMA InFlightKept ==
  ASSUME \A w \in Worker : pc[w] \in Marking \/ pc'[w] \in Marking =>
            pc[w] \in Marking /\ pc'[w] \in Marking /\ msg'[w] = msg[w]
  PROVE  \A m \in Msg : InFlight(m)' <=> InFlight(m)
BY DEF InFlight

\* The tracker stays right when events become neither settled nor unsettled.
LEMMA CountedKept ==
  ASSUME NEW r \in Request, Counted(r), tracker'[r] = tracker[r], QueuedBy(r)' = QueuedBy(r),
         \A m \in QueuedBy(r) : \/ Unsettled(m) /\ Unsettled(m)'
                                \/ /\ InFlight(m)' <=> InFlight(m)
                                   /\ rows'[m].status = rows[m].status
  PROVE  Counted(r)'
<1>1. PendingOf(r)' = PendingOf(r)
  BY DEF PendingOf, Unsettled
<1>2. \A s \in {"done", "failed"} : SettledAs(r, s)' = SettledAs(r, s)
  BY DEF SettledAs, Unsettled
<1>3. QED
  BY <1>1, <1>2 DEF Counted

\* A worker gives the mark of its event, which nobody else has, to the tracker.
LEMMA CountedMark ==
  ASSUME TypeOK, PublishInv, MarkInv, NoLapse, NEW w \in Worker, Mark(w),
         NEW r \in Request, tracker[r].known, Counted(r)
  PROVE  Counted(r)'
<1> USE DEF queueVars, workerVars, clientVars, lifeVars, Goto
<1>0. PICK m \in Msg : m = msg[w]
  BY DEF Mark, TypeOK
<1>1. /\ m = msg[w] /\ pc[w] \in Marking /\ rows' = rows /\ pub' = pub
      /\ pc' = [pc EXCEPT ![w] = "idle"] /\ msg' = [msg EXCEPT ![w] = None]
  BY <1>0 DEF Mark
<1>2. InFlight(m) /\ ~InFlight(m)' /\ \A n \in Msg : n # m => (InFlight(n)' <=> InFlight(n))
  <2>1. InFlight(m)
    BY <1>1 DEF InFlight
  <2>2. ~InFlight(m)'
    BY <1>1, WorkerAssumption DEF InFlight, MarkInv, TypeOK, Marking
  <2>3. ASSUME NEW n \in Msg, n # m PROVE InFlight(n)' <=> InFlight(n)
    BY <1>1, <2>3, WorkerAssumption DEF InFlight, TypeOK, Marking
  <2>4. QED
    BY <2>1, <2>2, <2>3
<1>3. QueuedBy(r)' = QueuedBy(r)
  BY <1>1 DEF QueuedBy
<1>4. CASE RequestOf[m] # r
  <2>1. tracker'[r] = tracker[r]
    BY <1>1, <1>4 DEF Mark, TypeOK, Tracked
  <2>2. m \notin QueuedBy(r)
    BY <1>4 DEF QueuedBy
  <2>3. \A n \in QueuedBy(r) : (InFlight(n)' <=> InFlight(n)) /\ rows'[n].status = rows[n].status
    BY <1>1, <1>2, <2>2 DEF QueuedBy
  <2>4. QED
    BY <1>3, <2>1, <2>3, CountedKept
<1>5. CASE RequestOf[m] = r
  <2>1. m \in QueuedBy(r) /\ m \in PendingOf(r)
    <3>1. rows[m].status # "absent"
      BY <1>1 DEF MarkInv, Marking
    <3>2. QED
      BY <1>1, <1>2, <1>5, <3>1 DEF PublishInv, QueuedBy, PendingOf, Unsettled
  <2>2. /\ tracker[r] \in TrackerState /\ Tracked(RequestOf[m])
        /\ pc[w] = "markDone" => tracker'[r] = MarkDone(tracker[r], m)
        /\ pc[w] = "markRequeued" => tracker'[r] = MarkRequeued(tracker[r], m)
        /\ pc[w] = "markFailed" => tracker'[r] = MarkFailed(tracker[r], m)
    BY <1>1, <1>5, WorkerAssumption DEF Mark, TypeOK, Tracked
  <2>3. \A s \in {"done", "failed"} :
           /\ IsFiniteSet(SettledAs(r, s)) /\ m \notin SettledAs(r, s)
           /\ SettledAs(r, s)' = IF rows[m].status = s THEN SettledAs(r, s) \cup {m}
                                 ELSE SettledAs(r, s)
    <3>1. \A s : SettledAs(r, s) \subseteq Msg /\ m \notin SettledAs(r, s)
      BY <1>2 DEF SettledAs, QueuedBy
    <3>2. \A s : IsFiniteSet(SettledAs(r, s))
      BY <3>1, WorkerAssumption, FS_Subset
    <3>3. ASSUME NEW s \in {"done", "failed"}
          PROVE  SettledAs(r, s)' = IF rows[m].status = s THEN SettledAs(r, s) \cup {m}
                                    ELSE SettledAs(r, s)
      BY <1>1, <1>2, <1>3, <2>1 DEF SettledAs, QueuedBy
    <3>4. QED
      BY <3>1, <3>2, <3>3
  <2>4. PendingOf(r)' = IF rows[m].status \in {"pending", "processing"} THEN PendingOf(r)
                        ELSE PendingOf(r) \ {m}
    BY <1>1, <1>2, <1>3, <2>1 DEF PendingOf, Unsettled, QueuedBy
  <2>5. \A s \in {"done", "failed"} : Cardinality(SettledAs(r, s) \cup {m})
                                        = Cardinality(SettledAs(r, s)) + 1
    BY <2>3, FS_AddElement
  <2>6. CASE pc[w] = "markDone"
    <3>1. rows[m].status = "done"
      BY <1>1, <2>6 DEF MarkInv
    <3>2. /\ SettledAs(r, "done")' = SettledAs(r, "done") \cup {m}
          /\ SettledAs(r, "failed")' = SettledAs(r, "failed")
          /\ PendingOf(r)' = PendingOf(r) \ {m}
      BY <2>3, <2>4, <3>1
    <3>3. /\ tracker'[r].pending = tracker[r].pending \ {m}
          /\ tracker'[r].done = tracker[r].done + 1
          /\ tracker'[r].failed = tracker[r].failed
      BY <2>1, <2>2, <2>6 DEF MarkDone, TrackerState, Counted
    <3>4. QED
      BY <2>5, <3>2, <3>3 DEF Counted
  <2>7. CASE pc[w] = "markFailed"
    <3>1. rows[m].status = "failed"
      BY <1>1, <2>7 DEF MarkInv
    <3>2. /\ SettledAs(r, "failed")' = SettledAs(r, "failed") \cup {m}
          /\ SettledAs(r, "done")' = SettledAs(r, "done")
          /\ PendingOf(r)' = PendingOf(r) \ {m}
      BY <2>3, <2>4, <3>1
    <3>3. /\ tracker'[r].pending = tracker[r].pending \ {m}
          /\ tracker'[r].failed = tracker[r].failed + 1
          /\ tracker'[r].done = tracker[r].done
      BY <2>1, <2>2, <2>7 DEF MarkFailed, TrackerState, Counted
    <3>4. QED
      BY <2>5, <3>2, <3>3 DEF Counted
  <2>8. CASE pc[w] = "markRequeued"
    <3>1. rows[m].status = "pending"
      BY <1>1, <2>8 DEF MarkInv
    <3>2. /\ SettledAs(r, "failed")' = SettledAs(r, "failed")
          /\ SettledAs(r, "done")' = SettledAs(r, "done")
          /\ PendingOf(r)' = PendingOf(r)
      BY <2>3, <2>4, <3>1
    <3>3. /\ tracker'[r].pending = tracker[r].pending \cup {m}
          /\ tracker'[r].failed = tracker[r].failed
          /\ tracker'[r].done = tracker[r].done
      BY <2>1, <2>2, <2>8 DEF MarkRequeued, TrackerState, Counted
    <3>4. QED
      BY <2>1, <3>2, <3>3 DEF Counted
  <2>9. QED
    BY <1>1, <2>6, <2>7, <2>8 DEF Marking
<1>6. QED
  BY <1>4, <1>5

\* An event of the request that reaches the queue is pending from then on.
LEMMA CountedDispatch ==
  ASSUME TypeOK, PublishInv, MarkInv, QP!LeaseInv, NoLapse, NEW m \in Msg, Dispatch(m),
         NEW r \in Request, tracker[r].known, Counted(r)
  PROVE  Counted(r)'
<1> USE DEF queueVars, workerVars, clientVars, lifeVars
<1>1. /\ pub[m] = "task" /\ rows[m].status = "absent"
      /\ rows' = [rows EXCEPT ![m] = EnqueueRow] /\ pub' = [pub EXCEPT ![m] = "queued"]
      /\ EnqueueRow.status = "pending"
  BY DEF Dispatch, PublishInv, EnqueueRow, NoRow
<1>2. \A n \in Msg : InFlight(n)' <=> InFlight(n)
  BY InFlightKept DEF Dispatch
<1>3. CASE RequestOf[m] # r
  <2>1. tracker'[r] = tracker[r] /\ QueuedBy(r)' = QueuedBy(r) /\ m \notin QueuedBy(r)
    BY <1>1, <1>3 DEF Dispatch, RegisterMessage, TypeOK, QueuedBy
  <2>2. \A n \in QueuedBy(r) : rows'[n].status = rows[n].status /\ n \in Msg
    BY <1>1, <2>1 DEF TypeOK, QueuedBy
  <2>3. QED
    BY <1>2, <2>1, <2>2, CountedKept
<1>4. CASE RequestOf[m] = r
  <2>1. /\ tracker'[r].pending = tracker[r].pending \cup {m}
        /\ tracker'[r].done = tracker[r].done /\ tracker'[r].failed = tracker[r].failed
    <3>1. Tracked(RequestOf[m]) /\ tracker[r] \in TrackerState
      BY <1>4, WorkerAssumption DEF Tracked, TypeOK
    <3>2. QED
      BY <1>4, <3>1 DEF Dispatch, RegisterMessage, TypeOK, TrackerState
  <2>2. QueuedBy(r)' = QueuedBy(r) \cup {m} /\ m \notin QueuedBy(r)
    BY <1>1, <1>4 DEF QueuedBy, TypeOK
  <2>3. rows'[m].status = "pending" /\ \A n \in QueuedBy(r) : rows'[n] = rows[n] /\ n \in Msg
    BY <1>1, <2>2 DEF TypeOK, QueuedBy
  <2>4. PendingOf(r)' = PendingOf(r) \cup {m}
    BY <1>2, <2>2, <2>3 DEF PendingOf, Unsettled
  <2>5. \A s \in {"done", "failed"} : SettledAs(r, s)' = SettledAs(r, s)
    BY <1>2, <2>2, <2>3 DEF SettledAs
  <2>6. QED
    BY <2>1, <2>4, <2>5 DEF Counted
<1>5. QED
  BY <1>3, <1>4

\* A worker that settles its row hands the event from the table to its mark.
LEMMA CountedSettle ==
  ASSUME TypeOK, PublishInv, MarkInv, QP!LeaseInv, NoLapse,
         NEW w \in Worker, pc[w] \in Holding, NEW x, NEW label \in Marking,
         SettleRow(w, x, label), NEW r \in Request, Counted(r)
  PROVE  Counted(r)'
<1> USE DEF queueVars, workerVars, clientVars, lifeVars, Goto
<1>1. /\ msg[w] \in Msg /\ rows[msg[w]].status = "processing"
      /\ rows' = [rows EXCEPT ![msg[w]] = x] /\ pc' = [pc EXCEPT ![w] = label]
      /\ UNCHANGED <<msg, tracker, pub>>
  BY HeldLease DEF SettleRow
<1>2. InFlight(msg[w])' /\ \A n \in Msg : n # msg[w] => (InFlight(n)' <=> InFlight(n))
  BY <1>1 DEF InFlight, TypeOK, Marking, Holding, Failing
<1>3. QueuedBy(r)' = QueuedBy(r) /\ QueuedBy(r) \subseteq Msg
  BY <1>1 DEF QueuedBy
<1>4. ASSUME NEW n \in Msg
      PROVE  \/ Unsettled(n) /\ Unsettled(n)'
             \/ (InFlight(n)' <=> InFlight(n)) /\ rows'[n].status = rows[n].status
  <2>1. CASE n = msg[w]
    BY <1>1, <1>2, <2>1 DEF Unsettled
  <2>2. CASE n # msg[w]
    BY <1>1, <1>2, <2>2 DEF TypeOK
  <2>3. QED
    BY <2>1, <2>2
<1>5. QED
  BY <1>1, <1>3, <1>4, CountedKept

LEMMA CountedStep ==
  ASSUME TypeOK, PublishInv, LifeInv, MarkInv, QP!LeaseInv, [Next]_vars, NoLapse,
         \A r \in Request : tracker[r].known => Counted(r),
         NEW r \in Request, tracker'[r].known
  PROVE  Counted(r)'
<1> USE DEF queueVars, workerVars, clientVars, lifeVars, Goto
<1>0. tracker[r].known => Counted(r)
  OBVIOUS
\* A step that moves no worker to or from a mark, and no event to or from its end.
<1>1. ASSUME tracker'[r] = tracker[r],
             \A m \in Msg : pub'[m] = "queued" <=> pub[m] = "queued",
             \A w \in Worker : pc[w] \in Marking \/ pc'[w] \in Marking =>
               pc[w] \in Marking /\ pc'[w] \in Marking /\ msg'[w] = msg[w],
             \A m \in Msg : \/ rows'[m].status = rows[m].status
                            \/ /\ rows[m].status \in {"pending", "processing"}
                               /\ rows'[m].status \in {"pending", "processing"}
      PROVE  Counted(r)'
  <2>1. QueuedBy(r)' = QueuedBy(r) /\ QueuedBy(r) \subseteq Msg
    BY <1>1 DEF QueuedBy
  <2>2. \A m \in Msg : InFlight(m)' <=> InFlight(m)
    BY <1>1, InFlightKept
  <2>3. \A m \in QueuedBy(r) : \/ Unsettled(m) /\ Unsettled(m)'
                               \/ /\ InFlight(m)' <=> InFlight(m)
                                  /\ rows'[m].status = rows[m].status
    BY <1>1, <2>1, <2>2 DEF Unsettled
  <2>4. QED
    BY <1>0, <1>1, <2>1, <2>3, CountedKept
<1>2. ASSUME NEW m \in Msg, Publish(m) \/ DispatchFails(m) PROVE Counted(r)'
  BY <1>1, <1>2 DEF Publish, DispatchFails, TypeOK
<1>3. ASSUME NEW m \in Msg, Dispatch(m) PROVE Counted(r)'
  <2>1. tracker[r].known
    BY <1>3 DEF Dispatch, RegisterMessage, TypeOK, TrackerState
  <2>2. QED
    BY <1>0, <1>3, <2>1, CountedDispatch
<1>4. ASSUME NEW q \in Request, RegisterRequest(q) PROVE Counted(r)'
  <2>1. CASE q = r
    <3>1. tracker[r] = NoState /\ tracker' = [tracker EXCEPT ![r].known = TRUE]
      BY <1>4, <2>1 DEF RegisterRequest, LifeInv
    <3>2. tracker'[r].pending = {} /\ tracker'[r].done = 0 /\ tracker'[r].failed = 0
      BY <3>1 DEF NoState, TypeOK
    <3>3. QueuedBy(r)' = {}
      BY <1>4, <2>1 DEF RegisterRequest, QueuedBy, PublishInv
    <3>4. /\ PendingOf(r)' = {}
          /\ SettledAs(r, "done")' = {} /\ SettledAs(r, "failed")' = {}
      BY <3>3 DEF PendingOf, SettledAs
    <3>5. QED
      BY <3>2, <3>4, FS_EmptySet DEF Counted
  <2>2. CASE q # r
    BY <1>1, <1>4, <2>2 DEF RegisterRequest, TypeOK
  <2>3. QED
    BY <2>1, <2>2
<1>5. ASSUME NEW q \in Request, Stored(q) \/ Drained(q) \/ Completed(q) \/ TimedOut(q)
      PROVE  Counted(r)'
  <2>1. UNCHANGED <<tracker, pub, rows, pc, msg>>
    BY <1>5 DEF Stored, Drained, Completed, TimedOut
  <2>2. QED
    BY <1>1, <2>1
<1>6. ASSUME NEW w \in Worker,
             StopWorker(w) \/ DequeueNone(w) \/ Process(w) \/ Finish(w) \/ FailRead(w)
      PROVE  Counted(r)'
  <2>1. UNCHANGED <<tracker, pub, rows, msg>>
    BY <1>6 DEF StopWorker, DequeueNone, Process, Finish, FailRead
  <2>2. \A v \in Worker : pc[v] \in Marking \/ pc'[v] \in Marking =>
                            pc[v] \in Marking /\ pc'[v] \in Marking
    <3>1. pc[w] \notin Marking
      BY <1>6 DEF StopWorker, DequeueNone, Process, Finish, FailRead, Marking
    <3>2. \E label : label \notin Marking /\ pc' = [pc EXCEPT ![w] = label]
      BY <1>6 DEF StopWorker, DequeueNone, Process, Finish, FailRead, Marking
    <3>3. QED
      BY <3>1, <3>2 DEF TypeOK
  <2>3. QED
    BY <1>1, <2>1, <2>2
<1>7. ASSUME NEW w \in Worker, DequeueRecover(w) PROVE Counted(r)'
  <2>1. UNCHANGED <<tracker, pub, msg>>
    BY <1>7 DEF DequeueRecover
  <2>2. \A v \in Worker : pc[v] \in Marking \/ pc'[v] \in Marking =>
                            pc[v] \in Marking /\ pc'[v] \in Marking
    BY <1>7 DEF DequeueRecover, TypeOK, Marking
  <2>3. ASSUME NEW m \in Msg
        PROVE  \/ rows'[m].status = rows[m].status
               \/ rows[m].status = "processing" /\ rows'[m].status = "pending"
    <3>1. rows[m] \in Row
      BY <1>7 DEF TypeOK
    <3>2. rows'[m] \in {rows[m], RecoverRow(rows[m])}
      BY <1>7 DEF DequeueRecover, RecoverRow, TypeOK
    <3> QED
      BY <3>1, <3>2 DEF RecoverRow, Stale, Row
  <2>4. QED
    BY <1>1, <2>1, <2>2, <2>3
<1>8. ASSUME NEW w \in Worker, DequeueClaim(w) PROVE Counted(r)'
  <2>1. UNCHANGED <<tracker, pub>>
    BY <1>8 DEF DequeueClaim
  <2>2. \A v \in Worker : pc[v] \in Marking \/ pc'[v] \in Marking =>
                            pc[v] \in Marking /\ pc'[v] \in Marking /\ msg'[v] = msg[v]
    BY <1>8 DEF DequeueClaim, TypeOK, Marking
  <2>3. \A m \in Msg : \/ rows'[m].status = rows[m].status
                       \/ rows[m].status = "pending" /\ rows'[m].status = "processing"
    BY <1>8 DEF DequeueClaim, Claimable, ClaimRow, TypeOK, Row
  <2>4. QED
    BY <1>1, <2>1, <2>2, <2>3
<1>9. ASSUME NEW w \in Worker, Settles(w) PROVE Counted(r)'
  <2>1. pc[w] \in Holding /\ \E x, label : label \in Marking /\ SettleRow(w, x, label)
    BY <1>9, SettlesRow
  <2>2. tracker' = tracker
    BY <2>1 DEF SettleRow
  <2>3. QED
    BY <1>0, <2>1, <2>2, CountedSettle
<1>10. ASSUME NEW w \in Worker, Mark(w) PROVE Counted(r)'
  <2>1. tracker[r].known
    <3>1. CASE tracker'[r] = tracker[r]
      BY <3>1
    <3>2. CASE tracker'[r] # tracker[r]
      BY <1>10, <3>2 DEF Mark, Tracked, TypeOK
    <3>3. QED
      BY <3>1, <3>2
  <2>2. QED
    BY <1>0, <1>10, <2>1, CountedMark
<1>11. ASSUME NEW w \in Worker, DatabaseError(w) PROVE Counted(r)'
  <2>1. UNCHANGED <<tracker, pub, rows>>
    BY <1>11 DEF DatabaseError
  <2>2. \A v \in Worker : pc[v] \in Marking \/ pc'[v] \in Marking =>
                            pc[v] \in Marking /\ pc'[v] \in Marking /\ msg'[v] = msg[v]
    <3>1. pc[w] \notin Marking
      BY <1>11 DEF DatabaseError, Failing, Marking
    <3>2. /\ \E label : label \notin Marking /\ pc' = [pc EXCEPT ![w] = label]
          /\ \A v \in Worker : v # w => msg'[v] = msg[v]
      BY <1>11 DEF DatabaseError, LeaveLoop, TypeOK, Marking
    <3>3. QED
      BY <3>1, <3>2 DEF TypeOK
  <2>3. QED
    BY <1>1, <2>1, <2>2
\* A process that is down, or goes down, knows of no request.
<1>12. ~LoseMemory
  BY DEF LoseMemory, NoState
<1>13. ~Start /\ \A w \in Worker : ~Vanish(w)
  BY DEF Start, Vanish, LifeInv
<1>14. CASE Close \/ WaitIdle \/ UNCHANGED vars
  <2>1. UNCHANGED <<tracker, pub, rows, pc, msg>>
    BY <1>14 DEF Close, WaitIdle, CallWaitIdle, IdleDrained, IdleStatus, IdleCheck, vars
  <2>2. QED
    BY <1>1, <2>1
<1>15. CASE Tick
  <2>1. \A m \in Msg : rows'[m].status = rows[m].status
    <3>1. \A x \in Row : AgeRow(x).status = x.status
      BY DEF AgeRow, Row
    <3>2. QED
      BY <1>15, <3>1 DEF Tick, TypeOK
  <2>2. UNCHANGED <<tracker, pub, pc, msg>>
    BY <1>15 DEF Tick
  <2>3. QED
    BY <1>1, <2>1, <2>2
<1>16. QED
  BY <1>2, <1>3, <1>4, <1>5, <1>6, <1>7, <1>8, <1>9, <1>10, <1>11, <1>12, <1>13, <1>14, <1>15
     DEF Next, RequestStep, WorkerStep, Settles, Crash, Exit

\* Until a lease lapses the tracker's picture of a request is the table's, although
\* every mark reaches it after the row was settled, across releases, retries,
\* database errors and restarts.
THEOREM TrackerExactAlways == Spec => []TrackerExact
<1>1. Init => TrackerExact
  BY DEF Init, TrackerExact, NoState
<1>2. TypeOK /\ PublishInv /\ LifeInv /\ MarkInv /\ QP!LeaseInv /\ TrackerExact /\ [Next]_vars
      => TrackerExact'
  <2> SUFFICES ASSUME TypeOK, PublishInv, LifeInv, MarkInv, QP!LeaseInv, TrackerExact,
                      [Next]_vars
               PROVE  TrackerExact'
    OBVIOUS
  <2>1. ASSUME NoLapse' PROVE \A r \in Request : tracker'[r].known => Counted(r)'
    BY <2>1, LapsesStay, CountedIsExact, CountedStep
  <2>2. TrackerExact' <=> (NoLapse' => \A r \in Request : tracker'[r].known => Counted(r)')
    BY DEF TrackerExact, Counted, PendingOf, SettledAs
  <2>3. QED
    BY <2>1, <2>2
<1>3. QED
  BY <1>1, <1>2, TypeCorrect, PublishInvAlways, LifeInvAlways, MarkInvAlways, QueueLeases, PTL
     DEF Spec

-------------------------------------------------------------------------------
\* Until a lease lapses nobody has an event in hand whose row is final.
LEMMA FinalStays ==
  ASSUME TypeOK, PublishInv, QP!LeaseInv, [Next]_vars, NoLapse, NEW m \in Msg, Final(m)
  PROVE  rows'[m].status = rows[m].status
<1> USE DEF queueVars, workerVars, clientVars, lifeVars
<1>0. rows[m] \in Row /\ rows[m].status \in {"done", "failed"}
  BY DEF TypeOK, Final
<1>1. ASSUME NEW n \in Msg, Publish(n) \/ Dispatch(n) \/ DispatchFails(n)
      PROVE  rows'[m] = rows[m]
  BY <1>0, <1>1 DEF Publish, Dispatch, DispatchFails, PublishInv, TypeOK
<1>2. ASSUME NEW r \in Request, RequestStep(r) \/ TimedOut(r) PROVE rows'[m] = rows[m]
  BY <1>2 DEF RequestStep, TimedOut, RegisterRequest, Stored, Drained, Completed
<1>3. ASSUME NEW w \in Worker, DequeueRecover(w) PROVE rows'[m] = rows[m]
  BY <1>0, <1>3 DEF DequeueRecover, RecoverRow, Stale
<1>4. ASSUME NEW w \in Worker, DequeueClaim(w) PROVE rows'[m] = rows[m]
  BY <1>0, <1>4 DEF DequeueClaim, Claimable, TypeOK
<1>5. ASSUME NEW w \in Worker, NEW x, NEW label, pc[w] \in Holding, SettleRow(w, x, label)
      PROVE  rows'[m] = rows[m]
  <2>1. msg[w] # m
    BY <1>0, <1>5, HeldLease
  <2>2. QED
    BY <1>5, <2>1 DEF SettleRow, TypeOK
<1>6. ASSUME NEW w \in Worker, Settles(w) PROVE rows'[m] = rows[m]
  <2>1. pc[w] \in Holding /\ \E x, label : SettleRow(w, x, label)
    BY <1>6, SettlesRow
  <2>2. QED
    BY <1>5, <2>1
<1>7. ASSUME NEW w \in Worker, StopWorker(w) \/ DequeueNone(w) \/ Process(w) \/ Finish(w)
                               \/ FailRead(w) \/ Mark(w) \/ DatabaseError(w) \/ Vanish(w)
      PROVE  rows'[m] = rows[m]
  BY <1>7 DEF StopWorker, DequeueNone, Process, Finish, FailRead, Mark, DatabaseError, Vanish
<1>8. CASE Crash \/ Close \/ Exit \/ Start \/ WaitIdle \/ UNCHANGED vars
  BY <1>8 DEF Crash, Close, Exit, Start, WaitIdle, CallWaitIdle, IdleDrained, IdleStatus,
              IdleCheck, vars
<1>9. CASE Tick
  <2>1. AgeRow(rows[m]).status = rows[m].status
    BY <1>0 DEF AgeRow, Row
  <2>2. QED
    BY <1>9, <2>1 DEF Tick
<1>10. QED
  BY <1>1, <1>2, <1>3, <1>4, <1>6, <1>7, <1>8, <1>9 DEF Next, WorkerStep, Settles

\* How an event comes to have a row, and a request to be told "ready".
LEMMA QueuedByDispatch ==
  ASSUME TypeOK, [Next]_vars, NEW m \in Msg, pub[m] \in {"unborn", "lost"}
  PROVE  pub'[m] # "queued"
<1> USE DEF queueVars, workerVars, clientVars, lifeVars
<1>1. ASSUME NEW n \in Msg, Publish(n) \/ Dispatch(n) \/ DispatchFails(n) PROVE pub'[m] # "queued"
  BY <1>1 DEF Publish, Dispatch, DispatchFails, TypeOK
<1>2. ASSUME NEW r \in Request, RequestStep(r) \/ TimedOut(r) PROVE pub' = pub
  BY <1>2 DEF RequestStep, TimedOut, RegisterRequest, Stored, Drained, Completed
<1>3. ASSUME NEW w \in Worker, WorkerStep(w) PROVE pub' = pub
  BY <1>3 DEF WorkerStep, StopWorker, DequeueRecover, DequeueClaim, DequeueNone, Process,
              Finish, Ack, FailRead, Requeue, Exhaust, GiveUp, Release, SettleRow, Mark
<1>4. ASSUME NEW w \in Worker, DatabaseError(w) \/ Vanish(w) PROVE pub' = pub
  BY <1>4 DEF DatabaseError, Vanish
<1>5. CASE Crash \/ Exit
  BY <1>5 DEF Crash, Exit, LoseMemory, TypeOK
<1>6. CASE Close \/ Start \/ WaitIdle \/ Tick \/ UNCHANGED vars
  BY <1>6 DEF Close, Start, WaitIdle, CallWaitIdle, IdleDrained, IdleStatus, IdleCheck, Tick, vars
<1>7. QED
  BY <1>1, <1>2, <1>3, <1>4, <1>5, <1>6 DEF Next

LEMMA ReadyByAnswer ==
  ASSUME TypeOK, [Next]_vars, NEW r \in Request, phase[r] # "ready", phase'[r] = "ready"
  PROVE  Completed(r) \/ TimedOut(r)
<1> USE DEF queueVars, workerVars, clientVars, lifeVars
<1>1. ASSUME NEW n \in Msg, Publish(n) \/ Dispatch(n) \/ DispatchFails(n) PROVE phase' = phase
  BY <1>1 DEF Publish, Dispatch, DispatchFails
<1>2. ASSUME NEW q \in Request, RequestStep(q) \/ TimedOut(q) PROVE Completed(r) \/ TimedOut(r)
  <2>1. CASE q = r
    BY <1>2, <2>1 DEF RequestStep, RegisterRequest, Stored, Drained, TypeOK
  <2>2. CASE q # r
    BY <1>2, <2>2 DEF RequestStep, TimedOut, RegisterRequest, Stored, Drained, Completed, TypeOK
  <2>3. QED
    BY <2>1, <2>2
<1>3. ASSUME NEW w \in Worker, WorkerStep(w) PROVE phase' = phase
  BY <1>3 DEF WorkerStep, StopWorker, DequeueRecover, DequeueClaim, DequeueNone, Process,
              Finish, Ack, FailRead, Requeue, Exhaust, GiveUp, Release, SettleRow, Mark
<1>4. ASSUME NEW w \in Worker, DatabaseError(w) \/ Vanish(w) PROVE phase' = phase
  BY <1>4 DEF DatabaseError, Vanish
<1>5. ~Crash /\ ~Exit
  BY DEF Crash, Exit, LoseMemory, TypeOK
<1>6. CASE Close \/ Start \/ WaitIdle \/ Tick \/ UNCHANGED vars
  BY <1>6 DEF Close, Start, WaitIdle, CallWaitIdle, IdleDrained, IdleStatus, IdleCheck, Tick, vars
<1>7. QED
  BY <1>1, <1>2, <1>3, <1>4, <1>5, <1>6 DEF Next

\* A tracker without pending and failed events speaks for all events of its request.
LEMMA ReadyAnswer ==
  ASSUME TypeOK, PublishInv, NEW r \in Request, Counted(r), IndexStatus(tracker[r]) = "ready",
         NEW m \in Msg, RequestOf[m] = r, pub[m] = "queued"
  PROVE  rows[m].status = "done"
<1>1. tracker[r].pending = {} /\ tracker[r].failed = 0
  BY DEF IndexStatus, TypeOK, TrackerState
<1>2. m \in QueuedBy(r) /\ ~Unsettled(m)
  BY <1>1 DEF QueuedBy, Counted, PendingOf
<1>3. SettledAs(r, "failed") = {}
  <2>1. IsFiniteSet(SettledAs(r, "failed"))
    BY WorkerAssumption, FS_Subset DEF SettledAs, QueuedBy
  <2>2. QED
    BY <1>1, <2>1, FS_EmptySet DEF Counted
<1>4. rows[m].status \in Status /\ rows[m].status \notin {"absent", "gone"}
  BY DEF PublishInv, TypeOK, Row
<1>5. QED
  BY <1>2, <1>3, <1>4 DEF Unsettled, SettledAs, Status

\* A client that is told "ready" finds its request indexed, as long as no lease lapses.
THEOREM ReadyMeansIndexedAlways == Spec => []ReadyMeansIndexed
<1>1. Init => ReadyMeansIndexed
  BY DEF Init, ReadyMeansIndexed
<1>2. /\ TypeOK /\ PublishInv /\ LifeInv /\ QP!LeaseInv /\ TrackerExact
      /\ ReadyMeansIndexed /\ [Next]_vars
      => ReadyMeansIndexed'
  <2> SUFFICES ASSUME TypeOK, PublishInv, LifeInv, QP!LeaseInv, TrackerExact,
                      ReadyMeansIndexed, [Next]_vars, NoLapse',
                      NEW r \in Request, phase'[r] = "ready",
                      NEW m \in Msg, RequestOf[m] = r, pub'[m] = "queued"
               PROVE  rows'[m].status = "done"
    BY DEF ReadyMeansIndexed
  <2>0. NoLapse
    BY LapsesStay
  <2>1. CASE phase[r] = "ready"
    <3>1. pub[m] = "queued"
      BY <2>1, QueuedByDispatch DEF PublishInv, TypeOK
    <3>2. rows[m].status = "done"
      BY <2>0, <2>1, <3>1 DEF ReadyMeansIndexed
    <3>3. QED
      BY <2>0, <3>2, FinalStays DEF Final
  <2>2. CASE phase[r] # "ready"
    <3>1. Completed(r) \/ TimedOut(r)
      BY <2>2, ReadyByAnswer
    <3>2. /\ phase[r] \in {"draining", "waiting"} /\ IndexStatus(tracker[r]) = "ready"
          /\ rows' = rows /\ pub' = pub
      BY <3>1 DEF Completed, TimedOut, TypeOK, queueVars
    <3>3. Counted(r)
      BY <2>0, <3>2, CountedIsExact DEF LifeInv
    <3>4. QED
      BY <3>2, <3>3, ReadyAnswer
  <2>3. QED
    BY <2>1, <2>2
<1>3. QED
  BY <1>1, <1>2, TypeCorrect, PublishInvAlways, LifeInvAlways, TrackerExactAlways, QueueLeases,
     PTL DEF Spec

-------------------------------------------------------------------------------
\* What wait_idle knows of the events published before the call stays true.
LEMMA IdleKept ==
  ASSUME TypeOK, PublishInv, QP!LeaseInv, IdleInv, [Next]_vars, NoLapse' => NoLapse,
         idle' = idle,
         \A m \in Msg : /\ pub[m] # "unborn" => pub'[m] \notin {"unborn", "task"} \/ pub'[m] = pub[m]
                        /\ pub[m] = "lost" => pub'[m] = "lost"
  PROVE  IdleInv'
<1>1. idle.before \subseteq Msg
  BY DEF TypeOK
<1>2. idle.at # "off" => \A m \in idle.before : pub'[m] # "unborn"
  BY <1>1 DEF IdleInv
<1>3. idle.at # "off" => idle.before \cap Tasks' \subseteq idle.before \cap Tasks
  BY <1>1 DEF IdleInv, Tasks
<1>4. NoLapse' => \A m \in Msg : Final(m) => Final(m)'
  <2>1. ASSUME NoLapse', NEW m \in Msg, Final(m) PROVE rows'[m].status \in {"done", "failed"}
    <3>1. rows'[m].status = rows[m].status
      BY <2>1, FinalStays
    <3>2. QED
      BY <2>1, <3>1 DEF Final
  <2>2. QED
    BY <2>1 DEF Final
<1>5. NoLapse' /\ ((idle.at = "checking" /\ idle.quiet) \/ idle.at = "returned") =>
         \A m \in idle.before : pub'[m] = "lost" \/ Final(m)'
  BY <1>1, <1>4 DEF IdleInv
<1>6. QED
  BY <1>2, <1>3, <1>5 DEF IdleInv

LEMMA IdleStep ==
  TypeOK /\ PublishInv /\ QP!LeaseInv /\ IdleInv /\ [Next]_vars => IdleInv'
<1> SUFFICES ASSUME TypeOK, PublishInv, QP!LeaseInv, IdleInv, [Next]_vars PROVE IdleInv'
  OBVIOUS
<1> USE DEF queueVars, workerVars, clientVars, lifeVars
<1>0. NoLapse' => NoLapse
  BY LapsesStay
<1>k. idle' = idle /\ pub' = pub => IdleInv'
  BY <1>0, IdleKept
<1>1. ASSUME NEW m \in Msg, Publish(m) \/ Dispatch(m) \/ DispatchFails(m) PROVE IdleInv'
  <2>1. /\ idle' = idle
        /\ \A n \in Msg :
             /\ pub[n] # "unborn" => pub'[n] \notin {"unborn", "task"} \/ pub'[n] = pub[n]
             /\ pub[n] = "lost" => pub'[n] = "lost"
    BY <1>1 DEF Publish, Dispatch, DispatchFails, TypeOK
  <2>2. QED
    BY <1>0, <2>1, IdleKept
<1>2. ASSUME NEW r \in Request, RequestStep(r) \/ TimedOut(r) PROVE IdleInv'
  <2>1. UNCHANGED <<idle, pub>>
    BY <1>2 DEF RequestStep, TimedOut, RegisterRequest, Stored, Drained, Completed
  <2>2. QED
    BY <1>k, <2>1
<1>3. ASSUME NEW w \in Worker, WorkerStep(w) PROVE IdleInv'
  <2>1. UNCHANGED <<idle, pub>>
    BY <1>3 DEF WorkerStep, StopWorker, DequeueRecover, DequeueClaim, DequeueNone, Process,
                Finish, Ack, FailRead, Requeue, Exhaust, GiveUp, Release, SettleRow, Mark
  <2>2. QED
    BY <1>k, <2>1
<1>4. ASSUME NEW w \in Worker, DatabaseError(w) \/ Vanish(w) PROVE IdleInv'
  BY <1>k, <1>4 DEF DatabaseError, Vanish
<1>5. CASE Crash \/ Exit
  <2>1. idle'.at = "off"
    BY <1>5 DEF Crash, Exit, LoseMemory, NoCall, TypeOK
  <2>2. QED
    BY <2>1 DEF IdleInv
<1>6. CASE Close \/ Start \/ Tick \/ UNCHANGED vars
  BY <1>k, <1>6 DEF Close, Start, Tick, vars
<1>7. CASE CallWaitIdle
  BY <1>7 DEF CallWaitIdle, IdleInv, Tasks, TypeOK
<1>8. CASE IdleDrained
  BY <1>8 DEF IdleDrained, IdleInv, Tasks, TypeOK
<1>9. CASE IdleStatus
  <2>1. /\ idle.at = "asking" /\ idle' = [idle EXCEPT !.at = "checking", !.quiet = ~Active]
        /\ pub' = pub /\ rows' = rows /\ idle.before \subseteq Msg
    BY <1>9 DEF IdleStatus, TypeOK
  <2>2. idle'.at = "checking" /\ idle'.before = idle.before /\ (idle'.quiet <=> ~Active)
    BY <2>1 DEF TypeOK
  <2>3. ASSUME NEW m \in idle.before, ~Active PROVE pub[m] = "lost" \/ Final(m)
    <3>1. m \in Msg /\ pub[m] \in {"lost", "queued"}
      BY <2>1 DEF IdleInv, Tasks, TypeOK
    <3>2. pub[m] = "queued" => rows[m].status \in Status \ {"absent", "gone"}
      BY <3>1 DEF PublishInv, TypeOK, Row
    <3>3. QED
      BY <2>3, <3>1, <3>2 DEF Active, Final, Status
  <2>4. QED
    BY <2>1, <2>2, <2>3 DEF IdleInv, Tasks, Final
<1>10. CASE IdleCheck
  <2>1. UNCHANGED <<pub, rows, lapses>> /\ idle.at = "checking"
    BY <1>10 DEF IdleCheck
  <2>2. CASE idle.quiet /\ Tasks = {}
    <3>1. idle' = [idle EXCEPT !.at = "returned"]
      BY <1>10, <2>2 DEF IdleCheck
    <3>2. QED
      BY <2>1, <2>2, <3>1 DEF IdleInv, Tasks, TypeOK, NoLapse, Final
  <2>3. CASE ~(idle.quiet /\ Tasks = {})
    <3>1. idle' = [idle EXCEPT !.at = "draining", !.tasks = Tasks]
      BY <1>10, <2>3 DEF IdleCheck
    <3>2. QED
      BY <2>1, <3>1 DEF IdleInv, Tasks, TypeOK
  <2>4. QED
    BY <2>2, <2>3
<1>11. QED
  BY <1>1, <1>2, <1>3, <1>4, <1>5, <1>6, <1>7, <1>8, <1>9, <1>10 DEF Next, WaitIdle

\* When wait_idle returns, what was published before the call is settled, although it
\* counts the rows in a thread and looks at the publish tasks only later.
THEOREM WaitIdleCoversAlways == Spec => []WaitIdleCovers
<1>1. Init => IdleInv
  BY DEF Init, NoCall, IdleInv
<1>2. IdleInv => WaitIdleCovers
  BY DEF IdleInv, WaitIdleCovers, Final
<1>3. QED
  BY <1>1, <1>2, IdleStep, TypeCorrect, PublishInvAlways, QueueLeases, PTL DEF Spec
===============================================================================
