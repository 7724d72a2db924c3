----------------------------- MODULE MCEventWorker -----------------------------
(* Instances of EventWorker for TLC: which keys, requests and parents the *)
(* events of a run have.                                                  *)
EXTENDS EventWorker, TLC

\* memory_store publishes two events for one record: one key, one request.
OneKey == [m \in Msg |-> "record"]
OneRequest == [m \in Msg |-> CHOOSE r \in Request : TRUE]
NoRequest == [m \in Msg |-> None]
NoParent == [m \in Msg |-> None]

\* The second event is published by the handler of the first.
ChildOfFirst == [m \in Msg |-> IF m = 2 THEN 1 ELSE None]

WorkerSymmetry == Permutations(Worker)

\* Bound: nobody calls wait_idle beside a handler that outlives its lease, after
\* which WaitIdleCovers says nothing.
IdleOrLapse == lapses = 0 \/ idle.at = "off"
===============================================================================
