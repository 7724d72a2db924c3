------------------------------- MODULE CFSQueue -------------------------------
(***************************************************************************)
(* The persistent queue of storage/cfs_queue.py with its consumers.  Every *)
(* public method is one SQLite transaction and one action here, except two *)
(* that are two: recover_stale commits before the claim of dequeue begins, *)
(* and the SELECT of fail is over before the UPDATE opens its transaction. *)
(*                                                                         *)
(* A consumer follows the protocol of its callers: it dequeues, keeps the  *)
(* message it got, and settles it with one of ack, release and fail - or   *)
(* disappears (Abandon), which leaves the row in 'processing'.  Nothing in *)
(* the table names the consumer, so a consumer that is slower than         *)
(* stale_after_seconds settles a row that may be someone else's by then.   *)
(***************************************************************************)
EXTENDS QueueTable, FiniteSets

CONSTANTS Msg,          \* messages, numbered in the order of created_at
          Consumer,
          Free,         \* consumer value: between two messages
          Scanning,     \* consumer value: between the two transactions of dequeue
          Delays,       \* delay_seconds of release and fail, in ticks
          MaxLapses,    \* bound: ticks on which a consumer outlives its lease
          MaxOrphans,   \* bound: claims abandoned, per message
          MaxPasses     \* bound: requeue_failed and clear calls

ASSUME QueueAssumption == /\ Msg \subseteq Nat
                          /\ IsFiniteSet(Consumer)
                          /\ {Free, Scanning} \cap Msg = {}
                          /\ Free # Scanning
                          /\ Delays \subseteq Nat
                          /\ MaxLapses \in Nat
                          /\ MaxOrphans \in Nat
                          /\ MaxPasses \in Nat

VARIABLES rows,      \* the table
          claim,     \* what each consumer is doing: Free, Scanning or its message
          verdict,   \* what each consumer found in fail: should_retry, or not yet asked
          orphans,   \* claims of each message that were abandoned (history)
          lapses,    \* ticks on which a live claim outlived its lease (history)
          passes     \* operator interventions so far (history)

vars == <<rows, claim, verdict, orphans, lapses, passes>>

TypeOK == /\ rows \in [Msg -> Row]
          /\ claim \in [Consumer -> Msg \cup {Free, Scanning}]
          /\ verdict \in [Consumer -> {"none", "retry", "fail"}]
          /\ \A c \in Consumer : claim[c] \notin Msg => verdict[c] = "none"
          /\ orphans \in [Msg -> 0 .. MaxOrphans]
          /\ lapses \in 0 .. MaxLapses
          /\ passes \in 0 .. MaxPasses

Holders(m) == {c \in Consumer : claim[c] = m}

Init == /\ rows = [m \in Msg |-> NoRow]
        /\ claim = [c \in Consumer |-> Free]
        /\ verdict = [c \in Consumer |-> "none"]
        /\ orphans = [m \in Msg |-> 0]
        /\ lapses = 0
        /\ passes = 0

Enqueue(m) ==
  /\ rows[m].status = "absent"
  /\ \A n \in Msg : rows[n].status # "absent" => n < m
  /\ rows' = [rows EXCEPT ![m] = EnqueueRow]
  /\ UNCHANGED <<claim, verdict, orphans, lapses, passes>>

\* First transaction of dequeue: recover_stale.
DequeueRecover(c) ==
  /\ claim[c] = Free
  /\ claim' = [claim EXCEPT ![c] = Scanning]
  /\ rows' = [m \in Msg |-> RecoverRow(rows[m])]
  /\ UNCHANGED <<verdict, orphans, lapses, passes>>

\* Second transaction of dequeue: ORDER BY created_at LIMIT 1.
Oldest(m) == /\ Claimable(rows[m])
             /\ \A n \in Msg : Claimable(rows[n]) => m <= n

DequeueClaim(c) ==
  /\ claim[c] = Scanning
  /\ \E m \in Msg :
        /\ Oldest(m)
        /\ claim' = [claim EXCEPT ![c] = m]
        /\ rows' = [rows EXCEPT ![m] = ClaimRow(@)]
  /\ UNCHANGED <<verdict, orphans, lapses, passes>>

DequeueNone(c) ==
  /\ claim[c] = Scanning
  /\ \A m \in Msg : ~Claimable(rows[m])
  /\ claim' = [claim EXCEPT ![c] = Free]
  /\ UNCHANGED <<verdict, rows, orphans, lapses, passes>>

\* The consumer is through with message m, whose row becomes r.
Settle(c, m, r) ==
  /\ claim[c] = m
  /\ claim' = [claim EXCEPT ![c] = Free]
  /\ verdict' = [verdict EXCEPT ![c] = "none"]
  /\ rows' = [rows EXCEPT ![m] = r]
  /\ UNCHANGED <<orphans, lapses, passes>>

Ack(c, m) == verdict[c] = "none" /\ Settle(c, m, AckRow(rows[m]))

Release(c, m) ==
  verdict[c] = "none" /\ \E d \in Delays : Settle(c, m, ReleaseRow(rows[m], d))

\* The SELECT of fail; it returns at once when it finds no row.
FailRead(c, m) ==
  /\ claim[c] = m /\ verdict[c] = "none"
  /\ Exists(rows[m])
  /\ \E retry \in BOOLEAN :
        verdict' = [verdict EXCEPT ![c] = IF ShouldRetry(rows[m], retry) THEN "retry"
                                          ELSE "fail"]
  /\ UNCHANGED <<rows, claim, orphans, lapses, passes>>

FailMissing(c, m) ==
  verdict[c] = "none" /\ ~Exists(rows[m]) /\ Settle(c, m, rows[m])

\* The UPDATE of fail.
Fail(c, m) ==
  \/ verdict[c] = "retry" /\ \E d \in Delays : Settle(c, m, RetryRow(rows[m], d))
  \/ verdict[c] = "fail" /\ Settle(c, m, FailRow(rows[m]))

\* The consumer crashes or is cancelled: the row keeps its last state.
Abandon(c) ==
  /\ claim[c] # Free
  /\ claim' = [claim EXCEPT ![c] = Free]
  /\ verdict' = [verdict EXCEPT ![c] = "none"]
  /\ \/ claim[c] = Scanning /\ UNCHANGED orphans
     \/ /\ claim[c] \in Msg
        /\ orphans[claim[c]] < MaxOrphans
        /\ orphans' = [orphans EXCEPT ![claim[c]] = @ + 1]
  /\ UNCHANGED <<rows, lapses, passes>>

\* Consumers whose lease runs out at the next tick.
Overdue == {c \in Consumer : /\ claim[c] \in Msg
                             /\ rows[claim[c]].status = "processing"
                             /\ rows[claim[c]].held = StaleAfter}

Tick ==
  /\ Overdue = {} \/ lapses < MaxLapses
  /\ rows' = [m \in Msg |-> AgeRow(rows[m])]
  /\ lapses' = IF Overdue = {} THEN lapses ELSE lapses + 1
  /\ UNCHANGED <<claim, verdict, orphans, passes>>

RequeueFailed(reset) ==
  /\ passes < MaxPasses
  /\ passes' = passes + 1
  /\ rows' = [m \in Msg |-> RequeueFailedRow(rows[m], reset)]
  /\ UNCHANGED <<claim, verdict, orphans, lapses>>

Clear ==
  /\ passes < MaxPasses
  /\ passes' = passes + 1
  /\ rows' = [m \in Msg |-> ClearRow(rows[m])]
  /\ UNCHANGED <<claim, verdict, orphans, lapses>>

ConsumerStep(c) ==
  \/ DequeueRecover(c)
  \/ DequeueClaim(c)
  \/ DequeueNone(c)
  \/ \E m \in Msg : Ack(c, m) \/ Release(c, m)
  \/ \E m \in Msg : FailRead(c, m) \/ FailMissing(c, m) \/ Fail(c, m)
  \/ Abandon(c)

Next == \/ \E m \in Msg : Enqueue(m)
        \/ \E c \in Consumer : ConsumerStep(c)
        \/ Tick
        \/ \E reset \in BOOLEAN : RequeueFailed(reset)
        \/ Clear

Spec == Init /\ [][Next]_vars

-------------------------------------------------------------------------------
\* attempts counts deliveries that were not released and requeue_count the times
\* a delivery was undone by a retry or a recovery: however consumers race, a row
\* never shows more attempts than requeues explain, plus the current one.
Accounted(r) == /\ r.attempts <= r.requeues + 1
                /\ r.status = "pending" => r.attempts <= r.requeues

AttemptsAccounted == \A m \in Msg : Accounted(rows[m])

\* However long consumers overrun their leases, and although ack, release and
\* fail never check the owner, a message is in the hands of at most one consumer
\* more than the times it was requeued; in particular its first delivery is
\* exclusive.  A deleted row has no counters to compare with.
HolderCount(m) == Cardinality(Holders(m))

HoldersBounded ==
  \A m \in Msg : rows[m].status # "gone" => HolderCount(m) <= rows[m].requeues + 1

\* Its inductive form, for a row r with k holders: a row that can be claimed has
\* room for one more.
Roomy(r, k) == \/ r.status = "gone"
               \/ r.status = "absent" /\ k = 0
               \/ r.status # "absent" /\ k <= r.requeues
               \/ r.status \in {"processing", "done", "failed"} /\ k = r.requeues + 1

HoldersInv == \A m \in Msg : Roomy(rows[m], HolderCount(m))

\* As long as no consumer outlives its lease: only processing rows are held, by
\* one consumer each, although recover_stale looks at nothing but the time.
LeaseRespected ==
  /\ \A c \in Consumer :
       claim[c] \in Msg => rows[claim[c]].status \in {"processing", "gone"}
  /\ \A c, d \in Consumer : claim[c] = claim[d] /\ claim[c] \in Msg => c = d

NoLapse == lapses = 0

ExclusiveWithoutLapse == NoLapse => LeaseRespected

\* Its inductive form: a held row is also too young for recover_stale.
LeaseInv == NoLapse => /\ LeaseRespected
                       /\ \A c \in Consumer :
                            claim[c] \in Msg => rows[claim[c]].held <= StaleAfter

\* As long as no consumer outlives its lease, max_attempts bounds the deliveries
\* of a message up to one more for each abandoned claim (dequeue never compares
\* attempts with max_attempts) and for each operator pass.
Budget(m) == MaxAttempts + orphans[m] + passes

RetryBudget == NoLapse => \A m \in Msg : rows[m].attempts <= Budget(m)

\* Its inductive form, for a row r with budget b: a row that waits for a consumer,
\* or whose consumer is gone, has a delivery ahead of it.
WithinBudget(r, b, held) ==
  \/ r.attempts < b
  \/ /\ r.attempts = b
     /\ r.status # "pending"
     /\ r.status = "processing" => held

RetryInv ==
  NoLapse => \A m \in Msg : WithinBudget(rows[m], Budget(m), Holders(m) # {})

\* What fail read of the row is still so when it updates it.
VerdictInv ==
  NoLapse => \A c \in Consumer :
    claim[c] \in Msg /\ verdict[c] = "retry" => rows[claim[c]].attempts < MaxAttempts

-------------------------------------------------------------------------------
\* The abstract queue: a message's owner is the consumer that holds it while
\* its row is being processed.
CONSTANT NoOwner

ASSUME OwnerAssumption == NoOwner \notin Consumer

LeaseState(r) == IF r.status = "pending" THEN "ready"
                 ELSE IF r.status = "processing" THEN "leased"
                 ELSE r.status

LeaseOwner(m) ==
  IF rows[m].status = "processing" /\ Holders(m) # {}
  THEN CHOOSE c \in Consumer : claim[c] = m
  ELSE NoOwner

Lease == INSTANCE LeaseQueue WITH
           state <- [m \in Msg |-> LeaseState(rows[m])],
           owner <- [m \in Msg |-> LeaseOwner(m)]

\* With consumers that respect their leases the table implements LeaseQueue.
LeaseSpec == Lease!Spec

\* Whatever the bounds: up to the first lapse every step of the table is a step
\* of LeaseQueue.  After it the code breaks the promises, because ack, release
\* and fail settle a row on behalf of whoever calls them.
LeasePromises ==
  /\ Lease!Init
  /\ [][NoLapse' => [Lease!Next]_(Lease!vars)]_vars

\* A completed message is not delivered again, until a consumer has outlived its
\* lease; only clear() removes it.
DoneIsFinal ==
  [][NoLapse' => \A m \in Msg :
       rows[m].status = "done" => rows'[m].status \in {"done", "gone"}]_vars
===============================================================================
