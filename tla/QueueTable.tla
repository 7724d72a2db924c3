------------------------------ MODULE QueueTable ------------------------------
(***************************************************************************)
(* One row of the SQLite table `queue_messages` and the UPDATE statements  *)
(* that storage/cfs_queue.py runs on it, each as a function from a row to  *)
(* a row.                                                                  *)
(*                                                                         *)
(* Wall-clock columns become timers relative to the present: `wait` is the *)
(* time left until available_at, `held` the time elapsed since             *)
(* processing_started_at (it stops at StaleAfter + 1, which is all that    *)
(* recover_stale can tell apart).                                          *)
(*                                                                         *)
(* Operators named after another one with a suffix (ReleaseRowUnguarded,   *)
(* StaleTooEarly, ...) are wrong variants of it; nothing uses them.  They  *)
(* show that the properties would notice such a bug.                       *)
(***************************************************************************)
EXTENDS Integers

CONSTANTS MaxAttempts,   \* the max_attempts column, the same for every row
          StaleAfter     \* stale_after_seconds, in ticks

ASSUME TableAssumption == /\ MaxAttempts \in Nat \ {0}
                          /\ StaleAfter \in Nat \ {0}

\* "absent": not inserted yet; "gone": deleted by clear().
Status == {"absent", "pending", "processing", "done", "failed", "gone"}

Row == [status   : Status,
        attempts : Nat,
        wait     : Nat,
        held     : 0 .. StaleAfter + 1,
        requeues : Nat]

NoRow == [status |-> "absent", attempts |-> 0, wait |-> 0, held |-> 0, requeues |-> 0]

GoneRow == [NoRow EXCEPT !.status = "gone"]

Exists(r) == r.status \notin {"absent", "gone"}

EnqueueRow == [NoRow EXCEPT !.status = "pending"]

Claimable(r) == r.status = "pending" /\ r.wait = 0

ClaimRow(r) == [r EXCEPT !.status = "processing", !.attempts = @ + 1, !.held = 0]

\* ack() filters on the id alone: any existing row becomes done.
AckRow(r) == IF Exists(r) THEN [r EXCEPT !.status = "done", !.held = 0] ELSE r

ReleaseRowUnguarded(r, delay) ==
  IF Exists(r)
  THEN [r EXCEPT !.status = "pending", !.attempts = @ - 1, !.wait = delay, !.held = 0]
  ELSE r

\* release() filters on status = 'processing', whoever holds the row.
ReleaseRow(r, delay) ==
  IF r.status = "processing"
  THEN [r EXCEPT !.status   = "pending",
                 !.attempts = IF @ > 0 THEN @ - 1 ELSE 0,
                 !.wait     = delay,
                 !.held     = 0]
  ELSE r

ShouldRetryOnceMore(r, retry) == retry /\ r.attempts <= MaxAttempts

ShouldRetry(r, retry) == retry /\ r.attempts < MaxAttempts

RetryRowUncounted(r, delay) ==
  IF Exists(r) THEN [r EXCEPT !.status = "pending", !.wait = delay, !.held = 0] ELSE r

\* The two UPDATEs of fail(), which filter on the id alone.  Which one runs was
\* decided before, by a SELECT of the row's attempts (not of the caller's).
RetryRow(r, delay) ==
  IF Exists(r)
  THEN [r EXCEPT !.status = "pending", !.wait = delay, !.held = 0, !.requeues = @ + 1]
  ELSE r

FailRow(r) == IF Exists(r) THEN [r EXCEPT !.status = "failed", !.held = 0] ELSE r

StaleTooEarly(r) == r.status = "processing" /\ r.held >= StaleAfter

Stale(r) == r.status = "processing" /\ r.held > StaleAfter

RecoverRowAnyAge(r) ==
  IF r.status = "processing"
  THEN [r EXCEPT !.status = "pending", !.wait = 0, !.held = 0, !.requeues = @ + 1]
  ELSE r

RecoverRowUncounted(r) ==
  IF Stale(r) THEN [r EXCEPT !.status = "pending", !.wait = 0, !.held = 0] ELSE r

RecoverRowNever(r) == r

RecoverRow(r) ==
  IF Stale(r)
  THEN [r EXCEPT !.status = "pending", !.wait = 0, !.held = 0, !.requeues = @ + 1]
  ELSE r

RequeueFailedRowAndDone(r, reset) ==
  IF r.status \in {"failed", "done"}
  THEN [r EXCEPT !.status = "pending", !.wait = 0, !.held = 0, !.requeues = @ + 1]
  ELSE r

RequeueFailedRow(r, reset) ==
  IF r.status = "failed"
  THEN [r EXCEPT !.status   = "pending",
                 !.attempts = IF reset THEN 0 ELSE @,
                 !.wait     = 0,
                 !.held     = 0,
                 !.requeues = @ + 1]
  ELSE r

ClearRow(r) == IF Exists(r) THEN GoneRow ELSE r

\* One unit of time: delays run out, leases grow old.
AgeRow(r) ==
  [r EXCEPT !.wait = IF @ > 0 THEN @ - 1 ELSE 0,
            !.held = IF r.status = "processing" /\ @ <= StaleAfter THEN @ + 1 ELSE @]
===============================================================================
