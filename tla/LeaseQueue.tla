------------------------------ MODULE LeaseQueue ------------------------------
(***************************************************************************)
(* What a lease-based work queue promises its consumers, without tables,   *)
(* timers or retry counters: a message is leased to at most one consumer,  *)
(* only its owner settles it, a lease is taken back only after its owner   *)
(* is gone, and a completed message stays completed.                       *)
(***************************************************************************)
CONSTANTS Msg, Consumer,
          NoOwner    \* not a consumer

VARIABLES state,   \* where each message is in its life
          owner    \* the consumer a leased message belongs to

vars == <<state, owner>>

States == {"absent", "ready", "leased", "done", "failed", "gone"}

Init == /\ state = [m \in Msg |-> "absent"]
        /\ owner = [m \in Msg |-> NoOwner]

Submit(m) == /\ state[m] = "absent"
             /\ state' = [state EXCEPT ![m] = "ready"]
             /\ UNCHANGED owner

Lease(c, m) == /\ state[m] = "ready"
               /\ \A n \in Msg : owner[n] # c
               /\ state' = [state EXCEPT ![m] = "leased"]
               /\ owner' = [owner EXCEPT ![m] = c]

\* The owner completes, returns or gives up its message.
Settle(c, m) == /\ owner[m] = c
                /\ \E s \in {"done", "ready", "failed"} :
                      state' = [state EXCEPT ![m] = s]
                /\ owner' = [owner EXCEPT ![m] = NoOwner]

\* The owner disappears without settling.
Lose(c, m) == /\ owner[m] = c
              /\ owner' = [owner EXCEPT ![m] = NoOwner]
              /\ UNCHANGED state

\* Leases nobody owns any more are taken back.
Reclaim(S) == /\ \A m \in S : state[m] = "leased" /\ owner[m] = NoOwner
              /\ state' = [m \in Msg |-> IF m \in S THEN "ready" ELSE state[m]]
              /\ UNCHANGED owner

\* An operator reopens the failed messages, or deletes every message.
Reopen == /\ state' = [m \in Msg |-> IF state[m] = "failed" THEN "ready" ELSE state[m]]
          /\ UNCHANGED owner

Purge == /\ state' = [m \in Msg |-> IF state[m] = "absent" THEN "absent" ELSE "gone"]
         /\ owner' = [m \in Msg |-> NoOwner]

Next == \/ \E m \in Msg : Submit(m)
        \/ \E c \in Consumer, m \in Msg : Lease(c, m) \/ Settle(c, m) \/ Lose(c, m)
        \/ \E S \in SUBSET Msg : Reclaim(S)
        \/ Reopen
        \/ Purge

Spec == Init /\ [][Next]_vars

TypeOK == /\ state \in [Msg -> States]
          /\ owner \in [Msg -> Consumer \cup {NoOwner}]

-------------------------------------------------------------------------------
\* A message has an owner only while it is leased, and no consumer owns two:
\* the exclusive processing that CFSQueue.dequeue claims ("Atomically claim one
\* pending message").
ExclusiveLease ==
  /\ \A m \in Msg : owner[m] # NoOwner => state[m] = "leased"
  /\ \A m, n \in Msg : owner[m] = owner[n] /\ owner[m] # NoOwner => m = n

\* A completed message is never delivered again; only clear() removes it.
DoneIsFinal ==
  [][\A m \in Msg : state[m] = "done" => state'[m] \in {"done", "gone"}]_vars
===============================================================================
