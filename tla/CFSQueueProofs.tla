---------------------------- MODULE CFSQueueProofs ----------------------------
(***************************************************************************)
(* Proofs about the persistent queue, for any number of messages and       *)
(* consumers, any delays and any bounds on lapses, crashes and operator    *)
(* passes.                                                                 *)
(***************************************************************************)
EXTENDS CFSQueue, FiniteSetTheorems, TLAPS

-------------------------------------------------------------------------------
\* Every statement of cfs_queue.py maps a row to a row.
LEMMA RowOpsTyped ==
  /\ NoRow \in Row /\ EnqueueRow \in Row
  /\ \A r \in Row :
       /\ ClaimRow(r) \in Row /\ AckRow(r) \in Row /\ RecoverRow(r) \in Row
       /\ ClearRow(r) \in Row /\ AgeRow(r) \in Row
       /\ \A d \in Nat : ReleaseRow(r, d) \in Row
       /\ \A b \in BOOLEAN : RequeueFailedRow(r, b) \in Row
       /\ \A d \in Nat : RetryRow(r, d) \in Row
       /\ FailRow(r) \in Row
<1> USE DEF Row, Status
<1>0. 0 \in 0 .. StaleAfter + 1
  BY TableAssumption
<1>2. NoRow \in Row /\ EnqueueRow \in Row /\ GoneRow \in Row
  BY <1>0 DEF NoRow, EnqueueRow, GoneRow
<1> SUFFICES ASSUME NEW r \in Row, NEW d \in Nat, NEW b \in BOOLEAN
             PROVE  /\ ClaimRow(r) \in Row /\ AckRow(r) \in Row /\ RecoverRow(r) \in Row
                    /\ ClearRow(r) \in Row /\ AgeRow(r) \in Row
                    /\ ReleaseRow(r, d) \in Row
                    /\ RequeueFailedRow(r, b) \in Row
                    /\ RetryRow(r, d) \in Row /\ FailRow(r) \in Row
  <2> HIDE DEF Row, Status
  <2> QED BY <1>2, Zenon
<1>1. /\ r.attempts \in Nat /\ r.attempts + 1 \in Nat
      /\ r.attempts > 0 => r.attempts - 1 \in Nat
      /\ r.requeues \in Nat /\ r.requeues + 1 \in Nat
      /\ r.wait \in Nat /\ r.wait > 0 => r.wait - 1 \in Nat
      /\ r.held \in 0 .. StaleAfter + 1
      /\ r.held <= StaleAfter => r.held + 1 \in 0 .. StaleAfter + 1
  BY TableAssumption
<1>3. ClaimRow(r) \in Row
  BY <1>0, <1>1 DEF ClaimRow
<1>4. AckRow(r) \in Row
  BY <1>0, <1>1 DEF AckRow
<1>5. ReleaseRow(r, d) \in Row
  BY <1>0, <1>1 DEF ReleaseRow
<1>6. RetryRow(r, d) \in Row /\ FailRow(r) \in Row
  BY <1>0, <1>1 DEF RetryRow, FailRow
<1>7. RecoverRow(r) \in Row
  BY <1>0, <1>1 DEF RecoverRow
<1>8. RequeueFailedRow(r, b) \in Row
  BY <1>0, <1>1 DEF RequeueFailedRow
<1>9. ClearRow(r) \in Row
  BY <1>2 DEF ClearRow
<1>10. AgeRow(r) \in Row
  BY <1>0, <1>1 DEF AgeRow
<1>11. QED
  BY <1>2, <1>3, <1>4, <1>5, <1>6, <1>7, <1>8, <1>9, <1>10

-------------------------------------------------------------------------------
\* The variables keep their types under every method of the queue and every
\* step of a consumer.
LEMMA TypeStep == TypeOK /\ [Next]_vars => TypeOK'
<1> SUFFICES ASSUME TypeOK, [Next]_vars PROVE TypeOK'
  OBVIOUS
<1> USE QueueAssumption DEF TypeOK
<1>1. ASSUME NEW m \in Msg, Enqueue(m) PROVE TypeOK'
  BY <1>1, RowOpsTyped DEF Enqueue
<1>2. ASSUME NEW c \in Consumer, DequeueRecover(c) PROVE TypeOK'
  BY <1>2, RowOpsTyped DEF DequeueRecover
<1>3. ASSUME NEW c \in Consumer, DequeueClaim(c) PROVE TypeOK'
  BY <1>3, RowOpsTyped DEF DequeueClaim
<1>4. ASSUME NEW c \in Consumer, DequeueNone(c) PROVE TypeOK'
  BY <1>4 DEF DequeueNone
<1>5. ASSUME NEW c \in Consumer, NEW m \in Msg, NEW r \in Row, Settle(c, m, r)
      PROVE  TypeOK'
  BY <1>5 DEF Settle
<1>6. ASSUME NEW c \in Consumer, NEW m \in Msg,
             Ack(c, m) \/ Release(c, m) \/ FailMissing(c, m) \/ Fail(c, m)
      PROVE  TypeOK'
  BY <1>5, <1>6, RowOpsTyped DEF Ack, Release, FailMissing, Fail
<1>6a. ASSUME NEW c \in Consumer, NEW m \in Msg, FailRead(c, m) PROVE TypeOK'
  BY <1>6a DEF FailRead
<1>7. ASSUME NEW c \in Consumer, Abandon(c) PROVE TypeOK'
  <2>1. CASE claim[c] \in Msg /\ orphans[claim[c]] < MaxOrphans
    <3>0. orphans[claim[c]] \in 0 .. MaxOrphans
      BY <2>1
    <3>1. orphans[claim[c]] + 1 \in 0 .. MaxOrphans
      BY <2>1, <3>0
    <3>2. orphans' \in [Msg -> 0 .. MaxOrphans]
      BY <1>7, <2>1, <3>1 DEF Abandon
    <3>3. QED
      BY <1>7, <3>2 DEF Abandon
  <2>2. CASE claim[c] = Scanning
    BY <1>7, <2>2 DEF Abandon
  <2>3. QED
    BY <1>7, <2>1, <2>2 DEF Abandon
<1>8. CASE Tick
  <2>1. lapses' \in 0 .. MaxLapses
    BY <1>8 DEF Tick
  <2>2. QED
    BY <1>8, <2>1, RowOpsTyped DEF Tick
<1>9. ASSUME NEW reset \in BOOLEAN, RequeueFailed(reset) PROVE TypeOK'
  <2>1. passes + 1 \in 0 .. MaxPasses
    BY <1>9 DEF RequeueFailed
  <2>2. QED
    BY <1>9, <2>1, RowOpsTyped DEF RequeueFailed
<1>10. CASE Clear
  <2>1. passes + 1 \in 0 .. MaxPasses
    BY <1>10 DEF Clear
  <2>2. QED
    BY <1>10, <2>1, RowOpsTyped DEF Clear
<1>11. CASE UNCHANGED vars
  BY <1>11 DEF vars
<1>12. QED
  BY <1>1, <1>2, <1>3, <1>4, <1>6, <1>6a, <1>7, <1>8, <1>9, <1>10, <1>11
     DEF Next, ConsumerStep

\* Type correctness of the queue model.
THEOREM TypeCorrect == Spec => []TypeOK
<1>1. Init => TypeOK
  BY QueueAssumption, RowOpsTyped DEF Init, TypeOK
<1>2. QED
  BY <1>1, TypeStep, PTL DEF Spec

-------------------------------------------------------------------------------
\* No statement on a row breaks the balance of attempts and requeues.
LEMMA RowOpsAccounted ==
  /\ Accounted(NoRow) /\ Accounted(EnqueueRow)
  /\ \A r \in Row : Accounted(r) =>
       /\ r.status = "pending" => Accounted(ClaimRow(r))
       /\ Accounted(AckRow(r)) /\ Accounted(RecoverRow(r))
       /\ Accounted(ClearRow(r)) /\ Accounted(AgeRow(r))
       /\ \A d \in Nat : Accounted(ReleaseRow(r, d))
       /\ \A b \in BOOLEAN : Accounted(RequeueFailedRow(r, b))
       /\ \A d \in Nat : Accounted(RetryRow(r, d))
       /\ Accounted(FailRow(r))
<1>1. Accounted(NoRow) /\ Accounted(EnqueueRow) /\ Accounted(GoneRow)
  BY DEF NoRow, EnqueueRow, GoneRow, Accounted
<1> SUFFICES ASSUME NEW r \in Row, NEW d \in Nat, NEW b \in BOOLEAN, Accounted(r)
             PROVE  /\ r.status = "pending" => Accounted(ClaimRow(r))
                    /\ Accounted(AckRow(r)) /\ Accounted(RecoverRow(r))
                    /\ Accounted(ClearRow(r)) /\ Accounted(AgeRow(r))
                    /\ Accounted(ReleaseRow(r, d))
                    /\ Accounted(RequeueFailedRow(r, b))
                    /\ Accounted(RetryRow(r, d)) /\ Accounted(FailRow(r))
  BY <1>1
<1> USE DEF Row, Accounted
<1>2. r.attempts \in Nat /\ r.requeues \in Nat
  OBVIOUS
<1>3. r.status = "pending" => Accounted(ClaimRow(r))
  BY <1>2 DEF ClaimRow
<1>4. Accounted(AckRow(r))
  BY <1>2 DEF AckRow
<1>5. Accounted(ReleaseRow(r, d))
  BY <1>2 DEF ReleaseRow
<1>6. Accounted(RetryRow(r, d)) /\ Accounted(FailRow(r))
  BY <1>2 DEF RetryRow, FailRow
<1>7. Accounted(RecoverRow(r))
  BY <1>2 DEF RecoverRow
<1>8. Accounted(RequeueFailedRow(r, b))
  BY <1>2 DEF RequeueFailedRow
<1>9. Accounted(ClearRow(r))
  BY <1>1 DEF ClearRow
<1>10. Accounted(AgeRow(r))
  BY <1>2 DEF AgeRow
<1>11. QED
  BY <1>3, <1>4, <1>5, <1>6, <1>7, <1>8, <1>9, <1>10

\* Whatever the consumers do, a row's attempts are explained by its requeues.
THEOREM AttemptsAccountedAlways == Spec => []AttemptsAccounted
<1> USE DEF AttemptsAccounted
<1>1. Init => AttemptsAccounted
  BY RowOpsAccounted DEF Init
<1>2. TypeOK /\ AttemptsAccounted /\ [Next]_vars => AttemptsAccounted'
  <2> SUFFICES ASSUME TypeOK, AttemptsAccounted, [Next]_vars
               PROVE  AttemptsAccounted'
    OBVIOUS
  <2> USE RowOpsAccounted, QueueAssumption DEF TypeOK
  <2>1. ASSUME NEW m \in Msg, Enqueue(m) PROVE AttemptsAccounted'
    BY <2>1 DEF Enqueue
  <2>2. ASSUME NEW c \in Consumer, DequeueRecover(c) PROVE AttemptsAccounted'
    BY <2>2 DEF DequeueRecover
  <2>3. ASSUME NEW c \in Consumer, DequeueClaim(c) PROVE AttemptsAccounted'
    <3>1. PICK m \in Msg : /\ rows[m].status = "pending"
                           /\ rows' = [rows EXCEPT ![m] = ClaimRow(@)]
      BY <2>3 DEF DequeueClaim, Oldest, Claimable
    <3>2. QED
      BY <3>1
  <2>4. ASSUME NEW c \in Consumer, NEW m \in Msg,
               Ack(c, m) \/ Release(c, m) \/ FailMissing(c, m) \/ Fail(c, m)
        PROVE  AttemptsAccounted'
    BY <2>4 DEF Ack, Release, FailMissing, Fail, Settle
  <2>5. ASSUME NEW c \in Consumer,
               DequeueNone(c) \/ Abandon(c) \/ \E m \in Msg : FailRead(c, m)
        PROVE  AttemptsAccounted'
    BY <2>5 DEF DequeueNone, Abandon, FailRead
  <2>6. CASE Tick
    BY <2>6 DEF Tick
  <2>7. ASSUME NEW reset \in BOOLEAN, RequeueFailed(reset) PROVE AttemptsAccounted'
    BY <2>7 DEF RequeueFailed
  <2>8. CASE Clear
    BY <2>8 DEF Clear
  <2>9. CASE UNCHANGED vars
    BY <2>9 DEF vars
  <2>10. QED
    BY <2>1, <2>2, <2>3, <2>4, <2>5, <2>6, <2>7, <2>8, <2>9 DEF Next, ConsumerStep
<1>3. QED
  BY <1>1, <1>2, TypeCorrect, PTL DEF Spec

-------------------------------------------------------------------------------
\* No statement on a row breaks the balance of requeues and holders, when k is the
\* number of holders the row has before it.
LEMMA RowOpsRoomy ==
  ASSUME NEW r \in Row, NEW k \in Nat, Roomy(r, k), NEW d \in Nat, NEW b \in BOOLEAN
  PROVE  /\ r.status = "absent" => Roomy(EnqueueRow, k)
         /\ r.status = "pending" => Roomy(ClaimRow(r), k + 1)
         /\ Roomy(RecoverRow(r), k) /\ Roomy(ClearRow(r), k) /\ Roomy(AgeRow(r), k)
         /\ Roomy(RequeueFailedRow(r, b), k)
         /\ k > 0 => /\ Roomy(AckRow(r), k - 1) /\ Roomy(ReleaseRow(r, d), k - 1)
                     /\ Roomy(RetryRow(r, d), k - 1) /\ Roomy(FailRow(r), k - 1)
                     /\ Roomy(r, k - 1)
<1> USE DEF Row, Roomy
<1>1. r.requeues \in Nat
  OBVIOUS
<1>2. r.status = "absent" => Roomy(EnqueueRow, k)
  BY DEF EnqueueRow, NoRow
<1>3. r.status = "pending" => Roomy(ClaimRow(r), k + 1)
  BY <1>1 DEF ClaimRow
<1>4. Roomy(RecoverRow(r), k)
  BY <1>1 DEF RecoverRow, Stale
<1>5. Roomy(ClearRow(r), k)
  BY <1>1 DEF ClearRow, GoneRow, NoRow
<1>6. Roomy(AgeRow(r), k)
  BY <1>1 DEF AgeRow
<1>7. Roomy(RequeueFailedRow(r, b), k)
  BY <1>1 DEF RequeueFailedRow
<1>8. k > 0 => Roomy(AckRow(r), k - 1)
  BY <1>1 DEF AckRow, Exists
<1>9. k > 0 => Roomy(ReleaseRow(r, d), k - 1)
  BY <1>1 DEF ReleaseRow
<1>10. k > 0 => Roomy(RetryRow(r, d), k - 1) /\ Roomy(FailRow(r), k - 1)
  BY <1>1 DEF RetryRow, FailRow, Exists
<1>11. k > 0 => Roomy(r, k - 1)
  BY <1>1
<1>12. QED
  BY <1>2, <1>3, <1>4, <1>5, <1>6, <1>7, <1>8, <1>9, <1>10, <1>11

\* A consumer enters or leaves the set of holders of one message at a time.
LEMMA HoldersFinite ==
  ASSUME NEW m \in Msg
  PROVE  IsFiniteSet(Holders(m)) /\ HolderCount(m) \in Nat
BY QueueAssumption, FS_Subset, FS_CardinalityType DEF Holders, HolderCount

LEMMA HolderLeaves ==
  ASSUME TypeOK, NEW c \in Consumer, NEW m \in Msg, claim[c] = m,
         claim' = [claim EXCEPT ![c] = Free]
  PROVE  /\ HolderCount(m)' = HolderCount(m) - 1
         /\ \A n \in Msg \ {m} : HolderCount(n)' = HolderCount(n)
<1>1. Holders(m)' = Holders(m) \ {c} /\ c \in Holders(m)
  BY QueueAssumption DEF Holders, TypeOK
<1>2. \A n \in Msg \ {m} : Holders(n)' = Holders(n)
  BY QueueAssumption DEF Holders, TypeOK
<1>3. QED
  BY <1>1, <1>2, HoldersFinite, FS_RemoveElement DEF HolderCount

LEMMA HolderEnters ==
  ASSUME TypeOK, NEW c \in Consumer, NEW m \in Msg, claim[c] = Scanning,
         claim' = [claim EXCEPT ![c] = m]
  PROVE  /\ HolderCount(m)' = HolderCount(m) + 1
         /\ \A n \in Msg \ {m} : HolderCount(n)' = HolderCount(n)
<1>1. Holders(m)' = Holders(m) \cup {c} /\ c \notin Holders(m)
  BY QueueAssumption DEF Holders, TypeOK
<1>2. \A n \in Msg \ {m} : Holders(n)' = Holders(n)
  BY QueueAssumption DEF Holders, TypeOK
<1>3. QED
  BY <1>1, <1>2, HoldersFinite, FS_AddElement DEF HolderCount

LEMMA HoldersKept ==
  ASSUME TypeOK, NEW c \in Consumer, NEW x \in {Free, Scanning},
         claim[c] \in {Free, Scanning}, claim' = [claim EXCEPT ![c] = x]
  PROVE  \A n \in Msg : HolderCount(n)' = HolderCount(n)
BY QueueAssumption DEF Holders, HolderCount, TypeOK

LEMMA HoldersStep == TypeOK /\ HoldersInv /\ [Next]_vars => HoldersInv'
<1> SUFFICES ASSUME TypeOK, HoldersInv, [Next]_vars, NEW n \in Msg
             PROVE  Roomy(rows[n], HolderCount(n))'
  BY DEF HoldersInv
<1> USE QueueAssumption DEF TypeOK
<1>a. /\ rows[n] \in Row /\ HolderCount(n) \in Nat
      /\ Roomy(rows[n], HolderCount(n))
  BY HoldersFinite DEF HoldersInv
<1>b. claim' = claim => HolderCount(n)' = HolderCount(n)
  BY DEF HolderCount, Holders
<1> DEFINE Goal == Roomy(rows'[n], HolderCount(n)')
<1>1. ASSUME NEW m \in Msg, Enqueue(m) PROVE Goal
  BY <1>1, <1>a, <1>b, RowOpsRoomy DEF Enqueue
<1>2. ASSUME NEW c \in Consumer, DequeueRecover(c) PROVE Goal
  <2>1. HolderCount(n)' = HolderCount(n)
    BY <1>2, HoldersKept DEF DequeueRecover
  <2>2. QED
    BY <1>2, <1>a, <2>1, RowOpsRoomy DEF DequeueRecover
<1>3. ASSUME NEW c \in Consumer, DequeueClaim(c) PROVE Goal
  <2>1. PICK m \in Msg : /\ rows[m].status = "pending"
                         /\ claim[c] = Scanning
                         /\ claim' = [claim EXCEPT ![c] = m]
                         /\ rows' = [rows EXCEPT ![m] = ClaimRow(@)]
    BY <1>3 DEF DequeueClaim, Oldest, Claimable
  <2>2. CASE n = m
    <3>1. HolderCount(n)' = HolderCount(n) + 1
      BY <2>1, <2>2, HolderEnters
    <3>2. rows'[n] = ClaimRow(rows[n])
      BY <2>1, <2>2
    <3>3. Roomy(ClaimRow(rows[n]), HolderCount(n) + 1)
      BY <1>a, <2>1, <2>2, RowOpsRoomy
    <3>4. QED
      BY <3>1, <3>2, <3>3
  <2>3. CASE n # m
    <3>1. HolderCount(n)' = HolderCount(n)
      BY <2>1, <2>3, HolderEnters
    <3>2. QED
      BY <1>a, <2>1, <2>3, <3>1
  <2>4. QED
    BY <2>2, <2>3
<1>4. ASSUME NEW c \in Consumer, NEW m \in Msg, NEW r \in Row, claim[c] = m,
             claim' = [claim EXCEPT ![c] = Free], rows' = [rows EXCEPT ![m] = r],
             n = m /\ HolderCount(n) > 0 => Roomy(r, HolderCount(n) - 1)
      PROVE  Goal
  <2>1. CASE n = m
    <3>1. HolderCount(n)' = HolderCount(n) - 1 /\ HolderCount(n) > 0
      <4>1. HolderCount(m)' = HolderCount(m) - 1
        BY <1>4, HolderLeaves
      <4>2. c \in Holders(m)
        BY <1>4 DEF Holders
      <4>3. HolderCount(m) # 0
        BY <4>2, HoldersFinite, FS_EmptySet DEF HolderCount
      <4>4. QED
        BY <1>a, <2>1, <4>1, <4>3
    <3>2. rows'[n] = r
      BY <1>4, <2>1
    <3>3. QED
      BY <1>4, <2>1, <3>1, <3>2
  <2>2. CASE n # m
    <3>1. HolderCount(n)' = HolderCount(n)
      BY <1>4, <2>2, HolderLeaves
    <3>2. QED
      BY <1>4, <1>a, <2>2, <3>1
  <2>3. QED
    BY <2>1, <2>2
<1>5. ASSUME NEW c \in Consumer, NEW m \in Msg, Ack(c, m) PROVE Goal
  BY <1>4, <1>5, <1>a, RowOpsRoomy, RowOpsTyped DEF Ack, Settle
<1>6. ASSUME NEW c \in Consumer, NEW m \in Msg, Release(c, m) PROVE Goal
  BY <1>4, <1>6, <1>a, RowOpsRoomy, RowOpsTyped DEF Release, Settle
<1>7. ASSUME NEW c \in Consumer, NEW m \in Msg, FailMissing(c, m) \/ Fail(c, m) PROVE Goal
  BY <1>4, <1>7, <1>a, RowOpsRoomy, RowOpsTyped DEF FailMissing, Fail, Settle
<1>7a. ASSUME NEW c \in Consumer, NEW m \in Msg, FailRead(c, m) PROVE Goal
  BY <1>7a, <1>a, <1>b DEF FailRead
<1>8. ASSUME NEW c \in Consumer, DequeueNone(c) PROVE Goal
  <2>1. HolderCount(n)' = HolderCount(n)
    BY <1>8, HoldersKept DEF DequeueNone
  <2>2. QED
    BY <1>8, <1>a, <2>1 DEF DequeueNone
<1>9. ASSUME NEW c \in Consumer, Abandon(c) PROVE Goal
  <2>1. CASE claim[c] = Scanning
    <3>1. HolderCount(n)' = HolderCount(n)
      BY <1>9, <2>1, HoldersKept DEF Abandon
    <3>2. QED
      BY <1>9, <1>a, <3>1 DEF Abandon
  <2>2. ASSUME NEW m \in Msg, claim[c] = m PROVE Goal
    <3>1. rows' = [rows EXCEPT ![m] = rows[m]] /\ claim' = [claim EXCEPT ![c] = Free]
      BY <1>9 DEF Abandon
    <3>2. n = m /\ HolderCount(n) > 0 => Roomy(rows[m], HolderCount(n) - 1)
      BY <1>a, RowOpsRoomy
    <3>3. QED
      BY <1>4, <2>2, <3>1, <3>2
  <2>3. QED
    BY <1>9, <2>1, <2>2 DEF Abandon
<1>10. CASE Tick
  BY <1>10, <1>a, <1>b, RowOpsRoomy DEF Tick
<1>11. ASSUME NEW reset \in BOOLEAN, RequeueFailed(reset) PROVE Goal
  BY <1>11, <1>a, <1>b, RowOpsRoomy DEF RequeueFailed
<1>12. CASE Clear
  BY <1>12, <1>a, <1>b, RowOpsRoomy DEF Clear
<1>13. CASE UNCHANGED vars
  BY <1>13, <1>a, <1>b DEF vars
<1>14. QED
  BY <1>1, <1>2, <1>3, <1>5, <1>6, <1>7, <1>7a, <1>8, <1>9, <1>10, <1>11, <1>12, <1>13
     DEF Next, ConsumerStep

\* A message is never in more hands than its requeues explain.
THEOREM HoldersBoundedAlways == Spec => []HoldersBounded
<1>1. Init => HoldersInv
  <2> SUFFICES ASSUME Init, NEW m \in Msg PROVE Roomy(rows[m], HolderCount(m))
    BY DEF HoldersInv
  <2>1. Holders(m) = {}
    BY QueueAssumption DEF Init, Holders
  <2>2. HolderCount(m) = 0
    BY <2>1, FS_EmptySet DEF HolderCount
  <2>3. QED
    BY <2>2 DEF Init, Roomy, NoRow
<1>2. TypeOK /\ HoldersInv => HoldersBounded
  BY HoldersFinite DEF HoldersInv, HoldersBounded, TypeOK, Row, Roomy
<1>3. QED
  BY <1>1, <1>2, HoldersStep, TypeCorrect, PTL DEF Spec

-------------------------------------------------------------------------------
\* What the statements do to a row that is being processed within its lease, and
\* to one whose message nobody holds.
LEMMA RowOpsLease ==
  ASSUME NEW r \in Row
  PROVE  /\ ClaimRow(r).status = "processing" /\ ClaimRow(r).held = 0
         /\ r.held <= StaleAfter => RecoverRow(r) = r
         /\ r.status = "gone" => (RecoverRow(r) = r /\ ClearRow(r) = r /\ AgeRow(r).status = "gone")
         /\ ClearRow(r) = r \/ (ClearRow(r).status = "gone" /\ ClearRow(r).held = 0)
         /\ r.status = "processing" => (AgeRow(r).status = "processing" /\ ClearRow(r) = GoneRow)
         /\ r.held < StaleAfter => AgeRow(r).held <= StaleAfter
         /\ r.status # "processing" => AgeRow(r).held = r.held
         /\ r.status # "failed" => \A b \in BOOLEAN : RequeueFailedRow(r, b) = r
<1> USE DEF Row
<1>0. r.held \in 0 .. StaleAfter + 1 /\ StaleAfter \in Nat
  BY TableAssumption
<1>1. ClaimRow(r).status = "processing" /\ ClaimRow(r).held = 0
  BY DEF ClaimRow
<1>2. /\ r.held <= StaleAfter => RecoverRow(r) = r
      /\ r.status = "gone" => RecoverRow(r) = r
  BY <1>0 DEF RecoverRow, Stale
<1>3. /\ r.status = "gone" => ClearRow(r) = r
      /\ ClearRow(r) = r \/ (ClearRow(r).status = "gone" /\ ClearRow(r).held = 0)
      /\ r.status = "processing" => ClearRow(r) = GoneRow
  BY DEF ClearRow, Exists, GoneRow, NoRow
<1>4. AgeRow(r).status = r.status
  BY DEF AgeRow
<1>5. /\ r.held < StaleAfter => AgeRow(r).held <= StaleAfter
      /\ r.status # "processing" => AgeRow(r).held = r.held
  BY <1>0 DEF AgeRow
<1>6. r.status # "failed" => \A b \in BOOLEAN : RequeueFailedRow(r, b) = r
  BY DEF RequeueFailedRow
<1>7. QED
  BY <1>1, <1>2, <1>3, <1>4, <1>5, <1>6

\* The message of a consumer c, while its lease lasts.
Leased(c) == /\ rows[claim[c]].status \in {"processing", "gone"}
             /\ rows[claim[c]].held <= StaleAfter

LEMMA LeaseStep == TypeOK /\ LeaseInv /\ [Next]_vars => LeaseInv'
<1> SUFFICES ASSUME TypeOK, LeaseInv, [Next]_vars, NoLapse' PROVE LeaseInv'
  BY DEF LeaseInv
<1> USE QueueAssumption DEF TypeOK
<1>a. LeaseInv' <=> /\ \A c \in Consumer : claim'[c] \in Msg => Leased(c)'
                    /\ \A c, d \in Consumer : claim'[c] = claim'[d] /\ claim'[c] \in Msg => c = d
  BY DEF LeaseInv, LeaseRespected, Leased
<1>b. NoLapse /\ lapses' = lapses
  <2>1. lapses' = lapses \/ lapses' = lapses + 1
    BY DEF Next, ConsumerStep, Enqueue, DequeueRecover, DequeueClaim, DequeueNone, Ack,
           Release, FailRead, FailMissing, Fail, Settle, Abandon, Tick, RequeueFailed, Clear,
           vars
  <2>2. QED
    BY <2>1 DEF NoLapse
<1>c. /\ \A c \in Consumer : claim[c] \in Msg => Leased(c)
      /\ \A c, d \in Consumer : claim[c] = claim[d] /\ claim[c] \in Msg => c = d
  BY <1>b DEF LeaseInv, LeaseRespected, Leased
<1>d. \A c \in Consumer : claim[c] \in Msg => rows[claim[c]] \in Row
  OBVIOUS
<1>1. ASSUME NEW m \in Msg, Enqueue(m) PROVE LeaseInv'
  BY <1>1, <1>a, <1>c DEF Enqueue, Leased
<1>2. ASSUME NEW c \in Consumer, DequeueRecover(c) PROVE LeaseInv'
  BY <1>2, <1>a, <1>c, <1>d, RowOpsLease DEF DequeueRecover, Leased
<1>3. ASSUME NEW c \in Consumer, DequeueClaim(c) PROVE LeaseInv'
  <2>1. PICK m \in Msg : /\ rows[m].status = "pending"
                         /\ claim[c] = Scanning
                         /\ claim' = [claim EXCEPT ![c] = m]
                         /\ rows' = [rows EXCEPT ![m] = ClaimRow(@)]
    BY <1>3 DEF DequeueClaim, Oldest, Claimable
  <2>2. \A d \in Consumer : claim[d] # m
    BY <1>c, <2>1 DEF Leased
  <2>3. Leased(c)'
    BY <2>1, RowOpsLease, TableAssumption DEF Leased
  <2>4. QED
    BY <1>a, <1>c, <2>1, <2>2, <2>3 DEF Leased
<1>4. ASSUME NEW c \in Consumer, NEW m \in Msg, claim[c] = m,
             claim' = [claim EXCEPT ![c] = Free],
             \A n \in Msg \ {m} : rows'[n] = rows[n]
      PROVE  LeaseInv'
  <2>1. \A d \in Consumer \ {c} : claim[d] # m
    BY <1>4, <1>c
  <2>2. \A d \in Consumer : claim'[d] \in Msg => d # c /\ claim'[d] = claim[d]
    BY <1>4
  <2>3. QED
    BY <1>4, <1>a, <1>c, <2>1, <2>2 DEF Leased
<1>5. ASSUME NEW c \in Consumer, NEW m \in Msg,
             Ack(c, m) \/ Release(c, m) \/ FailMissing(c, m) \/ Fail(c, m)
      PROVE  LeaseInv'
  BY <1>4, <1>5 DEF Ack, Release, FailMissing, Fail, Settle
<1>5a. ASSUME NEW c \in Consumer, NEW m \in Msg, FailRead(c, m) PROVE LeaseInv'
  BY <1>5a, <1>a, <1>c DEF FailRead, Leased
<1>6. ASSUME NEW c \in Consumer, claim' = [claim EXCEPT ![c] = Free], rows' = rows
      PROVE  LeaseInv'
  <2>2. \A d \in Consumer : claim'[d] \in Msg => d # c /\ claim'[d] = claim[d]
    BY <1>6
  <2>3. QED
    BY <1>6, <1>a, <1>c, <2>2 DEF Leased
<1>7. ASSUME NEW c \in Consumer, DequeueNone(c) \/ Abandon(c) PROVE LeaseInv'
  BY <1>6, <1>7 DEF DequeueNone, Abandon
<1>8. CASE Tick
  <2>1. Overdue = {}
    BY <1>8, <1>b DEF Tick
  <2>2. ASSUME NEW c \in Consumer, claim'[c] \in Msg PROVE Leased(c)'
    <3>1. claim[c] \in Msg /\ Leased(c) /\ rows[claim[c]] \in Row
      BY <1>8, <1>c, <1>d, <2>2 DEF Tick
    <3>2. rows'[claim'[c]] = AgeRow(rows[claim[c]])
      BY <1>8, <3>1 DEF Tick
    <3>3. rows[claim[c]].status = "processing" => rows[claim[c]].held < StaleAfter
      BY <2>1, <3>1, TableAssumption DEF Overdue, Leased, Row
    <3>4. QED
      BY <3>1, <3>2, <3>3, RowOpsLease DEF Leased
  <2>3. QED
    BY <1>8, <1>a, <1>c, <2>2 DEF Tick
<1>9. ASSUME NEW reset \in BOOLEAN, RequeueFailed(reset) PROVE LeaseInv'
  BY <1>9, <1>a, <1>c, <1>d, RowOpsLease DEF RequeueFailed, Leased
<1>10. CASE Clear
  BY <1>10, <1>a, <1>c, <1>d, RowOpsLease, TableAssumption DEF Clear, Leased
<1>11. CASE UNCHANGED vars
  BY <1>11, <1>a, <1>c DEF vars, Leased
<1>12. QED
  BY <1>1, <1>2, <1>3, <1>5, <1>5a, <1>7, <1>8, <1>9, <1>10, <1>11 DEF Next, ConsumerStep

LEMMA LeaseInvAlways == Spec => []LeaseInv
<1>1. Init => LeaseInv
  BY QueueAssumption DEF Init, LeaseInv, LeaseRespected
<1>2. QED
  BY <1>1, LeaseStep, TypeCorrect, PTL DEF Spec

\* While no consumer outlives its lease, every message has one holder at most
\* and only rows in processing are held.
THEOREM ExclusiveWithoutLapseAlways == Spec => []ExclusiveWithoutLapse
<1>1. LeaseInv => ExclusiveWithoutLapse
  BY DEF LeaseInv, ExclusiveWithoutLapse
<1>2. QED
  BY <1>1, LeaseInvAlways, PTL

-------------------------------------------------------------------------------
\* What the statements do to the deliveries a row has left.
LEMMA RowOpsBudget ==
  ASSUME NEW r \in Row, NEW b \in Nat, b >= MaxAttempts, NEW h \in BOOLEAN,
         WithinBudget(r, b, h), NEW d \in Nat, NEW x \in BOOLEAN
  PROVE  /\ WithinBudget(EnqueueRow, b, h)
         /\ r.status = "pending" => WithinBudget(ClaimRow(r), b, TRUE)
         /\ WithinBudget(AckRow(r), b, FALSE)
         /\ WithinBudget(ReleaseRow(r, d), b, FALSE)
         /\ (h => r.held <= StaleAfter) => WithinBudget(RecoverRow(r), b, h)
         /\ WithinBudget(AgeRow(r), b, h)
         /\ WithinBudget(RequeueFailedRow(r, x), b + 1, h)
         /\ WithinBudget(ClearRow(r), b + 1, h)
         /\ WithinBudget(r, b + 1, FALSE)
<1> USE TableAssumption DEF Row, WithinBudget
<1>1. r.attempts \in Nat /\ MaxAttempts \in Nat \ {0}
  OBVIOUS
<1>2. WithinBudget(EnqueueRow, b, h)
  BY <1>1 DEF EnqueueRow, NoRow
<1>3. r.status = "pending" => WithinBudget(ClaimRow(r), b, TRUE)
  BY <1>1 DEF ClaimRow
<1>4. WithinBudget(AckRow(r), b, FALSE)
  BY <1>1 DEF AckRow, Exists
<1>5. WithinBudget(ReleaseRow(r, d), b, FALSE)
  BY <1>1 DEF ReleaseRow
<1>7. (h => r.held <= StaleAfter) => WithinBudget(RecoverRow(r), b, h)
  BY <1>1 DEF RecoverRow, Stale
<1>8. WithinBudget(AgeRow(r), b, h)
  BY <1>1 DEF AgeRow
<1>9. WithinBudget(RequeueFailedRow(r, x), b + 1, h)
  BY <1>1 DEF RequeueFailedRow
<1>10. WithinBudget(ClearRow(r), b + 1, h)
  BY <1>1 DEF ClearRow, GoneRow, NoRow
<1>11. WithinBudget(r, b + 1, FALSE)
  BY <1>1
<1>12. QED
  BY <1>2, <1>3, <1>4, <1>5, <1>7, <1>8, <1>9, <1>10, <1>11

LEMMA FailBudget ==
  ASSUME NEW r \in Row, NEW b \in Nat, b >= MaxAttempts, NEW h \in BOOLEAN,
         WithinBudget(r, b, h)
  PROVE  /\ WithinBudget(FailRow(r), b, FALSE)
         /\ r.attempts < MaxAttempts => \A d \in Nat : WithinBudget(RetryRow(r, d), b, FALSE)
BY TableAssumption DEF RetryRow, FailRow, Exists, Row, WithinBudget

\* What fail reads of a row is still so when it writes it, while leases last: nobody
\* claims the row meanwhile, and nothing else counts attempts up.
LEMMA VerdictStep == TypeOK /\ LeaseInv /\ VerdictInv /\ [Next]_vars => VerdictInv'
<1> SUFFICES ASSUME TypeOK, LeaseInv, VerdictInv, [Next]_vars, NoLapse', NEW e \in Consumer,
                    claim'[e] \in Msg, verdict'[e] = "retry"
             PROVE  rows'[claim'[e]].attempts < MaxAttempts
  BY DEF VerdictInv
<1> USE QueueAssumption, TableAssumption DEF TypeOK
<1>b. NoLapse
  <2>1. lapses' = lapses \/ lapses' = lapses + 1
    BY DEF Next, ConsumerStep, Enqueue, DequeueRecover, DequeueClaim, DequeueNone, Ack,
           Release, FailRead, FailMissing, Fail, Settle, Abandon, Tick, RequeueFailed, Clear,
           vars
  <2>2. QED
    BY <2>1 DEF NoLapse
<1>c. ASSUME NEW c \in Consumer, claim[c] \in Msg
      PROVE  /\ rows[claim[c]] \in Row
             /\ rows[claim[c]].status \in {"processing", "gone"}
             /\ verdict[c] = "retry" => rows[claim[c]].attempts < MaxAttempts
             /\ rows[claim[c]].held <= StaleAfter
             /\ \A d \in Consumer : claim[d] = claim[c] => c = d
  BY <1>b, <1>c DEF LeaseInv, LeaseRespected, VerdictInv
\* A step that leaves the consumer and its row alone, or counts no attempt of it.
<1>d. ASSUME claim'[e] = claim[e], verdict'[e] = verdict[e],
             rows'[claim[e]].attempts \in {rows[claim[e]].attempts, 0}
      PROVE  rows'[claim'[e]].attempts < MaxAttempts
  BY <1>c, <1>d
<1>1. CASE \E m \in Msg : Enqueue(m)
  BY <1>1, <1>c, <1>d DEF Enqueue
<1>2. ASSUME NEW c \in Consumer, DequeueRecover(c) PROVE rows'[claim'[e]].attempts < MaxAttempts
  <2>1. e # c /\ claim'[e] = claim[e] /\ verdict'[e] = verdict[e] /\ claim[e] \in Msg
    BY <1>2 DEF DequeueRecover
  <2>2. rows'[claim[e]] = RecoverRow(rows[claim[e]])
    BY <1>2, <2>1 DEF DequeueRecover
  <2>3. RecoverRow(rows[claim[e]]).attempts = rows[claim[e]].attempts
    BY <1>c, <2>1 DEF RecoverRow, Row
  <2>4. QED
    BY <1>d, <2>1, <2>2, <2>3
<1>3. ASSUME NEW c \in Consumer, DequeueClaim(c) PROVE rows'[claim'[e]].attempts < MaxAttempts
  <2>1. PICK m \in Msg : /\ rows[m].status = "pending"
                         /\ claim' = [claim EXCEPT ![c] = m]
                         /\ rows' = [rows EXCEPT ![m] = ClaimRow(@)]
                         /\ claim[c] = Scanning /\ verdict' = verdict
    BY <1>3 DEF DequeueClaim, Oldest, Claimable
  <2>2. CASE e = c
    BY <2>1, <2>2
  <2>3. CASE e # c
    <3>1. claim[e] \in Msg /\ claim'[e] = claim[e] /\ claim[e] # m
      BY <1>c, <2>1, <2>3
    <3>2. QED
      BY <1>d, <2>1, <3>1
  <2>4. QED
    BY <2>2, <2>3
<1>4. ASSUME NEW c \in Consumer, NEW m \in Msg, NEW r, Settle(c, m, r)
      PROVE  rows'[claim'[e]].attempts < MaxAttempts
  <2>1. e # c /\ claim'[e] = claim[e] /\ verdict'[e] = verdict[e] /\ claim[e] \in Msg
    BY <1>4 DEF Settle
  <2>2. claim[e] # m
    BY <1>4, <1>c, <2>1 DEF Settle
  <2>3. QED
    BY <1>4, <1>d, <2>1, <2>2 DEF Settle
<1>5. ASSUME NEW c \in Consumer, NEW m \in Msg, FailRead(c, m)
      PROVE  rows'[claim'[e]].attempts < MaxAttempts
  <2>1. CASE e = c
    BY <1>5, <2>1 DEF FailRead, ShouldRetry
  <2>2. CASE e # c
    BY <1>5, <1>d, <2>2 DEF FailRead
  <2>3. QED
    BY <2>1, <2>2
<1>6. ASSUME NEW c \in Consumer, DequeueNone(c) \/ Abandon(c)
      PROVE  rows'[claim'[e]].attempts < MaxAttempts
  <2>1. /\ claim'[e] = claim[e] /\ verdict'[e] = verdict[e] /\ rows' = rows
    BY <1>6 DEF DequeueNone, Abandon
  <2>2. QED
    BY <1>d, <2>1
<1>7. ASSUME NEW c \in Consumer, ConsumerStep(c) PROVE rows'[claim'[e]].attempts < MaxAttempts
  BY <1>2, <1>3, <1>4, <1>5, <1>6, <1>7 DEF ConsumerStep, Ack, Release, FailMissing, Fail
<1>8. CASE Tick
  <2>1. \A r \in Row : AgeRow(r).attempts = r.attempts
    BY DEF AgeRow, Row
  <2>2. QED
    BY <1>8, <1>c, <1>d, <2>1 DEF Tick
<1>9. CASE \E reset \in BOOLEAN : RequeueFailed(reset)
  <2>1. PICK reset \in BOOLEAN : RequeueFailed(reset)
    BY <1>9
  <2>2. \A r \in Row : RequeueFailedRow(r, reset).attempts \in {r.attempts, 0}
    BY DEF RequeueFailedRow, Row
  <2>3. QED
    BY <2>1, <1>c, <1>d, <2>2 DEF RequeueFailed
<1>10. CASE Clear
  <2>1. \A r \in Row : ClearRow(r).attempts \in {r.attempts, 0}
    BY DEF ClearRow, GoneRow, NoRow, Row
  <2>2. QED
    BY <1>10, <1>c, <1>d, <2>1 DEF Clear
<1>11. CASE UNCHANGED vars
  BY <1>11, <1>d DEF vars
<1>12. QED
  BY <1>1, <1>7, <1>8, <1>9, <1>10, <1>11 DEF Next

LEMMA VerdictInvAlways == Spec => []VerdictInv
<1>1. Init => VerdictInv
  BY DEF Init, VerdictInv
<1>2. QED
  BY <1>1, VerdictStep, LeaseInvAlways, TypeCorrect, PTL DEF Spec

LEMMA RetryStep == TypeOK /\ LeaseInv /\ VerdictInv /\ RetryInv /\ [Next]_vars => RetryInv'
<1> SUFFICES ASSUME TypeOK, LeaseInv, VerdictInv, RetryInv, [Next]_vars, NoLapse',
                    NEW n \in Msg
             PROVE  WithinBudget(rows[n], Budget(n), Holders(n) # {})'
  BY DEF RetryInv
<1> USE QueueAssumption DEF TypeOK
<1>b. NoLapse /\ lapses' = lapses
  <2>1. lapses' = lapses \/ lapses' = lapses + 1
    BY DEF Next, ConsumerStep, Enqueue, DequeueRecover, DequeueClaim, DequeueNone, Ack,
           Release, FailRead, FailMissing, Fail, Settle, Abandon, Tick, RequeueFailed, Clear,
           vars
  <2>2. QED
    BY <2>1 DEF NoLapse
<1> DEFINE h == Holders(n) # {}
           b == MaxAttempts + orphans[n] + passes
           Goal == WithinBudget(rows'[n], MaxAttempts + orphans'[n] + passes', Holders(n)' # {})
<1>c. Goal => WithinBudget(rows[n], Budget(n), Holders(n) # {})'
  BY DEF Budget
<1>d. WithinBudget(rows[n], b, h)
  BY <1>b DEF RetryInv, Budget
<1>e. rows[n] \in Row /\ b \in Nat /\ b >= MaxAttempts /\ h \in BOOLEAN
  BY TableAssumption
<1>f. h => rows[n].held <= StaleAfter
  BY <1>b DEF LeaseInv, Holders
<1>g. claim' = claim => Holders(n)' = Holders(n)
  BY DEF Holders
<1>h. \A c, e \in Consumer : claim[c] = claim[e] /\ claim[c] \in Msg => c = e
  BY <1>b DEF LeaseInv, LeaseRespected
<1> HIDE DEF h, b, TypeOK
<1>i. /\ WithinBudget(RecoverRow(rows[n]), b, h) /\ WithinBudget(AgeRow(rows[n]), b, h)
      /\ WithinBudget(ClearRow(rows[n]), b + 1, h)
      /\ \A x \in BOOLEAN : WithinBudget(RequeueFailedRow(rows[n], x), b + 1, h)
  BY <1>d, <1>e, <1>f, RowOpsBudget
<1> USE DEF TypeOK
<1>1. ASSUME NEW m \in Msg, Enqueue(m) PROVE Goal
  BY <1>1, <1>d, <1>e, <1>g, RowOpsBudget DEF Enqueue, h, b
<1>2. ASSUME NEW c \in Consumer, DequeueRecover(c) PROVE Goal
  <2>1. Holders(n)' = Holders(n)
    BY <1>2 DEF DequeueRecover, Holders
  <2>2. QED
    BY <1>2, <1>i, <2>1 DEF DequeueRecover, h, b
<1>3. ASSUME NEW c \in Consumer, DequeueClaim(c) PROVE Goal
  <2>1. PICK m \in Msg : /\ rows[m].status = "pending"
                         /\ claim[c] = Scanning
                         /\ claim' = [claim EXCEPT ![c] = m]
                         /\ rows' = [rows EXCEPT ![m] = ClaimRow(@)]
                         /\ UNCHANGED <<orphans, passes>>
    BY <1>3 DEF DequeueClaim, Oldest, Claimable
  <2>2. CASE n = m
    <3>1. c \in Holders(n)'
      BY <2>1, <2>2 DEF Holders
    <3>2. WithinBudget(ClaimRow(rows[n]), b, TRUE)
      BY <1>d, <1>e, <2>1, <2>2, RowOpsBudget
    <3>3. rows'[n] = ClaimRow(rows[n])
      BY <2>1, <2>2
    <3>4. QED
      BY <2>1, <3>1, <3>2, <3>3 DEF b
  <2>3. CASE n # m
    <3>1. Holders(n)' = Holders(n)
      BY <2>1, <2>3 DEF Holders
    <3>2. QED
      BY <1>d, <2>1, <2>3, <3>1 DEF b, h
  <2>4. QED
    BY <2>2, <2>3
<1>4. ASSUME NEW c \in Consumer, NEW m \in Msg, NEW r \in Row, Settle(c, m, r),
             n = m => WithinBudget(r, b, FALSE)
      PROVE  Goal
  <2>1. CASE n = m
    <3>1. Holders(n)' = {}
      BY <1>4, <1>h, <2>1 DEF Settle, Holders
    <3>2. QED
      BY <1>4, <2>1, <3>1 DEF Settle, b
  <2>2. CASE n # m
    <3>1. Holders(n)' = Holders(n)
      BY <1>4, <2>2 DEF Settle, Holders
    <3>2. QED
      BY <1>4, <1>d, <2>2, <3>1 DEF Settle, b, h
  <2>3. QED
    BY <2>1, <2>2
<1>5. ASSUME NEW c \in Consumer, NEW m \in Msg, Ack(c, m) PROVE Goal
  BY <1>4, <1>5, <1>d, <1>e, RowOpsBudget, RowOpsTyped DEF Ack
<1>6. ASSUME NEW c \in Consumer, NEW m \in Msg, Release(c, m) PROVE Goal
  BY <1>4, <1>6, <1>d, <1>e, RowOpsBudget, RowOpsTyped DEF Release
<1>7. ASSUME NEW c \in Consumer, NEW m \in Msg, FailMissing(c, m) \/ Fail(c, m) PROVE Goal
  <2>1. /\ WithinBudget(FailRow(rows[n]), b, FALSE)
        /\ rows[n].attempts < MaxAttempts =>
             \A d \in Nat : WithinBudget(RetryRow(rows[n], d), b, FALSE)
    BY <1>d, <1>e, FailBudget
  <2>2. CASE FailMissing(c, m)
    <3>1. ~Exists(rows[m]) /\ Settle(c, m, rows[m])
      BY <2>2 DEF FailMissing
    <3>2. n = m => WithinBudget(rows[m], b, FALSE)
      BY <1>d, <1>e, <3>1, TableAssumption DEF Exists, WithinBudget, Row
    <3>3. QED
      BY <1>4, <3>1, <3>2
  <2>3. CASE verdict[c] = "retry" /\ \E d \in Delays : Settle(c, m, RetryRow(rows[m], d))
    <3>1. PICK d \in Delays : Settle(c, m, RetryRow(rows[m], d))
      BY <2>3
    <3>2. rows[m].attempts < MaxAttempts
      BY <1>b, <2>3, <3>1 DEF VerdictInv, Settle
    <3>3. RetryRow(rows[m], d) \in Row
      BY RowOpsTyped
    <3>4. QED
      BY <1>4, <2>1, <3>1, <3>2, <3>3
  <2>4. CASE Settle(c, m, FailRow(rows[m]))
    BY <1>4, <2>1, <2>4, RowOpsTyped
  <2>5. QED
    BY <1>7, <2>2, <2>3, <2>4 DEF Fail
<1>7a. ASSUME NEW c \in Consumer, NEW m \in Msg, FailRead(c, m) PROVE Goal
  BY <1>7a, <1>d, <1>g DEF FailRead, b, h
<1>8. ASSUME NEW c \in Consumer, claim[c] = Scanning, claim' = [claim EXCEPT ![c] = Free],
             UNCHANGED <<rows, orphans, passes>>
      PROVE  Goal
  <2>1. Holders(n)' = Holders(n)
    BY <1>8 DEF Holders
  <2>2. QED
    BY <1>8, <1>d, <2>1 DEF b, h
<1>9. ASSUME NEW c \in Consumer, Abandon(c) PROVE Goal
  <2>1. CASE claim[c] = Scanning
    BY <1>8, <1>9, <2>1 DEF Abandon
  <2>2. ASSUME NEW m \in Msg, claim[c] = m PROVE Goal
    <3>1. CASE n = m
      <4>1. Holders(n)' = {}
        BY <1>9, <1>h, <2>2, <3>1 DEF Abandon, Holders
      <4>2. MaxAttempts + orphans'[n] + passes' = b + 1
        BY <1>9, <2>2, <3>1, TableAssumption DEF Abandon, b
      <4>3. WithinBudget(rows[n], b + 1, FALSE)
        BY <1>d, <1>e, RowOpsBudget
      <4>4. QED
        BY <1>9, <4>1, <4>2, <4>3 DEF Abandon
    <3>2. CASE n # m
      <4>1. Holders(n)' = Holders(n)
        BY <1>9, <2>2, <3>2 DEF Abandon, Holders
      <4>2. QED
        BY <1>9, <1>d, <2>2, <3>2, <4>1 DEF Abandon, b, h
    <3>3. QED
      BY <3>1, <3>2
  <2>3. QED
    BY <1>9, <2>1, <2>2 DEF Abandon
<1>10. ASSUME NEW r, claim' = claim, rows'[n] = r,
              \/ WithinBudget(r, b, h) /\ MaxAttempts + orphans'[n] + passes' = b
              \/ WithinBudget(r, b + 1, h) /\ MaxAttempts + orphans'[n] + passes' = b + 1
       PROVE  Goal
  <2>1. Holders(n)' = Holders(n)
    BY <1>10, <1>g
  <2>2. QED
    BY <1>10, <2>1 DEF h
<1>11. ASSUME Tick PROVE Goal
  <2>1. rows'[n] = AgeRow(rows[n]) /\ claim' = claim
    BY <1>11 DEF Tick
  <2>2. MaxAttempts + orphans'[n] + passes' = b
    BY <1>11 DEF Tick, b
  <2>3. QED
    BY <1>10, <1>i, <2>1, <2>2
<1>12. ASSUME NEW reset \in BOOLEAN, RequeueFailed(reset) PROVE Goal
  <2>1. rows'[n] = RequeueFailedRow(rows[n], reset) /\ claim' = claim
    BY <1>12 DEF RequeueFailed
  <2>2. MaxAttempts + orphans'[n] + passes' = b + 1
    BY <1>12, TableAssumption DEF RequeueFailed, b
  <2>3. QED
    BY <1>10, <1>i, <2>1, <2>2
<1>13. ASSUME Clear PROVE Goal
  <2>1. rows'[n] = ClearRow(rows[n]) /\ claim' = claim
    BY <1>13 DEF Clear
  <2>2. MaxAttempts + orphans'[n] + passes' = b + 1
    BY <1>13, TableAssumption DEF Clear, b
  <2>3. QED
    BY <1>10, <1>i, <2>1, <2>2
<1>14. ASSUME UNCHANGED vars PROVE Goal
  <2>1. /\ rows'[n] = rows[n] /\ claim' = claim
        /\ MaxAttempts + orphans'[n] + passes' = b
    BY <1>14 DEF vars, b
  <2>2. QED
    BY <1>10, <1>d, <2>1
<1>15. ASSUME NEW c \in Consumer, DequeueNone(c) PROVE Goal
  BY <1>8, <1>15 DEF DequeueNone
<1>16. Goal
  BY <1>1, <1>2, <1>3, <1>5, <1>6, <1>7, <1>7a, <1>9, <1>11, <1>12, <1>13, <1>14, <1>15
     DEF Next, ConsumerStep
<1>17. QED
  BY <1>c, <1>16

\* While no consumer outlives its lease, max_attempts bounds the deliveries of a
\* message, up to one for each abandoned claim and each operator pass.
THEOREM RetryBudgetAlways == Spec => []RetryBudget
<1>1. Init => RetryInv
  BY TableAssumption, QueueAssumption DEF Init, RetryInv, WithinBudget, Budget, NoRow
<1>2. TypeOK /\ RetryInv => RetryBudget
  BY TableAssumption, QueueAssumption
     DEF RetryInv, RetryBudget, WithinBudget, TypeOK, Row, Budget
<1>3. QED
  BY <1>1, <1>2, RetryStep, VerdictInvAlways, LeaseInvAlways, TypeCorrect, PTL DEF Spec

-------------------------------------------------------------------------------
\* The owner of a message is its holder, where the lease invariant makes it unique.
OwnerFacts ==
  \A m \in Msg :
    /\ \A c \in Consumer :
         claim[c] = m /\ rows[m].status = "processing" => LeaseOwner(m) = c
    /\ rows[m].status # "processing" => LeaseOwner(m) = NoOwner
    /\ Holders(m) = {} => LeaseOwner(m) = NoOwner
    /\ \A c \in Consumer :
         LeaseOwner(m) = c => claim[c] = m /\ rows[m].status = "processing"

LEMMA OwnerIsHolder == LeaseInv /\ NoLapse => OwnerFacts
<1> SUFFICES ASSUME LeaseInv, NoLapse, NEW m \in Msg
             PROVE  /\ \A c \in Consumer :
                         claim[c] = m /\ rows[m].status = "processing" => LeaseOwner(m) = c
                    /\ rows[m].status # "processing" => LeaseOwner(m) = NoOwner
                    /\ Holders(m) = {} => LeaseOwner(m) = NoOwner
                    /\ \A c \in Consumer :
                         LeaseOwner(m) = c => claim[c] = m /\ rows[m].status = "processing"
  BY DEF OwnerFacts
<1>1. \A c, d \in Consumer : claim[c] = m /\ claim[d] = m => c = d
  BY DEF LeaseInv, LeaseRespected
<1>2. ASSUME NEW c \in Consumer, claim[c] = m, rows[m].status = "processing"
      PROVE  LeaseOwner(m) = c
  <2>1. Holders(m) # {}
    BY <1>2 DEF Holders
  <2>2. (CHOOSE d \in Consumer : claim[d] = m) = c
    BY <1>1, <1>2
  <2>3. QED
    BY <1>2, <2>1, <2>2 DEF LeaseOwner
<1>3. ASSUME NEW c \in Consumer, LeaseOwner(m) = c
      PROVE  claim[c] = m /\ rows[m].status = "processing"
  <2>1. rows[m].status = "processing" /\ Holders(m) # {}
    BY <1>3, OwnerAssumption DEF LeaseOwner
  <2>2. PICK d \in Consumer : claim[d] = m
    BY <2>1 DEF Holders
  <2>3. QED
    BY <1>2, <1>3, <2>1, <2>2
<1>4. QED
  BY <1>2, <1>3 DEF LeaseOwner

\* The abstract life of a row after each statement.
LEMMA RowOpsLeaseState ==
  ASSUME NEW r \in Row
  PROVE  /\ LeaseState(EnqueueRow) = "ready" /\ LeaseState(NoRow) = "absent"
         /\ LeaseState(ClaimRow(r)) = "leased"
         /\ r.status = "processing" => /\ LeaseState(AckRow(r)) = "done"
                                       /\ \A d \in Nat : LeaseState(ReleaseRow(r, d)) = "ready"
                                       /\ \A d \in Nat : LeaseState(RetryRow(r, d)) = "ready"
                                       /\ LeaseState(FailRow(r)) = "failed"
         /\ r.status = "gone" => /\ AckRow(r) = r
                                 /\ \A d \in Nat : ReleaseRow(r, d) = r
                                 /\ \A d \in Nat : RetryRow(r, d) = r
                                 /\ FailRow(r) = r
         /\ Stale(r) => (LeaseState(RecoverRow(r)) = "ready" /\ RecoverRow(r).status = "pending")
         /\ ~Stale(r) => RecoverRow(r) = r
         /\ LeaseState(AgeRow(r)) = LeaseState(r) /\ AgeRow(r).status = r.status
         /\ \A b \in BOOLEAN :
              LeaseState(RequeueFailedRow(r, b)) =
                IF LeaseState(r) = "failed" THEN "ready" ELSE LeaseState(r)
         /\ LeaseState(ClearRow(r)) = IF LeaseState(r) = "absent" THEN "absent" ELSE "gone"
         /\ ClearRow(r).status # "processing"
<1> USE DEF Row, LeaseState
<1>1. LeaseState(EnqueueRow) = "ready" /\ LeaseState(NoRow) = "absent"
  BY DEF EnqueueRow, NoRow
<1>2. LeaseState(ClaimRow(r)) = "leased"
  BY DEF ClaimRow
<1>3. ASSUME r.status = "processing"
      PROVE  /\ LeaseState(AckRow(r)) = "done"
             /\ \A d \in Nat : LeaseState(ReleaseRow(r, d)) = "ready"
             /\ \A d \in Nat : LeaseState(RetryRow(r, d)) = "ready"
             /\ LeaseState(FailRow(r)) = "failed"
  BY <1>3 DEF AckRow, ReleaseRow, RetryRow, FailRow, Exists
<1>4. ASSUME r.status = "gone"
      PROVE  /\ AckRow(r) = r
             /\ \A d \in Nat : ReleaseRow(r, d) = r
             /\ \A d \in Nat : RetryRow(r, d) = r
             /\ FailRow(r) = r
  BY <1>4 DEF AckRow, ReleaseRow, RetryRow, FailRow, Exists
<1>5. /\ Stale(r) => (LeaseState(RecoverRow(r)) = "ready" /\ RecoverRow(r).status = "pending")
      /\ ~Stale(r) => RecoverRow(r) = r
  BY DEF RecoverRow
<1>6. LeaseState(AgeRow(r)) = LeaseState(r) /\ AgeRow(r).status = r.status
  BY DEF AgeRow
<1>7. ASSUME NEW b \in BOOLEAN
      PROVE  LeaseState(RequeueFailedRow(r, b)) =
               IF LeaseState(r) = "failed" THEN "ready" ELSE LeaseState(r)
  BY <1>7 DEF RequeueFailedRow
<1>8. /\ LeaseState(ClearRow(r)) = IF LeaseState(r) = "absent" THEN "absent" ELSE "gone"
      /\ ClearRow(r).status # "processing"
  BY DEF ClearRow, GoneRow, NoRow, Exists, Status
<1>9. QED
  BY <1>1, <1>2, <1>3, <1>4, <1>5, <1>6, <1>7, <1>8

LEMMA ClearRowLeaseState ==
  ASSUME NEW r \in Row
  PROVE  /\ ClearRow(r).status # "processing"
         /\ LeaseState(ClearRow(r)) = IF LeaseState(r) = "absent" THEN "absent" ELSE "gone"
  BY RowOpsLeaseState

\* Every step of the table is a step of the abstract queue, or none.
LEMMA LeaseStepSimulated ==
  ASSUME TypeOK, TypeOK', LeaseInv, LeaseInv', NoLapse, NoLapse', [Next]_vars
  PROVE  [Lease!Next]_(Lease!vars)
<1> DEFINE st  == [m \in Msg |-> LeaseState(rows[m])]
           ow  == [m \in Msg |-> LeaseOwner(m)]
           st1 == [m \in Msg |-> LeaseState(rows'[m])]
           ow1 == [m \in Msg |-> LeaseOwner(m)']
<1> USE QueueAssumption, OwnerAssumption DEF TypeOK
<1>s. /\ (st1 = st /\ ow1 = ow) => UNCHANGED Lease!vars
      /\ \A m \in Msg : st[m] = LeaseState(rows[m]) /\ ow[m] = LeaseOwner(m)
      /\ \A m \in Msg : rows[m] \in Row /\ rows'[m] \in Row
  BY DEF Lease!vars
<1>p. OwnerFacts /\ OwnerFacts'
  BY OwnerIsHolder, PTL
\* The owner of a message changes only with its holders and its row.
<1>o. ASSUME NEW m \in Msg, Holders(m)' = Holders(m),
             rows'[m].status = "processing" <=> rows[m].status = "processing"
      PROVE  LeaseOwner(m)' = LeaseOwner(m)
  <2>1. CASE rows[m].status = "processing" /\ Holders(m) # {}
    <3>1. PICK c \in Consumer : claim[c] = m /\ claim'[c] = m
      BY <1>o, <2>1 DEF Holders
    <3>2. QED
      BY <1>o, <1>p, <2>1, <3>1 DEF OwnerFacts
  <2>2. CASE rows[m].status # "processing"
    BY <1>o, <1>p, <2>2 DEF OwnerFacts
  <2>3. CASE Holders(m) = {}
    BY <1>o, <1>p, <2>3 DEF OwnerFacts
  <2>4. QED
    BY <2>1, <2>2, <2>3
<1>h. \A m \in Msg, c \in Consumer : claim[c] = m => rows[m].status \in {"processing", "gone"}
  BY DEF LeaseInv, LeaseRespected
<1> HIDE DEF TypeOK
<1>1. ASSUME NEW m \in Msg, Enqueue(m) PROVE Lease!Submit(m)
  <2>1. \A n \in Msg : Holders(n)' = Holders(n)
    BY <1>1 DEF Enqueue, Holders
  <2>2. /\ rows[m].status = "absent" /\ rows'[m] = EnqueueRow
        /\ \A n \in Msg \ {m} : rows'[n] = rows[n]
    BY <1>1 DEF Enqueue, TypeOK
  <2>3. st1 = [st EXCEPT ![m] = "ready"] /\ st[m] = "absent"
    <3>1. LeaseState(EnqueueRow) = "ready"
      BY <1>s, RowOpsLeaseState
    <3>2. LeaseState(rows[m]) = "absent"
      BY <2>2 DEF LeaseState
    <3>3. QED
      BY <1>s, <2>2, <3>1, <3>2
  <2>4. rows'[m].status # "processing"
    BY <2>2 DEF EnqueueRow, NoRow
  <2>5. ow1 = ow
    BY <1>o, <2>1, <2>2, <2>4
  <2>6. QED
    BY <2>3, <2>5 DEF Lease!Submit
<1>2. ASSUME NEW c \in Consumer, DequeueRecover(c)
      PROVE  Lease!Reclaim({m \in Msg : Stale(rows[m])})
  <2>1. \A n \in Msg : Holders(n)' = Holders(n)
    BY <1>2 DEF DequeueRecover, Holders, TypeOK
  <2>2. \A m \in Msg : rows'[m] = RecoverRow(rows[m])
    BY <1>2 DEF DequeueRecover
  <2>3. ASSUME NEW m \in Msg, Stale(rows[m])
        PROVE  st[m] = "leased" /\ ow[m] = NoOwner /\ ow1[m] = NoOwner /\ st1[m] = "ready"
    <3>1. Holders(m) = {}
      BY <2>3, TableAssumption DEF LeaseInv, Stale, Holders, TypeOK, Row
    <3>2. rows'[m].status = "pending" /\ LeaseState(rows'[m]) = "ready"
      BY <1>s, <2>2, <2>3, RowOpsLeaseState
    <3>3. QED
      BY <1>p, <1>s, <2>1, <2>3, <3>1, <3>2 DEF OwnerFacts, LeaseState, Stale
  <2>4. ASSUME NEW m \in Msg, ~Stale(rows[m]) PROVE st1[m] = st[m] /\ ow1[m] = ow[m]
    <3>1. rows'[m] = rows[m]
      BY <2>2, <2>4 DEF RecoverRow
    <3>2. QED
      BY <1>o, <1>s, <2>1, <3>1
  <2>5. ow1 = ow
    BY <2>3, <2>4
  <2>6. st1 = [m \in Msg |-> IF m \in {x \in Msg : Stale(rows[x])} THEN "ready" ELSE st[m]]
    BY <2>3, <2>4
  <2>7. QED
    BY <2>3, <2>5, <2>6 DEF Lease!Reclaim
<1>3. ASSUME NEW c \in Consumer, DequeueClaim(c)
      PROVE  \E m \in Msg : Lease!Lease(c, m)
  <2>1. PICK m \in Msg : /\ Claimable(rows[m])
                         /\ claim' = [claim EXCEPT ![c] = m]
                         /\ rows' = [rows EXCEPT ![m] = ClaimRow(@)]
    BY <1>3 DEF DequeueClaim, Oldest
  <2>2. claim[c] = Scanning /\ Scanning \notin Msg
    BY <1>3, QueueAssumption DEF DequeueClaim
  <2>3. \A n \in Msg : n # m => rows'[n] = rows[n] /\ Holders(n)' = Holders(n)
    BY <2>1, <2>2 DEF Holders, TypeOK
  <2>4. /\ rows[m].status = "pending" /\ rows'[m] = ClaimRow(rows[m])
        /\ claim'[c] = m
    BY <2>1 DEF TypeOK, Claimable
  <2>5. rows'[m].status = "processing" /\ LeaseState(rows'[m]) = "leased"
    <3>1. LeaseState(ClaimRow(rows[m])) = "leased"
      BY <1>s, RowOpsLeaseState
    <3>2. ClaimRow(rows[m]).status = "processing"
      BY <1>s DEF ClaimRow, Row
    <3>3. QED
      BY <2>4, <3>1, <3>2
  <2>6. ow1[m] = c
    BY <1>p, <2>4, <2>5 DEF OwnerFacts
  <2>7. \A n \in Msg : n # m => ow1[n] = ow[n] /\ st1[n] = st[n]
    BY <1>o, <2>3
  <2>8. st1 = [st EXCEPT ![m] = "leased"] /\ ow1 = [ow EXCEPT ![m] = c]
    BY <1>s, <2>5, <2>6, <2>7
  <2>9. st[m] = "ready"
    BY <1>s, <2>4 DEF LeaseState
  <2>10. \A n \in Msg : ow[n] # c
    BY <1>p, <1>s, <2>2 DEF OwnerFacts
  <2>11. QED
    BY <2>8, <2>9, <2>10 DEF Lease!Lease
<1>4. ASSUME NEW c \in Consumer, NEW m \in Msg, NEW r, Settle(c, m, r),
             rows[m].status = "processing" => LeaseState(r) \in {"done", "ready", "failed"},
             rows[m].status = "gone" => r = rows[m]
      PROVE  Lease!Settle(c, m) \/ UNCHANGED Lease!vars
  <2>1. /\ claim[c] = m /\ rows'[m] = r /\ Free \notin Msg
        /\ \A d \in Consumer : d # c => claim'[d] = claim[d]
        /\ claim'[c] = Free
        /\ \A n \in Msg : n # m => rows'[n] = rows[n]
    BY <1>4, QueueAssumption DEF Settle, TypeOK
  <2>2. \A n \in Msg : n # m => Holders(n)' = Holders(n)
    BY <2>1 DEF Holders
  <2>3. \A n \in Msg : n # m => ow1[n] = ow[n] /\ st1[n] = st[n]
    BY <1>o, <2>1, <2>2
  <2>4. CASE rows[m].status = "processing"
    <3>1. rows'[m].status # "processing" /\ LeaseState(rows'[m]) \in {"done", "ready", "failed"}
      BY <1>4, <2>1, <2>4 DEF LeaseState
    <3>2. ow[m] = c /\ ow1[m] = NoOwner
      BY <1>p, <2>1, <2>4, <3>1 DEF OwnerFacts
    <3>3. /\ st1 = [st EXCEPT ![m] = st1[m]] /\ ow1 = [ow EXCEPT ![m] = NoOwner]
          /\ st1[m] \in {"done", "ready", "failed"}
      BY <2>3, <3>1, <3>2
    <3>4. QED
      BY <3>2, <3>3 DEF Lease!Settle
  <2>5. CASE rows[m].status = "gone"
    <3>1. rows'[m] = rows[m]
      BY <1>4, <2>1, <2>5
    <3>2. ow1[m] = ow[m] /\ st1[m] = st[m]
      BY <1>p, <2>5, <3>1 DEF OwnerFacts
    <3>3. QED
      BY <1>s, <2>3, <3>2
  <2>6. QED
    BY <1>h, <2>1, <2>4, <2>5
<1>5. ASSUME NEW c \in Consumer, Abandon(c)
      PROVE  (\E m \in Msg : Lease!Lose(c, m)) \/ UNCHANGED Lease!vars
  <2>1. /\ rows' = rows /\ claim' = [claim EXCEPT ![c] = Free]
        /\ {Free, Scanning} \cap Msg = {} /\ claim[c] \in Msg \cup {Scanning}
    BY <1>5, QueueAssumption DEF Abandon
  <2>2. \A n \in Msg : n # claim[c] => Holders(n)' = Holders(n)
    BY <2>1 DEF Holders, TypeOK
  <2>3. st1 = st /\ \A n \in Msg : n # claim[c] => ow1[n] = ow[n]
    BY <1>o, <2>1, <2>2
  <2>4. CASE claim[c] = Scanning
    BY <1>s, <2>1, <2>3, <2>4
  <2>5. ASSUME NEW m \in Msg, claim[c] = m
        PROVE  Lease!Lose(c, m) \/ UNCHANGED Lease!vars
    <3>1. CASE rows[m].status = "processing"
      <4>1. ow[m] = c
        BY <1>p, <2>5, <3>1 DEF OwnerFacts
      <4>2. Holders(m)' = {}
        BY <1>h, <2>1, <2>5, <3>1 DEF Holders, TypeOK, LeaseInv, LeaseRespected
      <4>3. ow1[m] = NoOwner
        BY <1>p, <4>2 DEF OwnerFacts
      <4>4. ow1 = [ow EXCEPT ![m] = NoOwner]
        BY <2>3, <2>5, <4>3
      <4>5. QED
        BY <2>3, <4>1, <4>4 DEF Lease!Lose
    <3>2. CASE rows[m].status # "processing"
      <4>1. ow1[m] = ow[m]
        BY <1>p, <2>1, <3>2 DEF OwnerFacts
      <4>2. QED
        BY <1>s, <2>3, <2>5, <4>1
    <3>3. QED
      BY <3>1, <3>2
  <2>6. QED
    BY <2>1, <2>4, <2>5
\* A step that leaves the claims alone and maps the rows one by one.
<1>6. ASSUME claim' = claim,
             \A m \in Msg : rows'[m].status = "processing" <=> rows[m].status = "processing"
      PROVE  ow1 = ow
  <2>1. \A m \in Msg : Holders(m)' = Holders(m)
    BY <1>6 DEF Holders
  <2>2. QED
    BY <1>6, <1>o, <2>1
<1>7. ASSUME Tick PROVE UNCHANGED Lease!vars
  <2>1. claim' = claim /\ \A m \in Msg : rows'[m] = AgeRow(rows[m])
    BY <1>7 DEF Tick
  <2>2. \A m \in Msg : /\ rows'[m].status = rows[m].status
                       /\ LeaseState(rows'[m]) = LeaseState(rows[m])
    BY <1>s, <2>1, RowOpsLeaseState
  <2>3. QED
    BY <1>6, <1>s, <2>1, <2>2
<1>8. ASSUME NEW b \in BOOLEAN, RequeueFailed(b) PROVE Lease!Reopen
  <2>1. claim' = claim /\ \A m \in Msg : rows'[m] = RequeueFailedRow(rows[m], b)
    BY <1>8 DEF RequeueFailed
  <2>2. ASSUME NEW m \in Msg
        PROVE  /\ rows'[m].status = "processing" <=> rows[m].status = "processing"
               /\ st1[m] = IF st[m] = "failed" THEN "ready" ELSE st[m]
    <3>1. LeaseState(RequeueFailedRow(rows[m], b)) =
            IF LeaseState(rows[m]) = "failed" THEN "ready" ELSE LeaseState(rows[m])
      BY <1>s, <1>8 DEF RequeueFailedRow, LeaseState, Row
    <3>2. rows[m].status = "processing" <=> RequeueFailedRow(rows[m], b).status = "processing"
      BY <1>s DEF RequeueFailedRow, Row
    <3>3. QED
      BY <2>1, <3>1, <3>2
  <2>3. ow1 = ow
    BY <1>6, <2>1, <2>2
  <2>4. QED
    BY <2>2, <2>3 DEF Lease!Reopen
<1>9. ASSUME Clear PROVE Lease!Purge
  <2>1. claim' = claim /\ \A m \in Msg : rows'[m] = ClearRow(rows[m])
    BY <1>9 DEF Clear
  <2>2. ASSUME NEW m \in Msg
        PROVE  /\ ow1[m] = NoOwner
               /\ st1[m] = IF st[m] = "absent" THEN "absent" ELSE "gone"
    <3> rows[m] \in Row /\ rows'[m] = ClearRow(rows[m])
      BY <1>s, <2>1
    <3>1. rows'[m].status # "processing"
      BY ClearRowLeaseState
    <3>2. LeaseState(rows'[m]) = IF LeaseState(rows[m]) = "absent" THEN "absent" ELSE "gone"
      BY ClearRowLeaseState
    <3>3. QED
      BY <1>p, <1>s, <3>1, <3>2 DEF OwnerFacts
  <2>3. QED
    BY <2>2 DEF Lease!Purge
<1>10. ASSUME NEW c \in Consumer, NEW m \in Msg,
              Ack(c, m) \/ Release(c, m) \/ FailMissing(c, m) \/ Fail(c, m)
       PROVE  Lease!Settle(c, m) \/ UNCHANGED Lease!vars
  <2>1. /\ rows[m].status = "processing" => LeaseState(AckRow(rows[m])) = "done"
        /\ rows[m].status = "gone" => AckRow(rows[m]) = rows[m]
    BY <1>s, RowOpsLeaseState
  <2>2. ASSUME NEW d \in Delays
        PROVE  /\ rows[m].status = "processing" => LeaseState(ReleaseRow(rows[m], d)) = "ready"
               /\ rows[m].status = "gone" => ReleaseRow(rows[m], d) = rows[m]
    BY <1>s, RowOpsLeaseState
  <2>3. /\ rows[m].status = "processing" => LeaseState(FailRow(rows[m])) = "failed"
        /\ rows[m].status = "gone" => FailRow(rows[m]) = rows[m]
        /\ \A d \in Delays :
             /\ rows[m].status = "processing" => LeaseState(RetryRow(rows[m], d)) = "ready"
             /\ rows[m].status = "gone" => RetryRow(rows[m], d) = rows[m]
    BY <1>s, RowOpsLeaseState
  <2>4. CASE Ack(c, m)
    BY <1>4, <2>1, <2>4 DEF Ack
  <2>5. CASE Release(c, m)
    <3>1. PICK d \in Delays : Settle(c, m, ReleaseRow(rows[m], d))
      BY <2>5 DEF Release
    <3>2. QED
      BY <1>4, <2>2, <3>1
  <2>6. CASE Fail(c, m)
    <3>1. CASE \E d \in Delays : Settle(c, m, RetryRow(rows[m], d))
      <4>1. PICK d \in Delays : Settle(c, m, RetryRow(rows[m], d))
        BY <3>1
      <4>2. QED
        BY <1>4, <2>3, <4>1
    <3>2. CASE Settle(c, m, FailRow(rows[m]))
      BY <1>4, <2>3, <3>2
    <3>3. QED
      BY <2>6, <3>1, <3>2 DEF Fail
  <2>7. CASE FailMissing(c, m)
    <3>1. Settle(c, m, rows[m]) /\ rows[m].status # "processing"
      BY <2>7 DEF FailMissing, Exists
    <3>2. QED
      BY <1>4, <3>1
  <2>8. QED
    BY <1>10, <2>4, <2>5, <2>6, <2>7
<1>10a. ASSUME NEW c \in Consumer, NEW m \in Msg, FailRead(c, m) PROVE UNCHANGED Lease!vars
  <2>1. rows' = rows /\ \A n \in Msg : Holders(n)' = Holders(n)
    BY <1>10a DEF FailRead, Holders
  <2>2. st1 = st /\ ow1 = ow
    BY <1>o, <2>1
  <2>3. QED
    BY <1>s, <2>2
<1>11. ASSUME NEW c \in Consumer, DequeueNone(c) PROVE UNCHANGED Lease!vars
  <2>1. rows' = rows /\ \A n \in Msg : Holders(n)' = Holders(n)
    BY <1>11, QueueAssumption DEF DequeueNone, Holders, TypeOK
  <2>2. st1 = st /\ ow1 = ow
    BY <1>o, <2>1
  <2>3. QED
    BY <1>s, <2>2
<1>12. ASSUME UNCHANGED vars PROVE UNCHANGED Lease!vars
  <2>1. rows' = rows /\ \A n \in Msg : Holders(n)' = Holders(n)
    BY <1>12 DEF vars, Holders
  <2>2. st1 = st /\ ow1 = ow
    BY <1>o, <2>1
  <2>3. QED
    BY <1>s, <2>2
<1>13. ASSUME NEW c \in Consumer, ConsumerStep(c)
       PROVE  Lease!Next \/ UNCHANGED Lease!vars
  BY <1>2, <1>3, <1>5, <1>10, <1>10a, <1>11, <1>13 DEF ConsumerStep, Lease!Next
<1>14. QED
  BY <1>1, <1>7, <1>8, <1>9, <1>12, <1>13 DEF Next, Lease!Next

LEMMA LapsesStay == TypeOK /\ [Next]_vars /\ NoLapse' => NoLapse
<1> SUFFICES ASSUME TypeOK, [Next]_vars, NoLapse' PROVE NoLapse
  OBVIOUS
<1>1. CASE Tick
  BY <1>1 DEF Tick, NoLapse, TypeOK
<1>2. CASE \E m \in Msg : Enqueue(m)
  BY <1>2 DEF Enqueue, NoLapse
<1>3. CASE \E c \in Consumer : ConsumerStep(c)
  BY <1>3 DEF ConsumerStep, DequeueRecover, DequeueClaim, DequeueNone, Ack, Release,
              FailRead, FailMissing, Fail, Settle, Abandon, NoLapse
<1>4. CASE (\E reset \in BOOLEAN : RequeueFailed(reset)) \/ Clear
  BY <1>4 DEF RequeueFailed, Clear, NoLapse
<1>5. CASE UNCHANGED vars
  BY <1>5 DEF vars, NoLapse
<1>6. QED
  BY <1>1, <1>2, <1>3, <1>4, <1>5 DEF Next

LEMMA InitIsLeaseInit == Init => Lease!Init
  BY QueueAssumption DEF Init, Lease!Init, LeaseState, LeaseOwner, NoRow

\* Up to the first lapse, whatever the bounds: exclusive leases, settled by their
\* owners only, reclaimed only from consumers that are gone.
THEOREM LeasePromisesKept == Spec => LeasePromises
<1>1. /\ TypeOK /\ TypeOK' /\ LeaseInv /\ LeaseInv' /\ NoLapse /\ NoLapse' /\ [Next]_vars
      => [Lease!Next]_(Lease!vars)
  BY LeaseStepSimulated
<1>2. TypeOK /\ TypeOK' /\ LeaseInv /\ LeaseInv' /\ [Next]_vars
      => [NoLapse' => [Lease!Next]_(Lease!vars)]_vars
  BY <1>1, LapsesStay
<1>3. Spec => []TypeOK /\ []LeaseInv
  BY TypeCorrect, LeaseInvAlways
<1>4. QED
  BY <1>2, <1>3, InitIsLeaseInit, PTL DEF Spec, LeasePromises

\* With consumers that never overrun their leases (MaxLapses = 0) the table
\* implements the abstract queue.
THEOREM LeaseImplemented == ASSUME MaxLapses = 0 PROVE Spec => LeaseSpec
<1>1. TypeOK => NoLapse
  BY DEF TypeOK, NoLapse
<1>2. /\ TypeOK /\ TypeOK' /\ LeaseInv /\ LeaseInv' /\ NoLapse /\ NoLapse' /\ [Next]_vars
      => [Lease!Next]_(Lease!vars)
  BY LeaseStepSimulated
<1>3. Spec => []TypeOK /\ []LeaseInv
  BY TypeCorrect, LeaseInvAlways
<1>4. QED
  BY <1>1, <1>2, <1>3, InitIsLeaseInit, PTL DEF Spec, LeaseSpec, Lease!Spec

\* A completed row is settled by nobody: its holder would have outlived a lease.
LEMMA DoneStep ==
  ASSUME TypeOK, LeaseInv, NoLapse, [Next]_vars,
         NEW m \in Msg, rows[m].status = "done"
  PROVE  rows'[m].status \in {"done", "gone"}
<1> USE DEF TypeOK
<1>r. rows[m] \in Row
  OBVIOUS
<1>1. CASE \E n \in Msg : Enqueue(n)
  BY <1>1 DEF Enqueue
<1>2. ASSUME NEW c \in Consumer, DequeueRecover(c) PROVE rows'[m].status = "done"
  BY <1>2 DEF DequeueRecover, RecoverRow, Stale
<1>3. ASSUME NEW c \in Consumer, DequeueClaim(c) PROVE rows'[m].status = "done"
  BY <1>3 DEF DequeueClaim, Oldest, Claimable
<1>4. ASSUME NEW c \in Consumer, NEW n \in Msg, NEW r, Settle(c, n, r)
      PROVE  rows'[m].status = "done"
  BY <1>4 DEF Settle, LeaseInv, LeaseRespected
<1>5. ASSUME NEW c \in Consumer,
             DequeueNone(c) \/ Abandon(c) \/ \E n \in Msg : FailRead(c, n)
      PROVE  rows'[m].status = "done"
  BY <1>5 DEF DequeueNone, Abandon, FailRead
<1>6. ASSUME NEW c \in Consumer, ConsumerStep(c) PROVE rows'[m].status = "done"
  BY <1>2, <1>3, <1>4, <1>5, <1>6 DEF ConsumerStep, Ack, Release, FailMissing, Fail
<1>7. CASE Tick
  BY <1>7 DEF Tick, AgeRow, Row
<1>8. CASE \E reset \in BOOLEAN : RequeueFailed(reset)
  BY <1>8 DEF RequeueFailed, RequeueFailedRow
<1>9. CASE Clear
  BY <1>9 DEF Clear, ClearRow, GoneRow, NoRow, Row
<1>10. CASE UNCHANGED vars
  BY <1>10 DEF vars
<1>11. QED
  BY <1>1, <1>6, <1>7, <1>8, <1>9, <1>10 DEF Next

THEOREM DoneIsFinalUntilLapse == Spec => DoneIsFinal
<1>1. TypeOK /\ LeaseInv /\ [Next]_vars
      => [NoLapse' => \A m \in Msg :
            rows[m].status = "done" => rows'[m].status \in {"done", "gone"}]_vars
  BY DoneStep, LapsesStay
<1>2. Spec => []TypeOK /\ []LeaseInv
  BY TypeCorrect, LeaseInvAlways
<1>3. QED
  BY <1>1, <1>2, PTL DEF Spec, DoneIsFinal
===============================================================================
