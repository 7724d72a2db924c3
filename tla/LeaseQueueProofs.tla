---------------------------- MODULE LeaseQueueProofs ----------------------------
(* What the abstract queue of LeaseQueue promises, proved from its steps. *)
EXTENDS LeaseQueue, TLAPS

\* The two facts are inductive together.
Inv == TypeOK /\ ExclusiveLease

LEMMA Inductive == ASSUME NoOwner \notin Consumer PROVE Spec => []Inv
<1>1. Init => Inv
  BY DEF Inv, Init, TypeOK, ExclusiveLease, States
<1>2. Inv /\ [Next]_vars => Inv'
  <2> SUFFICES ASSUME Inv, [Next]_vars PROVE Inv'
    OBVIOUS
  <2> USE DEF Inv, TypeOK, ExclusiveLease, States
  <2>1. ASSUME NEW m \in Msg, Submit(m) PROVE Inv'
    BY <2>1 DEF Submit
  <2>2. ASSUME NEW c \in Consumer, NEW m \in Msg, Lease(c, m) PROVE Inv'
    BY <2>2 DEF Lease
  <2>3. ASSUME NEW c \in Consumer, NEW m \in Msg, Settle(c, m) PROVE Inv'
    BY <2>3 DEF Settle
  <2>4. ASSUME NEW c \in Consumer, NEW m \in Msg, Lose(c, m) PROVE Inv'
    BY <2>4 DEF Lose
  <2>5. ASSUME NEW S \in SUBSET Msg, Reclaim(S) PROVE Inv'
    BY <2>5 DEF Reclaim
  <2>6. CASE Reopen
    BY <2>6 DEF Reopen
  <2>7. CASE Purge
    BY <2>7 DEF Purge
  <2>8. CASE UNCHANGED vars
    BY <2>8 DEF vars
  <2>9. QED
    BY <2>1, <2>2, <2>3, <2>4, <2>5, <2>6, <2>7, <2>8 DEF Next
<1>3. QED
  BY <1>1, <1>2, PTL DEF Spec

\* A message has an owner only while it is leased; a consumer owns one at most.
THEOREM LeasesExclusive ==
  ASSUME NoOwner \notin Consumer PROVE Spec => []ExclusiveLease
<1>1. Inv => ExclusiveLease
  BY DEF Inv
<1>2. QED
  BY <1>1, Inductive, PTL

\* A completed message has no owner, so no step but Purge touches it.
THEOREM CompletionIsFinal ==
  ASSUME NoOwner \notin Consumer PROVE Spec => DoneIsFinal
<1>1. Inv /\ [Next]_vars
      => [\A m \in Msg : state[m] = "done" => state'[m] \in {"done", "gone"}]_vars
  BY DEF Inv, TypeOK, ExclusiveLease, Next, Submit, Lease, Settle, Lose, Reclaim, Reopen, Purge
<1>2. QED
  BY <1>1, Inductive, PTL DEF Spec, DoneIsFinal
===============================================================================
