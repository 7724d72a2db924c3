--------------------------- MODULE RecordStoreProofs ---------------------------
(***************************************************************************)
(* Proofs about RecordStore, for any records, calls, attempts and faults.  *)
(***************************************************************************)
EXTENDS RecordStore, FiniteSetTheorems, TLAPS

\* TypeOK without the cardinality, which ReasonOnce states of pairs.
Typed ==
  /\ point \in [Uri -> Point]
  /\ \A u \in Uri : point[u].by = None <=> point[u].kind \in {"none", "directory"}
  /\ entries \subseteq Entry
  /\ file \in [Uri -> Derivation \cup {None}]
  /\ call \in [Call -> CallState] /\ \A c \in Call : call[c].next \in 1 .. Len(Doc[c]) + 1
  /\ event \in [Event -> EventState]
  /\ forget \in ForgetState
  /\ quietly \subseteq forgotten /\ forgotten \subseteq swept /\ swept \subseteq Uri
  /\ faults \in 0 .. MaxFaults

\* What the other invariants need of the types, the calls and their events.
Basic == Typed /\ PublishedInv /\ TriesInv /\ ReasonOnce /\ ForgetInv /\ SweptInv

-------------------------------------------------------------------------------
(* The order of the worker's actions. *)

LEMMA OrderSet ==
  /\ DOMAIN Order = 1 .. 7
  /\ ToSet(Order) = {"derive", "search", "entity", "files", "reason", "tree", "settle"}
<1>1. DOMAIN Order = 1 .. 7
  BY DEF Order
<1>2. \A i \in 1 .. 7 : Order[i] \in {"derive", "search", "entity", "files", "reason", "tree", "settle"}
  BY DEF Order
<1>3. /\ Order[1] = "derive" /\ Order[2] = "search" /\ Order[3] = "entity" /\ Order[4] = "files"
      /\ Order[5] = "reason" /\ Order[6] = "tree" /\ Order[7] = "settle"
  BY DEF Order
<1> QED
  BY <1>1, <1>2, <1>3 DEF ToSet

LEMMA Places ==
  /\ Place("derive") = 1 /\ Place("search") = 2 /\ Place("entity") = 3 /\ Place("files") = 4
  /\ Place("reason") = 5 /\ Place("tree") = 6 /\ Place("settle") = 7
<1>1. \A i \in 1 .. 7 : i = 1 \/ i = 2 \/ i = 3 \/ i = 4 \/ i = 5 \/ i = 6 \/ i = 7
  OBVIOUS
<1>3. /\ Order[1] = "derive" /\ Order[2] = "search" /\ Order[3] = "entity" /\ Order[4] = "files"
      /\ Order[5] = "reason" /\ Order[6] = "tree" /\ Order[7] = "settle"
  BY DEF Order
<1>4. \A i, j \in 1 .. 7 : Order[i] = Order[j] => i = j
  BY <1>1, <1>3
<1>5. \A i \in 1 .. 7 : Place(Order[i]) = i
  BY <1>4, OrderSet DEF Place
<1> QED
  BY <1>3, <1>5

\* After(e) is the first action behind the one e is at that applies to its record.
LEMMA AfterIsNext ==
  ASSUME NEW e \in Event, event[e].at \in ToSet(Order), event[e].at # "settle"
  PROVE  /\ After(e) \in ToSet(Order) \ {"derive"}
         /\ \A step \in ToSet(Order) :
               Applies(e, step) /\ Place(step) < Place(After(e)) => Place(step) <= Place(event[e].at)
<1> DEFINE S == {i \in DOMAIN Order : Place(event[e].at) < i /\ Applies(e, Order[i])}
<1>1. Place(event[e].at) \in 1 .. 6
  BY OrderSet, Places
<1>2. Order[7] = "settle" /\ Applies(e, "settle")
  BY DEF Order, Applies
<1>3. S \subseteq 1 .. 7 /\ 7 \in S
  BY <1>1, <1>2, OrderSet
<1>4. \E i \in S : \A j \in S : i <= j
  <2> HIDE DEF S
  <2> QED BY <1>3
<1>5. Min(S) \in S /\ \A j \in S : Min(S) <= j
  BY <1>4 DEF Min
<1>6. \A i \in 1 .. 7 : Place(Order[i]) = i
  BY OrderSet, Places DEF Order
<1>7. \A step \in ToSet(Order) : Place(step) \in 1 .. 7 /\ Order[Place(step)] = step
  BY OrderSet, Places DEF Order
<1>8. After(e) = Order[Min(S)]
  BY DEF After
<1>9. After(e) \in ToSet(Order) /\ Place(After(e)) = Min(S)
  BY <1>3, <1>5, <1>6, <1>8, OrderSet DEF ToSet
<1> HIDE DEF S
<1>10. After(e) # "derive"
  BY <1>1, <1>5, <1>9, Places DEF S
<1>11. \A step \in ToSet(Order) :
          Applies(e, step) /\ Place(step) < Place(After(e)) => Place(step) <= Place(event[e].at)
  BY <1>1, <1>3, <1>5, <1>7, <1>9, OrderSet DEF S
<1> QED
  BY <1>9, <1>10, <1>11

-------------------------------------------------------------------------------
(* Types, calls and attempts. *)

LEMMA Values ==
  /\ None \notin Derivation
  /\ \A d \in Derivation : Derived(d) \in Point /\ Derived(d).by = d /\ Derived(d).kind = "derived"
  /\ \A c \in Call : Raw(c) \in Point /\ Raw(c).by \in Derivation /\ Raw(c).kind = "raw"
  /\ Directory \in Point /\ Directory.by = None /\ Directory.kind = "directory"
  /\ NoPoint \in Point /\ NoPoint.by = None /\ NoPoint.kind = "none"
<1>1. None \notin Derivation
  BY RecordAssumption DEF None, Derivation
<1>2. \A c \in Call : [call |-> c, try |-> 0] \in Derivation
  BY RecordAssumption DEF Derivation
<1> QED
  BY <1>1, <1>2 DEF Derived, Raw, Directory, NoPoint, Point

LEMMA ChainTyped ==
  ASSUME NEW u \in Uri
  PROVE  ParentChain(u) \in Seq(Uri) /\ Path[u] \in Seq(Uri)
BY RecordAssumption DEF ParentChain

\* A record matches its own URI.
LEMMA OwnPath ==
  ASSUME NEW u \in Uri
  PROVE  Below(u, u) /\ Matches(u, u)
<1>1. Path[u] \in Seq(Uri) /\ Path[u] # <<>> /\ Path[u][Len(Path[u])] = u
  BY PathAssumption, ChainTyped DEF Last
<1>2. Len(Path[u]) \in DOMAIN Path[u]
  BY <1>1
<1> QED
  BY <1>1, <1>2 DEF ToSet, Below, Matches

LEMMA TargetTyped ==
  ASSUME Typed, NEW c \in Call, Writing(c)
  PROVE  /\ call[c].next \in DOMAIN Doc[c] /\ Target(c) = Doc[c][call[c].next]
         /\ Target(c) \in Uri /\ <<c, Target(c)>> \in Event
         /\ 1 \in DOMAIN Doc[c] /\ Doc[c][1] \in Uri /\ <<c, Doc[c][1]>> \in Event
         /\ Doc[c] \in Seq(Uri) /\ Len(Doc[c]) \in Nat \ {0}
<1>1. Doc[c] \in Seq(Uri) /\ Doc[c] # <<>>
  BY RecordAssumption
<1>2. Len(Doc[c]) \in Nat \ {0}
  BY <1>1
<1>3. call[c].next \in 1 .. Len(Doc[c]) /\ call[c].next \in DOMAIN Doc[c] /\ 1 \in DOMAIN Doc[c]
  BY <1>1, <1>2 DEF Typed, CallState, Writing
<1> QED
  BY <1>1, <1>2, <1>3 DEF Target, Event, ToSet

LEMMA ByTyped ==
  ASSUME Typed, NEW e \in Event
  PROVE  /\ By(e) \in Derivation /\ e[1] \in Call /\ e[2] \in Uri /\ e = <<e[1], e[2]>>
         /\ \E i \in DOMAIN Doc[e[1]] : e[2] = Doc[e[1]][i]
<1>1. e[1] \in Call /\ e[2] \in Uri /\ e = <<e[1], e[2]>> /\ e[2] \in ToSet(Doc[e[1]])
  BY DEF Event
<1>2. event[e].tries \in 0 .. MaxAttempts + MaxFaults
  BY DEF Typed, EventState
<1>3. \E i \in DOMAIN Doc[e[1]] : e[2] = Doc[e[1]][i]
  BY <1>1 DEF ToSet
<1> QED
  BY <1>1, <1>2, <1>3 DEF By, Derivation

\* An action of the worker moves its event, without or with a fault.
Moved(e) ==
  \E x \in ToSet(Order) \ {"derive"}, y \in BOOLEAN :
     /\ event[e].state = "running" /\ event[e].at # "settle"
     /\ event' = [event EXCEPT ![e].at = x, ![e].failed = y]
     /\ x = After(e) \/ (x = "settle" /\ y)
     /\ event[e].failed => y
     /\ faults' = faults \/ (faults < MaxFaults /\ faults' = faults + 1)

LEMMA AdvanceMoves ==
  ASSUME Typed, NEW e \in Event, event[e].state = "running", event[e].at # "settle", Advance(e)
  PROVE  Moved(e)
<1>1. After(e) \in ToSet(Order) \ {"derive"}
  BY AfterIsNext DEF Typed, EventState
<1>2. CASE event' = [event EXCEPT ![e].at = After(e)] /\ UNCHANGED faults
  <2>1. event' = [event EXCEPT ![e].at = After(e), ![e].failed = event[e].failed]
    BY <1>2 DEF Typed, EventState
  <2> QED BY <1>1, <1>2, <2>1 DEF Moved, Typed, EventState
<1>3. CASE Fault /\ event' = [event EXCEPT ![e].at = After(e), ![e].failed = TRUE]
  BY <1>1, <1>3 DEF Moved, Fault
<1> QED BY <1>2, <1>3 DEF Advance

\* Every action of the worker between the start and the settlement, by what it stores.
LEMMA WorkerMoves ==
  ASSUME Typed, NEW e \in Event, WorkerStep(e)
  PROVE  \/ Start(e)
         \/ Settle(e)
         \/ /\ Moved(e)
            /\ UNCHANGED <<call, forget, history>>
            /\ \/ /\ event[e].at = "derive"
                  /\ point' = [point EXCEPT ![e[2]] = Derived(By(e))]
                  /\ UNCHANGED <<entries, file>>
               \/ /\ event[e].at \in {"search", "entity", "reason", "tree"}
                  /\ Put([uri |-> e[2], kind |-> event[e].at, by |-> By(e)])
                  /\ UNCHANGED <<point, file>>
               \/ /\ event[e].at = "files"
                  /\ file' = [file EXCEPT ![e[2]] = By(e)]
                  /\ UNCHANGED <<point, entries>>
               \/ /\ UNCHANGED storeVars
                  /\ event'[e].failed
<1>0. event[e] \in EventState /\ event[e].at \in ToSet(Order)
  BY DEF Typed, EventState
<1> DEFINE Skip == event' = [event EXCEPT ![e].at = "settle", ![e].failed = TRUE]
<1>1. ASSUME At(e, "derive"), Skip, Fault PROVE Moved(e)
  BY <1>1, OrderSet DEF Moved, At, Fault
<1>2. CASE Derive(e)
  <2>1. ASSUME event' = [event EXCEPT ![e].at = After(e)], UNCHANGED faults PROVE Moved(e)
    <3>1. Advance(e) BY <2>1 DEF Advance
    <3> QED BY <1>2, <3>1, AdvanceMoves DEF Derive, At
  <2>2. Moved(e)
    BY <1>1, <1>2, <2>1 DEF Derive, SkipToSettle
  <2> QED BY <1>2, <2>2 DEF Derive, At
<1>3. CASE DeriveFails(e)
  <2>1. Moved(e) BY <1>1, <1>3 DEF DeriveFails, SkipToSettle
  <2>2. event'[e].failed
    BY <1>3 DEF DeriveFails, SkipToSettle, Typed
  <2> QED BY <1>3, <2>1, <2>2 DEF DeriveFails
<1>4. ASSUME NEW kind \in {"search", "entity", "reason", "tree"}, Index(e, kind)
      PROVE  /\ Moved(e) /\ UNCHANGED <<call, forget, history, point, file>>
             /\ event[e].at = kind /\ Put([uri |-> e[2], kind |-> kind, by |-> By(e)])
  <2>1. event[e].state = "running" /\ event[e].at = kind /\ Advance(e) /\ kind # "settle"
    BY <1>4 DEF Index, At
  <2> QED BY <1>4, <2>1, AdvanceMoves DEF Index
<1>5. CASE WriteContext(e)
  <2>1. event[e].state = "running" /\ event[e].at = "files" /\ Advance(e)
    BY <1>5 DEF WriteContext, At
  <2> QED BY <1>5, <2>1, AdvanceMoves DEF WriteContext
<1>6. CASE StepFails(e)
  <2>1. event[e].state = "running" /\ event[e].at # "settle"
    BY <1>6 DEF StepFails, At
  <2>2. Advance(e)
    BY <1>6 DEF StepFails, Advance
  <2>3. event'[e].failed
    BY <1>6 DEF StepFails, Typed
  <2> QED BY <1>6, <2>1, <2>2, <2>3, AdvanceMoves DEF StepFails
<1>7. CASE SearchIndex(e) \/ EntityIndex(e) \/ ReasonTreeIndex(e) \/ ReasonTreeBuild(e)
  BY <1>4, <1>7 DEF SearchIndex, EntityIndex, ReasonTreeIndex, ReasonTreeBuild
<1> QED
  BY <1>2, <1>3, <1>5, <1>6, <1>7 DEF WorkerStep

\* A call writes a directory, where an ancestor of its target is.
LEMMA DirectoryTarget ==
  ASSUME Typed, NEW c \in Call, WriteDirectory(c)
  PROVE  \E a \in Uri :
            /\ point' = [point EXCEPT ![a] = Directory]
            /\ call' = [call EXCEPT ![c].state = "running", ![c].dirs = @ + 1]
            /\ \E j \in 1 .. call[c].next - 1 : Doc[c][j] = a
            /\ ~Leaf(c, a) /\ a \in ToSet(Doc[c])
<1>1. Writing(c) /\ call[c].dirs < Len(ParentChain(Target(c))) /\ call[c].dirs \in Nat
  BY DEF WriteDirectory, Typed, CallState
<1>2. call[c].next \in DOMAIN Doc[c] /\ Target(c) = Doc[c][call[c].next] /\ Target(c) \in Uri
      /\ Doc[c] \in Seq(Uri)
  BY <1>1, TargetTyped
<1>3. ParentChain(Target(c)) \in Seq(Uri)
  BY <1>2, ChainTyped
<1> DEFINE a == ParentChain(Target(c))[call[c].dirs + 1]
<1>4. call[c].dirs + 1 \in DOMAIN ParentChain(Target(c))
  BY <1>1, <1>3
<1>5. a \in Uri /\ a \in ToSet(ParentChain(Doc[c][call[c].next]))
  BY <1>2, <1>3, <1>4 DEF ToSet
<1>6. /\ \E j \in 1 .. call[c].next - 1 : Doc[c][j] = a
      /\ \E w \in ToSet(Doc[c]) : Parent[w] = a
  BY <1>2, <1>5, DocumentAssumption
<1>7. a \in ToSet(Doc[c])
  BY <1>2, <1>6 DEF ToSet
<1>8. ~Leaf(c, a)
  BY <1>6 DEF Leaf
<1> QED
  BY <1>5, <1>6, <1>7, <1>8 DEF WriteDirectory

LEMMA StoreTyped ==
  ASSUME Typed, NEW c \in Call, StoreStep(c)
  PROVE  Typed'
<1>0. call[c] \in CallState
  BY DEF Typed
<1>1. CASE WriteDirectory(c)
  <2>1. PICK a \in Uri : /\ point' = [point EXCEPT ![a] = Directory]
                         /\ call' = [call EXCEPT ![c].state = "running", ![c].dirs = @ + 1]
    BY <1>1, DirectoryTarget
  <2>2. call[c].dirs + 1 \in Nat
    BY <1>0 DEF CallState
  <2>3. point' \in [Uri -> Point] /\ \A u \in Uri : point'[u].by = None <=> point'[u].kind \in {"none", "directory"}
    BY <2>1, Values DEF Typed
  <2>4. call' \in [Call -> CallState] /\ \A d \in Call : call'[d].next \in 1 .. Len(Doc[d]) + 1
    BY <2>1, <2>2 DEF Typed, CallState
  <2> QED
    BY <1>1, <2>3, <2>4 DEF WriteDirectory, Typed, history
<1>2. CASE WriteRecord(c)
  <2>1. Writing(c)
    BY <1>2 DEF WriteRecord
  <2>2. call[c].next \in DOMAIN Doc[c] /\ Target(c) \in Uri /\ Doc[c] \in Seq(Uri)
    BY <2>1, TargetTyped
  <2>3. call[c].next + 1 \in Nat \ {0} /\ call[c].next + 1 \in 1 .. Len(Doc[c]) + 1
    BY <2>2
  <2>4. point' \in [Uri -> Point] /\ \A u \in Uri : point'[u].by = None <=> point'[u].kind \in {"none", "directory"}
    BY <1>2, <2>2, Values DEF WriteRecord, Typed
  <2>5. call' \in [Call -> CallState] /\ \A d \in Call : call'[d].next \in 1 .. Len(Doc[d]) + 1
    <3> DEFINE s == IF call[c].next = Len(Doc[c]) THEN "done" ELSE "running"
    <3>1. [call[c] EXCEPT !.state = s, !.next = call[c].next + 1, !.dirs = 0] \in CallState
      BY <1>0, <2>3 DEF CallState
    <3>2. call' = [call EXCEPT ![c] = [call[c] EXCEPT !.state = s, !.next = call[c].next + 1, !.dirs = 0]]
      BY <1>2 DEF WriteRecord, Typed
    <3> HIDE DEF s
    <3>3. call' \in [Call -> CallState]
      BY <3>1, <3>2 DEF Typed
    <3>4. \A d \in Call : call'[d].next = IF d = c THEN call[c].next + 1 ELSE call[d].next
      BY <1>0, <3>2 DEF Typed, CallState
    <3> QED
      BY <2>3, <3>3, <3>4 DEF Typed
  <2>6. event' \in [Event -> EventState]
    <3>1. \A e \in Event : [event[e] EXCEPT !.state = "queued"] \in EventState
      BY DEF Typed, EventState
    <3>2. event' = [e \in Event |-> IF e \in Published(c) THEN [event[e] EXCEPT !.state = "queued"]
                                   ELSE event[e]]
      BY <1>2 DEF WriteRecord, Publish
    <3> QED
      BY <3>1, <3>2 DEF Typed
  <2>7. forget' \in ForgetState
    BY <1>2 DEF WriteRecord, StoredAgain, Typed, ForgetState
  <2>8. quietly' \subseteq forgotten' /\ forgotten' \subseteq swept' /\ swept' \subseteq Uri
    BY <1>2 DEF WriteRecord, StoredAgain, Typed
  <2>9. UNCHANGED <<entries, file, faults>>
    BY <1>2 DEF WriteRecord
  <2> QED
    BY <2>4, <2>5, <2>6, <2>7, <2>8, <2>9 DEF Typed
<1>3. CASE CallFails(c)
  <2>1. call' \in [Call -> CallState] /\ \A d \in Call : call'[d].next \in 1 .. Len(Doc[d]) + 1
    BY <1>3 DEF CallFails, Typed, CallState
  <2>2. faults' \in 0 .. MaxFaults
    BY <1>3, RecordAssumption DEF CallFails, Fault, Typed
  <2> QED
    BY <1>3, <2>1, <2>2 DEF CallFails, Typed, storeVars, history
<1> QED
  BY <1>1, <1>2, <1>3 DEF StoreStep

LEMMA WorkerTyped ==
  ASSUME Typed, TriesInv, NEW e \in Event, WorkerStep(e)
  PROVE  Typed'
<1>0. event[e] \in EventState /\ e[2] \in Uri /\ By(e) \in Derivation /\ faults \in 0 .. MaxFaults
  BY ByTyped DEF Typed
<1>1. CASE Start(e)
  <2>1. event[e].tries + 1 \in 0 .. MaxAttempts + MaxFaults
    BY <1>0, <1>1, RecordAssumption DEF Start, TriesInv, EventState
  <2>2. event' \in [Event -> EventState]
    BY <1>1, <2>1, OrderSet DEF Start, Typed, EventState
  <2> QED
    BY <1>1, <2>2 DEF Start, Typed, storeVars, history
<1>2. CASE Settle(e)
  <2>1. PICK s \in {"done", "queued", "dead"} : event' = [event EXCEPT ![e].state = s, ![e].at = "derive"]
    BY <1>2 DEF Settle
  <2>2. event' \in [Event -> EventState]
    <3>1. [event[e] EXCEPT !.state = s, !.at = "derive"] \in EventState
      BY <1>0, OrderSet DEF EventState
    <3>2. event' = [event EXCEPT ![e] = [event[e] EXCEPT !.state = s, !.at = "derive"]]
      BY <2>1 DEF Typed
    <3> QED BY <3>1, <3>2 DEF Typed
  <2> QED
    BY <1>2, <2>2 DEF Settle, Typed, storeVars, history
<1>3. CASE Moved(e) /\ UNCHANGED <<call, forget, history>>
  <2>1. event' \in [Event -> EventState]
    <3>1. PICK x \in ToSet(Order), y \in BOOLEAN : event' = [event EXCEPT ![e].at = x, ![e].failed = y]
      BY <1>3 DEF Moved
    <3>2. [event[e] EXCEPT !.at = x, !.failed = y] \in EventState
      BY <1>0 DEF EventState
    <3>3. event' = [event EXCEPT ![e] = [event[e] EXCEPT !.at = x, !.failed = y]]
      BY <3>1 DEF Typed
    <3> QED BY <3>2, <3>3 DEF Typed
  <2>2. faults' \in 0 .. MaxFaults
    BY <1>0, <1>3, RecordAssumption DEF Moved
  <2>3. ASSUME point' = [point EXCEPT ![e[2]] = Derived(By(e))], UNCHANGED <<entries, file>>
        PROVE  Typed'
    <3>1. point' \in [Uri -> Point] /\ \A u \in Uri : point'[u].by = None <=> point'[u].kind \in {"none", "directory"}
      BY <1>0, <2>3, Values DEF Typed
    <3> QED BY <1>3, <2>1, <2>2, <2>3, <3>1 DEF Typed, history
  <2>4. ASSUME event[e].at \in {"search", "entity", "reason", "tree"},
               Put([uri |-> e[2], kind |-> event[e].at, by |-> By(e)]), UNCHANGED <<point, file>>
        PROVE  Typed'
    <3>1. [uri |-> e[2], kind |-> event[e].at, by |-> By(e)] \in Entry
      BY <1>0, <2>4 DEF Entry
    <3>2. entries' \subseteq Entry
      BY <2>4, <3>1 DEF Put, Typed
    <3> QED BY <1>3, <2>1, <2>2, <2>4, <3>2 DEF Typed, history
  <2>5. ASSUME file' = [file EXCEPT ![e[2]] = By(e)], UNCHANGED <<point, entries>>
        PROVE  Typed'
    <3>1. file' \in [Uri -> Derivation \cup {None}]
      BY <1>0, <2>5 DEF Typed
    <3> QED BY <1>3, <2>1, <2>2, <2>5, <3>1 DEF Typed, history
  <2>6. ASSUME UNCHANGED storeVars PROVE Typed'
    BY <1>3, <2>1, <2>2, <2>6 DEF Typed, history, storeVars
  <2> QED
    BY <1>1, <1>2, <2>3, <2>4, <2>5, <2>6, WorkerMoves
<1> QED
  BY <1>1, <1>2, <1>3, WorkerMoves

LEMMA ForgetTyped ==
  ASSUME Typed, ForgetInv, SweptInv, ForgetStep
  PROVE  Typed' /\ UNCHANGED <<call, event>>
<1>0. forget \in ForgetState /\ faults \in 0 .. MaxFaults
  BY DEF Typed
<1>1. ASSUME NEW u \in Uri, ForgetCheck(u) PROVE Typed' /\ UNCHANGED <<call, event>>
  <2>1. Idle(u) \in BOOLEAN
    BY DEF Idle
  <2>2. forget' \in ForgetState
    BY <1>1, <2>1 DEF ForgetCheck, NoForget, ForgetState, Forgetting
  <2>3. swept \subseteq swept' /\ swept' \subseteq Uri
    BY <1>1 DEF ForgetCheck, Typed
  <2> QED
    BY <1>1, <2>2, <2>3 DEF ForgetCheck, Typed, storeVars
<1>2. CASE ForgetScan
  <2>1. forget' \in ForgetState
    BY <1>0, <1>2 DEF ForgetScan, ForgetState, Forgetting, Typed
  <2> QED
    BY <1>2, <2>1 DEF ForgetScan, Typed, storeVars, history
<1>3. CASE ForgetDelete
  <2>1. forget' \in ForgetState
    BY <1>0, <1>3 DEF ForgetDelete, ForgetState, Forgetting
  <2>2. point' \in [Uri -> Point] /\ \A u \in Uri : point'[u].by = None <=> point'[u].kind \in {"none", "directory"}
    BY <1>3, Values DEF ForgetDelete, Typed
  <2> QED
    BY <1>3, <2>1, <2>2 DEF ForgetDelete, Typed, history
<1>4. CASE ForgetFiles
  <2>1. forget' \in ForgetState /\ forget.uri \in Uri
    BY <1>0, <1>4 DEF ForgetFiles, ForgetState, ForgetInv, Forgetting
  <2>2. file' \in [Uri -> Derivation \cup {None}]
    BY <1>4 DEF ForgetFiles, Typed
  <2>3. quietly' \subseteq forgotten' /\ forgotten' \subseteq swept'
    BY <1>4, <2>1, OwnPath DEF ForgetFiles, Typed, SweptInv, Forgetting
  <2> QED
    BY <1>4, <2>1, <2>2, <2>3 DEF ForgetFiles, Typed
<1>5. CASE ForgetFails
  <2>1. forget' \in ForgetState
    BY <1>5 DEF ForgetFails, Forgo, NoForget, ForgetState
  <2>2. faults' \in 0 .. MaxFaults
    BY <1>0, <1>5, RecordAssumption DEF ForgetFails, Fault
  <2> QED
    BY <1>5, <2>1, <2>2 DEF ForgetFails, Typed, storeVars, history
<1> QED
  BY <1>1, <1>2, <1>3, <1>4, <1>5 DEF ForgetStep

LEMMA CrashTyped ==
  ASSUME Typed, Crash
  PROVE  Typed'
<1>1. call' \in [Call -> CallState] /\ \A d \in Call : call'[d].next = call[d].next
  BY DEF Crash, Typed, CallState
<1>2. event' \in [Event -> EventState]
  <2>1. \A e \in Event : event[e] \in EventState
    BY DEF Typed
  <2>2. \A e \in Event : [event[e] EXCEPT !.state = "queued", !.at = "derive"] \in EventState
    BY <2>1, OrderSet DEF EventState
  <2> QED
    BY <2>1, <2>2 DEF Crash
<1>3. forget' \in ForgetState
  BY DEF Crash, Forgo, NoForget, Typed, ForgetState
<1>4. faults' \in 0 .. MaxFaults
  <2>1. faults < MaxFaults /\ faults' = faults + 1
    BY DEF Crash, Fault
  <2>2. faults \in 0 .. MaxFaults /\ MaxFaults \in Nat
    BY RecordAssumption DEF Typed
  <2> QED BY <2>1, <2>2
<1> QED
  BY <1>1, <1>2, <1>3, <1>4 DEF Crash, Typed, storeVars, history

\* Which events a call publishes when it writes its next record.
LEMMA PublishedAt ==
  ASSUME Typed, NEW c \in Call, Writing(c)
  PROVE  /\ \A i \in DOMAIN Doc[c] : <<c, Doc[c][i]>> \in Published(c)
               <=> IF call[c].final THEN \/ i > 1 /\ i = call[c].next
                                         \/ i = 1 /\ call[c].next = Len(Doc[c])
                   ELSE i = call[c].next
         /\ Published(c) \subseteq {<<c, Doc[c][i]>> : i \in DOMAIN Doc[c]}
<1>1. /\ call[c].next \in DOMAIN Doc[c] /\ Target(c) = Doc[c][call[c].next]
      /\ 1 \in DOMAIN Doc[c] /\ Doc[c] \in Seq(Uri)
  BY TargetTyped
<1>2. \A i, j \in DOMAIN Doc[c] : Doc[c][i] = Doc[c][j] => i = j
  BY RecordAssumption DEF IsInjective
<1>3. DOMAIN Doc[c] = 1 .. Len(Doc[c]) /\ call[c].final \in BOOLEAN /\ call[c].next \in Nat
  BY <1>1 DEF Typed, CallState
<1>4. CASE ~call[c].final
  <2>1. Published(c) = {<<c, Doc[c][call[c].next]>>}
    BY <1>1, <1>4 DEF Published
  <2> QED
    BY <1>1, <1>2, <1>4, <2>1
<1>5. CASE call[c].final
  <2>1. \A p : p \in Published(c)
          <=> \/ call[c].next > 1 /\ p = <<c, Doc[c][call[c].next]>>
              \/ call[c].next = Len(Doc[c]) /\ p = <<c, Doc[c][1]>>
    BY <1>1, <1>5 DEF Published
  <2>2. \A i \in DOMAIN Doc[c] : <<c, Doc[c][i]>> \in Published(c)
          <=> \/ call[c].next > 1 /\ i = call[c].next
              \/ call[c].next = Len(Doc[c]) /\ i = 1
    BY <1>1, <1>2, <2>1
  <2>3. Published(c) \subseteq {<<c, Doc[c][i]>> : i \in DOMAIN Doc[c]}
    BY <1>1, <2>1
  <2> QED
    BY <1>3, <1>5, <2>2, <2>3
<1> QED
  BY <1>3, <1>4, <1>5

LEMMA PublishedFresh ==
  ASSUME Typed, PublishedInv, NEW c \in Call, Writing(c), NEW e \in Event, e \in Published(c)
  PROVE  event[e].state = "none" /\ e[1] = c
<1>1. PICK i \in DOMAIN Doc[c] : e = <<c, Doc[c][i]>>
  BY PublishedAt
<1>2. IF call[c].final THEN \/ i > 1 /\ i = call[c].next
                            \/ i = 1 /\ call[c].next = Len(Doc[c])
      ELSE i = call[c].next
  BY <1>1, PublishedAt
<1>3. Len(Doc[c]) \in Nat /\ call[c].next \in Nat /\ i \in Nat
  BY TargetTyped, <1>1 DEF Typed, CallState
<1>4. ~(IF call[c].final /\ i = 1 THEN call[c].next = Len(Doc[c]) + 1 ELSE i < call[c].next)
  BY <1>2, <1>3
<1> QED
  BY <1>1, <1>4 DEF PublishedInv

LEMMA EventOf ==
  ASSUME NEW c \in Call, NEW i \in DOMAIN Doc[c]
  PROVE  <<c, Doc[c][i]>> \in Event /\ Doc[c][i] \in Uri
<1>1. Doc[c] \in Seq(Uri)
  BY RecordAssumption
<1> QED
  BY <1>1 DEF Event, ToSet

LEMMA PublishedKept ==
  ASSUME PublishedInv, Typed, UNCHANGED call,
         \A e \in Event : event'[e].state = "none" <=> event[e].state = "none"
  PROVE  PublishedInv'
BY EventOf DEF PublishedInv

LEMMA PublishedStore ==
  ASSUME Typed, PublishedInv, NEW c \in Call, StoreStep(c)
  PROVE  PublishedInv'
<1>0. call[c] \in CallState /\ Len(Doc[c]) \in Nat
  BY RecordAssumption DEF Typed
<1>1. CASE WriteDirectory(c) \/ CallFails(c)
  <2>1. PICK s \in {"running", "failed"}, n \in Nat : call' = [call EXCEPT ![c].state = s, ![c].dirs = n]
    <3>1. call[c].dirs + 1 \in Nat /\ call[c].dirs \in Nat
      BY <1>0 DEF CallState
    <3>2. ASSUME WriteDirectory(c)
          PROVE  call' = [call EXCEPT ![c].state = "running", ![c].dirs = call[c].dirs + 1]
      BY <3>2 DEF WriteDirectory, Typed, CallState
    <3>3. ASSUME CallFails(c)
          PROVE  call' = [call EXCEPT ![c].state = "failed", ![c].dirs = call[c].dirs]
      <4>1. call' = [call EXCEPT ![c].state = "failed"]
        BY <3>3 DEF CallFails
      <4> QED BY <1>0, <4>1 DEF Typed, CallState
    <3> QED BY <1>1, <3>1, <3>2, <3>3
  <2>2. Writing(c) /\ UNCHANGED event
    BY <1>1 DEF WriteDirectory, CallFails
  <2>3. call[c].next # Len(Doc[c]) + 1
    BY <1>0, <2>2 DEF Writing, CallState
  <2>4. \A d \in Call : /\ call'[d].next = call[d].next /\ call'[d].final = call[d].final
                        /\ d # c => call'[d] = call[d]
                        /\ call'[c].state = s
    BY <2>1 DEF Typed, CallState
  <2> QED
    BY <2>2, <2>3, <2>4 DEF PublishedInv
<1>2. CASE WriteRecord(c)
  <2>0. Writing(c) /\ Publish(Published(c))
    BY <1>2 DEF WriteRecord
  <2>1. /\ call'[c].next = call[c].next + 1 /\ call'[c].final = call[c].final
        /\ call'[c].state = IF call[c].next = Len(Doc[c]) THEN "done" ELSE "running"
        /\ \A d \in Call : d # c => call'[d] = call[d]
    BY <1>2, <1>0 DEF WriteRecord, Typed, CallState
  <2>2. \A e \in Event : event'[e].state = IF e \in Published(c) THEN "queued" ELSE event[e].state
    BY <2>0 DEF Publish, Typed, EventState
  <2>3. call[c].next \in 1 .. Len(Doc[c])
    BY <1>0, <2>0 DEF Writing, CallState
  <2>4. ASSUME NEW d \in Call, d # c, NEW i \in DOMAIN Doc[d]
        PROVE  event'[<<d, Doc[d][i]>>].state = event[<<d, Doc[d][i]>>].state
    <3>1. <<d, Doc[d][i]>> \in Event BY <2>4, EventOf
    <3>2. <<d, Doc[d][i]>> \notin Published(c) BY <2>0, <2>4, PublishedAt
    <3> QED BY <2>2, <3>1, <3>2
  <2>5. ASSUME NEW i \in DOMAIN Doc[c]
        PROVE  event'[<<c, Doc[c][i]>>].state # "none"
                 <=> IF call'[c].final /\ i = 1 THEN call'[c].next = Len(Doc[c]) + 1
                     ELSE i < call'[c].next
    <3>1. <<c, Doc[c][i]>> \in Event BY EventOf
    <3>2. <<c, Doc[c][i]>> \in Published(c)
               <=> IF call[c].final THEN \/ i > 1 /\ i = call[c].next
                                         \/ i = 1 /\ call[c].next = Len(Doc[c])
                   ELSE i = call[c].next
      BY <2>0, PublishedAt
    <3>3. event[<<c, Doc[c][i]>>].state # "none"
              <=> IF call[c].final /\ i = 1 THEN call[c].next = Len(Doc[c]) + 1
                  ELSE i < call[c].next
      BY DEF PublishedInv
    <3>4. i \in 1 .. Len(Doc[c])
      BY RecordAssumption
    <3>5. event'[<<c, Doc[c][i]>>].state # "none"
            <=> <<c, Doc[c][i]>> \in Published(c) \/ event[<<c, Doc[c][i]>>].state # "none"
      BY <2>2, <3>1
    <3>6. CASE call[c].final /\ i = 1
      BY <1>0, <2>1, <2>3, <3>2, <3>3, <3>4, <3>5, <3>6
    <3>7. CASE ~(call[c].final /\ i = 1)
      <4>1. <<c, Doc[c][i]>> \in Published(c) <=> i = call[c].next
        BY <3>2, <3>4, <3>7
      <4> QED
        BY <1>0, <2>1, <2>3, <3>3, <3>4, <3>5, <3>7, <4>1
    <3> QED BY <3>6, <3>7
  <2>6. /\ call'[c].state # "ready"
        /\ call'[c].state = "done" <=> call'[c].next = Len(Doc[c]) + 1
    BY <1>0, <2>1, <2>3
  <2>7. ASSUME NEW d \in Call
        PROVE  /\ call'[d].state = "ready" => call'[d].next = 1 /\ call'[d].dirs = 0
               /\ call'[d].state = "done" <=> call'[d].next = Len(Doc[d]) + 1
               /\ \A i \in DOMAIN Doc[d] :
                     event'[<<d, Doc[d][i]>>].state # "none"
                        <=> IF call'[d].final /\ i = 1 THEN call'[d].next = Len(Doc[d]) + 1
                            ELSE i < call'[d].next
    <3>1. CASE d = c
      BY <2>5, <2>6, <3>1
    <3>2. CASE d # c
      BY <2>1, <2>4, <3>2 DEF PublishedInv
    <3> QED BY <3>1, <3>2
  <2> QED
    BY <2>7 DEF PublishedInv
<1> QED
  BY <1>1, <1>2 DEF StoreStep

\* What the steps of the worker and a crash do to the events.
LEMMA EventSteps ==
  ASSUME Typed, NEW e \in Event, WorkerStep(e)
  PROVE  /\ \A f \in Event : f # e => event'[f] = event[f]
         /\ \/ /\ Start(e) /\ event[e].state = "queued" /\ event'[e].state = "running"
               /\ event'[e].at = "derive" /\ event'[e].tries = event[e].tries + 1
               /\ UNCHANGED <<storeVars, faults>>
            \/ /\ Settle(e) /\ event[e].state = "running" /\ event[e].at = "settle"
               /\ event'[e].tries = event[e].tries
               /\ \/ event'[e].state = "dead"
                  \/ event'[e].state = "done" /\ ~event[e].failed
                  \/ event'[e].state = "queued" /\ event[e].tries < MaxAttempts
               /\ UNCHANGED <<storeVars, faults>>
            \/ /\ Moved(e) /\ event[e].state = "running" /\ event'[e].state = "running"
               /\ event'[e].tries = event[e].tries
               /\ event'[e].at = After(e) \/ event'[e].at = "settle"
         /\ faults' = faults \/ faults' = faults + 1
         /\ UNCHANGED <<call, forget, history>>
<1>0. event[e] \in EventState
  BY DEF Typed
<1>1. CASE Start(e)
  BY <1>1 DEF Start, Typed
<1>2. CASE Settle(e)
  <2>1. PICK s : /\ event' = [event EXCEPT ![e].state = s, ![e].at = "derive"]
                 /\ s \in IF ~event[e].failed THEN {"done"}
                          ELSE IF event[e].tries < MaxAttempts THEN {"queued", "dead"} ELSE {"dead"}
    BY <1>2 DEF Settle
  <2>2. event'[e].state = s /\ event'[e].tries = event[e].tries /\ \A f \in Event : f # e => event'[f] = event[f]
    BY <1>0, <2>1 DEF Typed, EventState
  <2> QED
    BY <1>2, <2>1, <2>2 DEF Settle, At
<1>3. CASE Moved(e) /\ UNCHANGED <<call, forget, history>>
  <2>1. PICK x \in ToSet(Order), y \in BOOLEAN :
           event' = [event EXCEPT ![e].at = x, ![e].failed = y] /\ (x = After(e) \/ x = "settle")
    BY <1>3 DEF Moved
  <2>2. /\ event'[e].state = event[e].state /\ event'[e].tries = event[e].tries /\ event'[e].at = x
        /\ \A f \in Event : f # e => event'[f] = event[f]
    BY <1>0, <2>1 DEF Typed, EventState
  <2>3. event[e].state = "running" /\ (faults' = faults \/ faults' = faults + 1)
    BY <1>3 DEF Moved
  <2> QED
    BY <1>3, <2>1, <2>2, <2>3
<1> QED
  BY <1>1, <1>2, <1>3, WorkerMoves

LEMMA CrashSteps ==
  ASSUME Typed, Crash
  PROVE  /\ \A e \in Event :
              IF event[e].state = "running"
              THEN event'[e].state = "queued" /\ event'[e].tries = event[e].tries
              ELSE event'[e] = event[e]
         /\ \A c \in Call :
              /\ call'[c].next = call[c].next /\ call'[c].final = call[c].final
              /\ call'[c].dirs = call[c].dirs
              /\ call'[c].state = IF call[c].state = "running" THEN "failed" ELSE call[c].state
         /\ faults' = faults + 1
         /\ UNCHANGED <<storeVars, history>>
         /\ forget' = forget \/ forget' = [NoForget EXCEPT !.pc = "done"]
         /\ forget'.pc \notin Forgetting
<1>1. \A e \in Event : event[e] \in EventState
  BY DEF Typed
<1>2. \A c \in Call : call[c] \in CallState
  BY DEF Typed
<1>3. forget \in ForgetState
  BY DEF Typed
<1>4. \A e \in Event :
         IF event[e].state = "running"
         THEN event'[e].state = "queued" /\ event'[e].tries = event[e].tries
         ELSE event'[e] = event[e]
  BY <1>1 DEF Crash, EventState
<1>5. \A c \in Call :
         /\ call'[c].next = call[c].next /\ call'[c].final = call[c].final
         /\ call'[c].dirs = call[c].dirs
         /\ call'[c].state = IF call[c].state = "running" THEN "failed" ELSE call[c].state
  BY <1>2 DEF Crash, CallState
<1>6. /\ forget' = forget \/ forget' = [NoForget EXCEPT !.pc = "done"]
      /\ forget'.pc \notin Forgetting
  BY <1>3 DEF Crash, Forgo, NoForget, ForgetState, Forgetting
<1> QED
  BY <1>4, <1>5, <1>6 DEF Crash, Fault

LEMMA PublishedStep ==
  ASSUME Typed, PublishedInv, ForgetInv, SweptInv, [Next]_vars
  PROVE  PublishedInv'
<1>1. ASSUME NEW c \in Call, StoreStep(c) PROVE PublishedInv'
  BY <1>1, PublishedStore
<1>2. ASSUME NEW e \in Event, WorkerStep(e) PROVE PublishedInv'
  <2>1. UNCHANGED call
    BY <1>2, EventSteps
  <2>2. \A f \in Event : event'[f].state = "none" <=> event[f].state = "none"
    BY <1>2, EventSteps
  <2> QED BY <2>1, <2>2, PublishedKept
<1>3. CASE ForgetStep
  BY <1>3, ForgetTyped, PublishedKept
<1>4. CASE Crash
  <2>1. \A f \in Event : event'[f].state = "none" <=> event[f].state = "none"
    BY <1>4, CrashSteps
  <2>2. \A c \in Call : /\ call'[c].next = call[c].next /\ call'[c].final = call[c].final
                        /\ call'[c].dirs = call[c].dirs
                        /\ call'[c].state = "ready" <=> call[c].state = "ready"
                        /\ call'[c].state = "done" <=> call[c].state = "done"
    BY <1>4, CrashSteps
  <2>3. ASSUME NEW c \in Call
        PROVE  \A i \in DOMAIN Doc[c] :
                 event'[<<c, Doc[c][i]>>].state # "none"
                   <=> IF call'[c].final /\ i = 1 THEN call'[c].next = Len(Doc[c]) + 1
                       ELSE i < call'[c].next
    <3>1. call'[c].next = call[c].next /\ call'[c].final = call[c].final
      BY <2>2
    <3>2. \A i \in DOMAIN Doc[c] :
             event'[<<c, Doc[c][i]>>].state # "none" <=> event[<<c, Doc[c][i]>>].state # "none"
      BY <2>1, EventOf
    <3> QED BY <3>1, <3>2 DEF PublishedInv
  <2>4. ASSUME NEW c \in Call
        PROVE  /\ call'[c].state = "ready" => call'[c].next = 1 /\ call'[c].dirs = 0
               /\ call'[c].state = "done" <=> call'[c].next = Len(Doc[c]) + 1
    BY <2>2 DEF PublishedInv
  <2> QED
    BY <2>3, <2>4 DEF PublishedInv
<1>5. CASE UNCHANGED vars
  BY <1>5 DEF vars, PublishedInv
<1> QED
  BY <1>1, <1>2, <1>3, <1>4, <1>5 DEF Next

LEMMA TriesStep ==
  ASSUME Typed, PublishedInv, TriesInv, ForgetInv, SweptInv, [Next]_vars
  PROVE  TriesInv'
<1>0. /\ \A e \in Event : event[e].tries \in Nat
      /\ faults \in Nat /\ MaxAttempts \in Nat \ {0}
  BY RecordAssumption DEF Typed, EventState
<1>1. ASSUME NEW c \in Call, StoreStep(c) PROVE TriesInv'
  <2>1. CASE WriteRecord(c)
    <3>1. Writing(c) /\ UNCHANGED faults
      BY <2>1 DEF WriteRecord
    <3>2. \A e \in Event : event'[e] = IF e \in Published(c) THEN [event[e] EXCEPT !.state = "queued"]
                                       ELSE event[e]
      BY <2>1 DEF WriteRecord, Publish
    <3>3. ASSUME NEW e \in Event
          PROVE  /\ event'[e].state = "none" => event'[e].tries = 0
                 /\ event'[e].state = "queued" => event'[e].tries < MaxAttempts + faults
                 /\ event'[e].tries <= MaxAttempts + faults
      <4>1. event[e] \in EventState
        BY DEF Typed
      <4>2. CASE e \in Published(c)
        <5>1. event'[e].state = "queued" /\ event'[e].tries = event[e].tries
          BY <3>2, <4>1, <4>2 DEF EventState
        <5>2. event[e].tries = 0
          BY <3>1, <4>2, PublishedFresh DEF TriesInv
        <5> QED BY <1>0, <5>1, <5>2
      <4>3. CASE e \notin Published(c)
        BY <3>2, <4>3 DEF TriesInv
      <4> QED BY <4>2, <4>3
    <3> QED BY <3>1, <3>3 DEF TriesInv
  <2>2. CASE WriteDirectory(c)
    BY <2>2 DEF WriteDirectory, TriesInv
  <2>3. CASE CallFails(c)
    <3>1. UNCHANGED event /\ faults' = faults + 1
      BY <2>3 DEF CallFails, Fault
    <3> QED BY <1>0, <3>1 DEF TriesInv
  <2> QED BY <1>1, <2>1, <2>2, <2>3 DEF StoreStep
<1>2. ASSUME NEW e \in Event, WorkerStep(e) PROVE TriesInv'
  <2>1. /\ \A f \in Event : f # e => event'[f] = event[f]
        /\ \/ /\ event[e].state = "queued" /\ event'[e].state = "running"
              /\ event'[e].tries = event[e].tries + 1
           \/ /\ event'[e].tries = event[e].tries
              /\ event'[e].state = "queued" => event[e].tries < MaxAttempts
              /\ event'[e].state # "none"
        /\ faults' = faults \/ faults' = faults + 1
    BY <1>2, EventSteps
  <2> QED
    BY <1>0, <2>1 DEF TriesInv
<1>3. CASE ForgetStep
  <2>1. UNCHANGED event
    BY <1>3, ForgetTyped
  <2>2. faults' = faults \/ faults' = faults + 1
    BY <1>3 DEF ForgetStep, ForgetCheck, ForgetScan, ForgetDelete, ForgetFiles, ForgetFails, Fault
  <2> QED BY <1>0, <2>1, <2>2 DEF TriesInv
<1>4. CASE Crash
  <2>1. /\ faults' = faults + 1
        /\ \A e \in Event :
              IF event[e].state = "running"
              THEN event'[e].state = "queued" /\ event'[e].tries = event[e].tries
              ELSE event'[e] = event[e]
    BY <1>4, CrashSteps
  <2> QED
    BY <1>0, <2>1 DEF TriesInv
<1>5. CASE UNCHANGED vars
  BY <1>5 DEF vars, TriesInv
<1> QED
  BY <1>1, <1>2, <1>3, <1>4, <1>5 DEF Next

LEMMA ReasonStep ==
  ASSUME Typed, ReasonOnce, [Next]_vars
  PROVE  ReasonOnce'
<1>1. ASSUME NEW c \in Call, StoreStep(c) PROVE ReasonOnce'
  BY <1>1 DEF StoreStep, WriteDirectory, WriteRecord, CallFails, storeVars, ReasonOnce
<1>2. ASSUME NEW e \in Event, WorkerStep(e) PROVE ReasonOnce'
  <2>1. ASSUME NEW x, Put(x) PROVE ReasonOnce'
    BY <2>1 DEF Put, SameId, ReasonOnce
  <2>2. CASE UNCHANGED entries
    BY <2>2 DEF ReasonOnce
  <2> QED
    BY <1>2, <2>1, <2>2, WorkerMoves DEF Start, Settle, storeVars
<1>3. CASE ForgetStep
  <2>1. entries' \subseteq entries
    BY <1>3 DEF ForgetStep, ForgetCheck, ForgetScan, ForgetDelete, ForgetFiles, ForgetFails, storeVars
  <2> QED BY <2>1 DEF ReasonOnce
<1>4. CASE Crash
  BY <1>4 DEF Crash, storeVars, ReasonOnce
<1>5. CASE UNCHANGED vars
  BY <1>5 DEF vars, storeVars, ReasonOnce
<1> QED
  BY <1>1, <1>2, <1>3, <1>4, <1>5 DEF Next

LEMMA ForgetInvStep ==
  ASSUME Typed, ForgetInv, SweptInv, [Next]_vars
  PROVE  ForgetInv' /\ SweptInv'
<1>0. forget \in ForgetState
  BY DEF Typed
<1>1. ASSUME NEW c \in Call, StoreStep(c) PROVE ForgetInv' /\ SweptInv'
  <2>1. CASE WriteRecord(c)
    <3>1. /\ forget'.pc = forget.pc /\ forget'.uri = forget.uri /\ forget'.points = forget.points
          /\ forget'.found = forget.found
          /\ forget'.quiet => forget.quiet
      BY <1>0, <2>1 DEF WriteRecord, StoredAgain, ForgetState
    <3>2. /\ forget.pc \in Forgetting /\ Matches(Target(c), forget.uri) => swept' = swept
          /\ swept \ {Target(c)} \subseteq swept'
      BY <2>1 DEF WriteRecord, StoredAgain
    <3>3. ForgetInv'
      BY <3>1 DEF ForgetInv, Matches, Below
    <3>4. SweptInv'
      BY <3>1, <3>2 DEF SweptInv, Matches, Below
    <3> QED BY <3>3, <3>4
  <2>2. CASE WriteDirectory(c) \/ CallFails(c)
    BY <2>2 DEF WriteDirectory, CallFails, history, ForgetInv, SweptInv, Matches, Below
  <2> QED BY <1>1, <2>1, <2>2 DEF StoreStep
<1>2. ASSUME NEW e \in Event, WorkerStep(e) PROVE ForgetInv' /\ SweptInv'
  <2>1. UNCHANGED <<forget, history>>
    BY <1>2, EventSteps
  <2> QED BY <2>1 DEF history, ForgetInv, SweptInv, Matches, Below
<1>3. CASE ForgetStep
  <2>1. ASSUME NEW u \in Uri, ForgetCheck(u) PROVE ForgetInv' /\ SweptInv'
    <3>1. forget'.pc = "scan" /\ forget'.uri = u
      BY <2>1 DEF ForgetCheck, NoForget
    <3>2. {w \in Uri : Matches(w, u)} \subseteq swept'
      BY <2>1 DEF ForgetCheck
    <3> QED BY <3>1, <3>2 DEF ForgetInv, SweptInv, Matches, Below, Forgetting
  <2>2. CASE ForgetScan
    <3>1. /\ forget'.pc = "delete" /\ forget'.uri = forget.uri /\ UNCHANGED history
          /\ forget'.points = {w \in Uri : point[w].kind # "none" /\ PointMatches(w, forget.uri)}
          /\ forget'.found = {x \in entries : EntryMatches(x, forget.uri)}
          /\ forget.pc \in Forgetting
      BY <1>0, <2>2 DEF ForgetScan, ForgetState, Forgetting
    <3>2. \A x \in entries : x.uri \in Uri
      BY DEF Typed, Entry
    <3> QED BY <3>1, <3>2 DEF ForgetInv, SweptInv, PointMatches, EntryMatches, Matches, Below, Forgetting, history
  <2>3. CASE ForgetDelete
    <3>1. /\ forget'.pc = "files" /\ forget'.uri = forget.uri /\ UNCHANGED history
          /\ forget.pc \in Forgetting
      BY <1>0, <2>3 DEF ForgetDelete, ForgetState, Forgetting
    <3> QED BY <3>1 DEF ForgetInv, SweptInv, Matches, Below, Forgetting, history
  <2>4. CASE ForgetFiles
    <3>1. forget'.pc = "done" /\ ~forget'.quiet
      BY <1>0, <2>4 DEF ForgetFiles, ForgetState
    <3> QED BY <3>1 DEF ForgetInv, SweptInv, Forgetting
  <2>5. CASE ForgetFails
    <3>1. forget'.pc = "done" /\ ~forget'.quiet
      BY <2>5 DEF ForgetFails, Forgo, NoForget
    <3> QED BY <3>1 DEF ForgetInv, SweptInv, Forgetting
  <2> QED BY <1>3, <2>1, <2>2, <2>3, <2>4, <2>5 DEF ForgetStep
<1>4. CASE Crash
  <2>1. /\ forget' = forget \/ forget' = [NoForget EXCEPT !.pc = "done"]
        /\ forget'.pc \notin Forgetting
    BY <1>4, CrashSteps
  <2>2. ~forget'.quiet
    BY <2>1 DEF ForgetInv, NoForget
  <2> QED BY <2>1, <2>2 DEF ForgetInv, SweptInv, Forgetting
<1>5. CASE UNCHANGED vars
  BY <1>5 DEF vars, history, ForgetInv, SweptInv, Matches, Below
<1> QED
  BY <1>1, <1>2, <1>3, <1>4, <1>5 DEF Next

LEMMA BasicInit == Init => Basic
<1> SUFFICES ASSUME Init PROVE Basic
  OBVIOUS
<1>1. PICK F \in Endings :
         call = [c \in Call |-> [state |-> "ready", next |-> 1, dirs |-> 0, final |-> c \in F]]
  BY DEF Init
<1>2. \A c \in Call : Len(Doc[c]) \in Nat \ {0}
  <2>1. \A c \in Call : Doc[c] \in Seq(Uri) /\ Doc[c] # <<>>
    BY RecordAssumption
  <2> QED BY <2>1
<1>3. call \in [Call -> CallState] /\ \A c \in Call : call[c].next \in 1 .. Len(Doc[c]) + 1
  BY <1>1, <1>2 DEF CallState
<1>4. "derive" \in ToSet(Order) /\ 0 \in 0 .. MaxAttempts + MaxFaults /\ 0 \in 0 .. MaxFaults
  BY OrderSet, RecordAssumption
<1>5. event \in [Event -> EventState]
  BY <1>4 DEF Init, EventState
<1>6. forget \in ForgetState /\ forget.pc = "idle" /\ ~forget.quiet
  BY DEF Init, NoForget, ForgetState
<1>7. point \in [Uri -> Point] /\ \A u \in Uri : point[u].by = None <=> point[u].kind \in {"none", "directory"}
  BY Values DEF Init
<1>8. Typed
  BY <1>3, <1>4, <1>5, <1>6, <1>7 DEF Init, Typed
<1>9. PublishedInv
  <2>1. \A c \in Call : \A i \in DOMAIN Doc[c] : i \in Nat \ {0}
    <3>1. \A c \in Call : Doc[c] \in Seq(Uri)
      BY RecordAssumption
    <3> QED BY <3>1
  <2>2. \A c \in Call : \A i \in DOMAIN Doc[c] : event[<<c, Doc[c][i]>>].state = "none"
    BY EventOf DEF Init
  <2>3. \A c \in Call : \E b : call[c] = [state |-> "ready", next |-> 1, dirs |-> 0, final |-> b]
    BY <1>1, Zenon
  <2>6. ASSUME NEW c \in Call
        PROVE  call[c].next = 1 /\ call[c].dirs = 0 /\ call[c].state = "ready"
    <3>1. PICK b : call[c] = [state |-> "ready", next |-> 1, dirs |-> 0, final |-> b]
      BY <2>3, Zenon
    <3> QED BY <3>1
  <2>7. \A c \in Call : 1 # Len(Doc[c]) + 1
    BY <1>2
  <2>8. \A c \in Call : \A i \in DOMAIN Doc[c] : ~(i < 1)
    BY <2>1
  <2>4. ASSUME NEW c \in Call, NEW i \in DOMAIN Doc[c]
        PROVE  ~(IF call[c].final /\ i = 1 THEN call[c].next = Len(Doc[c]) + 1
                 ELSE i < call[c].next)
    BY <2>6, <2>7, <2>8
  <2>5. \A c \in Call : /\ call[c].next = 1 /\ call[c].dirs = 0 /\ call[c].state # "done"
                        /\ call[c].next # Len(Doc[c]) + 1
    BY <2>6, <2>7
  <2> QED BY <2>2, <2>4, <2>5 DEF PublishedInv
<1>10. TriesInv
  BY RecordAssumption DEF Init, TriesInv
<1>11. ReasonOnce
  BY DEF Init, ReasonOnce
<1>12. ForgetInv /\ SweptInv
  BY <1>6 DEF ForgetInv, SweptInv, Forgetting
<1> QED
  BY <1>8, <1>9, <1>10, <1>11, <1>12 DEF Basic

LEMMA BasicStep == Basic /\ [Next]_vars => Basic'
<1> SUFFICES ASSUME Basic, [Next]_vars PROVE Basic'
  OBVIOUS
<1> USE DEF Basic
<1>1. Typed'
  <2>1. CASE UNCHANGED vars
    BY <2>1 DEF vars, storeVars, history, Typed
  <2> QED
    BY <2>1, StoreTyped, WorkerTyped, ForgetTyped, CrashTyped DEF Next
<1> QED
  BY <1>1, PublishedStep, TriesStep, ReasonStep, ForgetInvStep

LEMMA BasicAlways == Spec => []Basic
BY BasicInit, BasicStep, PTL DEF Spec

\* The variables keep their types; an event is handled at most MaxAttempts times and
\* once more after each fault, and a record has one reason-tree entry.
THEOREM TypeCorrect == Spec => []TypeOK
<1>1. Basic => TypeOK
  <2> SUFFICES ASSUME Basic, NEW u \in Uri
               PROVE  Cardinality({x \in entries : x.uri = u /\ x.kind = "reason"}) <= 1
    BY DEF Basic, Typed, TypeOK
  <2> DEFINE S == {x \in entries : x.uri = u /\ x.kind = "reason"}
  <2>1. \A x, y \in S : x = y
    BY DEF Basic, ReasonOnce
  <2>2. CASE S = {}
    BY <2>2, FS_EmptySet
  <2>3. CASE S # {}
    <3>1. PICK x \in S : TRUE
      BY <2>3
    <3>2. S = {x}
      BY <2>1, <3>1
    <3>3. Cardinality({x}) = 1
      BY FS_Singleton
    <3>4. Cardinality(S) = 1
      BY <3>2, <3>3
    <3> QED BY <3>4
  <2> QED BY <2>2, <2>3
<1> QED
  BY <1>1, BasicAlways, PTL

-------------------------------------------------------------------------------
(* What is at rest is not stored. *)

\* A step of the worker stores nothing of other records.
LEMMA OtherRecord ==
  ASSUME Typed, NEW e \in Event, WorkerStep(e), NEW u \in Uri, u # e[2]
  PROVE  /\ point'[u] = point[u] /\ file'[u] = file[u]
         /\ \A x : x.uri = u => (x \in entries' <=> x \in entries)
<1>1. CASE UNCHANGED storeVars
  BY <1>1 DEF storeVars
<1>2. ASSUME NEW x, x.uri = e[2], Put(x)
      PROVE  \A y : y.uri = u => (y \in entries' <=> y \in entries)
  BY <1>2 DEF Put, SameId
<1>3. CASE Put([uri |-> e[2], kind |-> event[e].at, by |-> By(e)]) /\ UNCHANGED <<point, file>>
  BY <1>2, <1>3
<1>4. ASSUME point' = [point EXCEPT ![e[2]] = Derived(By(e))] PROVE point'[u] = point[u]
  BY <1>4 DEF Typed
<1>5. ASSUME file' = [file EXCEPT ![e[2]] = By(e)] PROVE file'[u] = file[u]
  BY <1>5 DEF Typed
<1> QED
  BY <1>1, <1>3, <1>4, <1>5, WorkerMoves DEF Start, Settle

\* A record at rest is stored by nothing but a call that writes it, and stays at rest
\* until then.
LEMMA RestKept ==
  ASSUME Basic, [Next]_vars, NEW u \in Uri, AtRest(u),
         \A c \in Call : ~(WriteRecord(c) /\ Target(c) = u)
  PROVE  /\ AtRest(u)'
         /\ point'[u] = point[u] \/ point'[u] = NoPoint
         /\ file'[u] = file[u] \/ file'[u] = None
         /\ \A x \in entries' : x.uri = u => x \in entries
<1> DEFINE Kept == /\ point'[u] = point[u] \/ point'[u] = NoPoint
                   /\ file'[u] = file[u] \/ file'[u] = None
                   /\ \A x \in entries' : x.uri = u => x \in entries
<1>0. Typed /\ \A c \in Call : call[c].next \in Nat /\ Doc[c] \in Seq(Uri)
  BY RecordAssumption DEF Basic, Typed, CallState
<1>00. \A c \in Call : \A i \in DOMAIN Doc[c] :
          Writing(c) /\ Doc[c][i] = u => i >= call[c].next
  <2> SUFFICES ASSUME NEW c \in Call, NEW i \in DOMAIN Doc[c], Writing(c), Doc[c][i] = u
               PROVE  i >= call[c].next
    OBVIOUS
  <2>1. i \in Nat \ {0}
    BY <1>0
  <2>2. CASE call[c].state = "ready"
    BY <2>1, <2>2 DEF Basic, PublishedInv
  <2>3. CASE call[c].state = "running"
    BY <2>3 DEF AtRest
  <2> QED BY <2>2, <2>3 DEF Writing
<1>1. ASSUME NEW c \in Call, StoreStep(c) PROVE AtRest(u)' /\ Kept
  <2>0. Writing(c)
    BY <1>1 DEF StoreStep, WriteDirectory, WriteRecord, CallFails
  <2>1. CASE WriteDirectory(c)
    <3>1. PICK a \in Uri : /\ point' = [point EXCEPT ![a] = Directory]
                           /\ call' = [call EXCEPT ![c].state = "running", ![c].dirs = @ + 1]
                           /\ \E j \in 1 .. call[c].next - 1 : Doc[c][j] = a
      BY <1>0, <2>1, DirectoryTarget
    <3>2. a # u
      <4>1. PICK j \in 1 .. call[c].next - 1 : Doc[c][j] = a
        BY <3>1
      <4>2. call[c].next \in DOMAIN Doc[c] /\ Doc[c] \in Seq(Uri)
        BY <1>0, <2>0, TargetTyped
      <4>3. j < call[c].next /\ j \in DOMAIN Doc[c]
        BY <1>0, <4>1, <4>2
      <4> QED BY <1>0, <1>00, <2>0, <4>1, <4>3
    <3>3. Kept
      BY <1>0, <2>1, <3>1, <3>2 DEF WriteDirectory, Typed
    <3>4. \A d \in Call : call'[d].next = call[d].next /\ (d # c => call'[d] = call[d])
      BY <1>0, <3>1 DEF Typed, CallState
    <3>5. UNCHANGED event
      BY <2>1 DEF WriteDirectory
    <3>6. AtRest(u)'
      BY <1>00, <2>0, <3>4, <3>5 DEF AtRest
    <3> QED BY <3>3, <3>6
  <2>2. CASE WriteRecord(c)
    <3>1. Target(c) # u /\ Target(c) = Doc[c][call[c].next] /\ call[c].next \in DOMAIN Doc[c]
          /\ 1 \in DOMAIN Doc[c]
      BY <1>0, <2>0, <2>2, TargetTyped
    <3>2. Kept
      BY <1>0, <2>2, <3>1 DEF WriteRecord, Typed
    <3>3. \A i \in DOMAIN Doc[c] : Doc[c][i] = u => <<c, Doc[c][i]>> \notin Published(c)
      <4> SUFFICES ASSUME NEW i \in DOMAIN Doc[c], Doc[c][i] = u, <<c, Doc[c][i]>> \in Published(c)
                   PROVE  FALSE
        OBVIOUS
      <4>1. i >= call[c].next /\ i # call[c].next
        BY <1>00, <2>0, <3>1
      <4>2. i = 1 /\ call[c].next = Len(Doc[c])
        BY <1>0, <2>0, <4>1, PublishedAt
      <4>3. call[c].next >= 1 /\ call[c].next \in Nat
        <5>1. Doc[c] \in Seq(Uri) /\ call[c].next \in DOMAIN Doc[c]
          BY <1>0, <3>1
        <5> QED BY <5>1
      <4>4. \A n \in Nat : 1 >= n /\ n >= 1 => n = 1
        OBVIOUS
      <4>5. call[c].next = 1
        BY <4>1, <4>2, <4>3, <4>4, Zenon
      <4> QED BY <4>1, <4>2, <4>5
    <3>4. \A e \in Event : e[2] = u => e \notin Published(c)
      <4> SUFFICES ASSUME NEW e \in Event, e[2] = u, e \in Published(c) PROVE FALSE
        OBVIOUS
      <4>1. PICK i \in DOMAIN Doc[c] : e = <<c, Doc[c][i]>>
        BY <1>0, <2>0, PublishedAt
      <4> QED BY <3>3, <4>1
    <3>5. \A e \in Event : e[2] = u => event'[e] = event[e]
      BY <2>2, <3>4 DEF WriteRecord, Publish
    <3>6. call'[c].next = call[c].next + 1 /\ \A d \in Call : d # c => call'[d] = call[d]
      BY <1>0, <2>2 DEF WriteRecord, Typed, CallState
    <3>7. \A d \in Call : \A i \in DOMAIN Doc[d] :
             call'[d].state = "running" /\ Doc[d][i] = u => i >= call'[d].next
      <4> SUFFICES ASSUME NEW d \in Call, NEW i \in DOMAIN Doc[d],
                          call'[d].state = "running", Doc[d][i] = u
                   PROVE  i >= call'[d].next
        OBVIOUS
      <4>1. CASE d = c
        BY <1>0, <1>00, <2>0, <3>1, <3>6, <4>1
      <4>2. CASE d # c
        BY <3>6, <4>2 DEF AtRest
      <4> QED BY <4>1, <4>2
    <3>8. AtRest(u)'
      BY <3>5, <3>7 DEF AtRest
    <3> QED BY <3>2, <3>8
  <2>3. CASE CallFails(c)
    <3>1. call' = [call EXCEPT ![c].state = "failed"] /\ UNCHANGED <<storeVars, event>>
      BY <2>3 DEF CallFails
    <3>2. \A d \in Call : call'[d].state = "running" => call'[d] = call[d]
      BY <1>0, <3>1 DEF Typed, CallState
    <3> QED BY <3>1, <3>2 DEF AtRest, storeVars
  <2> QED BY <1>1, <2>1, <2>2, <2>3 DEF StoreStep
<1>2. ASSUME NEW e \in Event, WorkerStep(e) PROVE AtRest(u)' /\ Kept
  <2>1. e[2] # u
    <3>1. event[e].state \in {"queued", "running"}
      BY <1>0, <1>2, EventSteps
    <3> QED BY <3>1 DEF AtRest
  <2>2. UNCHANGED call /\ \A f \in Event : f[2] = u => event'[f] = event[f]
    BY <1>0, <1>2, <2>1, EventSteps
  <2>3. Kept
    BY <1>0, <1>2, <2>1, OtherRecord
  <2> QED BY <2>2, <2>3 DEF AtRest
<1>3. CASE ForgetStep
  <2>1. UNCHANGED <<call, event>>
    BY <1>3, ForgetTyped DEF Basic
  <2>2. Kept
    BY <1>3 DEF ForgetStep, ForgetCheck, ForgetScan, ForgetDelete, ForgetFiles, ForgetFails, storeVars
  <2> QED BY <2>1, <2>2 DEF AtRest
<1>4. CASE Crash
  <2>1. UNCHANGED storeVars /\ \A e \in Event : e[2] = u => event'[e] = event[e]
    BY <1>0, <1>4, CrashSteps DEF AtRest
  <2>2. \A d \in Call : call'[d].state # "running"
    BY <1>0, <1>4, CrashSteps
  <2> QED BY <2>1, <2>2 DEF AtRest, storeVars
<1>5. CASE UNCHANGED vars
  BY <1>5 DEF vars, storeVars, AtRest
<1> QED
  BY <1>1, <1>2, <1>3, <1>4, <1>5 DEF Next

\* A step that stores u clears what history holds of it.
LEMMA StoredClears ==
  ASSUME Typed, NEW c \in Call, WriteRecord(c)
  PROVE  /\ quietly' = quietly \ {Target(c)}
         /\ forget'.quiet => forget.quiet /\ forget.uri # Target(c)
         /\ forget'.uri = forget.uri /\ forget'.pc = forget.pc
         /\ forget'.points = forget.points /\ forget'.found = forget.found
BY DEF WriteRecord, StoredAgain, Typed, ForgetState

\* What QuietInv says of the record of a request that nothing disturbed.
QuietAt(u) ==
  /\ AtRest(u)
  /\ forget.pc = "delete" => /\ point[u].kind # "none" => u \in forget.points
                             /\ \A x \in entries : x.uri = u => x \in forget.found
  /\ forget.pc = "files" => /\ point[u].kind = "none"
                            /\ \A x \in entries : x.uri # u

LEMMA QuietStep ==
  ASSUME Basic, QuietInv, [Next]_vars
  PROVE  QuietInv'
<1>0. Typed /\ ForgetInv /\ quietly \subseteq Uri
  BY DEF Basic, Typed
<1>1. ASSUME NEW u \in quietly', u \in quietly PROVE AtRest(u)' /\ Nothing(u)'
  <2>1. AtRest(u) /\ Nothing(u) /\ u \in Uri
    BY <1>0, <1>1 DEF QuietInv
  <2>2. \A c \in Call : ~(WriteRecord(c) /\ Target(c) = u)
    BY <1>0, <1>1, StoredClears
  <2>3. NoPoint.kind = "none"
    BY DEF NoPoint
  <2>4. /\ AtRest(u)'
        /\ point'[u] = point[u] \/ point'[u] = NoPoint
        /\ file'[u] = file[u] \/ file'[u] = None
        /\ \A x \in entries' : x.uri = u => x \in entries
    BY <2>1, <2>2, RestKept
  <2> QED
    BY <2>1, <2>3, <2>4 DEF Nothing
<1>2. ASSUME NEW u \in Uri, u = forget.uri, forget.quiet,
             \A c \in Call : ~(WriteRecord(c) /\ Target(c) = u)
      PROVE  /\ AtRest(u)'
             /\ point[u].kind = "none" => point'[u].kind = "none"
             /\ point'[u] = point[u] \/ point'[u] = NoPoint
             /\ file'[u] = file[u] \/ file'[u] = None
             /\ \A x \in entries' : x.uri = u => x \in entries
  <2>1. AtRest(u)
    BY <1>2 DEF QuietInv
  <2>2. /\ AtRest(u)'
        /\ point'[u] = point[u] \/ point'[u] = NoPoint
        /\ file'[u] = file[u] \/ file'[u] = None
        /\ \A x \in entries' : x.uri = u => x \in entries
    BY <1>2, <2>1, RestKept
  <2> QED
    BY <2>2 DEF NoPoint
<1>3. ASSUME forget'.quiet, NEW u \in Uri, u = forget'.uri PROVE QuietAt(u)'
  <2>0. forget \in ForgetState
    BY <1>0 DEF Typed
  <2>1. ASSUME /\ forget'.uri = forget.uri /\ forget'.pc = forget.pc /\ forget.quiet
               /\ forget'.points = forget.points /\ forget'.found = forget.found,
               \A c \in Call : ~(WriteRecord(c) /\ Target(c) = u)
        PROVE  QuietAt(u)'
    <3>1. u = forget.uri /\ forget.quiet
      BY <1>3, <2>1
    <3>2. /\ forget.pc = "delete" => /\ point[u].kind # "none" => u \in forget.points
                                     /\ \A x \in entries : x.uri = u => x \in forget.found
          /\ forget.pc = "files" => /\ point[u].kind = "none"
                                    /\ \A x \in entries : x.uri # u
      BY <3>1 DEF QuietInv
    <3>3. /\ AtRest(u)'
          /\ point[u].kind = "none" => point'[u].kind = "none"
          /\ \A x \in entries' : x.uri = u => x \in entries
      BY <1>2, <2>1, <3>1
    <3> QED BY <2>1, <3>2, <3>3 DEF QuietAt
  <2>2. ASSUME NEW c \in Call, StoreStep(c) PROVE QuietAt(u)'
    <3>1. CASE WriteRecord(c)
      <4>1. /\ forget'.uri = forget.uri /\ forget'.pc = forget.pc /\ forget.quiet
            /\ forget'.points = forget.points /\ forget'.found = forget.found
            /\ forget.uri # Target(c)
        BY <1>0, <1>3, <3>1, StoredClears
      <4>2. \A d \in Call : WriteRecord(d) => forget.uri # Target(d)
        BY <1>0, <1>3, StoredClears
      <4> QED BY <1>3, <2>1, <4>1, <4>2
    <3>2. CASE WriteDirectory(c) \/ CallFails(c)
      <4>1. UNCHANGED forget
        BY <3>2 DEF WriteDirectory, CallFails
      <4>2. \A d \in Call : WriteRecord(d) => forget.uri # Target(d)
        BY <1>0, <1>3, StoredClears
      <4> QED BY <1>3, <2>1, <4>1, <4>2
    <3> QED BY <2>2, <3>1, <3>2 DEF StoreStep
  <2>3. \A d \in Call : WriteRecord(d) => u # Target(d)
    BY <1>0, <1>3, StoredClears
  <2>4. CASE UNCHANGED forget
    BY <1>3, <2>1, <2>3, <2>4
  <2>5. ASSUME NEW e \in Event, WorkerStep(e) PROVE QuietAt(u)'
    BY <1>0, <2>4, <2>5, EventSteps
  <2>6. CASE ForgetStep
    <3>1. ASSUME NEW v \in Uri, ForgetCheck(v) PROVE QuietAt(u)'
      <4>1. v = u /\ Idle(u) /\ UNCHANGED <<event, call>> /\ forget'.pc = "scan"
        <5>1. Idle(v) \in BOOLEAN
          BY DEF Idle
        <5>2. forget' = [pc |-> "scan", uri |-> v, points |-> {}, found |-> {}, quiet |-> Idle(v)]
          BY <3>1 DEF ForgetCheck, NoForget
        <5>3. forget'.uri = v /\ forget'.pc = "scan"
          BY <5>2
        <5>4. forget'.quiet = Idle(v)
          BY <5>2
        <5>5. Idle(v)
          BY <1>3, <5>1, <5>4
        <5> QED BY <1>3, <3>1, <5>3, <5>5 DEF ForgetCheck
      <4>2. AtRest(u)'
        <5>1. \A e \in Event : e[2] = u => event'[e].state \notin {"queued", "running"}
          BY <4>1 DEF Idle
        <5>2. \A c \in Call : \A i \in DOMAIN Doc[c] : ~(call'[c].state = "running" /\ Doc[c][i] = u)
          BY <4>1 DEF Idle, ToSet
        <5> QED BY <5>1, <5>2 DEF AtRest
      <4> QED BY <4>1, <4>2 DEF QuietAt
    <3>2. ASSUME forget.quiet, forget'.uri = forget.uri
          PROVE  /\ AtRest(u)'
                 /\ point[u].kind = "none" => point'[u].kind = "none"
                 /\ \A x \in entries' : x.uri = u => x \in entries
      BY <1>2, <1>3, <2>3, <3>2
    <3>3. CASE ForgetScan
      <4>1. /\ forget.quiet /\ forget'.uri = forget.uri /\ forget'.pc = "delete"
            /\ forget'.points = {w \in Uri : point[w].kind # "none" /\ PointMatches(w, forget.uri)}
            /\ forget'.found = {x \in entries : EntryMatches(x, forget.uri)}
        BY <1>3, <2>0, <3>3 DEF ForgetScan, ForgetState
      <4>2. UNCHANGED <<point, entries>>
        BY <3>3 DEF ForgetScan, storeVars
      <4>3. Below(u, u) /\ Matches(u, u)
        BY OwnPath
      <4>4. PointMatches(u, u) /\ \A x \in entries : x.uri = u => EntryMatches(x, u)
        BY <4>3 DEF PointMatches, EntryMatches
      <4> QED BY <1>3, <3>2, <4>1, <4>2, <4>4 DEF QuietAt
    <3>4. CASE ForgetDelete
      <4>1. /\ forget.quiet /\ forget'.uri = forget.uri /\ forget'.pc = "files"
            /\ forget.pc = "delete"
        BY <1>3, <2>0, <3>4 DEF ForgetDelete, ForgetState
      <4>2. /\ point[u].kind # "none" => u \in forget.points
            /\ \A x \in entries : x.uri = u => x \in forget.found
        BY <1>3, <4>1 DEF QuietInv
      <4>3. point'[u].kind = "none"
        BY <3>4, <4>2 DEF ForgetDelete, NoPoint
      <4>4. \A x \in entries' : x.uri # u
        BY <3>4, <4>2 DEF ForgetDelete, SameId
      <4> QED BY <3>2, <4>1, <4>3, <4>4 DEF QuietAt
    <3>5. CASE ForgetFiles \/ ForgetFails
      <4>1. ~forget'.quiet
        BY <2>0, <3>5 DEF ForgetFiles, ForgetFails, Forgo, NoForget, ForgetState
      <4> QED BY <1>3, <4>1
    <3> QED BY <2>6, <3>1, <3>3, <3>4, <3>5 DEF ForgetStep
  <2>7. CASE Crash
    <3>1. CASE forget' = [NoForget EXCEPT !.pc = "done"]
      BY <1>3, <3>1 DEF NoForget
    <3> QED BY <1>0, <2>4, <2>7, <3>1, CrashSteps
  <2>8. CASE UNCHANGED vars
    BY <2>4, <2>8 DEF vars
  <2> QED
    BY <2>2, <2>5, <2>6, <2>7, <2>8 DEF Next
<1>4. ASSUME NEW u \in quietly', u \notin quietly PROVE AtRest(u)' /\ Nothing(u)'
  <2>1. ForgetFiles /\ forget.quiet /\ u = forget.uri
    <3>1. ASSUME NEW c \in Call, StoreStep(c) PROVE quietly' \subseteq quietly
      BY <3>1 DEF StoreStep, WriteDirectory, WriteRecord, StoredAgain, CallFails, history
    <3>2. ASSUME NEW e \in Event, WorkerStep(e) PROVE quietly' \subseteq quietly
      BY <1>0, <3>2, EventSteps DEF history
    <3>3. ASSUME ForgetStep, ~ForgetFiles PROVE quietly' \subseteq quietly
      BY <3>3 DEF ForgetStep, ForgetCheck, ForgetScan, ForgetDelete, ForgetFails, history
    <3>4. ASSUME Crash \/ UNCHANGED vars PROVE quietly' \subseteq quietly
      BY <3>4 DEF Crash, vars, history
    <3>5. ForgetFiles
      BY <1>4, <3>1, <3>2, <3>3, <3>4 DEF Next
    <3> QED BY <1>4, <3>5 DEF ForgetFiles
  <2>2. u \in Uri /\ forget.pc = "files"
    BY <1>0, <2>1 DEF ForgetFiles, ForgetInv, Forgetting
  <2>3. point[u].kind = "none" /\ \A x \in entries : x.uri # u
    BY <2>1, <2>2 DEF QuietInv
  <2>4. AtRest(u)
    BY <2>1 DEF QuietInv
  <2>5. UNCHANGED <<point, entries, call, event>>
    BY <2>1 DEF ForgetFiles
  <2>6. file'[u] = None
    BY <2>1, <2>2, OwnPath DEF ForgetFiles
  <2> QED
    BY <2>3, <2>4, <2>5, <2>6 DEF AtRest, Nothing
<1>5. forget'.quiet => forget'.uri \in Uri
  BY BasicStep DEF Basic, ForgetInv
<1>6. \A u \in quietly' : AtRest(u)' /\ Nothing(u)'
  BY <1>1, <1>4
<1> QED
  BY <1>3, <1>5, <1>6 DEF QuietInv, QuietAt

LEMMA QuietInit == Init => QuietInv
BY DEF Init, QuietInv, NoForget

\* A record forgotten while nothing worked on it stays gone until it is stored again
\* (MemoryForget.forget_uri and remove_by_uri against the worker, the calls, their
\* directory points and restarts).
THEOREM QuietForgetIsFinalAlways == Spec => []QuietForgetIsFinal
<1>1. QuietInv => QuietForgetIsFinal
  BY DEF QuietInv, QuietForgetIsFinal
<1> QED
  BY <1>1, QuietInit, QuietStep, BasicAlways, PTL DEF Spec

-------------------------------------------------------------------------------
(* What is handled comes from one derivation. *)

LEMMA ExclusiveStep ==
  ASSUME Basic, ExclusiveEvents, [Next]_vars
  PROVE  ExclusiveEvents'
<1>0. Typed
  BY DEF Basic
<1>1. ASSUME \A e \in Event : event'[e].state = "running" => event[e].state = "running"
      PROVE  ExclusiveEvents'
  BY <1>1 DEF ExclusiveEvents
<1>2. ASSUME NEW c \in Call, StoreStep(c) PROVE ExclusiveEvents'
  <2>1. \A e \in Event : event[e] \in EventState
    BY <1>0 DEF Typed
  <2>2. \A e \in Event : event'[e].state = "running" => event[e].state = "running"
    BY <1>2, <2>1 DEF StoreStep, WriteDirectory, WriteRecord, Publish, CallFails, EventState
  <2> QED BY <1>1, <2>2
<1>3. ASSUME NEW e \in Event, WorkerStep(e) PROVE ExclusiveEvents'
  <2>1. \A f \in Event : f # e => event'[f] = event[f]
    BY <1>0, <1>3, EventSteps
  <2>2. CASE Start(e)
    <3>1. \A f \in Event : f[2] = e[2] => event[f].state # "running"
      BY <2>2 DEF Start
    <3> QED BY <2>1, <3>1 DEF ExclusiveEvents
  <2>3. CASE ~Start(e)
    <3>1. event[e].state = "running"
      BY <1>0, <1>3, <2>3, EventSteps
    <3> QED BY <1>1, <2>1, <3>1
  <2> QED BY <2>2, <2>3
<1>4. CASE ForgetStep
  BY <1>0, <1>1, <1>4, ForgetTyped DEF Basic
<1>5. CASE Crash
  <2>1. \A e \in Event : event'[e].state = "running" => event[e].state = "running"
    BY <1>0, <1>5, CrashSteps
  <2> QED BY <1>1, <2>1
<1>6. CASE UNCHANGED vars
  BY <1>1, <1>6 DEF vars
<1> QED
  BY <1>2, <1>3, <1>4, <1>5, <1>6 DEF Next

\* Calls go forward and keep what they end.
LEMMA CallSteps ==
  ASSUME Basic, [Next]_vars, NEW c \in Call
  PROVE  /\ call'[c].final = call[c].final /\ call'[c].next >= call[c].next
         /\ call[c].next \in Nat /\ call'[c].next \in Nat
         /\ call'[c].state = "ready" => call[c].state = "ready"
<1>0. Typed /\ call[c] \in CallState /\ call[c].next \in Nat
  BY DEF Basic, Typed, CallState
<1>1. CASE call'[c] = call[c]
  BY <1>0, <1>1
<1>2. ASSUME NEW d \in Call, StoreStep(d)
      PROVE  \/ call'[c] = call[c]
             \/ /\ call'[c].final = call[c].final /\ call'[c].state # "ready"
                /\ call'[c].next = call[c].next \/ call'[c].next = call[c].next + 1
  BY <1>0, <1>2 DEF StoreStep, WriteDirectory, WriteRecord, CallFails, Typed, CallState
<1>3. ASSUME NEW e \in Event, WorkerStep(e) PROVE UNCHANGED call
  BY <1>0, <1>3, EventSteps
<1>4. CASE ForgetStep
  BY <1>1, <1>4, ForgetTyped DEF Basic
<1>5. CASE Crash
  <2>1. /\ call'[c].next = call[c].next /\ call'[c].final = call[c].final
        /\ call'[c].state = IF call[c].state = "running" THEN "failed" ELSE call[c].state
    BY <1>0, <1>5, CrashSteps
  <2> QED BY <1>0, <2>1
<1>6. CASE UNCHANGED vars
  BY <1>1, <1>6 DEF vars
<1>7. ASSUME NEW d \in Call, StoreStep(d)
      PROVE  /\ call'[c].final = call[c].final /\ call'[c].next >= call[c].next
             /\ call'[c].next \in Nat
             /\ call'[c].state = "ready" => call[c].state = "ready"
  <2>1. call[c].next + 1 \in Nat /\ call[c].next + 1 >= call[c].next /\ call[c].next >= call[c].next
    BY <1>0
  <2> QED BY <1>0, <1>2, <1>7, <2>1
<1> QED
  BY <1>0, <1>1, <1>3, <1>4, <1>5, <1>6, <1>7 DEF Next

LEMMA KeepsPointStep ==
  ASSUME Basic, [Next]_vars, NEW u \in Uri
  PROVE  /\ KeepsPoint(u)' => KeepsPoint(u)
         /\ \A c \in Call : Leaf(c, u)' <=> Leaf(c, u)
<1>1. \A c \in Call : /\ call'[c].final = call[c].final
                      /\ call'[c].state = "ready" => call[c].state = "ready"
  BY CallSteps
<1>2. \A c \in Call : Leaf(c, u)' <=> Leaf(c, u)
  BY <1>1 DEF Leaf
<1> QED
  BY <1>1, <1>2 DEF KeepsPoint

\* Which steps make an event of a call.
LEMMA NewEvent ==
  ASSUME Basic, [Next]_vars, NEW f \in Event, event[f].state = "none", event'[f].state # "none"
  PROVE  event'[f].state = "queued"
<1>0. Typed
  BY DEF Basic
<1>1. ASSUME NEW c \in Call, StoreStep(c) PROVE event'[f].state = "queued"
  <2>1. event[f] \in EventState
    BY <1>0 DEF Typed
  <2>2. WriteRecord(c)
    BY <1>1 DEF StoreStep, WriteDirectory, CallFails
  <2> QED BY <2>1, <2>2 DEF WriteRecord, Publish, EventState
<1>2. ASSUME NEW e \in Event, WorkerStep(e) PROVE FALSE
  BY <1>0, <1>2, EventSteps
<1>3. CASE ForgetStep
  BY <1>3, ForgetTyped DEF Basic
<1>4. CASE Crash
  BY <1>0, <1>4, CrashSteps
<1>5. CASE UNCHANGED vars
  BY <1>5 DEF vars
<1> QED
  BY <1>1, <1>2, <1>3, <1>4, <1>5 DEF Next

\* A session's final record gets its event, or stays owed one.
LEMMA OwedStep ==
  ASSUME Basic, [Next]_vars, NEW u \in Uri, Owed(u), ~Owed(u)'
  PROVE  \E f \in Event : f[2] = u /\ event'[f].state = "queued"
<1>1. PICK c \in Call : /\ call[c].final /\ u = Doc[c][1]
                        /\ call[c].next > 1 /\ event[<<c, u>>].state = "none"
  BY DEF Owed
<1>2. call'[c].final /\ call'[c].next > 1
  BY <1>1, CallSteps
<1>3. event'[<<c, u>>].state # "none"
  BY <1>1, <1>2 DEF Owed
<1>4. <<c, u>> \in Event
  <2>1. Doc[c] \in Seq(Uri) /\ Doc[c] # <<>>
    BY RecordAssumption
  <2>2. 1 \in DOMAIN Doc[c]
    BY <2>1
  <2> QED BY <1>1, <2>2, EventOf
<1>5. event'[<<c, u>>].state = "queued"
  BY <1>1, <1>3, <1>4, NewEvent
<1> QED
  BY <1>4, <1>5

\* A record that is not swept, has no event waiting and none to be published, and
\* whose events take no step, stays as it is.
LEMMA Untouched ==
  ASSUME Basic, [Next]_vars, NEW u \in Uri, u \notin swept', ~Owed(u)',
         \A f \in Event : f[2] = u => event'[f].state # "queued",
         \A e \in Event : e[2] = u => ~WorkerStep(e)
  PROVE  /\ u \notin swept /\ ~Owed(u)
         /\ \A f \in Event : f[2] = u => event'[f] = event[f]
         /\ file'[u] = file[u]
         /\ \A x : x.uri = u => (x \in entries' <=> x \in entries)
         /\ KeepsPoint(u)' => point'[u] = point[u]
<1> DEFINE Same == /\ u \notin swept
                   /\ \A f \in Event : f[2] = u => event'[f] = event[f]
                   /\ file'[u] = file[u]
                   /\ \A x : x.uri = u => (x \in entries' <=> x \in entries)
<1>0. Typed /\ PublishedInv /\ \A c \in Call : call[c].next \in Nat /\ Doc[c] \in Seq(Uri)
  BY RecordAssumption DEF Basic, Typed, CallState
<1>1. ~Owed(u)
  BY OwedStep
<1>2. ASSUME NEW c \in Call, StoreStep(c) PROVE Same /\ (KeepsPoint(u)' => point'[u] = point[u])
  <2>0. Writing(c)
    BY <1>2 DEF StoreStep, WriteDirectory, WriteRecord, CallFails
  <2>00. 1 \in DOMAIN Doc[c] /\ call[c].next \in DOMAIN Doc[c] /\ Len(Doc[c]) \in Nat
    BY <1>0, <2>0, TargetTyped
  <2>1. CASE WriteDirectory(c)
    <3>1. PICK a \in Uri : /\ point' = [point EXCEPT ![a] = Directory]
                           /\ call' = [call EXCEPT ![c].state = "running", ![c].dirs = @ + 1]
                           /\ \E j \in 1 .. call[c].next - 1 : Doc[c][j] = a
                           /\ ~Leaf(c, a) /\ a \in ToSet(Doc[c])
      BY <1>0, <2>1, DirectoryTarget
    <3>2. Same
      BY <2>1 DEF WriteDirectory, history
    <3>3. ASSUME a = u, KeepsPoint(u)' PROVE FALSE
      <4>1. call'[c].state # "ready" /\ call'[c].next = call[c].next /\ call'[c].final = call[c].final
        BY <1>0, <3>1 DEF Typed, CallState
      <4>2. ~Leaf(c, u)'
        BY <3>1, <3>3, KeepsPointStep
      <4>3. call[c].final /\ u = Doc[c][1]
        BY <3>1, <3>3, <4>1, <4>2 DEF KeepsPoint
      <4>4. call'[c].next > 1
        BY <1>0, <3>1, <4>1
      <4>5. event[<<c, u>>].state = "none"
        <5>1. call[c].next # Len(Doc[c]) + 1
          BY <1>0, <2>0, <2>00 DEF Writing
        <5> QED BY <1>0, <2>00, <4>3, <5>1 DEF PublishedInv
      <4>6. event'[<<c, u>>].state = "none"
        BY <2>1, <4>5 DEF WriteDirectory
      <4> QED BY <4>1, <4>3, <4>4, <4>6 DEF Owed
    <3>4. a # u => point'[u] = point[u]
      BY <1>0, <3>1 DEF Typed
    <3> QED BY <3>2, <3>3, <3>4
  <2>2. CASE WriteRecord(c)
    <3>1. \A f \in Event : event'[f] = IF f \in Published(c) THEN [event[f] EXCEPT !.state = "queued"]
                                       ELSE event[f]
      BY <2>2 DEF WriteRecord, Publish
    <3>2. \A f \in Event : f[2] = u => f \notin Published(c)
      <4>1. \A f \in Event : event[f] \in EventState
        BY <1>0 DEF Typed
      <4>2. \A f \in Event : f \in Published(c) => event'[f].state = "queued"
        BY <3>1, <4>1 DEF EventState
      <4> QED BY <4>2
    <3>3. Target(c) # u
      <4> SUFFICES ASSUME Target(c) = u PROVE FALSE
        OBVIOUS
      <4>1. Doc[c][call[c].next] = u /\ <<c, Doc[c][call[c].next]>> \in Event
        BY <1>0, <2>0, TargetTyped
      <4>2. <<c, Doc[c][call[c].next]>> \notin Published(c)
        BY <3>2, <4>1
      <4>3. call[c].final /\ call[c].next = 1 /\ Len(Doc[c]) # 1
        <5>1. ~(IF call[c].final THEN \/ call[c].next > 1 /\ call[c].next = call[c].next
                                      \/ call[c].next = 1 /\ call[c].next = Len(Doc[c])
                ELSE call[c].next = call[c].next)
          BY <1>0, <2>0, <2>00, <4>2, PublishedAt
        <5>2. call[c].next \in Nat \ {0}
          BY <1>0, <2>00
        <5>3. call[c].final
          BY <5>1
        <5>4. ~(call[c].next > 1)
          BY <5>1, <5>3
        <5>5. call[c].next = 1
          BY <5>2, <5>4
        <5> QED BY <5>1, <5>3, <5>5
      <4>4. event[<<c, u>>].state = "none"
        <5>1. call[c].next # Len(Doc[c]) + 1
          BY <1>0, <2>0, <2>00 DEF Writing
        <5>2. u = Doc[c][1]
          BY <4>1, <4>3
        <5> QED BY <1>0, <2>00, <4>3, <5>1, <5>2 DEF PublishedInv
      <4>5. event'[<<c, u>>].state = "none"
        BY <3>1, <4>1, <4>2, <4>4
      <4>6. call'[c].final /\ call'[c].next = 2
        BY <1>0, <2>2, <4>3 DEF WriteRecord, Typed, CallState
      <4> QED BY <4>1, <4>3, <4>5, <4>6 DEF Owed
    <3>4. u \notin swept
      BY <2>2, <3>3 DEF WriteRecord, StoredAgain
    <3>5. point'[u] = point[u] /\ UNCHANGED <<file, entries>>
      BY <1>0, <2>2, <3>3 DEF WriteRecord, Typed
    <3> QED BY <3>1, <3>2, <3>4, <3>5
  <2>3. CASE CallFails(c)
    BY <2>3 DEF CallFails, storeVars, history
  <2> QED BY <1>2, <2>1, <2>2, <2>3 DEF StoreStep
<1>3. ASSUME NEW e \in Event, WorkerStep(e) PROVE Same /\ point'[u] = point[u]
  <2>1. e[2] # u
    BY <1>3
  <2>2. \A f \in Event : f[2] = u => event'[f] = event[f]
    BY <1>0, <1>3, <2>1, EventSteps
  <2>3. UNCHANGED swept
    BY <1>0, <1>3, EventSteps DEF history
  <2> QED BY <1>0, <1>3, <2>1, <2>2, <2>3, OtherRecord
<1>4. CASE ForgetStep
  <2>1. UNCHANGED event
    BY <1>4, ForgetTyped DEF Basic
  <2>2. u \notin swept
    BY <1>4 DEF ForgetStep, ForgetCheck, ForgetScan, ForgetDelete, ForgetFiles, ForgetFails, history
  <2>3. CASE ForgetDelete
    <3>1. forget.pc = "delete" /\ forget.pc \in Forgetting
      BY <2>3 DEF ForgetDelete, Forgetting
    <3>2. u \notin forget.points /\ \A x \in forget.found : x.uri # u
      BY <2>2, <3>1 DEF Basic, ForgetInv, SweptInv
    <3>3. point'[u] = point[u] /\ UNCHANGED file
      BY <2>3, <3>2 DEF ForgetDelete
    <3>4. \A x : x.uri = u => (x \in entries' <=> x \in entries)
      BY <2>3, <3>2 DEF ForgetDelete, SameId
    <3> QED BY <1>1, <2>1, <2>2, <3>3, <3>4
  <2>4. CASE ForgetFiles
    <3>1. forget.pc \in Forgetting
      BY <2>4 DEF ForgetFiles, Forgetting
    <3>2. ~Below(u, forget.uri)
      BY <2>2, <3>1 DEF Basic, SweptInv, Matches
    <3>3. file'[u] = file[u] /\ UNCHANGED <<point, entries>>
      BY <2>4, <3>2 DEF ForgetFiles
    <3> QED BY <1>1, <2>1, <2>2, <3>3
  <2>5. ASSUME UNCHANGED storeVars PROVE Same /\ point'[u] = point[u]
    BY <2>1, <2>2, <2>5 DEF storeVars
  <2> QED
    BY <1>1, <1>4, <2>3, <2>4, <2>5 DEF ForgetStep, ForgetCheck, ForgetScan, ForgetFails
<1>5. CASE Crash
  <2>1. UNCHANGED <<storeVars, history>> /\ \A f \in Event : f[2] = u => event'[f] = event[f]
    BY <1>0, <1>5, CrashSteps
  <2> QED BY <1>1, <2>1 DEF storeVars, history
<1>6. CASE UNCHANGED vars
  BY <1>1, <1>6 DEF vars, storeVars, history
<1> QED
  BY <1>1, <1>2, <1>3, <1>4, <1>5, <1>6 DEF Next

\* An action that moves an event without failing leaves its effect and the effects of
\* the actions before it.
LEMMA EffectsStep ==
  ASSUME Basic, [Next]_vars, NEW e \in Event, WorkerStep(e), ~Start(e), ~Settle(e),
         ~event'[e].failed,
         \A step \in ToSet(Order) : Applies(e, step) /\ Place(step) < Place(event[e].at)
            => Effect(e[2], step, By(e))
  PROVE  \A step \in ToSet(Order) : Applies(e, step)' /\ Place(step) < Place(event'[e].at)
            => Effect(e[2], step, By(e))'
<1>0. Typed /\ event[e] \in EventState /\ e[2] \in Uri /\ e[1] \in Call
  BY ByTyped DEF Basic, Typed
<1>1. Moved(e) /\ UNCHANGED <<call, forget, history>>
  BY <1>0, WorkerMoves
<1>2. event'[e].at = After(e) /\ event'[e].tries = event[e].tries /\ event[e].at # "settle"
  <2>1. PICK x \in ToSet(Order), y \in BOOLEAN :
           /\ event' = [event EXCEPT ![e].at = x, ![e].failed = y]
           /\ x = After(e) \/ (x = "settle" /\ y)
           /\ event[e].at # "settle"
    BY <1>1 DEF Moved
  <2>2. event'[e].at = x /\ event'[e].failed = y /\ event'[e].tries = event[e].tries
    BY <1>0, <2>1 DEF Typed, EventState
  <2> QED BY <2>1, <2>2
<1>3. By(e)' = By(e)
  BY <1>2 DEF By
<1>4. \A step : Applies(e, step)' <=> Applies(e, step)
  BY <1>1 DEF Applies, Leaf
<1>5. \A u \in Uri : KeepsPoint(u)' <=> KeepsPoint(u)
  BY <1>1 DEF KeepsPoint, Leaf
<1>6. \A step \in ToSet(Order) :
         Applies(e, step) /\ Place(step) < Place(After(e)) => Place(step) <= Place(event[e].at)
  BY <1>0, <1>2, AfterIsNext DEF EventState
<1>7. \A step, other \in ToSet(Order) :
         Place(step) <= Place(other) => step = other \/ Place(step) < Place(other)
  BY OrderSet, Places
<1>8. ASSUME NEW step \in ToSet(Order), Applies(e, step), Place(step) < Place(After(e))
      PROVE  step = event[e].at \/ Effect(e[2], step, By(e))
  <2>1. event[e].at \in ToSet(Order)
    BY <1>0 DEF EventState
  <2> QED BY <1>6, <1>7, <1>8, <2>1
<1>9. \A step \in ToSet(Order) : Place(step) < Place("derive") => FALSE
  BY OrderSet, Places
<1> SUFFICES ASSUME NEW step \in ToSet(Order), Applies(e, step), Place(step) < Place(After(e))
             PROVE  Effect(e[2], step, By(e))'
  BY <1>2, <1>4
<1> DEFINE d == By(e)
           u == e[2]
<1>10. Effect(u, step, d)' <=>
         CASE step = "derive" -> KeepsPoint(u) => point'[u] = Derived(d)
           [] step = "files"  -> file'[u] = d
           [] step \in {"search", "entity", "reason"} -> [uri |-> u, kind |-> step, by |-> d] \in entries'
           [] OTHER -> TRUE
  BY <1>0, <1>3, <1>5 DEF Effect, Derived
<1>11. step \in {"derive", "files", "search", "entity", "reason", "tree", "settle"}
  BY OrderSet
<1>12. CASE event[e].at = "derive" /\ point' = [point EXCEPT ![e[2]] = Derived(By(e))]
  <2>1. step = "derive"
    <3>1. ~(Place(step) < Place("derive"))
      BY <1>9
    <3>2. Place(step) <= Place("derive")
      BY <1>6, <1>8, <1>12
    <3> QED BY <1>7, <3>1, <3>2, OrderSet
  <2>2. point'[u] = Derived(d)
    BY <1>0, <1>12 DEF Typed
  <2> QED BY <1>10, <2>1, <2>2
<1>13. CASE /\ event[e].at \in {"search", "entity", "reason", "tree"}
            /\ Put([uri |-> e[2], kind |-> event[e].at, by |-> By(e)])
            /\ UNCHANGED <<point, file>>
  <2>1. \A k : k = event[e].at => [uri |-> u, kind |-> k, by |-> d] \in entries'
    BY <1>13 DEF Put
  <2>2. \A k : k # event[e].at /\ [uri |-> u, kind |-> k, by |-> d] \in entries
               => [uri |-> u, kind |-> k, by |-> d] \in entries'
    BY <1>13 DEF Put, SameId
  <2>3. CASE step = event[e].at
    BY <1>10, <1>11, <1>13, <2>1, <2>3
  <2>4. CASE step # event[e].at /\ Effect(u, step, d)
    BY <1>10, <1>11, <1>13, <2>2, <2>4 DEF Effect
  <2> QED BY <1>8, <2>3, <2>4
<1>14. CASE event[e].at = "files" /\ file' = [file EXCEPT ![e[2]] = By(e)] /\ UNCHANGED <<point, entries>>
  <2>1. file'[u] = d
    BY <1>0, <1>14 DEF Typed
  <2>2. CASE step = event[e].at
    BY <1>10, <1>14, <2>1, <2>2
  <2>3. CASE step # event[e].at /\ Effect(u, step, d)
    BY <1>10, <1>11, <1>14, <2>1, <2>3 DEF Effect
  <2> QED BY <1>8, <2>2, <2>3
<1> QED
  BY <1>0, <1>12, <1>13, <1>14, WorkerMoves

\* The steps of the worker leave what a session owes, and what is swept.
LEMMA WorkerOwes ==
  ASSUME Basic, [Next]_vars, NEW e \in Event, WorkerStep(e), NEW u \in Uri, u \notin swept', ~Owed(u)',
         \A f \in Event : f[2] = u => event'[f].state # "queued"
  PROVE  u \notin swept /\ ~Owed(u)
<1>1. UNCHANGED swept
  BY EventSteps DEF Basic, history
<1> QED BY <1>1, OwedStep

LEMMA ProgressStep ==
  ASSUME Basic, ExclusiveEvents, ProgressInv, [Next]_vars
  PROVE  ProgressInv'
<1>0. Typed
  BY DEF Basic
<1> SUFFICES ASSUME NEW e \in Event, event'[e].state = "running", ~event'[e].failed,
                    e[2] \notin swept', ~Owed(e[2])',
                    \A f \in Event : f[2] = e[2] => event'[f].state # "queued"
             PROVE  \A step \in ToSet(Order) : Applies(e, step)' /\ Place(step) < Place(event'[e].at)
                       => Effect(e[2], step, By(e))'
  BY DEF ProgressInv
<1> DEFINE u == e[2]
<1>1. u \in Uri /\ e[1] \in Call /\ event[e] \in EventState
  BY <1>0, ByTyped DEF Typed
<1>2. CASE WorkerStep(e)
  <2>1. CASE Start(e)
    <3>1. event'[e].at = "derive"
      BY <1>0, <2>1, <1>2, <1>1 DEF Start, Typed
    <3>2. \A step \in ToSet(Order) : ~(Place(step) < Place("derive"))
      BY OrderSet, Places
    <3> QED BY <3>1, <3>2
  <2>2. CASE ~Start(e)
    <3>1. ~Settle(e)
      <4>1. ASSUME Settle(e) PROVE event'[e].state # "running"
        BY <1>0, <4>1 DEF Settle, Typed, EventState
      <4> QED BY <4>1
    <3>2. event[e].state = "running" /\ ~event[e].failed
      <4>1. Moved(e)
        BY <1>0, <1>2, <2>2, <3>1, WorkerMoves
      <4>2. PICK x \in ToSet(Order), y \in BOOLEAN :
               /\ event' = [event EXCEPT ![e].at = x, ![e].failed = y]
               /\ event[e].failed => y
               /\ event[e].state = "running"
        BY <4>1 DEF Moved
      <4>3. event'[e].failed = y
        BY <1>0, <1>1, <4>2 DEF Typed, EventState
      <4> QED BY <4>2, <4>3
    <3>3. u \notin swept /\ ~Owed(u)
      BY <1>1, <1>2, WorkerOwes
    <3>4. \A f \in Event : f[2] = u => event[f].state # "queued"
      <4>1. \A f \in Event : f # e => event'[f] = event[f]
        BY <1>0, <1>2, EventSteps
      <4> QED BY <3>2, <4>1
    <3>5. \A step \in ToSet(Order) : Applies(e, step) /\ Place(step) < Place(event[e].at)
            => Effect(e[2], step, By(e))
      BY <3>2, <3>3, <3>4 DEF ProgressInv
    <3> QED BY <1>2, <2>2, <3>1, <3>5, EffectsStep
  <2> QED BY <2>1, <2>2
<1>3. ASSUME NEW g \in Event, g # e, g[2] = u, WorkerStep(g) PROVE FALSE
  <2>1. event[e].state = "running"
    BY <1>0, <1>3, EventSteps
  <2>2. CASE Start(g)
    BY <1>3, <2>1, <2>2 DEF Start
  <2>3. CASE ~Start(g)
    <3>1. event[g].state = "running"
      BY <1>0, <1>3, <2>3, EventSteps
    <3> QED BY <1>3, <2>1, <3>1 DEF ExclusiveEvents
  <2> QED BY <2>2, <2>3
<1>4. CASE \A g \in Event : g[2] = u => ~WorkerStep(g)
  <2>1. /\ u \notin swept /\ ~Owed(u)
        /\ \A f \in Event : f[2] = u => event'[f] = event[f]
        /\ file'[u] = file[u]
        /\ \A x : x.uri = u => (x \in entries' <=> x \in entries)
        /\ KeepsPoint(u)' => point'[u] = point[u]
    BY <1>1, <1>4, Untouched
  <2>2. event'[e] = event[e] /\ By(e)' = By(e)
    BY <2>1 DEF By
  <2>3. \A step : Applies(e, step)' <=> Applies(e, step)
    BY <1>1, KeepsPointStep DEF Applies
  <2>4. KeepsPoint(u)' => KeepsPoint(u)
    BY <1>1, KeepsPointStep
  <2>5. \A step \in ToSet(Order) : Applies(e, step) /\ Place(step) < Place(event[e].at)
            => Effect(u, step, By(e))
    BY <2>1, <2>2 DEF ProgressInv
  <2>6. ASSUME NEW step \in ToSet(Order), Effect(u, step, By(e)) PROVE Effect(u, step, By(e))'
    <3> DEFINE d == By(e)
    <3>1. Effect(u, step, d)' <=>
         CASE step = "derive" -> KeepsPoint(u)' => point'[u] = Derived(d)
           [] step = "files"  -> file'[u] = d
           [] step \in {"search", "entity", "reason"} -> [uri |-> u, kind |-> step, by |-> d] \in entries'
           [] OTHER -> TRUE
      BY <2>2 DEF Effect, Derived
    <3>2. step \in {"derive", "files", "search", "entity", "reason", "tree", "settle"}
      BY OrderSet
    <3>3. [uri |-> u, kind |-> step, by |-> d] \in entries' <=> [uri |-> u, kind |-> step, by |-> d] \in entries
      BY <2>1
    <3>4. CASE step = "derive"
      BY <2>1, <2>4, <2>6, <3>1, <3>4 DEF Effect
    <3>5. CASE step = "files"
      BY <2>1, <2>6, <3>1, <3>5 DEF Effect
    <3>6. CASE step \in {"search", "entity", "reason"}
      BY <2>6, <3>1, <3>3, <3>6 DEF Effect
    <3>7. CASE step \in {"tree", "settle"}
      BY <3>1, <3>7
    <3> QED BY <3>2, <3>4, <3>5, <3>6, <3>7
  <2> QED BY <2>2, <2>3, <2>5, <2>6
<1> QED
  BY <1>2, <1>3, <1>4

LEMMA HandledStep ==
  ASSUME Basic, ExclusiveEvents, ProgressInv, HandledInv, [Next]_vars
  PROVE  HandledInv'
<1>0. Typed
  BY DEF Basic
<1> SUFFICES ASSUME NEW u \in Uri, u \notin swept', ~Owed(u)',
                    \A e \in Event : e[2] = u => event'[e].state \in {"none", "done"},
                    NEW h \in Event, h[2] = u, event'[h].state = "done"
             PROVE  \E d \in Derivation : /\ Holds(u, d)'
                                          /\ KeepsPoint(u)' => point'[u] = Derived(d)
  BY DEF HandledInv, Derived
<1>1. CASE \A g \in Event : g[2] = u => ~WorkerStep(g)
  <2>1. /\ u \notin swept /\ ~Owed(u)
        /\ \A f \in Event : f[2] = u => event'[f] = event[f]
        /\ file'[u] = file[u]
        /\ \A x : x.uri = u => (x \in entries' <=> x \in entries)
        /\ KeepsPoint(u)' => point'[u] = point[u]
    BY <1>1, Untouched
  <2>2. PICK d \in Derivation : Holds(u, d) /\ (KeepsPoint(u) => point[u] = Derived(d))
    BY <2>1 DEF HandledInv
  <2>3. (KeepsPoint(u)' => KeepsPoint(u)) /\ (Leaf(d.call, u)' <=> Leaf(d.call, u))
    BY KeepsPointStep DEF Derivation
  <2>4. \A k : [uri |-> u, kind |-> k, by |-> d] \in entries' <=> [uri |-> u, kind |-> k, by |-> d] \in entries
    BY <2>1
  <2>5. Holds(u, d)'
    BY <2>1, <2>2, <2>3, <2>4 DEF Holds
  <2> QED BY <2>1, <2>2, <2>3, <2>5
<1>2. ASSUME NEW e \in Event, e[2] = u, WorkerStep(e)
      PROVE  \E d \in Derivation : /\ Holds(u, d)'
                                   /\ KeepsPoint(u)' => point'[u] = Derived(d)
  <2>1. /\ Settle(e) /\ event[e].state = "running" /\ event[e].at = "settle" /\ ~event[e].failed
        /\ UNCHANGED storeVars
    BY <1>0, <1>2, EventSteps
  <2>2. u \notin swept /\ ~Owed(u)
    BY <1>2, WorkerOwes
  <2>3. \A f \in Event : f[2] = u => event[f].state # "queued"
    <3>1. \A f \in Event : f # e => event'[f] = event[f]
      BY <1>0, <1>2, EventSteps
    <3> QED BY <2>1, <3>1
  <2>4. \A step \in ToSet(Order) : Applies(e, step) /\ Place(step) < Place("settle")
            => Effect(u, step, By(e))
    BY <1>2, <2>1, <2>2, <2>3 DEF ProgressInv
  <2>5. Effect(u, "derive", By(e)) /\ Effect(u, "files", By(e)) /\ Effect(u, "reason", By(e))
    BY <2>4, OrderSet, Places DEF Applies
  <2>6. Leaf(e[1], u) => Effect(u, "search", By(e)) /\ Effect(u, "entity", By(e))
    BY <1>2, <2>4, OrderSet, Places DEF Applies
  <2>7. By(e) \in Derivation /\ By(e).call = e[1] /\ e[1] \in Call
    BY <1>0, ByTyped DEF By
  <2>8. Holds(u, By(e))
    BY <2>5, <2>6, <2>7 DEF Holds, Effect
  <2>9. KeepsPoint(u) => point[u] = Derived(By(e))
    BY <2>5 DEF Effect
  <2>10. PICK d \in Derivation : Holds(u, d) /\ (KeepsPoint(u) => point[u] = Derived(d))
    BY <2>7, <2>8, <2>9
  <2>11. (KeepsPoint(u)' => KeepsPoint(u)) /\ (Leaf(d.call, u)' <=> Leaf(d.call, u))
    BY KeepsPointStep DEF Derivation
  <2>12. Holds(u, d)'
    BY <2>1, <2>10, <2>11 DEF Holds, storeVars
  <2>13. point' = point
    BY <2>1 DEF storeVars
  <2> QED BY <2>10, <2>11, <2>12, <2>13
<1> QED
  BY <1>1, <1>2

\* What is settled and not swept is owed nothing.
LEMMA SettledOwed ==
  ASSUME Basic, NEW u \in Uri, Settled(u)
  PROVE  ~Owed(u)
<1> SUFFICES ASSUME NEW c \in Call, call[c].final, u = Doc[c][1], call[c].next > 1,
                    event[<<c, u>>].state = "none"
             PROVE  FALSE
  BY DEF Owed
<1>1. 1 \in DOMAIN Doc[c]
  <2>1. Doc[c] \in Seq(Uri) /\ Doc[c] # <<>>
    BY RecordAssumption
  <2> QED BY <2>1
<1>2. u \in ToSet(Doc[c])
  BY <1>1 DEF ToSet
<1>3. call[c].state \in {"ready", "done"}
  BY <1>2, OwnPath DEF Settled
<1>4. call[c].state # "ready"
  BY DEF Basic, PublishedInv
<1>5. call[c].next = Len(Doc[c]) + 1
  BY <1>3, <1>4 DEF Basic, PublishedInv
<1> QED
  BY <1>1, <1>5 DEF Basic, PublishedInv

\* When everything published about a record was handled, its files, its index entries
\* and, under KeepsPoint, its point come from one derivation (EventWorker.handle, the
\* ordering key of its events, failures and redeliveries, later calls, directories
\* and forget requests).
THEOREM SettledFromOneDerivationAlways == Spec => []SettledFromOneDerivation
<1> DEFINE I == ExclusiveEvents /\ ProgressInv /\ HandledInv
<1>1. Init => I
  BY DEF Init, ExclusiveEvents, ProgressInv, HandledInv
<1>2. Basic /\ I /\ [Next]_vars => I'
  BY ExclusiveStep, ProgressStep, HandledStep
<1>3. Basic /\ I => SettledFromOneDerivation
  <2> SUFFICES ASSUME Basic, HandledInv, NEW u \in Uri, Settled(u), u \notin swept
               PROVE  \E d \in Derivation : Holds(u, d) /\ (KeepsPoint(u) => point[u] = Derived(d))
    BY DEF SettledFromOneDerivation
  <2>1. ~Owed(u)
    BY SettledOwed
  <2> QED
    BY <2>1 DEF HandledInv, Settled
<1> QED
  BY <1>1, <1>2, <1>3, BasicAlways, PTL DEF Spec
===============================================================================
