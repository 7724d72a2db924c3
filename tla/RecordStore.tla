------------------------------ MODULE RecordStore ------------------------------
(***************************************************************************)
(* Primary records, their directories and their projections: store calls   *)
(* that write a record or a document tree, the worker's handling of the    *)
(* events they publish, and the forgetting of a record, all on one vector  *)
(* collection and one file store.                                          *)
(*                                                                         *)
(* A point is identified by its URI and an upsert replaces it.  Each upsert,*)
(* deletion, file operation or model call is one await, hence one action.  *)
(* Events of one URI are handled one at a time (the ordering key of        *)
(* EventWorker) and redelivered after a failure or a crash (CFSQueue).     *)
(* An operator with a suffix after the name of another (PutBeside beside   *)
(* Put) is a wrong variant of it that no action uses.                      *)
(***************************************************************************)
EXTENDS Integers, Sequences, FiniteSets, SequencesExt, FiniteSetsExt

CONSTANTS Uri,         \* URIs of primary records
          Path,        \* the primary URIs that are prefixes of each, itself last
          Parent,      \* parent_uri of each record, or NoUri under a plain directory;
                       \* of a section below a section it is no prefix
          NoUri,
          Tree,        \* URIs whose records get an LLM-built reason tree
          Call,        \* store calls
          Doc,         \* the URIs each call writes, the root first
          Endings,     \* sets of calls: each may be the calls that end a session
          MaxAttempts, \* max_attempts of an event
          MaxFaults    \* bound: requests that fail, crashes of the process

ASSUME RecordAssumption ==
  /\ Path \in [Uri -> Seq(Uri)]
  /\ NoUri \notin Uri \cup Call /\ Parent \in [Uri -> Uri \cup {NoUri}]
  /\ Tree \subseteq Uri /\ Endings \subseteq SUBSET Call
  /\ Doc \in [Call -> Seq(Uri) \ {<<>>}] /\ \A c \in Call : IsInjective(Doc[c])
  /\ MaxAttempts \in Nat \ {0} /\ MaxFaults \in Nat

VARIABLES point,    \* the point whose id is each URI
          entries,  \* index points: anchors and facts, entities, reason trees
          file,     \* the layers of each URI in the file store
          call,     \* progress of each store call
          event,    \* the event of each record a call wrote
          forget,   \* the forget request
          swept, forgotten, quietly, \* history: see StoredAgain
          faults                     \* history: faults so far

storeVars == <<point, entries, file>>
history == <<swept, forgotten, quietly>>
vars == <<storeVars, call, event, forget, history, faults>>

Event == {e \in Call \X Uri : e[2] \in ToSet(Doc[e[1]])}

\* What one run of the derivation made of what one call stored.  The model's
\* answer differs from run to run.
Derivation == [call : Call, try : 0 .. MaxAttempts + MaxFaults]

None == [call |-> NoUri, try |-> 0]

NoPoint   == [kind |-> "none", by |-> None]
Directory == [kind |-> "directory", by |-> None]
Raw(c)    == [kind |-> "raw", by |-> [call |-> c, try |-> 0]]
Derived(d) == [kind |-> "derived", by |-> d]

\* w is u or has it as a prefix.
Below(w, u) == u \in ToSet(Path[w])

\* is_leaf of a record in one call: nothing below it, and no session's final record.
Leaf(c, u) == /\ \A w \in ToSet(Doc[c]) : Parent[w] # u
              /\ ~(call[c].final /\ u = Doc[c][1])

\* URIs of a record's parent_uri that get a directory point, root-most first.
ParentChain(u) == IF Parent[u] = NoUri THEN <<>> ELSE Path[Parent[u]]

\* payload_matches_uri of a record w: its URI is below u, or its parent_uri is.
Matches(w, u) == Below(w, u) \/ u \in ToSet(ParentChain(w))

ASSUME PathAssumption == \A u \in Uri : Path[u] # <<>> /\ Last(Path[u]) = u

\* Records are stored under plain directories, so an ancestor that is a record is a
\* section of the same document, written before what is below it.
ASSUME DocumentAssumption ==
  \A c \in Call : \A i \in DOMAIN Doc[c] : \A a \in ToSet(ParentChain(Doc[c][i])) :
     /\ \E j \in 1 .. i - 1 : Doc[c][j] = a
     /\ \E w \in ToSet(Doc[c]) : Parent[w] = a

\* The worker's list of actions; the ones that do something for a record.
Order == <<"derive", "search", "entity", "files", "reason", "tree", "settle">>

Applies(e, step) == /\ step \in {"search", "entity"} => Leaf(e[1], e[2])
                    /\ step = "tree" => e[2] \in Tree

Place(step) == CHOOSE i \in DOMAIN Order : Order[i] = step

\* The action after the one e is at.
After(e) == Order[Min({i \in DOMAIN Order : Place(event[e].at) < i /\ Applies(e, Order[i])})]

NoForget == [pc |-> "idle", uri |-> NoUri, points |-> {}, found |-> {}, quiet |-> FALSE]

Forgetting == {"scan", "delete", "files"}

Point == [kind : {"none", "directory", "raw", "derived"}, by : Derivation \cup {None}]

Entry == [uri : Uri, kind : {"search", "entity", "reason", "tree"}, by : Derivation]

CallState == [state : {"ready", "running", "done", "failed"}, next : Nat \ {0}, dirs : Nat,
              final : BOOLEAN]

EventState == [state : {"none", "queued", "running", "done", "dead"}, at : ToSet(Order),
               tries : 0 .. MaxAttempts + MaxFaults, failed : BOOLEAN]

ForgetState == [pc : Forgetting \cup {"idle", "done"}, uri : Uri \cup {NoUri},
                points : SUBSET Uri, found : SUBSET Entry, quiet : BOOLEAN]

TypeOK ==
  /\ point \in [Uri -> Point]
  /\ \A u \in Uri : point[u].by = None <=> point[u].kind \in {"none", "directory"}
  /\ entries \subseteq Entry
  /\ \A u \in Uri : Cardinality({x \in entries : x.uri = u /\ x.kind = "reason"}) <= 1
  /\ file \in [Uri -> Derivation \cup {None}]
  /\ call \in [Call -> CallState] /\ \A c \in Call : call[c].next \in 1 .. Len(Doc[c]) + 1
  /\ event \in [Event -> EventState]
  /\ forget \in ForgetState
  /\ quietly \subseteq forgotten /\ forgotten \subseteq swept /\ swept \subseteq Uri
  /\ faults \in 0 .. MaxFaults

Init == /\ point = [u \in Uri |-> NoPoint]
        /\ entries = {}
        /\ file = [u \in Uri |-> None]
        /\ \E F \in Endings :
              call = [c \in Call |-> [state |-> "ready", next |-> 1, dirs |-> 0, final |-> c \in F]]
        /\ event = [e \in Event |-> [state |-> "none", at |-> "derive", tries |-> 0, failed |-> FALSE]]
        /\ forget = NoForget
        /\ swept = {} /\ forgotten = {} /\ quietly = {}
        /\ faults = 0

Fault == faults < MaxFaults /\ faults' = faults + 1

-------------------------------------------------------------------------------
(* Store calls. *)

Writing(c) == call[c].state \in {"ready", "running"} /\ call[c].next <= Len(Doc[c])

Target(c) == Doc[c][call[c].next]

\* ensure_parent_records upserts a directory point for every ancestor, whatever
\* point has that URI.
WriteDirectory(c) ==
  /\ Writing(c)
  /\ call[c].dirs < Len(ParentChain(Target(c)))
  /\ point' = [point EXCEPT ![ParentChain(Target(c))[call[c].dirs + 1]] = Directory]
  /\ call' = [call EXCEPT ![c].state = "running", ![c].dirs = @ + 1]
  /\ UNCHANGED <<entries, file, event, forget, history, faults>>

Publish(E) == event' = [e \in Event |-> IF e \in E THEN [event[e] EXCEPT !.state = "queued"]
                                                 ELSE event[e]]

\* The record is published when it is written; the final record of a session
\* after the tree below it.
Published(c) ==
  IF ~call[c].final THEN {<<c, Target(c)>>}
  ELSE {<<c, u>> : u \in (IF call[c].next > 1 THEN {Target(c)} ELSE {})
                         \cup (IF call[c].next = Len(Doc[c]) THEN {Doc[c][1]} ELSE {})}

\* History: swept holds the URIs a forget request may have deleted something of
\* since they were last stored, forgotten those it was about and ended for, and
\* quietly those of them nothing was working on when it began.
StoredAgain(u) ==
  /\ swept' = IF forget.pc \in Forgetting /\ Matches(u, forget.uri) THEN swept ELSE swept \ {u}
  /\ forgotten' = forgotten \ {u}
  /\ quietly' = quietly \ {u}
  /\ forget' = IF forget.uri = u THEN [forget EXCEPT !.quiet = FALSE] ELSE forget

WriteRecord(c) ==
  /\ Writing(c)
  /\ call[c].dirs = Len(ParentChain(Target(c)))
  /\ point' = [point EXCEPT ![Target(c)] = Raw(c)]
  /\ Publish(Published(c))
  /\ call' = [call EXCEPT ![c].state = IF call[c].next = Len(Doc[c]) THEN "done" ELSE "running",
                           ![c].next  = @ + 1,
                           ![c].dirs  = 0]
  /\ StoredAgain(Target(c))
  /\ UNCHANGED <<entries, file, faults>>

CallFails(c) ==
  /\ Writing(c) /\ Fault
  /\ call' = [call EXCEPT ![c].state = "failed"]
  /\ UNCHANGED <<storeVars, event, forget, history>>

StoreStep(c) == WriteDirectory(c) \/ WriteRecord(c) \/ CallFails(c)

-------------------------------------------------------------------------------
(* The event worker: every action runs, whatever failed before it, on the   *)
(* event's copy of the record; without a derivation the others do nothing.  *)

At(e, step) == event[e].state = "running" /\ event[e].at = step

By(e) == [call |-> e[1], try |-> event[e].tries]

StartTogether(e) ==
  /\ event[e].state = "queued"
  /\ event' = [event EXCEPT ![e] = [state |-> "running", at |-> "derive", tries |-> @.tries + 1,
                                    failed |-> FALSE]]
  /\ UNCHANGED <<storeVars, call, forget, history, faults>>

Start(e) ==
  /\ event[e].state = "queued"
  /\ \A f \in Event : f[2] = e[2] => event[f].state # "running"
  /\ event' = [event EXCEPT ![e] = [state |-> "running", at |-> "derive", tries |-> @.tries + 1,
                                    failed |-> FALSE]]
  /\ UNCHANGED <<storeVars, call, forget, history, faults>>

\* The step is over; a request that was carried out may still be reported as failed.
Advance(e) ==
  \/ /\ event' = [event EXCEPT ![e].at = After(e)]
     /\ UNCHANGED faults
  \/ /\ Fault
     /\ event' = [event EXCEPT ![e].at = After(e), ![e].failed = TRUE]

\* Without the derived record in the event the later actions are skipped.
SkipToSettle(e) ==
  event' = [event EXCEPT ![e].at = "settle", ![e].failed = TRUE]

Derive(e) ==
  /\ At(e, "derive")
  /\ point' = [point EXCEPT ![e[2]] = Derived(By(e))]
  /\ \/ event' = [event EXCEPT ![e].at = After(e)] /\ UNCHANGED faults
     \/ Fault /\ SkipToSettle(e)
  /\ UNCHANGED <<entries, file, call, forget, history>>

DeriveFails(e) ==
  /\ At(e, "derive") /\ Fault /\ SkipToSettle(e)
  /\ UNCHANGED <<storeVars, call, forget, history>>

\* Anchors, facts, entities and tree nodes are identified by a digest of their
\* text, the reason-tree entry by its record alone.
SameId(x, y) == x.uri = y.uri /\ x.kind = y.kind /\ (x.kind = "reason" \/ x.by = y.by)

PutBeside(x) == entries' = entries \cup {x}

Put(x) == entries' = {y \in entries : ~SameId(x, y)} \cup {x}

Index(e, kind) ==
  /\ At(e, kind)
  /\ Put([uri |-> e[2], kind |-> kind, by |-> By(e)])
  /\ Advance(e)
  /\ UNCHANGED <<point, file, call, forget, history>>

SearchIndex(e)     == Index(e, "search")
EntityIndex(e)     == Index(e, "entity")
ReasonTreeIndex(e) == Index(e, "reason")
ReasonTreeBuild(e) == Index(e, "tree")

WriteContext(e) ==
  /\ At(e, "files")
  /\ file' = [file EXCEPT ![e[2]] = By(e)]
  /\ Advance(e)
  /\ UNCHANGED <<point, entries, call, forget, history>>

\* An index or file action fails with nothing written.
StepFails(e) ==
  /\ event[e].state = "running"
  /\ ~At(e, "derive") /\ ~At(e, "settle")
  /\ Fault
  /\ event' = [event EXCEPT ![e].at = After(e), ![e].failed = TRUE]
  /\ UNCHANGED <<storeVars, call, forget, history>>

\* Without failures the event is done; else it is retried while attempts remain,
\* or given up if they do not or the first failure is permanent.
Settle(e) ==
  /\ At(e, "settle")
  /\ \E s \in IF ~event[e].failed THEN {"done"}
              ELSE IF event[e].tries < MaxAttempts THEN {"queued", "dead"} ELSE {"dead"} :
        event' = [event EXCEPT ![e].state = s, ![e].at = "derive"]
  /\ UNCHANGED <<storeVars, call, forget, history, faults>>

WorkerStep(e) == \/ Start(e) \/ Derive(e) \/ DeriveFails(e)
                 \/ SearchIndex(e) \/ EntityIndex(e) \/ WriteContext(e)
                 \/ ReasonTreeIndex(e) \/ ReasonTreeBuild(e)
                 \/ StepFails(e) \/ Settle(e)

-------------------------------------------------------------------------------
(* Forgetting a record. *)

\* Nothing is working on u: no event of it waits or runs, no call writes it.
Idle(u) == /\ \A e \in Event : e[2] = u => event[e].state \notin {"queued", "running"}
           /\ \A c \in Call : call[c].state = "running" => u \notin ToSet(Doc[c])

\* is_visible: only a derived leaf is an "l0_object".
ForgetCheck(u) ==
  /\ forget.pc = "idle"
  /\ point[u].kind = "derived" /\ Leaf(point[u].by.call, u)
  /\ forget' = [NoForget EXCEPT !.pc = "scan", !.uri = u, !.quiet = Idle(u)]
  /\ swept' = swept \cup {w \in Uri : Matches(w, u)}
  /\ UNCHANGED <<storeVars, call, event, forgotten, quietly, faults>>

ForgetScanExact ==
  /\ forget.pc = "scan"
  /\ forget' = [forget EXCEPT !.pc = "delete",
                              !.points = {w \in Uri : w = forget.uri},
                              !.found = {}]
  /\ UNCHANGED <<storeVars, call, event, history, faults>>

\* A directory point names the prefix of its URI as its parent, an entry the record
\* it was made from, except the reason-tree entry, which has the record's parent_uri.
PointMatches(w, u) == IF point[w].kind = "directory" THEN Below(w, u) ELSE Matches(w, u)

EntryMatches(x, u) == IF x.kind = "reason" THEN Matches(x.uri, u) ELSE Below(x.uri, u)

\* remove_by_uri first collects the ids of the subtree ...
ForgetScan ==
  /\ forget.pc = "scan"
  /\ forget' = [forget EXCEPT
        !.pc = "delete",
        !.points = {w \in Uri : point[w].kind # "none" /\ PointMatches(w, forget.uri)},
        !.found = {x \in entries : EntryMatches(x, forget.uri)}]
  /\ UNCHANGED <<storeVars, call, event, history, faults>>

\* ... then deletes whatever has these ids by now.
ForgetDelete ==
  /\ forget.pc = "delete"
  /\ point' = [w \in Uri |-> IF w \in forget.points THEN NoPoint ELSE point[w]]
  /\ entries' = {x \in entries : \A y \in forget.found : ~SameId(x, y)}
  /\ forget' = [forget EXCEPT !.pc = "files", !.points = {}, !.found = {}]
  /\ UNCHANGED <<file, call, event, history, faults>>

ForgetFiles ==
  /\ forget.pc = "files"
  /\ file' = [w \in Uri |-> IF Below(w, forget.uri) THEN None ELSE file[w]]
  /\ forget' = [forget EXCEPT !.pc = "done", !.uri = NoUri, !.quiet = FALSE]
  /\ forgotten' = forgotten \cup {forget.uri}
  /\ quietly' = IF forget.quiet THEN quietly \cup {forget.uri} ELSE quietly
  /\ UNCHANGED <<point, entries, call, event, swept, faults>>

\* The request ends where it is; what it deleted stays deleted.
Forgo == forget' = [NoForget EXCEPT !.pc = "done"]

ForgetFails ==
  /\ forget.pc \in Forgetting /\ Fault
  /\ Forgo
  /\ UNCHANGED <<storeVars, call, event, history>>

ForgetStep == \/ \E u \in Uri : ForgetCheck(u)
              \/ ForgetScan \/ ForgetDelete \/ ForgetFiles \/ ForgetFails

-------------------------------------------------------------------------------
\* The process stops and starts again: calls and the forget request are lost, the
\* events its workers had are delivered again.
Crash ==
  /\ Fault
  /\ event' = [e \in Event |-> IF event[e].state = "running"
                               THEN [event[e] EXCEPT !.state = "queued", !.at = "derive"]
                               ELSE event[e]]
  /\ call' = [c \in Call |-> IF call[c].state = "running"
                             THEN [call[c] EXCEPT !.state = "failed"] ELSE call[c]]
  /\ IF forget.pc \in {"idle", "done"} THEN UNCHANGED forget ELSE Forgo
  /\ UNCHANGED <<storeVars, history>>

Next == \/ \E c \in Call : StoreStep(c)
        \/ \E e \in Event : WorkerStep(e)
        \/ ForgetStep
        \/ Crash

Spec == Init /\ [][Next]_vars

-------------------------------------------------------------------------------
\* Every call that writes u or below it has completed or not begun, and every
\* event of u was handled successfully.
Settled(u) ==
  /\ \A c \in Call : (\E w \in ToSet(Doc[c]) : Matches(w, u))
                        => call[c].state \in {"ready", "done"}
  /\ \A e \in Event : e[2] = u => event[e].state \in {"none", "done"}
  /\ \E e \in Event : e[2] = u /\ event[e].state = "done"

\* No call wrote sections below u, unless it published u after them.
KeepsPoint(u) == \A c \in Call : u \in ToSet(Doc[c]) /\ call[c].state # "ready"
                                    => Leaf(c, u) \/ (call[c].final /\ u = Doc[c][1])

Holds(u, d) == /\ file[u] = d
               /\ [uri |-> u, kind |-> "reason", by |-> d] \in entries
               /\ Leaf(d.call, u) => \A k \in {"search", "entity"} :
                     [uri |-> u, kind |-> k, by |-> d] \in entries

\* When everything published about a record was handled, its files and its index
\* entries come from one derivation, and so does its point, unless it is the root
\* of an imported document (EventWorker.handle runs every action and acknowledges
\* only without failures; events of one URI share an ordering key).
SettledFromOneDerivation ==
  \A u \in Uri :
     Settled(u) /\ u \notin swept =>
       \E d \in Derivation :
          /\ Holds(u, d)
          /\ KeepsPoint(u) => point[u] = Derived(d)

Nothing(u) == /\ point[u].kind = "none"
              /\ file[u] = None
              /\ \A x \in entries : x.uri # u

\* A record forgotten while nothing worked on it stays gone until it is stored
\* again ("Forget one recalled memory and its derived retrieval projections").
QuietForgetIsFinal == \A u \in quietly : Nothing(u)

-------------------------------------------------------------------------------
(* What the safety proofs rest on. *)

\* How far a call is decides which of its events exist.
PublishedInv ==
  \A c \in Call :
     /\ call[c].state = "ready" => call[c].next = 1 /\ call[c].dirs = 0
     /\ call[c].state = "done" <=> call[c].next = Len(Doc[c]) + 1
     /\ \A i \in DOMAIN Doc[c] :
           event[<<c, Doc[c][i]>>].state # "none"
              <=> IF call[c].final /\ i = 1 THEN call[c].next = Len(Doc[c]) + 1
                  ELSE i < call[c].next

\* An event is started once more after each retry and each crash only.
TriesInv ==
  \A e \in Event : /\ event[e].state = "none" => event[e].tries = 0
                   /\ event[e].state = "queued" => event[e].tries < MaxAttempts + faults
                   /\ event[e].tries <= MaxAttempts + faults

ReasonOnce ==
  \A x, y \in entries : x.uri = y.uri /\ x.kind = "reason" /\ y.kind = "reason" => x = y

ForgetInv ==
  /\ forget.pc \in Forgetting => forget.uri \in Uri
  /\ forget.pc \notin Forgetting => ~forget.quiet
  /\ forget.pc = "delete" =>
        /\ \A w \in forget.points : w \in Uri /\ Matches(w, forget.uri)
        /\ \A x \in forget.found : x.uri \in Uri /\ Matches(x.uri, forget.uri)

\* Nothing that is under way will store u.
AtRest(u) ==
  /\ \A e \in Event : e[2] = u => event[e].state \notin {"queued", "running"}
  /\ \A c \in Call : \A i \in DOMAIN Doc[c] :
        call[c].state = "running" /\ Doc[c][i] = u => i >= call[c].next

QuietInv ==
  /\ \A u \in quietly : AtRest(u) /\ Nothing(u)
  /\ forget.quiet =>
        /\ AtRest(forget.uri)
        /\ forget.pc = "delete" =>
              /\ point[forget.uri].kind # "none" => forget.uri \in forget.points
              /\ \A x \in entries : x.uri = forget.uri => x \in forget.found
        /\ forget.pc = "files" => /\ point[forget.uri].kind = "none"
                                  /\ \A x \in entries : x.uri # forget.uri

SweptInv == forget.pc \in Forgetting => {w \in Uri : Matches(w, forget.uri)} \subseteq swept

ExclusiveEvents ==
  \A e, f \in Event :
     e[2] = f[2] /\ event[e].state = "running" /\ event[f].state = "running" => e = f

\* A session wrote its final record u and has its event still to publish.
Owed(u) == \E c \in Call : /\ call[c].final /\ u = Doc[c][1]
                           /\ call[c].next > 1 /\ event[<<c, u>>].state = "none"

\* What an action leaves when it is carried out.
Effect(u, step, d) ==
  CASE step = "derive" -> KeepsPoint(u) => point[u] = Derived(d)
    [] step = "files"  -> file[u] = d
    [] step \in {"search", "entity", "reason"} -> [uri |-> u, kind |-> step, by |-> d] \in entries
    [] OTHER -> TRUE

\* The event being handled, if it is the last of its record and nothing failed, has
\* done all the actions before the one it is at.
ProgressInv ==
  \A e \in Event :
     /\ event[e].state = "running" /\ ~event[e].failed
     /\ e[2] \notin swept /\ ~Owed(e[2])
     /\ \A f \in Event : f[2] = e[2] => event[f].state # "queued"
     => \A step \in ToSet(Order) : Applies(e, step) /\ Place(step) < Place(event[e].at)
           => Effect(e[2], step, By(e))

HandledInv ==
  \A u \in Uri :
     /\ u \notin swept /\ ~Owed(u)
     /\ \A e \in Event : e[2] = u => event[e].state \in {"none", "done"}
     /\ \E e \in Event : e[2] = u /\ event[e].state = "done"
     => \E d \in Derivation : /\ Holds(u, d)
                              /\ KeepsPoint(u) => point[u] = Derived(d)

\* A record whose events were all handled has its own point, not a directory.
RecordKeepsPoint ==
  \A u \in Uri : Settled(u) /\ u \notin swept
                   => point[u].kind = "derived"
===============================================================================
