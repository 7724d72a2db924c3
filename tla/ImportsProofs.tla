----------------------------- MODULE ImportsProofs -----------------------------
(* An upload is imported once, and an import that answers is whole, for every   *)
(* set of documents, whatever sections they are parsed into, and any callers.   *)
EXTENDS Imports, SequenceTheorems, TLAPS

-------------------------------------------------------------------------------
(* Types *)

PC == Started \cup {"idle", "refused", "done", "failed"}

UploadState == {"none", "content", "whole", "gone"}

\* What a call may hold: nothing yet, or the sections of an upload.
Lists == {<<>>} \cup {SectionsOf(job[u].text) : u \in Upload}

Point == [kind : {"record", "directory"}, by : Caller, section : Nat]

CallState == [pc : PC, upload : Upload \cup {0}, chunks : Lists, next : Nat]

\* A call goes through its sections in order.
Placed(s) == /\ s.pc \in {"idle", "parse", "root"} => s.next = 0
             /\ s.pc \in {"parents", "record"} => s.next \in DOMAIN s.chunks
             /\ s.pc = "done" => s.next = Len(s.chunks) + 1
             /\ s.next \in 0 .. Len(s.chunks) + 1

Typed ==
  /\ job \in Jobs
  /\ upload \in [Upload -> UploadState]
  /\ call \in [Caller -> CallState]
  /\ \A c \in Caller : Placed(call[c])
  /\ \A u \in DOMAIN points : points[u] \in Point
  /\ published \subseteq Caller \X Nat
  /\ alone \subseteq Caller /\ faults \in 0 .. MaxFaults

\* A call that began has consumed its upload, and no other has.
OnceInv ==
  /\ \A c \in Caller : call[c].pc \notin {"idle", "refused"}
                       => call[c].upload \in Upload /\ upload[call[c].upload] = "gone"
  /\ ImportedOnce

\* Nobody else writes below the root of a call that is alone.
AloneInv ==
  \A c \in alone : /\ call[c].pc \notin {"idle", "refused"}
                   /\ \A b \in Running : b # c => Document(b).path # Document(c).path

\* What a call has behind it is there, whatever becomes of the directories above.
Behind(c) ==
  /\ Root(c) \in DOMAIN points /\ <<c, 0>> \in published
  /\ \A k \in DOMAIN Chunks(c) : k < call[c].next
        => /\ ChunkUri(c, k) \in DOMAIN points /\ <<c, k>> \in published
           /\ IsLeaf(Chunks(c), k) => points[ChunkUri(c, k)] = Record(c, k)

BehindInv == \A c \in alone : call[c].pc \in {"parents", "record", "done"} => Behind(c)

LEMMA ListsNumbered ==
  ASSUME job \in Jobs, NEW chunks \in Lists
  PROVE  Numbered(chunks)
<1>1. Numbered(<<>>)
  BY DEF Numbered
<1>2. ASSUME NEW u \in Upload PROVE Numbered(SectionsOf(job[u].text))
  BY <1>2, SectionsAssumption DEF Upload
<1> QED
  BY <1>1, <1>2 DEF Lists

\* The documents stay as they are.
LEMMA SameJob ==
  ASSUME job' = job
  PROVE  Upload' = Upload /\ Lists' = Lists /\ CallState' = CallState
<1>1. Upload' = Upload
  BY DEF Upload
<1>2. Lists' = Lists
  BY <1>1 DEF Lists
<1> QED
  BY <1>1, <1>2 DEF CallState

\* The documents are the same at every step.
LEMMA JobStays == [Next]_vars => job' = job
BY DEF Next, vars, Save, SaveFails, Import, NotFound, StoreStep, ParseChunks, WriteRoot,
       WriteParents, WriteSection, Fail, Crash

\* A step of the call c to the state s.
Moves(c, s) == call' = [call EXCEPT ![c] = s]

LEMMA CallMoves ==
  ASSUME Typed, job' = job, NEW c \in Caller, NEW s \in CallState, Placed(s), Moves(c, s)
  PROVE  /\ call' \in [Caller -> CallState']
         /\ \A d \in Caller : Placed(call'[d])
         /\ call'[c] = s
         /\ \A d \in Caller : d # c => call'[d] = call[d]
<1>1. /\ call'[c] = s
      /\ \A d \in Caller : d # c => call'[d] = call[d]
      /\ call' \in [Caller -> CallState]
  BY DEF Typed, Moves
<1>2. \A d \in Caller : Placed(call'[d])
  BY <1>1 DEF Typed
<1> QED
  BY <1>1, <1>2, SameJob

\* What each step makes of a call.
Begun(c, u) == [call[c] EXCEPT !.pc = "parse", !.upload = u]

LEMMA ImportMoves ==
  ASSUME Typed, NEW c \in Caller, NEW u \in Upload, Import(c, u)
  PROVE  Begun(c, u) \in CallState /\ Placed(Begun(c, u)) /\ Moves(c, Begun(c, u))
<1>1. call[c] \in CallState /\ Placed(call[c]) /\ call[c].pc = "idle"
  BY DEF Typed, Import
<1>2. Begun(c, u) \in CallState
  BY <1>1 DEF CallState, Begun, PC, Started
<1>3. Placed(Begun(c, u))
  BY <1>1 DEF CallState, Begun, Placed
<1> QED
  BY <1>2, <1>3 DEF Moves, Begun, Import

LEMMA NotFoundMoves ==
  ASSUME Typed, NEW c \in Caller, NEW u \in Upload, NotFound(c, u)
  PROVE  \E s \in CallState : Placed(s) /\ Moves(c, s) /\ s.pc = "refused"
<1> DEFINE s == [call[c] EXCEPT !.pc = "refused", !.upload = u]
<1>1. call[c] \in CallState /\ Placed(call[c]) /\ call[c].pc = "idle"
  BY DEF Typed, NotFound
<1>2. s \in CallState /\ s.pc = "refused"
  BY <1>1 DEF CallState, PC
<1>3. Placed(s)
  BY <1>1 DEF CallState, Placed
<1>4. Moves(c, s)
  BY DEF Moves, NotFound
<1> HIDE DEF s
<1> QED
  BY <1>2, <1>3, <1>4

LEMMA ParseMoves ==
  ASSUME Typed, OnceInv, NEW c \in Caller, ParseChunks(c)
  PROVE  \E s \in CallState : /\ Placed(s) /\ Moves(c, s) /\ s.pc = "root"
                              /\ s.upload = call[c].upload
<1> DEFINE chunks == SectionsOf(Document(c).text)
           s == [call[c] EXCEPT !.pc = "root", !.chunks = chunks]
<1>1. call[c] \in CallState /\ Placed(call[c]) /\ call[c].pc = "parse"
  BY DEF Typed, ParseChunks
<1>2. call[c].upload \in Upload
  BY <1>1 DEF OnceInv
<1>3. chunks \in Lists
  BY <1>2 DEF Lists, Document
<1>4. Numbered(chunks)
  BY <1>3, ListsNumbered DEF Typed
<1>5. Moves(c, s)
  BY DEF Moves, ParseChunks
<1> HIDE DEF chunks
<1>6. s \in CallState /\ s.pc = "root" /\ s.upload = call[c].upload /\ s.chunks = chunks /\ s.next = call[c].next
  BY <1>1, <1>3 DEF CallState, PC, Started
<1>7. Placed(s)
  <2>1. s.next = 0 /\ s.next \in 0 .. Len(s.chunks) + 1
    BY <1>1, <1>4, <1>6 DEF Placed, Numbered
  <2> HIDE DEF s
  <2> QED BY <1>6, <2>1 DEF Placed
<1> HIDE DEF s
<1> QED
  BY <1>5, <1>6, <1>7

\* The call goes on after its k-th section.
LEMMA ContinuedMoves ==
  ASSUME Typed, NEW c \in Caller, NEW k \in 0 .. Len(Chunks(c)), call' = Continued(c, k)
  PROVE  \E s \in CallState : /\ Placed(s) /\ Moves(c, s) /\ s.pc \in {"parents", "done"}
                              /\ s.upload = call[c].upload /\ s.chunks = call[c].chunks
                              /\ s.next = k + 1
<1> DEFINE s == [call[c] EXCEPT !.pc = IF k = Len(Chunks(c)) THEN "done" ELSE "parents",
                                !.next = k + 1]
<1>1. call[c] \in CallState
  BY DEF Typed
<1>2. Numbered(Chunks(c)) /\ Chunks(c) = call[c].chunks
  BY <1>1, ListsNumbered DEF Typed, Chunks, CallState
<1>3. k \in Nat /\ k + 1 \in Nat /\ k + 1 \in 0 .. Len(Chunks(c)) + 1
      /\ (k # Len(Chunks(c)) => k + 1 \in 1 .. Len(Chunks(c)))
  BY <1>2 DEF Numbered
<1>4. /\ s \in CallState /\ s.upload = call[c].upload /\ s.chunks = call[c].chunks
      /\ s.next = k + 1 /\ s.pc = IF k = Len(Chunks(c)) THEN "done" ELSE "parents"
  BY <1>1, <1>3 DEF CallState, PC, Started
<1>5. Moves(c, s)
  BY DEF Moves, Continued, GoOn
<1> HIDE DEF s
<1>6. Placed(s)
  BY <1>2, <1>3, <1>4 DEF Placed, Numbered
<1> QED
  BY <1>4, <1>5, <1>6

LEMMA RootMoves ==
  ASSUME Typed, NEW c \in Caller, WriteRoot(c)
  PROVE  \E s \in CallState : /\ Placed(s) /\ Moves(c, s) /\ s.pc \in {"parents", "done"}
                              /\ s.upload = call[c].upload /\ s.chunks = call[c].chunks
                              /\ s.next = 1
<1>1. Numbered(Chunks(c))
  BY ListsNumbered DEF Typed, Chunks, CallState
<1>2. 0 \in 0 .. Len(Chunks(c)) /\ 0 + 1 = 1
  BY <1>1 DEF Numbered
<1>3. call' = Continued(c, 0)
  BY DEF WriteRoot
<1> QED
  BY <1>2, <1>3, ContinuedMoves

LEMMA ParentsMoves ==
  ASSUME Typed, NEW c \in Caller, WriteParents(c)
  PROVE  \E s \in CallState : /\ Placed(s) /\ Moves(c, s) /\ s.pc = "record"
                              /\ s.upload = call[c].upload /\ s.chunks = call[c].chunks
                              /\ s.next = call[c].next
<1> DEFINE s == [call[c] EXCEPT !.pc = "record"]
<1>1. call[c] \in CallState /\ Placed(call[c]) /\ call[c].pc = "parents"
  BY DEF Typed, WriteParents
<1>2. /\ s \in CallState /\ s.pc = "record" /\ s.upload = call[c].upload
      /\ s.chunks = call[c].chunks /\ s.next = call[c].next
  BY <1>1 DEF CallState, PC, Started
<1>3. Moves(c, s)
  BY DEF Moves, WriteParents
<1> HIDE DEF s
<1> QED
  BY <1>1, <1>2, <1>3 DEF Placed

LEMMA SectionMoves ==
  ASSUME Typed, NEW c \in Caller, WriteSection(c)
  PROVE  \E s \in CallState : /\ Placed(s) /\ Moves(c, s) /\ s.pc \in {"parents", "done"}
                              /\ s.upload = call[c].upload /\ s.chunks = call[c].chunks
                              /\ s.next = call[c].next + 1
<1>1. Placed(call[c]) /\ call[c].pc = "record" /\ Chunks(c) = call[c].chunks
  BY DEF Typed, WriteSection, Chunks
<1>2. Numbered(Chunks(c))
  BY ListsNumbered DEF Typed, Chunks, CallState
<1>3. call[c].next \in 0 .. Len(Chunks(c))
  BY <1>1, <1>2 DEF Placed, Numbered
<1>4. call' = Continued(c, call[c].next)
  BY DEF WriteSection
<1> QED
  BY <1>3, <1>4, ContinuedMoves

-------------------------------------------------------------------------------
(* Type correctness *)

\* Calls that end with a failure keep everything but their place.
LEMMA EndedMoves ==
  ASSUME Typed, job' = job, NEW S \in SUBSET Running, call' = Ended(S)
  PROVE  /\ call' \in [Caller -> CallState']
         /\ \A d \in Caller : /\ Placed(call'[d])
                              /\ call'[d].upload = call[d].upload
                              /\ call'[d].chunks = call[d].chunks
                              /\ call'[d].next = call[d].next
                              /\ call'[d].pc = IF d \in S THEN "failed" ELSE call[d].pc
<1>1. ASSUME NEW d \in Caller
      PROVE  /\ call'[d] \in CallState /\ Placed(call'[d])
             /\ call'[d].upload = call[d].upload /\ call'[d].chunks = call[d].chunks
             /\ call'[d].next = call[d].next
             /\ call'[d].pc = IF d \in S THEN "failed" ELSE call[d].pc
  <2> DEFINE s == [call[d] EXCEPT !.pc = "failed"]
  <2>1. call[d] \in CallState /\ Placed(call[d])
    BY DEF Typed
  <2>2. /\ s \in CallState /\ s.upload = call[d].upload /\ s.chunks = call[d].chunks
        /\ s.next = call[d].next /\ s.pc = "failed"
    BY <2>1 DEF CallState, PC
  <2>3. call'[d] = IF d \in S THEN s ELSE call[d]
    BY DEF Ended
  <2> HIDE DEF s
  <2>4. Placed(s)
    BY <2>1, <2>2 DEF Placed
  <2> QED
    BY <2>1, <2>2, <2>3, <2>4
<1>2. call' = [d \in Caller |-> call'[d]]
  BY DEF Ended
<1> QED
  BY <1>1, <1>2, SameJob

LEMMA WithAdds ==
  ASSUME NEW uris, NEW p, points' = With(uris, p)
  PROVE  /\ DOMAIN points' = DOMAIN points \cup uris
         /\ \A u \in uris : points'[u] = p
         /\ \A u \in DOMAIN points : u \notin uris => points'[u] = points[u]
BY DEF With

LEMMA WithTyped ==
  ASSUME Typed, NEW uris, NEW p \in Point, points' = With(uris, p)
  PROVE  \A u \in DOMAIN points' : points'[u] \in Point
<1> SUFFICES ASSUME NEW u \in DOMAIN points' PROVE points'[u] \in Point
  OBVIOUS
<1>1. /\ DOMAIN points' = DOMAIN points \cup uris
      /\ \A v \in uris : points'[v] = p
      /\ \A v \in DOMAIN points : v \notin uris => points'[v] = points[v]
  BY WithAdds
<1>2. \A v \in DOMAIN points : points[v] \in Point
  BY DEF Typed
<1> QED
  BY <1>1, <1>2

LEMMA UploadStep ==
  ASSUME Typed, NEW u \in Upload, NEW state \in UploadState,
         upload' = [upload EXCEPT ![u] = state], job' = job
  PROVE  upload' \in [Upload' -> UploadState]
BY SameJob DEF Typed

LEMMA TypedInit == Init => Typed
<1> SUFFICES ASSUME Init PROVE Typed
  OBVIOUS
<1>1. 0 \in Upload \cup {0} /\ <<>> \in Lists /\ "idle" \in PC /\ 0 \in Nat
  BY DEF Lists, PC
<1>2. [pc |-> "idle", upload |-> 0, chunks |-> <<>>, next |-> 0] \in CallState
  BY <1>1 DEF CallState
<1>3. Placed([pc |-> "idle", upload |-> 0, chunks |-> <<>>, next |-> 0])
  BY DEF Placed
<1>4. call \in [Caller -> CallState] /\ \A c \in Caller : Placed(call[c])
  BY <1>2, <1>3 DEF Init
<1>5. upload \in [Upload -> UploadState]
  BY DEF Init, UploadState
<1>6. DOMAIN points = {}
  BY DEF Init
<1>7. faults \in 0 .. MaxFaults
  BY ImportsAssumption DEF Init
<1>8. job \in Jobs /\ published = {} /\ alone = {}
  BY DEF Init
<1> QED
  BY <1>4, <1>5, <1>6, <1>7, <1>8 DEF Typed

LEMMA TypedStep == Typed /\ OnceInv /\ [Next]_vars => Typed'
<1> SUFFICES ASSUME Typed, OnceInv, [Next]_vars PROVE Typed'
  OBVIOUS
<1>0. job' = job /\ Upload' = Upload /\ CallState' = CallState
  BY JobStays, SameJob
<1>1. ASSUME NEW u \in Upload, Save(u) PROVE Typed'
  <2>1. upload' \in [Upload' -> UploadState]
    BY <1>0, <1>1, UploadStep DEF Save, UploadState
  <2> QED
    BY <1>0, <1>1, <2>1 DEF Save, Typed
<1>2. ASSUME NEW u \in Upload, SaveFails(u) PROVE Typed'
  <2>1. upload' \in [Upload' -> UploadState]
    BY <1>0, <1>2, UploadStep DEF SaveFails, UploadState
  <2>2. faults' \in 0 .. MaxFaults
    BY <1>2, ImportsAssumption DEF SaveFails, Typed
  <2> QED
    BY <1>0, <1>2, <2>1, <2>2 DEF SaveFails, Typed
<1>3. ASSUME NEW u \in Upload, NEW c \in Caller, Import(c, u) PROVE Typed'
  <2>1. upload' \in [Upload' -> UploadState]
    BY <1>0, <1>3, UploadStep DEF Import, Consumed, UploadState
  <2>2. call' \in [Caller -> CallState'] /\ \A d \in Caller : Placed(call'[d])
    BY <1>0, <1>3, ImportMoves, CallMoves
  <2>3. alone' \subseteq Caller
    BY <1>3 DEF Import, Typed
  <2> QED
    BY <1>0, <1>3, <2>1, <2>2, <2>3 DEF Import, Typed
<1>4. ASSUME NEW u \in Upload, NEW c \in Caller, NotFound(c, u) PROVE Typed'
  <2>1. call' \in [Caller -> CallState'] /\ \A d \in Caller : Placed(call'[d])
    BY <1>0, <1>4, NotFoundMoves, CallMoves
  <2> QED
    BY <1>0, <1>4, <2>1 DEF NotFound, Typed
<1>5. ASSUME NEW c \in Caller, ParseChunks(c) PROVE Typed'
  <2>1. call' \in [Caller -> CallState'] /\ \A d \in Caller : Placed(call'[d])
    BY <1>0, <1>5, ParseMoves, CallMoves
  <2> QED
    BY <1>0, <1>5, <2>1 DEF ParseChunks, Typed
<1>6. ASSUME NEW c \in Caller, WriteRoot(c) PROVE Typed'
  <2>1. call' \in [Caller -> CallState'] /\ \A d \in Caller : Placed(call'[d])
    BY <1>0, <1>6, RootMoves, CallMoves
  <2>2. Record(c, 0) \in Point
    BY DEF Record, Point
  <2>3. \A u \in DOMAIN points' : points'[u] \in Point
    BY <1>6, <2>2, WithTyped DEF WriteRoot
  <2>4. published' \subseteq Caller \X Nat
    BY <1>6 DEF WriteRoot, Typed
  <2> QED
    BY <1>0, <1>6, <2>1, <2>3, <2>4 DEF WriteRoot, Typed
<1>7. ASSUME NEW c \in Caller, WriteParents(c) PROVE Typed'
  <2>1. call' \in [Caller -> CallState'] /\ \A d \in Caller : Placed(call'[d])
    BY <1>0, <1>7, ParentsMoves, CallMoves
  <2>2. Directory(c) \in Point
    BY DEF Directory, Point
  <2>3. \A u \in DOMAIN points' : points'[u] \in Point
    BY <1>7, <2>2, WithTyped DEF WriteParents
  <2> QED
    BY <1>0, <1>7, <2>1, <2>3 DEF WriteParents, Typed
<1>8. ASSUME NEW c \in Caller, WriteSection(c) PROVE Typed'
  <2>1. call' \in [Caller -> CallState'] /\ \A d \in Caller : Placed(call'[d])
    BY <1>0, <1>8, SectionMoves, CallMoves
  <2>2. /\ points' = With({ChunkUri(c, call[c].next)}, Record(c, call[c].next))
        /\ published' = published \cup {<<c, call[c].next>>}
        /\ UNCHANGED <<job, upload, alone, faults>>
    BY <1>8 DEF WriteSection
  <2>3. Record(c, call[c].next) \in Point
    BY DEF Record, Point, Typed, CallState
  <2>4. \A u \in DOMAIN points' : points'[u] \in Point
    BY <2>2, <2>3, WithTyped
  <2>5. published' \subseteq Caller \X Nat
    <3>1. call[c].next \in Nat
      BY DEF Typed, CallState
    <3> QED BY <2>2, <3>1 DEF Typed
  <2> QED
    BY <1>0, <2>1, <2>2, <2>4, <2>5 DEF Typed
<1>9. ASSUME NEW c \in Caller, Fail(c) PROVE Typed'
  <2>1. call' \in [Caller -> CallState'] /\ \A d \in Caller : Placed(call'[d])
    BY <1>0, <1>9, EndedMoves DEF Fail
  <2>2. faults' \in 0 .. MaxFaults
    BY <1>9, ImportsAssumption DEF Fail, Typed
  <2> QED
    BY <1>0, <1>9, <2>1, <2>2 DEF Fail, Typed
<1>10. CASE Crash
  <2>1. call' \in [Caller -> CallState'] /\ \A d \in Caller : Placed(call'[d])
    BY <1>0, <1>10, EndedMoves DEF Crash
  <2>2. faults' \in 0 .. MaxFaults
    BY <1>10, ImportsAssumption DEF Crash, Typed
  <2> QED
    BY <1>0, <1>10, <2>1, <2>2 DEF Crash, Typed
<1>11. CASE UNCHANGED vars
  BY <1>0, <1>11 DEF vars, Typed
<1> QED
  BY <1>1, <1>2, <1>3, <1>4, <1>5, <1>6, <1>7, <1>8, <1>9, <1>10, <1>11 DEF Next, StoreStep

-------------------------------------------------------------------------------
(* Single import *)

Fresh == {"idle", "refused"}

\* Nothing but Import begins a call.
Stays ==
  /\ alone' = alone
  /\ \A u \in Upload : upload[u] = "gone" => upload'[u] = "gone"
  /\ \A d \in Caller : call[d].pc \notin Fresh \/ call'[d].pc \notin Fresh
        => /\ call[d].pc \notin Fresh /\ call'[d].pc \notin Fresh
           /\ call'[d].upload = call[d].upload
           /\ call'[d].pc \in Started => call[d].pc \in Started

LEMMA StoreStays ==
  ASSUME Typed, OnceInv, job' = job, NEW c \in Caller, StoreStep(c)
  PROVE  Stays
<1>1. call[c].pc \in Started /\ upload' = upload /\ alone' = alone
  BY DEF StoreStep, ParseChunks, WriteRoot, WriteParents, WriteSection, Started
<1>2. PICK s \in CallState : /\ Placed(s) /\ Moves(c, s) /\ s.pc \in {"root", "parents", "record", "done"}
                             /\ s.upload = call[c].upload
  BY ParseMoves, RootMoves, ParentsMoves, SectionMoves DEF StoreStep
<1>3. call'[c] = s /\ \A d \in Caller : d # c => call'[d] = call[d]
  BY <1>2, CallMoves
<1>4. call'[c].pc \notin Fresh /\ call[c].pc \notin Fresh
  BY <1>1, <1>2, <1>3 DEF Fresh, Started
<1> QED
  BY <1>1, <1>2, <1>3, <1>4 DEF Stays

LEMMA EndedStays ==
  ASSUME Typed, job' = job, NEW S \in SUBSET Running, call' = Ended(S),
         upload' = upload, alone' = alone
  PROVE  Stays
<1>1. \A d \in Caller : /\ call'[d].upload = call[d].upload
                        /\ call'[d].pc = IF d \in S THEN "failed" ELSE call[d].pc
  BY EndedMoves
<1>2. \A d \in S : call[d].pc \in Started
  BY DEF Running
<1>3. "failed" \notin Started /\ "failed" \notin Fresh /\ Started \cap Fresh = {}
  BY DEF Started, Fresh
<1> QED
  BY <1>1, <1>2, <1>3 DEF Stays

LEMMA StepsStay ==
  ASSUME Typed, OnceInv, [Next]_vars, \A c \in Caller, u \in Upload : ~Import(c, u)
  PROVE  Stays
<1>0. job' = job
  BY JobStays
<1>1. ASSUME NEW u \in Upload, Save(u) \/ SaveFails(u) PROVE Stays
  <2>1. \A v \in Upload : upload[v] = "gone" => upload'[v] = "gone"
    BY <1>1 DEF Save, SaveFails, Typed
  <2> QED
    BY <1>1, <2>1 DEF Save, SaveFails, Stays
<1>2. ASSUME NEW c \in Caller, NEW u \in Upload, NotFound(c, u) PROVE Stays
  <2>1. PICK s \in CallState : Placed(s) /\ Moves(c, s) /\ s.pc = "refused"
    BY <1>2, NotFoundMoves
  <2>2. call'[c] = s /\ \A d \in Caller : d # c => call'[d] = call[d]
    BY <1>0, <2>1, CallMoves
  <2>3. call[c].pc = "idle" /\ upload' = upload /\ alone' = alone
    BY <1>2 DEF NotFound
  <2>4. call[c].pc \in Fresh /\ call'[c].pc \in Fresh
    BY <2>1, <2>2, <2>3 DEF Fresh
  <2> QED
    BY <2>2, <2>3, <2>4 DEF Stays
<1>3. ASSUME NEW c \in Caller, StoreStep(c) PROVE Stays
  BY <1>0, <1>3, StoreStays
<1>4. ASSUME NEW c \in Caller, Fail(c) PROVE Stays
  BY <1>0, <1>4, EndedStays DEF Fail
<1>5. CASE Crash
  BY <1>0, <1>5, EndedStays DEF Crash
<1>6. CASE UNCHANGED vars
  BY <1>6 DEF vars, Stays
<1> QED
  BY <1>1, <1>2, <1>3, <1>4, <1>5, <1>6 DEF Next

LEMMA OnceStep == Typed /\ OnceInv /\ [Next]_vars => OnceInv'
<1> SUFFICES ASSUME Typed, OnceInv, [Next]_vars PROVE OnceInv'
  OBVIOUS
<1>0. job' = job /\ Upload' = Upload
  BY JobStays, SameJob
<1>1. CASE \A c \in Caller, u \in Upload : ~Import(c, u)
  <2>1. Stays
    BY <1>1, StepsStay
  <2>2. \A c \in Caller : call'[c].pc \notin Fresh => /\ call[c].pc \notin Fresh
                                                      /\ call'[c].upload = call[c].upload
    BY <2>1 DEF Stays
  <2>3. \A c \in Caller : call'[c].pc \notin Fresh
                          => call'[c].upload \in Upload /\ upload'[call'[c].upload] = "gone"
    BY <2>1, <2>2 DEF OnceInv, Stays, Fresh
  <2>4. ImportedOnce'
    <3> SUFFICES ASSUME NEW b \in Caller, NEW c \in Caller, b # c,
                        call'[b].pc \notin Fresh, call'[c].pc \notin Fresh
                 PROVE  call'[b].upload # call'[c].upload
      BY DEF ImportedOnce, Fresh
    <3>1. call[b].upload # call[c].upload
      BY <2>2 DEF OnceInv, ImportedOnce, Fresh
    <3> QED BY <2>2, <3>1
  <2> QED
    BY <1>0, <2>3, <2>4 DEF OnceInv, Fresh
<1>2. ASSUME NEW c \in Caller, NEW u \in Upload, Import(c, u) PROVE OnceInv'
  <2>1. upload[u] = "whole" /\ upload' = [upload EXCEPT ![u] = "gone"]
    BY <1>2 DEF Import, Consumed
  <2>2. /\ call'[c] = Begun(c, u)
        /\ \A d \in Caller : d # c => call'[d] = call[d]
    BY <1>0, <1>2, ImportMoves, CallMoves
  <2>3. call'[c].upload = u
    BY <2>2 DEF Begun, Typed, CallState
  <2>4. \A d \in Caller : d # c /\ call[d].pc \notin Fresh
            => call[d].upload \in Upload /\ upload[call[d].upload] = "gone"
    BY DEF OnceInv, Fresh
  <2>5. \A d \in Caller : d # c /\ call[d].pc \notin Fresh => call[d].upload # u
    BY <2>1, <2>4
  <2>6. \A v \in Upload : upload'[v] = IF v = u THEN "gone" ELSE upload[v]
    BY <2>1 DEF Typed
  <2>7. \A d \in Caller : call'[d].pc \notin Fresh
            => call'[d].upload \in Upload /\ upload'[call'[d].upload] = "gone"
    BY <2>2, <2>3, <2>4, <2>6
  <2>8. ImportedOnce'
    <3> SUFFICES ASSUME NEW b \in Caller, NEW d \in Caller, b # d,
                        call'[b].pc \notin Fresh, call'[d].pc \notin Fresh
                 PROVE  call'[b].upload # call'[d].upload
      BY DEF ImportedOnce, Fresh
    <3>1. CASE b = c
      BY <3>1, <2>2, <2>3, <2>5
    <3>2. CASE d = c
      BY <3>2, <2>2, <2>3, <2>5
    <3>3. CASE b # c /\ d # c
      BY <3>3, <2>2 DEF OnceInv, ImportedOnce, Fresh
    <3> QED BY <3>1, <3>2, <3>3
  <2> QED
    BY <1>0, <2>7, <2>8 DEF OnceInv, Fresh
<1> QED
  BY <1>1, <1>2

Basic == Typed /\ OnceInv

LEMMA BasicAlways == Spec => []Basic
<1>1. Init => Basic
  <2> SUFFICES ASSUME Init PROVE OnceInv
    BY TypedInit DEF Basic
  <2>1. \A c \in Caller : call[c].pc = "idle"
    BY DEF Init
  <2> QED
    BY <2>1 DEF OnceInv, ImportedOnce
<1>2. Basic /\ [Next]_vars => Basic'
  BY TypedStep, OnceStep DEF Basic
<1> QED
  BY <1>1, <1>2, PTL DEF Spec

\* The variables have their types, and calls go through their sections in order.
THEOREM TypeCorrect == Spec => []TypeOK
<1>1. Basic => TypeOK
  <2> SUFFICES ASSUME Typed PROVE TypeOK
    BY DEF Basic
  <2>1. ASSUME NEW c \in Caller
        PROVE  /\ call[c].pc \in Started \cup {"idle", "refused", "done", "failed"}
               /\ call[c].upload \in Upload \cup {0}
               /\ call[c].next \in 0 .. Len(Chunks(c)) + 1
               /\ Numbered(Chunks(c))
               /\ call[c].pc \in {"parents", "record"} => call[c].next \in DOMAIN Chunks(c)
    <3>1. call[c] \in CallState /\ Placed(call[c])
      BY DEF Typed
    <3>2. Numbered(Chunks(c))
      BY <3>1, ListsNumbered DEF Typed, CallState, Chunks
    <3> QED
      BY <3>1, <3>2 DEF CallState, PC, Placed, Chunks
  <2>2. \A u \in DOMAIN points : points[u].kind \in {"record", "directory"} /\ points[u].by \in Caller
    BY DEF Typed, Point
  <2> QED
    BY <2>1, <2>2 DEF Typed, TypeOK, UploadState
<1> QED
  BY <1>1, BasicAlways, PTL

\* An upload is consumed by one call at most: it is removed in the same step in
\* which a call takes it, and whatever fails later does not bring it back.
THEOREM ImportedOnceAlways == Spec => []ImportedOnce
<1>1. Basic => ImportedOnce
  BY DEF Basic, OnceInv
<1> QED
  BY <1>1, BasicAlways, PTL

-------------------------------------------------------------------------------
(* Whole imports *)

\* URIs of different paths, and of different sections of one, differ.
LEMMA UriShape ==
  ASSUME NEW p, NEW k, NEW t
  PROVE  /\ Len(<<p>>) = 1 /\ <<p>>[1] = p
         /\ Len(<<p>> \o <<k, t>>) = 3
         /\ (<<p>> \o <<k, t>>)[1] = p /\ (<<p>> \o <<k, t>>)[2] = k
<1>1. <<p>> \in Seq({p, k, t}) /\ <<k, t>> \in Seq({p, k, t})
  OBVIOUS
<1>2. /\ Len(<<p>> \o <<k, t>>) = Len(<<p>>) + Len(<<k, t>>)
      /\ \A i \in 1 .. Len(<<p>>) + Len(<<k, t>>) :
            (<<p>> \o <<k, t>>)[i] = IF i <= Len(<<p>>) THEN <<p>>[i] ELSE <<k, t>>[i - Len(<<p>>)]
  BY <1>1, ConcatProperties
<1> QED
  BY <1>2

LEMMA UrisDiffer ==
  ASSUME NEW c, NEW d, NEW k, NEW l
  PROVE  /\ ChunkUri(c, k) # Root(d)
         /\ k # l => ChunkUri(c, k) # ChunkUri(d, l)
         /\ Document(c).path # Document(d).path
            => Root(c) # Root(d) /\ ChunkUri(c, k) # ChunkUri(d, l)
BY UriShape DEF ChunkUri, Root

\* As long as a call has its upload and its sections, their URIs are the same.
LEMMA UrisStay ==
  ASSUME job' = job, NEW c, call'[c].upload = call[c].upload, call'[c].chunks = call[c].chunks
  PROVE  /\ Root(c)' = Root(c) /\ Chunks(c)' = Chunks(c)
         /\ \A k : ChunkUri(c, k)' = ChunkUri(c, k)
BY DEF Root, Chunks, ChunkUri, Document

LEMMA AloneStep ==
  ASSUME Typed, OnceInv, AloneInv, [Next]_vars
  PROVE  AloneInv'
<1>0. job' = job
  BY JobStays
<1>1. CASE \A c \in Caller, u \in Upload : ~Import(c, u)
  <2>1. Stays
    BY <1>1, StepsStay
  <2>2. ASSUME NEW c \in alone
        PROVE  c \in Caller /\ call'[c].pc \notin Fresh /\ Document(c)' = Document(c)
    BY <1>0, <2>1 DEF Stays, AloneInv, Typed, Fresh, Document
  <2>3. ASSUME NEW b \in Running'
        PROVE  b \in Running /\ Document(b)' = Document(b)
    <3>1. Started \cap Fresh = {}
      BY DEF Started, Fresh
    <3>2. b \in Caller /\ call'[b].pc \in Started /\ call'[b].pc \notin Fresh
      BY <3>1 DEF Running
    <3> QED
      BY <1>0, <2>1, <3>2 DEF Stays, Running, Document
  <2> QED
    BY <2>1, <2>2, <2>3 DEF Stays, AloneInv, Fresh
<1>2. ASSUME NEW c \in Caller, NEW u \in Upload, Import(c, u) PROVE AloneInv'
  <2> DEFINE same == {b \in Running : Root(b) = <<job[u].path>>}
  <2>1. alone' = {b \in alone : Root(b) # <<job[u].path>>} \cup (IF same = {} THEN {c} ELSE {})
    BY <1>2 DEF Import
  <2>2. /\ call'[c] = Begun(c, u)
        /\ \A d \in Caller : d # c => call'[d] = call[d]
    BY <1>0, <1>2, ImportMoves, CallMoves
  <2>3. call'[c].upload = u /\ call'[c].pc = "parse"
    BY <2>2 DEF Begun, Typed, CallState
  <2>4. Document(c)' = job[u] /\ \A d \in Caller : d # c => Document(d)' = Document(d)
    BY <1>0, <2>2, <2>3 DEF Document
  <2>5. c \notin alone
    BY <1>2 DEF Import, AloneInv
  <2>6. \A b \in Running' : b = c \/ (b # c /\ b \in Running)
    BY <2>2 DEF Running
  <2>7. \A d \in Caller : Root(d) # <<job[u].path>> <=> Document(d).path # job[u].path
    BY DEF Root
  <2> SUFFICES ASSUME NEW d \in alone'
               PROVE  /\ call'[d].pc \notin {"idle", "refused"}
                      /\ \A b \in Running' : b # d => Document(b)'.path # Document(d)'.path
    BY DEF AloneInv
  <2>8. CASE d = c
    <3>1. same = {}
      BY <2>1, <2>5, <2>8
    <3>2. \A b \in Running : Document(b).path # job[u].path
      BY <3>1, <2>7 DEF Running
    <3> HIDE DEF same
    <3> QED
      BY <2>3, <2>4, <2>6, <2>8, <3>2 DEF Running
  <2>9. CASE d # c
    <3>1. d \in alone /\ d \in Caller /\ Document(d).path # job[u].path
      BY <2>1, <2>7, <2>9 DEF Typed
    <3>2. call'[d] = call[d] /\ Document(d)' = Document(d)
      BY <2>2, <2>4, <2>9, <3>1
    <3>3. ASSUME NEW b \in Running', b # d PROVE Document(b)'.path # Document(d)'.path
      <4>1. CASE b = c
        BY <2>4, <3>1, <3>2, <4>1
      <4>2. CASE b # c
        BY <2>4, <2>6, <3>1, <3>2, <3>3, <4>2 DEF AloneInv, Running
      <4> QED BY <4>1, <4>2
    <3> QED
      BY <3>1, <3>2, <3>3 DEF AloneInv
  <2> QED
    BY <2>8, <2>9
<1> QED
  BY <1>1, <1>2

\* A call that does not move has behind it what it had, if nobody writes there.
LEMMA BehindKept ==
  ASSUME Typed, job' = job, NEW c \in Caller, Behind(c),
         call'[c].upload = call[c].upload, call'[c].chunks = call[c].chunks,
         call'[c].next = call[c].next,
         published \subseteq published', DOMAIN points \subseteq DOMAIN points',
         \A k : ChunkUri(c, k) \in DOMAIN points
                => points'[ChunkUri(c, k)] = points[ChunkUri(c, k)]
  PROVE  Behind(c)'
<1>1. /\ Root(c)' = Root(c) /\ Chunks(c)' = Chunks(c)
      /\ \A k : ChunkUri(c, k)' = ChunkUri(c, k)
  BY UrisStay
<1>2. Root(c)' \in DOMAIN points' /\ <<c, 0>> \in published'
  BY <1>1 DEF Behind
<1>3. ASSUME NEW k \in DOMAIN Chunks(c), k < call[c].next
      PROVE  /\ ChunkUri(c, k)' \in DOMAIN points' /\ <<c, k>> \in published'
             /\ IsLeaf(Chunks(c), k) => points'[ChunkUri(c, k)'] = Record(c, k)
  BY <1>1, <1>3 DEF Behind
<1>4. \A k : (IsLeaf(Chunks(c), k) <=> IsLeaf(Chunks(c)', k)) /\ Record(c, k)' = Record(c, k)
  BY <1>1 DEF IsLeaf, Record
<1> QED
  BY <1>1, <1>2, <1>3, <1>4 DEF Behind

\* What another call writes is elsewhere.
Below(c, uris) == \A u \in uris : u = Root(c) \/ \E k : u = ChunkUri(c, k)

LEMMA OthersKeep ==
  ASSUME Typed, AloneInv, job' = job, NEW c \in Running, NEW d \in alone, d # c, Behind(d),
         call'[d] = call[d], published \subseteq published',
         NEW uris, NEW p, Below(c, uris), points' = With(uris, p)
  PROVE  Behind(d)'
<1>1. Document(c).path # Document(d).path
  BY DEF AloneInv
<1>2. \A k : ChunkUri(d, k) \notin uris
  BY <1>1, UrisDiffer DEF Below
<1>3. /\ DOMAIN points' = DOMAIN points \cup uris
      /\ \A u \in DOMAIN points : u \notin uris => points'[u] = points[u]
  BY WithAdds
<1>4. d \in Caller
  BY DEF Typed
<1> QED
  BY <1>2, <1>3, <1>4, BehindKept

LEMMA RootBehind ==
  ASSUME Typed, OnceInv, job' = job, NEW c \in Caller, WriteRoot(c)
  PROVE  Behind(c)'
<1>1. PICK s \in CallState : /\ Placed(s) /\ Moves(c, s)
                             /\ s.upload = call[c].upload /\ s.chunks = call[c].chunks
                             /\ s.next = 1
  BY RootMoves
<1>2. call'[c] = s
  BY <1>1, CallMoves
<1>3. Root(c)' = Root(c) /\ Chunks(c)' = Chunks(c) /\ call'[c].next = 1
  BY <1>1, <1>2, UrisStay
<1>4. points' = With({Root(c)}, Record(c, 0)) /\ published' = published \cup {<<c, 0>>}
  BY DEF WriteRoot
<1>5. DOMAIN points' = DOMAIN points \cup {Root(c)}
  BY <1>4, WithAdds
<1>6. Root(c) \in DOMAIN points' /\ <<c, 0>> \in published'
  BY <1>4, <1>5
<1>7. Numbered(Chunks(c))
  BY ListsNumbered DEF Typed, CallState, Chunks
<1>8. \A k \in DOMAIN Chunks(c) : ~(k < 1)
  BY <1>7 DEF Numbered
<1> QED
  BY <1>3, <1>6, <1>8 DEF Behind

LEMMA ParentsBehind ==
  ASSUME Typed, OnceInv, job' = job, NEW c \in Caller, Behind(c), WriteParents(c)
  PROVE  Behind(c)'
<1> DEFINE parent == ParentOf(c, call[c].next)
<1>1. PICK s \in CallState : /\ Placed(s) /\ Moves(c, s)
                             /\ s.upload = call[c].upload /\ s.chunks = call[c].chunks
                             /\ s.next = call[c].next
  BY ParentsMoves
<1>2. call'[c] = s
  BY <1>1, CallMoves
<1>3. /\ Root(c)' = Root(c) /\ Chunks(c)' = Chunks(c) /\ call'[c].next = call[c].next
      /\ \A k : ChunkUri(c, k)' = ChunkUri(c, k)
  BY <1>1, <1>2, UrisStay
<1>4. /\ points' = With({Root(c), UriOf(c, parent)}, Directory(c)) /\ published' = published
      /\ call[c].pc = "parents"
  BY DEF WriteParents
<1>5. /\ DOMAIN points' = DOMAIN points \cup {Root(c), UriOf(c, parent)}
      /\ \A u \in DOMAIN points : u \notin {Root(c), UriOf(c, parent)} => points'[u] = points[u]
  BY <1>4, WithAdds
<1>6. call[c].next \in DOMAIN Chunks(c)
  BY <1>4 DEF Typed, Placed, Chunks
<1>7. ~IsLeaf(Chunks(c), parent)
  BY <1>6 DEF IsLeaf, ParentOf
<1>8. \A k : IsLeaf(Chunks(c), k) => ChunkUri(c, k) \notin {Root(c), UriOf(c, parent)}
  BY <1>7, UrisDiffer DEF UriOf
<1> HIDE DEF parent
<1>9. Root(c)' \in DOMAIN points' /\ <<c, 0>> \in published'
  BY <1>3, <1>4, <1>5 DEF Behind
<1>10. ASSUME NEW k \in DOMAIN Chunks(c), k < call[c].next
       PROVE  /\ ChunkUri(c, k) \in DOMAIN points' /\ <<c, k>> \in published'
              /\ IsLeaf(Chunks(c), k) => points'[ChunkUri(c, k)] = Record(c, k)
  BY <1>4, <1>5, <1>8, <1>10 DEF Behind
<1>11. \A k : (IsLeaf(Chunks(c), k) <=> IsLeaf(Chunks(c)', k)) /\ Record(c, k)' = Record(c, k)
  BY <1>3 DEF IsLeaf, Record
<1> QED
  BY <1>3, <1>9, <1>10, <1>11 DEF Behind

LEMMA SectionBehind ==
  ASSUME Typed, OnceInv, job' = job, NEW c \in Caller, Behind(c), WriteSection(c)
  PROVE  Behind(c)'
<1> DEFINE n == call[c].next
<1>1. PICK s \in CallState : /\ Placed(s) /\ Moves(c, s)
                             /\ s.upload = call[c].upload /\ s.chunks = call[c].chunks
                             /\ s.next = call[c].next + 1
  BY SectionMoves
<1>2. call'[c] = s
  BY <1>1, CallMoves
<1>3. /\ Root(c)' = Root(c) /\ Chunks(c)' = Chunks(c) /\ call'[c].next = n + 1
      /\ \A k : ChunkUri(c, k)' = ChunkUri(c, k)
  BY <1>1, <1>2, UrisStay
<1>4. /\ points' = With({ChunkUri(c, n)}, Record(c, n))
      /\ published' = published \cup {<<c, n>>}
  BY DEF WriteSection
<1>5. /\ DOMAIN points' = DOMAIN points \cup {ChunkUri(c, n)}
      /\ points'[ChunkUri(c, n)] = Record(c, n)
      /\ \A u \in DOMAIN points : u # ChunkUri(c, n) => points'[u] = points[u]
  <2>1. /\ DOMAIN points' = DOMAIN points \cup {ChunkUri(c, n)}
        /\ \A u \in {ChunkUri(c, n)} : points'[u] = Record(c, n)
        /\ \A u \in DOMAIN points : u \notin {ChunkUri(c, n)} => points'[u] = points[u]
    BY <1>4, WithAdds
  <2> QED BY <2>1
<1>6. n \in Nat
  BY DEF Typed, CallState
<1>7. Numbered(Chunks(c))
  BY ListsNumbered DEF Typed, CallState, Chunks
<1> HIDE DEF n
<1>8. Root(c)' \in DOMAIN points' /\ <<c, 0>> \in published'
  BY <1>3, <1>4, <1>5 DEF Behind
<1>9. ASSUME NEW k \in DOMAIN Chunks(c), k < n + 1
      PROVE  /\ ChunkUri(c, k) \in DOMAIN points' /\ <<c, k>> \in published'
             /\ IsLeaf(Chunks(c), k) => points'[ChunkUri(c, k)] = Record(c, k)
  <2>1. CASE k = n
    BY <2>1, <1>4, <1>5
  <2>2. CASE k # n
    <3>1. k < call[c].next
      BY <1>6, <1>7, <1>9, <2>2 DEF n, Numbered
    <3>2. ChunkUri(c, k) # ChunkUri(c, n)
      BY <2>2, UrisDiffer
    <3>3. /\ ChunkUri(c, k) \in DOMAIN points /\ <<c, k>> \in published
          /\ IsLeaf(Chunks(c), k) => points[ChunkUri(c, k)] = Record(c, k)
      BY <3>1 DEF Behind
    <3> QED
      BY <1>4, <1>5, <3>2, <3>3
  <2> QED
    BY <2>1, <2>2
<1>10. \A k : (IsLeaf(Chunks(c), k) <=> IsLeaf(Chunks(c)', k)) /\ Record(c, k)' = Record(c, k)
  BY <1>3 DEF IsLeaf, Record
<1> QED
  BY <1>3, <1>8, <1>9, <1>10 DEF Behind

LEMMA WriterKeeps ==
  ASSUME Typed, OnceInv, AloneInv, BehindInv, job' = job, NEW c \in Caller, StoreStep(c),
         NEW d \in alone, d # c, call[d].pc \in {"parents", "record", "done"}
  PROVE  Behind(d)'
<1>1. Behind(d) /\ d \in Caller
  BY DEF BehindInv, Typed
<1>2. c \in Running
  BY DEF StoreStep, ParseChunks, WriteRoot, WriteParents, WriteSection, Running, Started
<1>3. call'[d] = call[d]
  BY <1>1, ParseMoves, RootMoves, ParentsMoves, SectionMoves, CallMoves DEF StoreStep
<1>4. CASE ParseChunks(c)
  BY <1>1, <1>3, <1>4, BehindKept DEF ParseChunks
<1>5. CASE WriteRoot(c)
  <2>1. Below(c, {Root(c)})
    BY DEF Below
  <2>2. points' = With({Root(c)}, Record(c, 0)) /\ published \subseteq published'
    BY <1>5 DEF WriteRoot
  <2> QED
    BY <1>1, <1>2, <1>3, <2>1, <2>2, OthersKeep
<1>6. CASE WriteParents(c)
  <2> DEFINE uris == {Root(c), UriOf(c, ParentOf(c, call[c].next))}
  <2>1. Below(c, uris)
    BY DEF Below, UriOf
  <2>2. points' = With(uris, Directory(c)) /\ published \subseteq published'
    BY <1>6 DEF WriteParents
  <2> HIDE DEF uris
  <2> QED
    BY <1>1, <1>2, <1>3, <2>1, <2>2, OthersKeep
<1>7. CASE WriteSection(c)
  <2> DEFINE uris == {ChunkUri(c, call[c].next)}
  <2>1. Below(c, uris)
    BY DEF Below
  <2>2. points' = With(uris, Record(c, call[c].next)) /\ published \subseteq published'
    BY <1>7 DEF WriteSection
  <2> HIDE DEF uris
  <2> QED
    BY <1>1, <1>2, <1>3, <2>1, <2>2, OthersKeep
<1> QED
  BY <1>4, <1>5, <1>6, <1>7 DEF StoreStep

LEMMA BehindStep ==
  ASSUME Typed, OnceInv, AloneInv, BehindInv, [Next]_vars
  PROVE  BehindInv'
<1> DEFINE Stage == {"parents", "record", "done"}
<1>0. job' = job
  BY JobStays
<1> SUFFICES ASSUME NEW d \in alone', call'[d].pc \in Stage
             PROVE  Behind(d)'
  BY DEF BehindInv
<1>1. ASSUME d \in alone, call'[d] = call[d], points' = points, published' = published
      PROVE  Behind(d)'
  <2>1. Behind(d) /\ d \in Caller
    BY <1>1 DEF BehindInv, Typed
  <2> QED
    BY <1>0, <1>1, <2>1, BehindKept
<1>2. ASSUME NEW u \in Upload, Save(u) \/ SaveFails(u) PROVE Behind(d)'
  BY <1>1, <1>2 DEF Save, SaveFails
<1>3. ASSUME NEW u \in Upload, NEW c \in Caller, Import(c, u) PROVE Behind(d)'
  <2>1. /\ call'[c] = Begun(c, u)
        /\ \A b \in Caller : b # c => call'[b] = call[b]
    BY <1>0, <1>3, ImportMoves, CallMoves
  <2>2. call'[c].pc = "parse"
    BY <2>1 DEF Begun, Typed, CallState
  <2>3. d # c
    BY <2>2
  <2>4. d \in alone /\ points' = points /\ published' = published
    BY <1>3, <2>3 DEF Import
  <2> QED
    BY <1>1, <2>1, <2>3, <2>4 DEF Typed
<1>4. ASSUME NEW u \in Upload, NEW c \in Caller, NotFound(c, u) PROVE Behind(d)'
  <2>1. alone' = alone /\ points' = points /\ published' = published /\ call[c].pc = "idle"
    BY <1>4 DEF NotFound
  <2>2. d # c /\ d \in Caller
    BY <2>1 DEF AloneInv, Typed
  <2>3. call'[d] = call[d]
    BY <1>0, <1>4, <2>2, NotFoundMoves, CallMoves
  <2> QED
    BY <1>1, <2>1, <2>3
<1>5. ASSUME NEW c \in Caller, StoreStep(c) PROVE Behind(d)'
  <2>1. alone' = alone /\ d \in alone /\ d \in Caller
    BY <1>5 DEF StoreStep, ParseChunks, WriteRoot, WriteParents, WriteSection, Typed
  <2>2. CASE d # c
    <3>1. call'[d] = call[d]
      BY <1>0, <1>5, <2>1, <2>2, ParseMoves, RootMoves, ParentsMoves, SectionMoves, CallMoves
         DEF StoreStep
    <3> QED
      BY <1>0, <1>5, <2>1, <2>2, <3>1, WriterKeeps
  <2>3. CASE d = c /\ ParseChunks(c)
    <3>1. call'[c].pc = "root"
      BY <1>0, <2>3, ParseMoves, CallMoves
    <3> QED
      BY <2>3, <3>1
  <2>4. CASE d = c /\ WriteRoot(c)
    BY <1>0, <2>4, RootBehind
  <2>5. CASE d = c /\ WriteParents(c)
    <3>1. Behind(c)
      BY <2>1, <2>5 DEF BehindInv, WriteParents
    <3> QED
      BY <1>0, <2>5, <3>1, ParentsBehind
  <2>6. CASE d = c /\ WriteSection(c)
    <3>1. Behind(c)
      BY <2>1, <2>6 DEF BehindInv, WriteSection
    <3> QED
      BY <1>0, <2>6, <3>1, SectionBehind
  <2> QED
    BY <1>5, <2>2, <2>3, <2>4, <2>5, <2>6 DEF StoreStep
<1>6. ASSUME NEW S \in SUBSET Running, call' = Ended(S),
             UNCHANGED <<upload, points, published, alone>>
      PROVE  Behind(d)'
  <2>1. d \in alone /\ d \in Caller
    BY <1>6 DEF Typed
  <2>2. /\ call'[d].upload = call[d].upload /\ call'[d].chunks = call[d].chunks
        /\ call'[d].next = call[d].next
        /\ call'[d].pc = IF d \in S THEN "failed" ELSE call[d].pc
    BY <1>0, <1>6, <2>1, EndedMoves
  <2>3. Behind(d)
    BY <2>1, <2>2 DEF BehindInv
  <2> QED
    BY <1>0, <1>6, <2>1, <2>2, <2>3, BehindKept
<1>7. ASSUME NEW c \in Caller, Fail(c) PROVE Behind(d)'
  BY <1>6, <1>7 DEF Fail
<1>8. CASE Crash
  BY <1>6, <1>8 DEF Crash
<1>9. CASE UNCHANGED vars
  BY <1>1, <1>9 DEF vars
<1> QED
  BY <1>2, <1>3, <1>4, <1>5, <1>7, <1>8, <1>9 DEF Next

\* An import that answers, with no other of its path beside it or after it, left its
\* record of each leaf, a point at each parent and an event of each section, although
\* its directories are written over its own records and other imports over theirs.
THEOREM ImportCompleteAlways == Spec => []ImportComplete
<1> DEFINE I == AloneInv /\ BehindInv
<1>1. Init => I
  BY DEF Init, AloneInv, BehindInv
<1>2. Basic /\ I /\ [Next]_vars => I'
  BY AloneStep, BehindStep DEF Basic
<1>3. Basic /\ I => ImportComplete
  <2> SUFFICES ASSUME Basic, I, NEW c \in alone, call[c].pc = "done"
               PROVE  /\ \A k \in DOMAIN Chunks(c) :
                           /\ IsLeaf(Chunks(c), k) => points[ChunkUri(c, k)] = Record(c, k)
                           /\ UriOf(c, ParentOf(c, k)) \in DOMAIN points
                      /\ {c} \X (0 .. Len(Chunks(c))) \subseteq published
    BY DEF ImportComplete
  <2>1. Behind(c) /\ Typed /\ c \in Caller
    BY DEF BehindInv, Basic, Typed
  <2>2. Numbered(Chunks(c)) /\ call[c].next = Len(Chunks(c)) + 1
    <3>1. call[c] \in CallState /\ Placed(call[c]) /\ job \in Jobs
      BY <2>1 DEF Typed
    <3>2. Chunks(c) \in Lists
      BY <3>1 DEF CallState, Chunks
    <3>3. call[c].next = Len(Chunks(c)) + 1
      BY <3>1 DEF Placed, Chunks
    <3> QED
      BY <3>1, <3>2, <3>3, ListsNumbered
  <2>3. \A k \in DOMAIN Chunks(c) : k < call[c].next
    BY <2>2 DEF Numbered
  <2>4. \A k \in DOMAIN Chunks(c) :
           /\ ChunkUri(c, k) \in DOMAIN points /\ <<c, k>> \in published
           /\ IsLeaf(Chunks(c), k) => points[ChunkUri(c, k)] = Record(c, k)
    BY <2>1, <2>3 DEF Behind
  <2>5. ASSUME NEW k \in 0 .. Len(Chunks(c))
        PROVE  UriOf(c, k) \in DOMAIN points /\ <<c, k>> \in published
    <3>1. CASE k = 0
      BY <3>1, <2>1 DEF Behind, UriOf
    <3>2. CASE k # 0
      <4>1. k \in DOMAIN Chunks(c)
        BY <2>2, <3>2 DEF Numbered
      <4> QED
        BY <2>4, <3>2, <4>1 DEF UriOf
    <3> QED
      BY <3>1, <3>2
  <2>6. \A k \in DOMAIN Chunks(c) : ParentOf(c, k) \in 0 .. Len(Chunks(c))
    BY <2>2 DEF Numbered, ParentOf
  <2>7. \A k \in DOMAIN Chunks(c) : UriOf(c, ParentOf(c, k)) \in DOMAIN points
    BY <2>5, <2>6
  <2>8. {c} \X (0 .. Len(Chunks(c))) \subseteq published
    BY <2>5
  <2> QED
    BY <2>4, <2>7, <2>8
<1> HIDE DEF I
<1> QED
  BY <1>1, <1>2, <1>3, BasicAlways, PTL DEF Spec

===============================================================================
