-------------------------------- MODULE Imports --------------------------------
(***************************************************************************)
(* Documents on their way into the store: temporary uploads, the import    *)
(* that consumes one, and ResourceStore.store, which parses the document,  *)
(* writes its root and then its sections one after the other, publishing   *)
(* an event for each.  Calls interleave at every await, fail at any of     *)
(* them, and the process may crash.                                        *)
(*                                                                         *)
(* An import of a document whose path was imported before writes over it:  *)
(* roots with the same path have the same URI, <<path>>.  What the worker  *)
(* makes of the events is left to RecordStore, and the sections that a     *)
(* text is parsed into are a parameter: MarkdownImports takes DocumentTree *)
(* for it.                                                                 *)
(*                                                                         *)
(* An operator with a suffix after the name of another is a wrong variant  *)
(* of it that no action uses.                                              *)
(***************************************************************************)
EXTENDS Integers, Sequences, FiniteSets

CONSTANTS SectionsOf(_), \* the sections of a text, [title, text, parent]; 0 is the root
          Jobs,     \* sequences of documents that clients upload, [path, text]
          Caller,   \* calls of the import route
          MaxFaults \* bound: calls that fail, crashes

ASSUME ImportsAssumption ==
  /\ \A docs \in Jobs : \A u \in DOMAIN docs : docs[u].text # <<>>
  /\ MaxFaults \in Nat

\* Sections are counted from 1 and are below the root or one another.
Numbered(chunks) == /\ Len(chunks) \in Nat /\ DOMAIN chunks = 1 .. Len(chunks)
                    /\ \A k \in DOMAIN chunks : chunks[k].parent \in 0 .. Len(chunks)

ASSUME SectionsAssumption ==
  \A docs \in Jobs : \A u \in DOMAIN docs : Numbered(SectionsOf(docs[u].text))

VARIABLES job,
          upload,    \* files of each upload: "none", "content" without meta, "whole", "gone"
          call,      \* the import calls
          points,    \* what the collection has at each URI
          published, \* events: caller and section, 0 for the root
          alone,     \* callers that found no other call of their path running, and that
                     \* no later one followed (history)
          faults

vars == <<job, upload, call, points, published, alone, faults>>

Upload == DOMAIN job

Document(c) == job[call[c].upload]
Chunks(c)   == call[c].chunks
Root(c)     == <<Document(c).path>>

ChunkUriByTitle(c, k) == Root(c) \o <<Chunks(c)[k].title>>

\* chunk_uris: the index in front makes the names differ.
ChunkUri(c, k) == Root(c) \o <<k, Chunks(c)[k].title>>

\* The URI of a section, 0 being the root.
UriOf(c, k) == IF k = 0 THEN Root(c) ELSE ChunkUri(c, k)

ParentOf(c, k) == Chunks(c)[k].parent

IsLeaf(chunks, k) == \A j \in DOMAIN chunks : chunks[j].parent # k

Started == {"parse", "root", "parents", "record"}

Running == {c \in Caller : call[c].pc \in Started}

-------------------------------------------------------------------------------
(* Uploads *)

\* TempUploadStore.save: the content, then the meta file.
Save(u) == /\ upload[u] = "none"
           /\ upload' = [upload EXCEPT ![u] = "whole"]
           /\ UNCHANGED <<job, call, points, published, alone, faults>>

\* The meta file is not written: the disk is full or the process crashes.
SaveFails(u) == /\ upload[u] = "none" /\ faults < MaxFaults
                /\ upload' = [upload EXCEPT ![u] = "content"]
                /\ faults' = faults + 1
                /\ UNCHANGED <<job, call, points, published, alone>>

ConsumedKept(u) == upload

\* consume: the upload is read and removed, before anything is stored.
Consumed(u) == [upload EXCEPT ![u] = "gone"]

\* resource_import.  Without its meta file an upload is not found.
Import(c, u) ==
  /\ call[c].pc = "idle"
  /\ upload[u] = "whole"
  /\ upload' = Consumed(u)
  /\ call' = [call EXCEPT ![c] = [@ EXCEPT !.pc = "parse", !.upload = u]]
  /\ LET same == {b \in Running : Root(b) = <<job[u].path>>}
     IN  alone' = {b \in alone : Root(b) # <<job[u].path>>} \cup (IF same = {} THEN {c} ELSE {})
  /\ UNCHANGED <<job, points, published, faults>>

NotFound(c, u) == /\ call[c].pc = "idle"
                  /\ upload[u] # "whole"
                  /\ call' = [call EXCEPT ![c] = [@ EXCEPT !.pc = "refused", !.upload = u]]
                  /\ UNCHANGED <<job, upload, points, published, alone, faults>>

-------------------------------------------------------------------------------
(* ResourceStore.store *)

ParseChunks(c) == /\ call[c].pc = "parse"
                  /\ call' = [call EXCEPT ![c] = [@ EXCEPT !.pc = "root",
                                                           !.chunks = SectionsOf(Document(c).text)]]
                  /\ UNCHANGED <<job, upload, points, published, alone, faults>>

GoOn(c, k, last) == [call EXCEPT ![c] = [@ EXCEPT !.pc = IF last THEN "done" ELSE "parents",
                                                  !.next = k + 1]]

ContinuedPastEnd(c, k) == GoOn(c, k, k > Len(Chunks(c)))

\* The call continues with the section after the k-th, if there is one.
Continued(c, k) == GoOn(c, k, k = Len(Chunks(c)))

Record(c, k) == [kind |-> "record", by |-> c, section |-> k]

Directory(c) == [kind |-> "directory", by |-> c, section |-> 0]

With(uris, point) == [u \in DOMAIN points \cup uris |-> IF u \in uris THEN point ELSE points[u]]

WriteRoot(c) ==
  /\ call[c].pc = "root"
  /\ points' = With({Root(c)}, Record(c, 0))
  /\ published' = published \cup {<<c, 0>>}
  /\ call' = Continued(c, 0)
  /\ UNCHANGED <<job, upload, alone, faults>>

\* ensure_parent_records: the parent and all above it become directories, whatever
\* record is there.
WriteParents(c) ==
  /\ call[c].pc = "parents"
  /\ points' = With({Root(c), UriOf(c, ParentOf(c, call[c].next))}, Directory(c))
  /\ call' = [call EXCEPT ![c].pc = "record"]
  /\ UNCHANGED <<job, upload, published, alone, faults>>

\* One round of write_children: the section's record is written and published.
WriteSection(c) ==
  LET k == call[c].next
  IN  /\ call[c].pc = "record"
      /\ points' = With({ChunkUri(c, k)}, Record(c, k))
      /\ published' = published \cup {<<c, k>>}
      /\ call' = Continued(c, k)
      /\ UNCHANGED <<job, upload, alone, faults>>

-------------------------------------------------------------------------------
(* Failures *)

\* What these calls wrote so far stays.
Ended(callers) == [c \in Caller |-> IF c \in callers THEN [call[c] EXCEPT !.pc = "failed"] ELSE call[c]]

\* The parser, the collection or the file system raises.
Fail(c) == /\ c \in Running /\ faults < MaxFaults
           /\ call' = Ended({c})
           /\ faults' = faults + 1
           /\ UNCHANGED <<job, upload, points, published, alone>>

\* The process ends and is started again; with a single call running that is Fail.
Crash == /\ Cardinality(Running) > 1 /\ faults < MaxFaults
         /\ call' = Ended(Running)
         /\ faults' = faults + 1
         /\ UNCHANGED <<job, upload, points, published, alone>>

-------------------------------------------------------------------------------
Init == /\ job \in Jobs
        /\ upload = [u \in Upload |-> "none"]
        /\ call = [c \in Caller |-> [pc |-> "idle", upload |-> 0, chunks |-> <<>>, next |-> 0]]
        /\ points = <<>> /\ published = {} /\ alone = {} /\ faults = 0

StoreStep(c) == ParseChunks(c) \/ WriteRoot(c) \/ WriteParents(c) \/ WriteSection(c)

Next == \/ \E u \in Upload : Save(u) \/ SaveFails(u) \/ \E c \in Caller : Import(c, u) \/ NotFound(c, u)
        \/ \E c \in Caller : StoreStep(c) \/ Fail(c)
        \/ Crash

Spec == Init /\ [][Next]_vars

-------------------------------------------------------------------------------
TypeOK ==
  /\ upload \in [Upload -> {"none", "content", "whole", "gone"}]
  /\ \A c \in Caller : /\ call[c].pc \in Started \cup {"idle", "refused", "done", "failed"}
                       /\ call[c].upload \in Upload \cup {0}
                       /\ call[c].next \in 0 .. Len(Chunks(c)) + 1
                       /\ Numbered(Chunks(c))
                       /\ call[c].pc \in {"parents", "record"} => call[c].next \in DOMAIN Chunks(c)
  /\ \A u \in DOMAIN points : points[u].kind \in {"record", "directory"} /\ points[u].by \in Caller
  /\ published \subseteq Caller \X Nat
  /\ alone \subseteq Caller /\ faults \in 0 .. MaxFaults

\* TempUploadStore.consume: an upload is imported once, however often it is asked for.
ImportedOnce ==
  \A b, c \in Caller : /\ b # c
                       /\ {call[b].pc, call[c].pc} \cap {"idle", "refused"} = {}
                       => call[b].upload # call[c].upload

\* ResourceStore.store: an import that answers, with no other of the same path beside it
\* or after it, left its record of each leaf, a point at each parent, and an event of each.
ImportComplete ==
  \A c \in alone :
    call[c].pc = "done"
    => /\ \A k \in DOMAIN Chunks(c) :
            /\ IsLeaf(Chunks(c), k) => points[ChunkUri(c, k)] = Record(c, k)
            /\ UriOf(c, ParentOf(c, k)) \in DOMAIN points
       /\ {c} \X (0 .. Len(Chunks(c))) \subseteq published
===============================================================================
