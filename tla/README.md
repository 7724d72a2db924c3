# OpenCortex in TLA+

OpenCortex is a memory server for agents: one asyncio process (FastAPI) that
stores memories, imported documents and conversations in a vector store (Qdrant)
and a file store (CortexStorage), completes them in the background with
LLM-derived fields and index entries, and answers recall queries. This directory
models the parts of it in which time, failure and interleaving decide whether
data is kept, written once and findable, checks them with TLC and proves what
they promise of the queue, the workers, sessions, records and imports with
TLAPS, for every value of the constants.

Source paths below are relative to `src/opencortex/` of the repository.

## How to run

    tlc -config MCCFSQueue.cfg MCCFSQueue          # likewise the other MC modules
    tlapm CFSQueueProofs.tla                       # likewise the other *Proofs modules

`PROJECT.json` lists the components, runs, hazards, findings and theorems, and
maps every definition to the lines it stands for. Definitions with a suffix
after the name of another one (`RecoverRowAnyAge` beside `RecoverRow`) are
plausible wrong versions of it; no action uses them. Each property of a passing
run fails when the definition is replaced by such a variant.

## Inventory

How the parts interact:

    HTTP / MCP ─► store calls ──upsert──► vector store ◄──filter, search── recall
                    │  session calls          ▲   ▲                         │
                    │     │  buffer, lock     │   └──── forget ──► files ◄───┘
                    │     ▼                   │                      ▲
                    └─► publish task ─► queue (SQLite) ─► workers ───┘
                                         ▲   claim, ack, fail │
                                         └── redelivery ──────┘

| Component | State | Operations | What is hard | What makes it correct |
|---|---|---|---|---|
| Persistent queue `storage/cfs_queue.py` | table `queue_messages` | enqueue, dequeue (recover, then claim), ack, release, fail, recover_stale, requeue_failed, clear | nothing names the owner of a claim; stale rows are taken back by age; crashes; attempts given back by release | a message is delivered until it is done or failed, to one consumer at a time, within its budget; a done message stays done |
| Events and workers `store/event/` | publish tasks, worker tasks, locks of ordering keys | publish, dispatch, process, handle, close, wait_idle | SQLite calls run in threads between two steps of the loop; errors outside the handler; handlers that publish | every queued event settles; the workers are consumers the queue's promises hold of; wait_idle covers what was published |
| Progress tracking `store/event/wait.py`, `store/routes.py` | one wait state per request | register, mark, wait, status | marks trail the table; time budget against late answers | the answer `ready` is true, and there is an answer |
| Session buffer `store/session/buffer.py` | messages, frozen chunks and lock per session | append, freeze, pop, drop, prune | cutting at the token budget; locks replaced while calls wait | chunks bounded, no message lost or in two chunks |
| Sessions `store/session/` | immediate, merged and final records | message, merge, end | awaits inside turns; merges in the worker beside turns and ends; failures between pop and write | changes of a session are serial, messages are merged once, nothing is removed before it is merged |
| Records `store/store.py`, `store/document_tree.py`, `store/writer/primary_record_writer.py` | primary points and directory points | memory, resource, document tree | directories of ancestors share the identity of records; several upserts per call | a stored record stays, with its own content |
| Derivation and projections `store/writer/*` | derived points, anchors, facts, entities, reason trees, files | one action each per event | retried whole; each run of the model answers differently; later actions run after failures | what is acknowledged comes from one derivation |
| Forgetting `store/forget.py` | – | check, scan, delete, remove files | beside the worker; several steps | what was forgotten stays gone |
| Recall `vector/retrieval/*` | – | probe, plan, select, execute, rank, expand, rerank, load, compose | every phase reads the collection anew beside its writers; surfaces that time out; hits of several kinds for one record, normalised over a pool | one answer per record, the record itself, as many as were found up to the limit; no record behind one that is found in fewer places and scores less; time orders and ranges kept |
| Vector store, file store, namespace | points; files | upsert, filter, remove; write_context, rm; URIs | identity by URI; scan then delete | part of the components above |
| API tokens `auth/token.py` | token file, cache | issue, register, revoke | the server and the command line change the file | a revoked token is refused, an issued one is kept |
| Markdown parser `parse/parsers/markdown.py` and its adapter | – | parse into chunks with parent indexes | small sections merged, large ones split, directories with text of their own; an index 0 that is falsy | the leaves read as the document, each below its section and as large as the parser counts a section may be |
| Uploads and imports `store/upload.py`, `store/store.py` | files | save, consume, store the root and the sections | consumed before its import is stored; imports of one path beside each other; failures in the middle | an upload is imported once, and an import that answers is whole |

## Modules

| Module | Models |
|---|---|
| `QueueTable` | one row of the table and every statement that changes it, as functions on rows |
| `LeaseQueue` | the abstract queue: what a lease-based queue promises |
| `CFSQueue` | the table with its consumers; implements `LeaseQueue` as long as no lease lapses |
| `EventWorker` | publishing, worker tasks, tracking, requests, wait_idle, crashes and restarts; its worker tasks are consumers of `CFSQueue` (refinement `QueueSpec`) |
| `SessionBuffer` | the buffer of a session and its operations as functions |
| `SessionFlow` | turns, merges, ends, cleanup and pruning of one session on top of it |
| `RecordStore` | store calls, the worker's actions on one event, and forget, on one vector collection and file store |
| `Imports` | uploads and the imports that consume them, whatever sections a text is parsed into |
| `DocumentTree` | the markdown parser, its adapter and the tree of sections, as functions on documents |
| `MarkdownImports` | the two together, and what the sections say of their document |
| `RecallPlan` | the planner of recall: what the probe's evidence and the query decide |
| `Recall` | one recall, phase by phase, beside the changes of the collection |
| `MC*` | constants of the TLC instances |
| `CFSQueueProofs`, `LeaseQueueProofs`, `EventWorkerProofs`, `SessionBufferProofs`, `SessionFlowProofs`, `RecordStoreProofs`, `ImportsProofs`, `RecallProofs` | theorems about the module they are named after |

Everything but SQLite and file calls runs on one event loop, so an action is
what a task does between two awaits. SQLite calls run in threads: each
transaction is one action, and the task that asked for it resumes in a later
one.

**QueueTable, CFSQueue.** Clock columns are relative: `wait` counts down to
`available_at`, `held` up from `processing_started_at`. `dequeue` is two
transactions, hence `DequeueRecover` and `DequeueClaim`; `fail` reads the
attempts in one statement, which gives its verdict, and carries it out in a
later transaction, which finds whatever row there is by then. A consumer is what
`EventWorker.process` makes of it: it settles its message once, or disappears
(`Abandon`). `Tick` lets time pass; `lapses` counts the ticks on which a live
consumer outlived its lease, which the code permits and which ends the promises
of `LeaseQueue`.

**EventWorker.** `pub` follows an event from `publish_nowait` to the table, `pc`
a worker task through `run` and `process`, `phase` a waiting request. The
database write of a settlement and the mark of the tracker are two actions, as
in the code. `Exit` is the end of `close`: it gathers the workers, and the error
of one that died ends it at once, with the others still at work; they go with
the process. A worker takes a key only when no other holds it (`KeyLocked` is
the code's lock, and the test and the acquisition have no await between them),
which makes handlers of a key exclude each other by the shape of the code.
Nothing keeps their order: a released or retried event is overtaken by later
ones. Handlers are opaque here: they end well, with a transient or with a
permanent failure, and may publish.

**SessionFlow.** One session; its lock is an entry of a dictionary (`lock`) that
`drop` removes while others hold or await the lock object (`mine`). `AskLock`
includes the pruning that `SessionBuffer.lock` does on the way. `Enter` takes
the message's index (`index`) and `StoreMessage` is what comes after the awaited
write of the immediate record under it; `indices` remembers the index each
record was written with. The worker takes the events of the session in any
order, since retried and released events are overtaken. A message is one
occurrence: `MessageAssumption` lets no two turns, and no turn twice, send the
same one.

**RecordStore.** A point is its URI and an upsert replaces it. Payloads are
abstracted to their origin: raw from a store call, or derived from it by one run
of the model, whose answers differ. `WriteDirectory` is one upsert of
`ensure_parent_records`; directories above the outermost record are left out.
The worker's actions run in the order of `build_event_worker`, each one step,
whatever failed before; without a derivation the others return without effect. A
request may be carried out and still be reported as failed (`Advance`).
Forgetting is the test, the scan (its pages taken as one), the deletion of the
ids found and the removal of the files. `payload_matches_uri` compares prefixes
of a point's URI, its source and its parent (`PointMatches`, `EntryMatches`).
Whether an event gets lost before it is queued is `EventWorker`'s subject; here
it is queued when published. Events of one URI exclude each other: they share an
ordering key, and `Start` asks for it as `EventWorker`'s `Process` does. `Path`
has the ancestors of a URI that are records, by prefix, and `Parent` the
`parent_uri` of its payload, and the two need not agree: the writer puts the URI
of every section directly under the root (`chunk_uris`) and names the parent
section in the payload, so the ancestor directories and the files of a section
below a section do not pass through its parent, while the leaves and the reach
of a forget request partly do. Forgetting such a parent takes the child's point,
by `parent_uri`, and leaves its files, anchors and facts. `PathAssumption` asks
no more than that a path ends in its URI. `DocumentAssumption` says that an
ancestor which is a record belongs to the same document and was written before
what is below it: `CortexNamespace.resolve` (`storage/namespace.py:19-32`) puts
records under plain directories, and the writer of sections
(`store/document_tree.py:164-203`) writes a section after its parent, all of
them directly under the root.

**DocumentTree, Imports, MarkdownImports.** A document is a sequence of
paragraphs, each of so many characters of one rate (CJK or not) and, for
headings, with a level. `Tokens` is `estimate_tokens`: tenths of a token for
each character, truncated, so that sums of paragraphs or sections hide what
truncation drops of each and the blank lines between them; how headings are
recognised in text is left out. `Processed` is `_process_sections_to_chunks`
with its recursion through directories, `SmartSplit` the splitting of long text,
whose parts are pieces `<<i, n>>` of a paragraph, of `PartSize` characters each
but the last. Chunks are numbered from 1 and the root is 0 (from 0 and -1 in the
code), so that `FromParsed` shows what a test for truth makes of index 0.
`Imports` takes the parser as a parameter, `SectionsOf`, of which
`SectionsAssumption` asks no more than sections numbered from 1, each below the
root or another; in the run it is `Sections` of `DocumentTree`. An upload is two
files, content and meta. `Import` consumes it before anything is parsed;
`WriteParents` is one call of `ensure_parent_records`, and every record has a
step of its own. A call may fail at any await, and a crash ends all of them.
What the worker makes of the events is `RecordStore`'s subject. Text stored
without an upload takes the same way from `ParseChunks` on.

**RecallPlan, Recall.** The collection is a set of points of a catalogue, whose
entries have a score for every vector of the query: embedding and matching are
these numbers, in hundredths, and the weights and bonuses are the code's.
`Fused` keeps scores exact by leaving them over their common denominator,
`Unit`. What the code sorts, filters, joins and makes unique is given in closed
form: a sorted sequence is the finite set of its positions `Arranged` by an
order (`StableSort`, `Ascending`), a filtered one is `At` some positions,
`Joined` ones are the pairs of a sequence and a position in lexical order.
Recursion and folds would compute the same, but nothing could be proved of them.
`RecallAssumption` asks of the catalogue what the writers guarantee: one point
for each URI (the writers give a point its URI for its id), a record behind
every point, and neighbours with nodes of the reason tree only, the one payload
that has the field (`vector/payloads/reason_tree.py`); scores may be of any
sign. Of a query it asks what the request validates (a limit of 1 to 50) and
what the classifier returns: only temporal queries have an order or a range.
Each phase (`Probe`, `Select`, `Search`, `SeedRerank`, `Expand`, `FinalRerank`,
`Load`, `Compose`) sends its requests together and awaits all of them, so it
reads one state; between phases records are stored, derived, projected or
forgotten. Surface searches may time out (`late`). What the models choose, tree
nodes in an order and the order of a rerank, is any choice. A derived record
that is no leaf is on no surface, and the relation tables that the cone reads
beside the payloads are never written. The classification of queries and their
splitting are inputs; the hydration from files, snippets and levels of detail
come after the answers are decided and are left out.

## Runs

| Run | Shows |
|---|---|
| `queue` | two consumers, two messages, one lapse, one abandoned claim per message and one operator pass: attempts, holders and retries stay in step, done messages stay done, and the promises of `LeaseQueue` hold up to the lapse |
| `worker_requests` | two workers and a waiting request with two events, one fault: tracker and table agree (`TrackerExact`), `ready` is true (`ReadyMeansIndexed`), every event settles, the client is answered |
| `worker_handlers` | a handler that publishes, one fault, and a caller of `wait_idle` or a handler that outlives its lease: workers are consumers as `CFSQueue` describes them (`QueueSpec`), and `wait_idle` covers what was published before it was called |
| `session_merge` | three turns without failures: no message is forgotten, frozen chunks get merged |
| `session_safety` | turns and an end with two failures and an idle period: single merging, bounds, ranges, the index each message is written with (`IndexesExact`), no early removal; an end covers every merged record that was derived and every message frozen or pending (`EndCoversSession`) |
| `session_lost_chunk` (violation) | a failed write of a merged record loses the chunk that was popped before |
| `session_overlap` (violation) | an end drops the lock a turn waits for; two calls run inside |
| `imports` | every document of up to six paragraphs parsed, four where some are CJK: its leaves read as the document, keep to the bound the code has (`LeavesFit`), and hang below their sections; two uploads and two calls, of one path or two, with a fault: single import, whole trees |
| `recall` | four kinds of queries over three records with their projections, one surface timing out, one change of the collection: what the answers are, how many and in which order |
| `recall_trees` (violation) | no search finds a reason-tree node, since the filter asks for a tenant that the nodes' writers leave empty |
| `records` | a document stored and its root stored again, as resources or as final session records, with one fault, or a document with a section below its section, their URIs side by side; with a forget: what is settled comes from one derivation; what was forgotten at rest stays gone |
| `records_root` (violation) | writing sections replaces the derived root of the document by a directory |

**Bounds.** Two consumers or workers are enough for every race on a row or a
key, since rows and keys are independent and a race is between a claim and one
other actor; two messages give the order of `dequeue` and a key shared by two
events. `MaxAttempts = 2` has one retry and one exhaustion; `StaleAfter = 1`
separates fresh from stale. Faults, lapses, abandoned claims and passes are
bounded by one (two in `session_safety`, none where no failure is asked about),
counted in the state and named in every guard: one fault anywhere already meets
every state of the other actors. Sessions have three or four messages and a
budget of two weights, so that a chunk is cut inside a turn, at its end, and
around a message that is too large by itself. `records` has the two shapes a
record takes (with and without sections below it), two calls on the same URI,
one forget request and one fault; the session variant and the resource variant
differ in when the root is published, and both are initial states. A third
document adds the case these shapes leave out, a parent that is no prefix; the
constraint `NestedAlone` keeps it from running beside the other calls or a
fault, where only the theorems cover it. In `worker_handlers` the constraint
`IdleOrLapse` keeps `wait_idle` and a lapse apart, since after a lapse
`WaitIdleCovers` claims nothing. `imports` takes three levels of headings (a
level is compared with its own, the one below and others), paragraphs that fit a
section and that do not, and six of them (four with CJK paragraphs, which matter
where one is cut or joined with a neighbour): enough for a directory with text
of its own, a group of small sections before and after it, and a split; its
sizes are in the order of the settings (minimum, maximum, small document).
`recall` has a final session record, which is on no surface but has a tree node,
a merged record with an anchor, to which the node points, and a memory with an
entity, a fact and a node; one change between any two phases separates each
phase from the ones before. `TopK` and the other limits are the code's;
`SeedLimit` and `FinalLimit`, which are settings, are small so that a rerank
leaves hits out. Deadlock is not checked in the runs of calls that come to an
end (`SessionFlow`, `RecordStore`, `Imports`, `Recall`).

**Fairness.** `EventWorker` assumes weak fairness of the worker tasks, publish
tasks, requests and the clock: asyncio runs ready tasks in turn, threads finish
their statement, and the loops have no condition but `_stop`. A process that is
down is started again. Nothing is assumed of faults, of clients making calls, or
of workers that died. `SessionFlow` assumes the same of the worker and of calls
that were made.

## Proofs

Every theorem is a statement about `Spec`, for all sets of messages, callers,
consumers, documents and all bounds that satisfy the assumptions named in the
modules. Each rests on an inductive invariant, usually more than the property:
the comments of the invariants say what each part is for.

**CFSQueueProofs** proves, from `TableAssumption`, `QueueAssumption` and
`OwnerAssumption`, and from `RowOpsTyped` (every statement maps a row to a row),
which the proofs about the workers take over through their instance `QP`:

* `TypeCorrect`, directly inductive over the row functions;
* `AttemptsAccountedAlways`: `attempts <= requeues + 1` holds of a row through
  every statement, whoever issues it, so no invariant about consumers is needed;
* `HoldersBoundedAlways`: by itself the bound on holders is not inductive, as a
  claim adds a holder. `HoldersInv` says that a row which can be claimed has
  room for one more; counting the holders needs that a step changes the claim of
  one consumer (`HolderLeaves`, `HolderEnters`);
* `ExclusiveWithoutLapseAlways`: `recover_stale` looks at the age of a row only.
  `LeaseInv` adds that a held row is younger than the limit, so that without a
  lapse only abandoned rows are recovered;
* `RetryBudgetAlways`: `RetryInv` adds that a pending or abandoned row has a
  delivery left, which a claim uses up and a release gives back;
* `LeasePromisesKept`, `LeaseImplemented`: under `LeaseInv` the owner of a
  message is its only holder (`OwnerFacts`), and every step of the table maps to
  a step of `LeaseQueue` or to a stutter (`LeaseStepSimulated`), up to the first
  lapse, or for ever if leases never lapse;
* `DoneIsFinalUntilLapse`: `ack` is the last settlement of a message, for the
  same reason.

**LeaseQueueProofs** proves that owners are exclusive and completion is final in
the abstract queue.

**EventWorkerProofs**, from `WorkerAssumption` and the assumptions on rows:

* `TypeCorrect`;
* `QueueImplemented`: the table with the claims of the worker tasks (`Claim`:
  what a task has in hand until it has settled it) behaves as `CFSQueue` with
  its consumers. `PublishInv` says that an event has a row from its dispatch on
  and in the order of publication; `OrphanInv` that a fault leaves one claim of
  each worker behind at most;
* `RetriesBoundedAlways`: the invariants of `CFSQueueProofs` hold of the workers
  through that refinement (`QP` is the instance), and the orphans of a message
  are bounded by the faults and the number of workers;
* `TrackerExactAlways`: the mark of the tracker comes a step after the row was
  settled. `MarkInv` says what is between: how the row whose mark is on its way
  was settled, that it can be neither claimed nor recovered meanwhile, and that
  a worker's snapshot of the attempts is right; `LifeInv` what a process knows
  of its requests. `Counted` is then a count over rows and marks to come, kept
  by each action. It holds until a lease lapses;
* `ReadyMeansIndexedAlways`: from the same invariants, at the step that answers;
* `WaitIdleCoversAlways`: `IdleInv` says what a call of `wait_idle` has
  established at each of its steps: first that no publish task is left of what
  was published before it, then that the rows are settled.

**RecordStoreProofs**, from `PathAssumption` and `DocumentAssumption`:

* `Basic` is the foundation: types, `PublishedInv` (an event was published
  exactly when the call is past its section), `TriesInv` (deliveries),
  `ReasonOnce` (one tree node of a record), `ForgetInv` and `SweptInv` (what a
  forget request may delete). `TypeCorrect` follows;
* `QuietForgetIsFinalAlways`: `QuietInv` says that nothing queued, running or
  being written mentions a URI that was forgotten at rest. A step that concerns
  another URI leaves it alone (`RestKept`), whatever call, worker or forget
  request it belongs to;
* `SettledFromOneDerivationAlways`: events of a URI exclude each other
  (`ExclusiveEvents`); the last event of a record, if nothing failed, has left
  the effect of every action before the one it is at (`ProgressInv`), and so all
  of them when it is done (`HandledInv`). The final record of a session is
  written long before its event is published; meanwhile it is `Owed`, and
  neither invariant speaks of it. Neither theorem asks that a path extends the
  parent's, so both hold of documents with sections below sections as the writer
  lays them out. The directory that replaces a root (`records_root`) is the
  exception `KeepsPoint` states.

**SessionBufferProofs** proves of the recursive functions of the buffer, by
induction over a set of numbers (`SetInduction`, from the library's well-founded
induction; `Iteration` for functions that call themselves on `n - 1`), that
freezing a buffer (`FreezeChunksRefreezes`) keeps every message, in order and at
its index, that chunks are within the budget or one message, and that freezing
by force leaves nothing unfrozen.

**SessionFlowProofs**, from `MessageAssumption` and the other assumptions of
`SessionFlow`:

* `TypeCorrect`, with `Basic`: who has a chunk or an event in hand and where;
* to the messages, every step does a few things in a row: it stores one, drops
  all or writes a record, or none of these; it may freeze some; and it may take
  a chunk out of the buffer (`ContentStep`). `ContentInv` is kept by each: no
  message is in two places (`Apart`), chunks hold messages that were stored
  (`Within`) and are small enough (`Small`). `MergedOnceAlways` and
  `ChunksBoundedAlways` follow;
* `RangesExactAlways`: until the buffer is dropped, the next index is the number
  of messages stored (`RangeInv`), and a message in the buffer, in hand or in a
  record is at its place in the session (`NumberedInv`);
* `IndexesExactAlways`: who is between `next_msg_index` and `append` has the
  lock (`IndexInv`), so the next index is still the one it took; by `RangeInv`
  that is the message's place in the session;
* `ImmediateUntilMergedAlways`: the chunk of a cleanup event has a record
  (`EventsMerged`), and a record is overwritten only by one of the same range
  (`SameRange`), which has the same messages (`MessagesStay`);
* `SerialUntilDropped`: as long as the lock's entry stays, all calls have or
  await the same lock (`LockInv`, `SerialInv`): the overlap that
  `session_overlap` finds needs a drop;
* `NothingForgottenUntilDropped`, `NothingForgottenAlways`,
  `EndCoversSessionAlways`: until something fails or is dropped, a stored
  message is in the buffer, in hand or merged (`KeptInv`), and an end that reads
  the merged records has emptied the buffer before (`EndInv`): the loss that
  `session_lost_chunk` finds needs a failure.

**ImportsProofs**, from `ImportsAssumption` and `SectionsAssumption`:

* `TypeCorrect` and `ImportedOnceAlways`: a call that began has removed its
  upload (`OnceInv`), so no other finds it;
* `ImportCompleteAlways`: `AloneInv` says that no call beside one that is alone
  writes below its root, `BehindInv` that the sections behind it have a point
  and an event, and those that are leaves its own record. Its directories are
  written over its records again and again (`ParentsBehind`), but never over a
  leaf, and URIs of different sections and paths differ (`UrisDiffer`).

**RecallProofs**, from `RecallAssumption`, for every catalogue, set of queries,
rerank settings and number of timeouts and changes:

* The operators first. `ArrangedLists`: a total order of a finite set lists each
  element once, in order; it is proved from cardinalities, one more element
  making one more place. `AtPicks`, `UniqueIs`, `JoinedIn`, `ByScoreSorts`,
  `SortedIs` and `RankIs` follow, each saying what a caller of the sort, filter
  or ranking needs of it;
* `RecallTyped`: `Shape`, every phase maps what it reads to what it writes;
* `AnswersFillLimitAlways`: `EnoughRanked` says, phase by phase, how many ranked
  records there are: all that were found, or the budget of the phase, and no
  later budget is above an earlier one; `FusedAllOnce` counts the records that
  the collapsed hits stand for;
* `DominantFirstAlways`: `DominantScoresMore` is the arithmetic: weights are
  positive and the pool has one denominator, so a better hit on every surface
  stays better, and whoever is found on more surfaces and is near gets at least
  the other's bonuses;
* `TimeOrderedAlways`: `OrderKept` holds from the first ranking on, as the cone
  ranks anew and a rerank either is recorded or leaves the order; a ranking
  compares two numbers, time and score, and `LexicalSorts` shows what such a
  sort returns is in the order of the first. That order is of the points records
  were found by; the answers have it too where both show the time they were
  ranked by;
* `RangeKeptAlways`: `RawInRange`, hits of the searches are in range, the rest
  are nodes or, by `NeighborsLinked`, records that nodes point to;
* `AnswersArePrimaryAlways`: `RawInIndex` says that in a calm recall every hit
  is a point of the collection, whose record, if the collection holds it, is the
  only point of its URI; ranked sources never repeat.

The attempt to prove `AnswersFillLimit` showed its first form wrong: it allowed
a rerank to take as many candidates as its setting says, but the code takes at
most thirty (`rerank_limit`), which the settings of the run are too small to
show. The property now speaks of `RerankLimit`.

Model-checked only: liveness (`EventuallySettled`, `EventuallyAnswered`,
`FrozenGetsMerged`) and everything that rests on `ENABLED`, which the prover
cannot do; and what `DocumentTree` computes (`ReadsAsDocument`, `LeavesFit`,
`TreeFollowsSections`), which is recursive and would need induction over
documents.

## What the models show of the code

Four disagreements with what the repository says of itself are runs of their own
(see *Runs*), with the quoted lines in `PROJECT.json`: a failed write that loses
a frozen chunk, a lock that is dropped while calls wait for it, a document root
that becomes a directory, and reason-tree nodes that no search finds. Limits of
the code that the properties respect:

* Queue and workers. A consumer that outlives its lease settles a row that may
  belong to another. A database error outside the handler ends a worker task for
  good, and after the last one events wait for a restart. `wait_idle` can miss
  an event that a handler published between its count of the table and its look
  at the tasks. Released and retried events are overtaken by later ones of their
  key, which `worker.py:251` calls the key of ordered side effects, so an older
  store call may have the last word about a URI.
* Sessions. Messages left unmerged in an idle session are dropped with it. An
  end leaves out merged records that are not derived yet.
* Records. Forgetting a section leaves files, anchors and facts of the sections
  below it, whose points it deletes: their URIs do not extend its own. Anchors,
  facts and entities of an earlier derivation stay when their text differs;
  `SettledFromOneDerivation` asks for a complete set, not for the only one.
  Events still queued or running when their URI is forgotten write it again.
* Imports. A part of an oversized CJK paragraph has about twice the tokens of
  `max_section_size`, which `parse/base.py:28` calls the most tokens of a chunk,
  and joined text can exceed it by what truncation hides, below one token a
  piece, and the blank lines; `LeavesFit` is this bound. What is below the first
  chunk of a document is put below its root. Text before the first heading of
  the least level is lost if a deeper heading comes before it. A failed import
  has consumed its upload, and an upload that is never imported is never
  removed. A shorter document leaves the later sections of the one it replaces.
* Recall. A rerank, where it answers, overrides the order of time; `earliest`
  puts records without a time first, and the worse of two of one time. The
  order, like the range, is of the points records were found by: an anchor, an
  entity or a fact carries dates of its own, and an answer shows those of the
  primary record, which may be out of the order (the instance reaches such
  answers) or out of the range. The time range is not a filter of the probe, of
  the selection and of the cone. A surface that times out counts as empty, and
  nothing says so. A rerank that is planned cuts the answers to its own limit,
  even below the request's. A recall beside a forget may answer what was
  forgotten.

## Not modelled

Identity, middleware, MCP and the console translate requests to operations that
are modelled; model clients and prompts are services whose answers are choices
here. The token file (`auth/token.py`) is read, changed and replaced under a
lock that is local to a process, while the command line is another one: it is
administration beside the flow of memories, and listed as a hazard. Of modelled
components, what is left out is named with each in `PROJECT.json`: mostly
payload conversion, paging, creation of collections, texts and vectors.

## Plan

1. Done: queue, workers, sessions, records; imports and recall.
2. Done: proofs about the queue, the workers, sessions, records, imports and
   recall; every safety invariant of a run but those of `MarkdownImports` is a
   theorem.
3. An abstract record store (a URI is absent, stored, settled or forgotten) that
   `RecordStore` refines outside the cases of its violation run.
4. The token store with its two processes.
