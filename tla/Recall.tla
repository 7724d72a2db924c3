--------------------------------- MODULE Recall ---------------------------------
(***************************************************************************)
(* One recall (MemoryRetriever.search) beside the worker and the store     *)
(* calls that change the vector collection meanwhile: probe, plan, LLM     *)
(* selection of reason-tree nodes, search of the surfaces, ranking, cone   *)
(* expansion, reranking, and the primary records the answers are read from.*)
(*                                                                         *)
(* Each phase sends its requests together and waits for all of them; the   *)
(* collection changes between phases.  Time is a number, 0 for none.  What *)
(* text, embeddings and models amount to is the scores of Catalogue, the   *)
(* order a reranker chooses and the nodes the selection chooses.           *)
(*                                                                         *)
(* An operator with a suffix after the name of another (AnswerAsFound      *)
(* beside Answer) is a wrong variant of it that no action uses.            *)
(***************************************************************************)
EXTENDS RecallPlan

CONSTANTS Catalogue,   \* the points that can be in the collection, in the order of their ids
          Vector,      \* embeddings of queries
          Queries,     \* recall requests
          SeedLimit, FinalLimit, \* rerank_seed_limit, rerank_final_limit
          MaxTimeouts, \* bound: surface searches that run into their timeout
          MaxChanges   \* bound: changes of the collection during a recall

\* URIs are sequences of segments.  A derived record that is no leaf is on no surface.
Uri == UNION {{p.uri, p.parent, p.tree} \cup ToSet(p.neighbors) : p \in ToSet(Catalogue)}
Point == DOMAIN Catalogue
IsPrimary(i) == Catalogue[i].surface \in {Object, NoSurface}
Source(i) == IF IsPrimary(i) THEN Catalogue[i].uri ELSE Catalogue[i].source
Primary == {Catalogue[i].uri : i \in {j \in Point : IsPrimary(j)}}

\* What is stored with a point.
Payload == [uri : Uri, surface : ToSet(Surfaces) \cup {NoSurface}, source : Primary \cup {<<>>},
            parent : Uri, tree : Uri, neighbors : Seq(Uri), time : Nat, score : [Vector -> Int]]

Query == [type : QueryType, limit : 1 .. 50, vectors : Seq(Vector) \ {<<>>},
          order : {"none", "latest", "earliest"}, after : Nat, before : Nat]

\* URIs identify points, and every point has a primary record.  Of the payloads, those
\* of reason trees alone have neighbours.
ASSUME RecallAssumption ==
  /\ Catalogue \in Seq(Payload)
  /\ \A i \in Point : /\ Source(i) \in Primary \ {<<>>}
                      /\ Catalogue[i].neighbors # <<>> => Catalogue[i].surface = Tree
  /\ \A i, j \in Point : Catalogue[i].uri = Catalogue[j].uri => i = j
  /\ Queries \subseteq Query
  /\ \A q \in Queries : q.type = "temporal" \/ (q.order = "none" /\ q.after = 0 /\ q.before = 0)
  /\ {SeedLimit, FinalLimit, MaxTimeouts, MaxChanges} \subseteq Nat

VARIABLES index,    \* the points in the collection that are retrieval_ready
          query, pc,
          evidence, \* what the probe found
          starting, \* entry points of the plan
          raw,      \* hits of the searches, the selection and the cone, in order
          ranked,   \* hits, one for each source
          answers,
          composed, \* whether the answers carry a reasoning chain
          changes,  \* changes so far (history)
          calm,     \* no change since the probe (history)
          reranked  \* a reranker decided the final order (history)

vars == <<index, query, pc, evidence, starting, raw, ranked, answers, composed, changes,
          calm, reranked>>

-------------------------------------------------------------------------------
(* Sequences, in closed form: what recursion and sorting compute *)

\* The elements of a finite set in a total order, a set of pairs: at place n the
\* one that n elements are not behind.
Arranged(S, order) ==
  [n \in 1 .. Cardinality(S) |-> CHOOSE x \in S : Cardinality({y \in S : <<y, x>> \in order}) = n]

Ascending(S) == Arranged(S, {p \in S \X S : p[1] <= p[2]})

\* The elements of s sorted, those of which none is before the other as they were.
StableSort(s, Before(_, _)) ==
  LET order == Arranged(DOMAIN s, {p \in (DOMAIN s) \X (DOMAIN s) :
                                     \/ Before(s[p[1]], s[p[2]])
                                     \/ ~Before(s[p[2]], s[p[1]]) /\ p[1] <= p[2]})
  IN  [k \in DOMAIN s |-> s[order[k]]]

\* The elements of s at these positions.
At(s, positions) == [k \in 1 .. Cardinality(positions) |-> s[Ascending(positions)[k]]]

\* One sequence behind the other.
Joined(seqs) ==
  LET places == UNION {{k} \X (DOMAIN seqs[k]) : k \in DOMAIN seqs}
      order  == Arranged(places, {p \in places \X places :
                                    \/ p[1][1] < p[2][1]
                                    \/ p[1][1] = p[2][1] /\ p[1][2] <= p[2][2]})
  IN  [n \in 1 .. Cardinality(places) |-> seqs[order[n][1]][order[n][2]]]

UniqueOrNot(s) == At(s, {k \in DOMAIN s : s[k] # <<>>})

\* The elements in the order of their first occurrence, no URI (<<>>) left out.
Unique(s) == At(s, {k \in DOMAIN s : s[k] # <<>> /\ \A j \in 1 .. k - 1 : s[j] # s[k]})

Limited(s, n) == SubSeq(s, 1, Min({n, Len(s)}))

-------------------------------------------------------------------------------
(* Requests to the collection *)

\* The points whose payload has the caller's tenant under this key.  The writers
\* of reason trees fill source_tenant_id and leave tenant_id empty.
HasTenant(i, key) == key = "source_tenant_id" \/ Catalogue[i].surface # Tree

\* retrieval_filter: what a caller may see of a surface.
Visible(s, key) == {i \in index : Catalogue[i].surface = s /\ HasTenant(i, key)}

Higher(x, y) == x.score > y.score

ByScore(hits) == StableSort(hits, Higher)

\* The points as hits, with their scores for a vector.
Hits(points, v) == [k \in 1 .. Cardinality(points) |->
                      LET i == Ascending(points)[k]
                      IN  [point |-> i, score |-> Catalogue[i].score[v]]]

\* The best points of a set for a vector.
Best(points, v, n) == Limited(ByScore(Hits(points, v)), n)

-------------------------------------------------------------------------------
(* The probe *)

ProbeObjects(v) == Best(Visible(Object, "tenant_id"), v, TopK)

ProbeLocators(v) ==
  Limited(ByScore(Joined([k \in DOMAIN LocatorSurfaces |->
                            Best(Visible(LocatorSurfaces[k], "tenant_id"), v, TopK)])), TopK)

\* Over all vectors, found being what each of them finds, a record counts once for
\* each vector that found it.
TopRecords(found) == Limited(ByScore(Joined(found)), TopK)

TopScore(hits) == IF hits = <<>> THEN 0 ELSE hits[1].score

Score(hits, u) == Max({h.score : h \in {x \in hits : Source(x.point) = u}})

\* build_result: the evidence, candidates being the sources with their best score.
EvidenceOf(objects, locators) ==
  LET hits   == ToSet(objects) \cup ToSet(locators)
      trees  == At(locators, {k \in DOMAIN locators : Catalogue[locators[k].point].surface = Tree})
      found  == {Source(h.point) : h \in hits}
      top    == Max({Score(hits, u) : u \in found})
      first  == CHOOSE u \in found : Score(hits, u) = top
      others == found \ {first}
  IN  [top |-> IF found = {} THEN 0 ELSE top,
       gap |-> IF Cardinality(found) < 2 THEN 0 ELSE top - Max({Score(hits, u) : u \in others}),
       objectTop |-> TopScore(objects), locatorTop |-> TopScore(locators),
       treeTop |-> TopScore(trees), candidates |-> Cardinality(found),
       objects |-> Len(objects), locators |-> Len(locators), trees |-> Len(trees)]

\* starting_uris_from_locator_hits
StartingUris(objects, locators) ==
  LET p(h) == Catalogue[h.point]
  IN  Limited(Unique(Joined(<<[k \in DOMAIN locators |-> p(locators[k]).tree]>>
                 \o [k \in DOMAIN locators |-> <<p(locators[k]).parent, Source(locators[k].point)>>
                                               \o p(locators[k]).neighbors]
                 \o [k \in DOMAIN objects |-> <<p(objects[k]).parent, p(objects[k]).uri>>])), TopK)

Probe ==
  LET vector   == query.vectors
      objects  == TopRecords([k \in DOMAIN vector |-> ProbeObjects(vector[k])])
      locators == TopRecords([k \in DOMAIN vector |-> ProbeLocators(vector[k])])
  IN  /\ pc = "probe"
      /\ evidence' = EvidenceOf(objects, locators)
      /\ starting' = StartingUris(objects, locators)
      /\ pc' = "select"
      /\ UNCHANGED <<index, query, raw, ranked, answers, composed, changes, calm, reranked>>

-------------------------------------------------------------------------------
(* Selection and search *)

\* Reason-tree nodes at the entry points; the selection filters by source_tenant_id.
TreeCandidates ==
  LET at(i) == {Catalogue[i].source, Catalogue[i].tree, Catalogue[i].parent} \ {<<>>}
      near  == {i \in Visible(Tree, "source_tenant_id") : at(i) \cap ToSet(starting) # {}}
  IN  IF TreeSelectionPlanned(query, evidence, starting)
      THEN ToSet(Limited(Ascending(near), MaxTreeNodes))
      ELSE {}

\* The model chooses up to three candidates, in an order; they come without a score.
Select ==
  /\ pc = "select"
  /\ \E nodes \in UNION {[1 .. n -> TreeCandidates] : n \in 0 .. 3} :
        /\ IsInjective(nodes)
        /\ starting' = Unique([k \in DOMAIN nodes |-> Catalogue[nodes[k]].uri] \o starting)
        /\ raw' = [k \in DOMAIN nodes |-> [point |-> nodes[k], score |-> 0]]
  /\ pc' = "search"
  /\ UNCHANGED <<index, query, evidence, ranked, answers, composed, changes, calm, reranked>>

\* temporal_filter_conditions: a range matches no point without a time.
InRange(i) == \/ query.after = 0 /\ query.before = 0
              \/ /\ Catalogue[i].time # 0
                 /\ query.after # 0 => Catalogue[i].time >= query.after
                 /\ query.before # 0 => Catalogue[i].time <= query.before

SearchSurfaceAnyTime(s, v) ==
  Best(Visible(s, "tenant_id"), v, SurfaceLimit(query, evidence, s))

SearchSurface(s, v) ==
  Best({i \in Visible(s, "tenant_id") : InRange(i)}, v, SurfaceLimit(query, evidence, s))

\* The searches: a surface and a vector, by their positions.
Searches == (DOMAIN Surfaces) \X (DOMAIN query.vectors)

\* What they find, surface by surface and vector by vector, those that are late having
\* run into surface_timeout_seconds.
Executed(late) ==
  Joined([s \in DOMAIN Surfaces |->
            Joined([v \in DOMAIN query.vectors |->
                      IF <<s, v>> \in late THEN <<>>
                      ELSE SearchSurface(Surfaces[s], query.vectors[v])])])

Late == UNION {kSubset(n, Searches) : n \in 0 .. MaxTimeouts}

-------------------------------------------------------------------------------
(* Ranking *)

Weighted(h) == h.score * Weight(query, evidence, Catalogue[h.point].surface)

IsNear(u) == \E k \in DOMAIN starting : IsPrefix(starting[k], u)

\* plan.surface_bonus of these surfaces
Bonuses(surfaces) ==
  LET bonus(s) == IF s \in surfaces THEN Bonus(query, s) ELSE 0
  IN  bonus(Object) + bonus(Anchor) + bonus(Fact) + bonus(Entity) + bonus(Tree)

\* What a source's hits add to its score: surfaces that agree, the kind of each,
\* and nearness to an entry point.
Extra(u, surfaces) == Min({18, 4 * (Cardinality(surfaces) - 1)}) + Bonuses(surfaces)
                      + (IF IsNear(u) THEN 5 ELSE 0)

LastHit(hits) == hits[Len(hits)]

\* The first of the best of a source's hits.
BestHit(hits) == StableSort(hits, LAMBDA g, h : Weighted(g) > Weighted(h))[1]

\* normalize_weighted_hits: the weighted score of a hit within those of the pool.  All
\* scores of a pool have one denominator, Unit.
Weights(pool) == {Weighted(h) : h \in ToSet(pool)}
Spread(pool)  == Max(Weights(pool)) - Min(Weights(pool))
Unit(pool)    == IF Spread(pool) = 0 THEN 1 ELSE Spread(pool)
Normal(pool, h) == IF Spread(pool) = 0 THEN 1 ELSE Weighted(h) - Min(Weights(pool))

HitsOf(hits, u)  == At(hits, {k \in DOMAIN hits : Source(hits[k].point) = u})
SurfacesOf(hits) == {Catalogue[h.point].surface : h \in ToSet(hits)}

\* The hits of a source collapsed to one, its best.
Collapsed(hits, u) ==
  LET own == HitsOf(hits, u)
  IN  [source |-> u, point |-> BestHit(own).point,
       score |-> 100 * Normal(hits, BestHit(own)) + Unit(hits) * Extra(u, SurfacesOf(own))]

Sources(hits) == Unique([k \in DOMAIN hits |-> Source(hits[k].point)])

Fused(hits) == LET sources == Sources(hits)
               IN  [k \in DOMAIN sources |-> Collapsed(hits, sources[k])]

Time(h) == Catalogue[h.point].time

BeforeTimeLast(x, y) ==
  CASE query.order = "latest"   -> x.score > y.score \/ (x.score = y.score /\ Time(x) > Time(y))
    [] query.order = "earliest" -> x.score < y.score \/ (x.score = y.score /\ Time(x) < Time(y))
    [] query.order = "none"     -> x.score > y.score

\* An explicit order sorts by time and then by score, both in its direction.
Before(x, y) ==
  CASE query.order = "latest"   -> Time(x) > Time(y) \/ (Time(x) = Time(y) /\ x.score > y.score)
    [] query.order = "earliest" -> Time(x) < Time(y) \/ (Time(x) = Time(y) /\ x.score < y.score)
    [] query.order = "none"     -> x.score > y.score

RankCutFirst(hits, limit) ==
  IF hits = <<>> THEN <<>>
  ELSE StableSort(ByScore(Fused(Limited(hits, limit))), Before)

Rank(hits, limit) ==
  IF hits = <<>> THEN <<>>
  ELSE Limited(StableSort(ByScore(Fused(hits)), Before), limit)

SeedPlanned  == SeedRerankPlanned(query, evidence)
FinalPlanned == FinalRerankPlanned(query, evidence)

InitialLimit == IF SeedPlanned THEN RerankLimit(TRUE, SeedLimit)
                ELSE IF FinalPlanned THEN RerankLimit(TRUE, FinalLimit)
                ELSE query.limit

\* The searches end and their hits are ranked with the selected nodes.
Search ==
  /\ pc = "search"
  /\ \E late \in Late : raw' = Executed(late) \o raw
  /\ ranked' = Rank(raw', InitialLimit)
  /\ pc' = "seed"
  /\ UNCHANGED <<index, query, evidence, starting, answers, composed, changes, calm, reranked>>

\* What a rerank of the best `limit` hits can make of them: any order its scores
\* give, or the order there was when it is disabled or answers badly.
Reorderings(planned, limit) ==
  IF ~planned \/ Len(ranked) <= 1 THEN {ranked}
  ELSE LET n == Min({limit, Len(ranked)})
       IN  {[k \in DOMAIN ranked |-> IF k <= n THEN ranked[p[k]] ELSE ranked[k]] :
              p \in Bijection(1 .. n, 1 .. n)}

SeedRerank ==
  /\ pc = "seed"
  /\ ranked' \in Reorderings(SeedPlanned, RerankLimit(SeedPlanned, SeedLimit))
  /\ reranked' = (ranked' # ranked)
  /\ pc' = "cone"
  /\ UNCHANGED <<index, query, evidence, starting, raw, answers, composed, changes, calm>>

-------------------------------------------------------------------------------
(* The cone *)

ConeBonus == 3

\* Neighbours stored with the seeds' hits, bounded.  Nothing in the program writes
\* the relation tables that are read beside them.
Neighbors ==
  LET seeds  == Limited(ranked, MaxSeeds)
      known  == [k \in DOMAIN seeds |-> seeds[k].source]
      linked == Unique(Joined([k \in DOMAIN seeds |-> Catalogue[seeds[k].point].neighbors]))
      new    == At(linked, {k \in DOMAIN linked : linked[k] \notin ToSet(known)})
      time(u) == Max({0} \cup {Time(h) : h \in {x \in ToSet(ranked) : x.source = u}})
  IN  Limited(IF query.type = "temporal"
              THEN StableSort(new, LAMBDA u, w : time(u) < time(w)) ELSE new,
              ConeBudget(query))

\* The primary records of the neighbours, whatever the time range of the query.
ConePoints ==
  IF ConePlanned(query, evidence)
  THEN {i \in Visible(Object, "tenant_id") : Catalogue[i].uri \in ToSet(Neighbors)}
  ELSE {}

\* Found neighbours are ranked with everything that was found before, which
\* forgets the order of the first rerank.
Expand ==
  LET new  == Ascending(ConePoints)
      hits == raw \o [k \in DOMAIN new |-> [point |-> new[k], score |-> ConeBonus]]
  IN  /\ pc = "cone"
      /\ raw' = hits
      /\ IF new = <<>> THEN UNCHANGED <<ranked, reranked>>
         ELSE /\ ranked' = Rank(hits, IF FinalPlanned THEN RerankLimit(TRUE, FinalLimit)
                                                      ELSE query.limit)
              /\ reranked' = FALSE
      /\ pc' = "final"
      /\ UNCHANGED <<index, query, evidence, starting, answers, composed, changes, calm>>

FinalRerank ==
  /\ pc = "final"
  /\ \E order \in Reorderings(FinalPlanned, RerankLimit(FinalPlanned, FinalLimit)) :
        /\ ranked' = Limited(order, query.limit)
        /\ reranked' = (reranked \/ order # ranked)
  /\ pc' = "load"
  /\ UNCHANGED <<index, query, evidence, starting, raw, answers, composed, changes, calm>>

-------------------------------------------------------------------------------
(* Answers *)

AnswerAsFound(h) == [source |-> h.source, point |-> h.point]

\* load_primary_records, for one URI
PrimaryAt(u) == {i \in index : Catalogue[i].uri = u}

\* An answer shows the primary record, or what was found if there is none any more.
Answer(h) ==
  LET primary == PrimaryAt(h.source)
  IN  [source |-> h.source,
       point |-> IF primary = {} THEN h.point ELSE CHOOSE i \in primary : TRUE]

Load ==
  /\ pc = "load"
  /\ answers' = [k \in DOMAIN ranked |-> Answer(ranked[k])]
  /\ pc' = "compose"
  /\ UNCHANGED <<index, query, evidence, starting, raw, ranked, composed, changes, calm, reranked>>

\* The composer adds its chain or, when the model answers badly, nothing.
Compose ==
  /\ pc = "compose"
  /\ composed' \in IF query.type = "reasoning" /\ answers # <<>> THEN BOOLEAN ELSE {FALSE}
  /\ pc' = "done"
  /\ UNCHANGED <<index, query, evidence, starting, raw, ranked, answers, changes, calm, reranked>>

Running == {"probe", "select", "search", "seed", "cone", "final", "load", "compose"}

\* Anything else that goes wrong, in the embedding, the collection or a model, or a
\* selection of unknown nodes only, fails the recall, and what it found is gone.
Fail ==
  /\ pc \in Running
  /\ pc' = "failed"
  /\ evidence' = EvidenceOf(<<>>, <<>>)
  /\ starting' = <<>> /\ raw' = <<>> /\ ranked' = <<>> /\ answers' = <<>>
  /\ UNCHANGED <<index, query, composed, changes, calm, reranked>>

-------------------------------------------------------------------------------
(* Changes of the collection *)

PrimaryOf(u)    == {i \in Point : Catalogue[i].uri = u}
ProjectionsOf(u) == {i \in Point : Source(i) = u} \ PrimaryOf(u)

\* payload_matches_uri
Matches(i, u) == LET p == Catalogue[i]
                 IN  \E x \in {p.uri, Source(i), p.parent, p.tree} : IsPrefix(u, x)

Change(new) ==
  /\ pc \in Running
  /\ changes < MaxChanges
  /\ new # index
  /\ index' = new
  /\ changes' = changes + 1
  /\ calm' = (calm /\ pc = "probe")
  /\ UNCHANGED <<query, pc, evidence, starting, raw, ranked, answers, composed, reranked>>

\* A record is stored: its point is raw, not retrieval_ready, whatever it was.
Store(u) == Change(index \ PrimaryOf(u))

\* The worker makes it ready, then writes its projections.
Derive(u) == Change(index \cup PrimaryOf(u))
Project(u) == PrimaryOf(u) \subseteq index /\ Change(index \cup ProjectionsOf(u))

\* remove_by_uri
Forget(u) == Change({i \in index : ~Matches(i, u)})

-------------------------------------------------------------------------------
\* Of the records that are ready, the worker may not have projected some yet.
Init == /\ \E ready \in SUBSET Primary : \E projected \in SUBSET ready :
              index = UNION ({PrimaryOf(u) : u \in ready} \cup {ProjectionsOf(u) : u \in projected})
        /\ query \in Queries
        /\ pc = "probe"
        /\ evidence = EvidenceOf(<<>>, <<>>)
        /\ starting = <<>> /\ raw = <<>> /\ ranked = <<>> /\ answers = <<>>
        /\ composed = FALSE
        /\ changes = 0 /\ calm = TRUE /\ reranked = FALSE

RecallStep == Probe \/ Select \/ Search \/ SeedRerank \/ Expand \/ FinalRerank \/ Load \/ Compose

Next == \/ RecallStep
        \/ Fail
        \/ \E u \in Primary : Store(u) \/ Derive(u) \/ Project(u) \/ Forget(u)

Spec == Init /\ [][Next]_vars

-------------------------------------------------------------------------------
Hit    == [point : Point, score : Int]
Ranked == [source : Primary, point : Point, score : Nat]

TypeOK ==
  /\ index \subseteq Point /\ query \in Queries /\ pc \in Running \cup {"done", "failed"}
  /\ evidence \in Evidence
  /\ starting \in Seq(Uri) /\ IsInjective(starting)
  /\ raw \in Seq(Hit) /\ ranked \in Seq(Ranked)
  /\ answers \in Seq([source : Primary, point : Point])
  /\ composed \in BOOLEAN /\ calm \in BOOLEAN /\ reranked \in BOOLEAN
  /\ changes \in 0 .. MaxChanges

Found == {Source(h.point) : h \in ToSet(raw)}

\* MemoryRetriever.load_primary_records: an answer that matched an anchor, a fact or a
\* tree node shows the primary record behind it, one answer for each record, if the
\* collection holds the records of all its projections and rests after the probe.
AnswersArePrimary ==
  /\ pc \in {"compose", "done"} /\ calm
  /\ \A i \in index : PrimaryOf(Source(i)) \subseteq index
  => /\ \A k \in DOMAIN answers : {answers[k].point} = PrimaryOf(answers[k].source)
     /\ IsInjective(answers)

\* RetrievalRequest.limit: whatever surfaces time out and however hits of one record
\* pile up, a recall answers with as many records as it found, up to the limit asked
\* for and the number of candidates a planned rerank takes.
AnswersFillLimit ==
  LET planned == (IF SeedPlanned THEN {RerankLimit(TRUE, SeedLimit)} ELSE {})
                   \cup (IF FinalPlanned THEN {RerankLimit(TRUE, FinalLimit)} ELSE {})
      budget  == Min({query.limit} \cup planned)
  IN  pc \in {"load", "compose", "done"}
      => /\ Len(ranked) <= query.limit
         /\ Len(ranked) >= Min({budget, Cardinality(Found)})

\* a was found wherever b was found, and with a better score.
Dominates(a, b) ==
  /\ \A h \in ToSet(raw) : Source(h.point) = b =>
        \E g \in ToSet(raw) : /\ Source(g.point) = a /\ g.score > h.score
                              /\ Catalogue[g.point].surface = Catalogue[h.point].surface
  /\ IsNear(b) => IsNear(a)

\* RetrievalRanker.rank: normalisation over the pool and bonuses for surfaces and
\* nearness may reverse the order of two records, never that of a record and one found
\* in fewer places, and with lower scores.
DominantFirst ==
  pc = "seed" /\ query.order = "none" =>
    \A j \in DOMAIN ranked : \A a \in Found : Dominates(a, ranked[j].source) =>
       \E i \in 1 .. j - 1 : ranked[i].source = a

\* RetrievalRanker.rank: of two answers to a query for the latest, the later comes first,
\* of two to one for the earliest the earlier, as long as no rerank decided otherwise and
\* both show the time they were ranked by.  A record is ranked by the time of the point
\* it was found by; its answer shows the primary record, with a time of its own.
TimeOrdered ==
  pc \in {"compose", "done"} /\ ~reranked =>
    \A i, j \in DOMAIN answers :
       i < j /\ (\A k \in {i, j} : Time(answers[k]) = Time(ranked[k])) =>
          /\ query.order = "latest"   => Time(answers[i]) >= Time(answers[j])
          /\ query.order = "earliest" => Time(answers[i]) <= Time(answers[j])

\* temporal_filter_conditions: what is out of the time range of the query, or without a
\* time, is only there because the model selected a tree node or the cone took one's
\* neighbour.
RangeKept ==
  \A k \in DOMAIN ranked :
     \/ InRange(ranked[k].point)
     \/ \E h \in ToSet(raw) : /\ Catalogue[h.point].surface = Tree
                              /\ \/ h.point = ranked[k].point
                                 \/ ranked[k].source \in ToSet(Catalogue[h.point].neighbors)

\* docs/design/opencortex-recall-design.md: a recall queries the reason-tree
\* projections like the other surfaces.
TreesSearched ==
  pc = "seed" /\ calm =>
    \A i \in index : Catalogue[i].surface = Tree /\ InRange(i) =>
       \E h \in ToSet(raw) : h.point = i
===============================================================================
