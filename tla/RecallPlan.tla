------------------------------- MODULE RecallPlan -------------------------------
(***************************************************************************)
(* The planner of recall: what a probe found (the evidence e) and the      *)
(* query q decide how a recall searches, expands and reranks.              *)
(*                                                                         *)
(* Scores are integers, hundredths of the code's; confidence, which the    *)
(* code rounds to four places, is in ten-thousandths.  A score the probe   *)
(* did not see is None in the code and read as 0.0 everywhere.  A probe    *)
(* never says should_recall = False, so decision is FOCUSED or EXPAND.     *)
(* An operator with a suffix after the name of another is a wrong variant  *)
(* of it that nothing else uses.                                           *)
(***************************************************************************)
EXTENDS Integers, Sequences, FiniteSets, SequencesExt, FiniteSetsExt

Object == "l0_object"
Anchor == "anchor_index"
Fact   == "fact_index"
Entity == "entity_index"
Tree   == "reason_tree_index"

\* What a derived record that is no leaf has in this field.
NoSurface == ""

\* In the order in which the planner lists them.
Surfaces == <<Object, Anchor, Fact, Entity, Tree>>

LocatorSurfaces == <<Anchor, Entity, Tree>>

\* "reasoning" stands for multihop too, which the planner treats alike.
QueryType == {"factual", "temporal", "reasoning", "summary"}

TopK == 3

Evidence == [top : Int, gap : Nat, objectTop : Int, locatorTop : Int, treeTop : Int,
             candidates : Nat, objects : Nat, locators : Nat, trees : Nat]

\* probe_confidence
Confidence(e) ==
  LET both  == e.objectTop > 0 /\ e.locatorTop > 0
      close == e.objectTop - e.locatorTop \in -15 .. 15
      sum   == e.top + Min({e.gap, 18})
                 + (IF ~both THEN 0 ELSE IF close THEN 5 ELSE 2)
                 + Min({8, 2 * e.locators})
      share == IF e.candidates > 0 THEN 100 ELSE IF e.locatorTop = 0 THEN 45 ELSE 70
  IN  Max({0, Min({10000, sum * share})})

Confident(e) == Confidence(e) >= 7600

Decision(e) == IF Confident(e) /\ e.objects > 0 THEN "focused" ELSE "expand"

MultiQuery(q) == Len(q.vectors) > 1

CandidateLimit(q, e) ==
  LET base  == Max({6 * q.limit, q.limit + 12})
      weak  == IF Confidence(e) < 4500 \/ e.candidates = 0 THEN 3 * q.limit ELSE 0
      extra == IF e.locators > 0 THEN q.limit ELSE 0
  IN  Min({96, base + weak + extra})

SurfaceLimit(q, e, s) ==
  LET c == CandidateLimit(q, e)
  IN  IF s = Object THEN Max({8, c \div 2})
      ELSE IF s = Tree THEN Max({6, c \div 3})
      ELSE IF Confidence(e) < 4500 THEN Max({8, c \div 3})
      ELSE Max({5, c \div 4})

BaseWeight(s) ==
  CASE s = Object -> 100 [] s = Anchor -> 94 [] s = Fact -> 98 [] s = Entity -> 88 [] s = Tree -> 92

QueryWeight(type, s) ==
  CASE <<type, s>> = <<"factual", Object>>   -> 8
    [] <<type, s>> = <<"factual", Fact>>     -> 10
    [] <<type, s>> = <<"factual", Tree>>     -> -8
    [] <<type, s>> = <<"temporal", Object>>  -> 4
    [] <<type, s>> = <<"temporal", Fact>>    -> 12
    [] <<type, s>> = <<"reasoning", Tree>>   -> 10
    [] <<type, s>> = <<"reasoning", Anchor>> -> 4
    [] OTHER                                 -> 0

\* surface_weights: the base weights shifted by what the query asks for, by
\* locators that were found and by objects that were not.
Weight(q, e, s) ==
  BaseWeight(s) + QueryWeight(q.type, s)
  + (IF e.locators > 0 /\ s \in {Anchor, Entity} THEN 4 ELSE 0)
  + (IF e.objects > 0 THEN 0 ELSE IF s = Tree THEN 5 ELSE IF s = Fact THEN 4 ELSE 0)

BaseBonus(s) ==
  CASE s = Object -> 0 [] s = Anchor -> 8 [] s = Fact -> 12 [] s = Entity -> 6 [] s = Tree -> 10

\* surface_bonus
Bonus(q, s) ==
  BaseBonus(s) + (CASE <<q.type, s>> = <<"factual", Fact>>   -> 4
                    [] <<q.type, s>> = <<"factual", Object>> -> 3
                    [] <<q.type, s>> = <<"factual", Tree>>   -> -4
                    [] <<q.type, s>> = <<"temporal", Fact>>  -> 5
                    [] OTHER                                 -> 0)

\* The reason tree is among the best matches.
StrongTreeSignal(e) == e.trees > 0 /\ e.treeTop >= 78
                       /\ (e.objectTop = 0 \/ e.treeTop >= e.objectTop - 8)

\* reason_tree_plan, starting being the entry points of the probe.
TreeSelectionPlanned(q, e, starting) ==
  /\ starting # <<>>
  /\ \/ MultiQuery(q)
     \/ e.objects = 0 /\ e.locators > 0
     \/ ~Confident(e)
     \/ StrongTreeSignal(e)

MaxTreeNodes == 6

\* cone_expansion_plan
ConePlanned(q, e) ==
  /\ e.candidates > 0 /\ e.locators > 0
  /\ q.type = "temporal" \/ MultiQuery(q) \/ Decision(e) = "expand"

MaxSeeds == 3

ConeBudget(q) == MaxSeeds * (IF q.type = "temporal" THEN 3 ELSE 2)

\* rerank_plan
SeedRerankPlanned(q, e) ==
  MultiQuery(q) \/ Decision(e) = "expand" \/ q.type = "reasoning"

FinalRerankPlanned(q, e) == SeedRerankPlanned(q, e) \/ e.locators > 0

\* rerank_limit: thirty candidates where a rerank is planned, within the setting.
RerankLimit(planned, setting) == Max({1, IF planned THEN Min({30, setting}) ELSE setting})
===============================================================================
