-------------------------------- MODULE MCRecall --------------------------------
(* An instance of Recall for TLC: the final record of a session, which is no  *)
(* leaf, a merged record of it and a memory elsewhere, with some projections   *)
(* of each; one vector or two, scores apart.                                   *)
EXTENDS Recall

events == <<"session">>
final  == <<"session", "final">>
merged == <<"session", "merged">>
memory == <<"memory">>

P(uri, surface, source, parent, tree, neighbors, time, v, w) ==
  [uri |-> uri, surface |-> surface, source |-> source, parent |-> parent, tree |-> tree,
   neighbors |-> neighbors, time |-> time, score |-> [v |-> v, w |-> w]]

MCCatalogue ==
  << P(final, NoSurface, <<>>, events, <<>>, <<>>, 0, 40, 55),
     P(merged, Object, <<>>, events, <<>>, <<>>, 2, 78, 30),
     P(memory, Object, <<>>, <<>>, <<>>, <<>>, 1, 74, 50),
     P(merged \o <<"anchor">>, Anchor, merged, merged, <<>>, <<>>, 2, 70, 35),
     P(memory \o <<"entity">>, Entity, memory, memory, <<>>, <<>>, 3, 66, 60),
     P(memory \o <<"fact">>, Fact, memory, memory, <<>>, <<>>, 1, 62, 45),
     P(final \o <<"tree">>, Tree, final, events, events, <<events, merged>>, 2, 80, 65),
     P(memory \o <<"tree">>, Tree, memory, <<>>, memory, <<>>, 0, 50, 70) >>

Q(type, limit, vectors, order, after, before) ==
  [type |-> type, limit |-> limit, vectors |-> vectors, order |-> order,
   after |-> after, before |-> before]

MCQueries ==
  { Q("factual", 2, <<"v">>, "none", 0, 0),
    Q("reasoning", 3, <<"v", "w">>, "none", 0, 0),
    Q("temporal", 3, <<"v">>, "latest", 2, 0),
    Q("temporal", 2, <<"w">>, "earliest", 0, 2) }

TreeQueries == {Q("factual", 3, <<"v">>, "none", 0, 0)}
===============================================================================
