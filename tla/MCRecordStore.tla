----------------------------- MODULE MCRecordStore -----------------------------
(* An instance of RecordStore for TLC: a document with a section below its    *)
(* root (k1), the root stored again without a section (k2), and a document    *)
(* whose section has a section below it, their URIs side by side under the    *)
(* root (k3).                                                                 *)
EXTENDS RecordStore

CONSTANTS root, section, nested, k1, k2, k3

\* DocumentTreeWriter.chunk_uris puts every section directly under the root.
TreePath   == [u \in Uri |-> IF u = root THEN <<root>> ELSE <<root, u>>]
TreeParent == [u \in Uri |-> CASE u = root -> NoUri [] u = section -> root [] u = nested -> section]
TreeDoc    == [c \in Call |-> CASE c = k1 -> <<root, section>>
                                [] c = k2 -> <<root>>
                                [] c = k3 -> <<root, section, nested>>]

\* No call ends a session, or k1 and k2 both do.
MCEndings  == {{}, {k1, k2}}
ImportOnly == {{}}

\* Bound: the nested document is stored without a fault and without another call
\* (and in one of the two initial states, which then differ in nothing else).
NestedAlone ==
  call[k3].state # "ready" =>
     faults = 0 /\ \A c \in Call \ {k3} : call[c].state = "ready" /\ ~call[c].final

===============================================================================
