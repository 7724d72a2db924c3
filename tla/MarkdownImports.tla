---------------------------- MODULE MarkdownImports ----------------------------
(* Imports of markdown documents: the sections a call writes are those that the *)
(* parser makes of its text, and the properties are about what they say of it.  *)
EXTENDS Imports, DocumentTree

\* The sections of a call stay as they are after its parse.
Parsed == {c \in Caller : call[c].pc = "root" /\ Chunks(c) # <<>>}

\* The paragraphs a headed document loses: those from the first heading on, before the
\* first heading of the least level, if the first heading is deeper.
LostText(d) ==
  LET first == Min(Headings(d))
      top   == Min({i \in Headings(d) : \A j \in Headings(d) : d[i].level <= d[j].level})
  IN  IF Headings(d) = {} THEN {} ELSE first .. top - 1

\* The first chunk is a directory whose children are below the root, and a leaf.
Uprooted(c) == LET parsed == ParsedChunks(Document(c).text)
               IN  \E k \in DOMAIN parsed : parsed[k].parent = 1

\* The leaves, as they are read, without the uprooted directory.
Leaves(c) == {k \in DOMAIN Chunks(c) : IsLeaf(Chunks(c), k) /\ ~(k = 1 /\ Uprooted(c))}

\* The paragraph <<i, 0>> stands for its parts.
Joined(pieces) == FoldLeft(LAMBDA text, p : IF p[2] > 1 THEN text ELSE Append(text, <<p[1], 0>>),
                           <<>>, pieces)

\* MarkdownParser, DocumentTreeWriter: read one after the other, the leaves of a document
\* are its text: merging, recursion and splitting drop, repeat and swap nothing, the
\* text before the first top-level heading apart, and headings without own text.
ReadsAsDocument ==
  \A c \in Parsed :
    LET d == Document(c).text
        leaves == Ascending(Leaves(c))
        read == Joined(FlattenSeq([k \in DOMAIN leaves |-> Chunks(c)[leaves[k]].text]))
        bare == {Min(Children(d, h)) - 1 : h \in {i \in Headings(d) : Children(d, i) # {}}}
        due  == SelectSeq(Text(1, Len(d)), LAMBDA p : p[1] \notin LostText(d))
    IN  /\ IsInjective(read)
        /\ SelectSeq(due, LAMBDA p : p \in ToSet(read)) = read
        /\ \A p \in ToSet(due) \ ToSet(read) : p[1] \in bare \cap Headings(d)

\* ParserConfig.max_section_size, "max tokens per chunk", as far as the code keeps to it:
\* a leaf is a part of one oversized paragraph, cut at PartSize characters, or as large as
\* a section may be but for what truncation (below one token for each piece) and blank
\* lines hide from the sums of the parser.
LeavesFit ==
  \A c \in Parsed : \A k \in Leaves(c) :
    LET d == Document(c).text
        text == Chunks(c)[k].text
        isPart == Len(text) = 1 /\ text[1][2] > 0
    IN  IF isPart THEN Chars(d, text[1]) <= PartSize
        ELSE Tenths(d, text) <= 10 * MaxSection + 9 * Len(text) + 2 * Other * (Len(text) - 1)

\* The section of the document a directory stands for, by its heading.
Heads(d, chunk, h) == /\ h \in Headings(d) /\ Children(d, h) # {} /\ d[h].title = chunk.title[1]
                      /\ chunk.text = Section(d, h).direct

\* DocumentChunk.parent_index: a section below another one comes after it and is part of
\* its text, and every directory has more than its own text below it.
TreeFollowsSections ==
  \A c \in Parsed :
    LET d == Document(c).text
        below(k) == {j \in DOMAIN Chunks(c) : ParentOf(c, j) = k}
        at(j) == {p[1] : p \in ToSet(Chunks(c)[j].text)}
    IN  \A k \in DOMAIN Chunks(c) : below(k) # {} =>
          \E h \in Headings(d) :
             /\ Heads(d, Chunks(c)[k], h)
             /\ \A j \in below(k) : j > k /\ at(j) \subseteq h .. SectionEnd(d, h)
             /\ \E j \in below(k) : at(j) = {} \/ ~(at(j) \subseteq at(k))
================================================================================
