----------------------------- MODULE DocumentTree -----------------------------
(***************************************************************************)
(* How a markdown document becomes sections: MarkdownParser, the adapter   *)
(* DocumentChunk.from_parsed, and the shape DocumentTreeWriter gives them. *)
(*                                                                         *)
(* A document is a sequence of paragraphs, of so many characters of one    *)
(* rate; a heading is a paragraph with a level above 0.  A piece is a      *)
(* paragraph <<i, 0>> or one of the parts <<i, n>> an oversized paragraph  *)
(* i is cut into.  Chunks are counted from 1, and 0 is the root (the code: *)
(* from 0, and -1).  No chunk is blank here; the adapter drops those.      *)
(*                                                                         *)
(* An operator with a suffix after the name of another is a wrong variant  *)
(* of it that nothing else uses.                                           *)
(***************************************************************************)
EXTENDS Integers, Sequences, FiniteSets, SequencesExt, FiniteSetsExt

CONSTANTS MaxSection,    \* max_section_size
          MinSection,    \* min_section_tokens
          SmallDocument  \* _SMALL_DOC_THRESHOLD

ASSUME DocumentAssumption == /\ MaxSection \in Nat /\ SmallDocument \in Nat
                             /\ MinSection \in 1 .. MaxSection

Headings(d) == {i \in DOMAIN d : d[i].level > 0}

\* Tenths of a token: what a CJK character costs, and any other.
CJK == 7
Other == 3

\* char_split_size, and what there is of paragraph i in a piece of it.
PartSize == 3 * MaxSection

Chars(d, piece) ==
  LET all == d[piece[1]].chars
  IN  IF piece[2] = 0 THEN all ELSE Min({PartSize, all - (piece[2] - 1) * PartSize})

Cost(d, piece) == d[piece[1]].rate * Chars(d, piece)

\* What a text costs; between two pieces is a blank line.
Tenths(d, text) ==
  FoldLeft(LAMBDA n, p : n + Cost(d, p), 2 * Other * (Len(text) - 1), text)

\* estimate_tokens, which truncates.
Tokens(d, text) == Tenths(d, text) \div 10
PieceTokens(d, piece) == Cost(d, piece) \div 10

\* The paragraphs from a to b.
Text(a, b) == [k \in 1 .. b - a + 1 |-> <<a + k - 1, 0>>]

-------------------------------------------------------------------------------
(* Sections *)

\* A section ends before the next heading that is not below its own.
SectionEnd(d, h) ==
  Min({j \in Headings(d) : j > h /\ d[j].level <= d[h].level} \cup {Len(d) + 1}) - 1

\* Only headings one level below are children; others belong to the text.
Children(d, h) == {j \in Headings(d) : j \in h + 1 .. SectionEnd(d, h) /\ d[j].level = d[h].level + 1}

\* _get_section_info; direct is the text before the first child, empty if there is
\* only the heading.
Section(d, h) ==
  LET children == Children(d, h)
      first    == Min(children)
      text     == Text(h, SectionEnd(d, h))
  IN  [name |-> d[h].title, text |-> text, tokens |-> Tokens(d, text), children |-> children,
       direct |-> IF children = {} \/ first = h + 1 THEN <<>> ELSE Text(h, first - 1)]

\* A section that is only text: the preamble, or what a directory has of its own.
Plain(d, name, text) ==
  [name |-> name, text |-> text, tokens |-> Tokens(d, text), children |-> {}, direct |-> <<>>]

\* The positions in S in order.
Ascending(S) == SelectSeq([i \in 1 .. Max(S \cup {0}) |-> i], LAMBDA i : i \in S)

\* _build_top_level_sections
TopLevelSections(d) ==
  LET first == Min(Headings(d))
      level == Min({d[i].level : i \in Headings(d)})
      tops  == Ascending({i \in Headings(d) : d[i].level = level})
  IN  (IF first > 1 THEN <<Plain(d, "preamble", Text(1, first - 1))>> ELSE <<>>)
      \o [k \in DOMAIN tops |-> Section(d, tops[k])]

-------------------------------------------------------------------------------
(* Chunks *)

Chunk(name, part, text, parent) == [title |-> <<name, part>>, text |-> text, parent |-> parent]

SmartSplitKeeping(d, text) == <<text>>

\* _smart_split_content: paragraphs whose tokens, counted one by one, fit a section
\* together; a paragraph that is larger is cut by its characters.
SmartSplit(d, text) ==
  LET cut(i)  == [n \in 1 .. (d[i].chars + PartSize - 1) \div PartSize |-> << <<i, n>> >>]
      flush(s) == IF s.current = <<>> THEN s.parts ELSE Append(s.parts, s.current)
      add(s, piece) ==
        LET size == PieceTokens(d, piece)
        IN  IF size > MaxSection
            THEN [parts |-> flush(s) \o cut(piece[1]), current |-> <<>>, tokens |-> 0]
            ELSE IF s.tokens + size > MaxSection
            THEN [parts |-> flush(s), current |-> <<piece>>, tokens |-> size]
            ELSE [s EXCEPT !.current = Append(@, piece), !.tokens = @ + size]
  IN  flush(FoldLeft(add, [parts |-> <<>>, current |-> <<>>, tokens |-> 0], text))

Parts(d, name, text, parent) ==
  LET parts == SmartSplit(d, text)
  IN  [n \in DOMAIN parts |-> Chunk(name, IF Len(parts) > 1 THEN n ELSE 0, parts[n], parent)]

\* _save_merged_chunks: one chunk for all pending sections.
Merged(pending, parent) ==
  Chunk(pending[1].name, 1 - Len(pending),
        FlattenSeq([k \in DOMAIN pending |-> pending[k].text]), parent)

PendingTokens(pending) == FoldLeft(LAMBDA n, s : n + s.tokens, 0, pending)

FlushedLast(pending, chunks, parent) ==
  IF pending = <<>> THEN chunks ELSE <<Merged(pending, parent)>> \o chunks

\* _flush_pending
Flushed(pending, chunks, parent) ==
  IF pending = <<>> THEN chunks ELSE Append(chunks, Merged(pending, parent))

RECURSIVE Processed(_, _, _, _)

\* _save_section_chunk: the chunk of a section that fits, a directory and its
\* children's chunks, or the parts of the text.
SavedSection(d, s, chunks, parent) ==
  LET children == Ascending(s.children)
      own  == IF s.direct = <<>> THEN <<>> ELSE <<Plain(d, s.name, s.direct)>>
  IN  IF s.tokens <= MaxSection THEN Append(chunks, Chunk(s.name, 0, s.text, parent))
      ELSE IF s.children = {} THEN chunks \o Parts(d, s.name, s.text, parent)
      ELSE Processed(d, own \o [k \in DOMAIN children |-> Section(d, children[k])],
                     Append(chunks, Chunk(s.name, 0, s.direct, parent)), Len(chunks) + 1)

\* _process_sections_to_chunks: sections below MinSection wait for others to be
\* merged with, within MaxSection.
Processed(d, sections, chunks, parent) ==
  LET step(s, section) ==
        LET fits == PendingTokens(s.pending) + section.tokens <= MaxSection
            flushed == Flushed(s.pending, s.chunks, parent)
        IN  IF section.tokens < MinSection
            THEN IF fits THEN [s EXCEPT !.pending = Append(@, section)]
                 ELSE [pending |-> <<section>>, chunks |-> flushed]
            ELSE IF s.pending # <<>> /\ fits /\ section.children = {}
            THEN [pending |-> <<>>, chunks |-> Flushed(Append(s.pending, section), s.chunks, parent)]
            ELSE [pending |-> <<>>, chunks |-> SavedSection(d, section, flushed, parent)]
      end == FoldLeft(step, [pending |-> <<>>, chunks |-> chunks], sections)
  IN  Flushed(end.pending, end.chunks, parent)

\* parse_content
ParsedChunks(d) ==
  LET all == Text(1, Len(d))
  IN  IF Headings(d) # {} THEN Processed(d, TopLevelSections(d), <<>>, 0)
      ELSE IF Tokens(d, all) <= SmallDocument THEN <<Chunk("document", 0, all, 0)>>
      ELSE Parts(d, "document", all, 0)

-------------------------------------------------------------------------------
(* The tree *)

FromParsedShifted(c) == [c EXCEPT !.parent = IF @ = 0 THEN 0 ELSE @ - 1]

\* DocumentChunk.from_parsed reads parent index 0, which is falsy, as none: what is
\* below the first chunk is put below the root.
FromParsed(c) == [c EXCEPT !.parent = IF @ = 1 THEN 0 ELSE @]

\* is_tree: a chunk of a headed document has a section_path.
IsTree(d, chunks) == Len(chunks) > 1 \/ Headings(d) # {}

\* The sections to write under the root; none if the document is one record.
Sections(d) ==
  LET parsed == ParsedChunks(d)
      chunks == [k \in DOMAIN parsed |-> FromParsed(parsed[k])]
  IN  IF IsTree(d, chunks) THEN chunks ELSE <<>>
===============================================================================
