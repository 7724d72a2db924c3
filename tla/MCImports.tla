------------------------------- MODULE MCImports -------------------------------
(* Instances of Imports for TLC: one document of up to MaxParagraphs paragraphs, *)
(* headings of three levels and paragraphs that fit a section or do not, two     *)
(* fewer where CJK paragraphs are among them; and two documents on their way at  *)
(* the same time, of one path or of two.                                         *)
EXTENDS MarkdownImports

CONSTANT MaxParagraphs

H(level) == [level |-> level, chars |-> 4, rate |-> Other]
P(chars, rate) == [level |-> 0, chars |-> chars, rate |-> rate]
Small == P(12, Other)
Large == P(20, Other)
Latin == {H(1), H(2), H(3), Small, Large}
Paragraph == Latin \cup {P(20, CJK)}

\* Every paragraph has a title of its own, or all have the same.
Titled(text) == [i \in DOMAIN text |-> [title |-> <<"a", "b", "c", "d", "e", "f">>[i]] @@ text[i]]
SameTitle(text) == [i \in DOMAIN text |-> [title |-> "a"] @@ text[i]]

Texts(paragraphs, least, most) == UNION {[1 .. n -> paragraphs] : n \in least .. most}

Single == {<<[path |-> "a", text |-> Titled(text)]>> :
             text \in Texts(Paragraph, 1, MaxParagraphs - 2)
                        \cup Texts(Latin, MaxParagraphs - 1, MaxParagraphs)}

Plan(path) == [path |-> path, text |-> SameTitle(<<H(1), Large, H(2), Small, H(2), Small>>)]
Note(path) == [path |-> path, text |-> SameTitle(<<Small, H(1), Small>>)]

CallerSymmetry == Permutations(Caller)

MCJobs == Single \cup {<<Plan("a"), Note(path)>> : path \in {"a", "b"}}
===============================================================================
