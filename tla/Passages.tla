------------------------------ MODULE Passages ------------------------------
(***************************************************************************)
(* The text of a document on its way to the index: it is cut into passages *)
(* of a bounded length, those already indexed are left out, and what the   *)
(* scan finds in a passage is masked.                                      *)
(*                                                                         *)
(* A text is a sequence of paragraphs, a paragraph its number of words.    *)
(* For masking, a passage is a sequence of characters and a finding the    *)
(* stretch from character start + 1 to character end.                      *)
(***************************************************************************)
EXTENDS Naturals, Sequences, SequencesExt, FiniteSetsExt, Folds

CONSTANTS
    MaxTokens,      \* the words a passage may have
    MaxWords,       \* bound: the words of a paragraph
    MaxParagraphs,  \* bound: the paragraphs of a text
    Length,         \* bound: the characters of a passage that is scanned
    LabelLength     \* the lengths "[ENTITY_TYPE]" may have

PassagesAssumption ==
    /\ MaxTokens \in Nat \ {0}
    /\ MaxWords \in Nat
    /\ Length \in Nat
    /\ LabelLength \subseteq Nat

VARIABLES
    paragraphs,     \* the text
    findings        \* what the scan found in one passage

vars == <<paragraphs, findings>>

-----------------------------------------------------------------------------
(* chunk_text.  A word is <<paragraph, place>>, a passage the sequence of    *)
(* its words.                                                                *)

Words(p, n) == [i \in 1..n |-> <<p, i>>]

Flush(work) ==
    IF work.current = <<>> THEN work.passages
    ELSE Append(work.passages, work.current)

\* A paragraph over the limit is cut at every MaxTokens words.
Pieces(words) ==
    [k \in 1..((Len(words) + MaxTokens - 1) \div MaxTokens) |->
        SubSeq(words, (k - 1) * MaxTokens + 1,
               Min({k * MaxTokens, Len(words)}))]

Blank(words) == words = <<>>

\* A plausible slip: what was being packed is not flushed before a paragraph
\* that is cut on its own.
PackForgetting(work, words) ==
    IF Len(words) > MaxTokens
    THEN [passages |-> work.passages \o Pieces(words), current |-> <<>>]
    ELSE IF Len(work.current) + Len(words) > MaxTokens /\ work.current # <<>>
    THEN [passages |-> Flush(work), current |-> words]
    ELSE [work EXCEPT !.current = @ \o words]

\* One round of the loop over the paragraphs.
Pack(work, words) ==
    IF Len(words) > MaxTokens
    THEN [passages |-> Flush(work) \o Pieces(words), current |-> <<>>]
    ELSE IF Len(work.current) + Len(words) > MaxTokens /\ work.current # <<>>
    THEN [passages |-> Flush(work), current |-> words]
    ELSE [work EXCEPT !.current = @ \o words]

Nothing == [passages |-> <<>>, current |-> <<>>]

\* Blank paragraphs are left out.
PackUnlessBlank(work, words) == IF Blank(words) THEN work ELSE Pack(work, words)

\* The paragraphs of a text, each the sequence of its words.
Paragraphs(text) == [p \in DOMAIN text |-> Words(p, text[p])]

Packed(text) == FoldLeft(PackUnlessBlank, Nothing, Paragraphs(text))

ChunkText(text) == Flush(Packed(text))

-----------------------------------------------------------------------------
(* _redact.  A finding is replaced by a label of its own length, which need *)
(* not be that of what it replaces.                                         *)

Character(i) == [original |-> i]
Label(f) == [i \in 1..f.label |-> [original |-> 0]]

Passage == [i \in 1..Length |-> Character(i)]

\* text[:start] + label + text[end:], as Python slices.
Mask(text, f) ==
    SubSeq(text, 1, Min({f.start, Len(text)}))
        \o Label(f)
        \o SubSeq(text, f.end + 1, Len(text))

\* A plausible slip: the findings are replaced from left to right.
Rightmost(found) == CHOOSE f \in found : \A g \in found : f.start >= g.start

\* Of findings that do not overlap, the one that is replaced last: they are
\* replaced from right to left, so that the offsets still to come stay valid.
Leftmost(found) == CHOOSE f \in found : \A g \in found : f.start <= g.start

Redact(text, found) ==
    MapThenFoldSet(LAMBDA f, t : Mask(t, f), text, LAMBDA f : f, Leftmost, found)

-----------------------------------------------------------------------------

Finding == {f \in [start : 0..(Length - 1), end : 1..Length, label : LabelLength] :
                f.start < f.end}

Apart(f, g) == f.end <= g.start \/ g.end <= f.start

Init ==
    /\ paragraphs = <<>>
    /\ findings = {}

\* Another paragraph of the text.
Read(n) ==
    /\ findings = {}
    /\ Len(paragraphs) < MaxParagraphs
    /\ paragraphs' = Append(paragraphs, n)
    /\ UNCHANGED findings

\* scan_text: another stretch that overlaps none so far.
Find(f) ==
    /\ paragraphs = <<>>
    /\ \A g \in findings : Apart(f, g)
    /\ findings' = findings \cup {f}
    /\ UNCHANGED paragraphs

Next ==
    \/ \E n \in 0..MaxWords : Read(n)
    \/ \E f \in Finding : Find(f)

Spec == Init /\ [][Next]_vars

\* Every word of the text is in exactly one passage, in the order of the text,
\* and no passage is empty or longer than an embedding may be.
TextIsKept ==
    LET passages == ChunkText(paragraphs)
    IN  /\ FlattenSeq(passages) = FlattenSeq(Paragraphs(paragraphs))
        /\ \A k \in DOMAIN passages : Len(passages[k]) \in 1..MaxTokens

\* Of findings that do not overlap nothing is left in the redacted passage,
\* and everything else is still there, in its order.
FindingsAreMasked ==
    LET masked == UNION {(f.start + 1)..f.end : f \in findings}
        redacted == Redact(Passage, findings)
        places == DOMAIN redacted
        left == {i \in places : redacted[i].original # 0}
    IN  /\ {redacted[i].original : i \in left} = (1..Length) \ masked
        /\ \A i, j \in left : i < j => redacted[i].original < redacted[j].original
=============================================================================
