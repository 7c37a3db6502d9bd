---------------------------- MODULE ContentSplitter ----------------------------
(***************************************************************************)
(* _split_content: how the content of an article is cut in chunks.         *)
(* Paragraphs are gathered in a buffer while they fit; a buffer that is    *)
(* too long is cut at SIZE characters.                                     *)
(*                                                                         *)
(* A character is <<k, i>>, the i-th of paragraph k; those of paragraph 0  *)
(* are the white space between paragraphs, or that of a content without    *)
(* any.                                                                    *)
(***************************************************************************)
EXTENDS Naturals, Sequences

CONSTANTS
  SIZE,           \* _CHUNK_SIZE, 500 in the code
  MaxParagraphs,  \* bound: paragraphs of a content
  MaxLength       \* bound: length of a paragraph, or of a blank content

ASSUME SplitterAssumption ==
  /\ SIZE \in Nat \ {0}
  /\ MaxParagraphs \in Nat
  /\ MaxLength \in Nat

VARIABLES
  paragraphs,  \* lengths of the content's paragraphs: stripped, not empty
  blank,       \* length of a content that is all white space
  next,        \* the paragraph the loop is at
  buffer,      \* text gathered for the next chunk
  chunks,      \* the chunks so far
  pc           \* "take", "cut" or "done"

vars == <<paragraphs, blank, next, buffer, chunks, pc>>

Char == Nat \X Nat

Space(n) == [i \in 1 .. n |-> <<0, i>>]

Paragraph(k) == [i \in 1 .. paragraphs[k] |-> <<k, i>>]

TypeOK ==
  /\ paragraphs \in Seq(Nat \ {0})
  /\ blank \in Nat
  /\ next \in Nat \ {0}
  /\ buffer \in Seq(Char)
  /\ chunks \in Seq(Seq(Char))
  /\ pc \in {"take", "cut", "done"}

\* An article has a content of at least one character.
Init ==
  /\ \E n \in 0 .. MaxParagraphs : paragraphs \in [1 .. n -> 1 .. MaxLength]
  /\ IF paragraphs = <<>> THEN blank \in 1 .. MaxLength ELSE blank = 0
  /\ next = 1
  /\ buffer = <<>>
  /\ chunks = <<>>
  /\ pc = "take"

\* a bug: the separator is not counted
TakeForgettingSeparator ==
  /\ pc = "take"
  /\ next <= Len(paragraphs)
  /\ IF buffer # <<>> /\ Len(buffer) + paragraphs[next] <= SIZE
       THEN /\ buffer' = buffer \o Space(2) \o Paragraph(next)
            /\ UNCHANGED chunks
       ELSE /\ buffer' = Paragraph(next)
            /\ chunks' = IF buffer = <<>> THEN chunks ELSE Append(chunks, buffer)
  /\ next' = next + 1
  /\ pc' = "cut"
  /\ UNCHANGED <<paragraphs, blank>>

\* The next paragraph joins the buffer if both fit with the empty line between
\* them; else the buffer becomes a chunk and the paragraph starts the next one.
Take ==
  /\ pc = "take"
  /\ next <= Len(paragraphs)
  /\ IF buffer # <<>> /\ Len(buffer) + paragraphs[next] + 2 <= SIZE
       THEN /\ buffer' = buffer \o Space(2) \o Paragraph(next)
            /\ UNCHANGED chunks
       ELSE /\ buffer' = Paragraph(next)
            /\ chunks' = IF buffer = <<>> THEN chunks ELSE Append(chunks, buffer)
  /\ next' = next + 1
  /\ pc' = "cut"
  /\ UNCHANGED <<paragraphs, blank>>

\* a bug: a buffer is cut once at most
CutOnce ==
  /\ pc = "cut"
  /\ IF Len(buffer) > SIZE
       THEN /\ chunks' = Append(chunks, SubSeq(buffer, 1, SIZE))
            /\ buffer' = SubSeq(buffer, SIZE + 1, Len(buffer))
       ELSE UNCHANGED <<buffer, chunks>>
  /\ pc' = "take"
  /\ UNCHANGED <<paragraphs, blank, next>>

\* a bug: the character at the cut is skipped
CutSkipping ==
  /\ pc = "cut"
  /\ IF Len(buffer) > SIZE
       THEN /\ chunks' = Append(chunks, SubSeq(buffer, 1, SIZE))
            /\ buffer' = SubSeq(buffer, SIZE + 2, Len(buffer))
            /\ UNCHANGED pc
       ELSE /\ pc' = "take"
            /\ UNCHANGED <<buffer, chunks>>
  /\ UNCHANGED <<paragraphs, blank, next>>

\* A buffer that is too long is cut at SIZE, again and again.
Cut ==
  /\ pc = "cut"
  /\ IF Len(buffer) > SIZE
       THEN /\ chunks' = Append(chunks, SubSeq(buffer, 1, SIZE))
            /\ buffer' = SubSeq(buffer, SIZE + 1, Len(buffer))
            /\ UNCHANGED pc
       ELSE /\ pc' = "take"
            /\ UNCHANGED <<buffer, chunks>>
  /\ UNCHANGED <<paragraphs, blank, next>>

\* a bug: a blank content has no chunk
FinishWithoutBlank ==
  /\ pc = "take"
  /\ next > Len(paragraphs)
  /\ chunks' = IF buffer # <<>> THEN Append(chunks, buffer) ELSE chunks
  /\ buffer' = <<>>
  /\ pc' = "done"
  /\ UNCHANGED <<paragraphs, blank, next>>

\* What is left in the buffer is the last chunk; a blank content is one chunk,
\* whatever its length.
Finish ==
  /\ pc = "take"
  /\ next > Len(paragraphs)
  /\ chunks' = IF buffer # <<>> THEN Append(chunks, buffer)
               ELSE IF chunks = <<>> THEN <<Space(blank)>> ELSE chunks
  /\ buffer' = <<>>
  /\ pc' = "done"
  /\ UNCHANGED <<paragraphs, blank, next>>

Next == Take \/ Cut \/ Finish

Spec == Init /\ [][Next]_vars

\* The function runs.
FairSpec == Spec /\ WF_vars(Next)

------------------------------------------------------------------------------
(* Properties.                                                             *)

\* No chunk of a content with a paragraph is empty or longer than _CHUNK_SIZE.
ChunksFit ==
  paragraphs # <<>> =>
    \A j \in DOMAIN chunks : Len(chunks[j]) \in 1 .. SIZE

CharsOf(k) == {<<k, i>> : i \in 1 .. paragraphs[k]}

CharsIn(text) == {text[i] : i \in DOMAIN text}

\* The cuts only hit paragraphs longer than a chunk: a shorter one is whole in one.
ShortParagraphsWhole ==
  \A k \in 1 .. (next - 1) :
    k <= Len(paragraphs) /\ paragraphs[k] <= SIZE =>
      \E text \in {buffer} \cup {chunks[j] : j \in DOMAIN chunks} :
        CharsOf(k) \subseteq CharsIn(text)

\* The order of places in a list of texts, and that of characters in the content
Before(a, b) == a[1] < b[1] \/ (a[1] = b[1] /\ a[2] < b[2])

Texts == Append(chunks, buffer)

\* The characters of paragraphs among the texts, by their places: <<text, place in it>>
Letters ==
  UNION {{<<j, p>> : p \in {q \in DOMAIN Texts[j] : Texts[j][q][1] # 0}} : j \in DOMAIN Texts}

At(place) == Texts[place[1]][place[2]]

\* The texts have every character of the paragraphs so far, once and in the order of
\* the content, and no other: a search finds what the article says.
NothingLost ==
  /\ {At(s) : s \in Letters} = UNION {CharsOf(k) : k \in 1 .. (next - 1)}
  /\ \A s, t \in Letters : Before(s, t) => Before(At(s), At(t))

\* The loop ends, with at least one chunk.
SplitEnds == <>(pc = "done" /\ chunks # <<>>)

=============================================================================
