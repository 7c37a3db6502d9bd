---------------------------- MODULE SplitterProofs ----------------------------
(***************************************************************************)
(* Chunks fit, short paragraphs stay whole and no character is lost or     *)
(* doubled, for every chunk size and every content.                        *)
(***************************************************************************)
EXTENDS ContentSplitter, SequenceTheorems, TLAPS

\* Between paragraphs the buffer fits; after the first it is never empty.
BufferFits ==
  /\ pc = "take" => Len(buffer) <= SIZE
  /\ pc = "cut" \/ (pc = "take" /\ next # 1) => Len(buffer) # 0

IInv == TypeOK /\ BufferFits /\ ChunksFit

\* The spaces between paragraphs and the paragraphs are texts.
LEMMA TextTypes ==
  ASSUME TypeOK
  PROVE  /\ \A n \in Nat : Space(n) \in Seq(Char) /\ Len(Space(n)) = n
         /\ \A k \in 1 .. Len(paragraphs) :
              /\ paragraphs[k] \in Nat \ {0}
              /\ Paragraph(k) \in Seq(Char)
              /\ Len(Paragraph(k)) = paragraphs[k]
<1>1. ASSUME NEW n \in Nat, NEW k \in Nat
      PROVE  /\ [i \in 1 .. n |-> <<k, i>>] \in Seq(Char)
             /\ Len([i \in 1 .. n |-> <<k, i>>]) = n
  <2>1. [i \in 1 .. n |-> <<k, i>>] \in [1 .. n -> Char]
    BY DEF Char
  <2>. QED  BY <2>1
<1>2. \A n \in Nat : Space(n) \in Seq(Char) /\ Len(Space(n)) = n
  BY <1>1 DEF Space
<1>3. \A k \in 1 .. Len(paragraphs) : paragraphs[k] \in Nat \ {0} /\ k \in Nat
  BY DEF TypeOK
<1>4. \A k \in 1 .. Len(paragraphs) :
        Paragraph(k) \in Seq(Char) /\ Len(Paragraph(k)) = paragraphs[k]
  BY <1>1, <1>3 DEF Paragraph
<1>. QED  BY <1>2, <1>3, <1>4

\* A chunk that fits can be added.
LEMMA OneMore ==
  ASSUME TypeOK, ChunksFit, NEW text \in Seq(Char), Len(text) \in 1 .. SIZE,
         chunks' = Append(chunks, text), UNCHANGED paragraphs
  PROVE  chunks' \in Seq(Seq(Char)) /\ ChunksFit'
<1>1. chunks \in Seq(Seq(Char))
  BY DEF TypeOK
<1>2. /\ chunks' \in Seq(Seq(Char))
      /\ Len(chunks') = Len(chunks) + 1
      /\ \A j \in 1 .. Len(chunks) : chunks'[j] = chunks[j]
      /\ chunks'[Len(chunks) + 1] = text
  BY <1>1
<1>3. \A j \in 1 .. Len(chunks) + 1 : j \in 1 .. Len(chunks) \/ j = Len(chunks) + 1
  BY <1>1
<1>. QED  BY <1>1, <1>2, <1>3 DEF ChunksFit

LEMMA InitIInv == Init => IInv
<1>. USE SplitterAssumption DEF SplitterAssumption
<1>. SUFFICES ASSUME Init PROVE IInv
  OBVIOUS
<1>1. PICK n \in 0 .. MaxParagraphs : paragraphs \in [1 .. n -> 1 .. MaxLength]
  BY DEF Init
<1>2. paragraphs \in Seq(Nat \ {0})
  BY <1>1
<1>3. blank \in Nat
  BY DEF Init
<1>. QED  BY <1>2, <1>3 DEF Init, IInv, TypeOK, BufferFits, ChunksFit

LEMMA IInvStep == IInv /\ [Next]_vars => IInv'
<1>. USE SplitterAssumption DEF SplitterAssumption
<1>. SUFFICES ASSUME IInv, [Next]_vars PROVE IInv'
  OBVIOUS
<1>. USE DEF IInv
<1>1. CASE Take
  <2>1. /\ next \in 1 .. Len(paragraphs) /\ next' \in Nat \ {0}
        /\ buffer \in Seq(Char) /\ Len(buffer) <= SIZE
        /\ Len(buffer) = 0 <=> buffer = <<>>
    BY <1>1 DEF Take, TypeOK, BufferFits
  <2>2. /\ Paragraph(next) \in Seq(Char) /\ Len(Paragraph(next)) # 0
        /\ Space(2) \in Seq(Char)
    BY <2>1, TextTypes
  <2>3. /\ buffer' \in Seq(Char) /\ Len(buffer') # 0
    <3>1. CASE buffer' = Paragraph(next)
      BY <2>2, <3>1
    <3>2. CASE buffer' = buffer \o Space(2) \o Paragraph(next) /\ buffer # <<>>
      <4>. DEFINE joined == buffer \o Space(2)
                  paragraph == Paragraph(next)
      <4>1. joined \in Seq(Char) /\ Len(joined) = Len(buffer) + Len(Space(2))
        BY <2>1, <2>2
      <4>0. paragraph \in Seq(Char)
        BY <2>2
      <4>. HIDE DEF joined, paragraph
      <4>2. joined \o paragraph \in Seq(Char)
            /\ Len(joined \o paragraph) = Len(joined) + Len(paragraph)
        BY <4>0, <4>1
      <4>3. Len(Paragraph(next)) \in Nat /\ Len(Space(2)) \in Nat
            /\ Len(buffer) \in Nat
        BY <2>1, <2>2
      <4>. QED  BY <2>2, <3>2, <4>1, <4>2, <4>3 DEF joined, paragraph
    <3>. QED  BY <1>1, <3>1, <3>2 DEF Take
  <2>4. chunks' \in Seq(Seq(Char)) /\ ChunksFit'
    <3>1. CASE chunks' = Append(chunks, buffer) /\ buffer # <<>>
      BY <1>1, <2>1, <3>1, OneMore DEF Take
    <3>2. CASE chunks' = chunks
      BY <1>1, <3>2 DEF Take, TypeOK, ChunksFit
    <3>. QED  BY <1>1, <3>1, <3>2 DEF Take
  <2>. QED  BY <1>1, <2>1, <2>3, <2>4 DEF Take, TypeOK, BufferFits
<1>2. CASE Cut
  <2>1. buffer \in Seq(Char) /\ Len(buffer) # 0 /\ Len(buffer) \in Nat
    BY <1>2 DEF Cut, TypeOK, BufferFits
  <2>2. CASE Len(buffer) > SIZE
    <3>1. /\ SubSeq(buffer, 1, SIZE) \in Seq(Char)
          /\ Len(SubSeq(buffer, 1, SIZE)) \in 1 .. SIZE
          /\ SubSeq(buffer, SIZE + 1, Len(buffer)) \in Seq(Char)
          /\ Len(SubSeq(buffer, SIZE + 1, Len(buffer))) # 0
      BY <2>1, <2>2
    <3>2. chunks' \in Seq(Seq(Char)) /\ ChunksFit'
      BY <1>2, <2>2, <3>1, OneMore DEF Cut
    <3>. QED  BY <1>2, <2>2, <3>1, <3>2 DEF Cut, TypeOK, BufferFits
  <2>3. CASE Len(buffer) <= SIZE
    BY <1>2, <2>1, <2>3 DEF Cut, TypeOK, BufferFits, ChunksFit
  <2>. QED  BY <2>1, <2>2, <2>3
<1>3. CASE Finish
  <2>1. /\ buffer \in Seq(Char) /\ Len(buffer) <= SIZE
        /\ Len(buffer) = 0 <=> buffer = <<>>
    BY <1>3 DEF Finish, TypeOK, BufferFits
  <2>2. chunks' \in Seq(Seq(Char)) /\ ChunksFit'
    <3>1. CASE buffer # <<>>
      <4>1. chunks' = Append(chunks, buffer) /\ UNCHANGED paragraphs
        BY <1>3, <3>1 DEF Finish
      <4>. QED  BY <2>1, <3>1, <4>1, OneMore
    <3>2. CASE buffer = <<>> /\ chunks = <<>>
      <4>1. chunks' = <<Space(blank)>> /\ UNCHANGED paragraphs
        BY <1>3, <3>2 DEF Finish
      <4>2. Space(blank) \in Seq(Char)
        BY TextTypes DEF TypeOK
      <4>3. Len(paragraphs) \in Nat /\ Len(paragraphs) < 1
        BY <1>3, <2>1, <3>2 DEF Finish, BufferFits, TypeOK
      <4>4. paragraphs = <<>>
        BY <4>3 DEF TypeOK
      <4>. QED  BY <4>1, <4>2, <4>4 DEF ChunksFit
    <3>3. CASE buffer = <<>> /\ chunks # <<>>
      BY <1>3, <3>3 DEF Finish, TypeOK, ChunksFit
    <3>. QED  BY <3>1, <3>2, <3>3
  <2>. QED  BY <1>3, <2>1, <2>2 DEF Finish, TypeOK, BufferFits
<1>4. CASE UNCHANGED vars
  BY <1>4 DEF vars, TypeOK, BufferFits, ChunksFit
<1>. QED  BY <1>1, <1>2, <1>3, <1>4 DEF Next

LEMMA Invariance == Spec => []IInv
BY InitIInv, IInvStep, PTL DEF Spec

\* No chunk of a content with a paragraph is empty or longer than the chunk size
\* (knowledge_service.py, _split_content), whatever the content and the size.
THEOREM ChunksAlwaysFit == Spec => []ChunksFit
<1>1. IInv => ChunksFit
  BY DEF IInv
<1>. QED  BY <1>1, Invariance, PTL

------------------------------------------------------------------------------
(* Short paragraphs stay whole.                                            *)

\* A buffer that is still too long holds the rest of one long paragraph.
LongTail ==
  /\ next <= Len(paragraphs) + 1
  /\ pc = "cut" /\ Len(buffer) > SIZE =>
       /\ next > 1
       /\ paragraphs[next - 1] > SIZE
       /\ \A p \in DOMAIN buffer : buffer[p][1] = next - 1

\* Where the elements of two joined texts are
Twofold(all, a, b) ==
  /\ all \in Seq(Char) /\ Len(all) = Len(a) + Len(b)
  /\ \A p \in 1 .. Len(a) : all[p] = a[p]
  /\ \A p \in 1 .. Len(b) : all[Len(a) + p] = b[p]

LEMMA Joined ==
  ASSUME NEW a \in Seq(Char), NEW b \in Seq(Char)
  PROVE  Twofold(a \o b, a, b)
<1>1. Len(a) \in Nat /\ Len(b) \in Nat
  OBVIOUS
<1>2. /\ a \o b \in Seq(Char) /\ Len(a \o b) = Len(a) + Len(b)
      /\ \A i \in 1 .. Len(a) + Len(b) :
           (a \o b)[i] = IF i <= Len(a) THEN a[i] ELSE b[i - Len(a)]
  BY ConcatProperties
<1>3. ASSUME NEW p \in 1 .. Len(b) PROVE (a \o b)[Len(a) + p] = b[p]
  <2>1. /\ Len(a) + p \in 1 .. Len(a) + Len(b) /\ ~(Len(a) + p <= Len(a))
        /\ Len(a) + p - Len(a) = p
    BY <1>1
  <2> QED
    BY <1>2, <2>1
<1>4. ASSUME NEW p \in 1 .. Len(a) PROVE (a \o b)[p] = a[p]
  <2>1. p \in 1 .. Len(a) + Len(b) /\ p <= Len(a)
    BY <1>1
  <2> QED
    BY <1>2, <2>1
<1> QED
  BY <1>2, <1>3, <1>4 DEF Twofold

\* The same of three texts
Threefold(all, a, b, c) ==
  /\ Len(all) = Len(a) + Len(b) + Len(c)
  /\ \A p \in 1 .. Len(a) : all[p] = a[p]
  /\ \A p \in 1 .. Len(b) : all[Len(a) + p] = b[p]
  /\ \A p \in 1 .. Len(c) : all[Len(a) + Len(b) + p] = c[p]

LEMMA JoinedThree ==
  ASSUME NEW a \in Seq(Char), NEW b \in Seq(Char), NEW c \in Seq(Char)
  PROVE  Threefold((a \o b) \o c, a, b, c)
<1>1. Len(a) \in Nat /\ Len(b) \in Nat /\ Len(c) \in Nat
  OBVIOUS
<1> DEFINE d == a \o b
           all == d \o c
<1>2. Twofold(d, a, b)
  BY Joined
<1> HIDE DEF d
<1>3. Twofold(all, d, c)
  <2>1. d \in Seq(Char)
    BY <1>2 DEF Twofold
  <2> QED
    BY <2>1, Joined
<1> HIDE DEF all
<1> USE DEF Twofold
<1>4. \A p \in 1 .. Len(a) : all[p] = a[p]
  BY <1>1, <1>2, <1>3
<1>5. \A p \in 1 .. Len(b) : all[Len(a) + p] = b[p]
  <2>1. \A p \in 1 .. Len(b) : Len(a) + p \in 1 .. Len(d)
    BY <1>1, <1>2
  <2> QED
    BY <1>2, <1>3, <2>1
<1>6. Len(all) = Len(a) + Len(b) + Len(c)
  BY <1>1, <1>2, <1>3
<1>7. \A p \in 1 .. Len(c) : all[Len(a) + Len(b) + p] = c[p]
  BY <1>2, <1>3
<1>8. all = (a \o b) \o c
  BY DEF all, d
<1> QED
  BY <1>4, <1>5, <1>6, <1>7, <1>8 DEF Threefold

\* What Take leaves: a buffer with the paragraph at its end, which fits if the
\* paragraph has joined what was there.
LEMMA TakeFacts ==
  ASSUME IInv, Take
  PROVE  /\ next \in 1 .. Len(paragraphs) /\ next' = next + 1
         /\ paragraphs' = paragraphs /\ paragraphs[next] \in Nat \ {0}
         /\ Len(buffer) \in Nat
         /\ \/ /\ chunks' = chunks
               /\ Len(buffer') = Len(buffer) + 2 + paragraphs[next]
               /\ Len(buffer') <= SIZE
               /\ \A p \in 1 .. Len(buffer) : buffer'[p] = buffer[p]
               /\ \A p \in Len(buffer) + 1 .. Len(buffer) + 2 : buffer'[p][1] = 0
               /\ \A i \in 1 .. paragraphs[next] :
                    buffer'[Len(buffer) + 2 + i] = <<next, i>>
            \/ /\ chunks' = IF buffer = <<>> THEN chunks ELSE Append(chunks, buffer)
               /\ Len(buffer') = paragraphs[next]
               /\ \A i \in 1 .. paragraphs[next] : buffer'[i] = <<next, i>>
<1>1. /\ next \in 1 .. Len(paragraphs) /\ next' = next + 1
      /\ paragraphs' = paragraphs /\ buffer \in Seq(Char)
  BY DEF IInv, TypeOK, Take
<1>2. /\ paragraphs[next] \in Nat \ {0}
      /\ Paragraph(next) \in Seq(Char) /\ Len(Paragraph(next)) = paragraphs[next]
      /\ Space(2) \in Seq(Char) /\ Len(Space(2)) = 2
  BY <1>1, TextTypes DEF IInv
<1>3. /\ \A i \in 1 .. paragraphs[next] : Paragraph(next)[i] = <<next, i>>
      /\ \A i \in 1 .. 2 : Space(2)[i][1] = 0
  BY DEF Paragraph, Space
<1>4. CASE buffer # <<>> /\ Len(buffer) + paragraphs[next] + 2 <= SIZE
  <2> DEFINE a == buffer
             b == Space(2)
             c == Paragraph(next)
  <2>1. buffer' = (a \o b) \o c /\ chunks' = chunks
    BY <1>4 DEF Take
  <2>2. a \in Seq(Char) /\ b \in Seq(Char) /\ c \in Seq(Char) /\ Len(b) = 2
    BY <1>1, <1>2
  <2>3. /\ Len(c) = paragraphs[next]
        /\ \A i \in 1 .. paragraphs[next] : c[i] = <<next, i>>
        /\ \A i \in 1 .. 2 : b[i][1] = 0
    BY <1>2, <1>3
  <2> HIDE DEF b, c
  <2> HIDE DEF a
  <2>7. Threefold((a \o b) \o c, a, b, c)
    BY <2>2, JoinedThree
  <2>4. /\ Len(buffer') = Len(buffer) + 2 + Len(c)
        /\ \A p \in 1 .. Len(buffer) : buffer'[p] = buffer[p]
        /\ \A p \in 1 .. 2 : buffer'[Len(buffer) + p] = b[p]
        /\ \A p \in 1 .. Len(c) : buffer'[Len(buffer) + 2 + p] = c[p]
    BY <2>1, <2>2, <2>7 DEF a, Threefold
  <2>5. ASSUME NEW p \in Len(buffer) + 1 .. Len(buffer) + 2
        PROVE  buffer'[p][1] = 0
    <3>1. p - Len(buffer) \in 1 .. 2 /\ p = Len(buffer) + (p - Len(buffer))
      BY <1>1
    <3> QED
      BY <2>3, <2>4, <3>1
  <2>6. Len(buffer') = Len(buffer) + 2 + paragraphs[next] /\ Len(buffer') <= SIZE
    BY <1>1, <1>2, <1>4, <2>3, <2>4, SplitterAssumption
  <2>10. \A i \in 1 .. paragraphs[next] : buffer'[Len(buffer) + 2 + i] = <<next, i>>
    BY <2>3, <2>4
  <2>11. Len(buffer) \in Nat
    BY <1>1
  <2> QED
    BY <1>1, <1>2, <2>1, <2>4, <2>5, <2>6, <2>10, <2>11
<1>5. CASE ~(buffer # <<>> /\ Len(buffer) + paragraphs[next] + 2 <= SIZE)
  <2>1. /\ buffer' = Paragraph(next)
        /\ chunks' = IF buffer = <<>> THEN chunks ELSE Append(chunks, buffer)
    BY <1>5 DEF Take
  <2> QED
    BY <1>1, <1>2, <1>3, <2>1
<1> QED
  BY <1>4, <1>5

\* What Cut leaves of a buffer that is too long
LEMMA CutFacts ==
  ASSUME IInv, Cut, Len(buffer) > SIZE
  PROVE  LET head == SubSeq(buffer, 1, SIZE)
         IN  /\ chunks' = Append(chunks, head)
             /\ head \in Seq(Char) /\ Len(head) = SIZE
             /\ \A p \in 1 .. SIZE : head[p] = buffer[p]
             /\ Len(buffer') = Len(buffer) - SIZE
             /\ \A p \in 1 .. Len(buffer) - SIZE : buffer'[p] = buffer[SIZE + p]
BY SplitterAssumption DEF SplitterAssumption, IInv, TypeOK, Cut

LEMMA TailStep ==
  ASSUME IInv, LongTail, [Next]_vars
  PROVE  LongTail'
<1>1. buffer \in Seq(Char) /\ next \in Nat \ {0} /\ SIZE \in Nat \ {0}
      /\ Len(paragraphs) \in Nat
  BY SplitterAssumption DEF SplitterAssumption, IInv, TypeOK
<1>2. CASE Take
  <2>1. next' - 1 = next
    BY <1>2, TakeFacts
  <2>2. IInv'
    BY <1>2, IInvStep DEF Next
  <2>3. DOMAIN buffer' = 1 .. Len(buffer')
    BY <2>2 DEF IInv, TypeOK
  <2> QED
    BY <1>1, <1>2, <2>1, <2>3, TakeFacts DEF LongTail
<1>3. CASE Cut
  <2>1. CASE Len(buffer) > SIZE
    <3>1. IInv'
      BY <1>3, IInvStep DEF Next
    <3>2. DOMAIN buffer' = 1 .. Len(buffer') /\ DOMAIN buffer = 1 .. Len(buffer)
      BY <3>1 DEF IInv, TypeOK
    <3>3. \A p \in 1 .. Len(buffer') : buffer'[p][1] = next - 1
      <4>1. ASSUME NEW p \in 1 .. Len(buffer') PROVE buffer'[p][1] = next - 1
        <5>1. SIZE + p \in 1 .. Len(buffer) /\ buffer'[p] = buffer[SIZE + p]
          BY <1>1, <1>3, <2>1, CutFacts
        <5> QED
          BY <1>3, <2>1, <3>2, <5>1 DEF LongTail, Cut
      <4> QED
        BY <4>1
    <3> QED
      BY <1>3, <2>1, <3>2, <3>3 DEF LongTail, Cut
  <2>2. CASE ~(Len(buffer) > SIZE)
    BY <1>3, <2>2 DEF LongTail, Cut
  <2> QED
    BY <2>1, <2>2
<1>4. CASE Finish
  BY <1>4 DEF LongTail, Finish
<1>5. CASE UNCHANGED vars
  BY <1>5 DEF LongTail, vars
<1> QED
  BY <1>2, <1>3, <1>4, <1>5 DEF Next

\* One of the texts has the whole of paragraph k.
Whole(k) ==
  \/ CharsOf(k) \subseteq CharsIn(buffer)
  \/ \E j \in DOMAIN chunks : CharsOf(k) \subseteq CharsIn(chunks[j])

LEMMA AllWhole ==
  ShortParagraphsWhole <=>
    \A k \in 1 .. (next - 1) : k <= Len(paragraphs) /\ paragraphs[k] <= SIZE => Whole(k)
BY DEF ShortParagraphsWhole, Whole

\* A chunk stays, and a text that becomes one does.
LEMMA WholeKept ==
  ASSUME IInv, NEW k, paragraphs' = paragraphs,
         \/ chunks' = chunks
         \/ \E text \in Seq(Char) : chunks' = Append(chunks, text),
         \E j \in DOMAIN chunks : CharsOf(k) \subseteq CharsIn(chunks[j])
  PROVE  Whole(k)'
<1>1. PICK j \in DOMAIN chunks : CharsOf(k) \subseteq CharsIn(chunks[j])
  OBVIOUS
<1>2. j \in DOMAIN chunks' /\ chunks'[j] = chunks[j]
  <2>1. chunks \in Seq(Seq(Char)) /\ j \in 1 .. Len(chunks)
    BY DEF IInv, TypeOK
  <2>2. ASSUME NEW text \in Seq(Char), chunks' = Append(chunks, text)
        PROVE  j \in DOMAIN chunks' /\ chunks'[j] = chunks[j]
    BY <2>1, <2>2
  <2> QED
    BY <2>2
<1> QED
  BY <1>1, <1>2 DEF Whole, CharsOf, CharsIn

LEMMA BufferKept ==
  ASSUME IInv, NEW k, paragraphs' = paragraphs, chunks' = Append(chunks, buffer),
         CharsOf(k) \subseteq CharsIn(buffer)
  PROVE  Whole(k)'
<1>1. Len(chunks) + 1 \in DOMAIN chunks' /\ chunks'[Len(chunks) + 1] = buffer
  BY DEF IInv, TypeOK
<1> QED
  BY <1>1 DEF Whole, CharsOf, CharsIn

LEMMA WholeStep ==
  ASSUME IInv, LongTail, ShortParagraphsWhole, [Next]_vars
  PROVE  ShortParagraphsWhole'
<1>1. /\ buffer \in Seq(Char) /\ next \in Nat \ {0} /\ SIZE \in Nat \ {0}
      /\ Len(paragraphs) \in Nat /\ DOMAIN buffer = 1 .. Len(buffer)
      /\ \A k \in 1 .. Len(paragraphs) : paragraphs[k] \in Nat \ {0}
  BY SplitterAssumption DEF SplitterAssumption, IInv, TypeOK
<1>2. IInv'
  BY IInvStep
<1>3. DOMAIN buffer' = 1 .. Len(buffer')
  BY <1>2 DEF IInv, TypeOK
<1> SUFFICES ASSUME NEW k \in 1 .. (next' - 1),
                    k <= Len(paragraphs'), paragraphs'[k] <= SIZE
             PROVE  Whole(k)'
  BY DEF ShortParagraphsWhole, Whole
<1>4. CASE Take
  <2>1. paragraphs' = paragraphs /\ next' = next + 1
    BY <1>4, TakeFacts
  <2>2. CASE k = next
    <3>1. CharsOf(next) \subseteq CharsIn(buffer')
      <4>1. ASSUME NEW i \in 1 .. paragraphs[next]
            PROVE  \E p \in 1 .. Len(buffer') : buffer'[p] = <<next, i>>
        <5>1. /\ paragraphs[next] \in Nat \ {0} /\ Len(buffer) \in Nat
              /\ \/ /\ Len(buffer') = Len(buffer) + 2 + paragraphs[next]
                    /\ buffer'[Len(buffer) + 2 + i] = <<next, i>>
                 \/ /\ Len(buffer') = paragraphs[next]
                    /\ buffer'[i] = <<next, i>>
          BY <1>4, TakeFacts
        <5>2. CASE /\ Len(buffer') = Len(buffer) + 2 + paragraphs[next]
                   /\ buffer'[Len(buffer) + 2 + i] = <<next, i>>
          <6>1. Len(buffer) + 2 + i \in 1 .. Len(buffer')
            BY <5>1, <5>2
          <6> QED
            BY <5>2, <6>1
        <5>3. CASE Len(buffer') = paragraphs[next] /\ buffer'[i] = <<next, i>>
          BY <5>3
        <5> QED
          BY <5>1, <5>2, <5>3
      <4> QED
        BY <1>3, <4>1 DEF CharsOf, CharsIn
    <3> QED
      BY <2>1, <2>2, <3>1 DEF Whole, CharsOf
  <2>3. CASE k # next
    <3>1. Whole(k)
      BY <1>1, <2>1, <2>3, AllWhole
    <3>2. \/ chunks' = chunks
          \/ chunks' = Append(chunks, buffer)
      BY <1>4, TakeFacts
    <3>3. CASE CharsOf(k) \subseteq CharsIn(buffer)
      <4>1. <<k, 1>> \in CharsOf(k)
        BY <1>1, <2>1 DEF CharsOf
      <4>2. Len(buffer) \in Nat /\ Len(buffer) # 0
        BY <1>1, <3>3, <4>1 DEF CharsIn
      <4>3. CASE chunks' = chunks
        <5>0. buffer # <<>>
          BY <4>2
        <5>1. chunks' # Append(chunks, buffer)
          BY <4>3 DEF IInv, TypeOK
        <5>2. /\ Len(buffer') >= Len(buffer)
              /\ \A p \in 1 .. Len(buffer) : buffer'[p] = buffer[p]
          BY <1>1, <1>4, <5>0, <5>1, TakeFacts
        <5>3. CharsIn(buffer) \subseteq CharsIn(buffer')
          BY <1>1, <1>3, <5>2 DEF CharsIn
        <5> QED
          BY <2>1, <3>3, <5>3 DEF Whole, CharsOf
      <4>4. CASE chunks' = Append(chunks, buffer)
        BY <2>1, <3>3, <4>4, BufferKept
      <4> QED
        BY <3>2, <4>3, <4>4
    <3>4. CASE \E j \in DOMAIN chunks : CharsOf(k) \subseteq CharsIn(chunks[j])
      BY <1>1, <2>1, <3>2, <3>4, WholeKept
    <3> QED
      BY <3>1, <3>3, <3>4 DEF Whole
  <2> QED
    BY <2>2, <2>3
<1>5. CASE Cut
  <2>1. paragraphs' = paragraphs /\ next' = next
    BY <1>5 DEF Cut
  <2>2. Whole(k)
    BY <1>1, <2>1, AllWhole
  <2>3. CASE Len(buffer) > SIZE
    <3>1. ~(CharsOf(k) \subseteq CharsIn(buffer))
      <4>1. k # next - 1
        BY <1>1, <1>5, <2>1, <2>3 DEF LongTail, Cut
      <4>2. <<k, 1>> \in CharsOf(k)
        BY <1>1, <2>1 DEF CharsOf
      <4>3. <<k, 1>> \notin CharsIn(buffer)
        BY <1>5, <2>3, <4>1 DEF LongTail, Cut, CharsIn
      <4> QED
        BY <4>2, <4>3
    <3> QED
      BY <1>5, <2>1, <2>2, <2>3, <3>1, CutFacts, WholeKept DEF Whole
  <2>4. CASE ~(Len(buffer) > SIZE)
    BY <1>5, <2>1, <2>2, <2>4 DEF Cut, Whole, CharsOf, CharsIn
  <2> QED
    BY <2>3, <2>4
<1>6. CASE Finish
  <2>1. paragraphs' = paragraphs /\ next' = next
    BY <1>6 DEF Finish
  <2>2. Whole(k)
    BY <1>1, <2>1, AllWhole
  <2>3. <<k, 1>> \in CharsOf(k)
    BY <1>1, <2>1 DEF CharsOf
  <2>4. CASE CharsOf(k) \subseteq CharsIn(buffer)
    <3>1. buffer # <<>>
      BY <1>1, <2>3, <2>4 DEF CharsIn
    <3> QED
      BY <1>6, <2>1, <2>4, <3>1, BufferKept DEF Finish
  <2>5. CASE \E j \in DOMAIN chunks : CharsOf(k) \subseteq CharsIn(chunks[j])
    <3>1. chunks # <<>>
      BY <2>5
    <3>2. \/ chunks' = chunks
          \/ chunks' = Append(chunks, buffer)
      BY <1>6, <3>1 DEF Finish
    <3> QED
      BY <1>1, <2>1, <2>5, <3>2, WholeKept
  <2> QED
    BY <2>2, <2>4, <2>5 DEF Whole
<1>7. CASE UNCHANGED vars
  <2>1. k \in 1 .. (next - 1) /\ k <= Len(paragraphs) /\ paragraphs[k] <= SIZE
    BY <1>7 DEF vars
  <2>2. Whole(k)
    BY <2>1, AllWhole
  <2> QED
    BY <1>7, <2>2 DEF vars, Whole, CharsOf, CharsIn
<1> QED
  BY <1>4, <1>5, <1>6, <1>7 DEF Next

\* A paragraph that is no longer than a chunk is whole in one, or still in the
\* buffer (knowledge_service.py, _split_content), for every content and size.
THEOREM ShortStayWhole == Spec => []ShortParagraphsWhole
<1>1. Init => LongTail /\ ShortParagraphsWhole
  <2> SUFFICES ASSUME Init PROVE LongTail /\ ShortParagraphsWhole
    OBVIOUS
  <2>1. IInv
    BY InitIInv
  <2>2. Len(paragraphs) \in Nat /\ next = 1 /\ pc = "take"
    BY <2>1 DEF IInv, TypeOK, Init
  <2> QED
    BY <2>2 DEF LongTail, ShortParagraphsWhole
<1>2. IInv /\ LongTail /\ ShortParagraphsWhole /\ [Next]_vars
        => (LongTail /\ ShortParagraphsWhole)'
  BY TailStep, WholeStep
<1>. QED  BY <1>1, <1>2, Invariance, PTL DEF Spec

------------------------------------------------------------------------------
(* Nothing is lost.                                                        *)

\* The texts as a function from the places of letters to the characters there:
\* cs are the chunks, b is the buffer.
TextOf(cs, b, j) == IF j = Len(cs) + 1 THEN b ELSE cs[j]

PlacesOf(cs, b) ==
  {s \in Nat \X Nat : /\ s[1] \in 1 .. Len(cs) + 1
                      /\ s[2] \in 1 .. Len(TextOf(cs, b, s[1]))
                      /\ TextOf(cs, b, s[1])[s[2]][1] # 0}

Reading(cs, b) == [s \in PlacesOf(cs, b) |-> TextOf(cs, b, s[1])[s[2]]]

\* A reading has the characters of C, and in the order of the content.
Faithful(reading, C) ==
  /\ {reading[s] : s \in DOMAIN reading} = C
  /\ \A s, t \in DOMAIN reading : Before(s, t) => Before(reading[s], reading[t])

SoFar == UNION {CharsOf(k) : k \in 1 .. (next - 1)}

\* Reading g finds what reading f does, at places in the same order: old tells where
\* f finds it.
Follows(g, f, old) ==
  /\ old \in [DOMAIN g -> DOMAIN f]
  /\ \A s \in DOMAIN g : g[s] = f[old[s]]
  /\ \A t \in DOMAIN f : \E s \in DOMAIN g : old[s] = t
  /\ \A s, t \in DOMAIN g : Before(s, t) => Before(old[s], old[t])

LEMMA SameReading ==
  ASSUME NEW f, NEW g, NEW C, NEW old, Faithful(f, C), Follows(g, f, old)
  PROVE  Faithful(g, C)
<1> USE DEF Follows
<1>1. {g[s] : s \in DOMAIN g} = {f[s] : s \in DOMAIN f}
  OBVIOUS
<1>2. \A s, t \in DOMAIN g : Before(s, t) => Before(g[s], g[t])
  BY DEF Faithful
<1> QED
  BY <1>1, <1>2 DEF Faithful

\* Reading g is f with the characters of paragraph n after all there were, at the
\* places of text j that follow off.
Extends(f, g, j, off, n, len) ==
  /\ DOMAIN f \subseteq Nat \X Nat
  /\ DOMAIN g = DOMAIN f \cup {<<j, off + i>> : i \in 1 .. len}
  /\ \A s \in DOMAIN f : g[s] = f[s] /\ Before(s, <<j, off + 1>>)
  /\ \A i \in 1 .. len : g[<<j, off + i>>] = <<n, i>>

Below(C, n) == \A c \in C : c[1] \in Nat /\ c[1] < n

Line(n, len) == {<<n, i>> : i \in 1 .. len}

LEMMA LongerReading ==
  ASSUME NEW f, NEW g, NEW C, NEW n \in Nat, NEW len \in Nat,
         NEW j \in Nat, NEW off \in Nat,
         Faithful(f, C), Below(C, n), Extends(f, g, j, off, n, len)
  PROVE  Faithful(g, C \cup Line(n, len))
<1> USE DEF Extends, Below, Line
<1>1. {g[s] : s \in DOMAIN g} = C \cup {<<n, i>> : i \in 1 .. len}
  <2>1. {g[s] : s \in DOMAIN f} = C
    BY DEF Faithful
  <2>2. ASSUME NEW c
        PROVE  c \in {g[s] : s \in DOMAIN g} <=> c \in C \cup {<<n, i>> : i \in 1 .. len}
    <3>1. ASSUME c \in C PROVE c \in {g[s] : s \in DOMAIN g}
      BY <2>1, <3>1
    <3>2. ASSUME NEW i \in 1 .. len, c = <<n, i>> PROVE c \in {g[s] : s \in DOMAIN g}
      BY <3>2
    <3>3. ASSUME NEW s \in DOMAIN f, c = g[s] PROVE c \in C
      BY <2>1, <3>3
    <3>4. ASSUME NEW i \in 1 .. len, c = g[<<j, off + i>>] PROVE c = <<n, i>>
      BY <3>4
    <3>5. ASSUME c \in {g[s] : s \in DOMAIN g}
          PROVE  c \in C \/ \E i \in 1 .. len : c = <<n, i>>
      <4>1. PICK s \in DOMAIN g : c = g[s]
        BY <3>5
      <4>2. s \in DOMAIN f \/ \E i \in 1 .. len : s = <<j, off + i>>
        OBVIOUS
      <4> QED
        BY <3>3, <3>4, <4>1, <4>2
    <3> QED
      BY <3>1, <3>2, <3>5
  <2> QED
    BY <2>2
<1>2. ASSUME NEW s \in DOMAIN g, NEW t \in DOMAIN g, Before(s, t)
      PROVE  Before(g[s], g[t])
  <2>1. CASE s \in DOMAIN f /\ t \in DOMAIN f
    BY <1>2, <2>1 DEF Faithful
  <2>2. ASSUME s \in DOMAIN f, NEW i \in 1 .. len, t = <<j, off + i>>
        PROVE  Before(g[s], g[t])
    <3>1. g[s] \in C
      BY <2>2 DEF Faithful
    <3>2. g[s][1] < n /\ g[t] = <<n, i>>
      BY <2>2, <3>1
    <3> QED
      BY <3>2 DEF Before
  <2>3. ASSUME NEW i \in 1 .. len, s = <<j, off + i>>, t \in DOMAIN f
        PROVE  FALSE
    <3>1. Before(t, <<j, off + 1>>) /\ t[1] \in Nat /\ t[2] \in Nat
      BY <2>3
    <3>2. j < t[1] \/ (j = t[1] /\ off + i < t[2])
      BY <1>2, <2>3 DEF Before
    <3> QED
      BY <3>1, <3>2 DEF Before
  <2>4. ASSUME NEW i \in 1 .. len, s = <<j, off + i>>,
               NEW k \in 1 .. len, t = <<j, off + k>>
        PROVE  Before(g[s], g[t])
    <3>1. i < k
      BY <1>2, <2>4 DEF Before
    <3>2. g[s] = <<n, i>> /\ g[t] = <<n, k>>
      BY <2>4
    <3> QED
      BY <3>1, <3>2 DEF Before
  <2>5. \A u \in DOMAIN g : u \in DOMAIN f \/ \E i \in 1 .. len : u = <<j, off + i>>
    OBVIOUS
  <2>6. CASE s \in DOMAIN f
    BY <2>1, <2>2, <2>5, <2>6
  <2>7. CASE \E i \in 1 .. len : s = <<j, off + i>>
    BY <2>3, <2>4, <2>5, <2>7
  <2> QED
    BY <2>5, <2>6, <2>7
<1> QED
  BY <1>1, <1>2 DEF Faithful

\* The property, in these terms
LEMMA LettersArePlaces ==
  ASSUME NEW cs \in Seq(Seq(Char)), NEW b \in Seq(Char)
  PROVE  LET x == Append(cs, b)
         IN  /\ UNION {{<<j, p>> : p \in {q \in DOMAIN x[j] : x[j][q][1] # 0}} :
                          j \in DOMAIN x} = PlacesOf(cs, b)
             /\ \A s \in PlacesOf(cs, b) : x[s[1]][s[2]] = Reading(cs, b)[s]
<1> DEFINE x == Append(cs, b)
<1>1. /\ Len(cs) \in Nat /\ DOMAIN x = 1 .. Len(cs) + 1
      /\ \A j \in 1 .. Len(cs) + 1 : x[j] = TextOf(cs, b, j)
  BY DEF TextOf
<1>2. \A j \in 1 .. Len(cs) + 1 : TextOf(cs, b, j) \in Seq(Char)
  BY DEF TextOf
<1>3. \A j \in DOMAIN x : DOMAIN x[j] = 1 .. Len(TextOf(cs, b, j))
  BY <1>1, <1>2
<1> HIDE DEF x
<1>4. ASSUME NEW s
      PROVE  s \in UNION {{<<j, p>> : p \in {q \in DOMAIN x[j] : x[j][q][1] # 0}} :
                             j \in DOMAIN x}
               <=> s \in PlacesOf(cs, b)
  BY <1>1, <1>3 DEF PlacesOf
<1>5. UNION {{<<j, p>> : p \in {q \in DOMAIN x[j] : x[j][q][1] # 0}} :
                j \in DOMAIN x} = PlacesOf(cs, b)
  BY <1>4
<1>6. \A s \in PlacesOf(cs, b) : x[s[1]][s[2]] = Reading(cs, b)[s]
  BY <1>1 DEF PlacesOf, Reading
<1> QED
  BY <1>5, <1>6 DEF x

LEMMA NothingLostReading ==
  TypeOK => (NothingLost <=> Faithful(Reading(chunks, buffer), SoFar))
<1> SUFFICES ASSUME TypeOK
             PROVE  NothingLost <=> Faithful(Reading(chunks, buffer), SoFar)
  OBVIOUS
<1> DEFINE f == Reading(chunks, buffer)
<1>1. Letters = PlacesOf(chunks, buffer) /\ DOMAIN f = PlacesOf(chunks, buffer)
  BY LettersArePlaces DEF TypeOK, Letters, Texts, Reading
<1>2. \A s \in PlacesOf(chunks, buffer) : At(s) = f[s]
  BY LettersArePlaces DEF TypeOK, At, Texts
<1> HIDE DEF f
<1>3. NothingLost <=> Faithful(f, SoFar)
  BY <1>1, <1>2 DEF NothingLost, Faithful, SoFar
<1> QED
  BY <1>3 DEF f

\* The texts of a list x that has the text b after those of cs, and of the buffer d
OneText(x, d, cs, b) ==
  /\ Len(cs) \in Nat /\ Len(x) = Len(cs) + 1
  /\ x \in Seq(Seq(Char))
  /\ \A j \in 1 .. Len(cs) : TextOf(x, d, j) = TextOf(cs, b, j)
  /\ TextOf(x, d, Len(cs) + 1) = b
  /\ TextOf(x, d, Len(cs) + 2) = d
  /\ TextOf(cs, b, Len(cs) + 1) = b

LEMMA OneTextMore ==
  ASSUME NEW cs \in Seq(Seq(Char)), NEW b \in Seq(Char), NEW d \in Seq(Char)
  PROVE  OneText(Append(cs, b), d, cs, b)
<1> DEFINE x == Append(cs, b)
<1>1. /\ Len(cs) \in Nat /\ Len(x) = Len(cs) + 1 /\ x \in Seq(Seq(Char))
      /\ \A j \in 1 .. Len(cs) : x[j] = cs[j]
      /\ x[Len(cs) + 1] = b
  OBVIOUS
<1> HIDE DEF x
<1>2. \A j \in 1 .. Len(cs) : TextOf(x, d, j) = TextOf(cs, b, j)
  BY <1>1 DEF TextOf
<1>3. TextOf(x, d, Len(cs) + 1) = b /\ TextOf(x, d, Len(cs) + 2) = d
  BY <1>1 DEF TextOf
<1>4. TextOf(cs, b, Len(cs) + 1) = b
  BY DEF TextOf
<1> QED
  BY <1>1, <1>2, <1>3, <1>4 DEF x, OneText

\* A buffer that becomes a chunk is read as before.
LEMMA MovedReading ==
  ASSUME NEW cs \in Seq(Seq(Char)), NEW b \in Seq(Char),
         NEW e \in Seq(Char), Len(e) = 0
  PROVE  Reading(Append(cs, b), e) = Reading(cs, b)
<1>1. OneText(Append(cs, b), e, cs, b)
  BY OneTextMore
<1> DEFINE x == Append(cs, b)
<1> HIDE DEF x
<1>2. /\ Len(cs) \in Nat /\ Len(x) = Len(cs) + 1
      /\ \A j \in 1 .. Len(cs) + 1 : TextOf(x, e, j) = TextOf(cs, b, j)
      /\ TextOf(x, e, Len(cs) + 2) = e
  <2>1. OneText(x, e, cs, b)
    BY <1>1 DEF x
  <2>2. \A j \in 1 .. Len(cs) + 1 : j \in 1 .. Len(cs) \/ j = Len(cs) + 1
    BY <2>1 DEF OneText
  <2> QED
    BY <2>1, <2>2 DEF OneText
<1>3. ASSUME NEW s PROVE s \in PlacesOf(x, e) <=> s \in PlacesOf(cs, b)
  <2>1. CASE s[1] \in 1 .. Len(cs) + 1
    <3>1. s[1] \in 1 .. Len(x) + 1
      BY <1>2, <2>1
    <3>2. TextOf(x, e, s[1]) = TextOf(cs, b, s[1])
      BY <1>2, <2>1
    <3> QED
      BY <2>1, <3>1, <3>2 DEF PlacesOf
  <2>2. CASE s \in Nat \X Nat /\ s[1] = Len(cs) + 2
    BY <1>2, <2>2 DEF PlacesOf
  <2>3. CASE ~(s[1] \in 1 .. Len(cs) + 1) /\ ~(s \in Nat \X Nat /\ s[1] = Len(cs) + 2)
    <3>1. s \notin PlacesOf(cs, b)
      BY <2>3 DEF PlacesOf
    <3>2. ASSUME s \in PlacesOf(x, e) PROVE FALSE
      <4>1. s \in Nat \X Nat /\ s[1] \in 1 .. Len(x) + 1
        BY <3>2 DEF PlacesOf
      <4>2. s[1] \in Nat /\ s[1] = Len(cs) + 2
        BY <1>2, <2>3, <4>1
      <4> QED
        BY <2>3, <4>1, <4>2
    <3> QED
      BY <3>1, <3>2
  <2> QED
    BY <2>1, <2>2, <2>3
<1>4. PlacesOf(x, e) = PlacesOf(cs, b)
  BY <1>3
<1>5. \A s \in PlacesOf(cs, b) : TextOf(x, e, s[1])[s[2]] = TextOf(cs, b, s[1])[s[2]]
  BY <1>2 DEF PlacesOf
<1> QED
  BY <1>4, <1>5 DEF Reading, x

\* A buffer that grows at its end: what is added after place off are the characters
\* of paragraph n, and what is added before it is white space.
LEMMA GrownReading ==
  ASSUME NEW cs \in Seq(Seq(Char)), NEW b \in Seq(Char), NEW d \in Seq(Char),
         NEW n \in Nat \ {0}, NEW len \in Nat, NEW off \in Nat,
         Len(b) <= off, Len(d) = off + len,
         \A p \in 1 .. Len(b) : d[p] = b[p],
         \A p \in Len(b) + 1 .. off : d[p][1] = 0,
         \A i \in 1 .. len : d[off + i] = <<n, i>>,
         NEW C, Below(C, n), Faithful(Reading(cs, b), C)
  PROVE  Faithful(Reading(cs, d), C \cup Line(n, len))
<1> DEFINE f == Reading(cs, b)
           g == Reading(cs, d)
           j == Len(cs) + 1
<1>1. j \in Nat /\ Len(cs) \in Nat /\ Len(b) \in Nat
  OBVIOUS
<1>2. DOMAIN f = PlacesOf(cs, b) /\ DOMAIN g = PlacesOf(cs, d)
  BY DEF Reading
<1>3. /\ \A k \in 1 .. Len(cs) : TextOf(cs, b, k) = TextOf(cs, d, k)
      /\ TextOf(cs, b, j) = b /\ TextOf(cs, d, j) = d
  BY <1>1 DEF TextOf
<1>4. ASSUME NEW s \in PlacesOf(cs, b)
      PROVE  /\ s \in PlacesOf(cs, d)
             /\ TextOf(cs, d, s[1])[s[2]] = TextOf(cs, b, s[1])[s[2]]
             /\ Before(s, <<j, off + 1>>)
  <2>1. CASE s[1] \in 1 .. Len(cs)
    <3>1. TextOf(cs, d, s[1]) = TextOf(cs, b, s[1])
      BY <1>3, <2>1
    <3>2. s \in PlacesOf(cs, d)
      BY <3>1 DEF PlacesOf
    <3>3. s[1] < j
      BY <1>1, <2>1
    <3> QED
      BY <3>1, <3>2, <3>3 DEF Before
  <2>2. CASE s[1] = j
    <3>1. s \in Nat \X Nat /\ s[2] \in 1 .. Len(b) /\ b[s[2]][1] # 0
      BY <1>3, <2>2 DEF PlacesOf
    <3>2. s[2] \in 1 .. Len(d) /\ d[s[2]] = b[s[2]] /\ s[2] < off + 1
      BY <1>1, <3>1
    <3> QED
      BY <1>1, <1>3, <2>2, <3>1, <3>2 DEF PlacesOf, Before
  <2> QED
    BY <1>1, <2>1, <2>2 DEF PlacesOf
<1>5. ASSUME NEW i \in 1 .. len
      PROVE  <<j, off + i>> \in PlacesOf(cs, d) /\ g[<<j, off + i>>] = <<n, i>>
  <2>1. off + i \in 1 .. Len(d) /\ off + i \in Nat
    BY <1>1
  <2>2. <<j, off + i>> \in PlacesOf(cs, d)
    <3> DEFINE s == <<j, off + i>>
    <3>1. s \in Nat \X Nat /\ s[1] = j /\ s[2] = off + i /\ j \in 1 .. Len(cs) + 1
      BY <1>1, <2>1
    <3>2. TextOf(cs, d, s[1]) = d /\ d[s[2]] = <<n, i>> /\ <<n, i>>[1] # 0
      BY <1>3, <3>1
    <3> HIDE DEF s, j
    <3>3. s \in PlacesOf(cs, d)
      BY <2>1, <3>1, <3>2 DEF PlacesOf
    <3> QED
      BY <3>3 DEF s
  <2> QED
    BY <1>3, <2>2 DEF Reading
<1>6. ASSUME NEW s \in PlacesOf(cs, d), s \notin PlacesOf(cs, b)
      PROVE  \E i \in 1 .. len : s = <<j, off + i>>
  <2>1. s[1] = j
    <3>1. s[1] \in 1 .. Len(cs) + 1
      BY <1>6 DEF PlacesOf
    <3>2. s[1] \notin 1 .. Len(cs)
      BY <1>3, <1>6 DEF PlacesOf
    <3> QED
      BY <1>1, <3>1, <3>2
  <2>2. s \in Nat \X Nat /\ s[2] \in 1 .. Len(d) /\ d[s[2]][1] # 0
    BY <1>3, <2>1 DEF PlacesOf
  <2>3. s[2] \notin 1 .. Len(b)
    BY <1>1, <1>3, <1>6, <2>1, <2>2 DEF PlacesOf
  <2>4. s[2] - off \in 1 .. len
    <3>1. s[2] \notin Len(b) + 1 .. off
      BY <2>2
    <3>2. s[2] \in Nat /\ s[2] <= off + len
      BY <2>2
    <3>3. s[2] > off
      BY <1>1, <2>2, <2>3, <3>1, <3>2
    <3> QED
      BY <3>2, <3>3
  <2>5. s = <<j, off + (s[2] - off)>>
    BY <1>1, <2>1, <2>2
  <2> QED
    BY <2>4, <2>5
<1>7. DOMAIN g = DOMAIN f \cup {<<j, off + i>> : i \in 1 .. len}
  <2>1. PlacesOf(cs, d) = PlacesOf(cs, b) \cup {<<j, off + i>> : i \in 1 .. len}
    BY ONLY <1>4, <1>5, <1>6
  <2> QED
    BY <1>2, <2>1
<1>8. \A s \in DOMAIN f : g[s] = f[s] /\ Before(s, <<j, off + 1>>)
  BY <1>2, <1>4 DEF Reading
<1>9. DOMAIN f \subseteq Nat \X Nat
  BY <1>2 DEF PlacesOf
<1> HIDE DEF f, g, j
<1>10. Extends(f, g, j, off, n, len)
  BY <1>5, <1>7, <1>8, <1>9 DEF Extends
<1>11. Faithful(g, C \cup Line(n, len))
  BY <1>1, <1>10, LongerReading DEF f
<1> QED
  BY <1>11 DEF g

\* A text longer than n that is cut after its n-th character: where the characters
\* were is where they are, but for those of the tail.
LEMMA CutReading ==
  ASSUME NEW cs \in Seq(Seq(Char)), NEW b \in Seq(Char),
         NEW head \in Seq(Char), NEW tail \in Seq(Char), NEW n \in Nat,
         Len(b) > n, Len(head) = n, Len(tail) = Len(b) - n,
         \A p \in 1 .. n : head[p] = b[p],
         \A p \in 1 .. Len(b) - n : tail[p] = b[n + p],
         NEW C, Faithful(Reading(cs, b), C)
  PROVE  Faithful(Reading(Append(cs, head), tail), C)
<1>1. OneText(Append(cs, head), tail, cs, head)
  BY OneTextMore
<1> DEFINE x == Append(cs, head)
           L == Len(cs)
<1>2. Len(b) \in Nat
  OBVIOUS
<1>3. /\ L \in Nat /\ Len(x) = L + 1
      /\ \A j \in 1 .. L : TextOf(x, tail, j) = TextOf(cs, b, j)
      /\ TextOf(x, tail, L + 1) = head
      /\ TextOf(x, tail, L + 2) = tail
      /\ TextOf(cs, b, L + 1) = b
  <2>1. \A j \in 1 .. L : TextOf(cs, head, j) = TextOf(cs, b, j)
    BY <1>1 DEF TextOf, OneText
  <2>2. TextOf(cs, b, L + 1) = b
    BY DEF TextOf
  <2>3. OneText(x, tail, cs, head)
    BY <1>1
  <2> HIDE DEF x
  <2> QED
    BY <2>1, <2>2, <2>3 DEF OneText
<1> HIDE DEF x
<1> DEFINE f == Reading(cs, b)
           g == Reading(x, tail)
           old == [s \in DOMAIN g |-> IF s[1] = L + 2 THEN <<L + 1, n + s[2]>> ELSE s]
<1>4. DOMAIN f = PlacesOf(cs, b) /\ DOMAIN g = PlacesOf(x, tail)
  BY DEF Reading
<1> HIDE DEF L
<1>5. ASSUME NEW s \in DOMAIN g
      PROVE  old[s] \in DOMAIN f /\ g[s] = f[old[s]] /\ s \in Nat \X Nat
             /\ s[1] \in 1 .. L + 2 /\ (s[1] = L + 1 => s[2] <= n)
             /\ (s[1] = L + 2 => s[2] >= 1)
  <2>1. s \in Nat \X Nat /\ s[1] \in 1 .. L + 2
        /\ s[2] \in 1 .. Len(TextOf(x, tail, s[1]))
        /\ TextOf(x, tail, s[1])[s[2]][1] # 0
        /\ g[s] = TextOf(x, tail, s[1])[s[2]]
    BY <1>3, <1>4 DEF PlacesOf, Reading
  <2>2. CASE s[1] \in 1 .. L
    <3>1. old[s] = s /\ s[1] # L + 1 /\ s[1] # L + 2 /\ s[1] \in 1 .. L + 1
      BY <1>3, <2>2
    <3>2. s \in PlacesOf(cs, b)
      BY <1>3, <2>1, <2>2, <3>1 DEF PlacesOf, L
    <3>3. f[s] = g[s]
      BY <1>3, <2>1, <2>2, <3>2 DEF Reading
    <3> QED
      BY <1>4, <2>1, <3>1, <3>2, <3>3
  <2>3. CASE s[1] = L + 1
    <3>1. old[s] = s /\ s[1] # L + 2 /\ s[1] \in 1 .. L + 1
      BY <1>3, <2>3
    <3>2. s[2] \in 1 .. n /\ s[2] \in 1 .. Len(b) /\ head[s[2]] = b[s[2]]
      BY <1>2, <1>3, <2>1, <2>3
    <3>3. s \in PlacesOf(cs, b)
      BY <1>3, <2>1, <2>3, <3>1, <3>2 DEF PlacesOf, L
    <3>4. f[s] = g[s]
      BY <1>3, <2>1, <2>3, <3>2, <3>3 DEF Reading
    <3> QED
      BY <1>4, <2>1, <3>1, <3>2, <3>3, <3>4
  <2>4. CASE s[1] = L + 2
    <3>1. old[s] = <<L + 1, n + s[2]>> /\ s[1] # L + 1
      BY <1>3, <2>4
    <3>2. /\ s[2] \in 1 .. Len(b) - n /\ n + s[2] \in 1 .. Len(b)
          /\ tail[s[2]] = b[n + s[2]]
      <4>1. s[2] \in 1 .. Len(tail)
        BY <1>3, <2>1, <2>4
      <4>2. s[2] \in 1 .. Len(b) - n
        BY <4>1
      <4>3. n + s[2] \in 1 .. Len(b)
        BY ONLY <1>2, <4>2, n \in Nat
      <4> QED
        BY <4>2, <4>3
    <3> DEFINE t == <<L + 1, n + s[2]>>
    <3>3. t \in Nat \X Nat /\ t[1] = L + 1 /\ t[2] = n + s[2] /\ t[1] \in 1 .. L + 1
      BY <1>3, <2>1
    <3> HIDE DEF t
    <3>4. TextOf(cs, b, t[1])[t[2]] = TextOf(x, tail, s[1])[s[2]]
      <4>1. TextOf(cs, b, t[1]) = b /\ TextOf(x, tail, s[1]) = tail
        BY <1>3, <2>4, <3>3
      <4> QED
        BY <3>2, <3>3, <4>1
    <3>5. t \in PlacesOf(cs, b)
      <4>1. TextOf(cs, b, t[1]) = b
        BY <1>3, <3>3
      <4>2. TextOf(cs, b, t[1])[t[2]][1] # 0
        BY <2>1, <3>4
      <4> QED
        BY <3>2, <3>3, <4>1, <4>2 DEF PlacesOf, L
    <3>6. f[t] = g[s]
      BY <2>1, <3>4, <3>5 DEF Reading
    <3>7. old[s] = t /\ t \in DOMAIN f
      BY <1>4, <3>1, <3>5 DEF t
    <3>8. s[2] \in Nat /\ s[2] >= 1
      BY <3>2
    <3> QED
      BY <2>1, <3>1, <3>6, <3>7, <3>8
  <2>5. L \in Nat
    BY <1>3
  <2>6. s[1] \in 1 .. L \/ s[1] = L + 1 \/ s[1] = L + 2
    <3>1. \A k \in 1 .. L + 2 : k \in 1 .. L \/ k = L + 1 \/ k = L + 2
      BY ONLY <2>5
    <3> QED
      BY <2>1, <3>1
  <2> QED
    BY <2>2, <2>3, <2>4, <2>6
<1>6. ASSUME NEW t \in DOMAIN f PROVE \E s \in DOMAIN g : old[s] = t
  <2>1. t \in Nat \X Nat /\ t[1] \in 1 .. L + 1
        /\ t[2] \in 1 .. Len(TextOf(cs, b, t[1]))
        /\ TextOf(cs, b, t[1])[t[2]][1] # 0
    BY <1>4 DEF PlacesOf, L
  <2>2. CASE t[1] \in 1 .. L
    <3>1. t[1] \in 1 .. L + 2 /\ t[1] # L + 2
      BY <1>3, <2>2
    <3>2. t \in PlacesOf(x, tail)
      BY <1>3, <2>1, <2>2, <3>1 DEF PlacesOf
    <3> QED
      BY <1>4, <3>1, <3>2
  <2>3. CASE t[1] = L + 1 /\ t[2] <= n
    <3>1. t[1] \in 1 .. L + 2 /\ t[1] # L + 2
      BY <1>3, <2>3
    <3>2. t[2] \in 1 .. Len(head) /\ head[t[2]] = b[t[2]]
      BY <1>2, <1>3, <2>1, <2>3
    <3>3. t \in PlacesOf(x, tail)
      BY <1>3, <2>1, <2>3, <3>1, <3>2 DEF PlacesOf
    <3> QED
      BY <1>4, <3>1, <3>3
  <2>4. CASE t[1] = L + 1 /\ t[2] > n
    <3> DEFINE s == <<L + 2, t[2] - n>>
    <3>1. t[2] \in 1 .. Len(b)
      BY <1>3, <2>1, <2>4
    <3>2. t[2] - n \in 1 .. Len(tail) /\ n + (t[2] - n) = t[2]
      BY <1>2, <2>4, <3>1
    <3>3. s \in Nat \X Nat /\ s[1] = L + 2 /\ s[2] = t[2] - n /\ s[1] \in 1 .. L + 2
      BY <1>3, <3>2
    <3> HIDE DEF s
    <3>4. tail[s[2]] = b[t[2]]
      <4>1. tail[t[2] - n] = b[n + (t[2] - n)]
        BY <3>2
      <4> QED
        BY <3>2, <3>3, <4>1
    <3>5. s \in PlacesOf(x, tail)
      <4>1. TextOf(x, tail, s[1]) = tail
        BY <1>3, <3>3
      <4>2. s[1] \in 1 .. Len(x) + 1
        BY <1>3, <3>3
      <4>3. tail[s[2]][1] # 0 /\ s[2] \in 1 .. Len(tail)
        BY <1>3, <2>1, <2>4, <3>2, <3>3, <3>4
      <4> QED
        BY <3>3, <4>1, <4>2, <4>3 DEF PlacesOf
    <3>6. old[s] = <<L + 1, n + s[2]>>
      BY <1>4, <3>3, <3>5
    <3>7. old[s] = t
      <4>1. t = <<t[1], t[2]>>
        BY <2>1
      <4>2. n + s[2] = t[2]
        BY <3>2, <3>3
      <4> QED
        BY <2>4, <3>6, <4>1, <4>2
    <3> QED
      BY <1>4, <3>5, <3>7
  <2> QED
    BY <1>3, <2>1, <2>2, <2>3, <2>4
<1>7. ASSUME NEW s \in DOMAIN g, NEW t \in DOMAIN g, Before(s, t)
      PROVE  Before(old[s], old[t])
  <2>1. /\ s[1] \in Nat /\ s[2] \in Nat /\ t[1] \in Nat /\ t[2] \in Nat
        /\ s[1] \in 1 .. L + 2 /\ t[1] \in 1 .. L + 2
        /\ (s[1] = L + 1 => s[2] <= n) /\ (t[1] = L + 2 => t[2] >= 1)
    BY <1>5
  <2>2. s[1] < t[1] \/ (s[1] = t[1] /\ s[2] < t[2])
    BY <1>7 DEF Before
  <2>3. /\ old[s][1] = IF s[1] = L + 2 THEN L + 1 ELSE s[1]
        /\ old[s][2] = IF s[1] = L + 2 THEN n + s[2] ELSE s[2]
        /\ old[t][1] = IF t[1] = L + 2 THEN L + 1 ELSE t[1]
        /\ old[t][2] = IF t[1] = L + 2 THEN n + t[2] ELSE t[2]
    OBVIOUS
  <2> HIDE DEF old
  <2>4. old[s][1] < old[t][1] \/ (old[s][1] = old[t][1] /\ old[s][2] < old[t][2])
    <3>1. CASE s[1] = L + 2
      <4>1. t[1] = L + 2 /\ s[2] < t[2]
        BY <1>3, <2>1, <2>2, <3>1
      <4> QED
        BY <2>1, <2>3, <3>1, <4>1
    <3>2. CASE s[1] # L + 2 /\ t[1] = L + 2
      <4>1. old[s][1] = s[1] /\ old[s][2] = s[2] /\ old[t][1] = L + 1
            /\ old[t][2] = n + t[2]
        BY <2>3, <3>2
      <4>2. s[1] <= L \/ (s[1] = L + 1 /\ s[2] < n + t[2])
        <5>1. L \in Nat /\ t[2] >= 1
          BY <1>3, <2>1, <3>2
        <5>2. s[1] <= L \/ s[1] = L + 1
          BY <2>1, <3>2, <5>1
        <5>3. s[1] = L + 1 => s[2] <= n
          BY <2>1
        <5> QED
          BY <2>1, <5>1, <5>2, <5>3
      <4> QED
        BY <1>3, <2>1, <4>1, <4>2
    <3>3. CASE s[1] # L + 2 /\ t[1] # L + 2
      <4>1. old[s][1] = s[1] /\ old[s][2] = s[2] /\ old[t][1] = t[1] /\ old[t][2] = t[2]
        BY <2>3, <3>3
      <4> QED
        BY <2>2, <4>1
    <3> QED
      BY <3>1, <3>2, <3>3
  <2> QED
    BY <2>4 DEF Before
<1>8. old \in [DOMAIN g -> DOMAIN f]
  BY <1>5
<1>9. \A s \in DOMAIN g : g[s] = f[old[s]]
  BY <1>5
<1> HIDE DEF f, g, old
<1>10. Follows(g, f, old)
  BY <1>6, <1>7, <1>8, <1>9 DEF Follows
<1>11. Faithful(g, C)
  BY <1>10, SameReading DEF f
<1> QED
  BY <1>11 DEF g, x

\* What the texts had before Take is what the loop had reached.
LEMMA SoFarFacts ==
  ASSUME IInv
  PROVE  /\ Below(SoFar, next)
         /\ UNION {CharsOf(k) : k \in 1 .. next} =
              SoFar \cup {<<next, i>> : i \in 1 .. paragraphs[next]}
<1>1. next \in Nat \ {0}
  BY DEF IInv, TypeOK
<1>2. Below(SoFar, next)
  <2>1. ASSUME NEW k \in 1 .. (next - 1), NEW c \in CharsOf(k)
        PROVE  c[1] \in Nat /\ c[1] < next
    BY <1>1 DEF CharsOf
  <2> QED
    BY <2>1 DEF Below, SoFar
<1>3. 1 .. next = (1 .. (next - 1)) \cup {next}
  BY <1>1
<1>4. UNION {CharsOf(k) : k \in 1 .. next} = SoFar \cup CharsOf(next)
  BY <1>3 DEF SoFar
<1> QED
  BY <1>2, <1>4 DEF CharsOf

LEMMA TakeKeepsAll ==
  ASSUME IInv, NothingLost, Take
  PROVE  Faithful(Reading(chunks', buffer'), SoFar')
<1> DEFINE len == paragraphs[next]
<1>1. /\ next \in Nat \ {0} /\ next' = next + 1 /\ paragraphs' = paragraphs
      /\ len \in Nat /\ len # 0
  BY TakeFacts DEF IInv, TypeOK
<1>2. /\ chunks \in Seq(Seq(Char)) /\ buffer \in Seq(Char)
      /\ buffer' \in Seq(Char)
  <2>1. IInv'
    BY IInvStep DEF Next
  <2> QED
    BY <2>1 DEF IInv, TypeOK
<1>3. Faithful(Reading(chunks, buffer), SoFar)
  BY NothingLostReading DEF IInv
<1>4. Below(SoFar, next) /\ SoFar' = SoFar \cup Line(next, len)
  <2>1. next' - 1 = next
    BY <1>1
  <2>2. SoFar' = UNION {CharsOf(k) : k \in 1 .. next}
    BY <1>1, <2>1 DEF SoFar, CharsOf
  <2> QED
    BY <2>2, SoFarFacts DEF Line
<1>5. CASE /\ chunks' = chunks
           /\ Len(buffer') = Len(buffer) + 2 + len
           /\ \A p \in 1 .. Len(buffer) : buffer'[p] = buffer[p]
           /\ \A p \in Len(buffer) + 1 .. Len(buffer) + 2 : buffer'[p][1] = 0
           /\ \A i \in 1 .. len : buffer'[Len(buffer) + 2 + i] = <<next, i>>
  <2> DEFINE off == Len(buffer) + 2
  <2>1. /\ off \in Nat /\ Len(buffer) <= off /\ Len(buffer') = off + len
        /\ \A p \in Len(buffer) + 1 .. off : buffer'[p][1] = 0
        /\ \A i \in 1 .. len : buffer'[off + i] = <<next, i>>
    BY <1>2, <1>5
  <2> HIDE DEF off, len
  <2>2. Faithful(Reading(chunks, buffer'), SoFar \cup Line(next, len))
    BY <1>1, <1>2, <1>3, <1>4, <1>5, <2>1, GrownReading
  <2> QED
    BY <1>4, <1>5, <2>2
<1>6. CASE /\ chunks' = IF buffer = <<>> THEN chunks ELSE Append(chunks, buffer)
           /\ Len(buffer') = len
           /\ \A i \in 1 .. len : buffer'[i] = <<next, i>>
  <2> DEFINE e == <<>>
  <2>1. e \in Seq(Char) /\ Len(e) = 0
    OBVIOUS
  <2>2. chunks' \in Seq(Seq(Char)) /\ Faithful(Reading(chunks', e), SoFar)
    <3>1. CASE buffer = <<>>
      BY <1>2, <1>3, <1>6, <3>1
    <3>2. CASE buffer # <<>>
      <4> HIDE DEF e
      <4>1. chunks' = Append(chunks, buffer) /\ chunks' \in Seq(Seq(Char))
        BY <1>2, <1>6, <3>2
      <4>2. Reading(chunks', e) = Reading(chunks, buffer)
        BY <1>2, <2>1, <4>1, MovedReading
      <4> QED
        BY <1>3, <4>1, <4>2
    <3> QED
      BY <3>1, <3>2
  <2> HIDE DEF e, len
  <2>3. /\ 0 \in Nat /\ Len(e) <= 0 /\ Len(buffer') = 0 + len
        /\ \A p \in 1 .. Len(e) : buffer'[p] = e[p]
        /\ \A p \in Len(e) + 1 .. 0 : buffer'[p][1] = 0
        /\ \A i \in 1 .. len : buffer'[0 + i] = <<next, i>>
    BY <1>1, <1>6, <2>1
  <2>4. Faithful(Reading(chunks', buffer'), SoFar \cup Line(next, len))
    BY <1>1, <1>2, <1>4, <2>1, <2>2, <2>3, GrownReading
  <2> QED
    BY <1>4, <2>4
<1> QED
  BY <1>5, <1>6, TakeFacts

LEMMA CutKeepsAll ==
  ASSUME IInv, NothingLost, Cut
  PROVE  Faithful(Reading(chunks', buffer'), SoFar')
<1>1. /\ chunks \in Seq(Seq(Char)) /\ buffer \in Seq(Char)
      /\ buffer' \in Seq(Char) /\ SIZE \in Nat
  <2>1. IInv'
    BY IInvStep DEF Next
  <2> QED
    BY <2>1, SplitterAssumption DEF SplitterAssumption, IInv, TypeOK
<1>2. Faithful(Reading(chunks, buffer), SoFar)
  BY NothingLostReading DEF IInv
<1>3. SoFar' = SoFar
  BY DEF Cut, SoFar, CharsOf
<1>4. CASE Len(buffer) > SIZE
  <2>1. PICK head \in Seq(Char) :
          /\ chunks' = Append(chunks, head) /\ Len(head) = SIZE
          /\ \A p \in 1 .. SIZE : head[p] = buffer[p]
          /\ Len(buffer') = Len(buffer) - SIZE
          /\ \A p \in 1 .. Len(buffer) - SIZE : buffer'[p] = buffer[SIZE + p]
    BY <1>4, CutFacts
  <2>2. Faithful(Reading(Append(chunks, head), buffer'), SoFar)
    BY <1>1, <1>2, <1>4, <2>1, CutReading
  <2> QED
    BY <1>3, <2>1, <2>2
<1>5. CASE ~(Len(buffer) > SIZE)
  BY <1>2, <1>3, <1>5 DEF Cut
<1> QED
  BY <1>4, <1>5

LEMMA FinishKeepsAll ==
  ASSUME IInv, NothingLost, Finish
  PROVE  Faithful(Reading(chunks', buffer'), SoFar')
<1>1. chunks \in Seq(Seq(Char)) /\ buffer \in Seq(Char) /\ buffer' = <<>>
  BY DEF Finish, IInv, TypeOK
<1>2. Faithful(Reading(chunks, buffer), SoFar)
  BY NothingLostReading DEF IInv
<1>3. SoFar' = SoFar
  BY DEF Finish, SoFar, CharsOf
<1> DEFINE e == <<>>
<1>4. e \in Seq(Char) /\ Len(e) = 0 /\ buffer' = e
  BY <1>1
<1>5. CASE chunks' = Append(chunks, buffer)
  <2> HIDE DEF e
  <2>1. Reading(Append(chunks, buffer), e) = Reading(chunks, buffer)
    BY <1>1, <1>4, MovedReading
  <2> QED
    BY <1>2, <1>3, <1>4, <1>5, <2>1
<1>6. CASE buffer = <<>> /\ chunks' = chunks
  BY <1>1, <1>2, <1>3, <1>6
<1>7. CASE buffer = <<>> /\ chunks = <<>> /\ chunks' = <<Space(blank)>>
  <2> DEFINE white == Space(blank)
  <2>1. white \in Seq(Char) /\ Append(<<>>, white) = chunks' /\ chunks = e /\ buffer = e
        /\ e \in Seq(Seq(Char))
    BY <1>7, TextTypes DEF IInv, TypeOK
  <2>2. \A p \in 1 .. Len(white) : white[p][1] = 0
    <3>1. Len(white) = blank
      BY TextTypes DEF IInv, TypeOK
    <3>2. \A p \in 1 .. blank : white[p][1] = 0
      BY DEF Space
    <3> QED
      BY <3>1, <3>2
  <2> HIDE DEF e, white
  <2>3. Reading(chunks', e) = Reading(e, white)
    BY <1>4, <2>1, MovedReading DEF e
  <2>4. PlacesOf(e, white) = {} /\ PlacesOf(e, e) = {}
    BY <1>4, <2>2 DEF PlacesOf, TextOf
  <2>5. Reading(e, white) = Reading(e, e)
    BY <2>4 DEF Reading
  <2> QED
    BY <1>2, <1>3, <1>4, <2>1, <2>3, <2>5
<1> QED
  BY <1>5, <1>6, <1>7 DEF Finish

\* The texts have every character of the paragraphs so far, once, in the order of the
\* content, and no other (knowledge_service.py, _split_content): for every content and
\* chunk size no cut loses or doubles a character.
THEOREM AllKept == Spec => []NothingLost
<1>1. ASSUME Init PROVE NothingLost
  <2> DEFINE e == <<>>
  <2>1. TypeOK /\ e \in Seq(Char) /\ e \in Seq(Seq(Char)) /\ Len(e) = 0
        /\ chunks = e /\ buffer = e
    BY <1>1, InitIInv DEF IInv, Init
  <2>2. SoFar = {}
    BY <1>1 DEF Init, SoFar
  <2> HIDE DEF e
  <2>3. PlacesOf(e, e) = {}
    BY <2>1 DEF PlacesOf, TextOf
  <2>4. Faithful(Reading(e, e), {})
    BY <2>3 DEF Faithful, Reading
  <2> QED
    BY <2>1, <2>2, <2>4, NothingLostReading
<1>2. ASSUME IInv, NothingLost, [Next]_vars PROVE NothingLost'
  <2>1. IInv'
    BY <1>2, IInvStep
  <2>2. CASE UNCHANGED vars
    BY <1>2, <2>2 DEF vars, NothingLost, Letters, At, Texts, CharsOf
  <2>3. CASE Next
    <3>1. Faithful(Reading(chunks', buffer'), SoFar')
      BY <1>2, <2>3, TakeKeepsAll, CutKeepsAll, FinishKeepsAll DEF Next
    <3>2. /\ Letters' = PlacesOf(chunks', buffer')
          /\ DOMAIN Reading(chunks', buffer') = PlacesOf(chunks', buffer')
      BY <2>1, LettersArePlaces DEF IInv, TypeOK, Letters, Texts, Reading
    <3>3. \A s \in PlacesOf(chunks', buffer') : At(s)' = Reading(chunks', buffer')[s]
      BY <2>1, LettersArePlaces DEF IInv, TypeOK, At, Texts
    <3> QED
      BY <3>1, <3>2, <3>3 DEF NothingLost, Faithful, SoFar
  <2> QED
    BY <1>2, <2>2, <2>3
<1>. QED  BY <1>1, <1>2, Invariance, PTL DEF Spec

=============================================================================
