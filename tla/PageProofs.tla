------------------------------ MODULE PageProofs ------------------------------
(***************************************************************************)
(* What the copilot page shows is in the conversation it shows, for any    *)
(* number of connections, questions and views.                             *)
(***************************************************************************)
EXTENDS CopilotPage, FiniteSetTheorems, SequenceTheorems, TLAPS

In(n, seq) == \E i \in DOMAIN seq : seq[i] = n

Distinct(seq) == \A i, j \in DOMAIN seq : seq[i] = seq[j] => i = j

\* The page shows the answer to question n.
Shows(n) == \E i \in AnswersIn(messages) : messages[i][2] = n

Serving(c) == handler[c] \in {"idle", "turn"}

\* The places of the events of a kind on their way
Events(c, kind) == {i \in DOMAIN outbox[c] : outbox[c][i].kind = kind}

\* The handlers that have resolved their conversation or given up: they made what
\* conversations there are.
Begun == {c \in Connections : handler[c] \notin {"none", "accepted"}}

\* Connections are used one after another, and one at most is up: the view's.
Link ==
  /\ socket <= used
  /\ \A c \in Connections : c > used =>
       /\ side[c] = "none" /\ handler[c] = "none"
       /\ inbox[c] = <<>> /\ outbox[c] = <<>>
  /\ \A c \in Connections : Up(c) => c = socket
  /\ \A c \in Connections : Serving(c) => serves[c] # 0
  /\ \A c \in Connections : handler[c] = "turn" <=> turn[c] # 0
  /\ created <= Cardinality(Begun)

\* A question that waits for a connection is the one at work.
Waiting ==
  queue # <<>> => pending /\ ~(socket # 0 /\ side[socket] = "open")

\* Question n is in one place at most, and in none before it is asked.
Placed(n) ==
  /\ \/ In(n, queue)
     \/ \E c \in Connections : In(n, inbox[c]) \/ turn[c] = n
     \/ \E v \in Conversations : In(n, history[v])
     => n <= asked
  /\ In(n, queue) => \A c \in Connections : ~In(n, inbox[c]) /\ turn[c] # n
  /\ \A c \in Connections :
       /\ In(n, inbox[c]) => \A d \in Connections : turn[d] # n
       /\ In(n, inbox[c]) => \A d \in Connections : In(n, inbox[d]) => d = c
       /\ turn[c] = n => \A d \in Connections : turn[d] = n => d = c
  /\ \A v \in Conversations : In(n, history[v]) =>
       /\ ~In(n, queue)
       /\ \A c \in Connections : ~In(n, inbox[c]) /\ turn[c] # n

\* A question is in one place, whatever became of its connection.
OnePlace ==
  /\ \A n \in Turns : Placed(n)
  /\ \A c \in Connections : Distinct(inbox[c])
  /\ \A v \in Conversations : Distinct(history[v])

\* What is on its way on a connection that is up: first the opening,
Opens(c) ==
  /\ handler[c] = "none" => side[c] = "connecting" /\ outbox[c] = <<>>
  /\ side[c] = "connecting" /\ handler[c] # "none" => 1 \in Events(c, "open")
  /\ side[c] = "open" => Events(c, "open") = {}
  /\ Events(c, "open") \subseteq {1}

\* then the history of the conversation, with every answer the page shows,
Resumes(c) ==
  /\ handler[c] \in {"none", "accepted"} => serves[c] = shown
  /\ Serving(c) => Events(c, "ready") # {} \/ shown = serves[c]
  /\ \A i \in Events(c, "ready") :
       /\ Serving(c) /\ Events(c, "ready") = {i}
       /\ outbox[c][i].conversation = serves[c]
       /\ Distinct(outbox[c][i].turns)
       /\ \A n \in Turns : /\ In(n, outbox[c][i].turns) => In(n, history[serves[c]])
                           /\ Shows(n) => In(n, outbox[c][i].turns)

\* then answers that are neither in that history nor on the page.
Brings(c) ==
  \A j \in Events(c, "answer") :
    /\ Serving(c) /\ outbox[c][j].turns # <<>>
    /\ In(outbox[c][j].turns[1], history[serves[c]])
    /\ \A i \in Events(c, "ready") :
         i < j /\ ~In(outbox[c][j].turns[1], outbox[c][i].turns)
    /\ Events(c, "ready") = {} => ~Shows(outbox[c][j].turns[1])
    /\ \A k \in Events(c, "answer") :
         outbox[c][j].turns[1] = outbox[c][k].turns[1] => j = k

Stream(c) == Opens(c) /\ Resumes(c) /\ Brings(c)

Streams == \A c \in Connections : Up(c) => Stream(c)

IInv ==
  /\ TypeOK
  /\ Link
  /\ Waiting
  /\ OnePlace
  /\ Streams
  /\ AnswersAreHistory

------------------------------------------------------------------------------
(* Sequences that grow at their end and shrink at their head.              *)

LEMMA AppendFacts ==
  ASSUME NEW S, NEW seq \in Seq(S), NEW e \in S
  PROVE  /\ Append(seq, e) \in Seq(S)
         /\ DOMAIN Append(seq, e) = 1 .. (Len(seq) + 1)
         /\ \A i \in 1 .. Len(seq) : Append(seq, e)[i] = seq[i]
         /\ Append(seq, e)[Len(seq) + 1] = e
         /\ \A n : In(n, Append(seq, e)) <=> In(n, seq) \/ n = e
         /\ Distinct(seq) /\ ~In(e, seq) => Distinct(Append(seq, e))
<1> DEFINE new == Append(seq, e)
<1>1. /\ new \in Seq(S)
      /\ DOMAIN new = 1 .. (Len(seq) + 1) /\ DOMAIN seq = 1 .. Len(seq)
      /\ \A i \in 1 .. Len(seq) : new[i] = seq[i]
      /\ new[Len(seq) + 1] = e
      /\ Len(seq) \in Nat
  OBVIOUS
<1> HIDE DEF new
<1>2. \A i \in 1 .. (Len(seq) + 1) : i \in 1 .. Len(seq) \/ i = Len(seq) + 1
  BY <1>1
<1>3. Len(seq) + 1 \in DOMAIN new /\ \A i \in 1 .. Len(seq) : i \in DOMAIN new
  BY <1>1
<1>4. \A n : In(n, new) <=> In(n, seq) \/ n = e
  BY <1>1, <1>2, <1>3 DEF In
<1>5. Distinct(seq) /\ ~In(e, seq) => Distinct(new)
  BY <1>1, <1>2, <1>3 DEF In, Distinct
<1> QED
  BY <1>1, <1>4, <1>5 DEF new

LEMMA TailFacts ==
  ASSUME NEW S, NEW seq \in Seq(S), seq # <<>>
  PROVE  /\ Head(seq) \in S /\ Head(seq) = seq[1] /\ 1 \in DOMAIN seq
         /\ Tail(seq) \in Seq(S)
         /\ Len(seq) \in Nat \ {0} /\ DOMAIN seq = 1 .. Len(seq)
         /\ DOMAIN Tail(seq) = 1 .. (Len(seq) - 1)
         /\ \A i \in 1 .. (Len(seq) - 1) : Tail(seq)[i] = seq[i + 1]
         /\ In(Head(seq), seq)
         /\ \A n : In(n, Tail(seq)) => In(n, seq)
         /\ Distinct(seq) => Distinct(Tail(seq)) /\ ~In(Head(seq), Tail(seq))
<1> DEFINE rest == Tail(seq)
<1>1. /\ Head(seq) \in S /\ Head(seq) = seq[1] /\ 1 \in DOMAIN seq
      /\ rest \in Seq(S)
      /\ DOMAIN seq = 1 .. Len(seq)
      /\ Len(seq) \in Nat \ {0}
      /\ DOMAIN rest = 1 .. (Len(seq) - 1)
      /\ \A i \in 1 .. (Len(seq) - 1) : rest[i] = seq[i + 1]
  OBVIOUS
<1> HIDE DEF rest
<1>2. \A i \in 1 .. (Len(seq) - 1) : i + 1 \in DOMAIN seq /\ i + 1 # 1
  BY <1>1
<1>3. In(Head(seq), seq) /\ \A n : In(n, rest) => In(n, seq)
  BY <1>1, <1>2 DEF In
<1>4. Distinct(seq) => Distinct(rest) /\ ~In(Head(seq), rest)
  <2> SUFFICES ASSUME Distinct(seq)
               PROVE  Distinct(rest) /\ ~In(Head(seq), rest)
    OBVIOUS
  <2>1. ASSUME NEW i \in DOMAIN rest, NEW j \in DOMAIN rest, rest[i] = rest[j]
        PROVE  i = j
    <3>1. i \in 1 .. (Len(seq) - 1) /\ j \in 1 .. (Len(seq) - 1)
      BY <1>1
    <3>2. /\ i + 1 \in DOMAIN seq /\ j + 1 \in DOMAIN seq
          /\ seq[i + 1] = seq[j + 1]
      BY <1>1, <1>2, <2>1, <3>1
    <3>3. i + 1 = j + 1
      BY <3>2, Zenon DEF Distinct
    <3> QED
      BY <3>1, <3>3
  <2>2. ~In(Head(seq), rest)
    BY <1>1, <1>2 DEF In, Distinct
  <2> QED
    BY <2>1, <2>2 DEF Distinct
<1> QED
  BY <1>1, <1>3, <1>4 DEF rest

\* What fromHistory shows of a history
LEMMA EntriesFacts ==
  ASSUME NEW turns \in Seq(Turns)
  PROVE  /\ Entries(turns) \in Seq(Entry)
         /\ \A n : (\E i \in AnswersIn(Entries(turns)) : Entries(turns)[i][2] = n)
                   <=> In(n, turns)
         /\ Distinct(turns) =>
              \A i, j \in AnswersIn(Entries(turns)) :
                Entries(turns)[i][2] = Entries(turns)[j][2] => i = j
<1> DEFINE L == Len(turns)
           E == Entries(turns)
<1>1. L \in Nat /\ DOMAIN turns = 1 .. L /\ \A k \in 1 .. L : turns[k] \in Turns
  OBVIOUS
<1>2. E = [i \in 1 .. 2 * L |->
             <<IF i % 2 = 1 THEN "question" ELSE "answer", turns[(i + 1) \div 2]>>]
  BY DEF Entries
<1> HIDE DEF L, E
<1>3. \A i \in 1 .. 2 * L : (i + 1) \div 2 \in 1 .. L
  BY <1>1
<1>4. \A i \in 1 .. 2 * L : i % 2 # 1 => i = 2 * ((i + 1) \div 2)
  BY <1>1
<1>5. \A k \in 1 .. L : /\ 2 * k \in 1 .. 2 * L
                        /\ (2 * k) % 2 # 1
                        /\ (2 * k + 1) \div 2 = k
  BY <1>1
<1>6. E \in Seq(Entry)
  <2>1. \A i \in 1 .. 2 * L : E[i] \in Entry
    BY <1>1, <1>2, <1>3 DEF Entry
  <2>2. DOMAIN E = 1 .. 2 * L /\ 2 * L \in Nat
    BY <1>1, <1>2
  <2>3. E \in [1 .. 2 * L -> Entry]
    BY <1>2, <2>1, <2>2
  <2> QED
    BY <2>2, <2>3
<1>7. \A i \in AnswersIn(E) : /\ (i + 1) \div 2 \in 1 .. L
                              /\ i = 2 * ((i + 1) \div 2)
                              /\ E[i][2] = turns[(i + 1) \div 2]
  <2> SUFFICES ASSUME NEW i \in AnswersIn(E)
               PROVE  /\ (i + 1) \div 2 \in 1 .. L
                      /\ i = 2 * ((i + 1) \div 2)
                      /\ E[i][2] = turns[(i + 1) \div 2]
    OBVIOUS
  <2>1. i \in 1 .. 2 * L /\ E[i][1] = "answer"
    BY <1>2 DEF AnswersIn
  <2>2. E[i] = <<IF i % 2 = 1 THEN "question" ELSE "answer", turns[(i + 1) \div 2]>>
    BY <1>2, <2>1
  <2> QED
    BY <1>3, <1>4, <2>1, <2>2
<1>8. \A k \in 1 .. L : 2 * k \in AnswersIn(E) /\ E[2 * k][2] = turns[k]
  <2> SUFFICES ASSUME NEW k \in 1 .. L
               PROVE  2 * k \in AnswersIn(E) /\ E[2 * k][2] = turns[k]
    OBVIOUS
  <2>1. 2 * k \in DOMAIN E
    BY <1>2, <1>5
  <2>2. E[2 * k] = <<"answer", turns[k]>>
    BY <1>2, <1>5
  <2> QED
    BY <2>1, <2>2 DEF AnswersIn
<1>9. \A n : (\E i \in AnswersIn(E) : E[i][2] = n) <=> In(n, turns)
  <2> SUFFICES ASSUME NEW n
               PROVE  (\E i \in AnswersIn(E) : E[i][2] = n) <=> In(n, turns)
    OBVIOUS
  <2>1. ASSUME NEW i \in AnswersIn(E), E[i][2] = n PROVE In(n, turns)
    BY <1>1, <1>7, <2>1 DEF In
  <2>2. ASSUME NEW k \in DOMAIN turns, turns[k] = n
        PROVE  \E i \in AnswersIn(E) : E[i][2] = n
    <3>1. 2 * k \in AnswersIn(E) /\ E[2 * k][2] = n
      BY <1>1, <1>8, <2>2
    <3> QED
      BY <3>1
  <2> QED
    BY <2>1, <2>2 DEF In
<1>10. Distinct(turns) =>
         \A i, j \in AnswersIn(E) : E[i][2] = E[j][2] => i = j
  BY <1>1, <1>7 DEF Distinct
<1> QED
  BY <1>6, <1>9, <1>10 DEF E

------------------------------------------------------------------------------
(* The initial state and the types.                                        *)

LEMMA InitIInv == Init => IInv
<1> SUFFICES ASSUME Init PROVE IInv
  OBVIOUS
<1> USE PageAssumption DEF Init
<1>0. /\ \A c \in Connections : /\ side[c] = "none" /\ handler[c] = "none"
                                /\ serves[c] = 0 /\ turn[c] = 0
                                /\ inbox[c] = <<>> /\ outbox[c] = <<>>
      /\ \A v \in Conversations : history[v] = <<>>
      /\ \A c \in Connections : c \in Nat \ {0}
      /\ \A n : ~In(n, <<>>)
      /\ Distinct(<<>>)
  BY DEF Connections, Conversations, In, Distinct
<1>1. TypeOK
  <2>1. /\ <<>> \in Seq(Turns) /\ <<>> \in Seq(Event) /\ <<>> \in Seq(Entry)
        /\ MaxConnections \in Nat /\ MaxTurns \in Nat /\ 1 \in 0 .. MaxViews
    OBVIOUS
  <2>2. /\ side \in [Connections -> {"none", "connecting", "open", "closing", "closed"}]
        /\ handler \in [Connections -> {"none", "accepted", "idle", "turn", "gone"}]
        /\ serves \in [Connections -> 0 .. MaxConnections]
        /\ turn \in [Connections -> 0 .. MaxTurns]
    BY <2>1
  <2>3. /\ inbox \in [Connections -> Seq(Turns)]
        /\ outbox \in [Connections -> Seq(Event)]
        /\ history \in [Conversations -> Seq(Turns)]
    BY <2>1
  <2>4. /\ views \in 0 .. MaxViews /\ shown \in 0 .. MaxConnections
        /\ socket \in 0 .. MaxConnections /\ used \in 0 .. MaxConnections
        /\ created \in 0 .. MaxConnections /\ asked \in 0 .. MaxTurns
    BY <2>1
  <2>5. /\ status \in {"connecting", "online", "offline"}
        /\ pending \in BOOLEAN /\ left \in BOOLEAN
        /\ queue \in {<<>>} \cup {<<n>> : n \in Turns}
        /\ messages \in Seq(Entry)
    BY <2>1
  <2> QED
    BY ONLY <2>2, <2>3, <2>4, <2>5 DEF TypeOK
<1>2. Link
  <2>1. Cardinality(Begun) \in Nat
    <3>1. Begun = {}
      BY <1>0 DEF Begun
    <3> QED
      BY <3>1, FS_EmptySet
  <2> QED
    BY <1>0, <2>1 DEF Link, Up, Serving
<1>3. Waiting
  BY DEF Waiting
<1>4. OnePlace
  BY <1>0 DEF OnePlace, Placed, Turns
<1>5. Streams
  BY <1>0 DEF Streams, Up
<1>6. AnswersAreHistory
  BY DEF AnswersAreHistory, AnswersIn
<1> QED
  BY <1>1, <1>2, <1>3, <1>4, <1>5, <1>6 DEF IInv

\* The types of what is on its way
LEMMA NoteType ==
  ASSUME NEW kind \in {"open", "error", "refused", "closed"}
  PROVE  Note(kind) \in Event /\ Note(kind).kind = kind
<1>1. <<>> \in Seq(Turns) /\ 0 \in 0 .. MaxConnections
  BY PageAssumption
<1> QED
  BY <1>1 DEF Note, Event

LEMMA EventTypes ==
  ASSUME TypeOK, NEW c \in Connections, NEW i \in DOMAIN outbox[c]
  PROVE  /\ outbox[c][i] \in Event
         /\ outbox[c][i].turns \in Seq(Turns)
         /\ outbox[c][i].conversation \in 0 .. MaxConnections
<1>1. outbox[c][i] \in Event
  BY DEF TypeOK
<1> QED
  BY <1>1 DEF Event

LEMMA HeardFacts ==
  ASSUME TypeOK, NEW c \in Connections, NEW kind, Heard(c, kind)
  PROVE  /\ ~left /\ Up(c)
         /\ outbox[c] # <<>> /\ outbox[c] \in Seq(Event)
         /\ Head(outbox[c]) = outbox[c][1] /\ Head(outbox[c]) \in Event
         /\ 1 \in Events(c, kind)
         /\ outbox' = [outbox EXCEPT ![c] = Tail(@)]
         /\ outbox' \in [Connections -> Seq(Event)]
<1>1. outbox[c] \in Seq(Event) /\ outbox[c] # <<>>
  BY DEF TypeOK, Heard
<1>2. /\ Head(outbox[c]) = outbox[c][1] /\ Head(outbox[c]) \in Event
      /\ 1 \in DOMAIN outbox[c] /\ Tail(outbox[c]) \in Seq(Event)
  BY <1>1, TailFacts
<1>3. 1 \in Events(c, kind)
  BY <1>2 DEF Events, Heard
<1> QED
  BY <1>1, <1>2, <1>3 DEF Heard, TypeOK

LEMMA SendType ==
  ASSUME TypeOK, NEW c \in Connections, NEW e \in Event, Send(c, <<e>>)
  PROVE  /\ outbox' \in [Connections -> Seq(Event)]
         /\ Up(c) => outbox' = [outbox EXCEPT ![c] = Append(@, e)]
         /\ ~Up(c) => outbox' = outbox
<1>1. outbox[c] \in Seq(Event)
  BY DEF TypeOK
<1>2. outbox[c] \o <<e>> = Append(outbox[c], e)
  BY <1>1, AppendIsConcat
<1>3. Append(outbox[c], e) \in Seq(Event)
  BY <1>1, AppendFacts
<1> QED
  BY <1>2, <1>3 DEF Send, TypeOK

LEMMA SendTwoType ==
  ASSUME TypeOK, NEW c \in Connections, NEW d \in Event, NEW e \in Event,
         Send(c, <<d, e>>)
  PROVE  /\ outbox' \in [Connections -> Seq(Event)]
         /\ Up(c) => outbox' = [outbox EXCEPT ![c] = Append(Append(@, d), e)]
         /\ ~Up(c) => outbox' = outbox
<1>1. outbox[c] \in Seq(Event)
  BY DEF TypeOK
<1>2. Append(outbox[c], d) \in Seq(Event)
  BY <1>1, AppendFacts
<1>3. Append(Append(outbox[c], d), e) \in Seq(Event)
  BY <1>2, AppendFacts
<1>4. outbox[c] \o <<d, e>> = Append(Append(outbox[c], d), e)
  BY <1>1, <1>2, <1>3, SMT
<1> QED
  BY <1>3, <1>4 DEF Send, TypeOK

\* Every handler that gets that far makes room for one conversation.
LEMMA OneMoreBegun ==
  ASSUME TypeOK, Link, NEW c \in Connections, handler[c] = "accepted"
  PROVE  /\ created + 1 <= Cardinality(Begun \cup {c})
         /\ created + 1 \in Conversations
<1>1. IsFiniteSet(Connections) /\ Cardinality(Connections) = MaxConnections
  <2>1. IsFiniteSet(1 .. MaxConnections)
        /\ Cardinality(1 .. MaxConnections) =
             IF 1 > MaxConnections THEN 0 ELSE MaxConnections - 1 + 1
    BY PageAssumption, FS_Interval
  <2> QED
    BY <2>1, PageAssumption DEF Connections
<1>2. /\ IsFiniteSet(Begun) /\ Cardinality(Begun) \in Nat
      /\ Begun \cup {c} \subseteq Connections /\ c \notin Begun
  <2>1. Begun \subseteq Connections /\ c \notin Begun
    BY DEF Begun
  <2> QED
    BY <1>1, <2>1, FS_Subset, FS_CardinalityType
<1>3. Cardinality(Begun \cup {c}) = Cardinality(Begun) + 1
  BY <1>2, FS_AddElement
<1>4. Cardinality(Begun \cup {c}) <= MaxConnections
  BY <1>1, <1>2, FS_Subset
<1>5. created \in Nat /\ created <= Cardinality(Begun) /\ MaxConnections \in Nat
  BY PageAssumption DEF Link, TypeOK
<1>6. created + 1 <= Cardinality(Begun \cup {c}) /\ created + 1 \in 1 .. MaxConnections
  BY <1>2, <1>3, <1>4, <1>5
<1> QED
  BY <1>6 DEF Conversations, Connections

LEMMA TypesOf ==
  ASSUME TypeOK
  PROVE  /\ Connections = 1 .. MaxConnections /\ Conversations = 1 .. MaxConnections
         /\ Turns = 1 .. MaxTurns
         /\ queue \in Seq(Turns)
         /\ \A c \in Connections :
              /\ serves[c] \in 0 .. MaxConnections
              /\ turn[c] \in 0 .. MaxTurns
              /\ inbox[c] \in Seq(Turns)
              /\ outbox[c] \in Seq(Event)
         /\ \A v \in Conversations : history[v] \in Seq(Turns)
<1>1. queue \in Seq(Turns)
  <2>1. queue = <<>> \/ \E n \in Turns : queue = <<n>>
    BY DEF TypeOK
  <2>2. \A n \in Turns : <<n>> \in Seq(Turns)
    OBVIOUS
  <2>3. <<>> \in Seq(Turns)
    OBVIOUS
  <2>4. ASSUME NEW n \in Turns, queue = <<n>> PROVE queue \in Seq(Turns)
    BY <2>2, <2>4, Zenon
  <2> QED
    BY <2>1, <2>3, <2>4, Zenon
<1>2. \A c \in Connections :
        /\ serves[c] \in 0 .. MaxConnections
        /\ turn[c] \in 0 .. MaxTurns
  BY DEF TypeOK
<1>3. \A c \in Connections : inbox[c] \in Seq(Turns) /\ outbox[c] \in Seq(Event)
  BY DEF TypeOK
<1>4. \A v \in Conversations : history[v] \in Seq(Turns)
  BY DEF TypeOK
<1> QED
  BY <1>1, <1>2, <1>3, <1>4 DEF Connections, Conversations, Turns

LEMMA TypeStep ==
  ASSUME IInv, [Next]_vars
  PROVE  TypeOK'
<1> USE PageAssumption
<1>t. TypeOK /\ Link
  BY DEF IInv
<1> DEFINE Sides == {"none", "connecting", "open", "closing", "closed"}
           Ends == {"none", "accepted", "idle", "turn", "gone"}
<1>s. /\ side \in [Connections -> Sides]
      /\ handler \in [Connections -> Ends]
      /\ Connections = 1 .. MaxConnections /\ Conversations = 1 .. MaxConnections
      /\ MaxConnections \in Nat /\ MaxTurns \in Nat
  BY <1>t DEF TypeOK, Connections, Conversations
<1>1. ASSUME Connect PROVE TypeOK'
  <2>1. used + 1 \in Connections
    BY <1>t, <1>1 DEF Connect, TypeOK, Connections
  <2>2. side' \in [Connections -> Sides] /\ serves' \in [Connections -> 0 .. MaxConnections]
    BY <1>t, <1>1, <1>s DEF Connect, TypeOK
  <2>3. socket' \in 0 .. MaxConnections /\ used' \in 0 .. MaxConnections
    BY <1>1, <1>s, <2>1 DEF Connect
  <2> QED
    <3>1. /\ UNCHANGED <<views, status, shown, messages, pending, left, queue, asked>>
          /\ UNCHANGED <<handler, turn, history, created, inbox, outbox>>
      BY <1>1 DEF Connect, hook
    <3> QED
      BY <1>t, <2>2, <2>3, <3>1 DEF TypeOK
<1>2. ASSUME Submit PROVE TypeOK'
  <2>1. asked + 1 \in Turns /\ asked' \in 0 .. MaxTurns
    BY <1>t, <1>2 DEF Submit, TypeOK, Turns
  <2>2. messages' \in Seq(Entry)
    <3>1. <<"question", asked + 1>> \in Entry
      BY <2>1 DEF Entry
    <3>2. messages \in Seq(Entry) /\ messages' = Append(messages, <<"question", asked + 1>>)
      BY <1>t, <1>2 DEF Submit, TypeOK
    <3> HIDE DEF Entry
    <3> QED
      BY <3>1, <3>2
  <2>3. /\ inbox' \in [Connections -> Seq(Turns)]
        /\ queue' \in {<<>>} \cup {<<n>> : n \in Turns}
    <3>1. CASE socket # 0 /\ side[socket] = "open"
      <4>1. socket \in Connections
        BY <1>t, <1>s, <3>1 DEF TypeOK
      <4>2. Append(inbox[socket], asked + 1) \in Seq(Turns)
        BY <1>t, <2>1, <4>1 DEF TypeOK
      <4>3. inbox' = [inbox EXCEPT ![socket] = Append(@, asked + 1)] /\ UNCHANGED queue
        BY <1>2, <3>1 DEF Submit
      <4> QED
        BY <1>t, <4>2, <4>3 DEF TypeOK
    <3>2. CASE ~(socket # 0 /\ side[socket] = "open")
      <4>1. queue = <<>>
        BY <1>2 DEF IInv, Waiting, Submit
      <4>2. queue' = <<asked + 1>> /\ UNCHANGED inbox
        BY <1>2, <3>2, <4>1 DEF Submit
      <4> QED
        BY <1>t, <2>1, <4>2 DEF TypeOK
    <3> QED
      BY <3>1, <3>2
  <2> QED
    BY <1>t, <1>2, <2>1, <2>2, <2>3 DEF Submit, TypeOK, link, server
<1>3. ASSUME NEW v \in 0 .. created, Switch(v) PROVE TypeOK'
  <2>1. /\ side' \in [Connections -> Sides]
        /\ outbox' \in [Connections -> Seq(Event)]
    BY <1>t, <1>3, <1>s DEF Switch, TypeOK
  <2>2. views' \in 0 .. MaxViews /\ v \in 0 .. MaxConnections
    BY <1>t, <1>3 DEF Switch, TypeOK
  <2>3. messages' \in Seq(Entry) /\ queue' \in {<<>>} \cup {<<n>> : n \in Turns}
    BY <1>3 DEF Switch
  <2>4. /\ shown' \in 0 .. MaxConnections /\ socket' \in 0 .. MaxConnections
        /\ status' \in {"connecting", "online", "offline"} /\ pending' \in BOOLEAN
    <3>1. /\ shown' = v /\ socket' = 0 /\ status' = "connecting" /\ pending' = FALSE
      BY <1>3 DEF Switch
    <3>2. v \in 0 .. MaxConnections /\ 0 \in 0 .. MaxConnections
      BY <1>s, <2>2
    <3>3. shown' \in 0 .. MaxConnections /\ socket' \in 0 .. MaxConnections
      BY <3>1, <3>2
    <3>4. status' \in {"connecting", "online", "offline"} /\ pending' \in BOOLEAN
      BY <3>1
    <3> QED
      BY <3>3, <3>4
  <2> QED
    BY <1>t, <1>3, <2>1, <2>2, <2>3, <2>4 DEF Switch, TypeOK, server
<1>4. ASSUME NEW c \in Connections, HearOpen(c) PROVE TypeOK'
  <2>1. outbox' \in [Connections -> Seq(Event)]
    BY <1>t, <1>4, HeardFacts DEF HearOpen
  <2>2. side' \in [Connections -> Sides]
    BY <1>s, <1>4 DEF HearOpen
  <2>3. inbox' \in [Connections -> Seq(Turns)]
    <3>1. queue \in Seq(Turns) /\ inbox[c] \in Seq(Turns)
      BY <1>t, TypesOf
    <3>2. inbox[c] \o queue \in Seq(Turns)
      BY <3>1
    <3> QED
      BY <1>t, <1>4, <3>2 DEF HearOpen, TypeOK
  <2> QED
    BY <1>t, <1>4, <2>1, <2>2, <2>3 DEF HearOpen, TypeOK, server
<1>5. ASSUME NEW c \in Connections, HearReady(c) PROVE TypeOK'
  <2>1. outbox' \in [Connections -> Seq(Event)] /\ Head(outbox[c]) \in Event
    BY <1>t, <1>5, HeardFacts DEF HearReady
  <2>2. Head(outbox[c]).turns \in Seq(Turns)
        /\ Head(outbox[c]).conversation \in 0 .. MaxConnections
    BY <2>1 DEF Event
  <2>3. messages' \in Seq(Entry)
    BY <1>5, <2>2, EntriesFacts DEF HearReady
  <2> QED
    BY <1>t, <1>5, <2>1, <2>2, <2>3 DEF HearReady, TypeOK, server, link
<1>6. ASSUME NEW c \in Connections, HearAnswer(c) PROVE TypeOK'
  <2>1. /\ outbox' \in [Connections -> Seq(Event)]
        /\ Head(outbox[c]) = outbox[c][1] /\ 1 \in Events(c, "answer")
        /\ Up(c) /\ Head(outbox[c]) \in Event
    BY <1>t, <1>6, HeardFacts DEF HearAnswer
  <2>2. Head(outbox[c]).turns \in Seq(Turns) /\ Head(outbox[c]).turns # <<>>
    BY <2>1 DEF Event, IInv, Streams, Stream, Brings
  <2>3. Head(outbox[c]).turns[1] \in Turns
    BY <2>2
  <2>4. messages' \in Seq(Entry)
    <3>1. <<"answer", Head(outbox[c]).turns[1]>> \in Entry
      BY <2>3 DEF Entry
    <3>2. messages \in Seq(Entry)
          /\ messages' = Append(messages, <<"answer", Head(outbox[c]).turns[1]>>)
      BY <1>t, <1>6 DEF HearAnswer, TypeOK
    <3> HIDE DEF Entry
    <3> QED
      BY <3>1, <3>2
  <2> QED
    BY <1>t, <1>6, <2>1, <2>4 DEF HearAnswer, TypeOK, server, link
<1>7. ASSUME NEW c \in Connections, HearError(c) PROVE TypeOK'
  <2>1. outbox' \in [Connections -> Seq(Event)]
    BY <1>t, <1>7, HeardFacts DEF HearError
  <2> QED
    BY <1>t, <1>7, <2>1 DEF HearError, TypeOK, server, link
<1>8. ASSUME NEW c \in Connections, HearRefused(c) PROVE TypeOK'
  <2>1. outbox' \in [Connections -> Seq(Event)]
    BY <1>t, <1>8, HeardFacts DEF HearRefused
  <2>2. side' \in [Connections -> Sides]
    BY <1>s, <1>8 DEF HearRefused
  <2> QED
    BY <1>t, <1>8, <2>1, <2>2 DEF HearRefused, TypeOK, server
<1>9. ASSUME NEW c \in Connections, HearClosed(c) PROVE TypeOK'
  <2>1. outbox' \in [Connections -> Seq(Event)]
    <3>1. CASE Heard(c, "closed")
      BY <1>t, <3>1, HeardFacts
    <3>2. CASE UNCHANGED outbox
      BY <1>t, <3>2 DEF TypeOK
    <3> QED
      BY <1>9, <3>1, <3>2 DEF HearClosed
  <2>2. side' \in [Connections -> Sides]
    BY <1>s, <1>9 DEF HearClosed
  <2> QED
    <3>1. socket' \in 0 .. MaxConnections
      BY <1>t, <1>s, <1>9 DEF HearClosed, TypeOK
    <3>2. /\ status' = "offline"
          /\ UNCHANGED <<views, shown, messages, pending, left, queue, asked, used, inbox>>
          /\ UNCHANGED <<handler, serves, turn, history, created>>
      BY <1>9 DEF HearClosed, server
    <3> QED
      BY <1>t, <2>1, <2>2, <3>1, <3>2 DEF TypeOK
<1>10. ASSUME NEW c \in Connections, Break(c) PROVE TypeOK'
  <2>1. side' \in [Connections -> Sides]
    BY <1>s, <1>10 DEF Break
  <2>2. outbox' \in [Connections -> Seq(Event)]
    BY <1>t, <1>10 DEF Break, TypeOK
  <2> QED
    BY <1>t, <1>10, <2>1, <2>2 DEF Break, TypeOK, server, hook
<1>11. ASSUME NEW c \in Connections, Accept(c) PROVE TypeOK'
  <2>1. outbox' \in [Connections -> Seq(Event)]
    BY <1>t, <1>11, SendType, NoteType DEF Accept
  <2>2. handler' \in [Connections -> Ends]
    BY <1>s, <1>11 DEF Accept
  <2> QED
    BY <1>t, <1>11, <2>1, <2>2 DEF Accept, TypeOK, hook, link
<1>12. ASSUME NEW c \in Connections, Greet(c) PROVE TypeOK'
  <2>1. PICK v \in Conversations :
          /\ v = IF serves[c] = 0 THEN created + 1 ELSE serves[c]
          /\ serves' = [serves EXCEPT ![c] = v]
          /\ Send(c, <<[kind |-> "ready", conversation |-> v, turns |-> history[v]]>>)
          /\ created' = IF serves[c] = 0 THEN created + 1 ELSE created
    <3>1. serves[c] \in 0 .. MaxConnections
      BY <1>t DEF TypeOK
    <3>2. created + 1 \in Conversations
      BY <1>t, <1>12, OneMoreBegun DEF Greet
    <3>3. (IF serves[c] = 0 THEN created + 1 ELSE serves[c]) \in Conversations
      BY <3>1, <3>2 DEF Conversations, Connections
    <3> QED
      BY <1>12, <3>3 DEF Greet
  <2>2. [kind |-> "ready", conversation |-> v, turns |-> history[v]] \in Event
    <3>1. history[v] \in Seq(Turns) /\ v \in 0 .. MaxConnections
      BY <1>t, <1>s, TypesOf
    <3> QED
      BY <3>1 DEF Event
  <2>3. outbox' \in [Connections -> Seq(Event)]
    BY <1>t, <2>1, <2>2, SendType
  <2>4. /\ serves' \in [Connections -> 0 .. MaxConnections]
        /\ created' \in 0 .. MaxConnections
    <3>1. v \in 0 .. MaxConnections
      BY <1>s
    <3>2. serves' \in [Connections -> 0 .. MaxConnections]
      BY <1>t, <2>1, <3>1 DEF TypeOK
    <3>3. created' \in 0 .. MaxConnections
      BY <1>t, <2>1, <3>1 DEF TypeOK
    <3> QED
      BY <3>2, <3>3
  <2>5. handler' \in [Connections -> Ends]
    BY <1>s, <1>12 DEF Greet
  <2> QED
    BY <1>t, <1>12, <2>3, <2>4, <2>5 DEF Greet, TypeOK, hook, link
<1>13. ASSUME NEW c \in Connections, Receive(c) PROVE TypeOK'
  <2>1. inbox[c] \in Seq(Turns) /\ inbox[c] # <<>>
    BY <1>t, <1>13 DEF Receive, TypeOK
  <2>2. Tail(inbox[c]) \in Seq(Turns) /\ Head(inbox[c]) \in Turns
    BY <2>1, TailFacts
  <2>3. inbox' \in [Connections -> Seq(Turns)]
    BY <1>t, <1>13, <2>2 DEF Receive, TypeOK
  <2>4. turn' \in [Connections -> 0 .. MaxTurns]
    <3>1. Head(inbox[c]) \in 0 .. MaxTurns
      BY <2>2 DEF Turns
    <3> QED
      BY <1>t, <1>13, <3>1 DEF Receive, TypeOK
  <2>5. handler' \in [Connections -> Ends]
    BY <1>s, <1>13 DEF Receive
  <2> QED
    BY <1>t, <1>13, <2>3, <2>4, <2>5 DEF Receive, TypeOK, hook, link
<1>14. ASSUME NEW c \in Connections, Answer(c) PROVE TypeOK'
  <2>1. turn[c] \in Turns /\ serves[c] \in Conversations
    <3>1. turn[c] # 0 /\ serves[c] # 0
      BY <1>t, <1>14 DEF Answer, Link, Serving
    <3> QED
      BY <1>t, <1>s, <3>1, TypesOf
  <2>2. Append(history[serves[c]], turn[c]) \in Seq(Turns)
    BY <1>t, <2>1 DEF TypeOK
  <2>3. history' \in [Conversations -> Seq(Turns)]
    BY <1>t, <1>14, <2>2 DEF Answer, TypeOK
  <2>4. [kind |-> "answer", conversation |-> 0, turns |-> <<turn[c]>>] \in Event
    <3>1. <<turn[c]>> \in Seq(Turns) /\ 0 \in 0 .. MaxConnections
      BY <2>1
    <3> QED
      BY <3>1 DEF Event
  <2>5. outbox' \in [Connections -> Seq(Event)]
    BY <1>t, <1>14, <2>4, SendType DEF Answer
  <2>6. handler' \in [Connections -> Ends] /\ turn' \in [Connections -> 0 .. MaxTurns]
    <3>1. handler' \in [Connections -> Ends]
      BY <1>s, <1>14 DEF Answer
    <3>2. turn \in [Connections -> 0 .. MaxTurns] /\ 0 \in 0 .. MaxTurns
      BY <1>t, <1>s DEF TypeOK
    <3> QED
      BY <1>14, <3>1, <3>2 DEF Answer
  <2> QED
    BY <1>t, <1>14, <2>3, <2>5, <2>6 DEF Answer, TypeOK, hook, link
<1>15. ASSUME NEW c \in Connections, Fail(c) PROVE TypeOK'
  <2>1. outbox' \in [Connections -> Seq(Event)]
    BY <1>t, <1>15, SendType, NoteType DEF Fail
  <2>2. handler' \in [Connections -> Ends] /\ turn' \in [Connections -> 0 .. MaxTurns]
    <3>1. handler' \in [Connections -> Ends]
      BY <1>s, <1>15 DEF Fail
    <3>2. turn \in [Connections -> 0 .. MaxTurns] /\ 0 \in 0 .. MaxTurns
      BY <1>t, <1>s DEF TypeOK
    <3> QED
      BY <1>15, <3>1, <3>2 DEF Fail
  <2> QED
    BY <1>t, <1>15, <2>1, <2>2 DEF Fail, TypeOK, hook, link
<1>16. ASSUME NEW c \in Connections, Refuse(c) PROVE TypeOK'
  <2>1. outbox' \in [Connections -> Seq(Event)]
    BY <1>t, <1>16, SendType, NoteType DEF Refuse
  <2>2. handler' \in [Connections -> Ends]
    BY <1>s, <1>16 DEF Refuse
  <2> QED
    BY <1>t, <1>16, <2>1, <2>2 DEF Refuse, TypeOK, hook, link
<1>17. ASSUME NEW c \in Connections, Reject(c) PROVE TypeOK'
  <2>1. outbox' \in [Connections -> Seq(Event)]
    BY <1>t, <1>17, SendTwoType, NoteType DEF Reject
  <2>2. handler' \in [Connections -> Ends]
    BY <1>s, <1>17 DEF Reject
  <2> QED
    BY <1>t, <1>17, <2>1, <2>2 DEF Reject, TypeOK, hook, link
<1>18. ASSUME NEW c \in Connections, End(c) PROVE TypeOK'
  <2>1. inbox' \in [Connections -> Seq(Turns)]
    BY <1>t, <1>18 DEF End, TypeOK
  <2>2. handler' \in [Connections -> Ends]
    BY <1>s, <1>18 DEF End
  <2> QED
    BY <1>t, <1>18, <2>1, <2>2 DEF End, TypeOK, hook, link
<1>19. CASE UNCHANGED vars
  BY <1>t, <1>19 DEF vars, hook, link, server, TypeOK
<1> QED
  BY <1>1, <1>2, <1>3, <1>4, <1>5, <1>6, <1>7, <1>8, <1>9, <1>10, <1>11, <1>12,
     <1>13, <1>14, <1>15, <1>16, <1>17, <1>18, <1>19 DEF Next, Hear, Serve

------------------------------------------------------------------------------
(* Connections and questions.                                              *)

LEMMA LinkStep ==
  ASSUME IInv, [Next]_vars, TypeOK'
  PROVE  Link'
<1> USE PageAssumption
<1>t. TypeOK /\ Link
  BY DEF IInv
<1>n. /\ used \in Nat /\ socket \in Nat /\ used <= MaxConnections /\ created \in Nat
      /\ Connections = 1 .. MaxConnections /\ MaxConnections \in Nat
  <2>1. /\ used \in 0 .. MaxConnections /\ socket \in 0 .. MaxConnections
        /\ created \in 0 .. MaxConnections
    BY <1>t DEF TypeOK
  <2> QED
    BY <2>1 DEF Connections
<1> DEFINE Handlers ==
      /\ \A c \in Connections : handler[c] = "none" => handler'[c] = "none"
      /\ \A c \in Connections : Serving(c)' => serves'[c] # 0
      /\ \A c \in Connections : handler'[c] = "turn" <=> turn'[c] # 0
      /\ created' <= Cardinality(Begun')
<1>k. ASSUME UNCHANGED <<handler, serves, turn, created>> PROVE Handlers
  BY <1>t, <1>k DEF Link, Serving, Begun
<1>1. ASSUME Connect PROVE Link'
  <2>1. /\ used' = used + 1 /\ socket' = used + 1
        /\ side' = [side EXCEPT ![used + 1] = "connecting"]
        /\ used + 1 \in Connections
        /\ UNCHANGED <<handler, turn, created, inbox, outbox>>
        /\ serves' = [serves EXCEPT ![used + 1] = shown]
        /\ socket = 0
    BY <1>1, <1>n DEF Connect
  <2>2. handler[used + 1] = "none" /\ \A c \in Connections : ~Up(c)
    BY <1>t, <1>n, <2>1 DEF Link
  <2>3. \A c \in Connections : Serving(c)' => serves'[c] # 0
    BY <1>t, <2>1, <2>2 DEF Link, Serving, TypeOK
  <2>4. \A c \in Connections : Up(c)' => c = socket'
    BY <1>t, <1>n, <2>1, <2>2 DEF Up, TypeOK
  <2>5. \A c \in Connections : c > used' => c > used /\ side'[c] = side[c]
    BY <1>t, <1>n, <2>1 DEF TypeOK
  <2>6. created' <= Cardinality(Begun') /\ socket' <= used'
    BY <1>t, <1>n, <2>1 DEF Link, Begun
  <2> QED
    BY <1>t, <2>1, <2>3, <2>4, <2>5, <2>6 DEF Link
\* Steps that leave the handlers alone and close connections at most
<1>2. ASSUME UNCHANGED <<handler, serves, turn, created, used>>,
             socket' \in {0, socket},
             \A c \in Connections : /\ Up(c)' => Up(c) /\ c = socket'
                                    /\ c > used => /\ side'[c] = "none"
                                                   /\ inbox'[c] = <<>>
                                                   /\ outbox'[c] = <<>>
      PROVE  Link'
  <2>1. Handlers
    BY <1>2, <1>k
  <2> QED
    BY <1>t, <1>n, <1>2, <2>1 DEF Link
<1>f. \A c \in Connections : c > used => /\ side[c] = "none" /\ inbox[c] = <<>>
                                         /\ outbox[c] = <<>> /\ ~Up(c)
                                         /\ handler[c] = "none"
  BY <1>t DEF Link, Up
<1>u. \A c \in Connections : Up(c) => c = socket
  BY <1>t DEF Link
<1>3. ASSUME Submit PROVE Link'
  <2>1. UNCHANGED <<handler, serves, turn, created, used, socket, side, outbox>>
    BY <1>3 DEF Submit, server, link
  <2>2. \A c \in Connections : c > used => inbox'[c] = <<>>
    <3>1. CASE socket # 0 /\ side[socket] = "open"
      <4>1. inbox' = [inbox EXCEPT ![socket] = Append(@, asked + 1)] /\ socket <= used
        BY <1>t, <1>3, <3>1 DEF Submit, Link
      <4>2. \A c \in Connections : c > used => c # socket
        BY <1>n, <4>1
      <4>3. \A c \in Connections : c # socket => inbox'[c] = inbox[c]
        BY <1>t, <4>1 DEF TypeOK
      <4> QED
        BY <1>f, <4>2, <4>3
    <3>2. CASE ~(socket # 0 /\ side[socket] = "open")
      BY <1>3, <1>f, <3>2 DEF Submit
    <3> QED
      BY <3>1, <3>2
  <2> QED
    BY <1>2, <1>f, <1>u, <2>1, <2>2 DEF Up
<1>4. ASSUME NEW v \in 0 .. created, Switch(v) PROVE Link'
  <2>1. /\ UNCHANGED <<handler, serves, turn, created, used, inbox>>
        /\ socket' = 0
        /\ \A c \in Connections :
             /\ side'[c] = IF c = socket /\ Up(c) THEN "closing" ELSE side[c]
             /\ outbox'[c] = IF c = socket THEN <<>> ELSE outbox[c]
    BY <1>4 DEF Switch, server
  <2>2. \A c \in Connections : ~Up(c)'
    BY <1>u, <2>1 DEF Up
  <2> QED
    BY <1>2, <1>f, <2>1, <2>2
<1>5. ASSUME NEW c \in Connections, NEW kind, Heard(c, kind),
             UNCHANGED <<handler, serves, turn, created, used>>,
             \/ UNCHANGED <<socket, side>>
             \/ side' = [side EXCEPT ![c] = "open"] /\ UNCHANGED socket
             \/ side' = [side EXCEPT ![c] = "closed"] /\ socket' \in {0, socket},
             \/ UNCHANGED inbox
             \/ inbox' = [inbox EXCEPT ![c] = @ \o queue]
      PROVE  Link'
  <2>1. Up(c) /\ outbox' = [outbox EXCEPT ![c] = Tail(@)]
    BY <1>t, <1>5, HeardFacts
  <2>2. c = socket /\ ~(c > used)
    BY <1>f, <1>u, <2>1
  <2>3. \A d \in Connections : d > used => /\ side'[d] = "none" /\ inbox'[d] = <<>>
                                           /\ outbox'[d] = <<>>
    <3>1. \A d \in Connections \ {c} : outbox'[d] = outbox[d]
      BY <1>t, <2>1 DEF TypeOK
    <3>2. \A d \in Connections \ {c} : inbox'[d] = inbox[d]
      BY <1>t, <1>5 DEF TypeOK
    <3>3. \A d \in Connections \ {c} : side'[d] = side[d]
      BY <1>t, <1>5 DEF TypeOK
    <3> QED
      BY <1>f, <2>2, <3>1, <3>2, <3>3
  <2>4. \A d \in Connections : Up(d)' => Up(d) /\ d = socket'
    BY <1>t, <1>5, <1>u, <2>1, <2>2 DEF TypeOK, Up
  <2>5. socket' \in {0, socket}
    BY <1>5
  <2> QED
    BY <1>2, <1>5, <2>3, <2>4, <2>5
<1>6. ASSUME NEW c \in Connections, Hear(c) PROVE Link'
  <2>1. CASE HearOpen(c)
    BY <1>5, <2>1 DEF HearOpen, server
  <2>2. CASE HearReady(c)
    BY <1>5, <2>2 DEF HearReady, server, link
  <2>3. CASE HearAnswer(c)
    BY <1>5, <2>3 DEF HearAnswer, server, link
  <2>4. CASE HearError(c)
    BY <1>5, <2>4 DEF HearError, server, link
  <2>5. CASE HearRefused(c)
    BY <1>5, <2>5 DEF HearRefused, server
  <2>6. CASE HearClosed(c) /\ Heard(c, "closed")
    BY <1>5, <2>6 DEF HearClosed, server
  <2>7. CASE HearClosed(c) /\ ~Heard(c, "closed")
    <3>1. /\ side[c] = "closing" /\ UNCHANGED outbox
          /\ side' = [side EXCEPT ![c] = "closed"]
          /\ socket' = IF socket = c THEN 0 ELSE socket
          /\ UNCHANGED <<handler, serves, turn, created, used, inbox>>
      BY <2>7 DEF HearClosed, server
    <3>2. ~(c > used)
      BY <1>f, <3>1
    <3>3. \A d \in Connections : Up(d)' => Up(d) /\ d # c
      BY <1>t, <3>1 DEF TypeOK, Up
    <3>4. \A d \in Connections : d > used => side'[d] = "none"
      BY <1>t, <1>f, <3>1, <3>2 DEF TypeOK
    <3>5. \A d \in Connections : Up(d)' => d = socket'
      BY <1>u, <3>1, <3>3
    <3> QED
      BY <1>2, <1>f, <3>1, <3>3, <3>4, <3>5
  <2> QED
    BY <1>6, <2>1, <2>2, <2>3, <2>4, <2>5, <2>6, <2>7 DEF Hear
<1>7. ASSUME NEW c \in Connections, Break(c) PROVE Link'
  <2>1. /\ UNCHANGED <<handler, serves, turn, created, used, socket, inbox>>
        /\ side' = [side EXCEPT ![c] = "closing"]
        /\ outbox' = [outbox EXCEPT ![c] = <<>>]
        /\ Up(c)
    BY <1>7 DEF Break, server
  <2>2. \A d \in Connections : Up(d)' => Up(d)
    BY <1>t, <2>1 DEF TypeOK, Up
  <2>3. \A d \in Connections : d > used => side'[d] = "none" /\ outbox'[d] = <<>>
    BY <1>t, <1>f, <2>1 DEF TypeOK
  <2> QED
    BY <1>2, <1>f, <1>u, <2>1, <2>2, <2>3
\* Steps of the handler of c
<1>8. ASSUME NEW c \in Connections, UNCHANGED <<socket, used, side>>,
             ~(c > used),
             \A d \in Connections \ {c} : /\ inbox'[d] = inbox[d]
                                          /\ outbox'[d] = outbox[d]
                                          /\ handler'[d] = handler[d]
                                          /\ serves'[d] = serves[d]
                                          /\ turn'[d] = turn[d],
             Serving(c)' => serves'[c] # 0,
             handler'[c] = "turn" <=> turn'[c] # 0,
             created' <= Cardinality(Begun')
      PROVE  Link'
  <2>1. \A d \in Connections : d > used => d # c
    BY <1>8
  <2>2. \A d \in Connections : d > used => /\ side'[d] = "none" /\ handler'[d] = "none"
                                           /\ inbox'[d] = <<>> /\ outbox'[d] = <<>>
    BY <1>8, <1>f, <2>1
  <2>3. \A d \in Connections : Serving(d)' => serves'[d] # 0
    BY <1>t, <1>8 DEF Link, Serving
  <2>4. \A d \in Connections : handler'[d] = "turn" <=> turn'[d] # 0
    BY <1>t, <1>8 DEF Link
  <2> QED
    BY <1>t, <1>8, <2>2, <2>3, <2>4 DEF Link, Up
<1>9. ASSUME NEW c \in Connections, NEW events, Send(c, events)
      PROVE  \A d \in Connections \ {c} : outbox'[d] = outbox[d]
  BY <1>t, <1>9 DEF Send, TypeOK
<1>10. ASSUME NEW c \in Connections, Accept(c) PROVE Link'
  <2>1. /\ handler[c] = "none" /\ handler' = [handler EXCEPT ![c] = "accepted"]
        /\ UNCHANGED <<socket, used, side, inbox, serves, turn, created>>
        /\ Up(c)
    BY <1>10 DEF Accept, link
  <2>2. \A d \in Connections \ {c} : outbox'[d] = outbox[d]
    BY <1>9, <1>10 DEF Accept
  <2>3. Begun' = Begun
    BY <1>t, <2>1 DEF Begun, TypeOK
  <2>4. created' <= Cardinality(Begun')
    BY <1>t, <2>1, <2>3 DEF Link
  <2>5. handler'[c] = "accepted" /\ \A d \in Connections \ {c} : handler'[d] = handler[d]
    BY <1>t, <2>1 DEF TypeOK
  <2>6. ~(c > used) /\ turn[c] = 0
    BY <1>t, <1>f, <2>1 DEF Link
  <2> QED
    BY <1>8, <2>1, <2>2, <2>4, <2>5, <2>6 DEF Serving
<1>11. ASSUME NEW c \in Connections, Greet(c) \/ Refuse(c) \/ Reject(c) PROVE Link'
  <2>1. PICK l \in {"idle", "gone"} :
          /\ handler[c] = "accepted" /\ handler' = [handler EXCEPT ![c] = l]
          /\ UNCHANGED <<socket, used, side, inbox, turn>>
    BY <1>11 DEF Greet, Refuse, Reject, link
  <2>2. \A d \in Connections \ {c} : outbox'[d] = outbox[d]
    BY <1>9, <1>11 DEF Greet, Refuse, Reject
  <2>3. handler'[c] = l /\ \A d \in Connections \ {c} : handler'[d] = handler[d]
    BY <1>t, <2>1 DEF TypeOK
  <2>4. Begun' = Begun \cup {c}
    BY <2>3 DEF Begun
  <2>5. /\ created' \in {created, created + 1}
        /\ \A d \in Connections \ {c} : serves'[d] = serves[d]
        /\ l = "idle" => serves'[c] # 0
    <3>1. CASE Greet(c)
      <4>1. created' = (IF serves[c] = 0 THEN created + 1 ELSE created)
            /\ serves' = [serves EXCEPT ![c] = IF serves[c] = 0 THEN created + 1 ELSE serves[c]]
        BY <3>1 DEF Greet
      <4>2. serves[c] \in Nat /\ created + 1 # 0
        BY <1>t, <1>n, TypesOf
      <4>3. /\ \A d \in Connections \ {c} : serves'[d] = serves[d]
            /\ serves'[c] = IF serves[c] = 0 THEN created + 1 ELSE serves[c]
        BY <1>t, <4>1 DEF TypeOK
      <4> QED
        BY <4>1, <4>2, <4>3
    <3>2. CASE Refuse(c) \/ Reject(c)
      <4>1. UNCHANGED <<serves, created>> /\ handler' = [handler EXCEPT ![c] = "gone"]
        BY <3>2 DEF Refuse, Reject
      <4>2. l # "idle"
        BY <1>t, <2>3, <4>1 DEF TypeOK
      <4> QED
        BY <4>1, <4>2
    <3> QED
      BY <1>11, <3>1, <3>2
  <2>6. created' <= Cardinality(Begun')
    <3>1. created + 1 <= Cardinality(Begun \cup {c})
      BY <1>t, <2>1, OneMoreBegun
    <3>2. IsFiniteSet(Begun')
      <4>1. IsFiniteSet(1 .. MaxConnections)
        BY FS_Interval
      <4>2. Begun' \subseteq Connections
        BY DEF Begun
      <4> QED
        BY <1>n, <4>1, <4>2, FS_Subset
    <3>3. Cardinality(Begun') \in Nat
      BY <3>2, FS_CardinalityType
    <3> QED
      BY <1>n, <2>4, <2>5, <3>1, <3>3
  <2>7. ~(c > used) /\ turn[c] = 0
    BY <1>t, <1>f, <2>1 DEF Link
  <2> QED
    BY <1>8, <2>1, <2>2, <2>3, <2>5, <2>6, <2>7 DEF Serving
<1>12. ASSUME NEW c \in Connections, Receive(c) \/ Answer(c) \/ Fail(c) \/ End(c)
       PROVE  Link'
  <2>1. PICK l \in {"idle", "turn", "gone"} :
          /\ handler[c] \in {"idle", "turn"} /\ handler' = [handler EXCEPT ![c] = l]
          /\ UNCHANGED <<socket, used, side, serves, created>>
    BY <1>12 DEF Receive, Answer, Fail, End, link
  <2>2. \A d \in Connections \ {c} : outbox'[d] = outbox[d]
    BY <1>9, <1>12 DEF Receive, Answer, Fail, End
  <2>3. handler'[c] = l /\ \A d \in Connections \ {c} : handler'[d] = handler[d]
    BY <1>t, <2>1 DEF TypeOK
  <2>4. Begun' = Begun
    BY <2>1, <2>3 DEF Begun
  <2>5. created' <= Cardinality(Begun')
    BY <1>t, <2>1, <2>4 DEF Link
  <2>6. ~(c > used) /\ serves'[c] # 0
    BY <1>t, <1>f, <2>1 DEF Link, Serving
  <2>7. /\ \A d \in Connections \ {c} : inbox'[d] = inbox[d] /\ turn'[d] = turn[d]
        /\ handler'[c] = "turn" <=> turn'[c] # 0
    <3>1. CASE Receive(c)
      <4>1. Head(inbox[c]) \in Turns
        BY <1>t, <3>1, TypesOf, TailFacts DEF Receive
      <4>2. Head(inbox[c]) # 0 /\ turn' = [turn EXCEPT ![c] = Head(inbox[c])]
            /\ handler' = [handler EXCEPT ![c] = "turn"]
            /\ inbox' = [inbox EXCEPT ![c] = Tail(@)]
        BY <3>1, <4>1 DEF Receive, Turns
      <4> QED
        BY <1>t, <4>2 DEF TypeOK
    <3>2. CASE Answer(c) \/ Fail(c)
      <4>1. /\ turn' = [turn EXCEPT ![c] = 0] /\ UNCHANGED inbox
            /\ handler' = [handler EXCEPT ![c] = "idle"]
        BY <3>2 DEF Answer, Fail
      <4> QED
        BY <1>t, <4>1 DEF TypeOK
    <3>3. CASE End(c)
      <4>1. /\ inbox' = [inbox EXCEPT ![c] = <<>>] /\ UNCHANGED turn
            /\ handler' = [handler EXCEPT ![c] = "gone"] /\ handler[c] = "idle"
        BY <3>3 DEF End
      <4> QED
        BY <1>t, <4>1 DEF TypeOK, Link
    <3> QED
      BY <1>12, <3>1, <3>2, <3>3
  <2> QED
    BY <1>8, <2>1, <2>2, <2>3, <2>5, <2>6, <2>7
<1>13. CASE UNCHANGED vars
  <2>1. UNCHANGED <<handler, serves, turn, created, used, socket, side, inbox, outbox>>
    BY <1>13 DEF vars, server, link
  <2> QED
    BY <1>2, <1>f, <1>u, <2>1 DEF Up
<1> QED
  BY <1>1, <1>3, <1>4, <1>6, <1>7, <1>10, <1>11, <1>12, <1>13 DEF Next, Serve

\* The hook hears the opening first, and has nothing queued when it hears the rest.
LEMMA NothingQueued ==
  ASSUME IInv, NEW c \in Connections, NEW kind, Heard(c, kind), kind # "open"
  PROVE  c = socket /\ side[c] = "open" /\ queue = <<>>
<1>1. /\ Up(c) /\ 1 \in Events(c, kind) /\ outbox[c] # <<>>
      /\ Head(outbox[c]) = outbox[c][1]
  BY HeardFacts DEF IInv
<1>2. 1 \notin Events(c, "open")
  BY <1>1 DEF Events
<1>3. side[c] = "open"
  BY <1>1, <1>2 DEF IInv, Streams, Stream, Opens, Up
<1>4. c = socket /\ c # 0
  BY <1>1 DEF IInv, Link, Connections
<1> QED
  BY <1>3, <1>4 DEF IInv, Waiting

LEMMA WaitingStep ==
  ASSUME IInv, [Next]_vars
  PROVE  Waiting'
<1> USE PageAssumption
<1>t. TypeOK /\ Link /\ Waiting
  BY DEF IInv
<1>n. /\ \A c \in Connections : c # 0
      /\ socket # 0 => socket \in Connections
  BY <1>t DEF Connections, TypeOK
<1>1. ASSUME UNCHANGED <<queue, pending>>,
             \A c \in Connections :
               c = socket' /\ side'[c] = "open" => c = socket /\ side[c] = "open",
             socket' # 0 => socket' \in Connections
      PROVE  Waiting'
  BY <1>t, <1>1, <1>n DEF Waiting
<1>2. CASE Connect
  <2>1. /\ used + 1 \in Connections /\ socket' = used + 1
        /\ side' = [side EXCEPT ![used + 1] = "connecting"]
        /\ UNCHANGED <<queue, pending>>
    BY <1>t, <1>2 DEF Connect, hook, TypeOK, Connections
  <2>2. side'[socket'] = "connecting"
    BY <1>t, <2>1 DEF TypeOK
  <2> QED
    BY <1>t, <2>1, <2>2 DEF Waiting
<1>3. CASE Submit
  <2>1. CASE socket # 0 /\ side[socket] = "open"
    BY <1>t, <1>3, <2>1 DEF Submit, Waiting
  <2>2. CASE ~(socket # 0 /\ side[socket] = "open")
    BY <1>t, <1>3, <2>2 DEF Submit, Waiting, link
  <2> QED
    BY <2>1, <2>2
<1>4. ASSUME NEW v \in 0 .. created, Switch(v) PROVE Waiting'
  BY <1>4 DEF Switch, Waiting
<1>5. ASSUME NEW c \in Connections, Hear(c) PROVE Waiting'
  <2>1. CASE HearOpen(c)
    BY <2>1 DEF HearOpen, Waiting
  <2>2. CASE HearReady(c)
    BY <2>2, NothingQueued DEF HearReady, Waiting
  <2>3. CASE HearAnswer(c)
    BY <2>3, NothingQueued DEF HearAnswer, Waiting
  <2>4. CASE HearError(c)
    BY <2>4, NothingQueued DEF HearError, Waiting
  <2>5. CASE HearRefused(c)
    BY <2>5, NothingQueued DEF HearRefused, Waiting
  <2>6. CASE HearClosed(c)
    <3>1. /\ side' = [side EXCEPT ![c] = "closed"]
          /\ socket' = IF socket = c THEN 0 ELSE socket
          /\ UNCHANGED <<queue, pending>>
      BY <2>6 DEF HearClosed
    <3>2. \A d \in Connections : side'[d] = "open" => side[d] = "open" /\ d # c
      BY <1>t, <3>1 DEF TypeOK
    <3> QED
      BY <1>1, <1>n, <3>1, <3>2
  <2> QED
    BY <1>5, <2>1, <2>2, <2>3, <2>4, <2>5, <2>6 DEF Hear
<1>6. ASSUME NEW c \in Connections, Break(c) PROVE Waiting'
  <2>1. \A d \in Connections : side'[d] = "open" => side[d] = "open"
    BY <1>t, <1>6 DEF Break, TypeOK
  <2> QED
    BY <1>1, <1>n, <1>6, <2>1 DEF Break, hook
<1>7. ASSUME NEW c \in Connections,
             \/ Accept(c) \/ Greet(c) \/ Receive(c) \/ Answer(c) \/ Fail(c)
             \/ Refuse(c) \/ Reject(c) \/ End(c)
      PROVE  Waiting'
  <2>1. UNCHANGED <<queue, pending, socket, side>>
    BY <1>7 DEF Accept, Greet, Receive, Answer, Fail, Refuse, Reject, End, hook, link
  <2> QED
    BY <1>t, <2>1 DEF Waiting
<1>8. CASE UNCHANGED vars
  BY <1>t, <1>8 DEF vars, hook, link, Waiting
<1> QED
  BY <1>2, <1>3, <1>4, <1>5, <1>6, <1>7, <1>8 DEF Next, Serve

\* Question n is nowhere it was not before.
Stays(n) ==
  /\ In(n, queue') => In(n, queue)
  /\ \A c \in Connections : /\ In(n, inbox'[c]) => In(n, inbox[c])
                            /\ turn'[c] = n => turn[c] = n
  /\ \A v \in Conversations : In(n, history'[v]) => In(n, history[v])

LEMMA StaysPlaced ==
  ASSUME TypeOK, TypeOK', NEW n \in Turns, Placed(n), Stays(n), asked <= asked'
  PROVE  Placed(n)'
<1>1. n \in Nat /\ asked \in Nat /\ asked' \in Nat
  BY PageAssumption DEF TypeOK, Turns
<1>2. n <= asked => n <= asked'
  BY <1>1
<1> QED
  BY <1>2 DEF Placed, Stays

LEMMA OnePlaceStep ==
  ASSUME IInv, [Next]_vars, TypeOK'
  PROVE  OnePlace'
<1> USE PageAssumption
<1>t. TypeOK /\ OnePlace
  BY DEF IInv
<1>y. /\ \A c \in Connections : inbox[c] \in Seq(Turns) /\ Distinct(inbox[c])
      /\ \A v \in Conversations : history[v] \in Seq(Turns) /\ Distinct(history[v])
      /\ \A n \in Turns : Placed(n) /\ n # 0 /\ n \in Nat
      /\ asked \in Nat
  <2>1. /\ \A c \in Connections : inbox[c] \in Seq(Turns)
        /\ \A v \in Conversations : history[v] \in Seq(Turns)
    BY <1>t, TypesOf
  <2>2. \A n \in Turns : n # 0 /\ n \in Nat
    BY DEF Turns
  <2>3. asked \in Nat
    BY <1>t DEF TypeOK
  <2> QED
    BY <1>t, <2>1, <2>2, <2>3 DEF OnePlace
<1>e. (\A n : ~In(n, <<>>)) /\ Distinct(<<>>)
  BY DEF In, Distinct
<1>1. ASSUME UNCHANGED <<inbox, history, asked>>,
             \A n \in Turns : /\ In(n, queue') => In(n, queue)
                              /\ \A c \in Connections : turn'[c] = n => turn[c] = n
      PROVE  OnePlace'
  <2>1. \A n \in Turns : Stays(n)
    BY <1>1 DEF Stays
  <2>2. asked <= asked'
    BY <1>1, <1>y
  <2>3. \A n \in Turns : Placed(n)'
    BY <1>t, <1>y, <2>1, <2>2, StaysPlaced
  <2> QED
    BY <1>1, <1>y, <2>3 DEF OnePlace
<1>2. CASE Submit
  <2>1. PICK m \in Turns : m = asked + 1 /\ asked' = m
    BY <1>t, <1>2 DEF Submit, Turns, TypeOK
  <2>0. UNCHANGED <<turn, history>> /\ asked <= asked'
    BY <1>t, <1>2 DEF Submit, server, TypeOK
  <2>2. /\ ~In(m, queue)
        /\ \A c \in Connections : ~In(m, inbox[c]) /\ turn[c] # m
        /\ \A v \in Conversations : ~In(m, history[v])
    <3>1. ~(m <= asked)
      BY <1>y, <2>1
    <3> QED
      BY <1>y, <2>1, <3>1 DEF Placed
  <2>3. CASE socket # 0 /\ side[socket] = "open"
    <3>1. /\ socket \in Connections /\ UNCHANGED queue
          /\ inbox' = [inbox EXCEPT ![socket] = Append(@, m)]
      <4>1. /\ UNCHANGED queue
            /\ inbox' = [inbox EXCEPT ![socket] = Append(@, asked + 1)]
        BY <1>2, <2>3 DEF Submit
      <4>2. socket \in Connections
        BY <1>t, <2>3 DEF TypeOK, Connections
      <4> QED
        BY <2>1, <4>1, <4>2, Zenon
    <3>2. /\ \A n : In(n, Append(inbox[socket], m)) <=> In(n, inbox[socket]) \/ n = m
          /\ Distinct(Append(inbox[socket], m))
      BY <1>y, <2>1, <2>2, <3>1, AppendFacts
    <3>3. /\ inbox'[socket] = Append(inbox[socket], m)
          /\ \A c \in Connections \ {socket} : inbox'[c] = inbox[c]
      BY <1>t, <3>1 DEF TypeOK
    <3>4. \A n \in Turns \ {m} : Stays(n)
      BY <2>0, <2>1, <3>1, <3>2, <3>3 DEF Stays
    <3>5. \A n \in Turns \ {m} : Placed(n)'
      BY <1>t, <1>y, <2>0, <2>1, <3>4, StaysPlaced
    <3>6. \A c \in Connections : In(m, inbox'[c]) => c = socket
      BY <2>2, <3>2, <3>3
    <3>7. Placed(m)'
      <4>1. m <= m
        BY <1>y, <2>1
      <4> QED
        BY <2>0, <2>1, <2>2, <3>1, <3>6, <4>1 DEF Placed
    <3>8. \A c \in Connections : Distinct(inbox'[c])
      BY <1>y, <3>2, <3>3
    <3> QED
      BY <1>y, <2>0, <3>5, <3>7, <3>8 DEF OnePlace
  <2>4. CASE ~(socket # 0 /\ side[socket] = "open")
    <3>1. queue = <<>> /\ queue' = <<m>> /\ UNCHANGED inbox
      <4>1. queue = <<>>
        BY <1>2 DEF IInv, Waiting, Submit
      <4>2. queue' = Append(queue, asked + 1) /\ UNCHANGED inbox
        BY <1>2, <2>4 DEF Submit
      <4>3. queue' = Append(<<>>, m)
        BY <2>1, <4>1, <4>2, Zenon
      <4> QED
        BY <4>1, <4>2, <4>3
    <3>2. \A n : In(n, queue') <=> n = m
      BY <3>1 DEF In
    <3>3. \A n \in Turns \ {m} : Stays(n)
      BY <2>0, <2>1, <3>1, <3>2 DEF Stays
    <3>4. \A n \in Turns \ {m} : Placed(n)'
      BY <1>t, <1>y, <2>0, <2>1, <3>3, StaysPlaced
    <3>5. Placed(m)'
      <4>1. m <= m
        BY <1>y, <2>1
      <4> QED
        BY <2>0, <2>1, <2>2, <3>1, <3>2, <4>1 DEF Placed
    <3> QED
      BY <1>y, <2>0, <3>1, <3>4, <3>5 DEF OnePlace
  <2> QED
    BY <2>3, <2>4
<1>3. ASSUME NEW c \in Connections, HearOpen(c) PROVE OnePlace'
  <2>1. /\ inbox' = [inbox EXCEPT ![c] = @ \o queue] /\ queue' = <<>>
        /\ UNCHANGED <<asked, turn, history>>
    BY <1>3 DEF HearOpen, server
  <2>2. asked <= asked' /\ \A n : ~In(n, queue')
    BY <1>y, <1>e, <2>1
  <2>3. CASE queue = <<>>
    <3>1. inbox[c] \o <<>> = inbox[c]
      BY <1>y, ConcatEmptySeq
    <3>2. inbox' = inbox
      BY <1>t, <2>1, <2>3, <3>1 DEF TypeOK
    <3> QED
      BY <1>1, <2>1, <2>2, <3>2
  <2>4. CASE queue # <<>>
    <3>1. PICK q \in Turns : queue = <<q>>
      BY <1>t, <2>4 DEF TypeOK
    <3>2. In(q, queue)
      BY <3>1 DEF In
    <3>3. inbox[c] \o <<q>> = Append(inbox[c], q)
      BY <1>y, AppendIsConcat
    <3>4. /\ inbox'[c] = Append(inbox[c], q)
          /\ \A d \in Connections \ {c} : inbox'[d] = inbox[d]
      BY <1>t, <2>1, <3>1, <3>3 DEF TypeOK
    <3>5. ~In(q, inbox[c])
      BY <1>y, <3>2 DEF Placed
    <3>6. /\ \A n : In(n, Append(inbox[c], q)) <=> In(n, inbox[c]) \/ n = q
          /\ Distinct(Append(inbox[c], q))
      BY <1>y, <3>5, AppendFacts
    <3>7. \A n \in Turns \ {q} : Stays(n)
      BY <2>1, <2>2, <3>4, <3>6 DEF Stays
    <3>8. \A n \in Turns \ {q} : Placed(n)'
      BY <1>t, <1>y, <2>2, <3>7, StaysPlaced
    <3>9. /\ q <= asked /\ \A d \in Connections : ~In(q, inbox[d]) /\ turn[d] # q
          /\ \A v \in Conversations : ~In(q, history[v])
      BY <1>y, <3>2 DEF Placed
    <3>10. \A d \in Connections : In(q, inbox'[d]) => d = c
      BY <3>4, <3>9
    <3>11. Placed(q)'
      BY <2>1, <2>2, <3>9, <3>10 DEF Placed
    <3>12. \A d \in Connections : Distinct(inbox'[d])
      BY <1>y, <3>4, <3>6
    <3> QED
      BY <1>y, <2>1, <3>8, <3>11, <3>12 DEF OnePlace
  <2> QED
    BY <2>3, <2>4
<1>4. ASSUME NEW c \in Connections, Receive(c) PROVE OnePlace'
  <2>1. /\ inbox[c] # <<>> /\ turn' = [turn EXCEPT ![c] = Head(inbox[c])]
        /\ inbox' = [inbox EXCEPT ![c] = Tail(@)]
        /\ UNCHANGED <<asked, queue, history>> /\ asked <= asked'
    BY <1>y, <1>4 DEF Receive
  <2>2. PICK q \in Turns : q = Head(inbox[c])
    BY <1>y, <2>1, TailFacts
  <2>3. /\ In(q, inbox[c]) /\ \A n : In(n, Tail(inbox[c])) => In(n, inbox[c])
        /\ Distinct(Tail(inbox[c])) /\ ~In(q, Tail(inbox[c]))
    BY <1>y, <2>1, <2>2, TailFacts
  <2>4. /\ inbox'[c] = Tail(inbox[c]) /\ turn'[c] = q
        /\ \A d \in Connections \ {c} : inbox'[d] = inbox[d] /\ turn'[d] = turn[d]
    BY <1>t, <2>1, <2>2 DEF TypeOK
  <2>5. \A n \in Turns \ {q} : Stays(n)
    BY <2>1, <2>3, <2>4 DEF Stays
  <2>6. \A n \in Turns \ {q} : Placed(n)'
    BY <1>t, <1>y, <2>1, <2>5, StaysPlaced
  <2>7. /\ q <= asked /\ ~In(q, queue)
        /\ \A d \in Connections : turn[d] # q /\ (In(q, inbox[d]) => d = c)
        /\ \A v \in Conversations : ~In(q, history[v])
    BY <1>y, <2>3 DEF Placed
  <2>8. \A d \in Connections : ~In(q, inbox'[d]) /\ (turn'[d] = q => d = c)
    BY <2>3, <2>4, <2>7
  <2>9. Placed(q)'
    BY <2>1, <2>7, <2>8 DEF Placed
  <2>10. \A d \in Connections : Distinct(inbox'[d])
    BY <1>y, <2>3, <2>4
  <2> QED
    BY <1>y, <2>1, <2>6, <2>9, <2>10 DEF OnePlace
<1>5. ASSUME NEW c \in Connections, Answer(c) PROVE OnePlace'
  <2>1. /\ handler[c] = "turn"
        /\ history' = [history EXCEPT ![serves[c]] = Append(@, turn[c])]
        /\ turn' = [turn EXCEPT ![c] = 0]
        /\ UNCHANGED <<asked, queue, inbox>> /\ asked <= asked'
    BY <1>y, <1>5 DEF Answer
  <2>2. turn[c] \in Turns /\ serves[c] \in Conversations
    BY <1>t, <2>1 DEF IInv, Link, Serving, TypeOK, Turns, Conversations, Connections
  <2>3. PICK q \in Turns, v \in Conversations : q = turn[c] /\ v = serves[c]
    BY <2>2
  <2>4. /\ q <= asked /\ ~In(q, queue)
        /\ \A d \in Connections : ~In(q, inbox[d]) /\ (turn[d] = q => d = c)
        /\ \A w \in Conversations : ~In(q, history[w])
    BY <1>y, <2>3 DEF Placed
  <2>5. /\ \A n : In(n, Append(history[v], q)) <=> In(n, history[v]) \/ n = q
        /\ Distinct(Append(history[v], q))
    BY <1>y, <2>4, AppendFacts
  <2>6. /\ history'[v] = Append(history[v], q) /\ turn'[c] = 0
        /\ \A w \in Conversations \ {v} : history'[w] = history[w]
        /\ \A d \in Connections \ {c} : turn'[d] = turn[d]
    BY <1>t, <2>1, <2>3 DEF TypeOK
  <2>7. \A n \in Turns \ {q} : Stays(n)
    BY <1>y, <2>1, <2>5, <2>6 DEF Stays
  <2>8. \A n \in Turns \ {q} : Placed(n)'
    BY <1>t, <1>y, <2>1, <2>7, StaysPlaced
  <2>9. \A d \in Connections : turn'[d] # q
    BY <1>y, <2>4, <2>6
  <2>10. Placed(q)'
    BY <2>1, <2>4, <2>9 DEF Placed
  <2>11. \A w \in Conversations : Distinct(history'[w])
    BY <1>y, <2>5, <2>6
  <2> QED
    BY <1>y, <2>1, <2>8, <2>10, <2>11 DEF OnePlace
<1>6. ASSUME NEW c \in Connections, End(c) PROVE OnePlace'
  <2>1. /\ inbox' = [inbox EXCEPT ![c] = <<>>]
        /\ UNCHANGED <<asked, queue, history, turn>> /\ asked <= asked'
    BY <1>y, <1>6 DEF End
  <2>2. \A d \in Connections : inbox'[d] = inbox[d] \/ inbox'[d] = <<>>
    BY <1>t, <2>1 DEF TypeOK
  <2>3. \A n \in Turns : Stays(n)
    BY <1>e, <2>1, <2>2 DEF Stays
  <2>4. \A n \in Turns : Placed(n)'
    BY <1>t, <1>y, <2>1, <2>3, StaysPlaced
  <2> QED
    BY <1>y, <1>e, <2>1, <2>2, <2>4 DEF OnePlace
<1>7. CASE Connect
  BY <1>1, <1>7 DEF Connect
<1>8. ASSUME NEW v \in 0 .. created, Switch(v) PROVE OnePlace'
  <2>1. /\ queue' = <<>> /\ UNCHANGED <<asked, inbox, history, turn>>
    BY <1>8 DEF Switch, server
  <2> QED
    BY <1>1, <1>e, <2>1
<1>9. ASSUME NEW c \in Connections, Hear(c) \/ Break(c), ~HearOpen(c) PROVE OnePlace'
  <2>1. UNCHANGED <<asked, queue, inbox, history, turn>>
    BY <1>9 DEF Hear, HearReady, HearAnswer, HearError, HearRefused, HearClosed, Break,
                server
  <2> QED
    BY <1>1, <2>1
<1>10. ASSUME NEW c \in Connections,
              Accept(c) \/ Greet(c) \/ Fail(c) \/ Refuse(c) \/ Reject(c)
       PROVE  OnePlace'
  <2>1. UNCHANGED <<asked, queue, inbox, history>>
    BY <1>10 DEF Accept, Greet, Fail, Refuse, Reject
  <2>2. UNCHANGED turn \/ turn' = [turn EXCEPT ![c] = 0]
    BY <1>10 DEF Accept, Greet, Fail, Refuse, Reject
  <2>3. \A n \in Turns : \A d \in Connections : turn'[d] = n => turn[d] = n
    BY <1>t, <1>y, <2>2 DEF TypeOK
  <2> QED
    BY <1>1, <2>1, <2>3
<1>11. CASE UNCHANGED vars
  BY <1>1, <1>11 DEF vars, server
<1> QED
  BY <1>2, <1>3, <1>4, <1>5, <1>6, <1>7, <1>8, <1>9, <1>10, <1>11 DEF Next, Serve

------------------------------------------------------------------------------
(* What is on its way on the connection that is up.                        *)

\* The page after an entry is added
LEMMA ShowsMore ==
  ASSUME TypeOK, NEW kind \in {"question", "answer"}, NEW q \in Turns,
         messages' = Append(messages, <<kind, q>>)
  PROVE  /\ \A n : Shows(n)' <=> Shows(n) \/ (kind = "answer" /\ n = q)
         /\ \A i \in AnswersIn(messages) :
              i \in AnswersIn(messages') /\ messages'[i] = messages[i]
         /\ (\A i, j \in AnswersIn(messages) : messages[i][2] = messages[j][2] => i = j)
            /\ ~(kind = "answer" /\ Shows(q))
            => \A i, j \in AnswersIn(messages') :
                 messages'[i][2] = messages'[j][2] => i = j
<1> DEFINE L == Len(messages)
<1>1. messages \in Seq(Entry) /\ <<kind, q>> \in Entry
  BY DEF TypeOK, Entry
<1> HIDE DEF L
<1>2. /\ L \in Nat /\ DOMAIN messages = 1 .. L
      /\ DOMAIN messages' = 1 .. (L + 1)
      /\ \A i \in 1 .. L : messages'[i] = messages[i]
      /\ messages'[L + 1] = <<kind, q>>
  BY <1>1, AppendFacts DEF L
<1>3. /\ \A i \in 1 .. (L + 1) : i \in 1 .. L \/ i = L + 1
      /\ \A i \in 1 .. L : i \in 1 .. (L + 1) /\ i # L + 1
      /\ L + 1 \in 1 .. (L + 1)
  BY <1>2
<1>4. messages'[L + 1][1] = kind /\ messages'[L + 1][2] = q
  BY <1>2
<1>5. \A i : i \in AnswersIn(messages') <=>
               i \in AnswersIn(messages) \/ (kind = "answer" /\ i = L + 1)
  BY <1>2, <1>3, <1>4 DEF AnswersIn
<1>6. \A i \in AnswersIn(messages) : messages'[i] = messages[i]
  BY <1>2 DEF AnswersIn
<1>7. \A n : Shows(n)' <=> Shows(n) \/ (kind = "answer" /\ n = q)
  BY <1>4, <1>5, <1>6 DEF Shows
<1>8. ASSUME \A i, j \in AnswersIn(messages) : messages[i][2] = messages[j][2] => i = j,
             ~(kind = "answer" /\ Shows(q)),
             NEW i \in AnswersIn(messages'), NEW j \in AnswersIn(messages'),
             messages'[i][2] = messages'[j][2]
      PROVE  i = j
  <2>1. CASE i \in AnswersIn(messages) /\ j \in AnswersIn(messages)
    BY <1>6, <1>8, <2>1
  <2>2. ASSUME NEW k \in AnswersIn(messages), kind = "answer"
        PROVE  messages'[k][2] # messages'[L + 1][2]
    BY <1>4, <1>6, <1>8, <2>2 DEF Shows
  <2>3. CASE ~(i \in AnswersIn(messages) /\ j \in AnswersIn(messages))
    <3>1. /\ i \in AnswersIn(messages) \/ (kind = "answer" /\ i = L + 1)
          /\ j \in AnswersIn(messages) \/ (kind = "answer" /\ j = L + 1)
      BY <1>5, <1>8, Zenon
    <3>2. messages'[i][2] = messages'[j][2]
      BY <1>8
    <3> QED
      BY <2>2, <2>3, <3>1, <3>2, Zenon
  <2> QED
    BY <2>1, <2>3
<1> QED
  BY <1>5, <1>6, <1>7, <1>8

\* The places of the events after the first was heard
LEMMA HeardEvents ==
  ASSUME TypeOK, NEW c \in Connections, NEW kind, Heard(c, kind)
  PROVE  /\ 1 \in Events(c, kind) /\ \A k : 1 \in Events(c, k) => k = kind
         /\ \A k : \A i \in Events(c, k)' :
              i \in Nat /\ i + 1 \in Events(c, k) /\ outbox'[c][i] = outbox[c][i + 1]
         /\ \A k : \A i \in Events(c, k) :
              i = 1 \/ (i - 1 \in Events(c, k)' /\ i = (i - 1) + 1)
<1> DEFINE seq == outbox[c]
           L == Len(seq)
<1>1. seq \in Seq(Event) /\ seq # <<>> /\ seq[1].kind = kind /\ outbox'[c] = Tail(seq)
  BY HeardFacts DEF TypeOK, Events
<1> HIDE DEF seq, L
<1>2. /\ L \in Nat /\ DOMAIN seq = 1 .. L /\ 1 \in DOMAIN seq
      /\ DOMAIN Tail(seq) = 1 .. (L - 1)
      /\ \A i \in 1 .. (L - 1) : Tail(seq)[i] = seq[i + 1]
  BY <1>1, TailFacts DEF L
<1>3. /\ \A i \in 1 .. (L - 1) : i \in Nat /\ i + 1 \in 1 .. L
      /\ \A i \in 1 .. L : i = 1 \/ (i - 1 \in 1 .. (L - 1) /\ i = (i - 1) + 1)
  BY <1>2
<1>4. \A k : /\ Events(c, k) = {i \in 1 .. L : seq[i].kind = k}
             /\ Events(c, k)' = {i \in 1 .. (L - 1) : seq[i + 1].kind = k}
  BY <1>1, <1>2 DEF Events, seq
<1>5. 1 \in Events(c, kind) /\ \A k : 1 \in Events(c, k) => k = kind
  BY <1>1, <1>2, <1>4
<1>6. \A i \in 1 .. (L - 1) : outbox'[c][i] = outbox[c][i + 1]
  BY <1>1, <1>2 DEF seq
<1>7. ASSUME NEW k, NEW i \in Events(c, k)'
      PROVE  i \in Nat /\ i + 1 \in Events(c, k) /\ outbox'[c][i] = outbox[c][i + 1]
  BY <1>3, <1>4, <1>6
<1>8. ASSUME NEW k, NEW i \in Events(c, k), i # 1
      PROVE  i - 1 \in Events(c, k)' /\ i = (i - 1) + 1
  <2>1. /\ i \in 1 .. L /\ seq[i].kind = k
        /\ i - 1 \in 1 .. (L - 1) /\ i = (i - 1) + 1
    BY <1>3, <1>4, <1>8
  <2>2. seq[(i - 1) + 1].kind = k
    BY <2>1
  <2> QED
    BY <1>4, <2>1, <2>2
<1> QED
  BY <1>5, <1>7, <1>8

\* The places of the events after one was sent
LEMMA SentEvents ==
  ASSUME TypeOK, NEW c \in Connections, NEW e \in Event,
         outbox' = [outbox EXCEPT ![c] = Append(@, e)]
  PROVE  \E last \in Nat :
           /\ \A k, i : i \in Events(c, k)' <=>
                          i \in Events(c, k) \/ (i = last /\ k = e.kind)
           /\ \A k : \A i \in Events(c, k) : /\ i \in Nat /\ i < last
                                             /\ outbox'[c][i] = outbox[c][i]
           /\ outbox'[c][last] = e
<1> DEFINE seq == outbox[c]
           L == Len(seq)
<1>1. seq \in Seq(Event) /\ outbox'[c] = Append(seq, e)
  BY DEF TypeOK
<1> HIDE DEF seq, L
<1>2. /\ L \in Nat /\ DOMAIN seq = 1 .. L
      /\ DOMAIN Append(seq, e) = 1 .. (L + 1)
      /\ \A i \in 1 .. L : Append(seq, e)[i] = seq[i]
      /\ Append(seq, e)[L + 1] = e
  BY <1>1, AppendFacts DEF L
<1>3. /\ \A i \in 1 .. (L + 1) : i \in 1 .. L \/ i = L + 1
      /\ \A i \in 1 .. L : i \in 1 .. (L + 1) /\ i \in Nat /\ i < L + 1
      /\ L + 1 \in 1 .. (L + 1) /\ L + 1 \in Nat
  BY <1>2
<1>4. \A k : /\ Events(c, k) = {i \in 1 .. L : seq[i].kind = k}
             /\ Events(c, k)' = {i \in 1 .. (L + 1) : Append(seq, e)[i].kind = k}
  BY <1>1, <1>2 DEF Events, seq
<1>5. \A k, i : i \in Events(c, k)' <=>
                  i \in Events(c, k) \/ (i = L + 1 /\ k = e.kind)
  BY <1>2, <1>3, <1>4
<1>6. \A k : \A i \in Events(c, k) : /\ i \in Nat /\ i < L + 1
                                     /\ outbox'[c][i] = outbox[c][i]
  BY <1>1, <1>2, <1>3, <1>4 DEF seq
<1>7. outbox'[c][L + 1] = e
  BY <1>1, <1>2
<1> QED
  BY <1>3, <1>5, <1>6, <1>7

\* A step that the events on their way do not notice
LEMMA StreamKept ==
  ASSUME NEW c \in Connections, Stream(c),
         side'[c] = side[c], serves'[c] = serves[c], shown' = shown,
         \/ handler'[c] = handler[c] /\ outbox'[c] = outbox[c]
         \/ /\ handler[c] # "none" /\ handler'[c] \notin {"none", "accepted"}
            /\ Serving(c)' <=> Serving(c),
         \A k \in {"open", "ready", "answer"} : Events(c, k)' = Events(c, k),
         \A k \in {"open", "ready", "answer"} : \A i \in Events(c, k) :
           outbox'[c][i] = outbox[c][i],
         \A n : Shows(n)' => Shows(n),
         Serving(c) =>
           \A n \in Turns : In(n, history[serves[c]]) => In(n, history'[serves[c]]),
         \A i \in Events(c, "answer") : outbox[c][i].turns[1] \in Turns
  PROVE  Stream(c)'
<1>1. Opens(c)'
  BY DEF Stream, Opens
<1>2. Serving(c)' <=> Serving(c)
  BY DEF Serving
<1>3. Resumes(c)'
  BY <1>2 DEF Stream, Resumes
<1>4. Brings(c)'
  BY <1>2 DEF Stream, Brings
<1> QED
  BY <1>1, <1>3, <1>4 DEF Stream

\* Once the page has heard an event, nothing but what follows it is on its way.
LEMMA StreamHeard ==
  ASSUME TypeOK, NEW c \in Connections, NEW kind, Heard(c, kind), Stream(c),
         side'[c] = "open",
         handler' = handler, serves' = serves, history' = history,
         kind # "ready" => shown' = shown,
         kind = "ready" => shown' = serves[c],
         \A n : Shows(n)' =>
           \/ kind # "ready" /\ Shows(n)
           \/ kind = "ready" /\ In(n, outbox[c][1].turns)
           \/ kind = "answer" /\ n = outbox[c][1].turns[1]
  PROVE  Stream(c)'
<1>1. /\ 1 \in Events(c, kind) /\ \A k : 1 \in Events(c, k) => k = kind
      /\ \A k : \A i \in Events(c, k)' :
           i \in Nat /\ i + 1 \in Events(c, k) /\ outbox'[c][i] = outbox[c][i + 1]
      /\ \A k : \A i \in Events(c, k) :
           i = 1 \/ (i - 1 \in Events(c, k)' /\ i = (i - 1) + 1)
      /\ outbox[c] # <<>>
  BY HeardEvents, HeardFacts
<1>o. Opens(c) /\ Resumes(c) /\ Brings(c)
  BY DEF Stream
<1>s. Serving(c)' <=> Serving(c)
  BY DEF Serving
<1>z. \A k : 0 \notin Events(c, k)'
  <2>1. outbox'[c] \in Seq(Event)
    BY HeardFacts
  <2> QED
    BY <2>1 DEF Events
<1>2. Opens(c)'
  <2>1. Events(c, "open")' = {}
    <3> SUFFICES ASSUME NEW i \in Events(c, "open")' PROVE FALSE
      OBVIOUS
    <3>1. i \in Nat /\ i + 1 = 1
      BY <1>1, <1>o DEF Opens
    <3>2. i = 0
      BY <3>1
    <3> QED
      BY <1>z, <3>2
  <2>2. handler'[c] # "none"
    BY <1>1, <1>o DEF Opens
  <2> QED
    BY <2>1, <2>2 DEF Opens

<1>3. ASSUME NEW i \in Events(c, "ready")'
      PROVE  /\ kind # "ready" /\ kind # "answer"
             /\ i \in Nat /\ i + 1 \in Events(c, "ready")
             /\ Events(c, "ready") = {i + 1} /\ Events(c, "ready")' = {i}
             /\ outbox'[c][i] = outbox[c][i + 1]
             /\ Serving(c)
  <2>1. /\ i \in Nat /\ i + 1 \in Events(c, "ready") /\ i # 0
        /\ outbox'[c][i] = outbox[c][i + 1]
    BY <1>1, <1>3, <1>z
  <2>2. Events(c, "ready") = {i + 1} /\ Serving(c)
    BY <1>o, <2>1 DEF Resumes
  <2>3. i + 1 # 1 /\ ~(i + 1 < 1)
    BY <2>1
  <2>4. kind # "ready"
    BY <1>1, <2>2, <2>3
  <2>5. kind # "answer"
    BY <1>1, <1>o, <2>1, <2>3 DEF Brings
  <2>6. \A k \in Events(c, "ready")' : k = i
    <3> SUFFICES ASSUME NEW k \in Events(c, "ready")' PROVE k = i
      OBVIOUS
    <3>1. k \in Nat /\ k + 1 = i + 1
      BY <1>1, <2>2
    <3> QED
      BY <2>1, <3>1
  <2> QED
    BY <1>3, <2>1, <2>2, <2>4, <2>5, <2>6
<1>4. Serving(c) => Events(c, "ready")' # {} \/ shown' = serves[c]
  <2>1. CASE kind = "ready"
    BY <2>1
  <2>2. CASE kind # "ready"
    <3>1. \A i \in Events(c, "ready") : i - 1 \in Events(c, "ready")'
      BY <1>1, <2>2
    <3> QED
      BY <1>o, <2>2, <3>1 DEF Resumes
  <2> QED
    BY <2>1, <2>2
<1>5. Resumes(c)'
  <2>1. handler'[c] \in {"none", "accepted"} => serves'[c] = shown'
    BY <1>o DEF Resumes
  <2>2. ASSUME NEW i \in Events(c, "ready")'
        PROVE  /\ Serving(c)' /\ Events(c, "ready")' = {i}
               /\ outbox'[c][i].conversation = serves'[c]
               /\ Distinct(outbox'[c][i].turns)
               /\ \A n \in Turns :
                    /\ In(n, outbox'[c][i].turns) => In(n, history'[serves'[c]])
                    /\ Shows(n)' => In(n, outbox'[c][i].turns)
    <3>1. /\ outbox[c][i + 1].conversation = serves[c]
          /\ Distinct(outbox[c][i + 1].turns)
          /\ \A n \in Turns :
               /\ In(n, outbox[c][i + 1].turns) => In(n, history[serves[c]])
               /\ Shows(n) => In(n, outbox[c][i + 1].turns)
      <4>1. i + 1 \in Events(c, "ready")
        BY <1>3, <2>2
      <4>2. \A k \in Events(c, "ready") :
              /\ outbox[c][k].conversation = serves[c]
              /\ Distinct(outbox[c][k].turns)
              /\ \A n \in Turns :
                   /\ In(n, outbox[c][k].turns) => In(n, history[serves[c]])
                   /\ Shows(n) => In(n, outbox[c][k].turns)
        BY <1>o DEF Resumes
      <4> QED
        BY <4>1, <4>2
    <3>2. \A n : Shows(n)' => Shows(n)
      BY <1>3, <2>2
    <3> QED
      BY <1>s, <1>3, <2>2, <3>1, <3>2
  <2> QED
    BY <1>s, <1>4, <2>1, <2>2 DEF Resumes
<1>6. ASSUME NEW j \in Events(c, "answer")'
      PROVE  /\ Serving(c)' /\ outbox'[c][j].turns # <<>>
             /\ In(outbox'[c][j].turns[1], history'[serves'[c]])
             /\ \A i \in Events(c, "ready")' :
                  i < j /\ ~In(outbox'[c][j].turns[1], outbox'[c][i].turns)
             /\ Events(c, "ready")' = {} => ~Shows(outbox[c][j].turns[1])'
             /\ \A k \in Events(c, "answer")' :
                  outbox'[c][j].turns[1] = outbox'[c][k].turns[1] => j = k
  <2>1. /\ j \in Nat /\ j + 1 \in Events(c, "answer") /\ j # 0
        /\ outbox'[c][j] = outbox[c][j + 1]
    BY <1>1, <1>6, <1>z
  <2>p. PICK a : a = outbox[c][j + 1].turns[1]
    OBVIOUS
  <2>2. /\ Serving(c) /\ outbox[c][j + 1].turns # <<>> /\ In(a, history[serves[c]])
        /\ \A i \in Events(c, "ready") : i < j + 1 /\ ~In(a, outbox[c][i].turns)
        /\ Events(c, "ready") = {} => ~Shows(a)
        /\ \A k \in Events(c, "answer") :
             a = outbox[c][k].turns[1] => j + 1 = k
    BY <1>o, <2>1, <2>p DEF Brings
  <2>3. outbox'[c][j].turns[1] = a
    BY <2>1, <2>p
  <2>4. ASSUME NEW i \in Events(c, "ready")' PROVE i < j /\ ~In(a, outbox'[c][i].turns)
    <3>1. i \in Nat /\ i + 1 < j + 1 /\ ~In(a, outbox'[c][i].turns)
      BY <1>3, <2>2, <2>4
    <3> QED
      BY <2>1, <3>1
  <2>5. ASSUME NEW k \in Events(c, "answer")', a = outbox'[c][k].turns[1] PROVE j = k
    <3>1. k \in Nat /\ j + 1 = k + 1
      BY <1>1, <2>2, <2>5
    <3> QED
      BY <2>1, <3>1
  <2>6. ASSUME Events(c, "ready")' = {} PROVE ~Shows(a)'
    <3>1. CASE kind = "ready"
      BY <1>1, <2>2, <3>1
    <3>2. CASE kind # "ready"
      <4>1. Events(c, "ready") = {}
        BY <1>1, <2>6, <3>2
      <4>2. kind = "answer" => a # outbox[c][1].turns[1]
        <5>1. j + 1 # 1
          BY <2>1
        <5> QED
          BY <1>1, <2>2, <5>1
      <4> QED
        BY <2>2, <3>2, <4>1, <4>2
    <3> QED
      BY <3>1, <3>2
  <2>7. Events(c, "ready")' = {} => ~Shows(outbox[c][j].turns[1])'
    BY <2>3, <2>6 DEF Shows
  <2>8. outbox'[c][j].turns # <<>> /\ In(outbox'[c][j].turns[1], history'[serves'[c]])
    BY <2>1, <2>2, <2>3
  <2> QED
    BY <1>s, <2>2, <2>3, <2>4, <2>5, <2>7, <2>8
<1>7. Brings(c)'
  BY <1>6 DEF Brings
<1> QED
  BY <1>2, <1>5, <1>7 DEF Stream

LEMMA AnswerType ==
  ASSUME TypeOK, NEW c \in Connections, Stream(c), NEW j \in Events(c, "answer")
  PROVE  outbox[c][j].turns[1] \in Turns
<1>1. outbox[c][j].turns # <<>>
  BY DEF Stream, Brings
<1>2. outbox[c][j].turns \in Seq(Turns)
  BY EventTypes DEF Events
<1> QED
  BY <1>1, <1>2, TailFacts

\* Errors and closings sent leave the events before them where they are.
LEMMA QuietSend ==
  ASSUME TypeOK, NEW c \in Connections, Up(c),
         \/ Send(c, <<Note("error")>>)
         \/ Send(c, <<Note("refused")>>)
         \/ Send(c, <<Note("error"), Note("closed")>>)
  PROVE  /\ \A k \in {"open", "ready", "answer"} : Events(c, k)' = Events(c, k)
         /\ \A k \in {"open", "ready", "answer"} : \A i \in Events(c, k) :
              outbox'[c][i] = outbox[c][i]
<1> DEFINE seq == outbox[c]
           new == outbox'[c]
           L == Len(seq)
<1>1. seq \in Seq(Event) /\ L \in Nat /\ DOMAIN seq = 1 .. L
  BY DEF TypeOK
<1>2. \E M \in Nat :
        /\ L <= M /\ DOMAIN new = 1 .. M
        /\ \A i \in 1 .. L : new[i] = seq[i]
        /\ \A i \in 1 .. M : i \in 1 .. L \/ new[i].kind \in {"error", "refused", "closed"}
  <2>1. ASSUME NEW kind \in {"error", "refused"}, Send(c, <<Note(kind)>>)
        PROVE  /\ DOMAIN new = 1 .. (L + 1)
               /\ \A i \in 1 .. L : new[i] = seq[i]
               /\ new[L + 1].kind = kind
    <3>1. Note(kind) \in Event /\ Note(kind).kind = kind
      BY NoteType
    <3>2. new = Append(seq, Note(kind))
      <4>1. outbox' = [outbox EXCEPT ![c] = Append(@, Note(kind))]
        BY <2>1, <3>1, SendType
      <4> QED
        BY <4>1 DEF TypeOK
    <3> QED
      BY <1>1, <3>1, <3>2, AppendFacts
  <2>2. ASSUME Send(c, <<Note("error"), Note("closed")>>)
        PROVE  /\ DOMAIN new = 1 .. (L + 2)
               /\ \A i \in 1 .. L : new[i] = seq[i]
               /\ new[L + 1].kind = "error" /\ new[L + 2].kind = "closed"
    <3> DEFINE mid == Append(seq, Note("error"))
    <3>1. /\ Note("error") \in Event /\ Note("error").kind = "error"
          /\ Note("closed") \in Event /\ Note("closed").kind = "closed"
      BY NoteType
    <3>2. new = Append(mid, Note("closed"))
      <4>1. outbox' = [outbox EXCEPT ![c] = Append(Append(@, Note("error")),
                                                   Note("closed"))]
        BY <2>2, <3>1, SendTwoType
      <4> QED
        BY <4>1 DEF TypeOK
    <3>3. /\ mid \in Seq(Event) /\ DOMAIN mid = 1 .. (L + 1)
          /\ \A i \in 1 .. L : mid[i] = seq[i]
          /\ mid[L + 1] = Note("error")
      BY <1>1, <3>1, AppendFacts
    <3> HIDE DEF mid, new, seq
    <3>4. Len(mid) = L + 1
      BY <1>1, <3>3
    <3>5. /\ DOMAIN new = 1 .. (L + 1 + 1)
          /\ \A i \in 1 .. (L + 1) : new[i] = mid[i]
          /\ new[L + 1 + 1] = Note("closed")
      BY <3>1, <3>2, <3>3, <3>4, AppendFacts
    <3>6. /\ L + 1 + 1 = L + 2 /\ L + 1 \in 1 .. (L + 1)
          /\ \A i \in 1 .. L : i \in 1 .. (L + 1)
      BY <1>1 DEF L
    <3> QED
      BY <3>1, <3>3, <3>5, <3>6
  <2>3. CASE Send(c, <<Note("error"), Note("closed")>>)
    <3>1. /\ L + 2 \in Nat /\ L <= L + 2
          /\ \A i \in 1 .. (L + 2) : i \in 1 .. L \/ i = L + 1 \/ i = L + 2
      BY <1>1
    <3> HIDE DEF new, seq, L
    <3> QED
      BY <2>2, <2>3, <3>1
  <2>4. CASE ~Send(c, <<Note("error"), Note("closed")>>)
    <3>1. /\ L + 1 \in Nat /\ L <= L + 1
          /\ \A i \in 1 .. (L + 1) : i \in 1 .. L \/ i = L + 1
      BY <1>1
    <3>2. PICK kind \in {"error", "refused"} : Send(c, <<Note(kind)>>)
      BY <2>4
    <3> HIDE DEF new, seq, L
    <3> QED
      BY <2>1, <3>1, <3>2
  <2> QED
    BY <2>3, <2>4
<1> HIDE DEF new, seq, L
<1>3. PICK M \in Nat :
        /\ L <= M /\ DOMAIN new = 1 .. M
        /\ \A i \in 1 .. L : new[i] = seq[i]
        /\ \A i \in 1 .. M : i \in 1 .. L \/ new[i].kind \in {"error", "refused", "closed"}
  BY <1>2
<1>4. \A i \in 1 .. L : i \in 1 .. M
  BY <1>1, <1>3
<1>5. \A k : /\ Events(c, k) = {i \in 1 .. L : seq[i].kind = k}
             /\ Events(c, k)' = {i \in 1 .. M : new[i].kind = k}
  BY <1>1, <1>3 DEF Events, new, seq
<1>6. ASSUME NEW k \in {"open", "ready", "answer"} PROVE Events(c, k)' = Events(c, k)
  <2>1. \A i \in 1 .. M : new[i].kind = k => i \in 1 .. L /\ seq[i].kind = k
    BY <1>3
  <2>2. \A i \in 1 .. L : seq[i].kind = k => new[i].kind = k
    BY <1>3
  <2> QED
    BY <1>4, <1>5, <2>1, <2>2
<1>7. \A k : \A i \in Events(c, k) : new[i] = seq[i]
  BY <1>3, <1>5
<1> QED
  BY <1>6, <1>7 DEF new, seq

\* A turn that is committed was in no history before.
LEMMA Committed ==
  ASSUME IInv, NEW c \in Connections, Answer(c)
  PROVE  \E q \in Turns, v \in Conversations :
           /\ q = turn[c] /\ v = serves[c] /\ Serving(c)
           /\ \A w \in Conversations : ~In(q, history[w])
           /\ \A n : \A w \in Conversations :
                In(n, history'[w]) <=> In(n, history[w]) \/ (w = v /\ n = q)
<1>t. TypeOK
  BY DEF IInv
<1>1. /\ handler[c] = "turn"
      /\ history' = [history EXCEPT ![serves[c]] = Append(@, turn[c])]
  BY DEF Answer
<1>2. turn[c] \in Turns /\ serves[c] \in Conversations /\ Serving(c)
  BY <1>t, <1>1, TypesOf DEF IInv, Link, Serving
<1>3. PICK q \in Turns, v \in Conversations : q = turn[c] /\ v = serves[c]
  BY <1>2
<1>4. \A w \in Conversations : ~In(q, history[w])
  BY <1>3 DEF IInv, OnePlace, Placed
<1>5. \A n : In(n, Append(history[v], q)) <=> In(n, history[v]) \/ n = q
  <2>1. history[v] \in Seq(Turns)
    BY <1>t, TypesOf
  <2> QED
    BY <2>1, AppendFacts
<1>6. /\ history'[v] = Append(history[v], q)
      /\ \A w \in Conversations \ {v} : history'[w] = history[w]
  BY <1>t, <1>1, <1>3 DEF TypeOK
<1>7. \A n : \A w \in Conversations :
        In(n, history'[w]) <=> In(n, history[w]) \/ (w = v /\ n = q)
  BY <1>5, <1>6
<1> QED
  BY <1>2, <1>3, <1>4, <1>7

LEMMA AcceptStream ==
  ASSUME IInv, NEW c \in Connections, Accept(c)
  PROVE  Stream(c)'
<1>t. TypeOK
  BY DEF IInv
<1>1. /\ handler[c] = "none" /\ Up(c) /\ handler' = [handler EXCEPT ![c] = "accepted"]
      /\ Send(c, <<Note("open")>>)
      /\ UNCHANGED <<shown, side, serves>>
  BY DEF Accept, hook, link
<1>2. /\ Note("open") \in Event /\ Note("open").kind = "open"
  BY NoteType
<1>3. outbox' = [outbox EXCEPT ![c] = Append(@, Note("open"))]
  BY <1>t, <1>1, <1>2, SendType
<1>4. /\ side[c] = "connecting" /\ outbox[c] = <<>> /\ serves[c] = shown
  BY <1>1 DEF IInv, Streams, Stream, Opens, Resumes
<1>5. outbox'[c] = <<Note("open")>>
  BY <1>t, <1>3, <1>4 DEF TypeOK
<1>6. handler'[c] = "accepted"
  BY <1>t, <1>1 DEF TypeOK
<1>7. Events(c, "open")' = {1} /\ Events(c, "ready")' = {} /\ Events(c, "answer")' = {}
  BY <1>2, <1>5 DEF Events
<1> QED
  BY <1>1, <1>4, <1>6, <1>7 DEF Stream, Opens, Resumes, Brings, Serving

LEMMA GreetStream ==
  ASSUME IInv, NEW c \in Connections, Greet(c), Up(c)
  PROVE  Stream(c)'
<1>t. TypeOK
  BY DEF IInv
<1>c. created + 1 \in Conversations /\ created + 1 # 0
  <2>1. created + 1 \in Conversations
    BY <1>t, OneMoreBegun DEF Greet, IInv
  <2> QED
    BY <2>1 DEF Conversations, Connections
<1>1. PICK v : v = IF serves[c] = 0 THEN created + 1 ELSE serves[c]
  OBVIOUS
<1>2. v \in Conversations /\ v # 0
  BY <1>t, <1>c, <1>1, TypesOf
<1> DEFINE e == [kind |-> "ready", conversation |-> v, turns |-> history[v]]
<1>3. /\ handler[c] = "accepted" /\ handler' = [handler EXCEPT ![c] = "idle"]
      /\ serves' = [serves EXCEPT ![c] = v]
      /\ Send(c, <<e>>)
      /\ UNCHANGED <<shown, messages, side, history>>
  BY <1>1 DEF Greet, hook, link
<1>4. history[v] \in Seq(Turns) /\ Distinct(history[v])
  BY <1>t, <1>2, TypesOf DEF IInv, OnePlace
<1>5. e \in Event
  <2>1. v \in 0 .. MaxConnections
    BY <1>2, PageAssumption DEF Conversations, Connections
  <2> QED
    BY <1>4, <2>1 DEF Event
<1>6. e.kind = "ready" /\ e.conversation = v /\ e.turns = history[v]
  OBVIOUS
<1> HIDE DEF e
<1>7. outbox' = [outbox EXCEPT ![c] = Append(@, e)]
  BY <1>t, <1>3, <1>5, SendType
<1>8. PICK last \in Nat :
        /\ \A k, i : i \in Events(c, k)' <=>
                       i \in Events(c, k) \/ (i = last /\ k = e.kind)
        /\ \A k : \A i \in Events(c, k) : /\ i \in Nat /\ i < last
                                          /\ outbox'[c][i] = outbox[c][i]
        /\ outbox'[c][last] = e
  BY <1>t, <1>5, <1>7, SentEvents
<1>o. Opens(c) /\ Resumes(c) /\ Brings(c)
  BY DEF IInv, Streams, Stream
<1>9. /\ handler'[c] = "idle" /\ serves'[c] = v /\ ~Serving(c)
  BY <1>t, <1>3 DEF TypeOK, Serving
<1>10. /\ Events(c, "open")' = Events(c, "open")
       /\ Events(c, "ready")' = {last}
       /\ Events(c, "answer")' = {}
  <2>1. Events(c, "ready") = {} /\ Events(c, "answer") = {}
    BY <1>o, <1>9 DEF Resumes, Brings
  <2>2. \A i : /\ i \in Events(c, "open")' <=> i \in Events(c, "open")
               /\ i \in Events(c, "ready")' <=> i = last
               /\ ~(i \in Events(c, "answer")')
    BY <1>6, <1>8, <2>1
  <2> QED
    BY ONLY <2>2
<1>11. Opens(c)'
  BY <1>o, <1>3, <1>9, <1>10 DEF Opens
<1>12. \A n : Shows(n)' => In(n, history[v])
  <2>1. serves[c] = shown
    BY <1>o, <1>3 DEF Resumes
  <2>2. \A n : Shows(n)' <=> Shows(n)
    BY <1>3 DEF Shows
  <2>3. \A n : Shows(n) => shown # 0 /\ In(n, history[shown])
    BY DEF IInv, AnswersAreHistory, Shows, In
  <2> QED
    BY <1>1, <2>1, <2>2, <2>3
<1>13. Resumes(c)'
  BY <1>3, <1>4, <1>6, <1>8, <1>9, <1>10, <1>12 DEF Resumes, Serving
<1>14. Brings(c)'
  BY <1>10 DEF Brings
<1> QED
  BY <1>11, <1>13, <1>14 DEF Stream

LEMMA AnswerStream ==
  ASSUME IInv, NEW c \in Connections, Answer(c), Up(c)
  PROVE  Stream(c)'
<1>t. TypeOK
  BY DEF IInv
<1>1. PICK q \in Turns, v \in Conversations :
        /\ q = turn[c] /\ v = serves[c] /\ Serving(c)
        /\ \A w \in Conversations : ~In(q, history[w])
        /\ \A n : \A w \in Conversations :
             In(n, history'[w]) <=> In(n, history[w]) \/ (w = v /\ n = q)
  BY Committed
<1> DEFINE e == [kind |-> "answer", conversation |-> 0, turns |-> <<q>>]
<1>2. /\ handler' = [handler EXCEPT ![c] = "idle"]
      /\ Send(c, <<e>>)
      /\ UNCHANGED <<shown, messages, side, serves>>
  BY <1>1 DEF Answer, hook, link
<1>3. e \in Event /\ e.kind = "answer" /\ e.turns # <<>> /\ e.turns[1] = q
  <2>1. <<q>> \in Seq(Turns) /\ 0 \in 0 .. MaxConnections
    BY PageAssumption
  <2> QED
    BY <2>1 DEF Event
<1> HIDE DEF e
<1>4. outbox' = [outbox EXCEPT ![c] = Append(@, e)]
  BY <1>t, <1>2, <1>3, SendType
<1>5. PICK last \in Nat :
        /\ \A k, i : i \in Events(c, k)' <=>
                       i \in Events(c, k) \/ (i = last /\ k = e.kind)
        /\ \A k : \A i \in Events(c, k) : /\ i \in Nat /\ i < last
                                          /\ outbox'[c][i] = outbox[c][i]
        /\ outbox'[c][last] = e
  BY <1>t, <1>3, <1>4, SentEvents
<1>o. Opens(c) /\ Resumes(c) /\ Brings(c)
  BY DEF IInv, Streams, Stream
<1>6. /\ handler'[c] = "idle" /\ Serving(c)' /\ handler[c] # "none"
      /\ serves'[c] = v
  BY <1>t, <1>1, <1>2 DEF TypeOK, Serving
<1>7. /\ Events(c, "open")' = Events(c, "open")
      /\ Events(c, "ready")' = Events(c, "ready")
      /\ \A i : i \in Events(c, "answer")' <=> i \in Events(c, "answer") \/ i = last
  <2>1. \A k \in {"open", "ready"} : \A i :
          i \in Events(c, k)' <=> i \in Events(c, k)
    BY <1>3, <1>5
  <2>2. \A k \in {"open", "ready"} : Events(c, k)' = Events(c, k)
    BY <2>1
  <2> QED
    BY <1>3, <1>5, <2>2
<1>8. \A n : Shows(n)' <=> Shows(n)
  BY <1>2 DEF Shows
<1>9. Opens(c)'
  BY <1>o, <1>2, <1>6, <1>7 DEF Opens
<1>10. Resumes(c)'
  <2>1. ASSUME NEW i \in Events(c, "ready")
        PROVE  /\ Events(c, "ready")' = {i}
               /\ outbox'[c][i].conversation = serves'[c]
               /\ Distinct(outbox'[c][i].turns)
               /\ \A n \in Turns :
                    /\ In(n, outbox'[c][i].turns) => In(n, history'[serves'[c]])
                    /\ Shows(n)' => In(n, outbox'[c][i].turns)
    <3>1. outbox'[c][i] = outbox[c][i] /\ Events(c, "ready")' = {i}
      BY <1>5, <1>7, <1>o, <2>1 DEF Resumes
    <3>2. /\ outbox[c][i].conversation = v
          /\ Distinct(outbox[c][i].turns)
          /\ \A n \in Turns : /\ In(n, outbox[c][i].turns) => In(n, history[v])
                              /\ Shows(n) => In(n, outbox[c][i].turns)
      BY <1>1, <1>o, <2>1 DEF Resumes
    <3> QED
      BY <1>1, <1>6, <1>8, <3>1, <3>2
  <2>2. Events(c, "ready")' # {} \/ shown' = serves'[c]
    BY <1>o, <1>1, <1>2, <1>7 DEF Resumes
  <2> QED
    BY <1>6, <1>7, <2>1, <2>2 DEF Resumes
<1>11. \A i \in Events(c, "ready") : ~In(q, outbox[c][i].turns)
  BY <1>1, <1>o DEF Resumes
<1>12. Events(c, "ready") = {} => ~Shows(q)
  <2>1. \A n : Shows(n) => In(n, history[shown])
    BY DEF IInv, AnswersAreHistory, Shows, In
  <2>2. Events(c, "ready") = {} => shown = v
    BY <1>o, <1>1 DEF Resumes
  <2> QED
    BY <1>1, <2>1, <2>2
<1>13. \A j \in Events(c, "answer") : outbox[c][j].turns[1] # q
  BY <1>1, <1>o DEF Brings
<1>14. outbox'[c][last].turns[1] = q /\ outbox'[c][last].turns # <<>>
  BY <1>3, <1>5
<1>15. ASSUME NEW j \in Events(c, "answer")'
       PROVE  /\ Serving(c)' /\ outbox'[c][j].turns # <<>>
              /\ In(outbox'[c][j].turns[1], history'[serves'[c]])
              /\ \A i \in Events(c, "ready")' :
                   i < j /\ ~In(outbox'[c][j].turns[1], outbox'[c][i].turns)
              /\ Events(c, "ready")' = {} => ~Shows(outbox[c][j].turns[1])'
              /\ \A k \in Events(c, "answer")' :
                   outbox'[c][j].turns[1] = outbox'[c][k].turns[1] => j = k
  <2>p. PICK a : a = outbox'[c][j].turns[1]
    OBVIOUS
  <2>1. CASE j = last
    <3>1. a = q /\ In(q, history'[v]) /\ outbox'[c][j].turns # <<>>
      BY <1>1, <1>14, <2>1, <2>p
    <3>2. \A i \in Events(c, "ready")' : i < j /\ ~In(q, outbox'[c][i].turns)
      BY <1>5, <1>7, <1>11, <2>1
    <3>3. \A k \in Events(c, "answer")' : outbox'[c][k].turns[1] = q => j = k
      BY <1>5, <1>7, <1>13, <2>1
    <3>4. Events(c, "ready")' = {} => ~Shows(outbox[c][j].turns[1])'
      BY <1>7, <1>8, <1>12, <2>p, <3>1 DEF Shows
    <3> QED
      BY <1>6, <2>p, <3>1, <3>2, <3>3, <3>4
  <2>2. CASE j # last
    <3>1. j \in Events(c, "answer") /\ outbox'[c][j] = outbox[c][j]
      BY <1>5, <1>7, <1>15, <2>2
    <3>2. /\ outbox[c][j].turns # <<>> /\ In(a, history[v])
          /\ \A i \in Events(c, "ready") : i < j /\ ~In(a, outbox[c][i].turns)
          /\ Events(c, "ready") = {} => ~Shows(a)
          /\ \A k \in Events(c, "answer") : a = outbox[c][k].turns[1] => j = k
          /\ a # q
      BY <1>o, <1>1, <1>13, <2>p, <3>1 DEF Brings
    <3>3. In(a, history'[v])
      BY <1>1, <3>2
    <3>4. \A i \in Events(c, "ready")' : i < j /\ ~In(a, outbox'[c][i].turns)
      BY <1>5, <1>7, <3>2
    <3>5. \A k \in Events(c, "answer")' : a = outbox'[c][k].turns[1] => j = k
      BY <1>5, <1>7, <1>14, <3>2
    <3>6. Events(c, "ready")' = {} => ~Shows(outbox[c][j].turns[1])'
      BY <1>7, <1>8, <2>p, <3>2 DEF Shows
    <3> QED
      BY <1>6, <2>p, <3>1, <3>2, <3>3, <3>4, <3>5, <3>6
  <2> QED
    BY <2>1, <2>2
<1>16. Brings(c)'
  BY <1>15 DEF Brings
<1> QED
  BY <1>9, <1>10, <1>16 DEF Stream

\* Each answer is on the page once.
Once == \A i, j \in AnswersIn(messages) : messages[i][2] = messages[j][2] => i = j

LEMMA PageIsHistory ==
  ASSUME TypeOK
  PROVE  AnswersAreHistory <=>
           /\ \A n \in Turns : Shows(n) => shown # 0 /\ In(n, history[shown])
           /\ Once
<1>1. \A i \in AnswersIn(messages) : messages[i][2] \in Turns
  <2> SUFFICES ASSUME NEW i \in AnswersIn(messages)
               PROVE  messages[i][2] \in Turns
    OBVIOUS
  <2>1. messages[i] \in Entry
    BY DEF TypeOK, AnswersIn
  <2> QED
    BY <2>1 DEF Entry
<1>2. ASSUME AnswersAreHistory, NEW n \in Turns, Shows(n)
      PROVE  shown # 0 /\ In(n, history[shown])
  BY <1>2 DEF AnswersAreHistory, Shows, In
<1>3. ASSUME \A n \in Turns : Shows(n) => shown # 0 /\ In(n, history[shown]), Once
      PROVE  AnswersAreHistory
  <2>1. ASSUME NEW i \in AnswersIn(messages)
        PROVE  shown # 0 /\ In(messages[i][2], history[shown])
    <3>1. Shows(messages[i][2])
      BY <2>1 DEF Shows
    <3> QED
      BY <1>1, <1>3, <2>1, <3>1
  <2>2. \A i \in AnswersIn(messages) :
          \E j \in DOMAIN history[shown] : history[shown][j] = messages[i][2]
    BY <2>1 DEF In
  <2>3. AnswersIn(messages) # {} => shown # 0
    BY <2>1
  <2> QED
    BY <1>3, <2>2, <2>3 DEF AnswersAreHistory, Once
<1> QED
  BY <1>2, <1>3 DEF AnswersAreHistory, Once

\* The history that is heard has every answer that was on the page.
LEMMA ReadyHeard ==
  ASSUME IInv, NEW c \in Connections, HearReady(c)
  PROVE  /\ shown' = serves[c] /\ serves[c] # 0
         /\ \A n : Shows(n)' <=> In(n, outbox[c][1].turns)
         /\ \A n \in Turns : /\ In(n, outbox[c][1].turns) => In(n, history[serves[c]])
                             /\ Shows(n) => In(n, outbox[c][1].turns)
         /\ Once'
<1>t. TypeOK
  BY DEF IInv
<1>1. /\ Heard(c, "ready")
      /\ shown' = Head(outbox[c]).conversation
      /\ messages' = Entries(Head(outbox[c]).turns)
  BY DEF HearReady
<1>2. Up(c) /\ Head(outbox[c]) = outbox[c][1] /\ 1 \in Events(c, "ready")
  BY <1>t, <1>1, HeardFacts
<1>3. /\ Serving(c) /\ outbox[c][1].conversation = serves[c]
      /\ Distinct(outbox[c][1].turns)
      /\ \A n \in Turns : /\ In(n, outbox[c][1].turns) => In(n, history[serves[c]])
                          /\ Shows(n) => In(n, outbox[c][1].turns)
  <2>1. Resumes(c)
    BY <1>2 DEF IInv, Streams, Stream
  <2> QED
    BY <1>2, <2>1 DEF Resumes
<1>4. outbox[c][1].turns \in Seq(Turns)
  BY <1>t, <1>2, EventTypes DEF Events
<1>5. serves[c] # 0
  BY <1>3 DEF IInv, Link
<1>6. messages' = Entries(outbox[c][1].turns)
  BY <1>1, <1>2
<1>7. \A n : Shows(n)' <=> In(n, outbox[c][1].turns)
  BY <1>4, <1>6, EntriesFacts DEF Shows
<1>8. Once'
  BY <1>3, <1>4, <1>6, EntriesFacts DEF Once
<1> QED
  BY <1>1, <1>2, <1>3, <1>5, <1>7, <1>8

\* An answer that is heard is of the conversation on the page, and new there.
LEMMA AnswerHeard ==
  ASSUME IInv, NEW c \in Connections, HearAnswer(c)
  PROVE  \E q \in Turns :
           /\ q = outbox[c][1].turns[1]
           /\ shown' # 0 /\ In(q, history[shown])
           /\ \A n : Shows(n)' <=> Shows(n) \/ n = q
           /\ Once'
<1>t. TypeOK
  BY DEF IInv
<1>1. /\ Heard(c, "answer") /\ UNCHANGED <<shown, history>>
      /\ messages' = Append(messages, <<"answer", Head(outbox[c]).turns[1]>>)
  BY DEF HearAnswer, server
<1>2. Up(c) /\ Head(outbox[c]) = outbox[c][1] /\ 1 \in Events(c, "answer")
  BY <1>t, <1>1, HeardFacts
<1>3. Stream(c)
  BY <1>2 DEF IInv, Streams
<1>4. PICK q \in Turns : q = outbox[c][1].turns[1]
  BY <1>t, <1>2, <1>3, AnswerType
<1>5. messages' = Append(messages, <<"answer", q>>)
  BY <1>1, <1>2, <1>4
<1>6. /\ Serving(c) /\ In(q, history[serves[c]])
      /\ \A i \in Events(c, "ready") : i < 1
      /\ Events(c, "ready") = {} => ~Shows(q)
  BY <1>2, <1>3, <1>4 DEF Stream, Brings
<1>7. Events(c, "ready") = {}
  <2>1. \A i \in Events(c, "ready") : i \in Nat \ {0}
    BY <1>t, TypesOf DEF Events
  <2> QED
    BY <1>6, <2>1
<1>8. shown = serves[c]
  BY <1>3, <1>6, <1>7 DEF Stream, Resumes
<1>9. serves[c] # 0
  BY <1>6 DEF IInv, Link
<1>10. Once /\ ~Shows(q)
  BY <1>6, <1>7 DEF IInv, AnswersAreHistory, Once
<1>11. (\A n : Shows(n)' <=> Shows(n) \/ n = q) /\ Once'
  <2>1. PICK kind \in {"question", "answer"} : kind = "answer"
    OBVIOUS
  <2>2. messages' = Append(messages, <<kind, q>>)
    BY <1>5, <2>1
  <2>3. \A n : Shows(n)' <=> Shows(n) \/ (kind = "answer" /\ n = q)
    BY <1>t, <2>2, ShowsMore
  <2>4. Once /\ ~(kind = "answer" /\ Shows(q)) => Once'
    BY ONLY <1>t, <2>2, ShowsMore DEF Once
  <2> QED
    BY <1>10, <2>1, <2>3, <2>4
<1> QED
  BY <1>1, <1>4, <1>6, <1>8, <1>9, <1>11

LEMMA HearStream ==
  ASSUME IInv, NEW c \in Connections,
         HearOpen(c) \/ HearReady(c) \/ HearAnswer(c) \/ HearError(c)
  PROVE  Stream(c)' /\ c = socket
<1>t. TypeOK
  BY DEF IInv
<1>1. /\ UNCHANGED <<handler, serves, history>>
      /\ \E kind \in {"open", "ready", "answer", "error"} : Heard(c, kind)
  BY DEF HearOpen, HearReady, HearAnswer, HearError, server
<1>2. Up(c) /\ c = socket
  BY <1>1 DEF IInv, Link, Heard
<1>3. Stream(c)
  BY <1>2 DEF IInv, Streams
<1>4. CASE HearOpen(c)
  <2>1. Heard(c, "open") /\ side' = [side EXCEPT ![c] = "open"]
        /\ UNCHANGED <<shown, messages>>
    BY <1>4 DEF HearOpen
  <2>2. side'[c] = "open" /\ \A n : Shows(n)' <=> Shows(n)
    BY <1>t, <2>1 DEF TypeOK, Shows
  <2> QED
    BY <1>t, <1>1, <1>2, <1>3, <2>1, <2>2, StreamHeard
<1>5. CASE HearError(c)
  <2>1. Heard(c, "error") /\ UNCHANGED <<side, shown, messages>>
    BY <1>5 DEF HearError, link
  <2>2. side'[c] = "open" /\ \A n : Shows(n)' <=> Shows(n)
    BY <2>1, NothingQueued DEF Shows
  <2> QED
    BY <1>t, <1>1, <1>2, <1>3, <2>1, <2>2, StreamHeard
<1>6. CASE HearReady(c)
  <2>1. Heard(c, "ready") /\ UNCHANGED side
    BY <1>6 DEF HearReady, link
  <2>2. side'[c] = "open"
    BY <2>1, NothingQueued
  <2>3. shown' = serves[c] /\ \A n : Shows(n)' <=> In(n, outbox[c][1].turns)
    BY <1>6, ReadyHeard
  <2> QED
    BY <1>t, <1>1, <1>2, <1>3, <2>1, <2>2, <2>3, StreamHeard
<1>7. CASE HearAnswer(c)
  <2>1. Heard(c, "answer") /\ UNCHANGED <<side, shown>>
    BY <1>7 DEF HearAnswer, link
  <2>2. side'[c] = "open"
    BY <2>1, NothingQueued
  <2>3. \A n : Shows(n)' <=> Shows(n) \/ n = outbox[c][1].turns[1]
    BY <1>7, AnswerHeard
  <2> QED
    BY <1>t, <1>1, <1>2, <1>3, <2>1, <2>2, <2>3, StreamHeard
<1> QED
  BY <1>4, <1>5, <1>6, <1>7

LEMMA StreamsStep ==
  ASSUME IInv, [Next]_vars, TypeOK'
  PROVE  Streams'
<1> USE PageAssumption
<1>t. TypeOK /\ Link /\ Streams
  BY DEF IInv
<1>u. \A c \in Connections : Up(c) => c = socket /\ Stream(c)
  BY <1>t DEF Link, Streams
\* A connection whose stream the step leaves alone
<1>k. ASSUME NEW c \in Connections, Up(c), side'[c] = side[c], serves'[c] = serves[c],
             shown' = shown, outbox'[c] = outbox[c],
             \/ handler'[c] = handler[c]
             \/ Serving(c) /\ Serving(c)',
             \A n : Shows(n)' => Shows(n),
             \A n \in Turns : \A v \in Conversations :
               In(n, history[v]) => In(n, history'[v])
      PROVE  Stream(c)'
  <2>1. Stream(c)
    BY <1>u, <1>k
  <2>2. \A i \in Events(c, "answer") : outbox[c][i].turns[1] \in Turns
    BY <1>t, <2>1, AnswerType
  <2>3. \A k : Events(c, k)' = Events(c, k)
    BY <1>k DEF Events
  <2>4. \/ handler'[c] = handler[c]
        \/ /\ handler[c] # "none" /\ handler'[c] \notin {"none", "accepted"}
           /\ Serving(c)' <=> Serving(c)
    BY <1>k DEF Serving
  <2>5. Serving(c) => serves[c] \in Conversations
    BY <1>t, TypesOf DEF Link
  <2> QED
    BY <1>k, <2>1, <2>2, <2>3, <2>4, <2>5, StreamKept
\* A step of the hook, or of the handlers of connections that are not up
<1>1. ASSUME \A c \in Connections : Up(c)' =>
               /\ Up(c) /\ side'[c] = side[c] /\ serves'[c] = serves[c]
               /\ outbox'[c] = outbox[c]
               /\ \/ handler'[c] = handler[c]
                  \/ Serving(c) /\ Serving(c)',
             shown' = shown,
             \A n : Shows(n)' => Shows(n),
             \A n \in Turns : \A v \in Conversations :
               In(n, history[v]) => In(n, history'[v])
      PROVE  Streams'
  BY <1>k, <1>1 DEF Streams
<1>s. UNCHANGED messages => \A n : Shows(n)' <=> Shows(n)
  BY DEF Shows
\* Only another view, or the end of the view's connection, takes a stream away.
<1>2. CASE Connect
  <2>1. /\ used + 1 \in Connections /\ socket = 0
        /\ side' = [side EXCEPT ![used + 1] = "connecting"]
        /\ serves' = [serves EXCEPT ![used + 1] = shown]
        /\ UNCHANGED <<shown, messages, handler, history, outbox>>
    BY <1>t, <1>2 DEF Connect, hook, TypeOK, Connections
  <2>2. PICK c \in Connections : c = used + 1
    BY <2>1
  <2>3. \A d \in Connections : ~Up(d)
    BY <1>u, <2>1 DEF Connections
  <2>4. \A d \in Connections : Up(d)' => d = c
    BY <1>t, <2>1, <2>2, <2>3 DEF TypeOK, Up
  <2>5. handler[c] = "none" /\ outbox[c] = <<>>
    <3>1. c > used
      BY <1>t, <2>2 DEF TypeOK
    <3> QED
      BY <1>t, <3>1 DEF Link
  <2>6. side'[c] = "connecting" /\ serves'[c] = shown /\ outbox'[c] = <<>>
        /\ handler'[c] = "none"
    BY <1>t, <2>1, <2>2, <2>5 DEF TypeOK
  <2>7. \A k : Events(c, k)' = {}
    BY <2>6 DEF Events
  <2>8. Stream(c)'
    BY <2>1, <2>6, <2>7 DEF Stream, Opens, Resumes, Brings, Serving
  <2> QED
    BY <2>4, <2>8 DEF Streams
<1>3. CASE Submit
  <2>1. /\ UNCHANGED <<shown, side, serves, handler, history, outbox>>
        /\ messages' = Append(messages, <<"question", asked + 1>>)
        /\ asked + 1 \in Turns
    BY <1>t, <1>3 DEF Submit, link, server, TypeOK, Turns
  <2>2. \A n : Shows(n)' => Shows(n)
    BY <1>t, <2>1, ShowsMore
  <2> QED
    BY <1>1, <2>1, <2>2 DEF Up
<1>4. ASSUME NEW v \in 0 .. created, Switch(v) PROVE Streams'
  <2>1. \A c \in Connections : ~Up(c)'
    BY <1>u, <1>4 DEF Switch, Up
  <2> QED
    BY <2>1 DEF Streams
<1>5. ASSUME NEW c \in Connections, Hear(c) PROVE Streams'
  <2>1. CASE HearOpen(c) \/ HearReady(c) \/ HearAnswer(c) \/ HearError(c)
    <3>1. Stream(c)' /\ c = socket
      BY <2>1, HearStream
    <3>2. side' = [side EXCEPT ![c] = "open"] \/ side' = side
      BY <2>1 DEF HearOpen, HearReady, HearAnswer, HearError, link
    <3>3. \A d \in Connections : Up(d)' => d = c
      BY <1>t, <1>u, <3>1, <3>2 DEF TypeOK, Up
    <3> QED
      BY <3>1, <3>3 DEF Streams
  <2>2. CASE HearRefused(c) \/ HearClosed(c)
    <3>1. /\ side' = [side EXCEPT ![c] = "closed"]
          /\ \/ Up(c)
             \/ UNCHANGED outbox
          /\ UNCHANGED <<shown, messages, serves, handler, history>>
      BY <2>2 DEF HearRefused, HearClosed, Heard, server
    <3>2. \A d \in Connections : Up(d)' => Up(d) /\ d # c /\ side'[d] = side[d]
      BY <1>t, <3>1 DEF TypeOK, Up
    <3>3. CASE Up(c)
      BY <1>u, <3>2, <3>3 DEF Streams
    <3>4. CASE UNCHANGED outbox
      BY <1>1, <1>s, <3>1, <3>2, <3>4
    <3> QED
      BY <3>1, <3>3, <3>4
  <2> QED
    BY <1>5, <2>1, <2>2 DEF Hear
<1>6. ASSUME NEW c \in Connections, Break(c) PROVE Streams'
  <2>1. \A d \in Connections : ~Up(d)'
    BY <1>t, <1>u, <1>6 DEF Break, TypeOK, Up
  <2> QED
    BY <2>1 DEF Streams
\* Steps of the handler of c
<1>7. ASSUME NEW c \in Connections, UNCHANGED <<shown, messages, side>>,
             \A d \in Connections \ {c} : /\ serves'[d] = serves[d]
                                          /\ outbox'[d] = outbox[d]
                                          /\ handler'[d] = handler[d],
             \A n \in Turns : \A v \in Conversations :
               In(n, history[v]) => In(n, history'[v]),
             Up(c) => Stream(c)'
      PROVE  Streams'
  <2> SUFFICES ASSUME NEW d \in Connections, Up(d)' PROVE Stream(d)'
    BY DEF Streams
  <2>1. Up(d) /\ side'[d] = side[d]
    BY <1>7 DEF Up
  <2> QED
    BY <1>k, <1>s, <1>7, <2>1
<1>8. ASSUME NEW c \in Connections, NEW l,
             handler' = [handler EXCEPT ![c] = l],
             UNCHANGED serves \/ (\E v : serves' = [serves EXCEPT ![c] = v]),
             UNCHANGED outbox \/ \E events : Send(c, events)
      PROVE  \A d \in Connections \ {c} : /\ serves'[d] = serves[d]
                                          /\ outbox'[d] = outbox[d]
                                          /\ handler'[d] = handler[d]
  <2>1. \A d \in Connections \ {c} : handler'[d] = handler[d]
    BY <1>t, <1>8 DEF TypeOK
  <2>2. \A d \in Connections \ {c} : serves'[d] = serves[d]
    BY <1>t, <1>8 DEF TypeOK
  <2>3. \A d \in Connections \ {c} : outbox'[d] = outbox[d]
    <3>1. CASE UNCHANGED outbox
      BY <3>1
    <3>2. ASSUME NEW events, Send(c, events)
          PROVE  \A d \in Connections \ {c} : outbox'[d] = outbox[d]
      BY <1>t, <3>2 DEF Send, TypeOK
    <3> QED
      BY <1>8, <3>1, <3>2
  <2> QED
    BY <2>1, <2>2, <2>3
<1>9. ASSUME NEW c \in Connections, Accept(c) PROVE Streams'
  <2>1. Stream(c)'
    BY <1>9, AcceptStream
  <2> QED
    BY <1>7, <1>8, <1>9, <2>1 DEF Accept, hook, link
<1>10. ASSUME NEW c \in Connections, Greet(c) PROVE Streams'
  <2>1. Up(c) => Stream(c)'
    BY <1>10, GreetStream
  <2>2. /\ UNCHANGED <<shown, messages, side, history>>
        /\ handler' = [handler EXCEPT ![c] = "idle"]
        /\ \E v : serves' = [serves EXCEPT ![c] = v]
        /\ \E events : Send(c, events)
    BY <1>10 DEF Greet, hook, link
  <2> QED
    BY <1>7, <1>8, <2>1, <2>2
<1>11. ASSUME NEW c \in Connections, Answer(c) PROVE Streams'
  <2>1. Up(c) => Stream(c)'
    BY <1>11, AnswerStream
  <2>2. /\ UNCHANGED <<shown, messages, side, serves>>
        /\ handler' = [handler EXCEPT ![c] = "idle"]
        /\ \E events : Send(c, events)
    BY <1>11 DEF Answer, hook, link
  <2>3. \A n \in Turns : \A v \in Conversations :
          In(n, history[v]) => In(n, history'[v])
    BY <1>11, Committed
  <2> QED
    BY <1>7, <1>8, <2>1, <2>2, <2>3
<1>12. ASSUME NEW c \in Connections, Refuse(c) \/ Reject(c) \/ Fail(c) PROVE Streams'
  <2>1. PICK l \in {"idle", "gone"} :
          /\ handler' = [handler EXCEPT ![c] = l]
          /\ \/ handler[c] = "accepted" /\ l = "gone"
             \/ handler[c] = "turn" /\ l = "idle"
          /\ UNCHANGED <<shown, messages, side, serves, history>>
    BY <1>12 DEF Refuse, Reject, Fail, hook, link
  <2>2. \/ Send(c, <<Note("error")>>)
        \/ Send(c, <<Note("refused")>>)
        \/ Send(c, <<Note("error"), Note("closed")>>)
    BY <1>12 DEF Refuse, Reject, Fail
  <2>3. handler'[c] = l
    BY <1>t, <2>1 DEF TypeOK
  <2>4. Up(c) => Stream(c)'
    <3> SUFFICES ASSUME Up(c) PROVE Stream(c)'
      OBVIOUS
    <3>1. Stream(c) /\ \A i \in Events(c, "answer") : outbox[c][i].turns[1] \in Turns
      BY <1>t, <1>u, AnswerType
    <3>2. /\ \A k \in {"open", "ready", "answer"} : Events(c, k)' = Events(c, k)
          /\ \A k \in {"open", "ready", "answer"} : \A i \in Events(c, k) :
               outbox'[c][i] = outbox[c][i]
      BY <1>t, <2>2, QuietSend
    <3>3. /\ handler[c] # "none" /\ handler'[c] \notin {"none", "accepted"}
          /\ Serving(c)' <=> Serving(c)
      BY <2>1, <2>3 DEF Serving
    <3> QED
      BY <1>s, <2>1, <3>1, <3>2, <3>3, StreamKept
  <2> QED
    BY <1>7, <1>8, <2>1, <2>2, <2>4
<1>13. ASSUME NEW c \in Connections, Receive(c) \/ End(c) PROVE Streams'
  <2>1. PICK l \in {"turn", "gone"} :
          /\ handler' = [handler EXCEPT ![c] = l] /\ handler[c] = "idle"
          /\ l = "turn" \/ ~Up(c)
          /\ UNCHANGED <<shown, messages, side, serves, history, outbox>>
    BY <1>13 DEF Receive, End, hook, link
  <2>2. handler'[c] = l /\ \A d \in Connections \ {c} : handler'[d] = handler[d]
    BY <1>t, <2>1 DEF TypeOK
  <2>3. \A d \in Connections : Up(d)' =>
          Up(d) /\ (handler'[d] = handler[d] \/ (Serving(d) /\ Serving(d)'))
    BY <2>1, <2>2 DEF Up, Serving
  <2> QED
    BY <1>1, <1>s, <2>1, <2>3
<1>14. CASE UNCHANGED vars
  <2>1. UNCHANGED <<shown, messages, side, serves, handler, history, outbox>>
    BY <1>14 DEF vars, hook, link, server
  <2> QED
    BY <1>1, <1>s, <2>1 DEF Up
<1> QED
  BY <1>2, <1>3, <1>4, <1>5, <1>6, <1>9, <1>10, <1>11, <1>12, <1>13, <1>14 DEF Next, Serve

------------------------------------------------------------------------------
(* What the page shows.                                                    *)

LEMMA HistoryStep ==
  ASSUME IInv, [Next]_vars, TypeOK'
  PROVE  AnswersAreHistory'
<1> USE PageAssumption
<1>t. TypeOK
  BY DEF IInv
<1>p. Once /\ \A n \in Turns : Shows(n) => shown # 0 /\ In(n, history[shown])
  BY <1>t, PageIsHistory DEF IInv
<1>q. ASSUME Once', \A n \in Turns : Shows(n)' => shown' # 0 /\ In(n, history'[shown'])
      PROVE  AnswersAreHistory'
  <2>1. ASSUME NEW i \in AnswersIn(messages')
        PROVE  shown' # 0 /\ In(messages'[i][2], history'[shown'])
    <3>1. messages'[i] \in Entry
      BY <2>1 DEF TypeOK, AnswersIn
    <3>2. PICK n \in Turns : n = messages'[i][2]
      BY <3>1 DEF Entry
    <3>3. Shows(n)'
      BY <2>1, <3>2 DEF Shows
    <3> QED
      BY <1>q, <3>2, <3>3
  <2>2. \A i \in AnswersIn(messages') :
          \E j \in DOMAIN history'[shown'] : history'[shown'][j] = messages'[i][2]
    BY <2>1 DEF In
  <2>3. AnswersIn(messages') # {} => shown' # 0
    BY <2>1
  <2>4. \A i, j \in AnswersIn(messages') : messages'[i][2] = messages'[j][2] => i = j
    BY <1>q DEF Once
  <2> QED
    BY ONLY <2>2, <2>3, <2>4 DEF AnswersAreHistory
<1>r. shown = 0 \/ shown \in Conversations
  BY <1>t, TypesOf DEF TypeOK
<1>k. ASSUME UNCHANGED <<shown, messages>>,
             \A n : \A v \in Conversations : In(n, history[v]) => In(n, history'[v])
      PROVE  AnswersAreHistory'
  <2>1. Once' /\ \A n : Shows(n)' <=> Shows(n)
    BY <1>p, <1>k DEF Once, Shows
  <2> QED
    BY <1>p, <1>q, <1>r, <1>k, <2>1
<1>1. CASE Submit
  <2>1. /\ UNCHANGED <<shown, history>>
        /\ messages' = Append(messages, <<"question", asked + 1>>)
        /\ asked + 1 \in Turns
    BY <1>t, <1>1 DEF Submit, server, TypeOK, Turns
  <2>2. (\A n : Shows(n)' <=> Shows(n)) /\ Once'
    <3>1. PICK kind \in {"question", "answer"} : kind = "question"
      OBVIOUS
    <3>2. PICK q \in Turns : q = asked + 1
      BY <2>1
    <3>3. messages' = Append(messages, <<kind, q>>)
      BY <2>1, <3>1, <3>2
    <3>4. \A n : Shows(n)' <=> Shows(n) \/ (kind = "answer" /\ n = q)
      BY <1>t, <3>3, ShowsMore
    <3>5. Once /\ ~(kind = "answer" /\ Shows(q)) => Once'
      BY ONLY <1>t, <3>3, ShowsMore DEF Once
    <3> QED
      BY <1>p, <3>1, <3>4, <3>5
  <2> QED
    BY <1>p, <1>q, <2>1, <2>2
<1>2. ASSUME NEW v \in 0 .. created, Switch(v) PROVE AnswersAreHistory'
  <2>1. messages' = <<>>
    BY <1>2 DEF Switch
  <2> QED
    BY <1>q, <2>1 DEF Once, Shows, AnswersIn
<1>3. ASSUME NEW c \in Connections, Hear(c) \/ Break(c) PROVE AnswersAreHistory'
  <2>1. CASE HearReady(c)
    <3>1. /\ shown' = serves[c] /\ serves[c] # 0 /\ history' = history
          /\ \A n : Shows(n)' <=> In(n, outbox[c][1].turns)
          /\ \A n \in Turns : In(n, outbox[c][1].turns) => In(n, history[serves[c]])
          /\ Once'
      BY <2>1, ReadyHeard DEF HearReady, server
    <3> QED
      BY <1>q, <3>1
  <2>2. CASE HearAnswer(c)
    <3>1. PICK q \in Turns :
            /\ shown' # 0 /\ In(q, history[shown])
            /\ \A n : Shows(n)' <=> Shows(n) \/ n = q
            /\ Once'
      BY <2>2, AnswerHeard
    <3>2. shown' = shown /\ history' = history
      BY <2>2 DEF HearAnswer, server
    <3> QED
      BY <1>p, <1>q, <3>1, <3>2
  <2>3. CASE ~HearReady(c) /\ ~HearAnswer(c)
    <3>1. UNCHANGED <<shown, messages, history>>
      BY <1>3, <2>3 DEF Hear, HearOpen, HearError, HearRefused, HearClosed, Break, hook,
                        server
    <3> QED
      BY <1>k, <3>1
  <2> QED
    BY <2>1, <2>2, <2>3
<1>4. ASSUME NEW c \in Connections, Answer(c) PROVE AnswersAreHistory'
  <2>1. UNCHANGED <<shown, messages>>
    BY <1>4 DEF Answer, hook
  <2>2. \A n : \A v \in Conversations : In(n, history[v]) => In(n, history'[v])
    BY <1>4, Committed
  <2> QED
    BY <1>k, <2>1, <2>2
<1>5. ASSUME NEW c \in Connections,
             \/ Accept(c) \/ Greet(c) \/ Receive(c) \/ Fail(c)
             \/ Refuse(c) \/ Reject(c) \/ End(c)
      PROVE  AnswersAreHistory'
  <2>1. UNCHANGED <<shown, messages, history>>
    BY <1>5 DEF Accept, Greet, Receive, Fail, Refuse, Reject, End, hook
  <2> QED
    BY <1>k, <2>1
<1>6. CASE Connect \/ UNCHANGED vars
  <2>1. UNCHANGED <<shown, messages, history>>
    BY <1>6 DEF Connect, vars, hook, server
  <2> QED
    BY <1>k, <2>1
<1> QED
  BY <1>1, <1>2, <1>3, <1>4, <1>5, <1>6 DEF Next, Serve

LEMMA Invariance == Spec => []IInv
<1>1. IInv /\ [Next]_vars => IInv'
  <2> SUFFICES ASSUME IInv, [Next]_vars PROVE IInv'
    OBVIOUS
  <2>1. TypeOK'
    BY TypeStep
  <2> QED
    BY <2>1, LinkStep, WaitingStep, OnePlaceStep, StreamsStep, HistoryStep DEF IInv
<1> QED
  BY <1>1, InitIInv, PTL DEF Spec

\* The hook, the connections, the handlers and the histories have their types, and
\* one question at most waits for a connection (useCopilotSocket, copilot_ws).
THEOREM TypeCorrect == Spec => []TypeOK
<1>1. IInv => TypeOK
  BY DEF IInv
<1> QED
  BY <1>1, Invariance, PTL

\* The answers that the page shows are committed in the conversation it shows, each
\* once, whatever sockets were closed or opened again (the ready event's history,
\* which replaces what the page shows, and the answers appended to it).
THEOREM PageShowsHistory == Spec => []AnswersAreHistory
<1>1. IInv => AnswersAreHistory
  BY DEF IInv
<1> QED
  BY <1>1, Invariance, PTL

\* No event takes an answer off the page: the history a reconnected socket resumes
\* with has all of them.
THEOREM ReadAnswersStay == Spec => AnswersStay
<1> DEFINE Stay == \A i \in AnswersIn(messages) :
                     \E j \in AnswersIn(messages') : messages'[j][2] = messages[i][2]
<1>1. ASSUME IInv, [Next]_vars, views' = views PROVE Stay
  <2>t. TypeOK
    BY <1>1 DEF IInv
  <2>k. ASSUME \A n \in Turns : Shows(n) => Shows(n)' PROVE Stay
    <3> SUFFICES ASSUME NEW i \in AnswersIn(messages)
                 PROVE  \E j \in AnswersIn(messages') : messages'[j][2] = messages[i][2]
      OBVIOUS
    <3>1. messages[i] \in Entry
      BY <2>t DEF TypeOK, AnswersIn
    <3>2. PICK n \in Turns : n = messages[i][2]
      BY <3>1 DEF Entry
    <3>3. Shows(n)
      BY <3>2 DEF Shows
    <3> QED
      BY <2>k, <3>2, <3>3 DEF Shows
  <2>1. CASE Submit
    <3>1. /\ messages' = Append(messages, <<"question", asked + 1>>)
          /\ asked + 1 \in Turns
      BY <2>t, <2>1, PageAssumption DEF Submit, TypeOK, Turns
    <3>2. \A n : Shows(n) => Shows(n)'
      BY <2>t, <3>1, ShowsMore
    <3> QED
      BY <2>k, <3>2
  <2>2. ASSUME NEW v \in 0 .. created, Switch(v) PROVE FALSE
    <3>1. views' = views + 1 /\ views \in Nat
      BY <2>t, <2>2, PageAssumption DEF Switch, TypeOK
    <3> QED
      BY <1>1, <3>1
  <2>3. ASSUME NEW c \in Connections, HearReady(c) PROVE Stay
    BY <1>1, <2>k, <2>3, ReadyHeard
  <2>4. ASSUME NEW c \in Connections, HearAnswer(c) PROVE Stay
    BY <1>1, <2>k, <2>4, AnswerHeard
  <2>5. CASE UNCHANGED messages
    BY <2>k, <2>5 DEF Shows
  <2>6. \/ Submit \/ UNCHANGED messages
        \/ \E v \in 0 .. created : Switch(v)
        \/ \E c \in Connections : HearReady(c) \/ HearAnswer(c)
    BY <1>1 DEF Next, Connect, Hear, HearOpen, HearError, HearRefused, HearClosed, Break,
                Serve, Accept, Greet, Receive, Answer, Fail, Refuse, Reject, End, hook, vars
  <2> HIDE DEF Stay
  <2> QED
    BY <2>1, <2>2, <2>3, <2>4, <2>5, <2>6
<1>2. IInv /\ [Next]_vars => [views' = views => Stay]_vars
  BY <1>1
<1> QED
  BY <1>2, Invariance, PTL DEF Spec, AnswersStay

=============================================================================
