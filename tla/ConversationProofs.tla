-------------------------- MODULE ConversationProofs --------------------------
(***************************************************************************)
(* A turn of the copilot is persisted whole or not at all, the turns of    *)
(* one socket keep their order, and the title is the first question of a   *)
(* socket, for any number of sockets and turns.                            *)
(***************************************************************************)
EXTENDS CopilotConversation, SequenceTheorems, TLAPS

Busy(s) == pc[s] \in {"chat", "tool", "finish"}

\* A socket at work runs a turn that was asked, and no other socket runs it.
TurnsRun ==
  /\ \A s \in Sockets : Busy(s) <=> turn[s] # 0
  /\ \A s \in Sockets : turn[s] <= asked
  /\ \A s \in Sockets : pc[s] = "tool" => loop[s].calls # 0
  /\ \A s, u \in Sockets : turn[s] # 0 /\ turn[s] = turn[u] => s = u

\* A turn that nobody has asked or that is running is one no table knows.
Outcomes ==
  /\ \A n \in Turns : outcome[n] = "none" => n > asked
  /\ \A n \in Turns : outcome[n] = "running" => \E s \in Sockets : turn[s] = n

\* What the tables hold is of turns that are over.
TurnsOver ==
  /\ \A i \in DOMAIN messages :
       messages[i].turn <= asked /\ \A s \in Sockets : turn[s] # messages[i].turn
  /\ \A i \in DOMAIN audits :
       audits[i].turn <= asked /\ \A s \in Sockets : turn[s] # audits[i].turn

\* An open transaction is younger than what its socket committed, and a turn
\* has one.
Transactions ==
  /\ \A s \in Sockets : began[s] <= clock
  /\ \A s \in Sockets : Busy(s) => began[s] # 0
  /\ \A i \in DOMAIN messages : messages[i].at <= clock
  /\ \A s \in Sockets : \A i \in DOMAIN messages :
       messages[i].socket = s /\ began[s] # 0 => messages[i].at < began[s]

\* A turn has loaded the conversation; a title that was seen is there, and a
\* socket that saw none has not committed a message since.
TitlesSeen ==
  \A s \in Sockets :
    /\ Busy(s) => titleSeen[s] # Expired
    /\ titleSeen[s] \in Turns => title # 0
    /\ titleSeen[s] = 0 => \A i \in DOMAIN messages : messages[i].socket # s

Persisted ==
  \A n \in Turns :
    /\ Whole(n) \/ Absent(n)
    /\ outcome[n] = "answered" => Whole(n)

IInv ==
  /\ TypeOK
  /\ TurnsRun
  /\ Outcomes
  /\ TurnsOver
  /\ Persisted
  /\ Transactions
  /\ SocketHistoryInOrder
  /\ TitlesSeen
  /\ TitleIsFirstQuestion

------------------------------------------------------------------------------

LEMMA InitIInv == Init => IInv
<1> SUFFICES ASSUME Init PROVE IInv
  OBVIOUS
<1> USE CopilotAssumption DEF Init
<1>1. TypeOK
  <2>1. messages \in Seq(Message) /\ audits \in Seq(Audit)
    OBVIOUS
  <2>2. NoLoop \in Loop
    BY DEF NoLoop, Loop, Replies
  <2> QED
    BY <2>1, <2>2 DEF TypeOK, Turns, PC, Expired
<1>2. TurnsRun /\ Outcomes /\ TurnsOver
  BY DEF TurnsRun, Outcomes, TurnsOver, Busy, Turns
<1>3. Persisted
  BY DEF Persisted, Absent, Rows, AuditsOf, Turns
<1>4. Transactions /\ SocketHistoryInOrder
  BY DEF Transactions, SocketHistoryInOrder, Busy
<1>5. TitlesSeen
  <2>1. ASSUME NEW s \in Sockets
        PROVE  /\ titleSeen[s] = Expired /\ ~Busy(s)
               /\ Expired \notin Turns /\ Expired # 0
    BY DEF Expired, Busy, Turns
  <2> QED
    BY <2>1 DEF TitlesSeen
<1>6. TitleIsFirstQuestion
  BY DEF TitleIsFirstQuestion
<1> QED
  BY <1>1, <1>2, <1>3, <1>4, <1>5, <1>6 DEF IInv

LEMMA TwoMore ==
  ASSUME NEW S, NEW seq \in Seq(S), NEW a \in S, NEW b \in S
  PROVE  /\ seq \o <<a, b>> \in Seq(S)
         /\ Len(seq \o <<a, b>>) = Len(seq) + 2
         /\ \A i \in 1 .. Len(seq) : (seq \o <<a, b>>)[i] = seq[i]
         /\ (seq \o <<a, b>>)[Len(seq) + 1] = a
         /\ (seq \o <<a, b>>)[Len(seq) + 2] = b
<1> DEFINE pair == <<a, b>>
<1>1. pair \in Seq(S) /\ Len(pair) = 2 /\ pair[1] = a /\ pair[2] = b
  OBVIOUS
<1> HIDE DEF pair
<1>2. /\ seq \o pair \in Seq(S)
      /\ Len(seq \o pair) = Len(seq) + Len(pair)
      /\ \A i \in 1 .. Len(seq) + Len(pair) :
           (seq \o pair)[i] = IF i <= Len(seq) THEN seq[i] ELSE pair[i - Len(seq)]
  BY <1>1, ConcatProperties, Zenon
<1>3. Len(seq) \in Nat
  OBVIOUS
<1>4. /\ \A i \in 1 .. Len(seq) : (seq \o pair)[i] = seq[i]
      /\ (seq \o pair)[Len(seq) + 1] = a
      /\ (seq \o pair)[Len(seq) + 2] = b
  BY <1>1, <1>2, <1>3
<1> QED
  BY <1>2, <1>4 DEF pair

\* What an answer adds to the tables
LEMMA Committed ==
  ASSUME TypeOK, NEW s \in Sockets, Answer(s), turn[s] \in Turns
  PROVE  /\ messages' \in Seq(Message)
         /\ audits' \in Seq(Audit)
         /\ IF s \in Http THEN messages' = messages
            ELSE /\ Len(messages') = Len(messages) + 2
                 /\ \A i \in 1 .. Len(messages) : messages'[i] = messages[i]
                 /\ messages'[Len(messages) + 1] = Row(s, "user")
                 /\ messages'[Len(messages) + 2] = Row(s, "assistant")
         /\ Len(audits') = Len(audits) + 1
         /\ \A i \in 1 .. Len(audits) : audits'[i] = audits[i]
         /\ audits'[Len(audits) + 1] = AuditOf(s)
<1>1. /\ messages \in Seq(Message) /\ audits \in Seq(Audit)
      /\ began[s] \in Nat /\ loop[s].proposed \in BOOLEAN
  BY DEF TypeOK, Loop, Replies
<1>2. s \notin Http => Row(s, "user") \in Message /\ Row(s, "assistant") \in Message
  BY <1>1 DEF Row, Message
<1>3. AuditOf(s) \in Audit
  BY <1>1, Zenon DEF AuditOf, Audit
<1>4. /\ messages' = IF s \in Http THEN messages
                     ELSE messages \o <<Row(s, "user"), Row(s, "assistant")>>
      /\ audits' = Append(audits, AuditOf(s))
  BY DEF Answer, MessagesAfter
<1> HIDE DEF Row, AuditOf, Message, Audit
<1>5. /\ audits' \in Seq(Audit)
      /\ Len(audits') = Len(audits) + 1
      /\ \A i \in 1 .. Len(audits) : audits'[i] = audits[i]
      /\ audits'[Len(audits) + 1] = AuditOf(s)
  BY <1>1, <1>3, <1>4
<1>6. CASE s \in Http
  BY <1>1, <1>4, <1>5, <1>6
<1>7. CASE s \notin Http
  <2>1. messages' = messages \o <<Row(s, "user"), Row(s, "assistant")>>
    BY <1>4, <1>7
  <2>2. /\ messages' \in Seq(Message)
        /\ Len(messages') = Len(messages) + 2
        /\ \A i \in 1 .. Len(messages) : messages'[i] = messages[i]
        /\ messages'[Len(messages) + 1] = Row(s, "user")
        /\ messages'[Len(messages) + 2] = Row(s, "assistant")
    BY <1>1, <1>2, <1>7, <2>1, TwoMore
  <2> QED
    BY <1>5, <1>7, <2>2
<1> QED
  BY <1>6, <1>7

------------------------------------------------------------------------------
(* Types.                                                                  *)

\* After its commit a socket has no transaction, or a young one.
LEMMA Responded ==
  ASSUME TypeOK, NEW s \in Sockets, Answer(s)
  PROVE  /\ clock' \in {clock, clock + 1}
         /\ began'[s] = 0 \/ (began'[s] = clock + 1 /\ clock' = clock + 1)
         /\ \A u \in Sockets \ {s} : began'[u] = began[u]
         /\ clock' \in Nat /\ began' \in [Sockets -> Nat]
<1>1. CASE began' = [began EXCEPT ![s] = 0] /\ UNCHANGED clock
  BY <1>1 DEF TypeOK
<1>2. CASE Open(s)
  BY <1>2 DEF Open, TypeOK
<1> QED
  BY <1>1, <1>2 DEF Answer, Respond, FailReadingBack

LEMMA AnswerTold ==
  ASSUME TypeOK, NEW s \in Sockets, Answer(s), turn[s] \in Turns
  PROVE  \E result \in {"answered", "failed", "lost"} :
           outcome' = [outcome EXCEPT ![turn[s]] = result]
BY DEF Answer, Respond, FailReadingBack, Told

\* A turn that is over leaves its socket as the next one needs it.
LEMMA Left ==
  ASSUME TypeOK, NEW s \in Sockets, Expire(s), Leave(s)
  PROVE  /\ pc' \in [Sockets -> PC]
         /\ gone' \in [Sockets -> BOOLEAN]
         /\ titleSeen' \in [Sockets -> 0 .. Expired]
         /\ turn' \in [Sockets -> 0 .. MaxTurns]
         /\ loop' \in [Sockets -> Loop]
<1>1. NoLoop \in Loop
  BY CopilotAssumption DEF NoLoop, Loop, Replies
<1>2. loop' \in [Sockets -> Loop]
  BY <1>1 DEF Leave, TypeOK
<1>3. pc' \in [Sockets -> PC] /\ gone' \in [Sockets -> BOOLEAN]
  BY DEF Leave, Goto, TypeOK, PC
<1>4. /\ titleSeen' \in [Sockets -> 0 .. Expired]
      /\ turn' \in [Sockets -> 0 .. MaxTurns]
  BY CopilotAssumption DEF Leave, Expire, TypeOK, Expired
<1> QED
  BY <1>2, <1>3, <1>4

LEMMA TypeStep ==
  ASSUME IInv, [Next]_vars
  PROVE  TypeOK'
<1> USE CopilotAssumption DEF Turns
<1>t. TypeOK /\ TurnsRun
  BY DEF IInv
<1>l. NoLoop \in Loop
  BY DEF NoLoop, Loop, Replies
<1>1. ASSUME NEW s \in Sockets, Connect(s) PROVE TypeOK'
  BY <1>t, <1>1 DEF Connect, Open, Goto, TypeOK, tables, PC, Expired
<1>2. ASSUME NEW s \in Sockets, Receive(s) PROVE TypeOK'
  <2>1. asked + 1 \in Turns /\ Expired \in Nat /\ clock + 1 \in Nat
    BY <1>t, <1>2 DEF Receive, TypeOK, Expired
  <2>2. clock' \in Nat /\ began' \in [Sockets -> Nat]
    <3>1. CASE began[s] = 0
      BY <1>t, <1>2, <2>1, <3>1 DEF Receive, Open, TypeOK
    <3>2. CASE began[s] # 0
      BY <1>t, <1>2, <3>2 DEF Receive, TypeOK
    <3> QED
      BY <3>1, <3>2
  <2>3. titleSeen' \in [Sockets -> 0 .. Expired]
    BY <1>t, <1>2 DEF Receive, TypeOK, Expired
  <2>4. outcome' \in [Turns -> {"none", "running", "answered", "failed", "lost"}]
    BY <1>t, <1>2, <2>1 DEF Receive, TypeOK
  <2>5. /\ asked' \in 0 .. MaxTurns
        /\ turn' \in [Sockets -> 0 .. MaxTurns]
        /\ pc' \in [Sockets -> PC]
    BY <1>t, <1>2, <2>1 DEF Receive, Goto, TypeOK, PC
  <2> QED
    BY <1>t, <1>2, <2>2, <2>3, <2>4, <2>5 DEF Receive, TypeOK, tables
<1>3. ASSUME NEW s \in Sockets, Chat(s) PROVE TypeOK'
  <2>1. loop[s] \in Loop
    BY <1>t DEF TypeOK
  <2>2. ASSUME NEW n \in Replies \ {0}, loop[s].chats < MAX_ITERATIONS,
               loop' = [loop EXCEPT ![s].chats = @ + 1, ![s].calls = n]
        PROVE  loop' \in [Sockets -> Loop]
    <3> DEFINE l == [loop[s] EXCEPT !.chats = @ + 1, !.calls = n]
    <3>1. l \in Loop
      <4>1. loop[s].chats + 1 \in 0 .. MAX_ITERATIONS /\ n \in 0 .. 2
        BY <2>1, <2>2 DEF Loop, Replies
      <4> QED
        BY <2>1, <4>1, Zenon DEF Loop, Replies
    <3>2. loop' = [loop EXCEPT ![s] = l]
      BY <2>2
    <3> HIDE DEF l
    <3> QED
      BY <1>t, <3>1, <3>2 DEF TypeOK
  <2>3. loop' \in [Sockets -> Loop]
    BY <1>t, <1>3, <2>2 DEF Chat, TypeOK
  <2> QED
    BY <1>t, <1>3, <2>3 DEF Chat, Goto, TypeOK, tables, session, PC
<1>4. ASSUME NEW s \in Sockets, Execute(s) PROVE TypeOK'
  <2>1. loop[s] \in Loop /\ loop[s].calls # 0
    BY <1>t, <1>4 DEF TypeOK, TurnsRun, Execute
  <2>2. ASSUME NEW p \in BOOLEAN, NEW a \in BOOLEAN,
               loop' = [loop EXCEPT ![s].calls = @ - 1, ![s].proposed = @ \/ p,
                                    ![s].aborted = @ \/ a]
        PROVE  loop' \in [Sockets -> Loop]
    <3> DEFINE l == [loop[s] EXCEPT !.calls = @ - 1, !.proposed = @ \/ p,
                                    !.aborted = @ \/ a]
    <3>1. l \in Loop
      <4>1. loop[s].calls - 1 \in 0 .. 2
        BY <2>1 DEF Loop, Replies
      <4>2. /\ (loop[s].proposed \/ p) \in BOOLEAN
            /\ (loop[s].aborted \/ a) \in BOOLEAN
        OBVIOUS
      <4> QED
        BY <2>1, <4>1, <4>2, Zenon DEF Loop, Replies
    <3>2. loop' = [loop EXCEPT ![s] = l]
      BY <2>2, Zenon
    <3> HIDE DEF l
    <3> QED
      BY <1>t, <3>1, <3>2 DEF TypeOK
  <2>3. loop' \in [Sockets -> Loop]
    BY <1>4, <2>2 DEF Execute
  <2> QED
    BY <1>t, <1>4, <2>3 DEF Execute, Goto, TypeOK, tables, session, PC
<1>5. ASSUME NEW s \in Sockets, Answer(s) PROVE TypeOK'
  <2>1. turn[s] \in Turns
    BY <1>t, <1>5 DEF TypeOK, TurnsRun, Busy, Answer
  <2>2. messages' \in Seq(Message) /\ audits' \in Seq(Audit)
    BY <1>t, <1>5, <2>1, Committed
  <2>3. title' \in 0 .. MaxTurns
    BY <1>t, <1>5, <2>1 DEF Answer, TitleAfter, TypeOK
  <2>4. clock' \in Nat /\ began' \in [Sockets -> Nat]
    BY <1>t, <1>5, Responded
  <2>5. outcome' \in [Turns -> {"none", "running", "answered", "failed", "lost"}]
    BY <1>t, <1>5, <2>1, AnswerTold DEF TypeOK
  <2>6. UNCHANGED asked
    BY <1>5 DEF Answer
  <2>7. Expire(s) /\ Leave(s)
    BY <1>5 DEF Answer
  <2> QED
    BY <1>t, <2>2, <2>3, <2>4, <2>5, <2>6, <2>7, Left DEF TypeOK
<1>6. ASSUME NEW s \in Sockets, Fail(s) PROVE TypeOK'
  <2>1. outcome' \in [Turns -> {"none", "running", "answered", "failed", "lost"}]
    BY <1>t, <1>6 DEF Fail, Told, TypeOK
  <2>2. began' \in [Sockets -> Nat] /\ UNCHANGED <<tables, clock, asked>>
    BY <1>t, <1>6 DEF Fail, TypeOK
  <2>3. Expire(s) /\ Leave(s)
    BY <1>6 DEF Fail
  <2> QED
    BY <1>t, <2>1, <2>2, <2>3, Left DEF TypeOK, tables
<1>7. ASSUME NEW s \in Sockets, Disconnect(s) PROVE TypeOK'
  <2>1. CASE pc[s] = "open"
    <3>1. /\ pc' = [pc EXCEPT ![s] = "closed"]
          /\ began' = [began EXCEPT ![s] = 0]
          /\ titleSeen' = [titleSeen EXCEPT ![s] = Expired]
          /\ UNCHANGED <<tables, clock, asked, outcome, gone, turn, loop>>
      BY <1>7, <2>1 DEF Disconnect, Expire, Goto
    <3>2. pc' \in [Sockets -> PC] /\ began' \in [Sockets -> Nat]
      BY <1>t, <3>1 DEF TypeOK, PC
    <3>3. titleSeen' \in [Sockets -> 0 .. Expired]
      BY <1>t, <3>1 DEF TypeOK, Expired
    <3> QED
      BY <1>t, <3>1, <3>2, <3>3 DEF TypeOK, tables
  <2>2. CASE pc[s] # "open"
    BY <1>t, <1>7, <2>2 DEF Disconnect, TypeOK, tables, session
  <2> QED
    BY <2>1, <2>2
<1>8. ASSUME Crash PROVE TypeOK'
  BY <1>t, <1>l, <1>8 DEF Crash, TypeOK, tables, PC, Expired
<1>9. CASE UNCHANGED vars
  BY <1>t, <1>9 DEF vars, tables, session, TypeOK
<1> QED
  BY <1>1, <1>2, <1>3, <1>4, <1>5, <1>6, <1>7, <1>8, <1>9 DEF Next, Advance

------------------------------------------------------------------------------
(* The turns.                                                              *)

LEMMA TurnsRunStep ==
  ASSUME IInv, [Next]_vars
  PROVE  TurnsRun'
<1> USE CopilotAssumption
<1>t. TypeOK /\ TurnsRun
  BY DEF IInv
<1>a. asked \in Nat /\ MaxTurns \in Nat
  BY <1>t DEF TypeOK
<1>1. ASSUME NEW s \in Sockets, Connect(s) PROVE TurnsRun'
  BY <1>t, <1>1 DEF Connect, Goto, TypeOK, TurnsRun, Busy
<1>2. ASSUME NEW s \in Sockets, Receive(s) PROVE TurnsRun'
  <2>1. /\ pc' = [pc EXCEPT ![s] = "chat"]
        /\ turn' = [turn EXCEPT ![s] = asked + 1]
        /\ asked' = asked + 1
        /\ UNCHANGED loop
    BY <1>2 DEF Receive, Goto
  <2>2. \A u \in Sockets : turn[u] \in Nat /\ turn[u] <= asked
    BY <1>t, <1>a DEF TypeOK, TurnsRun
  <2>3. \A u \in Sockets : Busy(u)' <=> turn'[u] # 0
    BY <1>t, <1>a, <2>1 DEF TypeOK, TurnsRun, Busy
  <2>4. \A u \in Sockets : turn'[u] <= asked'
    BY <1>t, <1>a, <2>1, <2>2 DEF TypeOK
  <2>5. \A u, v \in Sockets : turn'[u] # 0 /\ turn'[u] = turn'[v] => u = v
    BY <1>t, <1>a, <2>1, <2>2 DEF TypeOK, TurnsRun
  <2>6. \A u \in Sockets : pc'[u] = "tool" => loop'[u].calls # 0
    BY <1>t, <2>1 DEF TypeOK, TurnsRun
  <2> QED
    BY <2>3, <2>4, <2>5, <2>6 DEF TurnsRun
<1>3. ASSUME NEW s \in Sockets, Chat(s) PROVE TurnsRun'
  <2>1. CASE Goto(s, "finish") /\ UNCHANGED loop
    BY <1>t, <1>3, <2>1 DEF Chat, Goto, TypeOK, TurnsRun, Busy
  <2>2. ASSUME NEW n \in Replies \ {0}, Goto(s, "tool"),
               loop' = [loop EXCEPT ![s].chats = @ + 1, ![s].calls = n]
        PROVE  TurnsRun'
    <3>1. /\ loop'[s].calls = n
          /\ \A u \in Sockets \ {s} : loop'[u] = loop[u]
      BY <1>t, <2>2 DEF TypeOK, Loop, Replies
    <3>2. pc' = [pc EXCEPT ![s] = "tool"] /\ UNCHANGED <<turn, asked>>
      BY <1>3, <2>2 DEF Chat, Goto
    <3> QED
      <4>1. \A u \in Sockets : Busy(u)' <=> Busy(u)
        BY <1>t, <1>3, <3>2 DEF Chat, TypeOK, Busy
      <4>2. \A u \in Sockets : pc'[u] = "tool" => loop'[u].calls # 0
        BY <1>t, <3>1, <3>2 DEF TypeOK, TurnsRun
      <4> QED
        BY <1>t, <3>2, <4>1, <4>2 DEF TurnsRun
  <2> QED
    BY <1>3, <2>1, <2>2 DEF Chat
<1>4. ASSUME NEW s \in Sockets, Execute(s) PROVE TurnsRun'
  <2>1. /\ loop'[s].calls = loop[s].calls - 1
        /\ \A u \in Sockets \ {s} : loop'[u] = loop[u]
    <3>1. ASSUME NEW p, NEW a,
                 loop' = [loop EXCEPT ![s].calls = @ - 1, ![s].proposed = p,
                                      ![s].aborted = a]
          PROVE  /\ loop'[s].calls = loop[s].calls - 1
                 /\ \A u \in Sockets \ {s} : loop'[u] = loop[u]
      BY <1>t, <3>1 DEF TypeOK, Loop, Replies
    <3> QED
      BY <1>4, <3>1 DEF Execute
  <2>2. /\ pc' = [pc EXCEPT ![s] = IF loop[s].calls = 1 THEN "chat" ELSE "tool"]
        /\ pc[s] = "tool" /\ UNCHANGED <<turn, asked>>
    BY <1>4 DEF Execute, Goto
  <2>3. loop[s].calls \in 0 .. 2
    BY <1>t DEF TypeOK, Loop, Replies
  <2> QED
    BY <1>t, <2>1, <2>2, <2>3 DEF TypeOK, TurnsRun, Busy
<1>5. ASSUME NEW s \in Sockets, Leave(s), UNCHANGED asked PROVE TurnsRun'
  <2>1. /\ pc' = [pc EXCEPT ![s] = IF gone[s] \/ s \in Http THEN "closed" ELSE "open"]
        /\ turn' = [turn EXCEPT ![s] = 0]
        /\ \A u \in Sockets \ {s} : loop'[u] = loop[u]
    BY <1>t, <1>5 DEF Leave, Goto, TypeOK
  <2> QED
    BY <1>t, <1>5, <2>1 DEF TypeOK, TurnsRun, Busy
<1>6. ASSUME NEW s \in Sockets, Disconnect(s) PROVE TurnsRun'
  <2>1. CASE pc[s] = "open"
    BY <1>t, <1>6, <2>1 DEF Disconnect, Goto, TypeOK, TurnsRun, Busy
  <2>2. CASE pc[s] # "open"
    BY <1>t, <1>6, <2>2 DEF Disconnect, TurnsRun, Busy
  <2> QED
    BY <2>1, <2>2
<1>7. ASSUME Crash PROVE TurnsRun'
  BY <1>t, <1>a, <1>7 DEF Crash, TurnsRun, Busy, TypeOK
<1>8. CASE UNCHANGED vars
  BY <1>t, <1>8 DEF vars, TurnsRun, Busy
<1>9. ASSUME NEW s \in Sockets, Answer(s) \/ Fail(s) PROVE TurnsRun'
  BY <1>5, <1>9 DEF Answer, Fail
<1> QED
  BY <1>1, <1>2, <1>3, <1>4, <1>6, <1>7, <1>8, <1>9 DEF Next, Advance

LEMMA OutcomesStep ==
  ASSUME IInv, [Next]_vars
  PROVE  Outcomes'
<1> USE CopilotAssumption
<1>t. TypeOK /\ TurnsRun /\ Outcomes
  BY DEF IInv
<1>a. /\ asked \in Nat /\ Turns \subseteq Nat
      /\ outcome \in [Turns -> {"none", "running", "answered", "failed", "lost"}]
      /\ turn \in [Sockets -> 0 .. MaxTurns]
  BY <1>t DEF TypeOK, Turns
<1>1. CASE UNCHANGED <<asked, outcome, turn>>
  BY <1>t, <1>1 DEF Outcomes
<1>2. ASSUME NEW s \in Sockets, Receive(s) PROVE Outcomes'
  <2>1. /\ asked' = asked + 1
        /\ turn' = [turn EXCEPT ![s] = asked + 1]
        /\ outcome' = [outcome EXCEPT ![asked + 1] = "running"]
        /\ asked < MaxTurns /\ ~Busy(s)
    BY <1>2 DEF Receive, Busy
  <2>2. turn[s] = 0
    BY <1>t, <2>1 DEF TurnsRun
  <2>3. ASSUME NEW n \in Turns, outcome'[n] = "none" PROVE n > asked'
    BY <1>t, <1>a, <2>1, <2>3 DEF Outcomes
  <2>4. ASSUME NEW n \in Turns, outcome'[n] = "running"
        PROVE  \E u \in Sockets : turn'[u] = n
    <3>1. CASE n = asked + 1
      BY <1>a, <2>1, <3>1
    <3>2. CASE n # asked + 1
      <4>1. PICK u \in Sockets : turn[u] = n
        BY <1>t, <1>a, <2>1, <2>4, <3>2 DEF Outcomes
      <4> QED
        BY <1>a, <2>1, <2>2, <4>1 DEF Turns
    <3> QED
      BY <3>1, <3>2
  <2> QED
    BY <2>3, <2>4 DEF Outcomes
<1>3. ASSUME NEW s \in Sockets, NEW result \in {"answered", "failed", "lost"},
             turn' = [turn EXCEPT ![s] = 0], UNCHANGED asked,
             outcome' = [outcome EXCEPT ![turn[s]] = result]
      PROVE  Outcomes'
  <2>1. ASSUME NEW n \in Turns, outcome'[n] = "none" PROVE n > asked'
    BY <1>t, <1>a, <1>3, <2>1 DEF Outcomes
  <2>2. ASSUME NEW n \in Turns, outcome'[n] = "running"
        PROVE  \E u \in Sockets : turn'[u] = n
    <3>1. n # turn[s] /\ outcome[n] = "running"
      BY <1>a, <1>3, <2>2
    <3>2. PICK u \in Sockets : turn[u] = n
      BY <1>t, <3>1 DEF Outcomes
    <3> QED
      BY <1>a, <1>3, <3>1, <3>2
  <2> QED
    BY <2>1, <2>2 DEF Outcomes
<1>4. ASSUME NEW s \in Sockets, Answer(s) PROVE Outcomes'
  <2>1. turn[s] \in Turns
    BY <1>t, <1>4 DEF TypeOK, TurnsRun, Busy, Answer, Turns
  <2> QED
    BY <1>t, <1>3, <1>4, <2>1, AnswerTold DEF Answer, Leave
<1>5. ASSUME NEW s \in Sockets, Fail(s) PROVE Outcomes'
  BY <1>3, <1>5 DEF Fail, Leave, Told
<1>6. ASSUME Crash PROVE Outcomes'
  BY <1>t, <1>a, <1>6 DEF Crash, Outcomes
<1>7. ASSUME NEW s \in Sockets, Connect(s) \/ Chat(s) \/ Execute(s) \/ Disconnect(s)
      PROVE  UNCHANGED <<asked, outcome, turn>>
  BY <1>7 DEF Connect, Chat, Execute, Disconnect
<1> QED
  BY <1>1, <1>2, <1>4, <1>5, <1>6, <1>7 DEF Next, Advance, vars

\* What a step does that is not an answer
Quiet ==
  /\ UNCHANGED tables
  /\ asked' \in {asked, asked + 1}
  /\ clock' \in {clock, clock + 1}
  /\ \A s \in Sockets :
       /\ turn'[s] \in {turn[s], 0} \/ (turn'[s] = asked + 1 /\ asked' = asked + 1)
       /\ began'[s] \in {began[s], 0} \/ (began'[s] = clock + 1 /\ clock' = clock + 1)
       /\ titleSeen'[s] \in {titleSeen[s], Expired, title}
       /\ Busy(s)' => began'[s] # 0 /\ titleSeen'[s] # Expired
  /\ \A n \in Turns : outcome'[n] = "answered" => outcome[n] = "answered"

LEMMA QuietStep ==
  ASSUME IInv, [Next]_vars, \A s \in Sockets : ~Answer(s)
  PROVE  Quiet
<1> USE CopilotAssumption
<1>t. /\ TypeOK
      /\ \A s \in Sockets : Busy(s) => began[s] # 0 /\ titleSeen[s] # Expired
  BY DEF IInv, Transactions, TitlesSeen
<1>a. clock + 1 # 0 /\ asked + 1 \in Nat /\ title # Expired
  BY <1>t DEF TypeOK, Expired
<1>1. ASSUME NEW s \in Sockets, Connect(s) PROVE Quiet
  BY <1>t, <1>a, <1>1 DEF Connect, Open, Goto, TypeOK, Quiet, Busy
<1>2. ASSUME NEW s \in Sockets, Receive(s) PROVE Quiet
  <2>1. /\ pc' = [pc EXCEPT ![s] = "chat"]
        /\ turn' = [turn EXCEPT ![s] = asked + 1]
        /\ outcome' = [outcome EXCEPT ![asked + 1] = "running"]
        /\ titleSeen' = [titleSeen EXCEPT ![s] = IF @ = Expired THEN title ELSE @]
        /\ asked' = asked + 1
        /\ UNCHANGED tables
    BY <1>2 DEF Receive, Goto
  <2>2. /\ clock' \in {clock, clock + 1}
        /\ began'[s] # 0
        /\ \A u \in Sockets : began'[u] = began[u]
                              \/ (began'[u] = clock + 1 /\ clock' = clock + 1)
        /\ \A u \in Sockets \ {s} : began'[u] = began[u]
    <3>1. CASE began[s] = 0
      BY <1>t, <1>a, <1>2, <3>1 DEF Receive, Open, TypeOK
    <3>2. CASE began[s] # 0
      BY <1>2, <3>2 DEF Receive
    <3> QED
      BY <3>1, <3>2
  <2> QED
    BY <1>t, <1>a, <2>1, <2>2 DEF TypeOK, Quiet, Busy
<1>3. ASSUME NEW s \in Sockets, Chat(s) PROVE Quiet
  <2>1. \A u \in Sockets : Busy(u)' => Busy(u)
    BY <1>t, <1>3 DEF Chat, Goto, TypeOK, Busy
  <2> QED
    BY <1>t, <1>3, <2>1 DEF Chat, Quiet, session
<1>4. ASSUME NEW s \in Sockets, Execute(s) PROVE Quiet
  <2>1. \A u \in Sockets : Busy(u)' => Busy(u)
    BY <1>t, <1>4 DEF Execute, Goto, TypeOK, Busy
  <2> QED
    BY <1>t, <1>4, <2>1 DEF Execute, Quiet, session
<1>5. ASSUME NEW s \in Sockets, Fail(s) PROVE Quiet
  <2>1. /\ pc' = [pc EXCEPT ![s] = IF gone[s] \/ s \in Http THEN "closed" ELSE "open"]
        /\ turn' = [turn EXCEPT ![s] = 0]
        /\ began' = [began EXCEPT ![s] = 0]
        /\ titleSeen' = [titleSeen EXCEPT ![s] = Expired]
        /\ outcome' = [outcome EXCEPT ![turn[s]] = IF gone[s] THEN "lost" ELSE "failed"]
        /\ UNCHANGED <<tables, clock, asked>>
    BY <1>5 DEF Fail, Leave, Goto, Told, Expire
  <2> QED
    BY <1>t, <2>1 DEF TypeOK, Quiet, Busy
<1>6. ASSUME NEW s \in Sockets, Disconnect(s) PROVE Quiet
  <2>1. CASE pc[s] = "open"
    BY <1>t, <1>6, <2>1 DEF Disconnect, Goto, Expire, TypeOK, Quiet, Busy
  <2>2. CASE pc[s] # "open"
    BY <1>t, <1>6, <2>2 DEF Disconnect, Quiet, Busy, session
  <2> QED
    BY <2>1, <2>2
<1>7. ASSUME Crash PROVE Quiet
  BY <1>t, <1>7 DEF Crash, Quiet, Busy, TypeOK
<1>8. CASE UNCHANGED vars
  BY <1>t, <1>8 DEF vars, session, Quiet, Busy
<1> QED
  BY <1>1, <1>2, <1>3, <1>4, <1>5, <1>6, <1>7, <1>8 DEF Next, Advance

LEMMA RowTypes ==
  ASSUME TypeOK
  PROVE  /\ \A i \in DOMAIN messages : messages[i].turn \in Turns /\ messages[i].at \in Nat
         /\ \A i \in DOMAIN audits : audits[i].turn \in Turns
<1>1. ASSUME NEW i \in DOMAIN messages
      PROVE  messages[i].turn \in Turns /\ messages[i].at \in Nat
  <2>1. messages[i] \in Message
    BY DEF TypeOK
  <2> QED
    BY <2>1 DEF Message
<1>2. ASSUME NEW i \in DOMAIN audits
      PROVE  audits[i].turn \in Turns
  <2>1. audits[i] \in Audit
    BY DEF TypeOK
  <2> QED
    BY <2>1 DEF Audit
<1> QED
  BY <1>1, <1>2

LEMMA QuietKeeps ==
  ASSUME IInv, Quiet, TypeOK'
  PROVE  /\ TurnsOver' /\ Persisted'
         /\ Transactions' /\ SocketHistoryInOrder'
         /\ TitlesSeen' /\ TitleIsFirstQuestion'
<1> USE CopilotAssumption
<1>0. UNCHANGED <<messages, audits, title>>
  BY DEF Quiet, tables
<1>t. TypeOK
  BY DEF IInv
<1>1. TurnsOver'
  <2>1. asked \in Nat /\ asked' \in Nat /\ asked <= asked'
    BY <1>t DEF Quiet, TypeOK
  <2>2. \A i \in DOMAIN messages : messages[i].turn \in Turns
    BY <1>t, RowTypes
  <2>3. \A i \in DOMAIN audits : audits[i].turn \in Turns
    BY <1>t, RowTypes
  <2>4. ASSUME NEW n \in Turns, n <= asked, \A s \in Sockets : turn[s] # n
        PROVE  n <= asked' /\ \A s \in Sockets : turn'[s] # n
    BY <2>1, <2>4 DEF Quiet, Turns
  <2> QED
    BY <1>0, <2>2, <2>3, <2>4 DEF IInv, TurnsOver
<1>2. Persisted'
  <2>1. ASSUME NEW n \in Turns
        PROVE  (Whole(n)' <=> Whole(n)) /\ (Absent(n)' <=> Absent(n))
    BY <1>0 DEF Whole, Absent, Rows, AuditsOf
  <2> QED
    BY <2>1 DEF IInv, Persisted, Quiet
<1>3. Transactions'
  <2>1. /\ clock \in Nat /\ \A s \in Sockets : began[s] \in Nat
        /\ \A i \in DOMAIN messages : messages[i].at \in Nat
    BY <1>t, RowTypes DEF TypeOK
  <2> QED
    BY <1>0, <2>1 DEF IInv, Transactions, Quiet
<1>4. SocketHistoryInOrder'
  BY <1>0 DEF IInv, SocketHistoryInOrder
<1>5. TitlesSeen'
  <2>1. /\ Expired \notin Turns /\ Expired # 0
        /\ title = 0 => messages = <<>>
        /\ 0 \notin Turns
    BY DEF IInv, TitleIsFirstQuestion, Turns, Expired
  <2> QED
    BY <1>0, <2>1 DEF IInv, TitlesSeen, Quiet
<1>6. TitleIsFirstQuestion'
  BY <1>0 DEF IInv, TitleIsFirstQuestion
<1> QED
  BY <1>1, <1>2, <1>3, <1>4, <1>5, <1>6

\* An answer commits the two messages and the audit row of its own turn.
LEMMA AnswerKeeps ==
  ASSUME IInv, NEW s \in Sockets, Answer(s)
  PROVE  /\ TurnsOver' /\ Persisted'
         /\ Transactions' /\ SocketHistoryInOrder'
         /\ TitlesSeen' /\ TitleIsFirstQuestion'
<1> USE CopilotAssumption
<1> DEFINE M == Len(messages)
           A == Len(audits)
<1>t. TypeOK /\ TurnsRun /\ TurnsOver
  BY DEF IInv
<1>n. PICK n \in Turns : n = turn[s] /\ n <= asked /\ Busy(s)
  BY <1>t DEF TypeOK, TurnsRun, Busy, Answer, Turns
<1>m. /\ M \in Nat /\ A \in Nat
      /\ DOMAIN messages = 1 .. M /\ DOMAIN audits = 1 .. A
  BY <1>t DEF TypeOK
<1>i. /\ \A i \in 1 .. M : messages[i].turn \in Turns /\ messages[i].at \in Nat
      /\ \A i \in 1 .. A : audits[i].turn \in Turns
  BY <1>t, <1>m, RowTypes
<1>c. /\ IF s \in Http THEN messages' = messages
          ELSE /\ DOMAIN messages' = 1 .. (M + 2)
               /\ \A i \in 1 .. M : messages'[i] = messages[i]
               /\ messages'[M + 1] = Row(s, "user")
               /\ messages'[M + 2] = Row(s, "assistant")
      /\ DOMAIN audits' = 1 .. (A + 1)
      /\ \A i \in 1 .. A : audits'[i] = audits[i]
      /\ audits'[A + 1] = AuditOf(s)
  <2>1. /\ messages' \in Seq(Message) /\ audits' \in Seq(Audit)
        /\ IF s \in Http THEN messages' = messages
           ELSE /\ Len(messages') = M + 2
                /\ \A i \in 1 .. M : messages'[i] = messages[i]
                /\ messages'[M + 1] = Row(s, "user")
                /\ messages'[M + 2] = Row(s, "assistant")
        /\ Len(audits') = A + 1
        /\ \A i \in 1 .. A : audits'[i] = audits[i]
        /\ audits'[A + 1] = AuditOf(s)
    BY <1>t, <1>n, Committed, Zenon
  <2>2. DOMAIN messages' = 1 .. Len(messages') /\ DOMAIN audits' = 1 .. Len(audits')
    BY <2>1
  <2> HIDE DEF M, A
  <2> QED
    BY <2>1, <2>2, Zenon
<1>r. /\ \A r : /\ Row(s, r).turn = n /\ Row(s, r).role = r
                /\ Row(s, r).at = began[s] /\ Row(s, r).socket = s
      /\ AuditOf(s).turn = n /\ AuditOf(s).socket = s
  BY <1>n DEF Row, AuditOf
<1>u. /\ asked' = asked
      /\ turn'[s] = 0
      /\ \A u \in Sockets \ {s} : turn'[u] = turn[u]
      /\ \A u \in Sockets \ {s} : pc'[u] = pc[u]
      /\ pc'[s] \in {"open", "closed"}
      /\ titleSeen' = [titleSeen EXCEPT ![s] = Expired]
      /\ title' = TitleAfter(s)
      /\ \A k \in Turns \ {n} : outcome'[k] = outcome[k]
  BY <1>t, <1>n, AnswerTold DEF Answer, Leave, Goto, Expire, TypeOK
<1>o. /\ \A i \in 1 .. M : messages[i].turn # n
      /\ \A i \in 1 .. A : audits[i].turn # n
  BY <1>t, <1>m, <1>n DEF TurnsOver
<1> HIDE DEF M, A
<1>1. TurnsOver'
  <2>1. \A u \in Sockets : turn'[u] # n
    BY <1>t, <1>n, <1>u DEF TurnsRun, Turns
  <2>2. \A i \in 1 .. M : messages[i].turn \in Turns
    BY <1>i
  <2>3. \A i \in 1 .. A : audits[i].turn \in Turns
    BY <1>i
  <2>4. \A i \in DOMAIN messages' :
          messages'[i].turn <= asked /\ \A u \in Sockets : turn'[u] # messages'[i].turn
    <3>0. ASSUME NEW i \in 1 .. M
          PROVE  messages[i].turn <= asked
                 /\ \A u \in Sockets : turn'[u] # messages[i].turn
      <4>1. /\ messages[i].turn <= asked /\ messages[i].turn # 0
            /\ \A u \in Sockets : turn[u] # messages[i].turn
        BY <1>t, <1>m, <2>2 DEF TurnsOver, Turns
      <4> QED
        BY <1>u, <4>1
    <3>1. CASE s \in Http
      BY <1>m, <1>c, <3>0, <3>1
    <3>2. CASE s \notin Http
      <4>1. ASSUME NEW i \in 1 .. M
            PROVE  messages'[i].turn <= asked
                   /\ \A u \in Sockets : turn'[u] # messages'[i].turn
        BY <1>c, <3>0, <3>2
      <4>2. \A i \in 1 .. (M + 2) : i \in 1 .. M \/ i = M + 1 \/ i = M + 2
        BY <1>m
      <4> QED
        BY <1>c, <1>n, <1>r, <2>1, <3>2, <4>1, <4>2
    <3> QED
      BY <3>1, <3>2
  <2>5. \A i \in DOMAIN audits' :
          audits'[i].turn <= asked /\ \A u \in Sockets : turn'[u] # audits'[i].turn
    <3>1. ASSUME NEW i \in 1 .. A
          PROVE  audits'[i].turn <= asked
                 /\ \A u \in Sockets : turn'[u] # audits'[i].turn
      <4>1. /\ audits[i].turn <= asked /\ audits[i].turn # 0
            /\ \A u \in Sockets : turn[u] # audits[i].turn
        BY <1>t, <1>m, <2>3 DEF TurnsOver, Turns
      <4>2. audits'[i] = audits[i]
        BY <1>c
      <4> QED
        BY <1>u, <4>1, <4>2
    <3>2. \A i \in 1 .. (A + 1) : i \in 1 .. A \/ i = A + 1
      BY <1>m
    <3> QED
      BY <1>c, <1>n, <1>r, <2>1, <3>1, <3>2
  <2> QED
    BY <1>u, <2>4, <2>5 DEF TurnsOver
<1>2. Persisted'
  <2>1. \A k \in Turns \ {n} : Rows(k)' = Rows(k) /\ AuditsOf(k)' = AuditsOf(k)
    <3> SUFFICES ASSUME NEW k \in Turns \ {n}
                 PROVE  Rows(k)' = Rows(k) /\ AuditsOf(k)' = AuditsOf(k)
      OBVIOUS
    <3>1. Rows(k)' = Rows(k)
      <4>1. CASE s \in Http
        BY <1>c, <4>1 DEF Rows
      <4>2. CASE s \notin Http
        <5>1. \A i \in 1 .. (M + 2) :
                messages'[i].turn = k <=> i \in 1 .. M /\ messages[i].turn = k
          BY <1>m, <1>c, <1>r, <4>2
        <5>2. 1 .. M \subseteq 1 .. (M + 2)
          BY <1>m
        <5> QED
          BY <1>m, <1>c, <4>2, <5>1, <5>2 DEF Rows
      <4> QED
        BY <4>1, <4>2
    <3>2. AuditsOf(k)' = AuditsOf(k)
      <4>1. \A i \in 1 .. (A + 1) :
              audits'[i].turn = k <=> i \in 1 .. A /\ audits[i].turn = k
        BY <1>m, <1>c, <1>r
      <4>2. 1 .. A \subseteq 1 .. (A + 1)
        BY <1>m
      <4> QED
        BY <1>m, <1>c, <4>1, <4>2 DEF AuditsOf
    <3> QED
      BY <3>1, <3>2
  <2>2. AuditsOf(n)' = {A + 1}
    <3>1. \A i \in 1 .. (A + 1) : i \in 1 .. A \/ i = A + 1
      BY <1>m
    <3>2. \A i \in 1 .. (A + 1) : audits'[i].turn = n <=> i = A + 1
      BY <1>m, <1>c, <1>r, <1>o, <3>1
    <3>3. AuditsOf(n)' = {i \in 1 .. (A + 1) : audits'[i].turn = n}
      BY <1>c, <1>u DEF AuditsOf
    <3> QED
      BY <1>m, <3>2, <3>3
  <2>3. Rows(n)' = IF s \in Http THEN {} ELSE {M + 1, M + 2}
    <3>1. CASE s \in Http
      BY <1>m, <1>c, <1>o, <3>1 DEF Rows
    <3>2. CASE s \notin Http
      <4>1. \A i \in 1 .. (M + 2) : i \in 1 .. M \/ i = M + 1 \/ i = M + 2
        BY <1>m
      <4>2. \A i \in 1 .. (M + 2) :
              messages'[i].turn = n <=> i = M + 1 \/ i = M + 2
        BY <1>m, <1>c, <1>r, <1>o, <3>2, <4>1
      <4>3. Rows(n)' = {i \in 1 .. (M + 2) : messages'[i].turn = n}
        BY <1>c, <3>2 DEF Rows
      <4> QED
        BY <1>m, <3>2, <4>2, <4>3
    <3> QED
      BY <3>1, <3>2
  <2>4. ASSUME s \notin Http
        PROVE  \E i, j \in Rows(n)' :
                 /\ i < j /\ Rows(n)' = {i, j}
                 /\ messages'[i].role = "user" /\ messages'[j].role = "assistant"
    <3>1. /\ M + 1 < M + 2 /\ Rows(n)' = {M + 1, M + 2}
          /\ messages'[M + 1].role = "user" /\ messages'[M + 2].role = "assistant"
      BY <1>m, <1>c, <1>r, <2>3, <2>4
    <3> QED
      BY <3>1
  <2>5. Whole(n)'
    <3>1. A + 1 \in DOMAIN audits' /\ audits'[A + 1].socket = s
      BY <1>m, <1>c, <1>r
    <3> QED
      BY <2>2, <2>3, <2>4, <3>1 DEF Whole
  <2>6. ASSUME NEW k \in Turns \ {n}
        PROVE  (Whole(k) => Whole(k)') /\ (Absent(k) => Absent(k)')
    <3>1. \A i \in Rows(k) : messages'[i].role = messages[i].role
      BY <1>m, <1>c DEF Rows
    <3>2. \A i \in AuditsOf(k) :
            i \in DOMAIN audits' /\ audits'[i].socket = audits[i].socket
      BY <1>m, <1>c DEF AuditsOf
    <3>3. Rows(k)' = Rows(k) /\ AuditsOf(k)' = AuditsOf(k)
      BY <2>1
    <3>4. ASSUME Whole(k) PROVE Whole(k)'
      <4>1. PICK a \in DOMAIN audits :
              /\ AuditsOf(k) = {a}
              /\ IF audits[a].socket \in Http THEN Rows(k) = {}
                 ELSE \E i, j \in Rows(k) :
                        /\ i < j /\ Rows(k) = {i, j}
                        /\ messages[i].role = "user" /\ messages[j].role = "assistant"
        BY <3>4 DEF Whole
      <4>2. a \in DOMAIN audits' /\ audits'[a].socket = audits[a].socket
        BY <3>2, <4>1
      <4> QED
        BY <3>1, <3>3, <4>1, <4>2 DEF Whole
    <3> QED
      BY <3>3, <3>4 DEF Absent
  <2>7. ASSUME NEW k \in Turns
        PROVE  /\ Whole(k)' \/ Absent(k)'
               /\ outcome'[k] = "answered" => Whole(k)'
    <3>1. CASE k = n
      BY <2>5, <3>1
    <3>2. CASE k # n
      BY <1>u, <2>6, <3>2 DEF IInv, Persisted
    <3> QED
      BY <3>1, <3>2
  <2> QED
    BY <2>7 DEF Persisted
<1>b. /\ clock \in Nat /\ began[s] \in Nat /\ began[s] <= clock /\ began[s] # 0
      /\ clock' \in {clock, clock + 1}
      /\ began'[s] = 0 \/ (began'[s] = clock + 1 /\ clock' = clock + 1)
      /\ \A u \in Sockets \ {s} : began'[u] = began[u]
      /\ \A i \in 1 .. M : messages[i].at \in Nat /\ messages[i].at <= clock
      /\ \A i \in 1 .. M : messages[i].socket = s => messages[i].at < began[s]
  <2>1. /\ clock \in Nat /\ began \in [Sockets -> Nat]
        /\ \A i \in 1 .. M : messages[i].at \in Nat
    BY <1>t, <1>i DEF TypeOK
  <2>2. /\ clock' \in {clock, clock + 1}
        /\ began'[s] = 0 \/ (began'[s] = clock + 1 /\ clock' = clock + 1)
        /\ \A u \in Sockets \ {s} : began'[u] = began[u]
    BY <1>t, Responded
  <2> QED
    BY <1>m, <1>n, <2>1, <2>2 DEF IInv, Transactions
<1>3. Transactions'
  <2>1. \A i \in DOMAIN messages' :
          /\ messages'[i].at \in Nat /\ messages'[i].at <= clock
          /\ (i \in 1 .. M /\ messages'[i] = messages[i]) \/ messages'[i].socket = s
    <3>1. CASE s \in Http
      BY <1>m, <1>c, <1>b, <3>1
    <3>2. CASE s \notin Http
      <4>1. \A i \in 1 .. (M + 2) : i \in 1 .. M \/ i = M + 1 \/ i = M + 2
        BY <1>m
      <4>2. ASSUME NEW i \in DOMAIN messages'
            PROVE  \/ i \in 1 .. M /\ messages'[i] = messages[i]
                   \/ messages'[i].socket = s /\ messages'[i].at = began[s]
        BY <1>c, <1>r, <3>2, <4>1
      <4> QED
        BY <1>b, <4>2
    <3> QED
      BY <3>1, <3>2
  <2>2. \A u \in Sockets : Busy(u)' => Busy(u) /\ u # s
    BY <1>u DEF Busy
  <2>3. \A u \in Sockets : began[u] \in Nat
    BY <1>t DEF TypeOK
  <2>4. \A u \in Sockets : began'[u] <= clock'
    BY <1>b, <2>3 DEF IInv, Transactions
  <2>5. \A u \in Sockets : Busy(u)' => began'[u] # 0
    BY <1>b, <2>2 DEF IInv, Transactions
  <2>6. \A i \in DOMAIN messages' : messages'[i].at <= clock'
    BY <1>b, <2>1
  <2>7. ASSUME NEW u \in Sockets, NEW i \in DOMAIN messages',
               messages'[i].socket = u, began'[u] # 0
        PROVE  messages'[i].at < began'[u]
    <3>1. CASE u = s
      BY <1>b, <2>1, <2>7, <3>1
    <3>2. CASE u # s
      BY <1>m, <1>b, <2>1, <2>7, <3>2 DEF IInv, Transactions
    <3> QED
      BY <3>1, <3>2
  <2> QED
    BY <2>4, <2>5, <2>6, <2>7 DEF Transactions
<1>4. SocketHistoryInOrder'
  <2>1. CASE s \in Http
    BY <1>c, <2>1 DEF IInv, SocketHistoryInOrder
  <2>2. CASE s \notin Http
    <3> SUFFICES ASSUME NEW i \in DOMAIN messages', NEW j \in DOMAIN messages',
                        i < j, messages'[i].turn # messages'[j].turn,
                        messages'[i].socket = messages'[j].socket
                 PROVE  messages'[i].at < messages'[j].at
      BY DEF SocketHistoryInOrder
    <3>1. \A k \in 1 .. (M + 2) : k \in 1 .. M \/ k = M + 1 \/ k = M + 2
      BY <1>m
    <3>2. i \in 1 .. M
      BY <1>m, <1>c, <1>r, <2>2, <3>1
    <3>3. CASE j \in 1 .. M
      BY <1>m, <1>c, <2>2, <3>2, <3>3 DEF IInv, SocketHistoryInOrder
    <3>4. CASE j \notin 1 .. M
      <4>1. j = M + 1 \/ j = M + 2
        BY <1>c, <2>2, <3>1, <3>4
      <4>2. messages'[j].at = began[s] /\ messages'[j].socket = s
        BY <1>c, <1>r, <2>2, <4>1
      <4>3. messages'[i] = messages[i]
        BY <1>c, <2>2, <3>2
      <4> QED
        BY <1>b, <3>2, <4>2, <4>3
    <3> QED
      BY <3>3, <3>4
  <2> QED
    BY <2>1, <2>2
<1>5. TitlesSeen'
  <2>1. \A i \in DOMAIN messages' :
          (i \in 1 .. M /\ messages'[i] = messages[i]) \/ messages'[i].socket = s
    <3>1. \A i \in 1 .. (M + 2) : i \in 1 .. M \/ i = M + 1 \/ i = M + 2
      BY <1>m
    <3> QED
      BY <1>m, <1>c, <1>r, <3>1
  <2>2. title # 0 => title' # 0
    BY <1>n, <1>u DEF TitleAfter, Turns
  <2>3. Expired \notin Turns /\ Expired # 0
    BY DEF Turns, Expired
  <2>4. /\ titleSeen'[s] = Expired
        /\ \A u \in Sockets \ {s} : titleSeen'[u] = titleSeen[u]
        /\ \A u \in Sockets : Busy(u)' => Busy(u) /\ u # s
    BY <1>t, <1>u DEF TypeOK, Busy
  <2> QED
    BY <1>m, <2>1, <2>2, <2>3, <2>4 DEF IInv, TitlesSeen
<1>6. TitleIsFirstQuestion'
  <2>0. n # 0
    BY <1>n DEF Turns
  <2>1. CASE s \in Http
    BY <1>c, <1>u, <2>1 DEF IInv, TitleIsFirstQuestion, TitleAfter
  <2>2. CASE s \notin Http /\ titleSeen[s] # 0
    <3>1. title # 0 /\ title' = title
      <4>1. titleSeen[s] # Expired /\ titleSeen[s] \in 0 .. Expired
        BY <1>t, <1>n DEF IInv, TitlesSeen, TypeOK
      <4>2. titleSeen[s] \in Turns
        BY <2>2, <4>1 DEF Expired, Turns
      <4>3. title # 0
        BY <4>2 DEF IInv, TitlesSeen
      <4> QED
        BY <1>u, <2>2, <4>3 DEF TitleAfter
    <3>2. PICK i \in 1 .. M :
            /\ messages[i].turn = title
            /\ \A j \in 1 .. i : messages[j].socket = messages[i].socket =>
                                 messages[j].turn = title
      BY <1>m, <3>1 DEF IInv, TitleIsFirstQuestion
    <3>3. i \in DOMAIN messages' /\ \A j \in 1 .. i : messages'[j] = messages[j]
      BY <1>m, <1>c, <2>2
    <3>4. messages' # <<>> /\ i \in 1 .. i
      BY <1>m, <3>3
    <3> QED
      BY <3>1, <3>2, <3>3, <3>4 DEF TitleIsFirstQuestion
  <2>3. CASE s \notin Http /\ titleSeen[s] = 0
    <3>1. title' = n
      BY <1>n, <1>u, <2>3 DEF TitleAfter
    <3>2. \A j \in 1 .. M : messages[j].socket # s
      BY <1>m, <2>3 DEF IInv, TitlesSeen
    <3>3. /\ M + 1 \in DOMAIN messages'
          /\ messages'[M + 1].turn = n /\ messages'[M + 1].socket = s
          /\ \A j \in 1 .. (M + 1) : messages'[j].socket = s => messages'[j].turn = n
      <4>1. \A j \in 1 .. (M + 1) : j \in 1 .. M \/ j = M + 1
        BY <1>m
      <4>2. M + 1 \in 1 .. (M + 2)
        BY <1>m
      <4>3. \A j \in 1 .. M : messages'[j].socket # s
        BY <1>c, <2>3, <3>2
      <4>4. /\ M + 1 \in DOMAIN messages'
            /\ messages'[M + 1].turn = n /\ messages'[M + 1].socket = s
        BY <1>c, <1>r, <2>3, <4>2
      <4> QED
        BY <4>1, <4>3, <4>4
    <3>4. messages' # <<>>
      BY <3>3
    <3> QED
      BY <2>0, <3>1, <3>3, <3>4 DEF TitleIsFirstQuestion
  <2> QED
    BY <2>1, <2>2, <2>3
<1> QED
  BY <1>1, <1>2, <1>3, <1>4, <1>5, <1>6

LEMMA NextIInv == IInv /\ [Next]_vars => IInv'
<1> SUFFICES ASSUME IInv, [Next]_vars PROVE IInv'
  OBVIOUS
<1>1. TypeOK' /\ TurnsRun' /\ Outcomes'
  BY TypeStep, TurnsRunStep, OutcomesStep
<1>2. CASE \E s \in Sockets : Answer(s)
  BY <1>1, <1>2, AnswerKeeps DEF IInv
<1>3. CASE \A s \in Sockets : ~Answer(s)
  BY <1>1, <1>3, QuietStep, QuietKeeps DEF IInv
<1> QED
  BY <1>2, <1>3

LEMMA Invariance == Spec => []IInv
BY InitIInv, NextIInv, PTL DEF Spec

------------------------------------------------------------------------------

\* The tables and every socket's session and loop have their types: the loop of a turn
\* never asks the model more often than MAX_ITERATIONS.
THEOREM TypeCorrect == Spec => []TypeOK
<1>1. IInv => TypeOK
  BY DEF IInv
<1> QED
  BY <1>1, Invariance, PTL

\* Only turns that are over are in the tables, so one that is not is in none.
LEMMA UnknownAbsent ==
  ASSUME TurnsOver, Outcomes, asked \in Nat, NEW n \in Turns,
         outcome[n] \in {"none", "running"}
  PROVE  Absent(n)
<1>1. n \in Nat
  BY CopilotAssumption DEF Turns
<1> QED
  BY <1>1 DEF TurnsOver, Outcomes, Absent, Rows, AuditsOf

\* A turn is persisted whole or not at all, however turns of several sockets overlap,
\* fail, lose their client or are killed with the server: whole if its client was given
\* the answer, and not at all before it is over (CopilotService.run_turn).
THEOREM TurnsAreWhole == Spec => []TurnsWhole
<1>1. IInv => TurnsWhole
  BY UnknownAbsent DEF IInv, Persisted, TurnsWhole, TypeOK
<1> QED
  BY <1>1, Invariance, PTL

\* The turns of one socket are read back in the order they were answered, over all its
\* connections: a transaction never opens before the last commit of its socket.
THEOREM SocketsKeepOrder == Spec => []SocketHistoryInOrder
<1>1. IInv => SocketHistoryInOrder
  BY DEF IInv
<1> QED
  BY <1>1, Invariance, PTL

\* The conversation has a title with its first message, the first question of a socket
\* that had seen none.
THEOREM TitlesAreFirst == Spec => []TitleIsFirstQuestion
<1>1. IInv => TitleIsFirstQuestion
  BY DEF IInv
<1> QED
  BY <1>1, Invariance, PTL

\* Where at most one socket is open, every turn is read back after all that were answered
\* before it: only a second tab can reorder the history that list_messages replays.
THEOREM OneSocketInOrder ==
  ASSUME \A s, u \in Sockets \ Http : s = u
  PROVE  Spec => []HistoryInCommitOrder
<1>1. ASSUME IInv PROVE HistoryInCommitOrder
  <2>1. ASSUME NEW i \in DOMAIN messages PROVE messages[i].socket \in Sockets \ Http
    <3>1. messages[i] \in Message
      BY <1>1 DEF IInv, TypeOK
    <3> QED
      BY <3>1 DEF Message
  <2>2. \A i, j \in DOMAIN messages : messages[i].socket = messages[j].socket
    BY <2>1
  <2> QED
    BY <1>1, <2>2 DEF IInv, SocketHistoryInOrder, HistoryInCommitOrder
<1> QED
  BY <1>1, Invariance, PTL

=============================================================================
