------------------------- MODULE CopilotConversation -------------------------
(***************************************************************************)
(* The billing copilot: turns of one conversation, asked on WebSockets     *)
(* (copilot_ws, CopilotService.run_turn) or by the stateless HTTP endpoint *)
(* (run), each turn a bounded loop of model calls and tool calls inside    *)
(* one database transaction.                                               *)
(*                                                                         *)
(* Every socket has one session for its whole life.  A transaction opens   *)
(* at the session's first statement after a commit or rollback, and on     *)
(* Postgres the created_at of a row is the time its transaction opened.    *)
(* The model (the LLM) is external: it may answer, call tools or raise.    *)
(***************************************************************************)
EXTENDS Naturals, Sequences

CONSTANTS
  Sockets,         \* connections to the conversation, of one user
  Http,            \* those that are calls of POST /ai/copilot instead
  MAX_ITERATIONS,  \* model calls in a turn (5 in the code)
  MaxTurns,        \* bound: turns asked
  MaxClock         \* bound: no socket connects after this time

ASSUME CopilotAssumption ==
  /\ Http \subseteq Sockets
  /\ MAX_ITERATIONS \in Nat \ {0}
  /\ MaxTurns \in Nat
  /\ MaxClock \in Nat

VARIABLES
  messages,    \* table copilot_messages, in the order of the commits
  audits,      \* table ai_audit_logs, likewise
  title,       \* the turn whose question is the conversation's title; 0 if none
  clock,       \* time, advanced when a transaction opens
  asked,       \* number of turns asked so far
  outcome,     \* [1..MaxTurns -> what the client of the turn has seen]
  pc,          \* [Sockets -> what the server does for the socket]
  gone,        \* [Sockets -> the client has disconnected during the turn]
  began,       \* [Sockets -> when the session's transaction opened; 0: none is open]
  titleSeen,   \* [Sockets -> title in the session; Expired: to be loaded again]
  turn,        \* [Sockets -> the turn being run, or 0]
  loop         \* [Sockets -> the state of _run_loop]

tables  == <<messages, audits, title>>
session == <<began, titleSeen>>
vars    == <<tables, clock, asked, outcome, pc, gone, session, turn, loop>>

Turns == 1 .. MaxTurns

Expired == MaxTurns + 1

PC == {"closed", "open", "chat", "tool", "finish"}

\* The tools the model is told of (CopilotTools.specs): reads, and proposals that
\* only queue an action for a human.
Reads == {"get_customer_billing_summary", "list_invoices", "list_payments",
          "get_plan", "search_knowledge"}

Proposals == {"propose_checkout_session", "propose_refund"}

Specs == Reads \cup Proposals

\* How many tools a reply of the model calls; none if it is an answer.  The 2 is
\* a bound.
Replies == 0 .. 2

\* chats made, calls of the last chat still to execute, whether a proposal was
\* queued, and whether a statement of a tool has failed: Postgres then refuses
\* every later statement of the transaction.
Loop == [chats : 0 .. MAX_ITERATIONS, calls : Replies,
         proposed : BOOLEAN, aborted : BOOLEAN]

NoLoop == [chats |-> 0, calls |-> 0, proposed |-> FALSE, aborted |-> FALSE]

\* socket is not a column: it tells the properties who wrote the row.
Message == [turn : Turns, role : {"user", "assistant"}, at : Nat, socket : Sockets \ Http]

Audit == [turn : Turns, flagged : BOOLEAN, socket : Sockets]

\* The tables and every socket's session and loop have their types.
TypeOK ==
  /\ messages \in Seq(Message)
  /\ audits \in Seq(Audit)
  /\ title \in 0 .. MaxTurns
  /\ clock \in Nat
  /\ asked \in 0 .. MaxTurns
  /\ outcome \in [Turns -> {"none", "running", "answered", "failed", "lost"}]
  /\ pc \in [Sockets -> PC]
  /\ gone \in [Sockets -> BOOLEAN]
  /\ began \in [Sockets -> Nat]
  /\ titleSeen \in [Sockets -> 0 .. Expired]
  /\ turn \in [Sockets -> 0 .. MaxTurns]
  /\ loop \in [Sockets -> Loop]

Init ==
  /\ messages = <<>>
  /\ audits = <<>>
  /\ title = 0
  /\ clock = 0
  /\ asked = 0
  /\ outcome = [n \in Turns |-> "none"]
  /\ pc = [s \in Sockets |-> "closed"]
  /\ gone = [s \in Sockets |-> FALSE]
  /\ began = [s \in Sockets |-> 0]
  /\ titleSeen = [s \in Sockets |-> Expired]
  /\ turn = [s \in Sockets |-> 0]
  /\ loop = [s \in Sockets |-> NoLoop]

------------------------------------------------------------------------------

Goto(s, label) == pc' = [pc EXCEPT ![s] = label]

\* a bug: the socket keeps the time of its first transaction
OpenOnlyOnce(s) ==
  /\ clock' = clock + 1
  /\ began' = [began EXCEPT ![s] = IF @ = 0 THEN clock + 1 ELSE @]

\* The first statement of a transaction fixes its time.
Open(s) ==
  /\ clock' = clock + 1
  /\ began' = [began EXCEPT ![s] = clock + 1]

\* Commit and rollback both end the transaction and expire the session.
Expire(s) == titleSeen' = [titleSeen EXCEPT ![s] = Expired]

\* A turn is over; the socket waits for the next message unless its client is
\* gone or it was an HTTP call.
Leave(s) ==
  /\ Goto(s, IF gone[s] \/ s \in Http THEN "closed" ELSE "open")
  /\ gone' = [gone EXCEPT ![s] = FALSE]
  /\ turn' = [turn EXCEPT ![s] = 0]
  /\ loop' = [loop EXCEPT ![s] = NoLoop]

\* add_message: the row is stamped with the time of its transaction.
Row(s, role) == [turn |-> turn[s], role |-> role, at |-> began[s], socket |-> s]

\* What the client of s learns when its turn ends
Told(s, result) ==
  outcome' = [outcome EXCEPT ![turn[s]] = IF gone[s] THEN "lost" ELSE result]

------------------------------------------------------------------------------

\* copilot_ws up to "ready": the user and the model client are resolved, the
\* conversation is found or made and committed, and reading it and its history
\* opens the transaction that the first turn will use.
Connect(s) ==
  /\ s \notin Http
  /\ pc[s] = "closed"
  /\ clock < MaxClock
  /\ Open(s)
  /\ titleSeen' = [titleSeen EXCEPT ![s] = title]
  /\ Goto(s, "open")
  /\ UNCHANGED <<tables, asked, outcome, gone, turn, loop>>

\* A message arrives: the session's transaction, if it has none, opens here;
\* the conversation is loaded again if it has expired, and the user's message
\* is added to the transaction (it is committed only with the answer).
Receive(s) ==
  /\ pc[s] = IF s \in Http THEN "closed" ELSE "open"
  /\ asked < MaxTurns
  /\ asked' = asked + 1
  /\ turn' = [turn EXCEPT ![s] = asked + 1]
  /\ outcome' = [outcome EXCEPT ![asked + 1] = "running"]
  /\ IF began[s] = 0 THEN Open(s) ELSE UNCHANGED <<clock, began>>
  /\ titleSeen' = [titleSeen EXCEPT ![s] = IF @ = Expired THEN title ELSE @]
  /\ Goto(s, "chat")
  /\ UNCHANGED <<tables, gone, loop>>

\* a bug: the loop has no bound
ChatForEver(s) ==
  /\ pc[s] = "chat"
  /\ \/ /\ Goto(s, "finish")
        /\ UNCHANGED loop
     \/ \E n \in Replies \ {0} :
          /\ loop' = [loop EXCEPT ![s].calls = n]
          /\ Goto(s, "tool")
  /\ UNCHANGED <<tables, clock, asked, outcome, gone, session, turn>>

\* a bug: one model call too many
ChatOnceMore(s) ==
  /\ pc[s] = "chat"
  /\ \/ /\ Goto(s, "finish")
        /\ UNCHANGED loop
     \/ \E n \in Replies \ {0} :
          /\ loop[s].chats <= MAX_ITERATIONS
          /\ loop' = [loop EXCEPT ![s].chats = @ + 1, ![s].calls = n]
          /\ Goto(s, "tool")
  /\ UNCHANGED <<tables, clock, asked, outcome, gone, session, turn>>

\* One model call of the loop: an answer, or calls of tools.  After
\* MAX_ITERATIONS calls the loop gives up with a fixed answer.
Chat(s) ==
  /\ pc[s] = "chat"
  /\ \/ /\ Goto(s, "finish")
        /\ UNCHANGED loop
     \/ \E n \in Replies \ {0} :
          /\ loop[s].chats < MAX_ITERATIONS
          /\ loop' = [loop EXCEPT ![s].chats = @ + 1, ![s].calls = n]
          /\ Goto(s, "tool")
  /\ UNCHANGED <<tables, clock, asked, outcome, gone, session, turn>>

\* What a call of a tool comes to.  A read fails on bad arguments, or its statement
\* does; a proposal only on arguments that are no object; nothing else is a tool.
Results(name) ==
  {"error"} \cup (IF name \in Reads THEN {"read", "database error"} ELSE {})
            \cup (IF name \in Proposals THEN {"proposal"} ELSE {})

\* tools.execute: the model may name a tool it was not told of.  An error is only
\* told to the model, even one of the database, which leaves the transaction
\* aborted.
Execute(s) ==
  /\ pc[s] = "tool"
  /\ \E name \in Specs \cup {"unknown"} : \E result \in Results(name) :
       loop' = [loop EXCEPT ![s].calls = @ - 1,
                            ![s].proposed = @ \/ result = "proposal",
                            ![s].aborted = @ \/ result = "database error"]
  /\ Goto(s, IF loop[s].calls = 1 THEN "chat" ELSE "tool")
  /\ UNCHANGED <<tables, clock, asked, outcome, gone, session, turn>>

\* _record: the row is flagged if a call of the loop queued a proposal.
AuditOf(s) == [turn |-> turn[s], flagged |-> loop[s].proposed, socket |-> s]

\* a bug: the title is set by every turn
LatestTitle(s) == IF s \in Http THEN title ELSE turn[s]

\* The title of the conversation as the commit leaves it: a session that has
\* loaded an empty one sets it.
TitleAfter(s) ==
  IF s \notin Http /\ titleSeen[s] = 0 THEN turn[s] ELSE title

\* The messages of the conversation as the commit leaves them
MessagesAfter(s) ==
  IF s \in Http THEN messages
  ELSE messages \o <<Row(s, "user"), Row(s, "assistant")>>

\* After the commit: an HTTP call returns; on a socket, reading the new message
\* back opens the transaction of the next turn, and the answer is sent.
Respond(s) ==
  /\ IF s \in Http \/ gone[s]
       THEN began' = [began EXCEPT ![s] = 0] /\ UNCHANGED clock
       ELSE Open(s)
  /\ Told(s, "answered")

\* The new message cannot be read back: the handler of errors rolls back a
\* transaction that has nothing left to undo, and reports a failure.
FailReadingBack(s) ==
  /\ s \notin Http
  /\ began' = [began EXCEPT ![s] = 0]
  /\ Told(s, "failed")
  /\ UNCHANGED clock

\* a bug: the audit row gets a commit of its own, once the answer is read back
AuditAfterAnswer(s) ==
  /\ pc[s] = "finish"
  /\ ~loop[s].aborted
  /\ messages' = MessagesAfter(s)
  /\ title' = TitleAfter(s)
  /\ \/ Respond(s) /\ audits' = Append(audits, AuditOf(s))
     \/ FailReadingBack(s) /\ UNCHANGED audits
  /\ Expire(s)
  /\ Leave(s)
  /\ UNCHANGED asked

\* The answer: both messages, the title and the audit row are committed together.
Answer(s) ==
  /\ pc[s] = "finish"
  /\ ~loop[s].aborted
  /\ messages' = MessagesAfter(s)
  /\ audits' = Append(audits, AuditOf(s))
  /\ title' = TitleAfter(s)
  /\ Respond(s) \/ FailReadingBack(s)
  /\ Expire(s)
  /\ Leave(s)
  /\ UNCHANGED asked

\* The model raises, or the flush or the commit of the answer does, as it must in
\* a transaction that is aborted: everything of the turn is rolled back and the
\* client is told of an error.
Fail(s) ==
  /\ \/ pc[s] = "chat" /\ loop[s].chats < MAX_ITERATIONS
     \/ pc[s] = "finish"
  /\ began' = [began EXCEPT ![s] = 0]
  /\ Told(s, "failed")
  /\ Expire(s)
  /\ Leave(s)
  /\ UNCHANGED <<tables, clock, asked>>

\* The client disconnects.  An idle socket is closed; a turn that is running
\* in its thread goes on.
Disconnect(s) ==
  /\ ~gone[s]
  /\ \/ /\ pc[s] = "open"
        /\ Goto(s, "closed")
        /\ began' = [began EXCEPT ![s] = 0]
        /\ Expire(s)
        /\ UNCHANGED gone
     \/ /\ pc[s] \in {"chat", "tool", "finish"}
        /\ gone' = [gone EXCEPT ![s] = TRUE]
        /\ UNCHANGED <<pc, session>>
  /\ UNCHANGED <<tables, clock, asked, outcome, turn, loop>>

\* The server dies and is restarted: no transaction survives.
Crash ==
  /\ \E s \in Sockets : pc[s] # "closed"
  /\ outcome' = [n \in Turns |-> IF outcome[n] = "running" THEN "lost" ELSE outcome[n]]
  /\ pc' = [s \in Sockets |-> "closed"]
  /\ gone' = [s \in Sockets |-> FALSE]
  /\ began' = [s \in Sockets |-> 0]
  /\ titleSeen' = [s \in Sockets |-> Expired]
  /\ turn' = [s \in Sockets |-> 0]
  /\ loop' = [s \in Sockets |-> NoLoop]
  /\ UNCHANGED <<tables, clock, asked>>

Advance(s) == Chat(s) \/ Execute(s) \/ Answer(s) \/ Fail(s)

Next ==
  \/ \E s \in Sockets : Connect(s) \/ Receive(s) \/ Advance(s) \/ Disconnect(s)
  \/ Crash

Spec == Init /\ [][Next]_vars

\* The thread of a turn runs on, and the model client returns or times out.
FairSpec == Spec /\ \A s \in Sockets : WF_vars(Advance(s))

------------------------------------------------------------------------------
(* Properties.                                                             *)

\* The places of a turn's rows in the tables
Rows(n) == {i \in DOMAIN messages : messages[i].turn = n}

AuditsOf(n) == {i \in DOMAIN audits : audits[i].turn = n}

\* All that a turn writes is there, once: its audit row and, of a turn of a
\* socket, its question and after it its answer.
Whole(n) ==
  \E a \in DOMAIN audits :
    /\ AuditsOf(n) = {a}
    /\ IF audits[a].socket \in Http THEN Rows(n) = {}
       ELSE \E i, j \in Rows(n) :
              /\ i < j /\ Rows(n) = {i, j}
              /\ messages[i].role = "user" /\ messages[j].role = "assistant"

Absent(n) == Rows(n) = {} /\ AuditsOf(n) = {}

\* A turn is persisted whole or not at all, through errors, disconnects, restarts
\* and an answer that is reported as a failure after its commit: whole if its
\* client was given an answer, and nothing of it is seen while it runs.
TurnsWhole ==
  \A n \in Turns :
    /\ Whole(n) \/ Absent(n)
    /\ outcome[n] = "answered" => Whole(n)
    /\ outcome[n] \in {"none", "running"} => Absent(n)

\* "Persist the user turn before running so a mid-turn failure keeps it" (run_turn)
\* and "Every run writes an AIAuditLog row" (copilot_service): a turn that fails
\* leaves its question or its audit row, at least.
FailureLeavesTrace ==
  [][\A s \in Sockets \ Http :
       turn[s] # 0 /\ turn'[s] = 0 /\ outcome'[turn[s]] = "failed" =>
         \/ \E i \in DOMAIN messages' :
              messages'[i].turn = turn[s] /\ messages'[i].role = "user"
         \/ \E i \in DOMAIN audits' : audits'[i].turn = turn[s]]_vars

\* Read back by created_at, the turns come in the order they were answered:
\* the model is given the conversation as its user saw it.
HistoryInCommitOrder ==
  \A i, j \in DOMAIN messages :
    i < j /\ messages[i].turn # messages[j].turn => messages[i].at < messages[j].at

\* At least the turns asked on one socket, over all its connections, come in order.
SocketHistoryInOrder ==
  \A i, j \in DOMAIN messages :
    /\ i < j
    /\ messages[i].turn # messages[j].turn
    /\ messages[i].socket = messages[j].socket
    => messages[i].at < messages[j].at

\* The conversation has a title as soon as it has a message, and the title is the
\* first question some socket asked: later turns of that socket do not change it.
TitleIsFirstQuestion ==
  /\ title = 0 <=> messages = <<>>
  /\ title # 0 =>
       \E i \in DOMAIN messages :
         /\ messages[i].turn = title
         /\ \A j \in 1 .. i : messages[j].socket = messages[i].socket =>
                              messages[j].turn = title

\* Every turn ends, however many tools the model asks for: the socket waits for
\* a message again or is closed.
TurnEnds == \A s \in Sockets : pc[s] = "chat" ~> pc[s] \in {"open", "closed"}

=============================================================================
