------------------------------ MODULE CopilotPage ------------------------------
(***************************************************************************)
(* The copilot page of one browser tab (CopilotPage, useCopilotSocket) and *)
(* the server it talks to: what the page shows of a conversation while     *)
(* sockets break and are reopened and the user moves between               *)
(* conversations.                                                          *)
(*                                                                         *)
(* A view is one run of the hook's effect.  It has a ReconnectingWebSocket *)
(* (external), which opens one connection after another and keeps what is  *)
(* sent while none is open.  A connection carries questions one way and    *)
(* events the other way, in order; after it is closed on the page's side   *)
(* only its close event still comes.  The server's handler runs one turn   *)
(* at a time and does not stop a turn when the client is gone.  What a     *)
(* turn does inside is CopilotConversation's subject.                      *)
(*                                                                         *)
(* Abstracted: the customer of a view, the names of the tools at work, the *)
(* error texts.                                                            *)
(***************************************************************************)
EXTENDS Naturals, Sequences

CONSTANTS
  MaxConnections,  \* bound: connections opened
  MaxTurns,        \* bound: questions asked
  MaxViews         \* bound: runs of the effect

ASSUME PageAssumption ==
  /\ MaxConnections \in Nat \ {0}
  /\ MaxTurns \in Nat
  /\ MaxViews \in Nat \ {0}

VARIABLES
  views,     \* number of views so far
  status,    \* what the page says of its connection
  shown,     \* conversationId of the hook; 0 if not known yet
  messages,  \* the page's questions and answers
  pending,   \* a question is at work, and no other can be asked
  left,      \* the page was left for the login page
  socket,    \* the view's connection; 0 while there is none
  queue,     \* questions that wait for a connection
  asked,     \* number of questions so far
  used,      \* number of connections so far
  side,      \* [Connections -> state of the page's end]
  handler,   \* [Connections -> state of the server's end]
  serves,    \* [Connections -> conversation it is about: the one in the URL, 0 if none]
  turn,      \* [Connections -> the turn the handler runs, or 0]
  inbox,     \* [Connections -> questions on their way]
  outbox,    \* [Connections -> events on their way]
  history,   \* [Conversations -> the turns committed; how they are ordered when read
             \* back is CopilotConversation's subject]
  created    \* number of conversations so far

hook   == <<views, status, shown, messages, pending, left>>
link   == <<used, side>>
server == <<handler, serves, turn, history, created>>
vars   == <<hook, socket, queue, asked, link, server, inbox, outbox>>

Connections == 1 .. MaxConnections

\* A connection starts one conversation at most.
Conversations == Connections

Turns == 1 .. MaxTurns

Entry == {"question", "answer"} \X Turns

\* What copilot_ws sends, the opening and the end of the connection included
Event == [kind : {"open", "ready", "answer", "error", "refused", "closed"},
          conversation : 0 .. MaxConnections, turns : Seq(Turns)]

\* The hook, the connections, the handlers and the histories have their types; one
\* question at most waits for a connection.
TypeOK ==
  /\ views \in 0 .. MaxViews
  /\ status \in {"connecting", "online", "offline"}
  /\ shown \in 0 .. MaxConnections
  /\ messages \in Seq(Entry)
  /\ pending \in BOOLEAN
  /\ left \in BOOLEAN
  /\ socket \in 0 .. MaxConnections
  /\ queue \in {<<>>} \cup {<<n>> : n \in Turns}
  /\ asked \in 0 .. MaxTurns
  /\ used \in 0 .. MaxConnections
  /\ side \in [Connections -> {"none", "connecting", "open", "closing", "closed"}]
  /\ handler \in [Connections -> {"none", "accepted", "idle", "turn", "gone"}]
  /\ serves \in [Connections -> 0 .. MaxConnections]
  /\ turn \in [Connections -> 0 .. MaxTurns]
  /\ inbox \in [Connections -> Seq(Turns)]
  /\ outbox \in [Connections -> Seq(Event)]
  /\ history \in [Conversations -> Seq(Turns)]
  /\ created \in 0 .. MaxConnections

\* The page is opened: a view of a new conversation.
Init ==
  /\ views = 1
  /\ status = "connecting"
  /\ shown = 0
  /\ messages = <<>>
  /\ pending = FALSE
  /\ left = FALSE
  /\ socket = 0
  /\ queue = <<>>
  /\ asked = 0
  /\ used = 0
  /\ side = [c \in Connections |-> "none"]
  /\ handler = [c \in Connections |-> "none"]
  /\ serves = [c \in Connections |-> 0]
  /\ turn = [c \in Connections |-> 0]
  /\ inbox = [c \in Connections |-> <<>>]
  /\ outbox = [c \in Connections |-> <<>>]
  /\ history = [v \in Conversations |-> <<>>]
  /\ created = 0

------------------------------------------------------------------------------

Up(c) == side[c] \in {"connecting", "open"}

Note(kind) == [kind |-> kind, conversation |-> 0, turns |-> <<>>]

\* The server sends events, which a client that is gone does not get.
Send(c, events) ==
  outbox' = IF Up(c) THEN [outbox EXCEPT ![c] = @ \o events] ELSE outbox

\* fromHistory: both messages of every turn
Entries(turns) ==
  [i \in 1 .. 2 * Len(turns) |->
     <<IF i % 2 = 1 THEN "question" ELSE "answer", turns[(i + 1) \div 2]>>]

------------------------------------------------------------------------------
(* The hook and the page.                                                  *)

\* a bug: the URL has the conversation the view was opened with, here none
ConnectAfresh ==
  /\ ~left
  /\ socket = 0
  /\ used < MaxConnections
  /\ used' = used + 1
  /\ socket' = used + 1
  /\ side' = [side EXCEPT ![used + 1] = "connecting"]
  /\ UNCHANGED <<hook, queue, asked, server, inbox, outbox>>

\* The ReconnectingWebSocket opens a connection, with the URL of this moment:
\* the first time, or after the last one closed.
Connect ==
  /\ ~left
  /\ socket = 0
  /\ used < MaxConnections
  /\ used' = used + 1
  /\ socket' = used + 1
  /\ side' = [side EXCEPT ![used + 1] = "connecting"]
  /\ serves' = [serves EXCEPT ![used + 1] = shown]
  /\ UNCHANGED <<hook, queue, asked, handler, turn, history, created, inbox,
                 outbox>>

\* The next event of connection c
Heard(c, kind) ==
  /\ ~left
  /\ Up(c)
  /\ outbox[c] # <<>>
  /\ Head(outbox[c]).kind = kind
  /\ outbox' = [outbox EXCEPT ![c] = Tail(@)]

\* open: the status, and what was queued is sent.
HearOpen(c) ==
  /\ Heard(c, "open")
  /\ side' = [side EXCEPT ![c] = "open"]
  /\ status' = "online"
  /\ inbox' = [inbox EXCEPT ![c] = @ \o queue]
  /\ queue' = <<>>
  /\ UNCHANGED <<views, shown, messages, pending, left, socket, asked, used, server>>

\* a bug: pending outlives the connection it waited on
HearReadyKeepingPending(c) ==
  /\ Heard(c, "ready")
  /\ shown' = Head(outbox[c]).conversation
  /\ messages' = Entries(Head(outbox[c]).turns)
  /\ UNCHANGED <<views, status, pending, left, socket, queue, asked, link, server,
                 inbox>>

\* ready: the conversation and its history replace what the page shows.
HearReady(c) ==
  /\ Heard(c, "ready")
  /\ shown' = Head(outbox[c]).conversation
  /\ messages' = Entries(Head(outbox[c]).turns)
  /\ pending' = FALSE
  /\ UNCHANGED <<views, status, left, socket, queue, asked, link, server, inbox>>

\* answer: it is added to what the page shows.
HearAnswer(c) ==
  /\ Heard(c, "answer")
  /\ messages' = Append(messages, <<"answer", Head(outbox[c]).turns[1]>>)
  /\ pending' = FALSE
  /\ UNCHANGED <<views, status, shown, left, socket, queue, asked, link, server,
                 inbox>>

\* error: the turn is over.
HearError(c) ==
  /\ Heard(c, "error")
  /\ pending' = FALSE
  /\ UNCHANGED <<views, status, shown, messages, left, socket, queue, asked, link,
                 server, inbox>>

\* The close event with AUTH_CLOSE_CODE: the token is dropped and the page left.
HearRefused(c) ==
  /\ Heard(c, "refused")
  /\ left' = TRUE
  /\ side' = [side EXCEPT ![c] = "closed"]
  /\ socket' = 0
  /\ UNCHANGED <<views, status, shown, messages, pending, queue, asked, used, server, inbox>>

\* The close event of any other end, also of a connection of an earlier view: the
\* page is offline.
HearClosed(c) ==
  /\ \/ Heard(c, "closed")
     \/ ~left /\ side[c] = "closing" /\ UNCHANGED outbox
  /\ side' = [side EXCEPT ![c] = "closed"]
  /\ status' = "offline"
  /\ socket' = IF socket = c THEN 0 ELSE socket
  /\ UNCHANGED <<views, shown, messages, pending, left, queue, asked, used, server, inbox>>

\* a bug: a question can be asked while another is at work
SubmitWhilePending ==
  /\ ~left
  /\ status = "online"
  /\ asked < MaxTurns
  /\ asked' = asked + 1
  /\ messages' = Append(messages, <<"question", asked + 1>>)
  /\ pending' = TRUE
  /\ IF socket # 0 /\ side[socket] = "open"
       THEN /\ inbox' = [inbox EXCEPT ![socket] = Append(@, asked + 1)]
            /\ UNCHANGED queue
       ELSE /\ queue' = Append(queue, asked + 1)
            /\ UNCHANGED inbox
  /\ UNCHANGED <<views, status, shown, left, socket, link, server, outbox>>

\* submit and send: the page shows the question at once; it goes to the
\* connection if that is open and to the queue if not.
Submit ==
  /\ ~left
  /\ ~pending
  /\ status = "online"
  /\ asked < MaxTurns
  /\ asked' = asked + 1
  /\ messages' = Append(messages, <<"question", asked + 1>>)
  /\ pending' = TRUE
  /\ IF socket # 0 /\ side[socket] = "open"
       THEN /\ inbox' = [inbox EXCEPT ![socket] = Append(@, asked + 1)]
            /\ UNCHANGED queue
       ELSE /\ queue' = Append(queue, asked + 1)
            /\ UNCHANGED inbox
  /\ UNCHANGED <<views, status, shown, left, socket, link, server, outbox>>

\* a bug: the effect has no cleanup, so the old view's socket stays open
SwitchWithoutCleanup(v) ==
  /\ ~left
  /\ views < MaxViews
  /\ used < MaxConnections
  /\ v = 0 \/ v # shown
  /\ views' = views + 1
  /\ status' = "connecting"
  /\ shown' = v
  /\ messages' = <<>>
  /\ pending' = FALSE
  /\ socket' = 0
  /\ queue' = <<>>
  /\ UNCHANGED <<left, asked, link, server, inbox, outbox>>

\* startNewConversation or changeCustomer (v = 0), or resume of a conversation in
\* the list: the effect is cleaned up, closing the socket, and runs again.
Switch(v) ==
  /\ ~left
  /\ views < MaxViews
  /\ used < MaxConnections
  /\ v = 0 \/ v # shown
  /\ views' = views + 1
  /\ status' = "connecting"
  /\ shown' = v
  /\ messages' = <<>>
  /\ pending' = FALSE
  /\ socket' = 0
  /\ queue' = <<>>
  /\ side' = [c \in Connections |-> IF c = socket /\ Up(c) THEN "closing" ELSE side[c]]
  /\ outbox' = [c \in Connections |-> IF c = socket THEN <<>> ELSE outbox[c]]
  /\ UNCHANGED <<left, asked, used, server, inbox>>

\* The connection breaks, or the server begins to close it: what is on its way to
\* the page is lost.
Break(c) ==
  /\ ~left
  /\ Up(c)
  /\ used < MaxConnections
  /\ side' = [side EXCEPT ![c] = "closing"]
  /\ outbox' = [outbox EXCEPT ![c] = <<>>]
  /\ UNCHANGED <<hook, socket, queue, asked, used, server, inbox>>

------------------------------------------------------------------------------
(* copilot_ws.                                                             *)

\* websocket.accept
Accept(c) ==
  /\ handler[c] = "none"
  /\ Up(c)
  /\ handler' = [handler EXCEPT ![c] = "accepted"]
  /\ Send(c, <<Note("open")>>)
  /\ UNCHANGED <<hook, socket, queue, asked, link, serves, turn, history, created,
                 inbox>>

\* _authenticate_ws: no user, close with _WS_AUTH_CLOSE.
Refuse(c) ==
  /\ handler[c] = "accepted"
  /\ handler' = [handler EXCEPT ![c] = "gone"]
  /\ Send(c, <<Note("refused")>>)
  /\ UNCHANGED <<hook, socket, queue, asked, link, serves, turn, history, created,
                 inbox>>

\* get_llm_client raises: an error, then the connection is closed.
Reject(c) ==
  /\ handler[c] = "accepted"
  /\ used < MaxConnections
  /\ handler' = [handler EXCEPT ![c] = "gone"]
  /\ Send(c, <<Note("error"), Note("closed")>>)
  /\ UNCHANGED <<hook, socket, queue, asked, link, serves, turn, history, created,
                 inbox>>

\* _resolve_conversation, commit, and ready with the history.
Greet(c) ==
  /\ handler[c] = "accepted"
  /\ LET v == IF serves[c] = 0 THEN created + 1 ELSE serves[c]
     IN  /\ serves' = [serves EXCEPT ![c] = v]
         /\ Send(c, <<[kind |-> "ready", conversation |-> v,
                       turns |-> history[v]]>>)
  /\ created' = IF serves[c] = 0 THEN created + 1 ELSE created
  /\ handler' = [handler EXCEPT ![c] = "idle"]
  /\ UNCHANGED <<hook, socket, queue, asked, link, turn, history, inbox>>

\* receive_json: also of what a client sent before it was gone
Receive(c) ==
  /\ handler[c] = "idle"
  /\ inbox[c] # <<>>
  /\ handler' = [handler EXCEPT ![c] = "turn"]
  /\ turn' = [turn EXCEPT ![c] = Head(inbox[c])]
  /\ inbox' = [inbox EXCEPT ![c] = Tail(@)]
  /\ UNCHANGED <<hook, socket, queue, asked, link, serves, history, created, outbox>>

\* run_turn commits and its answer is sent.
Answer(c) ==
  /\ handler[c] = "turn"
  /\ history' = [history EXCEPT ![serves[c]] = Append(@, turn[c])]
  /\ Send(c, <<[kind |-> "answer", conversation |-> 0, turns |-> <<turn[c]>>]>>)
  /\ handler' = [handler EXCEPT ![c] = "idle"]
  /\ turn' = [turn EXCEPT ![c] = 0]
  /\ UNCHANGED <<hook, socket, queue, asked, link, serves, created, inbox>>

\* run_turn raises: rollback and an error
Fail(c) ==
  /\ handler[c] = "turn"
  /\ Send(c, <<Note("error")>>)
  /\ handler' = [handler EXCEPT ![c] = "idle"]
  /\ turn' = [turn EXCEPT ![c] = 0]
  /\ UNCHANGED <<hook, socket, queue, asked, link, serves, history, created, inbox>>

\* WebSocketDisconnect: what had not arrived is lost.
End(c) ==
  /\ handler[c] = "idle"
  /\ ~Up(c)
  /\ handler' = [handler EXCEPT ![c] = "gone"]
  /\ inbox' = [inbox EXCEPT ![c] = <<>>]
  /\ UNCHANGED <<hook, socket, queue, asked, link, serves, turn, history, created,
                 outbox>>

Hear(c) ==
  \/ HearOpen(c)
  \/ HearReady(c)
  \/ HearAnswer(c)
  \/ HearError(c)
  \/ HearRefused(c)
  \/ HearClosed(c)

Serve(c) ==
  \/ Accept(c)
  \/ Greet(c)
  \/ Receive(c)
  \/ Answer(c)
  \/ Fail(c)

Next ==
  \/ Connect
  \/ Submit
  \/ \E v \in 0 .. created : Switch(v)
  \/ \E c \in Connections :
       \/ Hear(c)
       \/ Break(c)
       \/ Serve(c)
       \/ Refuse(c)
       \/ Reject(c)
       \/ End(c)

Spec == Init /\ [][Next]_vars

\* Events are delivered or the connection's end is noticed, the library connects
\* again, the handler goes on and the turn's model call returns.
FairSpec ==
  /\ Spec
  /\ WF_vars(Connect)
  /\ \A c \in Connections : WF_vars(Hear(c)) /\ WF_vars(Serve(c))

------------------------------------------------------------------------------
(* Properties.                                                             *)

\* The places of the answers among the entries
AnswersIn(entries) == {i \in DOMAIN entries : entries[i][1] = "answer"}

\* The answers that the page shows are committed in the conversation it shows, and
\* each is shown once, whatever sockets were closed or opened again and whatever
\* conversations were shown before.
AnswersAreHistory ==
  /\ AnswersIn(messages) # {} => shown # 0
  /\ \A i \in AnswersIn(messages) :
       \E j \in DOMAIN history[shown] : history[shown][j] = messages[i][2]
  /\ \A i, j \in AnswersIn(messages) : messages[i][2] = messages[j][2] => i = j

\* An answer the user has read stays on the page until they move on: a socket that
\* is opened again resumes the conversation, and its history has the answer.
AnswersStay ==
  [][views' = views =>
       \A i \in AnswersIn(messages) :
         \E j \in AnswersIn(messages') : messages'[j][2] = messages[i][2]]_vars

\* A question is not at work for ever, so the page can always ask again: the
\* answer, the error, or the ready of the next connection comes.
PendingClears == pending ~> (~pending \/ left)

=============================================================================
