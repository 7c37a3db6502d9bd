------------------------------ MODULE TicketDesk ------------------------------
(***************************************************************************)
(* The page of one ticket (TicketDetailPage) in one browser tab, and the   *)
(* server's messages, changes and AI assistance behind it: what the agent  *)
(* confirms and what is sent, what the page shows of what was sent, and    *)
(* what the audit log has of what the AI answered.                         *)
(*                                                                         *)
(* Every request of the page but the fetch of the ticket is a call; calls  *)
(* are numbered in the order the agent makes them.  Each hook of the page  *)
(* (useMutation of TanStack Query, external) is an observer of its latest  *)
(* call: only that one's end is seen by the page, while the hook's own     *)
(* onSuccess is run for every call, also when the page was left.  The      *)
(* server handles a call in a thread and a transaction of its own.  The    *)
(* connection of a call may break at any time, and the server does not     *)
(* notice.                                                                 *)
(*                                                                         *)
(* While the dialog is open it covers the page (fixed inset-0): what is    *)
(* under it is not used.  Texts are abstracted to where they come from,    *)
(* the ticket to the changes committed to it; which status may follow      *)
(* which is TicketWorkflow's subject.                                      *)
(***************************************************************************)
EXTENDS Naturals, Sequences, FiniteSets

CONSTANTS
  Hooks,        \* the hooks of the page that are used, useAddTicketMessage among them
  MaxMessages,  \* bound: calls that send a message
  MaxOthers,    \* bound: calls of other kinds
  MaxOpenings,  \* bound: times the dialog is opened
  MaxFaults     \* bound: broken connections, failed fetches, times the page is left

ASSUME DeskAssumption ==
  /\ Hooks \subseteq {"message", "update", "resolve", "classify", "summarize", "suggest"}
  /\ "message" \in Hooks
  /\ MaxMessages \in Nat
  /\ MaxOthers \in Nat
  /\ MaxOpenings \in Nat
  /\ MaxFaults \in Nat

MaxCalls == MaxMessages + MaxOthers
Calls == 1 .. MaxCalls

\* The texts of the composer: none, that of the suggestion of call c as it came, or
\* one the agent typed or changed
Empty == 0
Typed == MaxCalls + 1
Text == Calls \cup {Empty, Typed}

AI == {"classify", "summarize", "suggest"}
Changing == {"message", "update", "resolve"}

\* A call: the opening of the dialog that confirmed it (0: none, as for a note); where
\* the server is with it, what the page has heard; the model's answers that
\* its handler could not use
Call == [kind    : Hooks,
         opening : 0 .. MaxOpenings,
         server  : {"running", "answered", "refused"},
         client  : {"waiting", "succeeded", "failed"},
         tries   : 0 .. 1]

VARIABLES
  calls,       \* [1 .. number of calls so far -> Call]
  rows,        \* the calls whose rows are committed: messages, changes, audit rows
  latest,      \* [Hooks -> the observer's call, or 0]
  body,        \* the text in the composer
  visibility,  \* the type of message that is chosen
  dialog,      \* the opening of the dialog that is open, or 0
  seen,        \* the text in the composer when the open dialog was opened
  openings,    \* number of openings so far
  open,        \* the page is open
  loaded,      \* the query has data
  shown,       \* the calls whose effect is in that data
  broken,      \* isError of the query
  stale,       \* the query is invalidated and not fetched again
  fetch,       \* the fetch in flight: where it is and what it read
  faults       \* number of faults so far

composer == <<body, visibility, dialog, seen, openings>>
query    == <<loaded, shown, broken, stale, fetch>>
vars     == <<calls, rows, latest, composer, open, query, faults>>

Asked == DOMAIN calls

\* The calls, the composer, and the query have their types; classify asks the model
\* twice at most.
TypeOK ==
  /\ \E n \in 0 .. MaxCalls : calls \in [1 .. n -> Call]
  /\ rows \subseteq Asked
  /\ latest \in [Hooks -> Asked \cup {0}]
  /\ body \in Text /\ seen \in Text
  /\ visibility \in {"internal", "public"}
  /\ dialog \in 0 .. MaxOpenings /\ openings \in 0 .. MaxOpenings
  /\ open \in BOOLEAN /\ loaded \in BOOLEAN /\ broken \in BOOLEAN /\ stale \in BOOLEAN
  /\ faults \in 0 .. MaxFaults
  /\ shown \subseteq Asked
  /\ fetch \in [state : {"idle", "asked", "answered"}, read : SUBSET Asked]

NoFetch == [state |-> "idle", read |-> {}]
NewFetch == [NoFetch EXCEPT !.state = "asked"]

Init ==
  /\ calls = <<>>
  /\ rows = {}
  /\ latest = [o \in Hooks |-> 0]
  /\ body = Empty /\ visibility = "internal" /\ dialog = 0 /\ seen = Empty
  /\ openings = 0
  /\ open = TRUE
  /\ loaded = FALSE /\ shown = {} /\ broken = FALSE /\ stale = FALSE
  /\ fetch = NewFetch
  /\ faults = 0

------------------------------------------------------------------------------
(* The page.                                                               *)

\* The page shows the ticket, and no spinner or error in its place.
Usable == open /\ loaded /\ ~broken

\* isPending of a hook: its latest call is not over.
Pending(o) == latest[o] # 0 /\ calls[latest[o]].client = "waiting"

\* mutate
Ask(o, opening) ==
  LET c == Len(calls) + 1
      sent == {d \in Asked : (calls[d].kind = "message") = (o = "message")}
  IN  /\ Cardinality(sent) < IF o = "message" THEN MaxMessages ELSE MaxOthers
      /\ calls' = Append(calls, [kind |-> o, opening |-> opening, server |-> "running",
                                 client |-> "waiting", tries |-> 0])
      /\ latest' = [latest EXCEPT ![o] = c]

\* submitMessage: the text and the type of this moment are sent.
Submit == Ask("message", dialog)

\* The textarea.  Clearing it is left out: nothing is sent without a text.
Type ==
  /\ Usable /\ dialog = 0
  /\ body # Typed
  /\ body' = Typed
  /\ UNCHANGED <<calls, rows, latest, visibility, dialog, seen, openings, open,
                 query, faults>>

\* The select of the message's type
ChooseVisibility(v) ==
  /\ Usable /\ dialog = 0
  /\ v # visibility
  /\ visibility' = v
  /\ UNCHANGED <<calls, rows, latest, body, dialog, seen, openings, open, query,
                 faults>>

\* Add note: enabled by a text alone, also while a message is being sent.
PressAddNote ==
  /\ Usable /\ dialog = 0
  /\ body # Empty
  /\ visibility = "internal"
  /\ Submit
  /\ UNCHANGED <<rows, composer, open, query, faults>>

\* Send reply: the dialog opens.
PressSendReply ==
  /\ Usable /\ dialog = 0
  /\ body # Empty
  /\ visibility = "public"
  /\ openings < MaxOpenings
  /\ openings' = openings + 1
  /\ dialog' = openings + 1
  /\ seen' = body
  /\ UNCHANGED <<calls, rows, latest, body, visibility, open, query, faults>>

\* a bug: the dialog is not told that a message is being sent
ConfirmTwice ==
  /\ Usable /\ dialog # 0
  /\ Submit
  /\ UNCHANGED <<rows, composer, open, query, faults>>

\* onConfirm of the dialog, whose buttons are disabled while a message is being sent
Confirm ==
  /\ Usable /\ dialog # 0
  /\ ~Pending("message")
  /\ Submit
  /\ UNCHANGED <<rows, composer, open, query, faults>>

\* onCancel of the dialog
Cancel ==
  /\ Usable /\ dialog # 0
  /\ ~Pending("message")
  /\ dialog' = 0
  /\ seen' = Empty
  /\ UNCHANGED <<calls, rows, latest, body, visibility, openings, open, query, faults>>

\* A hook whose button or select is disabled while its own call is not over
Press(o) ==
  /\ Usable /\ dialog = 0
  /\ o \in Hooks /\ ~Pending(o)
  /\ Ask(o, 0)
  /\ UNCHANGED <<rows, composer, open, query, faults>>

\* Classify, Summarize and Suggest reply of AI Assist
PressAssist == \E o \in AI : Press(o)

\* Mark resolved, while the status shown allows it, and the selects of Manage
PressChange == \E o \in {"update", "resolve"} : Press(o)

------------------------------------------------------------------------------
(* The answers of the calls and the query of the ticket.                   *)

\* a bug: a fetch that is under way is joined
InvalidateJoining ==
  /\ IF open /\ fetch.state = "idle"
       THEN fetch' = NewFetch /\ UNCHANGED stale
       ELSE stale' = ~open /\ UNCHANGED fetch
  /\ UNCHANGED <<loaded, shown, broken>>

\* invalidateQueries: a fetch under way is cancelled and a new one starts; if the page
\* is not open, the next one to open it fetches.
Invalidate ==
  /\ IF open THEN fetch' = NewFetch /\ UNCHANGED stale
             ELSE stale' = TRUE /\ UNCHANGED fetch
  /\ UNCHANGED <<loaded, shown, broken>>

\* What the page's own onSuccess does with the success of call c, if it is still the
\* latest of its hook: a sent message empties the composer and closes the dialog, a
\* suggestion becomes the text of a public message.
Callback(c) ==
  LET o == calls[c].kind
  IN  CASE latest[o] = c /\ o = "message" ->
             /\ body' = Empty /\ dialog' = 0 /\ seen' = Empty
             /\ UNCHANGED <<visibility, openings>>
        [] latest[o] = c /\ o = "suggest" ->
             /\ body' = c /\ visibility' = "public"
             /\ UNCHANGED <<dialog, seen, openings>>
        [] OTHER -> UNCHANGED composer

\* a bug: the hooks do not invalidate the query
HearSuccessOnly(c) ==
  /\ calls[c].client = "waiting" /\ calls[c].server = "answered"
  /\ calls' = [calls EXCEPT ![c].client = "succeeded"]
  /\ Callback(c)
  /\ UNCHANGED <<rows, latest, open, query, faults>>

\* The success of a call: onSuccess of the hook, then that of the page
HearSuccess(c) ==
  /\ calls[c].client = "waiting" /\ calls[c].server = "answered"
  /\ calls' = [calls EXCEPT ![c].client = "succeeded"]
  /\ IF calls[c].kind \in Changing THEN Invalidate ELSE UNCHANGED query
  /\ Callback(c)
  /\ UNCHANGED <<rows, latest, open, faults>>

\* The error that the server answered: its text is shown, the rest is as it was.
HearError(c) ==
  /\ calls[c].client = "waiting" /\ calls[c].server = "refused"
  /\ calls' = [calls EXCEPT ![c].client = "failed"]
  /\ UNCHANGED <<rows, latest, composer, open, query, faults>>

\* The connection of a call breaks, wherever the server is with it.
Break(c) ==
  /\ faults < MaxFaults
  /\ calls[c].client = "waiting"
  /\ calls' = [calls EXCEPT ![c].client = "failed"]
  /\ faults' = faults + 1
  /\ UNCHANGED <<rows, latest, composer, open, query>>

\* get_ticket, at its last SELECT
ReadTicket ==
  /\ fetch.state = "asked"
  /\ fetch' = [fetch EXCEPT !.state = "answered",
                            !.read = {c \in rows : calls[c].kind \in Changing}]
  /\ UNCHANGED <<calls, rows, latest, composer, open, loaded, shown, broken, stale,
                 faults>>

\* The ticket arrives and replaces what the page shows.
HearTicket ==
  /\ fetch.state = "answered"
  /\ loaded' = TRUE /\ shown' = fetch.read
  /\ broken' = FALSE /\ stale' = FALSE
  /\ fetch' = NoFetch
  /\ UNCHANGED <<calls, rows, latest, composer, open, faults>>

\* A fetch and its second attempt fail, by the connection or on the server: an error is
\* shown in place of the page.  A second attempt that succeeds is a late ReadTicket.
FailFetch ==
  /\ fetch.state # "idle"
  /\ faults < MaxFaults
  /\ faults' = faults + 1
  /\ fetch' = NoFetch
  /\ broken' = TRUE
  /\ UNCHANGED <<calls, rows, latest, composer, open, loaded, shown, stale>>

\* onRetry of the error
Retry ==
  /\ open /\ broken
  /\ fetch.state = "idle"
  /\ fetch' = NewFetch
  /\ UNCHANGED <<calls, rows, latest, composer, open, loaded, shown, broken, stale,
                 faults>>

\* The page is left: the composer and the hooks go, the calls go on, a fetch is
\* cancelled (its signal is used) and leaves the query as it was before.
Leave ==
  /\ open
  /\ faults < MaxFaults
  /\ faults' = faults + 1
  /\ open' = FALSE
  /\ latest' = [o \in Hooks |-> 0]
  /\ body' = Empty /\ visibility' = "internal" /\ dialog' = 0 /\ seen' = Empty
  /\ stale' = (stale \/ fetch.state # "idle")
  /\ fetch' = NoFetch
  /\ UNCHANGED <<calls, rows, openings, loaded, shown, broken>>

\* The page is opened again: the query fetches if its data is not of use, or is older
\* than staleTime.
Return ==
  /\ ~open
  /\ open' = TRUE
  /\ \/ fetch' = NewFetch
     \/ ~stale /\ ~broken /\ loaded /\ UNCHANGED fetch
  /\ UNCHANGED <<calls, rows, latest, composer, loaded, shown, broken, stale,
                 faults>>

------------------------------------------------------------------------------
(* The server.                                                             *)

\* a bug: the model is asked until its answer parses
AskAgainAlways(c) ==
  /\ calls[c].server = "running"
  /\ calls[c].kind = "classify"
  /\ calls' = [calls EXCEPT ![c].tries = @ + 1]
  /\ UNCHANGED <<rows, latest, composer, open, query, faults>>

\* _classify_with_retry: the first answer is no valid JSON, and the model is asked again.
AskAgain(c) ==
  /\ calls[c].server = "running"
  /\ calls[c].kind = "classify"
  /\ calls[c].tries = 0
  /\ calls' = [calls EXCEPT ![c].tries = 1]
  /\ UNCHANGED <<rows, latest, composer, open, query, faults>>

\* A handler's commit, after which it answers; if it cannot read back what it wrote,
\* with an error.
Commit(c) ==
  /\ calls[c].server = "running"
  /\ \E answer \in {"answered", "refused"} :
       calls' = [calls EXCEPT ![c].server = answer, ![c].tries = 0]
  /\ rows' = rows \cup {c}
  /\ UNCHANGED <<latest, composer, open, query, faults>>

\* classify, summarize and suggest_reply: the ticket is there, the model's answer is of
\* use, and the audit row of what it says is committed.
Assist(c) == calls[c].kind \in AI /\ Commit(c)

\* add_message
AddMessage(c) == calls[c].kind = "message" /\ Commit(c)

\* update_ticket and resolve_ticket
Change(c) == calls[c].kind \in {"update", "resolve"} /\ Commit(c)

\* 404, 409, 422 or 500, an empty or failed completion, a second one that is no JSON,
\* or a failed commit: nothing stays, and the error is answered.
Refuse(c) ==
  /\ calls[c].server = "running"
  /\ calls' = [calls EXCEPT ![c].server = "refused", ![c].tries = 0]
  /\ UNCHANGED <<rows, latest, composer, open, query, faults>>

Progress(c) == AskAgain(c) \/ Assist(c) \/ AddMessage(c) \/ Change(c) \/ Refuse(c)

Hear(c) == HearSuccess(c) \/ HearError(c)

Next ==
  \/ Type
  \/ \E v \in {"internal", "public"} : ChooseVisibility(v)
  \/ PressAddNote \/ PressSendReply \/ Confirm \/ Cancel
  \/ PressAssist \/ PressChange
  \/ \E c \in Asked : Hear(c) \/ Break(c) \/ Progress(c)
  \/ ReadTicket \/ HearTicket \/ FailFetch \/ Retry
  \/ Leave \/ Return

Spec == Init /\ [][Next]_vars

\* The threads run on and the model client returns or raises, answers arrive, and so
\* does the ticket.
FairSpec ==
  /\ Spec
  /\ WF_vars(\E c \in Asked : Progress(c) \/ Hear(c))
  /\ WF_vars(ReadTicket \/ HearTicket)

------------------------------------------------------------------------------
(* Properties.                                                             *)

\* A reply that was confirmed once is not on the ticket twice, unless the agent was told that
\* the first attempt failed and confirmed again: there is no idempotency key, so an error or
\* a broken connection after the commit makes that possible.
RepliesOnce ==
  \A c, d \in rows :
    /\ c < d
    /\ calls[c].opening # 0
    /\ calls[c].opening = calls[d].opening
    => calls[c].client = "failed"

\* "Suggested replies are labeled AI drafts requiring human review before sending"
\* (README): the text that goes out as a reply is the one the agent had before them when
\* they opened the dialog that confirms it.
ReplyIsConfirmedText ==
  [][Len(calls') > Len(calls) /\ calls'[Len(calls')].opening # 0 => body = seen]_vars

\* The page is never left behind: when no fetch is under way and none is due, it shows
\* every message and change whose success was heard, whatever fetches were overtaken,
\* cancelled or failed.
PageCatchesUp ==
  fetch.state = "idle" /\ loaded /\ ~stale /\ ~broken =>
    \A c \in Asked :
      calls[c].kind \in Changing /\ calls[c].client = "succeeded" => c \in shown

\* A message that was sent is on the page at last, unless the page is left or its fetch has
\* failed twice.
SentIsShown ==
  LET Behind == \E c \in Asked \ shown :
                  calls[c].kind = "message" /\ calls[c].client = "succeeded"
  IN  Behind ~> (~Behind \/ ~open \/ broken)

=============================================================================
