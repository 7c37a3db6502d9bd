------------------------------ MODULE DeskProofs ------------------------------
(***************************************************************************)
(* A reply that was confirmed once is sent once, it is the confirmed text  *)
(* unless a draft comes in between, and the page does not stay behind what *)
(* was sent, for any number of calls, openings of the dialog and faults.   *)
(***************************************************************************)
EXTENDS TicketDesk, FiniteSetTheorems, SequenceTheorems, TLAPS

\* The calls that count against MaxMessages, and those that count against MaxOthers
Messages == {d \in Asked : calls[d].kind = "message"}
Others == {d \in Asked : calls[d].kind # "message"}

Counted ==
  /\ Cardinality(Messages) <= MaxMessages
  /\ Cardinality(Others) <= MaxOthers

\* The page hears of a success that the server answered, and the server answers what it
\* committed.
Truthful ==
  \A c \in Asked :
    /\ calls[c].client = "succeeded" => calls[c].server = "answered"
    /\ calls[c].server = "answered" => c \in rows

\* Openings are numbered as they come; one confirms messages only.
Numbered ==
  /\ dialog <= openings
  /\ \A c \in Asked : /\ calls[c].opening <= openings
                      /\ calls[c].opening # 0 => calls[c].kind = "message"

\* What the open dialog has confirmed has failed or is under way.
Deciding ==
  dialog # 0 =>
    \A c \in Asked : calls[c].opening = dialog =>
      \/ calls[c].client = "failed"
      \/ calls[c].client = "waiting" /\ latest["message"] = c

\* One opening confirms again only what failed.
OneEach ==
  \A c, d \in Asked :
    /\ c < d
    /\ calls[c].opening # 0
    /\ calls[c].opening = calls[d].opening
    => calls[c].client = "failed"

Suggested(t) ==
  /\ t \in Asked
  /\ calls[t].kind = "suggest" /\ calls[t].client = "succeeded"

\* The text under the dialog
Covered == dialog # 0 => body = seen \/ Suggested(body)

\* The changes the page has heard of
Heard == {c \in Asked : calls[c].kind \in Changing /\ calls[c].client = "succeeded"}

\* A page that is not open fetches nothing, and what a fetch has read has every change
\* the page has heard of.
Fetching ==
  /\ ~open => fetch.state = "idle"
  /\ fetch.state = "answered" => Heard \subseteq fetch.read

IInv ==
  /\ TypeOK
  /\ Counted
  /\ Truthful
  /\ Numbered
  /\ Deciding
  /\ OneEach
  /\ Covered
  /\ Fetching
  /\ PageCatchesUp

------------------------------------------------------------------------------
(* The calls.                                                              *)

LEMMA CallsFacts ==
  ASSUME TypeOK
  PROVE  /\ calls \in Seq(Call)
         /\ Len(calls) \in Nat /\ Len(calls) <= MaxCalls
         /\ Asked = 1 .. Len(calls)
         /\ calls \in [Asked -> Call]
         /\ Asked \subseteq Calls /\ Asked \subseteq Text
<1>1. PICK n \in 0 .. MaxCalls : calls \in [1 .. n -> Call]
  BY DEF TypeOK
<1>2. n \in Nat /\ n <= MaxCalls /\ MaxCalls \in Nat
  BY DeskAssumption DEF MaxCalls
<1>3. calls \in Seq(Call) /\ Len(calls) = n /\ Asked = 1 .. n
  BY <1>1, <1>2 DEF Asked
<1>4. Asked \subseteq Calls
  BY <1>2, <1>3 DEF Calls
<1> QED
  BY <1>1, <1>2, <1>3, <1>4 DEF Text

LEMMA FieldTypes ==
  ASSUME NEW call \in Call
  PROVE  /\ call.kind \in Hooks /\ call.opening \in 0 .. MaxOpenings
         /\ call.server \in {"running", "answered", "refused"}
         /\ call.client \in {"waiting", "succeeded", "failed"}
         /\ call.tries \in 0 .. 1
  BY DEF Call

\* A step that changes call c alone, and leaves its kind and opening
Updates(c) ==
  /\ calls' \in [Asked -> Call]
  /\ calls'[c].kind = calls[c].kind /\ calls'[c].opening = calls[c].opening
  /\ \A d \in Asked \ {c} : calls'[d] = calls[d]

\* What the page hears of a call
LEMMA ClientStep ==
  ASSUME TypeOK, NEW c \in Asked, NEW x \in {"waiting", "succeeded", "failed"},
         calls' = [calls EXCEPT ![c].client = x]
  PROVE  /\ Updates(c) /\ Asked' = Asked
         /\ calls'[c].client = x /\ calls'[c].server = calls[c].server
<1> DEFINE call == [calls[c] EXCEPT !.client = x]
<1>1. calls \in [Asked -> Call] /\ calls[c] \in Call
  BY CallsFacts
<1>2. /\ call \in Call /\ call.kind = calls[c].kind /\ call.opening = calls[c].opening
      /\ call.client = x /\ call.server = calls[c].server
  BY <1>1 DEF Call
<1>3. calls' = [calls EXCEPT ![c] = call]
  OBVIOUS
<1> HIDE DEF call
<1>4. /\ calls' \in [Asked -> Call] /\ calls'[c] = call
      /\ \A d \in Asked \ {c} : calls'[d] = calls[d]
  BY <1>1, <1>2, <1>3
<1>5. Asked' = Asked
  BY <1>4 DEF Asked
<1> QED
  BY <1>2, <1>4, <1>5 DEF Updates

LEMMA TriesStep ==
  ASSUME TypeOK, NEW c \in Asked, calls' = [calls EXCEPT ![c].tries = 1]
  PROVE  /\ Updates(c) /\ Asked' = Asked
         /\ calls'[c].client = calls[c].client /\ calls'[c].server = calls[c].server
<1> DEFINE call == [calls[c] EXCEPT !.tries = 1]
<1>1. calls \in [Asked -> Call] /\ calls[c] \in Call
  BY CallsFacts
<1>2. /\ call \in Call /\ call.kind = calls[c].kind /\ call.opening = calls[c].opening
      /\ call.client = calls[c].client /\ call.server = calls[c].server
  BY <1>1 DEF Call
<1>3. calls' = [calls EXCEPT ![c] = call]
  OBVIOUS
<1> HIDE DEF call
<1>4. /\ calls' \in [Asked -> Call] /\ calls'[c] = call
      /\ \A d \in Asked \ {c} : calls'[d] = calls[d]
  BY <1>1, <1>2, <1>3
<1>5. Asked' = Asked
  BY <1>4 DEF Asked
<1> QED
  BY <1>2, <1>4, <1>5 DEF Updates

\* What the server makes of a call
LEMMA ServerStep ==
  ASSUME TypeOK, NEW c \in Asked, NEW x \in {"answered", "refused"},
         calls' = [calls EXCEPT ![c].server = x, ![c].tries = 0]
  PROVE  /\ Updates(c) /\ Asked' = Asked
         /\ calls'[c].client = calls[c].client /\ calls'[c].server = x
<1> DEFINE answer == [calls[c] EXCEPT !.server = x]
           call == [answer EXCEPT !.tries = 0]
<1>1. calls \in [Asked -> Call] /\ calls[c] \in Call
  BY CallsFacts
<1>3. calls' = [calls EXCEPT ![c] = call]
  OBVIOUS
<1>6. /\ answer \in Call /\ answer.kind = calls[c].kind
      /\ answer.opening = calls[c].opening
      /\ answer.client = calls[c].client /\ answer.server = x
  BY <1>1 DEF Call
<1> HIDE DEF answer
<1>2. /\ call \in Call /\ call.kind = calls[c].kind /\ call.opening = calls[c].opening
      /\ call.client = calls[c].client /\ call.server = x
  BY <1>6 DEF Call
<1> HIDE DEF call
<1>4. /\ calls' \in [Asked -> Call] /\ calls'[c] = call
      /\ \A d \in Asked \ {c} : calls'[d] = calls[d]
  BY <1>1, <1>2, <1>3
<1>5. Asked' = Asked
  BY <1>4 DEF Asked
<1> QED
  BY <1>2, <1>4, <1>5 DEF Updates

LEMMA SplitCalls ==
  ASSUME TypeOK
  PROVE  /\ IsFiniteSet(Messages) /\ Cardinality(Messages) \in Nat
         /\ IsFiniteSet(Others) /\ Cardinality(Others) \in Nat
         /\ Len(calls) = Cardinality(Messages) + Cardinality(Others)
<1>1. IsFiniteSet(Asked) /\ Cardinality(Asked) = Len(calls)
  <2>1. Asked = 1 .. Len(calls) /\ Len(calls) \in Nat
    BY CallsFacts
  <2>2. PICK n \in Nat : n = Len(calls)
    BY <2>1
  <2>3. IsFiniteSet(1 .. n) /\ Cardinality(1 .. n) = IF 1 > n THEN 0 ELSE n - 1 + 1
    BY FS_Interval
  <2>4. Cardinality(1 .. n) = n
    BY <2>3
  <2> QED
    BY <2>1, <2>2, <2>3, <2>4
<1>2. Messages \subseteq Asked /\ Others \subseteq Asked
  BY DEF Messages, Others
<1>3. IsFiniteSet(Messages) /\ IsFiniteSet(Others)
  BY <1>1, <1>2, FS_Subset
<1>4. Cardinality(Messages) \in Nat /\ Cardinality(Others) \in Nat
  BY <1>3, FS_CardinalityType
<1>5. Messages \cup Others = Asked /\ Messages \cap Others = {}
  BY DEF Messages, Others
<1>6. Cardinality(Messages \cup Others) =
        Cardinality(Messages) + Cardinality(Others) - Cardinality({})
  BY <1>3, <1>5, FS_Union
<1>7. Cardinality({}) = 0
  BY FS_EmptySet
<1>8. Len(calls) = Cardinality(Messages) + Cardinality(Others)
  <2>1. Cardinality(Asked) = Cardinality(Messages) + Cardinality(Others) - Cardinality({})
    BY <1>5, <1>6, Zenon
  <2>2. Cardinality(Asked) = Cardinality(Messages) + Cardinality(Others) - 0
    BY <1>7, <2>1, Zenon
  <2> QED
    BY <1>1, <1>4, <2>2
<1> QED
  BY <1>3, <1>4, <1>8

\* mutate adds a call that waits; there is room for it.
LEMMA AskFacts ==
  ASSUME TypeOK, Counted, NEW o \in Hooks, NEW opening \in 0 .. MaxOpenings,
         Ask(o, opening)
  PROVE  \E c \in Calls :
           /\ c = Len(calls) + 1 /\ c \notin Asked
           /\ Asked' = Asked \cup {c} /\ \A d \in Asked : d < c
           /\ Len(calls') = c
           /\ calls' \in [1 .. c -> Call] /\ c \in 0 .. MaxCalls
           /\ \A d \in Asked : calls'[d] = calls[d]
           /\ calls'[c].kind = o /\ calls'[c].opening = opening
           /\ calls'[c].server = "running" /\ calls'[c].client = "waiting"
           /\ latest' = [latest EXCEPT ![o] = c]
           /\ Counted'
<1> DEFINE c == Len(calls) + 1
           call == [kind |-> o, opening |-> opening, server |-> "running",
                    client |-> "waiting", tries |-> 0]
           Sent == {d \in Asked : (calls[d].kind = "message") = (o = "message")}
<1>1. /\ calls' = Append(calls, call) /\ latest' = [latest EXCEPT ![o] = c]
      /\ Cardinality(Sent) < IF o = "message" THEN MaxMessages ELSE MaxOthers
  BY DEF Ask
<1>2. /\ call \in Call /\ call.kind = o /\ call.opening = opening
      /\ call.server = "running" /\ call.client = "waiting"
  BY DEF Call
<1> HIDE DEF call
<1>3. calls \in Seq(Call) /\ Len(calls) \in Nat /\ Asked = 1 .. Len(calls)
  BY CallsFacts
<1>4. /\ calls' \in Seq(Call) /\ DOMAIN calls' = 1 .. c /\ Len(calls') = c
      /\ \A d \in 1 .. Len(calls) : calls'[d] = calls[d]
      /\ calls'[c] = call
  BY <1>1, <1>2, <1>3
<1>5. /\ c \in Nat /\ c \notin Asked /\ 1 .. c = Asked \cup {c}
      /\ \A d \in Asked : d < c
  BY <1>3
<1>6. Asked' = Asked \cup {c}
  BY <1>4, <1>5 DEF Asked
<1>7. MaxMessages \in Nat /\ MaxOthers \in Nat
  BY DeskAssumption
<1>8. Counted' /\ c <= MaxCalls
  <2>1. CASE o = "message"
    <3>1. Sent = Messages
      BY <2>1, Zenon DEF Messages
    <3>2. Messages' = Messages \cup {c} /\ Others' = Others
      BY <1>2, <1>3, <1>4, <1>6, <2>1 DEF Messages, Others
    <3>3. c \notin Messages
      BY <1>5 DEF Messages
    <3>4. Cardinality(Messages \cup {c}) = Cardinality(Messages) + 1
      BY <3>3, SplitCalls, FS_AddElement
    <3> HIDE DEF Sent
    <3>5. Cardinality(Messages) < MaxMessages
      BY <1>1, <2>1, <3>1
    <3> QED
      BY <1>7, <3>2, <3>4, <3>5, SplitCalls DEF Counted, MaxCalls
  <2>2. CASE o # "message"
    <3>1. Sent = Others
      BY <2>2, Zenon DEF Others
    <3>2. Others' = Others \cup {c} /\ Messages' = Messages
      BY <1>2, <1>3, <1>4, <1>6, <2>2 DEF Messages, Others
    <3>3. c \notin Others
      BY <1>5 DEF Others
    <3>4. Cardinality(Others \cup {c}) = Cardinality(Others) + 1
      BY <3>3, SplitCalls, FS_AddElement
    <3> HIDE DEF Sent
    <3>5. Cardinality(Others) < MaxOthers
      BY <1>1, <2>2, <3>1
    <3> QED
      BY <1>7, <3>2, <3>4, <3>5, SplitCalls DEF Counted, MaxCalls
  <2> QED
    BY <2>1, <2>2
<1>9. calls' \in [1 .. c -> Call]
  BY <1>4
<1>10. c \in Calls /\ c \in 0 .. MaxCalls
  BY <1>3, <1>7, <1>8 DEF Calls, MaxCalls
<1> QED
  BY <1>1, <1>2, <1>3, <1>4, <1>5, <1>6, <1>8, <1>9, <1>10

------------------------------------------------------------------------------
(* The initial state, and what the steps do with the calls.                *)

LEMMA InitIInv == Init => IInv
<1> SUFFICES ASSUME Init PROVE IInv
  OBVIOUS
<1> USE DeskAssumption DEF Init
<1>1. Asked = {} /\ 0 \in Nat
  BY DEF Asked
<1>2. TypeOK
  <2>1. MaxCalls \in Nat
    BY DEF MaxCalls
  <2>2. \E n \in 0 .. MaxCalls : calls \in [1 .. n -> Call]
    <3>1. 0 \in 0 .. MaxCalls /\ calls \in [1 .. 0 -> Call]
      BY <2>1
    <3> QED
      BY <3>1
  <2>3. body \in Text /\ seen \in Text
    BY DEF Text
  <2>4. latest \in [Hooks -> Asked \cup {0}]
    BY <1>1
  <2>5. fetch \in [state : {"idle", "asked", "answered"}, read : SUBSET Asked]
    BY <1>1 DEF NewFetch, NoFetch
  <2>6. rows \subseteq Asked /\ shown \subseteq Asked
    BY <1>1
  <2>7. /\ visibility \in {"internal", "public"}
        /\ dialog \in 0 .. MaxOpenings /\ openings \in 0 .. MaxOpenings
        /\ faults \in 0 .. MaxFaults
    OBVIOUS
  <2>8. open \in BOOLEAN /\ loaded \in BOOLEAN /\ broken \in BOOLEAN /\ stale \in BOOLEAN
    BY Zenon
  <2> QED
    BY ONLY <2>2, <2>3, <2>4, <2>5, <2>6, <2>7, <2>8 DEF TypeOK
<1>3. Counted
  <2>1. Messages = {} /\ Others = {}
    BY <1>1 DEF Messages, Others
  <2> QED
    BY <2>1, FS_EmptySet DEF Counted
<1>4. Truthful /\ Numbered /\ OneEach
  BY <1>1 DEF Truthful, Numbered, OneEach
<1>5. Deciding /\ Covered
  BY DEF Deciding, Covered
<1>6. Fetching /\ PageCatchesUp
  BY DEF Fetching, PageCatchesUp, NewFetch, NoFetch
<1> QED
  BY <1>2, <1>3, <1>4, <1>5, <1>6 DEF IInv

\* The agent's calls
Asking(o, opening) ==
  /\ Ask(o, opening)
  /\ o \in Hooks
  /\ opening = dialog /\ (opening # 0 => o = "message" /\ ~Pending("message"))
  /\ UNCHANGED <<rows, composer, open, query, faults>>

LEMMA AskingSteps ==
  ASSUME TypeOK, PressAddNote \/ Confirm \/ PressAssist \/ PressChange
  PROVE  \E o \in Hooks, opening \in 0 .. MaxOpenings : Asking(o, opening)
<1> USE DeskAssumption
<1>1. "message" \in Hooks /\ dialog \in 0 .. MaxOpenings
  BY DEF TypeOK
<1>2. CASE PressAddNote
  <2>1. Asking("message", dialog)
    BY <1>1, <1>2 DEF PressAddNote, Submit, Asking
  <2> QED
    BY <1>1, <2>1
<1>3. CASE Confirm
  <2>1. Asking("message", dialog)
    BY <1>1, <1>3 DEF Confirm, Submit, Asking
  <2> QED
    BY <1>1, <2>1
<1>4. CASE PressAssist \/ PressChange
  <2>1. PICK o : Press(o)
    BY <1>4 DEF PressAssist, PressChange
  <2>2. Asking(o, 0) /\ o \in Hooks /\ dialog = 0
    BY <2>1 DEF Press, Asking
  <2> QED
    BY <1>1, <2>2
<1> QED
  BY <1>2, <1>3, <1>4

\* Steps of the page that change no call
Quiet ==
  \/ Type \/ (\E v \in {"internal", "public"} : ChooseVisibility(v))
  \/ PressSendReply \/ Cancel
  \/ ReadTicket \/ HearTicket \/ FailFetch \/ Retry \/ Leave \/ Return
  \/ UNCHANGED vars

LEMMA QuietCalls ==
  ASSUME Quiet
  PROVE  UNCHANGED <<calls, rows>> /\ Asked' = Asked
<1>1. CASE Type \/ (\E v \in {"internal", "public"} : ChooseVisibility(v))
  BY <1>1 DEF Type, ChooseVisibility, Asked
<1>2. CASE PressSendReply \/ Cancel
  BY <1>2 DEF PressSendReply, Cancel, Asked
<1>3. CASE ReadTicket \/ HearTicket \/ FailFetch \/ Retry
  BY <1>3 DEF ReadTicket, HearTicket, FailFetch, Retry, Asked
<1>4. CASE Leave \/ Return \/ UNCHANGED vars
  BY <1>4 DEF Leave, Return, vars, Asked
<1> QED
  BY <1>1, <1>2, <1>3, <1>4 DEF Quiet

\* The server's steps with call c, and the page's that hear no success
Serves(c) == AskAgain(c) \/ (Commit(c) \/ Refuse(c))

Fails(c) == HearError(c) \/ Break(c)

LEMMA NextCases ==
  ASSUME TypeOK, [Next]_vars
  PROVE  \/ Quiet
         \/ \E o \in Hooks, opening \in 0 .. MaxOpenings : Asking(o, opening)
         \/ \E c \in Asked : Serves(c) \/ Fails(c) \/ HearSuccess(c)
<1>1. CASE PressAddNote \/ Confirm \/ PressAssist \/ PressChange
  BY <1>1, AskingSteps
<1>2. ASSUME NEW c \in Asked, Progress(c) PROVE Serves(c)
  BY <1>2 DEF Progress, Serves, Assist, AddMessage, Change
<1>3. ASSUME NEW c \in Asked, Hear(c) \/ Break(c) PROVE Fails(c) \/ HearSuccess(c)
  BY <1>3 DEF Hear, Fails
<1>4. \/ Quiet
      \/ PressAddNote \/ Confirm \/ PressAssist \/ PressChange
      \/ \E c \in Asked : Hear(c) \/ Break(c) \/ Progress(c)
  BY DEF Next, Quiet
<1> QED
  BY <1>1, <1>2, <1>3, <1>4

LEMMA CallbackCases ==
  ASSUME NEW c, Callback(c)
  PROVE  \/ /\ calls[c].kind = "message" /\ latest["message"] = c
            /\ body' = Empty /\ dialog' = 0 /\ seen' = Empty
            /\ UNCHANGED <<visibility, openings>>
         \/ /\ calls[c].kind = "suggest" /\ latest["suggest"] = c
            /\ body' = c /\ visibility' = "public"
            /\ UNCHANGED <<dialog, seen, openings>>
         \/ /\ ~(calls[c].kind = "message" /\ latest["message"] = c)
            /\ UNCHANGED composer
<1>1. CASE calls[c].kind = "message" /\ latest["message"] = c
  BY <1>1 DEF Callback
<1>2. CASE calls[c].kind = "suggest" /\ latest["suggest"] = c
  BY <1>2 DEF Callback
<1>3. CASE /\ ~(calls[c].kind = "message" /\ latest["message"] = c)
           /\ ~(calls[c].kind = "suggest" /\ latest["suggest"] = c)
  <2>1. /\ ~(latest[calls[c].kind] = c /\ calls[c].kind = "message")
        /\ ~(latest[calls[c].kind] = c /\ calls[c].kind = "suggest")
    BY <1>3
  <2>2. UNCHANGED composer
    BY <2>1 DEF Callback
  <2> QED
    BY <1>3, <2>2
<1> QED
  BY <1>1, <1>2, <1>3

\* The types apart from those of the calls
ComposerOK ==
  /\ body \in Text /\ seen \in Text
  /\ visibility \in {"internal", "public"}
  /\ dialog \in 0 .. MaxOpenings /\ openings \in 0 .. MaxOpenings
  /\ open \in BOOLEAN
  /\ faults \in 0 .. MaxFaults

QueryOK ==
  /\ loaded \in BOOLEAN /\ broken \in BOOLEAN /\ stale \in BOOLEAN
  /\ shown \subseteq Asked
  /\ fetch \in [state : {"idle", "asked", "answered"}, read : SUBSET Asked]

LEMMA TypeParts ==
  TypeOK <=> /\ \E n \in 0 .. MaxCalls : calls \in [1 .. n -> Call]
             /\ rows \subseteq Asked
             /\ latest \in [Hooks -> Asked \cup {0}]
             /\ ComposerOK
             /\ QueryOK
  BY DEF TypeOK, ComposerOK, QueryOK

LEMMA QuietTypes ==
  ASSUME TypeOK, Quiet
  PROVE  TypeOK'
<1> USE DeskAssumption
<1>c. UNCHANGED <<calls, rows>> /\ Asked' = Asked
  BY QuietCalls
<1>t. /\ \E n \in 0 .. MaxCalls : calls \in [1 .. n -> Call]
      /\ rows \subseteq Asked
      /\ latest \in [Hooks -> Asked \cup {0}]
      /\ ComposerOK /\ QueryOK
  BY TypeParts
<1>e. Empty \in Text /\ Typed \in Text
  BY DEF Text
<1>n. /\ NewFetch \in [state : {"idle", "asked", "answered"}, read : SUBSET Asked]
      /\ NoFetch \in [state : {"idle", "asked", "answered"}, read : SUBSET Asked]
  BY DEF NewFetch, NoFetch
<1>1. latest' \in [Hooks -> Asked \cup {0}]
  <2>1. latest' = latest \/ latest' = [o \in Hooks |-> 0]
    BY DEF Quiet, Type, ChooseVisibility, PressSendReply, Cancel, ReadTicket, HearTicket,
           FailFetch, Retry, Leave, Return, vars
  <2> QED
    BY <1>t, <2>1
<1>2. ComposerOK'
  <2>1. CASE Type \/ (\E v \in {"internal", "public"} : ChooseVisibility(v))
    BY <1>t, <1>e, <2>1 DEF Type, ChooseVisibility, ComposerOK
  <2>2. CASE PressSendReply \/ Cancel
    BY <1>t, <1>e, <2>2 DEF PressSendReply, Cancel, ComposerOK
  <2>3. CASE FailFetch
    BY <1>t, <2>3 DEF FailFetch, ComposerOK, composer
  <2>4. CASE Leave
    <3>1. open' \in BOOLEAN
      BY <2>4, Zenon DEF Leave
    <3>2. /\ body' = Empty /\ seen' = Empty /\ visibility' = "internal" /\ dialog' = 0
          /\ openings' = openings /\ faults' = faults + 1 /\ faults < MaxFaults
      BY <2>4 DEF Leave
    <3> QED
      BY <1>t, <1>e, <3>1, <3>2 DEF ComposerOK
  <2>5. CASE Return
    <3>1. open' \in BOOLEAN
      BY <2>5, Zenon DEF Return
    <3> QED
      BY <1>t, <2>5, <3>1 DEF Return, ComposerOK, composer
  <2>6. CASE ReadTicket \/ HearTicket \/ Retry \/ UNCHANGED vars
    <3>1. UNCHANGED <<composer, open, faults>>
      BY <2>6 DEF ReadTicket, HearTicket, Retry, vars
    <3> QED
      BY <1>t, <3>1 DEF ComposerOK, composer
  <2> QED
    BY <2>1, <2>2, <2>3, <2>4, <2>5, <2>6 DEF Quiet
<1>3. QueryOK'
  <2>1. CASE \/ Type \/ (\E v \in {"internal", "public"} : ChooseVisibility(v))
             \/ PressSendReply \/ Cancel \/ UNCHANGED vars
    <3>1. UNCHANGED query
      BY <2>1 DEF Type, ChooseVisibility, PressSendReply, Cancel, vars
    <3> QED
      BY <1>c, <1>t, <3>1 DEF QueryOK, query
  <2>2. CASE ReadTicket
    <3> DEFINE read == {c \in rows : calls[c].kind \in Changing}
    <3>1. read \in SUBSET Asked
      BY <1>t
    <3> HIDE DEF read
    <3>2. fetch' = [fetch EXCEPT !.state = "answered", !.read = read]
          /\ UNCHANGED <<loaded, broken, stale, shown>>
      BY <2>2 DEF ReadTicket, read
    <3>3. fetch' \in [state : {"idle", "asked", "answered"}, read : SUBSET Asked]
      BY <1>t, <3>1, <3>2 DEF QueryOK
    <3> QED
      BY <1>c, <1>t, <3>2, <3>3 DEF QueryOK
  <2>3. CASE HearTicket
    <3>1. loaded' \in BOOLEAN /\ broken' \in BOOLEAN /\ stale' \in BOOLEAN
      BY <2>3, Zenon DEF HearTicket
    <3>2. shown' = fetch.read /\ fetch' = NoFetch
      BY <2>3 DEF HearTicket
    <3>3. shown' \subseteq Asked
      BY <1>t, <3>2 DEF QueryOK
    <3> QED
      BY <1>c, <1>n, <3>1, <3>2, <3>3 DEF QueryOK
  <2>4. CASE FailFetch
    <3>1. broken' \in BOOLEAN
      BY <2>4, Zenon DEF FailFetch
    <3>2. fetch' = NoFetch /\ UNCHANGED <<loaded, shown, stale>>
      BY <2>4 DEF FailFetch
    <3> QED
      BY <1>c, <1>t, <1>n, <3>1, <3>2 DEF QueryOK
  <2>5. CASE Leave
    <3>1. stale' \in BOOLEAN
      BY <2>5, Zenon DEF Leave
    <3>2. fetch' = NoFetch /\ UNCHANGED <<loaded, shown, broken>>
      BY <2>5 DEF Leave
    <3> QED
      BY <1>c, <1>t, <1>n, <3>1, <3>2 DEF QueryOK
  <2>6. CASE Retry \/ Return
    <3>1. (fetch' = NewFetch \/ UNCHANGED fetch) /\ UNCHANGED <<loaded, shown, broken, stale>>
      BY <2>6 DEF Retry, Return
    <3> QED
      BY <1>c, <1>t, <1>n, <3>1 DEF QueryOK
  <2> QED
    BY <2>1, <2>2, <2>3, <2>4, <2>5, <2>6 DEF Quiet
<1>4. /\ \E n \in 0 .. MaxCalls : calls' \in [1 .. n -> Call]
      /\ rows' \subseteq Asked'
      /\ latest' \in [Hooks -> Asked' \cup {0}]
  BY <1>c, <1>t, <1>1
<1> QED
  BY ONLY <1>2, <1>3, <1>4 DEF TypeOK, ComposerOK, QueryOK

LEMMA ServesFacts ==
  ASSUME TypeOK, NEW c \in Asked, Serves(c)
  PROVE  /\ Updates(c) /\ Asked' = Asked
         /\ calls[c].server = "running"
         /\ calls'[c].client = calls[c].client
         /\ calls'[c].server = "answered" => c \in rows'
         /\ rows \subseteq rows' /\ rows' \subseteq rows \cup {c}
         /\ UNCHANGED <<latest, composer, open, query, faults>>
<1>1. CASE AskAgain(c)
  <2>1. /\ calls[c].server = "running" /\ calls' = [calls EXCEPT ![c].tries = 1]
        /\ UNCHANGED <<rows, latest, composer, open, query, faults>>
    BY <1>1 DEF AskAgain
  <2>2. /\ Updates(c) /\ Asked' = Asked
        /\ calls'[c].client = calls[c].client /\ calls'[c].server = calls[c].server
    BY <2>1, TriesStep
  <2> QED
    BY <2>1, <2>2
<1>2. CASE Commit(c)
  <2>1. PICK answer \in {"answered", "refused"} :
          /\ calls[c].server = "running"
          /\ calls' = [calls EXCEPT ![c].server = answer, ![c].tries = 0]
          /\ rows' = rows \cup {c}
          /\ UNCHANGED <<latest, composer, open, query, faults>>
    BY <1>2 DEF Commit
  <2>2. /\ Updates(c) /\ Asked' = Asked /\ calls'[c].client = calls[c].client
    BY <2>1, ServerStep
  <2> QED
    BY <2>1, <2>2
<1>3. CASE Refuse(c)
  <2>1. /\ calls[c].server = "running"
        /\ calls' = [calls EXCEPT ![c].server = "refused", ![c].tries = 0]
        /\ UNCHANGED <<rows, latest, composer, open, query, faults>>
    BY <1>3 DEF Refuse
  <2>2. /\ Updates(c) /\ Asked' = Asked /\ calls'[c].client = calls[c].client
        /\ calls'[c].server = "refused"
    BY <2>1, ServerStep
  <2> QED
    BY <2>1, <2>2
<1> QED
  BY <1>1, <1>2, <1>3 DEF Serves

LEMMA FailsFacts ==
  ASSUME TypeOK, NEW c \in Asked, Fails(c)
  PROVE  /\ Updates(c) /\ Asked' = Asked
         /\ calls[c].client = "waiting" /\ calls'[c].client = "failed"
         /\ calls'[c].server = calls[c].server
         /\ UNCHANGED <<rows, latest, composer, open, query>>
         /\ faults' \in 0 .. MaxFaults
<1>1. /\ calls[c].client = "waiting"
      /\ calls' = [calls EXCEPT ![c].client = "failed"]
      /\ UNCHANGED <<rows, latest, composer, open, query>>
  BY DEF Fails, HearError, Break
<1>2. /\ Updates(c) /\ Asked' = Asked
      /\ calls'[c].client = "failed" /\ calls'[c].server = calls[c].server
  BY <1>1, ClientStep
<1>3. faults' = faults \/ (faults' = faults + 1 /\ faults < MaxFaults)
  BY DEF Fails, HearError, Break
<1>4. faults' \in 0 .. MaxFaults
  BY <1>3, DeskAssumption DEF TypeOK
<1> QED
  BY <1>1, <1>2, <1>4

LEMMA SuccessFacts ==
  ASSUME TypeOK, NEW c \in Asked, HearSuccess(c)
  PROVE  /\ Updates(c) /\ Asked' = Asked
         /\ calls[c].client = "waiting" /\ calls'[c].client = "succeeded"
         /\ calls[c].server = "answered" /\ calls'[c].server = "answered"
         /\ Callback(c)
         /\ UNCHANGED <<rows, latest, open, faults, loaded, shown, broken>>
         /\ \/ calls[c].kind \in Changing /\ open /\ fetch' = NewFetch /\ stale' = stale
            \/ calls[c].kind \in Changing /\ ~open /\ stale' = TRUE /\ fetch' = fetch
            \/ calls[c].kind \notin Changing /\ UNCHANGED <<stale, fetch>>
<1>1. /\ calls[c].client = "waiting" /\ calls[c].server = "answered"
      /\ calls' = [calls EXCEPT ![c].client = "succeeded"]
      /\ Callback(c)
      /\ UNCHANGED <<rows, latest, open, faults>>
      /\ IF calls[c].kind \in Changing THEN Invalidate ELSE UNCHANGED query
  BY DEF HearSuccess
<1>2. /\ Updates(c) /\ Asked' = Asked
      /\ calls'[c].client = "succeeded" /\ calls'[c].server = "answered"
  BY <1>1, ClientStep
<1>3. CASE calls[c].kind \in Changing
  <2>1. Invalidate
    BY <1>1, <1>3
  <2>2. /\ UNCHANGED <<loaded, shown, broken>>
        /\ \/ open /\ fetch' = NewFetch /\ stale' = stale
           \/ ~open /\ stale' = TRUE /\ fetch' = fetch
    BY <2>1 DEF Invalidate
  <2> QED
    BY <1>1, <1>2, <1>3, <2>2
<1>4. CASE calls[c].kind \notin Changing
  <2>1. UNCHANGED query
    BY <1>1, <1>4
  <2> QED
    BY <1>1, <1>2, <1>4, <2>1 DEF query
<1> QED
  BY <1>3, <1>4

LEMMA CountedStep ==
  ASSUME TypeOK, Counted, [Next]_vars
  PROVE  Counted'
<1>1. ASSUME NEW c \in Asked, Updates(c), Asked' = Asked PROVE Counted'
  <2>1. \A d \in Asked : calls'[d].kind = calls[d].kind
    BY <1>1 DEF Updates
  <2>2. Messages' = Messages /\ Others' = Others
    BY <1>1, <2>1 DEF Messages, Others
  <2> QED
    BY <2>2 DEF Counted
<1>2. CASE Quiet
  <2>1. Messages' = Messages /\ Others' = Others
    BY <1>2, QuietCalls DEF Messages, Others
  <2> QED
    BY <2>1 DEF Counted
<1>3. ASSUME NEW o \in Hooks, NEW opening \in 0 .. MaxOpenings, Asking(o, opening)
      PROVE  Counted'
  BY <1>3, AskFacts DEF Asking
<1>4. ASSUME NEW c \in Asked, Serves(c) \/ Fails(c) \/ HearSuccess(c) PROVE Counted'
  BY <1>1, <1>4, ServesFacts, FailsFacts, SuccessFacts
<1> QED
  BY <1>2, <1>3, <1>4, NextCases

LEMMA TypeStep ==
  ASSUME IInv, [Next]_vars
  PROVE  TypeOK'
<1> USE DeskAssumption
<1>i. TypeOK /\ Counted
  BY DEF IInv
<1>t. /\ \E n \in 0 .. MaxCalls : calls \in [1 .. n -> Call]
      /\ rows \subseteq Asked
      /\ latest \in [Hooks -> Asked \cup {0}]
      /\ ComposerOK /\ QueryOK
  BY <1>i, TypeParts
<1>1. ASSUME NEW o \in Hooks, NEW opening \in 0 .. MaxOpenings, Asking(o, opening)
      PROVE  TypeOK'
  <2>1. PICK c \in Calls :
          /\ Asked' = Asked \cup {c}
          /\ calls' \in [1 .. c -> Call] /\ c \in 0 .. MaxCalls
          /\ latest' = [latest EXCEPT ![o] = c]
    BY <1>i, <1>1, AskFacts DEF Asking
  <2>2. UNCHANGED <<rows, composer, open, query, faults>>
    BY <1>1 DEF Asking
  <2>3. ComposerOK'
    BY <1>t, <2>2 DEF ComposerOK, composer
  <2>4. QueryOK'
    <3>1. SUBSET Asked \subseteq SUBSET Asked'
      BY <2>1
    <3>2. fetch' \in [state : {"idle", "asked", "answered"}, read : SUBSET Asked']
      BY <1>t, <2>2, <3>1 DEF QueryOK, query
    <3> QED
      BY <1>t, <2>1, <2>2, <3>2 DEF QueryOK, query
  <2>5. latest' \in [Hooks -> Asked' \cup {0}] /\ rows' \subseteq Asked'
    BY <1>t, <2>1, <2>2
  <2>6. \E n \in 0 .. MaxCalls : calls' \in [1 .. n -> Call]
    BY <2>1
  <2> QED
    BY ONLY <2>3, <2>4, <2>5, <2>6 DEF TypeOK, ComposerOK, QueryOK
<1>2. ASSUME NEW c \in Asked, Updates(c), Asked' = Asked, UNCHANGED latest,
             rows' \subseteq Asked, ComposerOK', QueryOK'
      PROVE  TypeOK'
  <2>1. \E n \in 0 .. MaxCalls : calls' \in [1 .. n -> Call]
    <3>1. /\ Asked = 1 .. Len(calls) /\ Len(calls) \in Nat /\ Len(calls) <= MaxCalls
          /\ MaxCalls \in Nat
      BY <1>i, CallsFacts DEF MaxCalls
    <3>2. calls' \in [1 .. Len(calls) -> Call] /\ Len(calls) \in 0 .. MaxCalls
      BY <1>2, <3>1 DEF Updates
    <3> QED
      BY <3>2
  <2>2. latest' \in [Hooks -> Asked' \cup {0}] /\ rows' \subseteq Asked'
    BY <1>t, <1>2
  <2> QED
    BY ONLY <1>2, <2>1, <2>2 DEF TypeOK, ComposerOK, QueryOK
<1>3. ASSUME NEW c \in Asked, Serves(c) \/ Fails(c) PROVE TypeOK'
  <2>1. /\ Updates(c) /\ Asked' = Asked /\ UNCHANGED <<latest, composer, open, query>>
        /\ rows' \subseteq Asked /\ faults' \in 0 .. MaxFaults
    <3>1. CASE Serves(c)
      BY <1>i, <1>t, <3>1, ServesFacts DEF ComposerOK
    <3>2. CASE Fails(c)
      BY <1>i, <1>t, <3>2, FailsFacts
    <3> QED
      BY <1>3, <3>1, <3>2
  <2>2. ComposerOK'
    BY <1>t, <2>1 DEF ComposerOK, composer
  <2>3. QueryOK'
    BY <1>t, <2>1 DEF QueryOK, query
  <2> QED
    BY <1>2, <2>1, <2>2, <2>3
<1>4. ASSUME NEW c \in Asked, HearSuccess(c) PROVE TypeOK'
  <2>1. /\ Updates(c) /\ Asked' = Asked /\ Callback(c)
        /\ UNCHANGED <<rows, latest, open, faults, loaded, shown, broken>>
        /\ fetch' = NewFetch \/ fetch' = fetch
        /\ stale' = TRUE \/ stale' = stale
    BY <1>i, <1>4, SuccessFacts
  <2>2. ComposerOK'
    <3>1. c \in Text /\ Empty \in Text
      BY <1>i, CallsFacts DEF Text
    <3>2. /\ body' \in Text /\ seen' \in Text /\ visibility' \in {"internal", "public"}
          /\ dialog' \in 0 .. MaxOpenings /\ openings' \in 0 .. MaxOpenings
      BY <1>t, <2>1, <3>1, CallbackCases DEF ComposerOK, composer
    <3> QED
      BY <1>t, <2>1, <3>2 DEF ComposerOK
  <2>3. QueryOK'
    <3>1. stale' \in BOOLEAN
      BY <1>t, <2>1, Zenon DEF QueryOK
    <3>2. NewFetch \in [state : {"idle", "asked", "answered"}, read : SUBSET Asked]
      BY DEF NewFetch, NoFetch
    <3> QED
      BY <1>t, <2>1, <3>1, <3>2 DEF QueryOK
  <2> QED
    BY <1>2, <1>t, <2>1, <2>2, <2>3
<1> QED
  BY <1>i, <1>1, <1>3, <1>4, NextCases, QuietTypes

------------------------------------------------------------------------------
(* What is confirmed and what is sent.                                     *)

LEMMA TruthfulStep ==
  ASSUME IInv, [Next]_vars
  PROVE  Truthful'
<1>i. TypeOK /\ Counted /\ Truthful
  BY DEF IInv
<1>1. CASE Quiet
  BY <1>i, <1>1, QuietCalls DEF Truthful
<1>2. ASSUME NEW o \in Hooks, NEW opening \in 0 .. MaxOpenings, Asking(o, opening)
      PROVE  Truthful'
  <2>1. PICK c \in Calls :
          /\ Asked' = Asked \cup {c}
          /\ \A d \in Asked : calls'[d] = calls[d]
          /\ calls'[c].server = "running" /\ calls'[c].client = "waiting"
    BY <1>i, <1>2, AskFacts DEF Asking
  <2>2. rows' = rows
    BY <1>2 DEF Asking
  <2> QED
    BY <1>i, <2>1, <2>2 DEF Truthful
<1>3. ASSUME NEW c \in Asked, Updates(c), Asked' = Asked, rows \subseteq rows',
             calls'[c].client = "succeeded" => calls'[c].server = "answered",
             calls'[c].server = "answered" => c \in rows'
      PROVE  Truthful'
  BY <1>i, <1>3 DEF Truthful, Updates
<1>4. ASSUME NEW c \in Asked, Serves(c) PROVE Truthful'
  <2>1. /\ Updates(c) /\ Asked' = Asked /\ rows \subseteq rows'
        /\ calls[c].server = "running" /\ calls'[c].client = calls[c].client
        /\ calls'[c].server = "answered" => c \in rows'
    BY <1>i, <1>4, ServesFacts
  <2>2. calls[c].client # "succeeded"
    BY <1>i, <2>1 DEF Truthful
  <2> QED
    BY <1>3, <2>1, <2>2
<1>5. ASSUME NEW c \in Asked, Fails(c) PROVE Truthful'
  <2>1. /\ Updates(c) /\ Asked' = Asked /\ rows' = rows
        /\ calls'[c].client = "failed" /\ calls'[c].server = calls[c].server
    BY <1>i, <1>5, FailsFacts
  <2> QED
    BY <1>i, <1>3, <2>1 DEF Truthful
<1>6. ASSUME NEW c \in Asked, HearSuccess(c) PROVE Truthful'
  <2>1. /\ Updates(c) /\ Asked' = Asked /\ rows' = rows
        /\ calls[c].server = "answered" /\ calls'[c].server = "answered"
    BY <1>i, <1>6, SuccessFacts
  <2> QED
    BY <1>i, <1>3, <2>1 DEF Truthful
<1> QED
  BY <1>i, <1>1, <1>2, <1>4, <1>5, <1>6, NextCases

\* A quiet step opens the dialog anew or closes it or leaves it.
LEMMA QuietDialog ==
  ASSUME Quiet
  PROVE  \/ /\ dialog = 0 /\ openings' = openings + 1 /\ dialog' = openings + 1
            /\ seen' = body /\ body' = body
         \/ dialog' = 0 /\ openings' = openings
         \/ /\ UNCHANGED <<dialog, openings, seen, latest>>
            /\ body' = body \/ dialog = 0
<1>1. CASE Type \/ (\E v \in {"internal", "public"} : ChooseVisibility(v))
  BY <1>1 DEF Type, ChooseVisibility
<1>2. CASE PressSendReply \/ Cancel \/ Leave
  BY <1>2 DEF PressSendReply, Cancel, Leave
<1>3. CASE ReadTicket \/ HearTicket \/ FailFetch \/ Retry \/ Return \/ UNCHANGED vars
  <2>1. UNCHANGED <<composer, latest>>
    BY <1>3 DEF ReadTicket, HearTicket, FailFetch, Retry, Return, vars
  <2> QED
    BY <2>1 DEF composer
<1> QED
  BY <1>1, <1>2, <1>3 DEF Quiet

LEMMA NumberedStep ==
  ASSUME IInv, [Next]_vars, TypeOK'
  PROVE  Numbered'
<1> USE DeskAssumption
<1>i. TypeOK /\ Counted /\ Numbered
  BY DEF IInv
<1>n. /\ dialog \in Nat /\ openings \in Nat
      /\ \A c \in Asked : calls[c].opening \in Nat
  <2>1. \A c \in Asked : calls[c].opening \in 0 .. MaxOpenings
    BY <1>i, CallsFacts, FieldTypes
  <2> QED
    BY <1>i, <2>1 DEF TypeOK
<1>1. CASE Quiet
  <2>1. (openings' = openings \/ openings' = openings + 1) /\ dialog' <= openings'
    BY <1>1, <1>n, <1>i, QuietDialog DEF Numbered
  <2>2. \A c \in Asked : calls[c].opening <= openings'
    BY <1>i, <1>n, <2>1 DEF Numbered
  <2> QED
    BY <1>i, <1>1, <2>1, <2>2, QuietCalls DEF Numbered
<1>2. ASSUME NEW o \in Hooks, NEW opening \in 0 .. MaxOpenings, Asking(o, opening)
      PROVE  Numbered'
  <2>1. PICK c \in Calls :
          /\ Asked' = Asked \cup {c}
          /\ \A d \in Asked : calls'[d] = calls[d]
          /\ calls'[c].kind = o /\ calls'[c].opening = opening
    BY <1>i, <1>2, AskFacts DEF Asking
  <2>2. /\ opening = dialog /\ (opening # 0 => o = "message")
        /\ UNCHANGED <<dialog, openings>>
    BY <1>2 DEF Asking, composer
  <2> QED
    BY <1>i, <2>1, <2>2 DEF Numbered
<1>3. ASSUME NEW c \in Asked, Updates(c), Asked' = Asked, openings' = openings,
             dialog' \in {0, dialog}
      PROVE  Numbered'
  <2>1. dialog' <= openings'
    BY <1>i, <1>n, <1>3 DEF Numbered
  <2> QED
    BY <1>i, <1>3, <2>1 DEF Numbered, Updates
<1>4. ASSUME NEW c \in Asked, Serves(c) \/ Fails(c) PROVE Numbered'
  <2>1. Updates(c) /\ Asked' = Asked /\ UNCHANGED <<dialog, openings>>
    BY <1>i, <1>4, ServesFacts, FailsFacts DEF composer
  <2> QED
    BY <1>3, <2>1
<1>5. ASSUME NEW c \in Asked, HearSuccess(c) PROVE Numbered'
  <2>1. Updates(c) /\ Asked' = Asked /\ Callback(c)
    BY <1>i, <1>5, SuccessFacts
  <2>2. openings' = openings /\ dialog' \in {0, dialog}
    BY <2>1, CallbackCases DEF composer
  <2> QED
    BY <1>3, <2>1, <2>2
<1> QED
  BY <1>i, <1>1, <1>2, <1>4, <1>5, NextCases

LEMMA DecidingStep ==
  ASSUME IInv, [Next]_vars
  PROVE  Deciding'
<1> USE DeskAssumption
<1>i. TypeOK /\ Counted /\ Numbered /\ Deciding
  BY DEF IInv
<1>m. "message" \in Hooks /\ latest \in [Hooks -> Asked \cup {0}]
  BY <1>i DEF TypeOK
<1>1. CASE Quiet
  <2>1. CASE openings' = openings + 1 /\ dialog' = openings + 1
    <3>1. \A c \in Asked : calls[c].opening \in Nat /\ calls[c].opening <= openings
      BY <1>i, CallsFacts, FieldTypes DEF Numbered
    <3>2. \A c \in Asked : calls[c].opening # dialog'
      BY <1>i, <2>1, <3>1 DEF TypeOK
    <3> QED
      BY <1>1, <3>2, QuietCalls DEF Deciding
  <2>2. CASE dialog' = 0
    BY <2>2 DEF Deciding
  <2>3. CASE UNCHANGED <<dialog, latest>>
    BY <1>i, <1>1, <2>3, QuietCalls DEF Deciding
  <2> QED
    BY <1>1, <2>1, <2>2, <2>3, QuietDialog
<1>2. ASSUME NEW o \in Hooks, NEW opening \in 0 .. MaxOpenings, Asking(o, opening)
      PROVE  Deciding'
  <2>1. PICK c \in Calls :
          /\ Asked' = Asked \cup {c}
          /\ \A d \in Asked : calls'[d] = calls[d]
          /\ calls'[c].client = "waiting"
          /\ latest' = [latest EXCEPT ![o] = c]
    BY <1>i, <1>2, AskFacts DEF Asking
  <2>2. /\ opening = dialog /\ (opening # 0 => o = "message" /\ ~Pending("message"))
        /\ dialog' = dialog
    BY <1>2 DEF Asking, composer
  <2>3. CASE dialog = 0
    BY <2>2, <2>3 DEF Deciding
  <2>4. CASE dialog # 0
    <3>1. latest'["message"] = c
      BY <1>m, <2>1, <2>2, <2>4
    <3>2. ASSUME NEW d \in Asked, calls[d].opening = dialog, calls[d].client # "failed"
          PROVE  FALSE
      <4>1. calls[d].client = "waiting" /\ latest["message"] = d
        BY <1>i, <2>4, <3>2 DEF Deciding
      <4>2. d # 0
        BY <1>i, CallsFacts
      <4> QED
        BY <2>2, <2>4, <4>1, <4>2 DEF Pending
    <3> QED
      BY <2>1, <2>2, <3>1, <3>2 DEF Deciding
  <2> QED
    BY <2>3, <2>4
<1>3. ASSUME NEW c \in Asked, Serves(c) \/ Fails(c) PROVE Deciding'
  <2>1. /\ Updates(c) /\ Asked' = Asked /\ UNCHANGED <<dialog, latest>>
        /\ calls'[c].client = calls[c].client \/ calls'[c].client = "failed"
    BY <1>i, <1>3, ServesFacts, FailsFacts DEF composer
  <2> QED
    BY <1>i, <2>1 DEF Deciding, Updates
<1>4. ASSUME NEW c \in Asked, HearSuccess(c) PROVE Deciding'
  <2>1. /\ Updates(c) /\ Asked' = Asked /\ Callback(c) /\ latest' = latest
        /\ calls[c].client = "waiting"
    BY <1>i, <1>4, SuccessFacts
  <2>2. dialog' = 0 \/ (dialog' = dialog /\ calls[c].opening # dialog)
        \/ (dialog' = dialog /\ dialog = 0)
    <3>1. dialog # 0 /\ calls[c].opening = dialog =>
            calls[c].kind = "message" /\ latest["message"] = c
      BY <1>i, <2>1 DEF Deciding, Numbered
    <3> QED
      BY <2>1, <3>1, CallbackCases DEF composer
  <2> QED
    BY <1>i, <2>1, <2>2 DEF Deciding, Updates
<1> QED
  BY <1>i, <1>1, <1>2, <1>3, <1>4, NextCases

LEMMA OneEachStep ==
  ASSUME IInv, [Next]_vars
  PROVE  OneEach'
<1>i. TypeOK /\ Counted /\ Deciding /\ OneEach
  BY DEF IInv
<1>n. \A d \in Asked : d \in Nat \ {0}
  BY <1>i, CallsFacts
<1>1. CASE Quiet
  BY <1>i, <1>1, QuietCalls DEF OneEach
<1>2. ASSUME NEW o \in Hooks, NEW opening \in 0 .. MaxOpenings, Asking(o, opening)
      PROVE  OneEach'
  <2>1. PICK c \in Calls :
          /\ Asked' = Asked \cup {c} /\ c \notin Asked /\ \A d \in Asked : d < c
          /\ \A d \in Asked : calls'[d] = calls[d]
          /\ calls'[c].opening = opening
    BY <1>i, <1>2, AskFacts DEF Asking
  <2>2. opening = dialog /\ (opening # 0 => ~Pending("message"))
    BY <1>2 DEF Asking
  <2>3. ASSUME NEW d \in Asked, opening # 0, calls[d].opening = opening
        PROVE  calls[d].client = "failed"
    BY <1>i, <1>n, <2>2, <2>3 DEF Deciding, Pending
  <2>4. c \in Nat
    BY DeskAssumption DEF Calls
  <2>5. \A d \in Asked' : ~(c < d)
    BY <1>n, <2>1, <2>4
  <2> QED
    BY <1>i, <2>1, <2>3, <2>5 DEF OneEach
<1>3. ASSUME NEW c \in Asked, Updates(c), Asked' = Asked,
             calls[c].client = "failed" => calls'[c].client = "failed"
      PROVE  OneEach'
  <2>1. \A d \in Asked : /\ calls'[d].opening = calls[d].opening
                         /\ calls[d].client = "failed" => calls'[d].client = "failed"
    BY <1>3 DEF Updates
  <2> QED
    BY <1>i, <1>3, <2>1 DEF OneEach
<1>4. ASSUME NEW c \in Asked, Serves(c) \/ Fails(c) \/ HearSuccess(c) PROVE OneEach'
  <2>1. CASE Serves(c)
    BY <1>i, <1>3, <2>1, ServesFacts
  <2>2. CASE Fails(c)
    BY <1>i, <1>3, <2>2, FailsFacts
  <2>3. CASE HearSuccess(c)
    BY <1>i, <1>3, <2>3, SuccessFacts
  <2> QED
    BY <1>4, <2>1, <2>2, <2>3
<1> QED
  BY <1>i, <1>1, <1>2, <1>4, NextCases

\* A success stays one.
LEMMA SuccessStays ==
  ASSUME TypeOK, Counted, [Next]_vars
  PROVE  \A d \in Asked :
           /\ d \in Asked' /\ calls'[d].kind = calls[d].kind
           /\ calls[d].client = "succeeded" => calls'[d].client = "succeeded"
<1>1. CASE Quiet
  BY <1>1, QuietCalls
<1>2. ASSUME NEW o \in Hooks, NEW opening \in 0 .. MaxOpenings, Asking(o, opening)
      PROVE  /\ Asked \subseteq Asked'
             /\ \A d \in Asked : calls'[d] = calls[d]
  BY <1>2, AskFacts DEF Asking
<1>3. ASSUME NEW c \in Asked, Serves(c) \/ Fails(c) \/ HearSuccess(c)
      PROVE  /\ Updates(c) /\ Asked' = Asked
             /\ calls[c].client = "succeeded" => calls'[c].client = "succeeded"
  BY <1>3, ServesFacts, FailsFacts, SuccessFacts
<1>4. CASE \E c \in Asked : Serves(c) \/ Fails(c) \/ HearSuccess(c)
  BY <1>3, <1>4 DEF Updates
<1> QED
  BY <1>1, <1>2, <1>4, NextCases

LEMMA CoveredStep ==
  ASSUME IInv, [Next]_vars
  PROVE  Covered'
<1>i. TypeOK /\ Counted /\ Covered
  BY DEF IInv
<1>s. \A d : Suggested(d) => Suggested(d)'
  BY <1>i, SuccessStays DEF Suggested
<1>k. ASSUME UNCHANGED <<dialog, seen>>, body' = body \/ dialog = 0 PROVE Covered'
  <2>1. CASE dialog = 0
    BY <1>k, <2>1 DEF Covered
  <2>2. CASE body' = body
    <3>1. Suggested(body) => Suggested(body)'
      BY <1>s, <2>2 DEF Suggested
    <3> QED
      BY <1>i, <1>k, <2>2, <3>1 DEF Covered
  <2> QED
    BY <1>k, <2>1, <2>2
<1>1. CASE Quiet
  <2>1. CASE dialog' = 0
    BY <2>1 DEF Covered
  <2>2. CASE seen' = body /\ body' = body
    BY <2>2 DEF Covered
  <2>3. CASE UNCHANGED <<dialog, seen>> /\ (body' = body \/ dialog = 0)
    BY <1>k, <2>3
  <2> QED
    BY <1>1, <2>1, <2>2, <2>3, QuietDialog
<1>2. ASSUME NEW o \in Hooks, NEW opening \in 0 .. MaxOpenings, Asking(o, opening)
      PROVE  Covered'
  BY <1>k, <1>2 DEF Asking, composer
<1>3. ASSUME NEW c \in Asked, Serves(c) \/ Fails(c) PROVE Covered'
  <2>1. UNCHANGED composer
    BY <1>i, <1>3, ServesFacts, FailsFacts
  <2> QED
    BY <1>k, <2>1 DEF composer
<1>4. ASSUME NEW c \in Asked, HearSuccess(c) PROVE Covered'
  <2>1. /\ Updates(c) /\ Asked' = Asked /\ Callback(c)
        /\ calls'[c].client = "succeeded"
    BY <1>i, <1>4, SuccessFacts
  <2>2. CASE dialog' = 0
    BY <2>2 DEF Covered
  <2>3. CASE calls[c].kind = "suggest" /\ body' = c
    <3>1. Suggested(body)'
      BY <2>1, <2>3 DEF Suggested, Updates
    <3> QED
      BY <3>1 DEF Covered
  <2>4. CASE UNCHANGED composer
    BY <1>k, <2>4 DEF composer
  <2> QED
    BY <2>1, <2>2, <2>3, <2>4, CallbackCases
<1> QED
  BY <1>i, <1>1, <1>2, <1>3, <1>4, NextCases

------------------------------------------------------------------------------
(* What the page shows.                                                    *)

LEMMA CaughtUp ==
  PageCatchesUp <=>
    (fetch.state = "idle" /\ loaded /\ ~stale /\ ~broken => Heard \subseteq shown)
  BY DEF PageCatchesUp, Heard

LEMMA FetchingStep ==
  ASSUME IInv, [Next]_vars
  PROVE  Fetching' /\ PageCatchesUp'
<1>i. /\ TypeOK /\ Counted /\ Truthful /\ Fetching
      /\ fetch.state = "idle" /\ loaded /\ ~stale /\ ~broken => Heard \subseteq shown
  BY CaughtUp DEF IInv
<1>f. /\ NewFetch.state = "asked" /\ NoFetch.state = "idle"
      /\ fetch.state \in {"idle", "asked", "answered"}
  BY <1>i DEF NewFetch, NoFetch, TypeOK
<1>q. ASSUME (fetch'.state = "idle" /\ loaded' /\ ~stale' /\ ~broken' =>
                Heard' \subseteq shown')
      PROVE  PageCatchesUp'
  BY <1>q DEF PageCatchesUp, Heard
<1>k. ASSUME UNCHANGED <<open, loaded, shown, broken, stale, fetch>>,
             Heard' \subseteq Heard
      PROVE  Fetching' /\ PageCatchesUp'
  BY <1>i, <1>k, <1>q DEF Fetching
<1>1. CASE Quiet
  <2>h. Heard' = Heard
    BY <1>1, QuietCalls DEF Heard
  <2>1. CASE \/ Type \/ (\E v \in {"internal", "public"} : ChooseVisibility(v))
             \/ PressSendReply \/ Cancel \/ UNCHANGED vars
    <3>1. UNCHANGED <<open, query>>
      BY <2>1 DEF Type, ChooseVisibility, PressSendReply, Cancel, vars
    <3> QED
      BY <1>k, <2>h, <3>1 DEF query
  <2>2. CASE ReadTicket
    <3>1. /\ fetch.state = "asked" /\ open' = open
          /\ fetch' = [fetch EXCEPT !.state = "answered",
                                    !.read = {c \in rows : calls[c].kind \in Changing}]
      BY <2>2 DEF ReadTicket
    <3>2. /\ fetch'.state = "answered"
          /\ fetch'.read = {c \in rows : calls[c].kind \in Changing}
      BY <1>i, <3>1 DEF TypeOK
    <3>3. Heard \subseteq {c \in rows : calls[c].kind \in Changing}
      BY <1>i DEF Heard, Truthful
    <3>4. open
      BY <1>i, <3>1 DEF Fetching
    <3> QED
      BY <1>q, <2>h, <3>1, <3>2, <3>3, <3>4 DEF Fetching
  <2>3. CASE HearTicket
    <3>1. /\ fetch.state = "answered" /\ shown' = fetch.read /\ fetch' = NoFetch
      BY <2>3 DEF HearTicket
    <3> QED
      BY <1>i, <1>f, <1>q, <2>h, <3>1 DEF Fetching
  <2>4. CASE FailFetch
    <3>1. fetch' = NoFetch /\ broken'
      BY <2>4 DEF FailFetch
    <3> QED
      BY <1>f, <1>q, <3>1 DEF Fetching
  <2>5. CASE Retry \/ (Return /\ fetch' = NewFetch)
    <3>1. fetch' = NewFetch /\ open'
      BY <2>5 DEF Retry, Return
    <3> QED
      BY <1>f, <1>q, <3>1 DEF Fetching
  <2>6. CASE Return /\ ~(fetch' = NewFetch)
    <3>1. open' /\ UNCHANGED <<fetch, loaded, shown, broken, stale>>
      BY <2>6 DEF Return
    <3> QED
      BY <1>i, <1>q, <2>h, <3>1 DEF Fetching
  <2>7. CASE Leave
    <3>1. /\ fetch' = NoFetch /\ (stale' <=> stale \/ fetch.state # "idle")
          /\ UNCHANGED <<loaded, shown, broken>>
      BY <2>7 DEF Leave
    <3> QED
      BY <1>i, <1>f, <1>q, <2>h, <3>1 DEF Fetching
  <2> QED
    BY <1>1, <2>1, <2>2, <2>3, <2>4, <2>5, <2>6, <2>7 DEF Quiet
<1>2. ASSUME NEW o \in Hooks, NEW opening \in 0 .. MaxOpenings, Asking(o, opening)
      PROVE  Fetching' /\ PageCatchesUp'
  <2>1. PICK c \in Calls :
          /\ Asked' = Asked \cup {c}
          /\ \A d \in Asked : calls'[d] = calls[d]
          /\ calls'[c].client = "waiting"
    BY <1>i, <1>2, AskFacts DEF Asking
  <2>2. Heard' \subseteq Heard
    BY <2>1 DEF Heard
  <2>3. UNCHANGED <<open, query>>
    BY <1>2 DEF Asking
  <2> QED
    BY <1>k, <2>2, <2>3 DEF query
<1>3. ASSUME NEW c \in Asked, Serves(c) \/ Fails(c) PROVE Fetching' /\ PageCatchesUp'
  <2>1. /\ Updates(c) /\ Asked' = Asked /\ UNCHANGED <<open, query>>
        /\ calls'[c].client = calls[c].client \/ calls'[c].client = "failed"
    BY <1>i, <1>3, ServesFacts, FailsFacts
  <2>2. Heard' \subseteq Heard
    BY <2>1 DEF Heard, Updates
  <2> QED
    BY <1>k, <2>1, <2>2 DEF query
<1>4. ASSUME NEW c \in Asked, HearSuccess(c) PROVE Fetching' /\ PageCatchesUp'
  <2>1. /\ Updates(c) /\ Asked' = Asked
        /\ UNCHANGED <<open, loaded, shown, broken>>
        /\ \/ calls[c].kind \in Changing /\ open /\ fetch' = NewFetch /\ stale' = stale
           \/ calls[c].kind \in Changing /\ ~open /\ stale' = TRUE /\ fetch' = fetch
           \/ calls[c].kind \notin Changing /\ UNCHANGED <<stale, fetch>>
    BY <1>i, <1>4, SuccessFacts
  <2>2. CASE calls[c].kind \notin Changing
    <3>1. Heard' \subseteq Heard
      BY <2>1, <2>2 DEF Heard, Updates
    <3> QED
      BY <1>k, <2>1, <2>2, <3>1
  <2>3. CASE open /\ fetch' = NewFetch
    BY <1>f, <1>q, <2>1, <2>3 DEF Fetching
  <2>4. CASE ~open /\ stale' = TRUE /\ fetch' = fetch
    BY <1>i, <1>f, <1>q, <2>1, <2>4 DEF Fetching
  <2> QED
    BY <2>1, <2>2, <2>3, <2>4
<1> QED
  BY <1>i, <1>1, <1>2, <1>3, <1>4, NextCases

LEMMA Invariance == Spec => []IInv
<1>1. IInv /\ [Next]_vars => IInv'
  <2> SUFFICES ASSUME IInv, [Next]_vars PROVE IInv'
    OBVIOUS
  <2>1. TypeOK'
    BY TypeStep
  <2>2. Counted'
    BY CountedStep DEF IInv
  <2> QED
    BY <2>1, <2>2, TruthfulStep, NumberedStep, DecidingStep, OneEachStep, CoveredStep,
       FetchingStep DEF IInv
<1> QED
  BY <1>1, InitIInv, PTL DEF Spec

\* The calls, the composer and the query have their types: the hooks number no more
\* calls than there is room for (TicketDetailPage, ticketApi).
THEOREM TypeCorrect == Spec => []TypeOK
<1>1. IInv => TypeOK
  BY DEF IInv
<1> QED
  BY <1>1, Invariance, PTL

\* What was confirmed once is on the ticket once, unless the page was told that it had
\* failed (onConfirm of the dialog, add_message).
THEOREM ConfirmedOnce == Spec => []RepliesOnce
<1>1. IInv => RepliesOnce
  <2> SUFFICES ASSUME IInv PROVE RepliesOnce
    OBVIOUS
  <2>1. rows \subseteq Asked
    BY DEF IInv, TypeOK
  <2> QED
    BY <2>1 DEF IInv, OneEach, RepliesOnce
<1> QED
  BY <1>1, Invariance, PTL

\* A page with no fetch under way or due shows every message and change it was told of
\* (onSuccess of the hooks, the query of the ticket).
THEOREM NeverBehind == Spec => []PageCatchesUp
<1>1. IInv => PageCatchesUp
  BY DEF IInv
<1> QED
  BY <1>1, Invariance, PTL

\* Where no drafts are asked for, the text that goes out as a reply is the one that was in
\* the composer when the dialog opened: only a draft that arrives late changes it
\* (handleSuggestReply, submitMessage, ConfirmDialog).
THEOREM ConfirmedTextUnlessDrafted ==
  ASSUME "suggest" \notin Hooks
  PROVE  Spec => ReplyIsConfirmedText
<1> DEFINE Sent == Len(calls') > Len(calls) /\ calls'[Len(calls')].opening # 0
<1>1. ASSUME IInv, [Next]_vars, Sent PROVE body = seen
  <2>i. TypeOK /\ Counted /\ Covered
    BY <1>1 DEF IInv
  <2>1. Len(calls) \in Nat /\ Asked = 1 .. Len(calls) /\ calls \in [Asked -> Call]
    BY <2>i, CallsFacts
  <2>2. CASE Quiet
    BY <1>1, <2>1, <2>2, QuietCalls
  <2>3. ASSUME NEW c \in Asked, Serves(c) \/ Fails(c) \/ HearSuccess(c) PROVE FALSE
    <3>1. Asked' = Asked /\ Updates(c)
      BY <2>i, <2>3, ServesFacts, FailsFacts, SuccessFacts
    <3>2. calls' \in [1 .. Len(calls) -> Call]
      BY <2>1, <3>1 DEF Updates
    <3>3. Len(calls') = Len(calls)
      BY <2>1, <3>2
    <3> QED
      BY <1>1, <2>1, <3>3
  <2>4. ASSUME NEW o \in Hooks, NEW opening \in 0 .. MaxOpenings, Asking(o, opening)
        PROVE  body = seen
    <3>1. PICK c \in Calls : Len(calls') = c /\ calls'[c].opening = opening
      BY <2>i, <2>4, AskFacts DEF Asking
    <3>2. dialog # 0
      BY <1>1, <2>4, <3>1 DEF Asking
    <3>3. ~Suggested(body)
      <4>1. ASSUME NEW d \in Asked PROVE calls[d].kind # "suggest"
        BY <2>1, FieldTypes
      <4> QED
        BY <4>1 DEF Suggested
    <3> QED
      BY <2>i, <3>2, <3>3 DEF Covered
  <2> QED
    BY <1>1, <2>i, <2>2, <2>3, <2>4, NextCases
<1>2. IInv /\ [Next]_vars => [Sent => body = seen]_vars
  BY <1>1
<1> QED
  BY <1>2, Invariance, PTL DEF Spec, ReplyIsConfirmedText

=============================================================================
