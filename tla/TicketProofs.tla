----------------------------- MODULE TicketProofs -----------------------------
(***************************************************************************)
(* What overlapping calls on a ticket cannot break, and that calls one at  *)
(* a time follow the status machine, for any number of tickets, users and  *)
(* calls.                                                                  *)
(***************************************************************************)
EXTENDS TicketWorkflow, TLAPS

\* A call about to commit has a row in its session, its ticket is still there,
\* and the status it sets was checked against the row it loaded.
Calls ==
  \A r \in Requests : ticket[r] # Null =>
    /\ patch[r] \in Patch
    /\ loaded[r] \in Row
    /\ tickets[ticket[r]] # Null
    /\ patch[r].status \notin {Keep, Null} =>
         Legal(loaded[r].status, patch[r].status)

TInv == TypeOK /\ Calls

LEMMA InitTInv == Init => TInv
BY DEF Init, TInv, TypeOK, Calls

\* The row a commit leaves is a row, unless the database refuses it.
LEMMA FlushedRow ==
  ASSUME TInv, NEW r \in Requests, ticket[r] # Null, ~Refused(r)
  PROVE  /\ ticket[r] \in Tickets
         /\ tickets[ticket[r]] \in Row
         /\ Flushed(r, tickets[ticket[r]]) \in Row
<1>1. /\ ticket[r] \in Tickets
      /\ tickets[ticket[r]] \in Row
      /\ loaded[r] \in Row /\ patch[r] \in Patch
  BY DEF TInv, TypeOK, Calls
<1>2. Assigned(loaded[r], patch[r]) \in Row
  BY <1>1, NamesAssumption DEF Refused, Assigned, Row, Patch
<1> QED
  BY <1>1, <1>2 DEF Flushed, Row

LEMMA NextTInv == TInv /\ [Next]_vars => TInv'
<1> SUFFICES ASSUME TInv, [Next]_vars PROVE TInv'
  OBVIOUS
<1> USE DEF TInv
<1>1. ASSUME NEW t \in Tickets, Create(t) PROVE TInv'
  <2>1. TypeOK'
    BY <1>1 DEF Create, TypeOK
  <2>2. \A u \in Tickets : tickets[u] # Null => tickets'[u] # Null
    BY <1>1, NamesAssumption DEF Create, TypeOK
  <2>3. Calls'
    BY <1>1, <2>2 DEF Create, TypeOK, Calls
  <2> QED
    BY <2>1, <2>3
<1>2. ASSUME NEW r \in Requests, NEW t \in Tickets, NEW p \in Patch,
             Load(r, t, p)
      PROVE  TInv'
  <2>1. TypeOK'
    BY <1>2 DEF Load, TypeOK
  <2>2. Calls'
    BY <1>2 DEF Load, TypeOK, Calls
  <2> QED
    BY <2>1, <2>2
<1>3. ASSUME NEW r \in Requests, Commit(r) PROVE TInv'
  <2>1. tickets' \in [Tickets -> Row \cup {Null}]
    BY <1>3, FlushedRow DEF Commit, TypeOK
  <2>2. TypeOK'
    BY <1>3, <2>1 DEF Commit, End, TypeOK
  <2>3. \A u \in Tickets : tickets[u] # Null => tickets'[u] # Null
    BY <1>3, FlushedRow, NamesAssumption DEF Commit, TypeOK
  <2>4. Calls'
    BY <1>3, <2>3 DEF Commit, End, TypeOK, Calls
  <2> QED
    BY <2>2, <2>4
<1>4. CASE UNCHANGED vars
  BY <1>4 DEF vars, TypeOK, Calls
<1> QED
  BY <1>1, <1>2, <1>3, <1>4 DEF Next

LEMMA TInvariance == Spec => []TInv
BY InitTInv, NextTInv, PTL DEF Spec

\* Rows and calls keep their types; in particular no ticket is ever assigned
\* to a user without a row.
THEOREM TicketTypes == Spec => []TypeOK
BY TInvariance, PTL DEF TInv

------------------------------------------------------------------------------

\* A step changes at most one ticket that is there, by the flush of one call.
LEMMA ChangedByCommit ==
  ASSUME TInv, Next, NEW t \in Tickets, tickets[t] # Null, tickets'[t] # tickets[t]
  PROVE  \E r \in Requests : /\ ticket[r] = t
                             /\ ~Refused(r)
                             /\ tickets'[t] = Flushed(r, tickets[t])
BY DEF TInv, TypeOK, Next, Create, Load, Commit

LEMMA NeverNewAgainStep ==
  ASSUME TInv, [Next]_vars, NEW t \in Tickets,
         tickets[t] # Null, tickets[t].status # "new"
  PROVE  tickets'[t].status # "new"
<1>1. CASE tickets'[t] = tickets[t]
  BY <1>1
<1>2. CASE tickets'[t] # tickets[t]
  <2>1. PICK r \in Requests : /\ ticket[r] = t
                              /\ ~Refused(r)
                              /\ tickets'[t] = Flushed(r, tickets[t])
    BY <1>2, ChangedByCommit DEF vars
  <2>2. /\ loaded[r] \in Row
        /\ patch[r].status \notin {Keep, Null} =>
             Legal(loaded[r].status, patch[r].status)
    BY <2>1, NamesAssumption DEF TInv, Calls
  <2>3. patch[r].status # Null
    BY <2>1, NamesAssumption DEF Refused, Assigned
  <2>4. Assigned(loaded[r], patch[r]).status = "new" =>
          loaded[r].status = "new"
    BY <2>2, <2>3 DEF Assigned, Legal, ALLOWED_TRANSITIONS, TicketStatus, Row
  <2> QED
    BY <2>1, <2>4 DEF Flushed
<1> QED
  BY <1>1, <1>2

\* A ticket that was picked up never becomes new again, however many calls
\* overlap on it.
THEOREM NeverNew == Spec => NeverNewAgain
<1>1. TInv /\ [Next]_vars =>
        [\A t \in Tickets : tickets[t] # Null /\ tickets[t].status # "new" =>
           tickets'[t].status # "new"]_vars
  BY NeverNewAgainStep
<1> QED
  BY <1>1, TInvariance, PTL DEF Spec, NeverNewAgain

LEMMA OnlyAskedStep ==
  ASSUME TInv, [Next]_vars, NEW t \in Tickets, tickets[t] # Null
  PROVE  /\ tickets'[t].status # tickets[t].status =>
              \E r \in Requests : /\ ticket[r] = t
                                  /\ patch[r].status = tickets'[t].status
         /\ tickets'[t].assigned_to # tickets[t].assigned_to =>
              \E r \in Requests : /\ ticket[r] = t
                                  /\ patch[r].assigned_to = tickets'[t].assigned_to
<1>1. CASE tickets'[t] = tickets[t]
  BY <1>1
<1>2. CASE tickets'[t] # tickets[t]
  <2>1. PICK r \in Requests : /\ ticket[r] = t
                              /\ tickets'[t] = Flushed(r, tickets[t])
    BY <1>2, ChangedByCommit DEF vars
  <2> QED
    BY <2>1 DEF Flushed, Assigned
<1> QED
  BY <1>1, <1>2

\* Calls that set different fields of one ticket keep each other's values.
THEOREM NoForeignColumn == Spec => OnlyAskedColumns
<1>1. TInv /\ [Next]_vars =>
        [\A t \in Tickets : tickets[t] # Null =>
           /\ tickets'[t].status # tickets[t].status =>
                \E r \in Requests : /\ ticket[r] = t
                                    /\ patch[r].status = tickets'[t].status
           /\ tickets'[t].assigned_to # tickets[t].assigned_to =>
                \E r \in Requests :
                  /\ ticket[r] = t
                  /\ patch[r].assigned_to = tickets'[t].assigned_to]_vars
  BY OnlyAskedStep
<1> QED
  BY <1>1, TInvariance, PTL DEF Spec, OnlyAskedColumns

LEMMA MachineStep ==
  ASSUME TInv, [Next]_vars, NEW t \in Tickets, tickets[t] # Null,
         \A r \in Requests : ticket[r] = t => loaded[r] = tickets[t]
  PROVE  Legal(tickets[t].status, tickets'[t].status)
<1>1. CASE tickets'[t] = tickets[t]
  BY <1>1 DEF Legal
<1>2. CASE tickets'[t] # tickets[t]
  <2>1. PICK r \in Requests : /\ ticket[r] = t
                              /\ ~Refused(r)
                              /\ tickets'[t] = Flushed(r, tickets[t])
    BY <1>2, ChangedByCommit DEF vars
  <2>2. /\ loaded[r] = tickets[t]
        /\ patch[r].status \notin {Keep, Null} =>
             Legal(loaded[r].status, patch[r].status)
    BY <2>1, NamesAssumption DEF TInv, Calls
  <2>3. patch[r].status # Null
    BY <2>1, NamesAssumption DEF Refused, Assigned
  <2>4. tickets'[t].status = Assigned(loaded[r], patch[r]).status
    BY <2>1, <2>2 DEF Flushed
  <2> QED
    BY <2>2, <2>3, <2>4 DEF Assigned, Legal
<1> QED
  BY <1>1, <1>2

\* Only a call whose row is out of date can take a ticket off the machine.
THEOREM FreshFollows == Spec => FreshFollowsMachine
<1>1. TInv /\ [Next]_vars =>
        [\A t \in Tickets :
           /\ tickets[t] # Null
           /\ \A r \in Requests : ticket[r] = t => loaded[r] = tickets[t]
           => Legal(tickets[t].status, tickets'[t].status)]_vars
  BY MachineStep
<1> QED
  BY <1>1, TInvariance, PTL DEF Spec, FreshFollowsMachine

------------------------------------------------------------------------------
(* One call at a time.                                                     *)

OneThread == \A q, r \in Requests : q = r

\* The row in the session of the only call is the committed one.
Fresh == \A r \in Requests : ticket[r] # Null => loaded[r] = tickets[ticket[r]]

LEMMA FreshStep == OneThread /\ TInv /\ Fresh /\ [Next]_vars => Fresh'
<1> SUFFICES ASSUME OneThread, TInv, Fresh, [Next]_vars PROVE Fresh'
  OBVIOUS
<1> USE DEF Fresh, TInv, TypeOK
<1>1. ASSUME NEW t \in Tickets, Create(t) PROVE Fresh'
  BY <1>1 DEF Create, Calls
<1>2. ASSUME NEW r \in Requests, NEW t \in Tickets, NEW p \in Patch,
             Load(r, t, p)
      PROVE  Fresh'
  BY <1>2 DEF Load
<1>3. ASSUME NEW r \in Requests, Commit(r) PROVE Fresh'
  BY <1>3 DEF Commit, End, OneThread
<1>4. CASE UNCHANGED vars
  BY <1>4 DEF vars
<1> QED
  BY <1>1, <1>2, <1>3, <1>4 DEF Next

LEMMA SerialStep ==
  ASSUME TInv, Fresh, [Next]_vars, NEW t \in Tickets, tickets[t] # Null
  PROVE  Legal(tickets[t].status, tickets'[t].status)
<1>1. \A r \in Requests : ticket[r] = t => loaded[r] = tickets[t]
  BY NamesAssumption DEF Fresh
<1> QED
  BY <1>1, MachineStep

\* With one call at a time the committed statuses follow the documented machine:
\* the race between two calls is the only way out of it.
THEOREM SerialFollowsMachine ==
  ASSUME OneThread
  PROVE  Spec => FollowsMachine
<1>1. Init => Fresh
  BY DEF Init, Fresh
<1>2. TInv /\ Fresh /\ [Next]_vars => Fresh'
  BY FreshStep
<1>3. TInv /\ Fresh /\ [Next]_vars =>
        [\A t \in Tickets : tickets[t] # Null =>
           Legal(tickets[t].status, tickets'[t].status)]_vars
  BY SerialStep
<1> QED
  BY <1>1, <1>2, <1>3, TInvariance, PTL DEF Spec, FollowsMachine

=============================================================================
