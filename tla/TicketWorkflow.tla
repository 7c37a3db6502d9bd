---------------------------- MODULE TicketWorkflow ----------------------------
(***************************************************************************)
(* Tickets: TicketService behind the /tickets endpoints.  The endpoints    *)
(* are synchronous functions that FastAPI runs in a thread pool, so calls  *)
(* (Requests) on one ticket overlap, each with a session of its own.       *)
(*                                                                         *)
(* A call loads the row, checks the transition against what it loaded, and *)
(* commits.  There is no row lock and no version column: the UPDATE writes *)
(* the columns whose value differs from the loaded one (SQLAlchemy's unit  *)
(* of work) over whatever the row is by then.                              *)
(*                                                                         *)
(* A ticket is its status and its assignee; the other columns a PATCH may  *)
(* set (subject, description, priority, category) behave as the assignee   *)
(* does, without its foreign key.  Messages live in a table of their own   *)
(* and are not modelled here.                                              *)
(***************************************************************************)

CONSTANTS
  Tickets,    \* ids that tickets have or will have
  Requests,   \* threads of the pool that serve calls
  Users,      \* ids with a row in table users
  Ghosts,     \* ids without one
  Null,       \* None, NULL, no row
  Keep        \* a field that the PATCH does not set (exclude_unset)

TicketStatus ==
  {"new", "open", "pending_customer", "pending_billing", "resolved", "closed"}

Row == [status : TicketStatus, assigned_to : Users \cup {Null}]

\* The body of a PATCH; resolve is the PATCH that sets only the status.
Patch == [status      : TicketStatus \cup {Keep, Null},
          assigned_to : Users \cup Ghosts \cup {Keep, Null}]

ASSUME NamesAssumption ==
  /\ Null \notin Row \cup Patch \cup TicketStatus \cup Tickets
  /\ Keep \notin TicketStatus \cup Users \cup Ghosts \cup {Null}
  /\ Ghosts \cap (Users \cup {Null}) = {}

VARIABLES
  tickets,    \* table tickets: [Tickets -> the committed row, or Null]
  ticket,     \* [Requests -> the ticket of the call, or Null when idle]
  patch,      \* [Requests -> the fields the call sets, or Null]
  loaded      \* [Requests -> the row in the call's session, or Null]

vars == <<tickets, ticket, patch, loaded>>

\* Rows and calls have their types; an assignee always has a user row.
TypeOK ==
  /\ tickets \in [Tickets -> Row \cup {Null}]
  /\ ticket \in [Requests -> Tickets \cup {Null}]
  /\ patch \in [Requests -> Patch \cup {Null}]
  /\ loaded \in [Requests -> Row \cup {Null}]

Init ==
  /\ tickets = [t \in Tickets |-> Null]
  /\ ticket = [r \in Requests |-> Null]
  /\ patch = [r \in Requests |-> Null]
  /\ loaded = [r \in Requests |-> Null]

------------------------------------------------------------------------------

ALLOWED_TRANSITIONS ==
  [new              |-> TicketStatus \ {"new"},
   open             |-> TicketStatus \ {"new", "open"},
   pending_customer |-> {"open", "resolved", "closed"},
   pending_billing  |-> {"open", "resolved", "closed"},
   resolved         |-> {"open", "closed"},
   closed           |-> {"open"}]

\* _validate_transition, over _ALLOWED_TRANSITIONS: the same status is a no-op
Legal(current, target) ==
  current = target \/ target \in ALLOWED_TRANSITIONS[current]

\* The session's row after the setattr loop
Assigned(row, p) ==
  [status      |-> IF p.status = Keep THEN row.status ELSE p.status,
   assigned_to |-> IF p.assigned_to = Keep THEN row.assigned_to ELSE p.assigned_to]

\* a bug: the UPDATE writes every column of the session's row
FlushedWhole(r, row) == Assigned(loaded[r], patch[r])

\* The UPDATE of the commit: the columns that differ from the loaded ones, over
\* the row as it is now.
Flushed(r, row) ==
  LET new == Assigned(loaded[r], patch[r])
      old == loaded[r]
  IN  [status      |-> IF new.status # old.status
                         THEN new.status ELSE row.status,
       assigned_to |-> IF new.assigned_to # old.assigned_to
                         THEN new.assigned_to ELSE row.assigned_to]

\* a bug: the database does not check assigned_to
RefusedOnlyNull(r) == Assigned(loaded[r], patch[r]).status = Null

\* NOT NULL on status, and the foreign key of assigned_to: the commit fails and
\* nothing of the call stays.
Refused(r) ==
  LET new == Assigned(loaded[r], patch[r])
  IN  new.status = Null \/ new.assigned_to \in Ghosts

End(r) ==
  /\ ticket' = [ticket EXCEPT ![r] = Null]
  /\ patch' = [patch EXCEPT ![r] = Null]
  /\ loaded' = [loaded EXCEPT ![r] = Null]

------------------------------------------------------------------------------

\* create_ticket: any status may be asked for.  The customer check needs no
\* state: customers are never deleted.
Create(t) ==
  /\ tickets[t] = Null
  /\ \E row \in Row : tickets' = [tickets EXCEPT ![t] = row]
  /\ UNCHANGED <<ticket, patch, loaded>>

\* a bug: the transition is not checked
LoadUnchecked(r, t, p) ==
  /\ ticket[r] = Null
  /\ tickets[t] # Null
  /\ ticket' = [ticket EXCEPT ![r] = t]
  /\ patch' = [patch EXCEPT ![r] = p]
  /\ loaded' = [loaded EXCEPT ![r] = tickets[t]]
  /\ UNCHANGED tickets

\* update_ticket and resolve_ticket up to the commit: _get_or_404, the check
\* of the transition (a null status is not checked), the assignments.  A call
\* answered with 404 or 409 ends here and changes nothing.
Load(r, t, p) ==
  /\ ticket[r] = Null
  /\ tickets[t] # Null
  /\ p.status \notin {Keep, Null} => Legal(tickets[t].status, p.status)
  /\ ticket' = [ticket EXCEPT ![r] = t]
  /\ patch' = [patch EXCEPT ![r] = p]
  /\ loaded' = [loaded EXCEPT ![r] = tickets[t]]
  /\ UNCHANGED tickets

\* The flush and commit; a refused one is rolled back and answered with 500.
Commit(r) ==
  /\ ticket[r] # Null
  /\ tickets' = IF Refused(r) THEN tickets
                ELSE [tickets EXCEPT ![ticket[r]] = Flushed(r, @)]
  /\ End(r)

Next ==
  \/ \E t \in Tickets : Create(t)
  \/ \E r \in Requests :
       \/ \E t \in Tickets, p \in Patch : Load(r, t, p)
       \/ Commit(r)

Spec == Init /\ [][Next]_vars

------------------------------------------------------------------------------
(* Properties.                                                             *)

\* ticket_service.py "Allowed status transitions": each committed change of a
\* status is one that _ALLOWED_TRANSITIONS has.
FollowsMachine ==
  [][\A t \in Tickets : tickets[t] # Null =>
       Legal(tickets[t].status, tickets'[t].status)]_vars

\* Overlapping calls are the only way out of the machine: a ticket whose row every
\* open call has as it is now takes an allowed transition.
FreshFollowsMachine ==
  [][\A t \in Tickets :
       /\ tickets[t] # Null
       /\ \A r \in Requests : ticket[r] = t => loaded[r] = tickets[t]
       => Legal(tickets[t].status, tickets'[t].status)]_vars

\* A ticket that was picked up is never new again, however calls overlap: a call
\* that loaded a new ticket and sets new writes nothing.
NeverNewAgain ==
  [][\A t \in Tickets : tickets[t] # Null /\ tickets[t].status # "new" =>
       tickets'[t].status # "new"]_vars

\* Overlapping calls on different fields lose nothing: a column changes only to
\* the value that a call for that ticket sets it to.
OnlyAskedColumns ==
  [][\A t \in Tickets : tickets[t] # Null =>
       /\ tickets'[t].status # tickets[t].status =>
            \E r \in Requests : /\ ticket[r] = t
                                /\ patch[r].status = tickets'[t].status
       /\ tickets'[t].assigned_to # tickets[t].assigned_to =>
            \E r \in Requests : /\ ticket[r] = t
                                /\ patch[r].assigned_to = tickets'[t].assigned_to]_vars

=============================================================================
