------------------------------- MODULE Accounts -------------------------------
(***************************************************************************)
(* Accounts on the server: who may call (get_current_user, require_roles), *)
(* UserService behind the auth and users endpoints, and the seed that a    *)
(* container runs before it serves.  The requests come from BrowserSession,*)
(* which extends this module.                                              *)
(*                                                                         *)
(* Endpoints are synchronous functions in a thread pool: a request is      *)
(* checked against the rows of that moment and commits later (bcrypt is    *)
(* slow).  An UPDATE writes the column that is set, if its value is not    *)
(* the one that was loaded.  The only unique key is that of the address as *)
(* it is spelled; look-ups compare in lower case.                          *)
(*                                                                         *)
(* Rows are numbered in the order of their commits and never deleted.      *)
(* Names, the agents' different roles and the hashing are abstracted; of   *)
(* an address it is known whose it is and how it is spelled.               *)
(***************************************************************************)
EXTENDS Naturals, Sequences, Functions

CONSTANTS
  Containers,   \* started at once or one after another on one database
  Tabs,         \* the browser's tabs: where requests come from
  MaxRequests,  \* bound: requests
  MaxFaults     \* bound: crashes of containers, expired tokens, broken connections

ASSUME AccountsAssumption ==
  /\ MaxRequests \in Nat
  /\ MaxFaults \in Nat

Roles == {"admin", "support_agent"}
Passwords == {"demo", "other"}
Emails == {"ava", "sam", "new"} \X {"lower", "mixed"}

Row == [email : Emails, role : Roles, active : BOOLEAN, password : Passwords]
MaybeRow == {<<>>} \cup {<<row>> : row \in Row}

DemoAccount(name, role) ==
  [email |-> <<name, "lower">>, role |-> role, active |-> TRUE, password |-> "demo"]

\* _seed_users: Ava the admin, and Sam, who stands for both agents
DemoUsers == <<DemoAccount("ava", "admin"), DemoAccount("sam", "support_agent")>>

MaxUsers == Len(DemoUsers) + MaxRequests
Ids == 1 .. MaxUsers

\* What a call may set of an account: one field of a PATCH, or a password.
Changes == {"enable", "disable"} \cup Roles \cup Passwords

\* A request: its tab, and whether the page still waits for its answer; the account whose
\* token it carries, or 0; what it asks for; where the server is with it, the row it has
\* loaded and the account it answers with
Request == [kind   : {"login", "me", "other", "create", "update", "change"},
            tab    : Tabs, awaited : BOOLEAN, token : Ids \cup {0},
            email  : Emails, password : Passwords,
            target : Ids \cup {0}, change : Changes,
            server : {"sent", "checked", "ok", "denied", "refused"},
            row    : MaybeRow, answer : Ids \cup {0}]

VARIABLES
  users,      \* table users: the committed rows
  demo,       \* number of committed copies of the seed's plans, customers and so on
  container,  \* [Containers -> state of the entrypoint]
  requests,   \* the requests that somebody still works on or waits for, by number
  sent,       \* number of requests so far
  faults      \* number of faults so far

tables == <<users, demo>>

Asked == DOMAIN requests

Open(request) == request.server \in {"sent", "checked"}

\* Of requests, those that are not over: served, or awaited
Live(rs) == Restrict(rs, {c \in DOMAIN rs : Open(rs[c]) \/ rs[c].awaited})

AccountsTypeOK ==
  /\ users \in Seq(Row) /\ Len(users) <= MaxUsers
  /\ demo \in 0 .. 1
  /\ container \in [Containers -> {"down", "empty", "users", "up", "failed"}]
  /\ sent \in 0 .. MaxRequests
  /\ DOMAIN requests \subseteq 1 .. sent
  /\ \A c \in DOMAIN requests : requests[c] \in Request
  /\ faults \in 0 .. MaxFaults

AccountsInit ==
  /\ users = <<>>
  /\ demo = 0
  /\ container = [k \in Containers |-> "down"]
  /\ requests = <<>>
  /\ sent = 0
  /\ faults = 0

------------------------------------------------------------------------------
(* The entrypoint: the seed, then the server.                              *)

\* seed() looks for a customer; if there is one, the seed is skipped.
Start(k) ==
  /\ container[k] \in {"down", "failed"}
  /\ container' = [container EXCEPT ![k] = IF demo > 0 THEN "up" ELSE "empty"]
  /\ UNCHANGED <<tables, requests, sent, faults>>

Inserting == \E k \in Containers : container[k] = "users"

DemoCommitted == \E i \in DOMAIN DemoUsers, j \in DOMAIN users : users[j].email = DemoUsers[i].email

\* a bug: accounts that are there, or about to be, are left out of the insert
SeedUsersUnlessThere(k) ==
  /\ container[k] = "empty"
  /\ container' = [container EXCEPT ![k] = "users"]
  /\ UNCHANGED <<tables, requests, sent, faults>>

\* _seed_users: the flush waits for a transaction that has inserted the same addresses,
\* and fails on committed ones: the script ends, and with it the container.
SeedUsers(k) ==
  /\ container[k] = "empty"
  /\ ~Inserting
  /\ container' = [container EXCEPT ![k] = IF DemoCommitted THEN "failed" ELSE "users"]
  /\ UNCHANGED <<tables, requests, sent, faults>>

\* a bug: the users are committed before the rest
SeedRestApart(k) ==
  /\ container[k] = "users"
  /\ IF DemoCommitted
       THEN demo' = demo + 1 /\ container' = [container EXCEPT ![k] = "up"] /\ UNCHANGED users
       ELSE users' = users \o DemoUsers /\ UNCHANGED <<demo, container>>
  /\ UNCHANGED <<requests, sent, faults>>

\* The plans, customers, tickets, articles with their chunks, invoices and payments are
\* inserted and everything is committed; the server starts.
SeedRest(k) ==
  /\ container[k] = "users"
  /\ users' = users \o DemoUsers
  /\ demo' = demo + 1
  /\ container' = [container EXCEPT ![k] = "up"]
  /\ UNCHANGED <<requests, sent, faults>>

Up == {k \in Containers : container[k] = "up"}

\* A container dies, or is stopped: an open transaction is rolled back, and of the
\* requests those it was serving are never committed.
Crash(k) ==
  /\ container[k] \in {"empty", "users", "up"}
  /\ faults < MaxFaults
  /\ faults' = faults + 1
  /\ container' = [container EXCEPT ![k] = "down"]
  /\ \E lost \in SUBSET {c \in Asked : Open(requests[c])} :
       /\ k \notin Up => lost = {}
       /\ Up = {k} => \A c \in Asked \ lost : ~Open(requests[c])
       /\ requests' = Live([c \in Asked |->
            IF c \in lost THEN [requests[c] EXCEPT !.server = "refused"] ELSE requests[c]])
  /\ UNCHANGED <<tables, sent>>

Boot(k) == Start(k) \/ SeedUsers(k) \/ SeedRest(k) \/ Crash(k)

------------------------------------------------------------------------------
(* The endpoints.                                                          *)

At(c, state) == Up # {} /\ requests[c].server = state

\* get_by_email: the rows of an address, compared in lower case
ByEmail(email) == {i \in DOMAIN users : users[i].email[1] = email[1]}

\* a bug: the token alone decides
AuthenticatedByToken(c) == requests[c].token # 0

\* get_current_user: a token, of an account that exists and is active
Authenticated(c) == requests[c].token # 0 /\ users[requests[c].token].active

IsAdmin(c) == users[requests[c].token].role = "admin"

\* An answer, about account id
Answer(c, id) ==
  requests' = Live([requests EXCEPT
                 ![c].server = "ok", ![c].answer = id, ![c].row = <<users'[id]>>])

\* An error, and nothing committed
Raise(c, state) ==
  /\ requests' = Live([requests EXCEPT ![c].server = state])
  /\ UNCHANGED users

Unchanged == UNCHANGED <<demo, container, sent, faults>>

\* authenticate: one of the rows of the address (there may be two, spelled differently)
Login(c) ==
  /\ At(c, "sent")
  /\ requests[c].kind = "login"
  /\ \/ /\ ByEmail(requests[c].email) = {}
        /\ Raise(c, "denied")
     \/ \E i \in ByEmail(requests[c].email) :
          IF users[i].active /\ users[i].password = requests[c].password
            THEN UNCHANGED users /\ Answer(c, i) ELSE Raise(c, "denied")
  /\ Unchanged

\* The 401 of every other endpoint
Deny(c) ==
  /\ At(c, "sent")
  /\ requests[c].kind # "login"
  /\ ~Authenticated(c)
  /\ Raise(c, "denied")
  /\ Unchanged

\* The same, because the token has expired
Expire(c) ==
  /\ At(c, "sent")
  /\ requests[c].kind # "login" /\ requests[c].token # 0
  /\ faults < MaxFaults
  /\ faults' = faults + 1
  /\ Raise(c, "denied")
  /\ UNCHANGED <<demo, container, sent>>

\* me, and the endpoints of the other services, which ask for any active account
Read(c) ==
  /\ At(c, "sent")
  /\ requests[c].kind \in {"me", "other"}
  /\ Authenticated(c)
  /\ UNCHANGED users
  /\ Answer(c, requests[c].token)
  /\ Unchanged

\* What fails before a write: 403 without the role, 409 for a taken address, 400 for a
\* wrong current password
Unfit(c) ==
  \/ requests[c].kind \in {"create", "update"} /\ ~IsAdmin(c)
  \/ requests[c].kind = "create" /\ ByEmail(requests[c].email) # {}
  \/ /\ requests[c].kind = "change"
     /\ users[requests[c].token].password # requests[c].password

\* create_user, update_user, reset_password and change_password up to the commit
Check(c) ==
  /\ At(c, "sent")
  /\ requests[c].kind \in {"create", "update", "change"}
  /\ Authenticated(c)
  /\ IF Unfit(c) THEN Raise(c, "refused")
     ELSE /\ requests' = [requests EXCEPT ![c].server = "checked",
               ![c].row = IF requests[c].kind = "create" THEN <<>>
                          ELSE <<users[requests[c].target]>>]
          /\ UNCHANGED users
  /\ Unchanged

\* A row with a change made
Changed(row, change) ==
  [row EXCEPT
     !.active   = IF change \in {"enable", "disable"} THEN change = "enable" ELSE @,
     !.role     = IF change \in Roles THEN change ELSE @,
     !.password = IF change \in Passwords THEN change ELSE @]

\* The UPDATE: the column that is set, if its value differs from the loaded one (a new
\* hash always does).
Flushed(c, row) ==
  LET change == requests[c].change
      loaded == requests[c].row[1]
  IN  IF change \in Passwords \/ Changed(loaded, change) # loaded THEN Changed(row, change) ELSE row

\* The unique key of users.email
Free(email) == \A i \in DOMAIN users : users[i].email # email

Created(c) ==
  [email |-> requests[c].email, role |-> requests[c].change, active |-> TRUE,
   password |-> requests[c].password]

\* The flush and commit of create_user: a key taken since the check is a 500.
CommitCreate(c) ==
  /\ At(c, "checked")
  /\ requests[c].kind = "create"
  /\ IF Free(requests[c].email)
       THEN users' = Append(users, Created(c)) /\ Answer(c, Len(users'))
       ELSE Raise(c, "refused")
  /\ Unchanged

\* The flush and commit of update_user, reset_password and change_password
CommitUpdate(c) ==
  /\ At(c, "checked")
  /\ requests[c].kind # "create"
  /\ users' = [users EXCEPT ![requests[c].target] = Flushed(c, @)]
  /\ Answer(c, requests[c].target)
  /\ Unchanged

\* Anything else raises: a 500, without a commit.
Fail(c) ==
  /\ At(c, "checked")
  /\ faults < MaxFaults
  /\ faults' = faults + 1
  /\ Raise(c, "refused")
  /\ UNCHANGED <<demo, container, sent>>

Serve(c) ==
  \/ Login(c) \/ Deny(c) \/ Expire(c) \/ Read(c)
  \/ Check(c) \/ CommitCreate(c) \/ CommitUpdate(c) \/ Fail(c)

==============================================================================
