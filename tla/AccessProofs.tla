----------------------------- MODULE AccessProofs -----------------------------
(***************************************************************************)
(* The seed is whole, a lockout is final, a tab acts as the user whom it   *)
(* shows and every account was seeded or asked for, for any number of      *)
(* containers, tabs, requests and faults.                                  *)
(***************************************************************************)
EXTENDS BrowserSession, FiniteSetTheorems, TLAPS

\* A request whose account numbers are below no bound
SomeRequest ==
  [kind   : {"login", "me", "other", "create", "update", "change"},
   tab    : Tabs, awaited : BOOLEAN, token : Nat,
   email  : Emails, password : Passwords,
   target : Nat, change : Changes,
   server : {"sent", "checked", "ok", "denied", "refused"},
   row    : MaybeRow, answer : Nat]

SomeTab ==
  [token : Nat, user : Nat, role : Roles, loading : BOOLEAN,
   submitting : BOOLEAN, at : {"login", "app"}, overtaken : BOOLEAN]

\* The request r, when there are n accounts: the accounts it names are there, and what it
\* may write is known.
KnownTo(r, n) ==
  /\ r \in SomeRequest
  /\ r.token <= n /\ r.target <= n /\ r.answer <= n
  /\ r.kind \in {"update", "change"} => r.target \in 1 .. n
  /\ r.kind = "create" => r.change \in Roles
  /\ r.kind = "change" => r.change \in Passwords
  /\ r.server = "checked" => r.token # 0 /\ r.kind \in {"create", "update", "change"}
  /\ r.server = "ok" => r.answer \in 1 .. n /\ r.row # <<>>

Typed ==
  /\ users \in Seq(Row)
  /\ demo \in {0, 1}
  /\ container \in [Containers -> {"down", "empty", "users", "up", "failed"}]
  /\ sent \in Nat
  /\ DOMAIN requests \subseteq 1 .. sent
  /\ storage \in 0 .. Len(users)
  /\ tab \in [Tabs -> SomeTab]
  /\ \A t \in Tabs : tab[t].token <= Len(users) /\ tab[t].user <= Len(users)

\* The addresses are distinct, the first two are the demo accounts', and one container at
\* most is between the two halves of the seed, before which the tables are empty.
Seeded ==
  /\ demo = 0 => users = <<>>
  /\ demo = 1 => /\ Len(users) >= 2
                 /\ \A i \in 1 .. 2 : users[i].email = DemoUsers[i].email
  /\ \A i, j \in 1 .. Len(users) : users[i].email = users[j].email => i = j
  /\ \A k \in Containers : container[k] = "users" =>
       demo = 0 /\ \A other \in Containers : container[other] = "users" => other = k

AllKnown == \A c \in Asked : KnownTo(requests[c], Len(users))

AInv == Typed /\ Seeded /\ AllKnown

------------------------------------------------------------------------------

LEMMA DemoFacts ==
  /\ DemoUsers \in Seq(Row) /\ Len(DemoUsers) = 2 /\ DOMAIN DemoUsers = 1 .. 2
  /\ DemoUsers[1].email # DemoUsers[2].email
  /\ DemoUsers[1].email \in Emails /\ DemoUsers[2].email \in Emails
  /\ DemoUsers[1].active /\ DemoUsers[2].active
  /\ DemoUsers[1].role = "admin"
BY DEF DemoUsers, DemoAccount, Row, Emails, Roles, Passwords

\* What is over drops out; the rest stays as it is.
LEMMA LiveNarrows ==
  ASSUME NEW rs
  PROVE  /\ DOMAIN Live(rs) \subseteq DOMAIN rs
         /\ \A c \in DOMAIN Live(rs) : Live(rs)[c] = rs[c]
BY DEF Live, Restrict

LEMMA KnownGrows ==
  ASSUME NEW r, NEW n \in Nat, NEW m \in Nat, n <= m, KnownTo(r, n)
  PROVE  KnownTo(r, m)
BY DEF KnownTo, SomeRequest

LEMMA UnawaitedNarrows ==
  ASSUME NEW gone
  PROVE  /\ DOMAIN Unawaited(gone) \subseteq Asked
         /\ \A c \in DOMAIN Unawaited(gone) : Unawaited(gone)[c] =
              IF c \in gone THEN [requests[c] EXCEPT !.awaited = FALSE] ELSE requests[c]
BY LiveNarrows DEF Unawaited, Asked

LEMMA InitAInv == Init => AInv
BY DemoFacts DEF Init, AccountsInit, AInv, Typed, Seeded, AllKnown, Asked, Loaded, SomeTab, Roles

------------------------------------------------------------------------------
(* Steps of the server.                                                    *)

\* What no step of the server changes of a request
SameCall(r, s) ==
  /\ r.kind = s.kind /\ r.tab = s.tab /\ r.awaited = s.awaited /\ r.token = s.token
  /\ r.change = s.change

\* What a step of the server does to the requests: some are over, and of the others one
\* at most has changed, and only where the server is with it.
Served ==
  /\ sent' = sent
  /\ Asked' \subseteq Asked
  /\ \A c \in Asked' :
       /\ SameCall(requests'[c], requests[c])
       /\ KnownTo(requests'[c], Len(users'))
       /\ \/ requests'[c].server = requests[c].server /\ requests'[c].answer = requests[c].answer
          \/ requests'[c].server \in {"denied", "refused"}
          \/ requests'[c].server = "checked" /\ Authenticated(c) /\ ~Unfit(c)
          \/ /\ requests'[c].server = "ok"
             /\ requests[c].kind = "me" => requests'[c].answer = requests[c].token

LEMMA RaisedKnown ==
  ASSUME NEW r, NEW n \in Nat, KnownTo(r, n), NEW state \in {"denied", "refused"},
         NEW s, s = [r EXCEPT !.server = state]
  PROVE  KnownTo(s, n) /\ SameCall(s, r) /\ s.server = state
BY DEF KnownTo, SomeRequest, SameCall

\* s is the request r after an answer about account id, whose row is row.
IsAnswered(s, r, id, row) ==
  s = [r EXCEPT !.server = "ok", !.answer = id, !.row = <<row>>]

LEMMA AnsweredKnown ==
  ASSUME NEW r, NEW n \in Nat, KnownTo(r, n), NEW id \in 1 .. n, NEW row \in Row,
         NEW s, IsAnswered(s, r, id, row)
  PROVE  KnownTo(s, n) /\ SameCall(s, r) /\ s.server = "ok" /\ s.answer = id
<1>1. <<row>> \in MaybeRow /\ <<row>> # <<>>
  BY DEF MaybeRow
<1>2. r \in SomeRequest /\ id \in Nat
  BY DEF KnownTo
<1>3. s \in SomeRequest
  BY <1>1, <1>2 DEF SomeRequest, IsAnswered
<1>4. /\ s.kind = r.kind /\ s.tab = r.tab /\ s.awaited = r.awaited /\ s.token = r.token
      /\ s.target = r.target /\ s.change = r.change
      /\ s.server = "ok" /\ s.answer = id /\ s.row = <<row>>
  BY <1>2 DEF SomeRequest, IsAnswered
<1> QED
  BY <1>1, <1>3, <1>4 DEF KnownTo, SameCall

LEMMA RaiseServed ==
  ASSUME AInv, NEW c \in Asked, NEW state \in {"denied", "refused"}, Raise(c, state), sent' = sent
  PROVE  Served /\ users' = users
<1> DEFINE rs == [requests EXCEPT ![c].server = state]
<1>1. Len(users) \in Nat /\ \A d \in Asked : KnownTo(requests[d], Len(users))
  BY DEF AInv, Typed, AllKnown
<1>2. DOMAIN rs = Asked /\ rs[c] = [requests[c] EXCEPT !.server = state]
      /\ \A d \in Asked : d # c => rs[d] = requests[d]
  BY DEF Asked
<1>3. requests' = Live(rs) /\ users' = users
  BY DEF Raise
<1> HIDE DEF rs
<1>4. \A d \in Asked' : d \in Asked /\ requests'[d] = rs[d]
  BY <1>2, <1>3, LiveNarrows DEF Asked
<1>5. KnownTo(rs[c], Len(users)) /\ SameCall(rs[c], requests[c]) /\ rs[c].server = state
  BY <1>1, <1>2, RaisedKnown
<1>6. ASSUME NEW d \in Asked'
      PROVE  /\ SameCall(requests'[d], requests[d]) /\ KnownTo(requests'[d], Len(users))
             /\ \/ requests'[d] = requests[d]
                \/ requests'[d].server \in {"denied", "refused"}
  <2>1. CASE d = c
    BY <1>4, <1>5, <2>1
  <2>2. CASE d # c
    BY <1>1, <1>2, <1>4, <2>2 DEF SameCall
  <2> QED
    BY <2>1, <2>2
<1> QED
  BY <1>3, <1>4, <1>6 DEF Served

LEMMA AnswerServed ==
  ASSUME AInv, NEW c \in Asked, NEW id \in 1 .. Len(users'), Answer(c, id), sent' = sent,
         users' \in Seq(Row), Len(users) <= Len(users'),
         requests[c].kind = "me" => id = requests[c].token
  PROVE  Served
<1> DEFINE rs == [requests EXCEPT ![c].server = "ok", ![c].answer = id, ![c].row = <<users'[id]>>]
<1>1. Len(users) \in Nat /\ Len(users') \in Nat
  BY DEF AInv, Typed
<1>2. \A d \in Asked : KnownTo(requests[d], Len(users'))
  BY <1>1, KnownGrows DEF AInv, AllKnown
<1>3. DOMAIN rs = Asked
      /\ rs[c] = [requests[c] EXCEPT !.server = "ok", !.answer = id, !.row = <<users'[id]>>]
      /\ \A d \in Asked : d # c => rs[d] = requests[d]
  BY DEF Asked
<1>4. requests' = Live(rs)
  BY DEF Answer
<1> HIDE DEF rs
<1>5. \A d \in Asked' : d \in Asked /\ requests'[d] = rs[d]
  BY <1>3, <1>4, LiveNarrows DEF Asked
<1>6. users'[id] \in Row /\ id \in 1 .. Len(users')
  BY <1>1
<1>7. KnownTo(requests[c], Len(users'))
  BY <1>2
<1>8. IsAnswered(rs[c], requests[c], id, users'[id])
  BY <1>3 DEF IsAnswered
<1>9. /\ KnownTo(rs[c], Len(users')) /\ SameCall(rs[c], requests[c])
      /\ rs[c].server = "ok" /\ rs[c].answer = id
  BY <1>1, <1>6, <1>7, <1>8, AnsweredKnown
<1>10. ASSUME NEW d \in Asked'
       PROVE  /\ SameCall(requests'[d], requests[d]) /\ KnownTo(requests'[d], Len(users'))
              /\ \/ requests'[d] = requests[d]
                 \/ requests'[d].server = "ok" /\ requests'[d].answer = id /\ d = c
  <2>1. CASE d = c
    BY <1>5, <1>9, <2>1
  <2>2. CASE d # c
    BY <1>2, <1>3, <1>5, <2>2 DEF SameCall
  <2> QED
    BY <2>1, <2>2
<1> QED
  BY <1>5, <1>10 DEF Served

\* What a step of an endpoint leaves of the accounts: their addresses; a new one is at the
\* end, and there is none while there are no accounts.
RowsKept ==
  /\ users' \in Seq(Row)
  /\ Len(users) <= Len(users')
  /\ \A i \in 1 .. Len(users) : users'[i].email = users[i].email
  /\ users = <<>> => users' = <<>>
  /\ \A i, j \in 1 .. Len(users') : users'[i].email = users'[j].email => i = j

LEMMA SameRowsKept ==
  ASSUME AInv, UNCHANGED users
  PROVE  RowsKept
BY DEF AInv, Typed, Seeded, RowsKept

LEMMA FlushedRow ==
  ASSUME NEW c, NEW row \in Row
  PROVE  Flushed(c, row) \in Row /\ Flushed(c, row).email = row.email
<1>1. /\ Changed(row, requests[c].change) \in Row
      /\ Changed(row, requests[c].change).email = row.email
  BY DEF Changed, Row
<1> QED
  BY <1>1 DEF Flushed

LEMMA CheckServed ==
  ASSUME AInv, NEW c \in Asked, Check(c)
  PROVE  Served /\ users' = users
<1>1. CASE Unfit(c)
  BY <1>1, RaiseServed DEF Check, Unchanged
<1>2. CASE ~Unfit(c)
  <2> DEFINE row == IF requests[c].kind = "create" THEN <<>> ELSE <<users[requests[c].target]>>
  <2>1. /\ requests' = [requests EXCEPT ![c].server = "checked", ![c].row = row]
        /\ users' = users /\ sent' = sent
        /\ requests[c].kind \in {"create", "update", "change"}
        /\ requests[c].token # 0 /\ Authenticated(c)
    BY <1>2 DEF Check, Unchanged, Authenticated
  <2>2. KnownTo(requests[c], Len(users)) /\ users \in Seq(Row)
    BY DEF AInv, AllKnown, Typed
  <2>3. row \in MaybeRow
    BY <2>1, <2>2 DEF MaybeRow, KnownTo
  <2> HIDE DEF row
  <2>4. /\ Asked' = Asked
        /\ \A d \in Asked : d # c => requests'[d] = requests[d]
        /\ requests'[c] = [requests[c] EXCEPT !.server = "checked", !.row = row]
    BY <2>1 DEF Asked
  <2>5. requests'[c] \in SomeRequest
    BY <2>2, <2>3, <2>4 DEF KnownTo, SomeRequest
  <2>6. /\ SameCall(requests'[c], requests[c])
        /\ requests'[c].target = requests[c].target /\ requests'[c].change = requests[c].change
        /\ requests'[c].answer = requests[c].answer
        /\ requests'[c].server = "checked"
    BY <2>2, <2>4 DEF KnownTo, SomeRequest, SameCall
  <2>7. KnownTo(requests'[c], Len(users))
    BY <2>1, <2>2, <2>5, <2>6 DEF KnownTo, SameCall
  <2> QED
    BY <1>2, <2>1, <2>4, <2>6, <2>7 DEF Served, SameCall, AInv, AllKnown
<1> QED
  BY <1>1, <1>2

LEMMA CreateServed ==
  ASSUME AInv, NEW c \in Asked, CommitCreate(c)
  PROVE  Served /\ RowsKept
<1>1. /\ KnownTo(requests[c], Len(users)) /\ users \in Seq(Row) /\ Len(users) \in Nat
      /\ requests[c].server = "checked" /\ requests[c].kind = "create"
      /\ sent' = sent
  BY DEF AInv, AllKnown, Typed, CommitCreate, At, Unchanged
<1>2. CASE Free(requests[c].email)
  <2>1. users' = Append(users, Created(c)) /\ Answer(c, Len(users'))
    BY <1>2 DEF CommitCreate
  <2>2. Created(c) \in Row /\ Created(c).email = requests[c].email
    BY <1>1 DEF KnownTo, SomeRequest, Created, Row
  <2>3. /\ users' \in Seq(Row) /\ Len(users') = Len(users) + 1
        /\ \A i \in 1 .. Len(users) : users'[i] = users[i]
        /\ users'[Len(users) + 1] = Created(c)
    BY <1>1, <2>1, <2>2
  <2>4. users # <<>>
    BY <1>1 DEF KnownTo, SomeRequest
  <2>5. \A i \in 1 .. Len(users) : users[i].email # Created(c).email
    BY <1>1, <1>2, <2>2 DEF Free
  <2>6. \A i, j \in 1 .. Len(users) : users[i].email = users[j].email => i = j
    BY DEF AInv, Seeded
  <2>7. \A i, j \in 1 .. Len(users') : users'[i].email = users'[j].email => i = j
    BY <1>1, <2>3, <2>5, <2>6
  <2>8. RowsKept
    BY <1>1, <2>3, <2>4, <2>7 DEF RowsKept
  <2>9. Served
    BY <1>1, <2>1, <2>3, AnswerServed
  <2> QED
    BY <2>8, <2>9
<1>3. CASE ~Free(requests[c].email)
  BY <1>1, <1>3, RaiseServed, SameRowsKept DEF CommitCreate
<1> QED
  BY <1>2, <1>3

LEMMA UpdateServed ==
  ASSUME AInv, NEW c \in Asked, CommitUpdate(c)
  PROVE  Served /\ RowsKept
<1> DEFINE id == requests[c].target
<1>1. /\ KnownTo(requests[c], Len(users)) /\ users \in Seq(Row) /\ Len(users) \in Nat
      /\ requests[c].server = "checked" /\ requests[c].kind # "create"
      /\ sent' = sent /\ Answer(c, id)
      /\ users' = [users EXCEPT ![id] = Flushed(c, users[id])]
  BY DEF AInv, AllKnown, Typed, CommitUpdate, At, Unchanged
<1>2. id \in 1 .. Len(users) /\ requests[c].kind # "me"
  BY <1>1 DEF KnownTo
<1> HIDE DEF id
<1>3. Flushed(c, users[id]) \in Row /\ Flushed(c, users[id]).email = users[id].email
  BY <1>1, <1>2, FlushedRow
<1>4. /\ users' \in Seq(Row) /\ Len(users') = Len(users)
      /\ \A i \in 1 .. Len(users) : users'[i].email = users[i].email
  BY <1>1, <1>2, <1>3
<1>5. \A i, j \in 1 .. Len(users) : users[i].email = users[j].email => i = j
  BY DEF AInv, Seeded
<1>6. RowsKept
  BY <1>1, <1>2, <1>4, <1>5 DEF RowsKept
<1>7. Served
  BY <1>1, <1>2, <1>4, AnswerServed
<1> QED
  BY <1>6, <1>7

LEMMA ServeEffect ==
  ASSUME AInv, NEW c \in Asked, Serve(c)
  PROVE  Served /\ RowsKept
<1>0. /\ KnownTo(requests[c], Len(users)) /\ users \in Seq(Row) /\ Len(users) \in Nat
  BY DEF AInv, AllKnown, Typed
<1>1. CASE Login(c)
  <2>1. CASE Raise(c, "denied")
    BY <1>1, <2>1, RaiseServed, SameRowsKept DEF Login, Unchanged
  <2>2. CASE \E i \in ByEmail(requests[c].email) : UNCHANGED users /\ Answer(c, i)
    <3>1. PICK i \in 1 .. Len(users) : UNCHANGED users /\ Answer(c, i)
      BY <1>0, <2>2 DEF ByEmail
    <3>2. requests[c].kind # "me" /\ sent' = sent
      BY <1>1 DEF Login, Unchanged
    <3> QED
      BY <1>0, <3>1, <3>2, AnswerServed, SameRowsKept
  <2> QED
    BY <1>1, <2>1, <2>2 DEF Login
<1>2. CASE Deny(c)
  BY <1>2, RaiseServed, SameRowsKept DEF Deny, Unchanged
<1>3. CASE Expire(c)
  BY <1>3, RaiseServed, SameRowsKept DEF Expire
<1>4. CASE Read(c)
  <2>1. /\ UNCHANGED users /\ sent' = sent
        /\ Answer(c, requests[c].token)
        /\ requests[c].token # 0
    BY <1>4 DEF Read, Authenticated, Unchanged
  <2>2. requests[c].token \in 1 .. Len(users')
    BY <1>0, <2>1 DEF KnownTo, SomeRequest
  <2> QED
    BY <1>0, <2>1, <2>2, AnswerServed, SameRowsKept
<1>5. CASE Check(c)
  BY <1>5, CheckServed, SameRowsKept
<1>6. CASE CommitCreate(c)
  BY <1>6, CreateServed
<1>7. CASE CommitUpdate(c)
  BY <1>7, UpdateServed
<1>8. CASE Fail(c)
  BY <1>8, RaiseServed, SameRowsKept DEF Fail
<1> QED
  BY <1>1, <1>2, <1>3, <1>4, <1>5, <1>6, <1>7, <1>8 DEF Serve

LEMMA CrashServed ==
  ASSUME AInv, NEW k \in Containers, Crash(k)
  PROVE  Served /\ UNCHANGED tables
<1>1. PICK lost : requests' = Live([c \in Asked |->
            IF c \in lost THEN [requests[c] EXCEPT !.server = "refused"] ELSE requests[c]])
  BY DEF Crash
<1> DEFINE rs == [c \in Asked |->
            IF c \in lost THEN [requests[c] EXCEPT !.server = "refused"] ELSE requests[c]]
<1>2. UNCHANGED tables /\ sent' = sent /\ Len(users) \in Nat /\ users' = users
      /\ \A c \in Asked : KnownTo(requests[c], Len(users))
  BY DEF AInv, AllKnown, Typed, Crash, tables
<1>3. \A c \in Asked :
        rs[c] = requests[c] \/ rs[c] = [requests[c] EXCEPT !.server = "refused"]
  OBVIOUS
<1>4. requests' = Live(rs) /\ DOMAIN rs = Asked
  BY <1>1
<1> HIDE DEF rs
<1>5. \A c \in Asked' : c \in Asked /\ requests'[c] = rs[c]
  BY <1>4, LiveNarrows DEF Asked
<1>6. ASSUME NEW c \in Asked
      PROVE  /\ KnownTo(rs[c], Len(users)) /\ SameCall(rs[c], requests[c])
             /\ \/ rs[c].server = requests[c].server /\ rs[c].answer = requests[c].answer
                \/ rs[c].server = "refused"
  <2>1. CASE rs[c] = requests[c]
    BY <1>2, <2>1 DEF SameCall
  <2>2. CASE rs[c] = [requests[c] EXCEPT !.server = "refused"]
    BY <1>2, <2>2, RaisedKnown
  <2> QED
    BY <1>3, <2>1, <2>2
<1> QED
  BY <1>2, <1>5, <1>6 DEF Served

\* The invariant after a step of the server, from what it does to requests and accounts
LEMMA ServedAInv ==
  ASSUME AInv, Served, RowsKept, UNCHANGED <<demo, container, storage, tab>>
  PROVE  AInv'
<1>0. /\ users \in Seq(Row) /\ Len(users) \in Nat /\ Len(users') \in Nat
      /\ Len(users) <= Len(users') /\ users' \in Seq(Row)
  BY DEF AInv, Typed, RowsKept
<1>1. Typed'
  <2>1. storage' \in 0 .. Len(users')
    BY <1>0 DEF AInv, Typed
  <2>2. \A t \in Tabs : tab'[t].token <= Len(users') /\ tab'[t].user <= Len(users')
    BY <1>0 DEF AInv, Typed, SomeTab
  <2>3. sent' \in Nat /\ DOMAIN requests' \subseteq 1 .. sent'
    BY DEF AInv, Typed, Served, Asked
  <2> QED
    BY <1>0, <2>1, <2>2, <2>3 DEF AInv, Typed
<1>2. Seeded'
  BY DEF AInv, Typed, Seeded, RowsKept
<1>3. AllKnown'
  BY DEF AllKnown, Served
<1> QED
  BY <1>1, <1>2, <1>3 DEF AInv

LEMMA BootAInv ==
  ASSUME AInv, NEW k \in Containers, Boot(k), UNCHANGED <<storage, tab>>
  PROVE  AInv'
<1>1. CASE Start(k)
  <2>0. /\ UNCHANGED <<users, demo, requests, sent, storage, tab>>
        /\ container' \in [Containers -> {"down", "empty", "users", "up", "failed"}]
    <3>1. container' = [container EXCEPT ![k] = "up"] \/ container' = [container EXCEPT ![k] = "empty"]
      BY <1>1 DEF Start
    <3>2. container' \in [Containers -> {"down", "empty", "users", "up", "failed"}]
      BY <3>1 DEF AInv, Typed
    <3> QED
      BY <1>1, <3>2 DEF Start, tables
  <2>1. Typed'
    BY <2>0 DEF AInv, Typed
  <2>2. Seeded'
    BY <1>1 DEF AInv, Typed, Seeded, Start, tables
  <2>3. AllKnown'
    BY <1>1 DEF AInv, AllKnown, Asked, Start, tables
  <2> QED
    BY <2>1, <2>2, <2>3 DEF AInv
<1>2. CASE SeedUsers(k)
  <2>1. demo = 1 => DemoCommitted
    BY DemoFacts DEF AInv, Typed, Seeded, DemoCommitted
  <2>2. Typed'
    BY <1>2 DEF AInv, Typed, SeedUsers, tables
  <2>3. Seeded'
    BY <1>2, <2>1 DEF AInv, Typed, Seeded, SeedUsers, Inserting, tables
  <2>4. AllKnown'
    BY <1>2 DEF AInv, AllKnown, Asked, SeedUsers, tables
  <2> QED
    BY <2>2, <2>3, <2>4 DEF AInv
<1>3. CASE SeedRest(k)
  <2>1. demo = 0 /\ users = <<>> /\ \A j \in Containers : container[j] = "users" => j = k
    BY <1>3 DEF AInv, Seeded, SeedRest
  <2>2. users' = DemoUsers /\ demo' = 1 /\ UNCHANGED <<requests, sent, storage, tab>>
    BY <1>3, <2>1, DemoFacts DEF SeedRest
  <2>3. Len(users) = 0 /\ Len(users') = 2 /\ users' \in Seq(Row)
    BY <2>1, <2>2, DemoFacts
  <2>4. /\ container' \in [Containers -> {"down", "empty", "users", "up", "failed"}]
        /\ \A j \in Containers : container'[j] # "users"
    BY <1>3, <2>1 DEF AInv, Typed, SeedRest
  <2>5. Typed'
    BY <2>1, <2>2, <2>3, <2>4 DEF AInv, Typed, SomeTab
  <2>6. \A i, j \in 1 .. 2 : DemoUsers[i].email = DemoUsers[j].email => i = j
    BY DemoFacts
  <2>7. Seeded'
    BY <2>2, <2>3, <2>4, <2>6 DEF Seeded
  <2>8. AllKnown'
    BY <2>2, <2>3, KnownGrows DEF AInv, AllKnown, Asked
  <2> QED
    BY <2>5, <2>7, <2>8 DEF AInv
<1>4. CASE Crash(k)
  <2>1. Served /\ users' = users /\ demo' = demo
    BY <1>4, CrashServed DEF tables
  <2>2. container' = [container EXCEPT ![k] = "down"]
    BY <1>4 DEF Crash
  <2>3. Typed'
    BY <2>1, <2>2 DEF AInv, Typed, Served, Asked
  <2>4. Seeded'
    BY <2>1, <2>2 DEF AInv, Typed, Seeded
  <2>5. AllKnown'
    BY <2>1 DEF AllKnown, Served
  <2> QED
    BY <2>3, <2>4, <2>5 DEF AInv
<1> QED
  BY <1>1, <1>2, <1>3, <1>4 DEF Boot

------------------------------------------------------------------------------
(* Steps of the browser.                                                   *)

\* A step of the browser: the server's part stays, some requests lose their page, and one
\* may be new.
Browsed ==
  /\ UNCHANGED backend
  /\ sent' \in Nat
  /\ Asked' \subseteq 1 .. sent'
  /\ \A c \in Asked' :
       \/ /\ c \in Asked
          /\ requests'[c] \in {requests[c], [requests[c] EXCEPT !.awaited = FALSE]}
       \/ KnownTo(requests'[c], Len(users)) /\ requests'[c].server = "sent"

LEMMA UnawaitedKnown ==
  ASSUME NEW r, NEW n \in Nat, KnownTo(r, n), NEW s, s = [r EXCEPT !.awaited = FALSE]
  PROVE  /\ KnownTo(s, n) /\ ~s.awaited
         /\ s.kind = r.kind /\ s.tab = r.tab /\ s.token = r.token /\ s.server = r.server
         /\ s.change = r.change /\ s.answer = r.answer
BY DEF KnownTo, SomeRequest

\* The invariant after a step of the browser, from what it leaves of tokens and users
LEMMA BrowsedAInv ==
  ASSUME AInv, Browsed, storage' \in 0 .. Len(users),
         tab' \in [Tabs -> SomeTab],
         \A t \in Tabs : tab'[t].token <= Len(users) /\ tab'[t].user <= Len(users)
  PROVE  AInv'
<1>1. Len(users) \in Nat /\ \A c \in Asked : KnownTo(requests[c], Len(users))
  BY DEF AInv, AllKnown, Typed
<1>2. AllKnown'
  <2> SUFFICES ASSUME NEW c \in Asked' PROVE KnownTo(requests'[c], Len(users))
    BY DEF AllKnown, Browsed, backend, tables
  <2>1. CASE requests'[c] = [requests[c] EXCEPT !.awaited = FALSE] /\ c \in Asked
    BY <1>1, <2>1, UnawaitedKnown
  <2> QED
    BY <1>1, <2>1 DEF Browsed
<1>3. Typed'
  BY DEF AInv, Typed, Browsed, backend, tables, Asked
<1>4. Seeded'
  BY DEF AInv, Seeded, Browsed, backend, tables
<1> QED
  BY <1>2, <1>3, <1>4 DEF AInv

LEMMA UnawaitedBrowsed ==
  ASSUME AInv, NEW gone, requests' = Unawaited(gone), UNCHANGED <<backend, sent>>
  PROVE  Browsed
<1>1. sent \in Nat /\ Asked \subseteq 1 .. sent
  BY DEF AInv, Typed, Asked
<1>2. \A c \in Asked' : /\ c \in Asked
                        /\ requests'[c] \in {requests[c], [requests[c] EXCEPT !.awaited = FALSE]}
  BY UnawaitedNarrows DEF Asked
<1> QED
  BY <1>1, <1>2 DEF Browsed

\* What Send adds to requests of which all were there before
LEMMA SendAdds ==
  ASSUME AInv, NEW request, NEW rs, Send(request, rs), DOMAIN rs \subseteq Asked
  PROVE  /\ sent' = sent + 1 /\ sent' \notin Asked
         /\ Asked' = DOMAIN rs \cup {sent'}
         /\ requests'[sent'] = request
         /\ \A c \in DOMAIN rs : requests'[c] = rs[c]
<1>1. sent \in Nat /\ Asked \subseteq 1 .. sent
  BY DEF AInv, Typed, Asked
<1>2. /\ sent' = sent + 1
      /\ requests' = [c \in DOMAIN rs \cup {sent'} |-> IF c = sent' THEN request ELSE rs[c]]
  BY DEF Send
<1>3. sent' \notin Asked
  BY <1>1, <1>2
<1> QED
  BY <1>1, <1>2, <1>3 DEF Asked

LEMMA SendBrowsed ==
  ASSUME AInv, NEW request, NEW rs, Send(request, rs), UNCHANGED backend,
         KnownTo(request, Len(users)), request.server = "sent",
         rs = requests \/ \E gone : rs = Unawaited(gone)
  PROVE  Browsed
<1>1. /\ DOMAIN rs \subseteq Asked
      /\ \A c \in DOMAIN rs : rs[c] \in {requests[c], [requests[c] EXCEPT !.awaited = FALSE]}
  BY UnawaitedNarrows DEF Asked
<1>2. sent \in Nat /\ Asked \subseteq 1 .. sent
  BY DEF AInv, Typed, Asked
<1>3. /\ sent' = sent + 1 /\ Asked' = DOMAIN rs \cup {sent'}
      /\ requests'[sent'] = request
      /\ \A c \in DOMAIN rs : requests'[c] = rs[c]
  BY <1>1, SendAdds
<1>4. Asked' \subseteq 1 .. sent'
  BY <1>1, <1>2, <1>3
<1> QED
  BY <1>1, <1>2, <1>3, <1>4 DEF Browsed

LEMMA SentTyped ==
  ASSUME NEW t \in Tabs, NEW token \in Nat,
         NEW kind \in {"login", "me", "other", "create", "update", "change"}
  PROVE  Sent(t, kind, token) \in SomeRequest
<1>1. /\ DemoUsers[1].email \in Emails /\ "demo" \in Passwords
      /\ "enable" \in Changes /\ <<>> \in MaybeRow
  BY DemoFacts DEF Passwords, Changes, MaybeRow
<1> QED
  BY <1>1 DEF Sent, SomeRequest

LEMMA LoadedTab ==
  ASSUME NEW at \in {"login", "app"}, NEW token \in Nat
  PROVE  /\ Loaded(at, token) \in SomeTab
         /\ Loaded(at, token).token = token /\ Loaded(at, token).user = 0
BY DEF Loaded, SomeTab, Roles

\* The requests that the browser sends name accounts that are there.
LEMMA UseBrowsed ==
  ASSUME AInv, NEW t \in Tabs, Use(t)
  PROVE  Browsed
<1>1. /\ users \in Seq(Row) /\ Len(users) \in Nat
      /\ tab[t].token \in 0 .. Len(users) /\ storage \in 0 .. Len(users)
      /\ tab[t].token \in Nat
  BY DEF AInv, Typed, SomeTab
<1>2. ASSUME NEW at \in {"login", "app"}, OpenPage(t, at) PROVE Browsed
  <2>1. CASE storage = 0
    BY <1>2, <2>1, UnawaitedBrowsed DEF OpenPage, Forgotten
  <2>2. CASE storage # 0
    <3>1. Sent(t, "me", storage) \in SomeRequest
      BY <1>1, SentTyped
    <3>2. KnownTo(Sent(t, "me", storage), Len(users)) /\ Sent(t, "me", storage).server = "sent"
      BY <1>1, <3>1 DEF KnownTo, Sent
    <3>3. Send(Sent(t, "me", storage), Forgotten(t)) /\ UNCHANGED backend
      BY <1>2, <2>2 DEF OpenPage
    <3> QED
      BY <3>2, <3>3, SendBrowsed DEF Forgotten
  <2> QED
    BY <2>1, <2>2
<1>3. ASSUME NEW i \in DOMAIN DemoUsers, NEW password \in Passwords,
             SubmitLogin(t, DemoUsers[i].email, password)
      PROVE  Browsed
  <2> DEFINE plain == Sent(t, "login", tab[t].token)
             email == DemoUsers[i].email
             request == [plain EXCEPT !.email = email, !.password = password]
  <2>0. plain \in SomeRequest
    BY <1>1, SentTyped
  <2>1. plain.token = tab[t].token /\ plain.kind = "login"
        /\ plain.server = "sent" /\ email \in Emails
        /\ plain.target = 0 /\ plain.answer = 0
    BY DemoFacts DEF Sent
  <2>2. Send(request, requests) /\ UNCHANGED backend
    BY <1>3 DEF SubmitLogin
  <2> HIDE DEF plain, email
  <2>3. request \in SomeRequest
    BY <2>0, <2>1 DEF SomeRequest
  <2>4. /\ request.kind = plain.kind /\ request.token = plain.token
        /\ request.server = plain.server
        /\ request.target = plain.target /\ request.answer = plain.answer
    BY <2>0 DEF SomeRequest
  <2>5. KnownTo(request, Len(users)) /\ request.server = "sent"
    BY <1>1, <2>1, <2>3, <2>4 DEF KnownTo
  <2> QED
    BY <2>2, <2>5, SendBrowsed
<1>4. CASE Logout(t)
  BY <1>1, <1>4 DEF AInv, Typed, Logout, Browsed, Asked
<1>5. CASE CallOther(t)
  <2>1. Sent(t, "other", tab[t].token) \in SomeRequest
    BY <1>1, SentTyped
  <2>2. KnownTo(Sent(t, "other", tab[t].token), Len(users))
        /\ Sent(t, "other", tab[t].token).server = "sent"
    BY <1>1, <2>1 DEF KnownTo, Sent
  <2>3. Send(Sent(t, "other", tab[t].token), requests) /\ UNCHANGED backend
    BY <1>5 DEF CallOther
  <2> QED
    BY <2>2, <2>3, SendBrowsed
<1>6. ASSUME NEW email \in {"sam", "new"} \X {"lower", "mixed"}, NEW role \in Roles,
             CreateUser(t, email, role)
      PROVE  Browsed
  <2> DEFINE plain == Sent(t, "create", tab[t].token)
             request == [plain EXCEPT !.email = email, !.change = role]
  <2>0. plain \in SomeRequest
    BY <1>1, SentTyped
  <2>1. plain.token = tab[t].token /\ plain.kind = "create"
        /\ plain.server = "sent" /\ email \in Emails
        /\ plain.target = 0 /\ plain.answer = 0
    BY <1>1 DEF Sent, Emails
  <2>2. Send(request, requests) /\ UNCHANGED backend
    BY <1>6 DEF CreateUser
  <2> HIDE DEF plain
  <2>3. role \in Changes
    BY DEF Changes
  <2>4. request \in SomeRequest
    BY <2>0, <2>1, <2>3 DEF SomeRequest
  <2>5. /\ request.kind = plain.kind /\ request.token = plain.token
        /\ request.server = plain.server /\ request.change = role
        /\ request.target = plain.target /\ request.answer = plain.answer
    BY <2>0 DEF SomeRequest
  <2>6. KnownTo(request, Len(users)) /\ request.server = "sent"
    BY <1>1, <2>1, <2>4, <2>5 DEF KnownTo
  <2> QED
    BY <2>2, <2>6, SendBrowsed
<1>7. ASSUME NEW target \in DOMAIN users, NEW change \in Changes, UpdateUser(t, target, change)
      PROVE  Browsed
  <2> DEFINE plain == Sent(t, "update", tab[t].token)
             request == [plain EXCEPT !.target = target, !.change = change]
  <2>0. plain \in SomeRequest
    BY <1>1, SentTyped
  <2>1. plain.token = tab[t].token /\ plain.kind = "update"
        /\ plain.server = "sent" /\ target \in 1 .. Len(users) /\ target \in Nat
        /\ plain.answer = 0
    BY <1>1 DEF Sent
  <2>2. Send(request, requests) /\ UNCHANGED backend
    BY <1>7 DEF UpdateUser
  <2> HIDE DEF plain
  <2>3. request \in SomeRequest
    BY <1>1, <2>0, <2>1 DEF SomeRequest
  <2>4. /\ request.kind = plain.kind /\ request.token = plain.token
        /\ request.server = plain.server /\ request.target = target
        /\ request.answer = plain.answer
    BY <2>0 DEF SomeRequest
  <2>5. KnownTo(request, Len(users)) /\ request.server = "sent"
    BY <1>1, <2>1, <2>3, <2>4 DEF KnownTo
  <2> QED
    BY <2>2, <2>5, SendBrowsed
<1>8. ASSUME NEW current \in Passwords, ChangePassword(t, current) PROVE Browsed
  <2> DEFINE plain == Sent(t, "change", tab[t].token)
             token == tab[t].token
             request == [plain EXCEPT !.target = token, !.password = current, !.change = "other"]
  <2>0. plain \in SomeRequest
    BY <1>1, SentTyped
  <2>1. plain.token = token /\ plain.kind = "change"
        /\ plain.server = "sent" /\ token \in 1 .. Len(users) /\ plain.answer = 0
        /\ "other" \in Changes /\ "other" \in Passwords
    BY <1>1, <1>8 DEF Sent, ChangePassword, Changes, Passwords
  <2>2. Send(request, requests) /\ UNCHANGED backend
    BY <1>8 DEF ChangePassword
  <2> HIDE DEF plain, token
  <2>3. request \in SomeRequest
    BY <2>0, <2>1 DEF SomeRequest
  <2>4. /\ request.kind = plain.kind /\ request.token = plain.token
        /\ request.server = plain.server
        /\ request.target = token /\ request.change = "other"
        /\ request.answer = plain.answer
    BY <2>0 DEF SomeRequest
  <2>5. KnownTo(request, Len(users)) /\ request.server = "sent"
    BY <1>1, <2>1, <2>3, <2>4 DEF KnownTo
  <2> QED
    BY <2>2, <2>5, SendBrowsed
<1> QED
  BY <1>2, <1>3, <1>4, <1>5, <1>6, <1>7, <1>8 DEF Use

LEMMA UseTabs ==
  ASSUME AInv, NEW t \in Tabs, Use(t)
  PROVE  /\ storage' \in 0 .. Len(users)
         /\ tab' \in [Tabs -> SomeTab]
         /\ \A u \in Tabs : tab'[u].token <= Len(users) /\ tab'[u].user <= Len(users)
<1>1. /\ Len(users) \in Nat /\ storage \in 0 .. Len(users) /\ tab \in [Tabs -> SomeTab]
      /\ \A u \in Tabs : tab[u].token <= Len(users) /\ tab[u].user <= Len(users)
  BY DEF AInv, Typed
<1>2. ASSUME NEW at \in {"login", "app"}, OpenPage(t, at)
      PROVE  storage' = storage /\ tab' = [tab EXCEPT ![t] = Loaded(at, storage)]
  BY <1>2 DEF OpenPage
<1>3. ASSUME NEW at \in {"login", "app"}
      PROVE  /\ Loaded(at, storage) \in SomeTab
             /\ Loaded(at, storage).token <= Len(users)
             /\ Loaded(at, storage).user <= Len(users)
  BY <1>1, LoadedTab
<1>4. CASE \E at \in {"login", "app"} : OpenPage(t, at)
  BY <1>1, <1>2, <1>3, <1>4
<1>5. CASE \E i \in DOMAIN DemoUsers, password \in Passwords :
             SubmitLogin(t, DemoUsers[i].email, password)
  <2> DEFINE new == [tab[t] EXCEPT !.submitting = TRUE]
  <2>1. storage' = storage /\ tab' = [tab EXCEPT ![t] = new]
    BY <1>5 DEF SubmitLogin
  <2>2. tab[t] \in SomeTab
    BY <1>1
  <2>3. new \in SomeTab /\ new.token = tab[t].token /\ new.user = tab[t].user
    BY <2>2 DEF SomeTab
  <2> HIDE DEF new
  <2> QED
    BY <1>1, <2>1, <2>3
<1>6. CASE Logout(t)
  <2> DEFINE out == [tab[t] EXCEPT !.token = 0, !.user = 0, !.at = "login"]
  <2>1. storage' = 0 /\ tab' = [tab EXCEPT ![t] = out]
    BY <1>6 DEF Logout
  <2>2. tab[t] \in SomeTab
    BY <1>1
  <2>3. out \in SomeTab /\ out.token = 0 /\ out.user = 0
    BY <2>2 DEF SomeTab
  <2> HIDE DEF out
  <2> QED
    BY <1>1, <2>1, <2>3
<1>7. CASE UNCHANGED <<storage, tab>>
  BY <1>1, <1>7
<1> QED
  BY <1>4, <1>5, <1>6, <1>7
  DEF Use, CallOther, CreateUser, UpdateUser, ChangePassword

\* What becomes of a tab that hears an error
LEMMA AfterErrorTab ==
  ASSUME NEW t \in SomeTab, NEW kind
  PROVE  /\ AfterError(kind, t) \in SomeTab
         /\ AfterError(kind, t).token \in {0, t.token}
         /\ AfterError(kind, t).user \in {0, t.user}
         /\ AfterError(kind, t).overtaken = (t.overtaken \/ (kind = "login" /\ t.loading))
         /\ kind = "me" => /\ AfterError(kind, t).token = 0 /\ AfterError(kind, t).user = 0
                           /\ ~AfterError(kind, t).loading
         /\ kind # "me" => /\ AfterError(kind, t).token = t.token
                           /\ AfterError(kind, t).user = t.user
                           /\ AfterError(kind, t).loading = t.loading
                           /\ AfterError(kind, t).at = t.at
BY DEF AfterError, SignInEnded, Routed, SomeTab

\* What becomes of a tab that learns who uses it
LEMMA KnownAsTab ==
  ASSUME NEW t \in SomeTab, NEW id \in Nat, NEW row \in Row
  PROVE  /\ KnownAs(t, id, row) \in SomeTab
         /\ KnownAs(t, id, row).user = id
         /\ KnownAs(t, id, row).token = t.token
         /\ KnownAs(t, id, row).loading = t.loading
         /\ KnownAs(t, id, row).overtaken = t.overtaken
BY DEF KnownAs, SomeTab, Row

LEMMA RoutedTab ==
  ASSUME NEW t \in SomeTab
  PROVE  /\ Routed(t) \in SomeTab
         /\ Routed(t).user = t.user /\ Routed(t).token = t.token
         /\ Routed(t).loading = t.loading /\ Routed(t).overtaken = t.overtaken
         /\ t.user # 0 => Routed(t).at = "app"
BY DEF Routed, SomeTab

\* What tab t becomes, and the token in storage; the other tabs stay.
Becomes(t, new, token) ==
  /\ new \in SomeTab
  /\ tab' = [tab EXCEPT ![t] = new]
  /\ storage' = token

LEMMA HeardLogin ==
  ASSUME AInv, NEW c \in Asked, HearSuccess(c), requests[c].kind = "login"
  PROVE  \E new : /\ Becomes(requests[c].tab, new, requests[c].answer)
                  /\ new.token = requests[c].answer /\ new.user = requests[c].answer
                  /\ new.loading = tab[requests[c].tab].loading
                  /\ new.overtaken = (tab[requests[c].tab].overtaken \/ new.loading)
                  /\ new.at = "app"
<1> DEFINE t == requests[c].tab
           id == requests[c].answer
           row == requests[c].row[1]
           known == KnownAs(tab[t], id, row)
           signedIn == [SignInEnded(known) EXCEPT !.token = id]
<1>1. /\ KnownTo(requests[c], Len(users)) /\ requests[c].server = "ok"
      /\ tab \in [Tabs -> SomeTab]
  BY DEF AInv, AllKnown, Typed, HearSuccess
<1>2. requests[c].row \in MaybeRow /\ requests[c].row # <<>> /\ id \in Nat /\ id # 0 /\ t \in Tabs
  BY <1>1 DEF KnownTo, SomeRequest
<1>3. row \in Row
  BY <1>2 DEF MaybeRow
<1>4. storage' = id /\ tab' = [tab EXCEPT ![t] = Routed(signedIn)]
  BY DEF HearSuccess
<1> HIDE DEF t, id, row
<1>5. known \in SomeTab /\ known.user = id
      /\ known.loading = tab[t].loading /\ known.overtaken = tab[t].overtaken
  BY <1>1, <1>2, <1>3, KnownAsTab
<1> HIDE DEF known
<1>6. signedIn \in SomeTab /\ signedIn.user = id /\ signedIn.token = id
      /\ signedIn.loading = tab[t].loading
      /\ signedIn.overtaken = (tab[t].overtaken \/ tab[t].loading)
  BY <1>2, <1>5 DEF SomeTab, SignInEnded
<1> HIDE DEF signedIn
<1>7. /\ Routed(signedIn) \in SomeTab
      /\ Routed(signedIn).user = id /\ Routed(signedIn).token = id
      /\ Routed(signedIn).loading = tab[t].loading
      /\ Routed(signedIn).overtaken = (tab[t].overtaken \/ tab[t].loading)
      /\ Routed(signedIn).at = "app"
  BY <1>2, <1>6, RoutedTab
<1> QED
  BY <1>4, <1>7 DEF Becomes, t, id

LEMMA HeardMe ==
  ASSUME AInv, NEW c \in Asked, HearSuccess(c), requests[c].kind = "me"
  PROVE  \E new : /\ Becomes(requests[c].tab, new, storage)
                  /\ new.token = tab[requests[c].tab].token /\ new.user = requests[c].answer
                  /\ ~new.loading
                  /\ new.overtaken = tab[requests[c].tab].overtaken
                  /\ new.at = "app"
<1> DEFINE t == requests[c].tab
           id == requests[c].answer
           row == requests[c].row[1]
           known == KnownAs(tab[t], id, row)
           loaded == [known EXCEPT !.loading = FALSE]
<1>1. /\ KnownTo(requests[c], Len(users)) /\ requests[c].server = "ok"
      /\ tab \in [Tabs -> SomeTab]
  BY DEF AInv, AllKnown, Typed, HearSuccess
<1>2. requests[c].row \in MaybeRow /\ requests[c].row # <<>> /\ id \in Nat /\ id # 0 /\ t \in Tabs
  BY <1>1 DEF KnownTo, SomeRequest
<1>3. row \in Row
  BY <1>2 DEF MaybeRow
<1>4. storage' = storage /\ tab' = [tab EXCEPT ![t] = Routed(loaded)]
  BY DEF HearSuccess
<1> HIDE DEF t, id, row
<1>5. known \in SomeTab /\ known.user = id
      /\ known.token = tab[t].token /\ known.overtaken = tab[t].overtaken
  BY <1>1, <1>2, <1>3, KnownAsTab
<1> HIDE DEF known
<1>6. loaded \in SomeTab /\ loaded.user = id /\ loaded.token = tab[t].token
      /\ ~loaded.loading /\ loaded.overtaken = tab[t].overtaken
  BY <1>2, <1>5 DEF SomeTab
<1> HIDE DEF loaded
<1>7. /\ Routed(loaded) \in SomeTab
      /\ Routed(loaded).user = id /\ Routed(loaded).token = tab[t].token
      /\ ~Routed(loaded).loading
      /\ Routed(loaded).overtaken = tab[t].overtaken
      /\ Routed(loaded).at = "app"
  BY <1>2, <1>6, RoutedTab
<1> QED
  BY <1>4, <1>7 DEF Becomes, t, id

\* An error, or a denied request without a token or from the login page
LEMMA HeardError ==
  ASSUME AInv, NEW c \in Asked,
         \/ HearError(c)
         \/ HearDenied(c) /\ (requests[c].token = 0 \/ tab[requests[c].tab].at = "login")
  PROVE  \E new, old \in SomeTab, token \in {0, storage} :
           /\ old.token \in {0, tab[requests[c].tab].token}
           /\ old.token # tab[requests[c].tab].token => tab[requests[c].tab].at = "login"
           /\ old.user = tab[requests[c].tab].user
           /\ old.loading = tab[requests[c].tab].loading
           /\ old.overtaken = tab[requests[c].tab].overtaken
           /\ old.at = tab[requests[c].tab].at
           /\ new = AfterError(requests[c].kind, old)
           /\ Becomes(requests[c].tab, new, token)
<1> DEFINE t == requests[c].tab
<1>1. t \in Tabs /\ tab[t] \in SomeTab
  BY DEF AInv, AllKnown, Typed, KnownTo, SomeRequest
<1>2. CASE HearError(c)
  <2>1. /\ tab' = [tab EXCEPT ![t] = AfterError(requests[c].kind, tab[t])]
        /\ storage' \in {0, storage}
    BY <1>2 DEF HearError
  <2>2. AfterError(requests[c].kind, tab[t]) \in SomeTab
    BY <1>1, AfterErrorTab
  <2> QED
    BY <1>1, <2>1, <2>2 DEF Becomes
<1>3. CASE HearDenied(c) /\ (requests[c].token = 0 \/ tab[t].at = "login")
  <2> DEFINE old == Dropped(tab[t], requests[c].token # 0)
  <2>1. tab' = [tab EXCEPT ![t] = AfterError(requests[c].kind, old)]
    BY <1>3 DEF HearDenied
  <2>2. storage' \in {0, storage}
    BY <1>3 DEF HearDenied
  <2>3. old.token = IF requests[c].token # 0 THEN 0 ELSE tab[t].token
    BY <1>1 DEF SomeTab, Dropped
  <2>4. /\ old \in SomeTab /\ old.user = tab[t].user
        /\ old.loading = tab[t].loading /\ old.overtaken = tab[t].overtaken
        /\ old.at = tab[t].at
    BY <1>1 DEF SomeTab, Dropped
  <2> HIDE DEF old
  <2>5. /\ old.token \in {0, tab[t].token}
        /\ old.token # tab[t].token => tab[t].at = "login"
    BY <1>3, <2>3
  <2>6. AfterError(requests[c].kind, old) \in SomeTab
    BY <2>4, AfterErrorTab
  <2> QED
    BY <2>1, <2>2, <2>4, <2>5, <2>6 DEF Becomes
<1> QED
  BY <1>2, <1>3

LEMMA HeardDenied ==
  ASSUME AInv, NEW c \in Asked, HearDenied(c),
         requests[c].token # 0, tab[requests[c].tab].at # "login"
  PROVE  /\ Becomes(requests[c].tab, Loaded("login", 0), 0)
         /\ requests' = Forgotten(requests[c].tab)
BY LoadedTab DEF HearDenied, Becomes

\* The requests that are under way after an answer was heard, and what it leaves of tabs
LEMMA HearEffect ==
  ASSUME AInv, NEW c \in Asked, Hear(c)
  PROVE  /\ UNCHANGED <<backend, sent>>
         /\ requests' = Unawaited({c}) \/ requests' = Forgotten(requests[c].tab)
         /\ storage' \in 0 .. Len(users)
         /\ tab' \in [Tabs -> SomeTab]
         /\ \A t \in Tabs : tab'[t].token <= Len(users) /\ tab'[t].user <= Len(users)
         /\ \A t \in Tabs : t # requests[c].tab => tab'[t] = tab[t]
<1> DEFINE t == requests[c].tab
<1>1. /\ Len(users) \in Nat /\ storage \in 0 .. Len(users) /\ tab \in [Tabs -> SomeTab]
      /\ \A u \in Tabs : tab[u].token <= Len(users) /\ tab[u].user <= Len(users)
      /\ KnownTo(requests[c], Len(users)) /\ t \in Tabs
  BY DEF AInv, AllKnown, Typed, KnownTo, SomeRequest
<1>2. /\ UNCHANGED <<backend, sent>>
      /\ requests' = Unawaited({c}) \/ requests' = Forgotten(t)
  BY DEF Hear, HearSuccess, HearError, HearDenied
<1> HIDE DEF t
<1>3. ASSUME NEW new, NEW token \in 0 .. Len(users), Becomes(t, new, token),
             new.token <= Len(users), new.user <= Len(users)
      PROVE  /\ storage' \in 0 .. Len(users)
             /\ tab' \in [Tabs -> SomeTab]
             /\ \A u \in Tabs : tab'[u].token <= Len(users) /\ tab'[u].user <= Len(users)
             /\ \A u \in Tabs : u # t => tab'[u] = tab[u]
  BY <1>1, <1>3 DEF Becomes
<1>4. CASE HearSuccess(c)
  <2>1. requests[c].answer \in 0 .. Len(users)
    BY <1>1, <1>4 DEF KnownTo, HearSuccess
  <2>2. CASE requests[c].kind = "login"
    <3>1. PICK new : /\ Becomes(t, new, requests[c].answer)
                     /\ new.token = requests[c].answer /\ new.user = requests[c].answer
      BY <1>4, <2>2, HeardLogin DEF t
    <3>2. new.token <= Len(users) /\ new.user <= Len(users)
      BY <1>1, <2>1, <3>1
    <3> QED
      BY <1>2, <1>3, <2>1, <3>1, <3>2 DEF t
  <2>3. CASE requests[c].kind = "me"
    <3>1. PICK new : /\ Becomes(t, new, storage)
                     /\ new.token = tab[t].token /\ new.user = requests[c].answer
      BY <1>4, <2>3, HeardMe DEF t
    <3>2. new.token <= Len(users) /\ new.user <= Len(users)
      BY <1>1, <2>1, <3>1
    <3> QED
      BY <1>1, <1>2, <1>3, <3>1, <3>2 DEF t
  <2>4. CASE requests[c].kind \notin {"login", "me"}
    BY <1>1, <1>2, <1>4, <2>4 DEF HearSuccess, t
  <2> QED
    BY <1>2, <2>2, <2>3, <2>4 DEF t
<1>5. CASE \/ HearError(c)
           \/ HearDenied(c) /\ (requests[c].token = 0 \/ tab[t].at = "login")
  <2>1. PICK new, old \in SomeTab, token \in {0, storage} :
           /\ old.token \in {0, tab[t].token}
           /\ old.user = tab[t].user
           /\ new = AfterError(requests[c].kind, old)
           /\ Becomes(t, new, token)
    BY <1>5, HeardError DEF t
  <2>2. new.token <= Len(users) /\ new.user <= Len(users) /\ token \in 0 .. Len(users)
    BY <1>1, <2>1, AfterErrorTab
  <2> QED
    BY <1>2, <1>3, <2>1, <2>2 DEF t
<1>6. CASE HearDenied(c) /\ requests[c].token # 0 /\ tab[t].at # "login"
  <2>1. Becomes(t, Loaded("login", 0), 0)
    BY <1>6, HeardDenied DEF t
  <2>2. /\ Loaded("login", 0).token <= Len(users) /\ Loaded("login", 0).user <= Len(users)
        /\ 0 \in 0 .. Len(users)
    BY <1>1, LoadedTab
  <2> QED
    BY <1>2, <1>3, <2>1, <2>2 DEF t
<1> QED
  BY <1>4, <1>5, <1>6 DEF Hear

LEMMA NextAInv == AInv /\ [Next]_vars => AInv'
<1> SUFFICES ASSUME AInv, [Next]_vars PROVE AInv'
  OBVIOUS
<1>1. ASSUME NEW k \in Containers, Boot(k), UNCHANGED <<storage, tab>> PROVE AInv'
  BY <1>1, BootAInv
<1>2. ASSUME NEW c \in Asked, Serve(c), UNCHANGED <<storage, tab>> PROVE AInv'
  <2>1. UNCHANGED <<demo, container>>
    BY <1>2 DEF Serve, Login, Deny, Expire, Read, Check, CommitCreate, CommitUpdate, Fail, Unchanged
  <2> QED
    BY <1>2, <2>1, ServeEffect, ServedAInv
<1>3. ASSUME NEW c \in Asked, Hear(c) PROVE AInv'
  <2>1. Browsed
    BY <1>3, HearEffect, UnawaitedBrowsed DEF Forgotten
  <2> QED
    BY <1>3, <2>1, HearEffect, BrowsedAInv
<1>4. ASSUME NEW t \in Tabs, Use(t) PROVE AInv'
  BY <1>4, UseBrowsed, UseTabs, BrowsedAInv
<1>5. CASE UNCHANGED vars
  BY <1>5 DEF vars, AInv, Typed, Seeded, AllKnown, Asked
<1> QED
  BY <1>1, <1>2, <1>3, <1>4, <1>5 DEF Next

LEMMA AInvariance == Spec => []AInv
BY InitAInv, NextAInv, PTL DEF Spec

\* The demo accounts and the other demo data are there together or not at all, and once,
\* whatever containers seed side by side and die meanwhile (seed).
THEOREM SeedIsWhole == Spec => []DemoWhole
<1>1. AInv => DemoWhole
  <2> SUFFICES ASSUME AInv PROVE DemoWhole
    OBVIOUS
  <2>1. ASSUME demo = 1, NEW i \in DOMAIN DemoUsers
        PROVE  \E j \in DOMAIN users : \A k \in DOMAIN users :
                 users[k].email = DemoUsers[i].email <=> k = j
    <3>1. i \in 1 .. 2 /\ i \in 1 .. Len(users) /\ DOMAIN users = 1 .. Len(users)
      BY <2>1, DemoFacts DEF AInv, Typed, Seeded
    <3>2. users[i].email = DemoUsers[i].email
      BY <2>1, <3>1 DEF AInv, Seeded
    <3>3. \A k \in DOMAIN users : users[k].email = users[i].email => k = i
      BY <3>1 DEF AInv, Seeded
    <3> QED
      BY <3>1, <3>2, <3>3
  <2> QED
    BY <2>1 DEF AInv, Typed, Seeded, DemoWhole
<1> QED
  BY <1>1, AInvariance, PTL

------------------------------------------------------------------------------
(* The lockout.                                                            *)

NoAdmin == \A i \in DOMAIN users : ~(users[i].active /\ users[i].role = "admin")

\* No call that has passed its checks would bring an admin back.
NonePending ==
  \A c \in Asked : requests[c].server = "checked" => requests[c].change \notin {"enable", "admin"}

LEMMA FlushedNoAdmin ==
  ASSUME NEW c, NEW row \in Row, ~(row.active /\ row.role = "admin"),
         requests[c].change \notin {"enable", "admin"}
  PROVE  ~(Flushed(c, row).active /\ Flushed(c, row).role = "admin")
<1> DEFINE change == requests[c].change
<1>1. /\ Changed(row, change).active => row.active
      /\ Changed(row, change).role = "admin" => row.role = "admin"
  BY DEF Changed, Row
<1> QED
  BY <1>1 DEF Flushed

\* No step of an endpoint makes an active admin.
LEMMA ServeNoAdmin ==
  ASSUME AInv, LockedOut, NEW c \in Asked, Serve(c)
  PROVE  NoAdmin'
<1>1. users \in Seq(Row) /\ NoAdmin /\ KnownTo(requests[c], Len(users))
  BY DEF AInv, AllKnown, Typed, LockedOut, NoAdmin
<1>2. CASE CommitCreate(c)
  <2>1. CASE Free(requests[c].email)
    <3>1. users' = Append(users, Created(c)) /\ requests[c].change # "admin"
      BY <1>2, <2>1 DEF CommitCreate, At, LockedOut
    <3>2. Created(c).role = requests[c].change /\ Created(c) \in Row
      BY <1>1, <1>2 DEF Created, Row, KnownTo, SomeRequest, CommitCreate
    <3> QED
      BY <1>1, <3>1, <3>2 DEF NoAdmin
  <2>2. CASE ~Free(requests[c].email)
    BY <1>1, <1>2, <2>2 DEF CommitCreate, Raise, NoAdmin
  <2> QED
    BY <2>1, <2>2
<1>3. CASE CommitUpdate(c)
  <2> DEFINE id == requests[c].target
  <2>1. /\ users' = [users EXCEPT ![id] = Flushed(c, users[id])]
        /\ requests[c].change \notin {"enable", "admin"}
        /\ id \in 1 .. Len(users)
    BY <1>1, <1>3 DEF CommitUpdate, At, LockedOut, KnownTo
  <2> HIDE DEF id
  <2>2. users[id] \in Row /\ ~(users[id].active /\ users[id].role = "admin")
    BY <1>1, <2>1 DEF NoAdmin
  <2>3. ~(Flushed(c, users[id]).active /\ Flushed(c, users[id]).role = "admin")
    BY <2>1, <2>2, FlushedNoAdmin
  <2> QED
    BY <1>1, <2>1, <2>3 DEF NoAdmin
<1>4. CASE Login(c) \/ Deny(c) \/ Expire(c) \/ Read(c) \/ Check(c) \/ Fail(c)
  <2>1. users' = users
    BY <1>4 DEF Login, Deny, Expire, Read, Check, Fail, Raise
  <2> QED
    BY <1>1, <2>1 DEF NoAdmin
<1> QED
  BY <1>2, <1>3, <1>4 DEF Serve

\* Without an active admin no call passes its checks that would bring one back.
LEMMA ServedNonePending ==
  ASSUME AInv, LockedOut, Served
  PROVE  NonePending'
<1> SUFFICES ASSUME NEW c \in Asked', requests'[c].server = "checked"
             PROVE  requests'[c].change \notin {"enable", "admin"}
  BY DEF NonePending
<1>1. /\ c \in Asked /\ requests'[c].change = requests[c].change
      /\ requests'[c].kind = requests[c].kind /\ KnownTo(requests'[c], Len(users'))
      /\ \/ requests[c].server = "checked"
         \/ Authenticated(c) /\ ~Unfit(c)
  BY DEF Served, SameCall
<1>2. CASE requests[c].server = "checked"
  BY <1>1, <1>2 DEF LockedOut
<1>3. CASE Authenticated(c) /\ ~Unfit(c)
  <2>1. requests[c].token \in DOMAIN users
    BY <1>1, <1>3 DEF Authenticated, AInv, AllKnown, Typed, KnownTo, SomeRequest
  <2>2. ~IsAdmin(c)
    BY <1>3, <2>1 DEF Authenticated, IsAdmin, LockedOut
  <2>3. requests[c].kind = "change"
    BY <1>1, <1>3, <2>2 DEF Unfit, KnownTo
  <2> QED
    BY <1>1, <2>3 DEF KnownTo, Passwords
<1> QED
  BY <1>1, <1>2, <1>3

LEMMA BrowsedNonePending ==
  ASSUME AInv, NonePending, Browsed
  PROVE  NonePending'
<1> SUFFICES ASSUME NEW c \in Asked', requests'[c].server = "checked"
             PROVE  requests'[c].change \notin {"enable", "admin"}
  BY DEF NonePending
<1>1. c \in Asked /\ requests'[c] \in {requests[c], [requests[c] EXCEPT !.awaited = FALSE]}
  BY DEF Browsed
<1>2. KnownTo(requests[c], Len(users)) /\ Len(users) \in Nat
  BY <1>1 DEF AInv, AllKnown, Typed
<1>3. /\ requests[c].server = requests'[c].server
      /\ requests[c].change = requests'[c].change
  BY <1>1, <1>2, UnawaitedKnown
<1> QED
  BY <1>1, <1>3 DEF NonePending

\* Once the last admin was disabled or demoted it stays so: no open session, password or
\* call under way brings one back (get_current_user, require_roles, update_user).
THEOREM NoWayBack == Spec => LockoutIsFinal
<1>1. ASSUME AInv, LockedOut, [Next]_vars PROVE LockedOut'
  <2>0. users # <<>> /\ NoAdmin /\ NonePending /\ Len(users) \in Nat
    BY <1>1 DEF LockedOut, NoAdmin, NonePending, AInv, Typed
  <2>1. ASSUME NEW k \in Containers, Boot(k) PROVE LockedOut'
    <3>1. CASE Start(k) \/ SeedUsers(k)
      BY <1>1, <3>1 DEF Start, SeedUsers, tables, LockedOut, Asked
    <3>2. CASE SeedRest(k)
      BY <1>1, <2>0, <3>2 DEF SeedRest, AInv, Seeded
    <3>3. CASE Crash(k)
      <4>1. NonePending' /\ users' = users
        BY <1>1, <3>3, CrashServed, ServedNonePending DEF tables
      <4> QED
        BY <1>1, <4>1 DEF LockedOut, NonePending
    <3> QED
      BY <2>1, <3>1, <3>2, <3>3 DEF Boot
  <2>2. ASSUME NEW c \in Asked, Serve(c) PROVE LockedOut'
    <3>1. NoAdmin' /\ NonePending'
      BY <1>1, <2>2, ServeEffect, ServeNoAdmin, ServedNonePending
    <3>2. Len(users') >= Len(users) /\ users' \in Seq(Row) /\ users \in Seq(Row)
      BY <1>1, <2>2, ServeEffect DEF RowsKept, AInv, Typed
    <3>3. users' # <<>>
      BY <2>0, <3>2
    <3> QED
      BY <3>1, <3>3 DEF LockedOut, NoAdmin, NonePending
  <2>3. ASSUME Browsed PROVE LockedOut'
    <3>1. NonePending' /\ users' = users
      BY <1>1, <2>0, <2>3, BrowsedNonePending DEF Browsed, backend, tables
    <3> QED
      BY <1>1, <3>1 DEF LockedOut, NonePending
  <2>4. ASSUME NEW c \in Asked, Hear(c) PROVE LockedOut'
    BY <1>1, <2>3, <2>4, HearEffect, UnawaitedBrowsed DEF Forgotten
  <2>5. ASSUME NEW t \in Tabs, Use(t) PROVE LockedOut'
    BY <1>1, <2>3, <2>5, UseBrowsed
  <2>6. CASE UNCHANGED vars
    BY <1>1, <2>6 DEF vars, LockedOut, Asked
  <2> QED
    BY <1>1, <2>1, <2>2, <2>4, <2>5, <2>6 DEF Next
<1>2. AInv /\ [Next]_vars => [LockedOut => LockedOut']_vars
  BY <1>1
<1> QED
  BY <1>2, AInvariance, PTL DEF Spec, LockoutIsFinal

------------------------------------------------------------------------------
(* The tab and the user that it shows.                                     *)

\* The tab t waits for the request c.
Waits(t, c) == requests[c].tab = t /\ requests[c].awaited

\* Unless a sign-in was answered before bootstrap was: the login page shows no user; a tab
\* that is not loading has the token of its user; one that is loading shows no user and
\* waits for the one answer about its token and for sign-ins.
SessionOf(t) ==
  ~tab[t].overtaken =>
    /\ tab[t].at = "login" => tab[t].user = 0
    /\ IF tab[t].loading THEN tab[t].user = 0 ELSE tab[t].token = tab[t].user
    /\ \A c \in Asked : Waits(t, c) =>
         /\ tab[t].loading => requests[c].kind \in {"me", "login"}
         /\ requests[c].kind = "me" =>
              /\ tab[t].loading
              /\ requests[c].token = tab[t].token
              /\ requests[c].server = "ok" => requests[c].answer = requests[c].token
              /\ \A other \in Asked :
                   Waits(t, other) /\ requests[other].kind = "me" => other = c

Session == \A t \in Tabs : SessionOf(t)

LEMMA InitSession == Init => Session
BY DEF Init, AccountsInit, Session, SessionOf, Asked, Loaded

\* What a tab waits for it waited for before, and the answer about it is its token's.
StillWaits(t) ==
  \A c \in Asked' : Waits(t, c)' =>
    /\ c \in Asked /\ Waits(t, c)
    /\ requests'[c].kind = requests[c].kind /\ requests'[c].token = requests[c].token
    /\ requests[c].kind = "me" /\ requests'[c].server = "ok" =>
         \/ requests'[c].answer = requests[c].token
         \/ requests[c].server = "ok" /\ requests'[c].answer = requests[c].answer

LEMMA SessionKept ==
  ASSUME NEW t \in Tabs, SessionOf(t), StillWaits(t), tab'[t] = tab[t]
  PROVE  SessionOf(t)'
<1> SUFFICES ASSUME ~tab[t].overtaken PROVE SessionOf(t)'
  BY DEF SessionOf
<1>1. ASSUME NEW c \in Asked', Waits(t, c)'
      PROVE  /\ tab[t].loading => requests'[c].kind \in {"me", "login"}
             /\ requests'[c].kind = "me" =>
                  /\ tab[t].loading
                  /\ requests'[c].token = tab[t].token
                  /\ requests'[c].server = "ok" => requests'[c].answer = requests'[c].token
                  /\ \A other \in Asked' :
                       Waits(t, other)' /\ requests'[other].kind = "me" => other = c
  BY <1>1 DEF SessionOf, StillWaits
<1> QED
  BY <1>1 DEF SessionOf

LEMMA ServedStillWaits ==
  ASSUME Served, NEW t \in Tabs
  PROVE  StillWaits(t)
BY DEF Served, SameCall, StillWaits, Waits

\* A page that is gone waits for nothing; the others wait as before.
LEMMA UnawaitedWaits ==
  ASSUME AInv, NEW gone, NEW c \in DOMAIN Unawaited(gone), Unawaited(gone)[c].awaited
  PROVE  c \in Asked /\ c \notin gone /\ Unawaited(gone)[c] = requests[c]
<1>1. /\ c \in Asked
      /\ Unawaited(gone)[c] = IF c \in gone THEN [requests[c] EXCEPT !.awaited = FALSE]
                              ELSE requests[c]
  BY UnawaitedNarrows
<1>2. KnownTo(requests[c], Len(users)) /\ Len(users) \in Nat
  BY <1>1 DEF AInv, AllKnown, Typed
<1>3. CASE c \in gone
  BY <1>1, <1>2, <1>3, UnawaitedKnown
<1> QED
  BY <1>1, <1>3

LEMMA UnawaitedStillWaits ==
  ASSUME AInv, NEW gone, requests' = Unawaited(gone), NEW t \in Tabs
  PROVE  /\ StillWaits(t)
         /\ \A c \in Asked' : Waits(t, c)' => c \notin gone
<1> SUFFICES ASSUME NEW c \in Asked', Waits(t, c)'
             PROVE  /\ c \in Asked /\ c \notin gone /\ requests'[c] = requests[c]
  BY DEF StillWaits, Waits
<1> QED
  BY UnawaitedWaits DEF Waits, Asked

LEMMA HearSession ==
  ASSUME AInv, Session, NEW c \in Asked, Hear(c), NEW t \in Tabs
  PROVE  SessionOf(t)'
<1>1. PICK gone : /\ requests' = Unawaited(gone)
                  /\ gone = {c} \/ gone = {d \in Asked : requests[d].tab = requests[c].tab}
  BY HearEffect DEF Forgotten
<1>2. StillWaits(t) /\ \A d \in Asked' : Waits(t, d)' => d \notin gone
  BY <1>1, UnawaitedStillWaits
<1>3. SessionOf(t) /\ tab[t] \in SomeTab /\ tab \in [Tabs -> SomeTab] /\ c \in gone
  BY <1>1 DEF Session, AInv, Typed
<1>4. CASE tab'[t] = tab[t]
  BY <1>2, <1>3, <1>4, SessionKept
<1>5. CASE requests[c].tab = t
  <2>1. Waits(t, c)
    BY <1>5 DEF Hear, HearSuccess, HearError, HearDenied, Waiting, Waits
  <2>2. ASSUME ~tab[t].overtaken
        PROVE  /\ tab[t].loading => requests[c].kind \in {"me", "login"}
               /\ requests[c].kind = "me" => tab[t].loading
               /\ requests[c].kind = "me" \/ ~tab[t].loading =>
                    \A d \in Asked' : Waits(t, d)' => requests'[d].kind # "me"
    BY <1>2, <1>3, <2>1, <2>2 DEF SessionOf, StillWaits
  <2>3. CASE HearSuccess(c) /\ requests[c].kind = "login"
    <3>1. PICK new : /\ Becomes(t, new, requests[c].answer)
                     /\ new.token = requests[c].answer /\ new.user = requests[c].answer
                     /\ new.loading = tab[t].loading
                     /\ new.overtaken = (tab[t].overtaken \/ new.loading)
                     /\ new.at = "app"
      BY <1>5, <2>3, HeardLogin
    <3>2. tab'[t] = new
      BY <1>3, <3>1 DEF Becomes
    <3> QED
      BY <2>2, <2>3, <3>1, <3>2 DEF SessionOf
  <2>4. CASE HearSuccess(c) /\ requests[c].kind = "me"
    <3>1. PICK new : /\ Becomes(t, new, storage)
                     /\ new.token = tab[t].token /\ new.user = requests[c].answer
                     /\ ~new.loading
                     /\ new.overtaken = tab[t].overtaken
                     /\ new.at = "app"
      BY <1>5, <2>4, HeardMe
    <3>2. tab'[t] = new
      BY <1>3, <3>1 DEF Becomes
    <3>3. ~tab[t].overtaken => requests[c].answer = tab[t].token
      BY <1>3, <2>1, <2>4 DEF SessionOf, HearSuccess
    <3> QED
      BY <2>2, <2>4, <3>1, <3>2, <3>3 DEF SessionOf
  <2>5. CASE HearSuccess(c) /\ requests[c].kind \notin {"login", "me"}
    <3>1. tab' = tab
      BY <2>5 DEF HearSuccess
    <3> QED
      BY <1>4, <3>1
  <2>6. CASE \/ HearError(c)
             \/ HearDenied(c) /\ (requests[c].token = 0 \/ tab[t].at = "login")
    <3>1. PICK new, old \in SomeTab, token \in {0, storage} :
           /\ old.token \in {0, tab[t].token}
           /\ old.token # tab[t].token => tab[t].at = "login"
           /\ old.user = tab[t].user
           /\ old.loading = tab[t].loading
           /\ old.overtaken = tab[t].overtaken
           /\ old.at = tab[t].at
           /\ new = AfterError(requests[c].kind, old)
           /\ Becomes(t, new, token)
      BY <1>5, <2>6, HeardError
    <3>2. tab'[t] = new
      BY <1>3, <3>1 DEF Becomes
    <3>3. CASE requests[c].kind = "me"
      <4>1. /\ new.token = 0 /\ new.user = 0 /\ ~new.loading
            /\ tab[t].overtaken => new.overtaken
        BY <3>1, <3>3, AfterErrorTab
      <4> QED
        BY <2>2, <3>2, <3>3, <4>1 DEF SessionOf
    <3>4. CASE requests[c].kind # "me"
      <4>1. /\ new.token = old.token /\ new.user = tab[t].user
            /\ new.loading = tab[t].loading /\ new.at = tab[t].at
            /\ new.overtaken = (tab[t].overtaken \/ (requests[c].kind = "login" /\ new.loading))
        BY <3>1, <3>4, AfterErrorTab
      <4>2. ~new.overtaken => /\ ~tab[t].overtaken /\ ~tab[t].loading
                              /\ new.token = new.user
                              /\ tab[t].at = "login" => tab[t].user = 0
        BY <1>3, <2>2, <3>1, <3>4, <4>1 DEF SessionOf
      <4> QED
        BY <2>2, <3>2, <4>1, <4>2 DEF SessionOf
    <3> QED
      BY <3>3, <3>4
  <2>7. CASE HearDenied(c) /\ requests[c].token # 0 /\ tab[t].at # "login"
    <3>1. Becomes(t, Loaded("login", 0), 0) /\ requests' = Forgotten(t)
      BY <1>5, <2>7, HeardDenied
    <3>2. tab'[t] = Loaded("login", 0)
      BY <1>3, <3>1 DEF Becomes
    <3>3. \A d \in Asked' : ~Waits(t, d)'
      <4> DEFINE all == {d \in Asked : requests[d].tab = t}
      <4>1. \A d \in Asked' : Waits(t, d)' => d \notin all
        BY <3>1, UnawaitedStillWaits DEF Forgotten
      <4>2. \A d \in Asked' : Waits(t, d)' => d \in all
        BY <1>2 DEF StillWaits, Waits
      <4> QED
        BY <4>1, <4>2
    <3> QED
      BY <3>2, <3>3 DEF SessionOf, Loaded
  <2> QED
    BY <1>5, <2>3, <2>4, <2>5, <2>6, <2>7 DEF Hear
<1>6. requests[c].tab # t => tab'[t] = tab[t]
  BY HearEffect
<1> QED
  BY <1>4, <1>5, <1>6

\* After a request was sent from tab t, the other tabs wait as before, and t waits for it,
\* and for what rs keeps.
LEMMA SendWaits ==
  ASSUME AInv, NEW t \in Tabs, NEW request, request.tab = t, NEW rs, Send(request, rs),
         rs = requests \/ \E gone : rs = Unawaited(gone)
  PROVE  /\ \A u \in Tabs : u # t => StillWaits(u)
         /\ \A c \in Asked' : Waits(t, c)' =>
              \/ c = sent' /\ requests'[c] = request
              \/ c \in DOMAIN rs /\ c \in Asked /\ rs[c] = requests[c]
                 /\ requests'[c] = requests[c] /\ Waits(t, c)
<1>1. DOMAIN rs \subseteq Asked
  BY UnawaitedNarrows DEF Asked
<1>2. /\ Asked' = DOMAIN rs \cup {sent'}
      /\ requests'[sent'] = request
      /\ \A c \in DOMAIN rs : requests'[c] = rs[c]
  BY <1>1, SendAdds
<1>3. \A c \in DOMAIN rs : rs[c].awaited => rs[c] = requests[c]
  BY UnawaitedWaits
<1>4. ASSUME NEW u \in Tabs, NEW c \in Asked', Waits(u, c)'
      PROVE  \/ c = sent' /\ requests'[c] = request /\ u = t
             \/ c \in DOMAIN rs /\ c \in Asked /\ rs[c] = requests[c]
                /\ requests'[c] = requests[c] /\ Waits(u, c)
  BY <1>1, <1>2, <1>3, <1>4 DEF Waits
<1> QED
  BY <1>4 DEF StillWaits

\* A tab may send what is not about its token; while it is loading, a sign-in.
LEMMA SendSession ==
  ASSUME AInv, Session, NEW t \in Tabs, NEW request, Send(request, requests),
         request.tab = t, request.kind # "me",
         \A u \in Tabs : u # t => tab'[u] = tab[u],
         ~tab'[t].overtaken =>
           /\ ~tab[t].overtaken
           /\ tab[t].loading => request.kind = "login"
           /\ tab'[t].loading = tab[t].loading
           /\ tab'[t].token = tab[t].token /\ tab'[t].user = tab[t].user
           /\ tab'[t].at = tab[t].at,
         NEW u \in Tabs
  PROVE  SessionOf(u)'
<1>1. CASE u # t
  BY <1>1, SendWaits, SessionKept DEF Session
<1>2. CASE u = t
  <2> SUFFICES ASSUME ~tab'[t].overtaken PROVE SessionOf(t)'
    BY <1>2 DEF SessionOf
  <2>1. SessionOf(t) /\ ~tab[t].overtaken
    BY DEF Session
  <2>2. \A c \in Asked' : Waits(t, c)' =>
          \/ requests'[c] = request
          \/ c \in Asked /\ requests'[c] = requests[c] /\ Waits(t, c)
    BY SendWaits
  <2>3. ASSUME NEW c \in Asked', Waits(t, c)'
        PROVE  /\ tab'[t].loading => requests'[c].kind \in {"me", "login"}
               /\ requests'[c].kind = "me" =>
                    /\ tab'[t].loading
                    /\ requests'[c].token = tab'[t].token
                    /\ requests'[c].server = "ok" => requests'[c].answer = requests'[c].token
                    /\ \A other \in Asked' :
                         Waits(t, other)' /\ requests'[other].kind = "me" => other = c
    BY <2>1, <2>2, <2>3 DEF SessionOf
  <2> QED
    BY <2>1, <2>3 DEF SessionOf
<1> QED
  BY <1>1, <1>2

LEMMA UseSession ==
  ASSUME AInv, Session, NEW t \in Tabs, Use(t), NEW u \in Tabs
  PROVE  SessionOf(u)'
<1>0. /\ tab \in [Tabs -> SomeTab] /\ tab[t] \in SomeTab /\ storage \in Nat
      /\ SessionOf(t) /\ SessionOf(u)
  BY DEF AInv, Typed, Session
<1>1. ASSUME NEW at \in {"login", "app"}, OpenPage(t, at) PROVE SessionOf(u)'
  <2> DEFINE all == {d \in Asked : requests[d].tab = t}
  <2>1. tab' = [tab EXCEPT ![t] = Loaded(at, storage)]
    BY <1>1 DEF OpenPage
  <2>2. CASE storage = 0
    <3>1. requests' = Unawaited(all)
      BY <1>1, <2>2 DEF OpenPage, Forgotten
    <3>2. StillWaits(u) /\ \A d \in Asked' : Waits(u, d)' => d \notin all
      BY <3>1, UnawaitedStillWaits
    <3>3. CASE u = t
      <4>1. \A d \in Asked' : ~Waits(t, d)'
        BY <3>2, <3>3 DEF StillWaits, Waits
      <4> QED
        BY <1>0, <2>1, <2>2, <3>3, <4>1 DEF SessionOf, Loaded
    <3>4. CASE u # t
      BY <1>0, <2>1, <3>2, <3>4, SessionKept
    <3> QED
      BY <3>3, <3>4
  <2>3. CASE storage # 0
    <3> DEFINE request == Sent(t, "me", storage)
    <3>1. Send(request, Unawaited(all)) /\ request.tab = t
      BY <1>1, <2>3 DEF OpenPage, Forgotten, Sent
    <3>2. request.kind = "me" /\ request.token = storage /\ request.server = "sent"
      BY DEF Sent
    <3> HIDE DEF request
    <3>3. CASE u = t
      <4>1. ASSUME NEW d \in Asked', Waits(t, d)' PROVE d = sent' /\ requests'[d] = request
        <5>1. CASE d \in DOMAIN Unawaited(all) /\ d \in Asked
                   /\ Unawaited(all)[d] = requests[d] /\ Waits(t, d)
          <6>1. d \notin all
            BY <5>1, UnawaitedWaits DEF Waits
          <6> QED
            BY <5>1, <6>1 DEF Waits
        <5> QED
          BY <3>1, <4>1, <5>1, SendWaits
      <4>2. /\ tab'[t].user = 0 /\ tab'[t].loading /\ tab'[t].token = storage
        BY <1>0, <2>1, <2>3 DEF Loaded
      <4> QED
        BY <3>2, <3>3, <4>1, <4>2 DEF SessionOf
    <3>4. CASE u # t
      <4>1. StillWaits(u)
        BY <3>1, <3>4, SendWaits
      <4> QED
        BY <1>0, <2>1, <3>4, <4>1, SessionKept
    <3> QED
      BY <3>3, <3>4
  <2> QED
    BY <2>2, <2>3
<1>2. ASSUME NEW email, NEW password, SubmitLogin(t, email, password) PROVE SessionOf(u)'
  <2> DEFINE request == [Sent(t, "login", tab[t].token) EXCEPT
                           !.email = email, !.password = password]
  <2>1. Send(request, requests) /\ request.tab = t /\ request.kind = "login"
    BY <1>2 DEF SubmitLogin, Sent
  <2>2. tab' = [tab EXCEPT ![t].submitting = TRUE]
    BY <1>2 DEF SubmitLogin
  <2>3. /\ \A v \in Tabs : v # t => tab'[v] = tab[v]
        /\ tab'[t].overtaken = tab[t].overtaken
        /\ tab'[t].loading = tab[t].loading /\ tab'[t].token = tab[t].token
        /\ tab'[t].user = tab[t].user /\ tab'[t].at = tab[t].at
    BY <1>0, <2>2 DEF SomeTab
  <2> HIDE DEF request
  <2> QED
    BY <2>1, <2>3, SendSession
<1>3. CASE Logout(t)
  <2>1. /\ requests' = requests /\ tab[t].user # 0
        /\ tab' = [tab EXCEPT ![t].token = 0, ![t].user = 0, ![t].at = "login"]
    BY <1>3 DEF Logout
  <2>2. /\ tab'[t].token = 0 /\ tab'[t].user = 0 /\ tab'[t].loading = tab[t].loading
        /\ tab'[t].overtaken = tab[t].overtaken
        /\ \A v \in Tabs : v # t => tab'[v] = tab[v]
    BY <1>0, <2>1 DEF SomeTab
  <2>3. CASE u = t
    BY <1>0, <2>1, <2>2, <2>3 DEF SessionOf, Asked, Waits
  <2>4. CASE u # t
    BY <1>0, <2>1, <2>2, <2>4, SessionKept DEF StillWaits, Asked, Waits
  <2> QED
    BY <2>3, <2>4
<1>4. ASSUME NEW request, Send(request, requests), request.tab = t, request.kind # "me",
             tab[t].user # 0, tab' = tab
      PROVE  SessionOf(u)'
  <2>1. ~tab[t].overtaken => ~tab[t].loading
    BY <1>0, <1>4 DEF SessionOf
  <2> QED
    BY <1>4, <2>1, SendSession
<1>5. CASE CallOther(t)
  BY <1>4, <1>5 DEF CallOther, Sent
<1>6. ASSUME NEW email, NEW role, CreateUser(t, email, role) PROVE SessionOf(u)'
  BY <1>4, <1>6 DEF CreateUser, UsersPage, Sent
<1>7. ASSUME NEW target, NEW change, UpdateUser(t, target, change) PROVE SessionOf(u)'
  BY <1>4, <1>7 DEF UpdateUser, UsersPage, Sent
<1>8. ASSUME NEW current, ChangePassword(t, current) PROVE SessionOf(u)'
  BY <1>4, <1>8 DEF ChangePassword, Sent
<1> QED
  BY <1>1, <1>2, <1>3, <1>5, <1>6, <1>7, <1>8 DEF Use

LEMMA NextSession == AInv /\ Session /\ [Next]_vars => Session'
<1> SUFFICES ASSUME AInv, Session, [Next]_vars, NEW t \in Tabs PROVE SessionOf(t)'
  BY DEF Session
<1>0. SessionOf(t)
  BY DEF Session
<1>1. ASSUME requests' = requests, tab' = tab PROVE SessionOf(t)'
  BY <1>0, <1>1, SessionKept DEF StillWaits, Asked, Waits
<1>2. ASSUME NEW k \in Containers, Boot(k), UNCHANGED <<storage, tab>> PROVE SessionOf(t)'
  <2>1. CASE Crash(k)
    BY <1>0, <1>2, <2>1, CrashServed, ServedStillWaits, SessionKept
  <2>2. CASE Start(k) \/ SeedUsers(k) \/ SeedRest(k)
    BY <1>1, <1>2, <2>2 DEF Start, SeedUsers, SeedRest
  <2> QED
    BY <1>2, <2>1, <2>2 DEF Boot
<1>3. ASSUME NEW c \in Asked, Serve(c), UNCHANGED <<storage, tab>> PROVE SessionOf(t)'
  BY <1>0, <1>3, ServeEffect, ServedStillWaits, SessionKept
<1>4. ASSUME NEW c \in Asked, Hear(c) PROVE SessionOf(t)'
  BY <1>4, HearSession
<1>5. ASSUME NEW u \in Tabs, Use(u) PROVE SessionOf(t)'
  BY <1>5, UseSession
<1>6. CASE UNCHANGED vars
  BY <1>1, <1>6 DEF vars
<1> QED
  BY <1>2, <1>3, <1>4, <1>5, <1>6 DEF Next

\* A tab sends its requests as the user it shows, and without a token when it shows none,
\* except in a document in which a sign-in was answered before bootstrap was: through
\* sign-ins and sign-outs in all tabs and late answers (AuthProvider, apiRequest).
THEOREM ActsAsShown == Spec => []SignedInAsToken
<1>1. Spec => []Session
  BY InitSession, NextSession, AInvariance, PTL DEF Spec
<1>2. Session => SignedInAsToken
  BY DEF Session, SessionOf, SignedInAsToken
<1> QED
  BY <1>1, <1>2, PTL

------------------------------------------------------------------------------
(* Types.  How many accounts there may be takes an argument: every one but *)
(* the two of the seed was asked for by a request of its own.              *)

OpenCalls == {c \in Asked : Open(requests[c])}

\* A request that is open may still become an account.
Budget == Len(users) + Cardinality(OpenCalls) <= 2 * demo + sent

Bounded == Budget /\ sent <= MaxRequests /\ faults \in 0 .. MaxFaults

LEMMA OpenCallsFinite ==
  ASSUME AInv
  PROVE  IsFiniteSet(OpenCalls) /\ Cardinality(OpenCalls) \in Nat
<1>1. OpenCalls \subseteq 1 .. sent /\ sent \in Nat /\ 1 \in Int
  BY DEF AInv, Typed, OpenCalls, Asked
<1>2. IsFiniteSet(1 .. sent)
  BY <1>1, FS_Interval
<1>3. IsFiniteSet(OpenCalls)
  BY <1>1, <1>2, FS_Subset
<1> QED
  BY <1>3, FS_CardinalityType

\* What a step may do to the open requests, and to the accounts with it
LEMMA BudgetSame ==
  ASSUME AInv, Budget, NEW S, S \subseteq OpenCalls, OpenCalls' = S, sent' = sent,
         \/ Len(users') = Len(users) /\ demo' = demo
         \/ Len(users) = 0 /\ demo = 0 /\ Len(users') = 2 /\ demo' = 1
  PROVE  Budget'
<1>1. Cardinality(S) <= Cardinality(OpenCalls) /\ Cardinality(S) \in Nat
  BY OpenCallsFinite, FS_Subset, FS_CardinalityType
<1>2. Len(users) \in Nat /\ demo \in Nat /\ sent \in Nat /\ Cardinality(OpenCalls) \in Nat
  BY OpenCallsFinite DEF AInv, Typed
<1>3. Len(users) + Cardinality(OpenCalls) <= 2 * demo + sent
  BY DEF Budget
<1>4. CASE Len(users') = Len(users) /\ demo' = demo
  <2>1. Len(users') + Cardinality(S) <= 2 * demo' + sent'
    BY <1>1, <1>2, <1>3, <1>4
  <2> QED
    BY <2>1 DEF Budget
<1>5. CASE Len(users) = 0 /\ demo = 0 /\ Len(users') = 2 /\ demo' = 1
  <2>1. Cardinality(OpenCalls) <= sent
    BY <1>2, <1>3, <1>5
  <2>2. Len(users') + Cardinality(S) <= 2 * demo' + sent'
    BY <1>1, <1>2, <1>5, <2>1
  <2> QED
    BY <2>2 DEF Budget
<1> QED
  BY <1>4, <1>5

LEMMA BudgetMore ==
  ASSUME AInv, Budget, NEW S, NEW n, S \subseteq OpenCalls \cup {n}, OpenCalls' = S,
         sent' = sent + 1, users' = users, demo' = demo
  PROVE  Budget'
<1>1. /\ IsFiniteSet(OpenCalls \cup {n})
      /\ Cardinality(OpenCalls \cup {n}) <= Cardinality(OpenCalls) + 1
  BY OpenCallsFinite, FS_AddElement
<1>2. Cardinality(S) <= Cardinality(OpenCalls \cup {n}) /\ Cardinality(S) \in Nat
      /\ Cardinality(OpenCalls \cup {n}) \in Nat
  BY <1>1, FS_Subset, FS_CardinalityType
<1>3. Len(users) \in Nat /\ demo \in Nat /\ sent \in Nat /\ Cardinality(OpenCalls) \in Nat
  BY OpenCallsFinite DEF AInv, Typed
<1> QED
  BY <1>1, <1>2, <1>3 DEF Budget

LEMMA BudgetOver ==
  ASSUME AInv, Budget, NEW S, NEW c \in OpenCalls, S \subseteq OpenCalls \ {c}, OpenCalls' = S,
         sent' = sent, demo' = demo, Len(users') \in {Len(users), Len(users) + 1}
  PROVE  Budget'
<1>1. /\ IsFiniteSet(OpenCalls \ {c})
      /\ Cardinality(OpenCalls \ {c}) = Cardinality(OpenCalls) - 1
  BY OpenCallsFinite, FS_RemoveElement
<1>2. Cardinality(S) <= Cardinality(OpenCalls \ {c}) /\ Cardinality(S) \in Nat
  BY <1>1, FS_Subset, FS_CardinalityType
<1>3. Len(users) \in Nat /\ demo \in Nat /\ sent \in Nat /\ Cardinality(OpenCalls) \in Nat
  BY OpenCallsFinite DEF AInv, Typed
<1> QED
  BY <1>1, <1>2, <1>3 DEF Budget

\* A request that was answered, or refused, is open no more.
LEMMA SettledOver ==
  ASSUME AInv, NEW c \in Asked, NEW rs, requests' = Live(rs), DOMAIN rs = Asked,
         ~Open(rs[c]), \A d \in Asked : d # c => rs[d] = requests[d]
  PROVE  OpenCalls' \subseteq OpenCalls \ {c}
<1>1. \A d \in Asked' : d \in Asked /\ requests'[d] = rs[d]
  BY LiveNarrows DEF Asked
<1>2. \A d \in OpenCalls' : d \in Asked' /\ Open(requests'[d])
  BY DEF OpenCalls, Open
<1>3. \A d \in OpenCalls' : d # c /\ d \in OpenCalls
  BY <1>1, <1>2 DEF OpenCalls
<1> QED
  BY <1>3

LEMMA RaiseOver ==
  ASSUME AInv, NEW c \in Asked, NEW state \in {"denied", "refused"}, Raise(c, state)
  PROVE  OpenCalls' \subseteq OpenCalls \ {c}
<1> DEFINE rs == [requests EXCEPT ![c].server = state]
<1>1. requests[c] \in SomeRequest
  BY DEF AInv, AllKnown, KnownTo
<1>2. requests' = Live(rs) /\ DOMAIN rs = Asked /\ rs[c].server = state
      /\ \A d \in Asked : d # c => rs[d] = requests[d]
  BY <1>1 DEF Raise, Asked, SomeRequest
<1>3. ~Open(rs[c])
  BY <1>2 DEF Open
<1> HIDE DEF rs
<1> QED
  BY <1>2, <1>3, SettledOver

LEMMA AnswerOver ==
  ASSUME AInv, NEW c \in Asked, NEW id, Answer(c, id)
  PROVE  OpenCalls' \subseteq OpenCalls \ {c}
<1> DEFINE rs == [requests EXCEPT ![c].server = "ok", ![c].answer = id, ![c].row = <<users'[id]>>]
<1>1. requests[c] \in SomeRequest
  BY DEF AInv, AllKnown, KnownTo
<1>2. requests' = Live(rs) /\ DOMAIN rs = Asked /\ rs[c].server = "ok"
      /\ \A d \in Asked : d # c => rs[d] = requests[d]
  BY <1>1 DEF Answer, Asked, SomeRequest
<1>3. ~Open(rs[c])
  BY <1>2 DEF Open
<1> HIDE DEF rs
<1> QED
  BY <1>2, <1>3, SettledOver

LEMMA ServeBounded ==
  ASSUME AInv, Bounded, NEW c \in Asked, Serve(c)
  PROVE  Bounded'
<1>1. /\ Len(users) \in Nat /\ demo \in Nat /\ requests[c] \in SomeRequest
      /\ MaxFaults \in Nat /\ Budget
  BY AccountsAssumption DEF AccountsAssumption, AInv, Typed, AllKnown, KnownTo, Bounded
<1>2. sent' = sent /\ demo' = demo /\ faults' \in 0 .. MaxFaults /\ c \in OpenCalls
  BY <1>1 DEF Serve, Login, Deny, Expire, Read, Check, CommitCreate, CommitUpdate, Fail,
              Unchanged, Bounded, OpenCalls, Open, At
<1> SUFFICES Budget'
  BY <1>1, <1>2 DEF Bounded
<1>3. ASSUME NEW state \in {"denied", "refused"}, Raise(c, state) PROVE Budget'
  <2>1. OpenCalls' \subseteq OpenCalls \ {c} /\ users' = users
    BY <1>3, RaiseOver DEF Raise
  <2> QED
    BY <1>1, <1>2, <2>1, BudgetOver
<1>4. ASSUME NEW id, Answer(c, id), Len(users') \in {Len(users), Len(users) + 1} PROVE Budget'
  BY <1>1, <1>2, <1>4, AnswerOver, BudgetOver
<1>5. CASE \E state \in {"denied", "refused"} : Raise(c, state)
  BY <1>3, <1>5
<1>6. CASE Check(c) /\ ~Unfit(c)
  <2> DEFINE row == IF requests[c].kind = "create" THEN <<>> ELSE <<users[requests[c].target]>>
  <2>1. requests' = [requests EXCEPT ![c].server = "checked", ![c].row = row]
        /\ users' = users
    BY <1>6 DEF Check
  <2> HIDE DEF row
  <2>2. DOMAIN requests' = Asked /\ \A d \in Asked : d # c => requests'[d] = requests[d]
    BY <2>1 DEF Asked
  <2>3. OpenCalls' \subseteq OpenCalls
    BY <1>2, <2>2 DEF OpenCalls, Open, Asked
  <2> QED
    BY <1>1, <1>2, <2>1, <2>3, BudgetSame
<1>7. CASE \E id : Answer(c, id) /\ users' = users
  BY <1>1, <1>4, <1>7
<1>8. CASE CommitCreate(c) /\ ~Raise(c, "refused")
  <2>1. users' = Append(users, Created(c)) /\ Answer(c, Len(users'))
    BY <1>8 DEF CommitCreate
  <2>2. Len(users') = Len(users) + 1
    BY <2>1 DEF AInv, Typed
  <2> QED
    BY <1>4, <2>1, <2>2
<1>9. CASE CommitUpdate(c)
  <2>1. Len(users') = Len(users)
    BY <1>9 DEF AInv, Typed, CommitUpdate
  <2> QED
    BY <1>4, <1>9, <2>1 DEF CommitUpdate
<1>10. CASE Login(c)
  BY <1>5, <1>7, <1>10 DEF Login
<1>11. CASE Deny(c) \/ Expire(c) \/ Fail(c)
  BY <1>5, <1>11 DEF Deny, Expire, Fail
<1>12. CASE Read(c)
  BY <1>7, <1>12 DEF Read
<1>13. CASE Check(c)
  BY <1>5, <1>6, <1>13 DEF Check
<1>14. CASE CommitCreate(c)
  BY <1>5, <1>8, <1>14
<1> QED
  BY <1>9, <1>10, <1>11, <1>12, <1>13, <1>14 DEF Serve

LEMMA BootBounded ==
  ASSUME AInv, Bounded, NEW k \in Containers, Boot(k)
  PROVE  Bounded'
<1>1. /\ Len(users) \in Nat /\ demo \in Nat /\ MaxFaults \in Nat /\ Budget
      /\ faults \in 0 .. MaxFaults /\ sent <= MaxRequests
  BY AccountsAssumption DEF AccountsAssumption, AInv, Typed, Bounded
<1>2. sent' = sent /\ faults' \in 0 .. MaxFaults
  BY <1>1 DEF Boot, Start, SeedUsers, SeedRest, Crash
<1>3. CASE Start(k) \/ SeedUsers(k)
  <2>1. OpenCalls' = OpenCalls /\ users' = users /\ demo' = demo
    BY <1>3 DEF Start, SeedUsers, OpenCalls, Asked, tables
  <2>2. Budget'
    BY <1>1, <1>2, <2>1, BudgetSame
  <2> QED
    BY <1>1, <1>2, <2>2 DEF Bounded
<1>4. CASE SeedRest(k)
  <2>1. demo = 0 /\ users = <<>> /\ Len(users) = 0
    BY <1>4 DEF AInv, Seeded, SeedRest
  <2>2. users' = DemoUsers /\ demo' = 1 /\ OpenCalls' = OpenCalls
    BY <1>4, <2>1, DemoFacts DEF SeedRest, OpenCalls, Asked
  <2>3. Len(users') = 2
    BY <2>2, DemoFacts
  <2>4. Budget'
    BY <1>1, <1>2, <2>1, <2>2, <2>3, BudgetSame
  <2> QED
    BY <1>1, <1>2, <2>4 DEF Bounded
<1>5. CASE Crash(k)
  <2>1. PICK lost : requests' = Live([c \in Asked |->
            IF c \in lost THEN [requests[c] EXCEPT !.server = "refused"] ELSE requests[c]])
    BY <1>5 DEF Crash
  <2> DEFINE rs == [c \in Asked |->
            IF c \in lost THEN [requests[c] EXCEPT !.server = "refused"] ELSE requests[c]]
  <2>2. \A c \in Asked : rs[c] = requests[c] \/ rs[c] = [requests[c] EXCEPT !.server = "refused"]
    OBVIOUS
  <2>3. requests' = Live(rs) /\ DOMAIN rs = Asked
    BY <2>1
  <2> HIDE DEF rs
  <2>4. \A c \in Asked' : c \in Asked /\ requests'[c] = rs[c]
    BY <2>3, LiveNarrows DEF Asked
  <2>5. \A c \in Asked : Open(rs[c]) => Open(requests[c])
    <3>1. ASSUME NEW c \in Asked, rs[c] = [requests[c] EXCEPT !.server = "refused"]
          PROVE  ~Open(rs[c])
      <4>1. requests[c] \in SomeRequest
        BY DEF AInv, AllKnown, KnownTo
      <4>2. rs[c].server = "refused"
        BY <3>1, <4>1 DEF SomeRequest
      <4> QED
        BY <4>2 DEF Open
    <3> QED
      BY <2>2, <3>1
  <2>6. OpenCalls' \subseteq OpenCalls /\ users' = users /\ demo' = demo
    <3>1. \A c \in OpenCalls' : c \in Asked' /\ Open(requests'[c])
      BY DEF OpenCalls, Open
    <3> QED
      BY <1>5, <2>4, <2>5, <3>1 DEF OpenCalls, Crash, tables
  <2>7. Budget'
    BY <1>1, <1>2, <2>6, BudgetSame
  <2> QED
    BY <1>1, <1>2, <2>7 DEF Bounded
<1> QED
  BY <1>3, <1>4, <1>5 DEF Boot

\* A step of a user sends one request at most.
LEMMA UseSends ==
  ASSUME NEW t \in Tabs, Use(t)
  PROVE  /\ UNCHANGED <<backend, faults>>
         /\ \/ sent' = sent /\ (requests' = requests \/ \E gone : requests' = Unawaited(gone))
            \/ \E request, rs : /\ Send(request, rs)
                                /\ rs = requests \/ \E gone : rs = Unawaited(gone)
<1>1. CASE \E at \in {"login", "app"} : OpenPage(t, at)
  BY <1>1 DEF OpenPage, Forgotten
<1>2. CASE Logout(t)
  BY <1>2 DEF Logout
<1>3. CASE ~(\E at \in {"login", "app"} : OpenPage(t, at)) /\ ~Logout(t)
  <2>1. UNCHANGED <<backend, faults>>
    BY <1>3 DEF Use, SubmitLogin, CallOther, CreateUser, UpdateUser, ChangePassword
  <2>2. \E request : Send(request, requests)
    BY <1>3 DEF Use, SubmitLogin, CallOther, CreateUser, UpdateUser, ChangePassword
  <2> QED
    BY <2>1, <2>2
<1> QED
  BY <1>1, <1>2, <1>3

\* Whose page is gone is served all the same.
LEMMA UnawaitedOpen ==
  ASSUME AInv, NEW rs, rs = requests \/ \E gone : rs = Unawaited(gone)
  PROVE  /\ DOMAIN rs \subseteq Asked
         /\ \A c \in DOMAIN rs : Open(rs[c]) => c \in OpenCalls
<1>1. /\ DOMAIN rs \subseteq Asked
      /\ \A c \in DOMAIN rs :
           rs[c] = requests[c] \/ rs[c] = [requests[c] EXCEPT !.awaited = FALSE]
  BY UnawaitedNarrows DEF Asked
<1>2. ASSUME NEW c \in DOMAIN rs PROVE rs[c].server = requests[c].server
  <2>1. requests[c] \in SomeRequest
    BY <1>1 DEF AInv, AllKnown, KnownTo
  <2> QED
    BY <1>1, <2>1 DEF SomeRequest
<1> QED
  BY <1>1, <1>2 DEF OpenCalls, Open

LEMMA BrowserBounded ==
  ASSUME AInv, Bounded, UNCHANGED backend,
         \/ /\ sent' = sent /\ faults' \in 0 .. MaxFaults
            /\ requests' = requests \/ \E gone : requests' = Unawaited(gone)
         \/ /\ faults' = faults
            /\ \E request, rs : /\ Send(request, rs)
                                /\ rs = requests \/ \E gone : rs = Unawaited(gone)
  PROVE  Bounded'
<1>1. /\ Len(users) \in Nat /\ demo \in Nat /\ MaxFaults \in Nat /\ Budget
      /\ faults \in 0 .. MaxFaults /\ sent <= MaxRequests /\ sent \in Nat
      /\ MaxRequests \in Nat /\ users' = users /\ demo' = demo
  BY AccountsAssumption DEF AccountsAssumption, AInv, Typed, Bounded, backend, tables
<1>2. CASE /\ sent' = sent /\ faults' \in 0 .. MaxFaults
           /\ requests' = requests \/ \E gone : requests' = Unawaited(gone)
  <2>1. PICK rs : requests' = rs /\ (rs = requests \/ \E gone : rs = Unawaited(gone))
    BY <1>2
  <2>2. OpenCalls' \subseteq OpenCalls
    BY <2>1, UnawaitedOpen DEF OpenCalls, Open, Asked
  <2>3. Budget'
    BY <1>1, <1>2, <2>2, BudgetSame
  <2> QED
    BY <1>1, <1>2, <2>3 DEF Bounded
<1>3. ASSUME NEW request, NEW rs, Send(request, rs), faults' = faults,
             rs = requests \/ \E gone : rs = Unawaited(gone)
      PROVE  Bounded'
  <2>1. DOMAIN rs \subseteq Asked /\ \A c \in DOMAIN rs : Open(rs[c]) => c \in OpenCalls
    BY <1>3, UnawaitedOpen
  <2>2. /\ sent' = sent + 1 /\ Asked' = DOMAIN rs \cup {sent'}
        /\ \A c \in DOMAIN rs : requests'[c] = rs[c]
    BY <1>3, <2>1, SendAdds
  <2>3. OpenCalls' \subseteq OpenCalls \cup {sent'}
    BY <2>1, <2>2 DEF OpenCalls, Open
  <2>4. Budget'
    BY <1>1, <2>2, <2>3, BudgetMore
  <2>5. sent' <= MaxRequests
    BY <1>1, <1>3 DEF Send
  <2> QED
    BY <1>1, <1>3, <2>4, <2>5 DEF Bounded
<1> QED
  BY <1>2, <1>3

\* The types of tables, containers, requests, tabs and storage (users.py, auth.py, seed.py,
\* authToken.ts, AuthContext.tsx): no more accounts than were seeded or asked for, and no
\* token, session or request names one that is not there.
THEOREM TypeCorrect == Spec => []TypeOK
<1>1. AInv /\ Bounded => TypeOK
  <2> SUFFICES ASSUME AInv, Bounded PROVE TypeOK
    OBVIOUS
  <2>1. /\ users \in Seq(Row) /\ Len(users) \in Nat /\ demo \in {0, 1} /\ sent \in Nat
        /\ Cardinality(OpenCalls) \in Nat /\ MaxRequests \in Nat /\ sent <= MaxRequests
        /\ Len(DemoUsers) = 2
    BY AccountsAssumption, OpenCallsFinite, DemoFacts
    DEF AccountsAssumption, AInv, Typed, Bounded
  <2>2. Len(users) <= MaxUsers /\ MaxUsers \in Nat
    BY <2>1 DEF Bounded, Budget, MaxUsers
  <2>3. \A n \in Nat : n <= Len(users) => n \in Ids \cup {0}
    BY <2>1, <2>2 DEF Ids
  <2>4. ASSUME NEW c \in DOMAIN requests PROVE requests[c] \in Request
    <3>1. requests[c] \in SomeRequest /\ requests[c].token <= Len(users)
          /\ requests[c].target <= Len(users) /\ requests[c].answer <= Len(users)
      BY DEF AInv, AllKnown, Asked, KnownTo
    <3>2. /\ requests[c].token \in Ids \cup {0} /\ requests[c].target \in Ids \cup {0}
          /\ requests[c].answer \in Ids \cup {0}
      BY <2>3, <3>1 DEF SomeRequest
    <3> QED
      BY <3>1, <3>2 DEF SomeRequest, Request
  <2>5. ASSUME NEW t \in Tabs PROVE tab[t] \in Tab
    <3>1. tab[t] \in SomeTab /\ tab[t].token <= Len(users) /\ tab[t].user <= Len(users)
      BY DEF AInv, Typed
    <3>2. tab[t].token \in Ids \cup {0} /\ tab[t].user \in Ids \cup {0}
      BY <2>3, <3>1 DEF SomeTab
    <3> QED
      BY <3>1, <3>2 DEF SomeTab, Tab
  <2>6. tab \in [Tabs -> Tab]
    BY <2>5 DEF AInv, Typed
  <2>7. storage \in Ids \cup {0}
    BY <2>1, <2>3 DEF AInv, Typed
  <2>8. AccountsTypeOK
    BY <2>1, <2>2, <2>4 DEF AccountsTypeOK, AInv, Typed, Bounded
  <2> QED
    BY <2>6, <2>7, <2>8 DEF TypeOK
<1>2. Init => Bounded
  <2> SUFFICES ASSUME Init PROVE Bounded
    OBVIOUS
  <2>1. OpenCalls = {}
    BY DEF Init, AccountsInit, OpenCalls, Asked
  <2> QED
    BY <2>1, FS_EmptySet, AccountsAssumption
    DEF AccountsAssumption, Init, AccountsInit, Bounded, Budget
<1>3. AInv /\ Bounded /\ [Next]_vars => Bounded'
  <2> SUFFICES ASSUME AInv, Bounded, [Next]_vars PROVE Bounded'
    OBVIOUS
  <2>1. ASSUME NEW c \in Asked, Hear(c) PROVE Bounded'
    <3>1. UNCHANGED <<backend, sent>> /\ \E gone : requests' = Unawaited(gone)
      BY <2>1, HearEffect DEF Forgotten
    <3>2. faults' \in 0 .. MaxFaults
      BY <2>1, AccountsAssumption
      DEF AccountsAssumption, Bounded, Hear, HearSuccess, HearError, HearDenied
    <3> QED
      BY <3>1, <3>2, BrowserBounded
  <2>2. ASSUME NEW t \in Tabs, Use(t) PROVE Bounded'
    <3>1. faults' \in 0 .. MaxFaults /\ faults' = faults
      BY <2>2, UseSends DEF Bounded
    <3> QED
      BY <2>2, <3>1, UseSends, BrowserBounded
  <2>3. CASE UNCHANGED vars
    BY <2>3 DEF vars, Bounded, Budget, OpenCalls, Asked
  <2> QED
    BY <2>1, <2>2, <2>3, ServeBounded, BootBounded DEF Next
<1> QED
  BY <1>1, <1>2, <1>3, AInvariance, PTL DEF Spec

==============================================================================
