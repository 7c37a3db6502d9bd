---------------------------- MODULE BrowserSession ----------------------------
(***************************************************************************)
(* The browser's sessions: the tabs of one browser with the token that     *)
(* they share (authToken.ts), AuthProvider, RequireAuth, RequireRole, the  *)
(* login page, the calls of the users page and what apiRequest does with   *)
(* their answers; composed with Accounts, which serves the requests.       *)
(*                                                                         *)
(* Local storage is read when a document is loaded; from then on a tab     *)
(* uses its own copy in memory and writes both.  Loading a document takes  *)
(* one step, and the answers to the requests of the one before are gone.   *)
(***************************************************************************)
EXTENDS Accounts

VARIABLES
  storage,  \* the token in local storage: an account, or 0
  tab       \* [Tabs -> what a tab holds]

(***************************************************************************)
(* token: in memory; user, role: AuthContext's user, if any, as it was     *)
(* answered; loading: isLoading; submitting: the login form is disabled;   *)
(* at: the path is /login, or another one; overtaken: a sign-in was        *)
(* answered before bootstrap was (kept for SignedInAsToken only).          *)
(***************************************************************************)
Tab == [token : Ids \cup {0}, user : Ids \cup {0}, role : Roles,
        loading : BOOLEAN, submitting : BOOLEAN, at : {"login", "app"},
        overtaken : BOOLEAN]

backend == <<tables, container>>
vars == <<users, demo, container, requests, sent, faults, storage, tab>>

TypeOK ==
  /\ AccountsTypeOK
  /\ storage \in Ids \cup {0}
  /\ tab \in [Tabs -> Tab]

\* A document just loaded from path at: it has what storage held, and is loading
\* until /api/auth/me is answered if that is a token.
Loaded(at, token) ==
  [token |-> token, user |-> 0, role |-> "support_agent", loading |-> token # 0,
   submitting |-> FALSE, at |-> IF token = 0 THEN "login" ELSE at,
   overtaken |-> FALSE]

Init ==
  /\ AccountsInit
  /\ storage = 0
  /\ tab = [t \in Tabs |-> Loaded("login", 0)]

------------------------------------------------------------------------------
(* Requests.                                                               *)

Sent(t, kind, token) ==
  [kind |-> kind, tab |-> t, awaited |-> TRUE, token |-> token,
   email |-> DemoUsers[1].email, password |-> "demo", target |-> 0,
   change |-> "enable", server |-> "sent", row |-> <<>>, answer |-> 0]

\* One more request, among those that are under way
Send(request, rs) ==
  /\ sent < MaxRequests
  /\ sent' = sent + 1
  /\ requests' = [c \in DOMAIN rs \cup {sent'} |-> IF c = sent' THEN request ELSE rs[c]]

\* The requests after those in gone lost the page that waits for them
Unawaited(gone) ==
  Live([c \in Asked |-> IF c \in gone THEN [requests[c] EXCEPT !.awaited = FALSE]
                        ELSE requests[c]])

\* The requests after the document of tab t was replaced
Forgotten(t) == Unawaited({c \in Asked : requests[c].tab = t})

\* A tab is opened or loaded anew, at /login or another path; bootstrap runs.
OpenPage(t, at) ==
  /\ tab' = [tab EXCEPT ![t] = Loaded(at, storage)]
  /\ IF storage = 0 THEN requests' = Forgotten(t) /\ UNCHANGED sent
     ELSE Send(Sent(t, "me", storage), Forgotten(t))
  /\ UNCHANGED <<backend, faults, storage>>

\* The login page shows its form to whoever is not known to be signed in, while
\* bootstrap still waits, too.
LoginForm(t) == tab[t].at = "login" /\ tab[t].user = 0 /\ ~tab[t].submitting

\* onSubmit: login
SubmitLogin(t, email, password) ==
  /\ LoginForm(t)
  /\ Send([Sent(t, "login", tab[t].token) EXCEPT !.email = email, !.password = password], requests)
  /\ tab' = [tab EXCEPT ![t].submitting = TRUE]
  /\ UNCHANGED <<backend, faults, storage>>

\* a bug: logout leaves the user to the next answer
LogoutTokenOnly(t) ==
  /\ tab[t].user # 0
  /\ tab' = [tab EXCEPT ![t].token = 0]
  /\ storage' = 0
  /\ UNCHANGED <<backend, requests, sent, faults>>

\* handleLogout: the token and the user; the answers on their way stay on their way.
Logout(t) ==
  /\ tab[t].user # 0
  /\ tab' = [tab EXCEPT ![t].token = 0, ![t].user = 0, ![t].at = "login"]
  /\ storage' = 0
  /\ UNCHANGED <<backend, requests, sent, faults>>

\* Another call of a page: one that outlives the page and the session, as mutations do.
\* (A query is cancelled with its page; of a denied one only the present session hears.)
CallOther(t) ==
  /\ tab[t].user # 0
  /\ Send(Sent(t, "other", tab[t].token), requests)
  /\ UNCHANGED <<backend, faults, storage, tab>>

\* RequireRole: the users page is shown to whom was an admin when the user was loaded.
UsersPage(t) == tab[t].user # 0 /\ tab[t].role = "admin"

\* submitCreate
CreateUser(t, email, role) ==
  /\ UsersPage(t)
  /\ Send([Sent(t, "create", tab[t].token) EXCEPT !.email = email, !.change = role], requests)
  /\ UNCHANGED <<backend, faults, storage, tab>>

\* UserRow: the role, the badge that enables and disables, submitReset.  A button is
\* disabled while its own call is pending, and has forgotten it when the page is left.
UpdateUser(t, target, change) ==
  /\ UsersPage(t)
  /\ Send([Sent(t, "update", tab[t].token) EXCEPT !.target = target, !.change = change], requests)
  /\ UNCHANGED <<backend, faults, storage, tab>>

\* No page offers change-password; a client that has the token calls it.
ChangePassword(t, current) ==
  /\ tab[t].user # 0 /\ tab[t].token # 0
  /\ Send([Sent(t, "change", tab[t].token) EXCEPT
             !.target = tab[t].token, !.password = current, !.change = "other"], requests)
  /\ UNCHANGED <<backend, faults, storage, tab>>

------------------------------------------------------------------------------
(* Answers.                                                                *)

Waiting(c) == requests[c].awaited

\* RequireAuth and LoginPage: where a tab is taken once it is known who uses it.  The
\* login form goes with its page.
Routed(t) ==
  [t EXCEPT !.at = IF t.user # 0 THEN "app" ELSE IF t.loading THEN @ ELSE "login",
            !.submitting = @ /\ t.user = 0]

\* The answer of a sign-in arrives: the form is enabled.
SignInEnded(t) == [t EXCEPT !.submitting = FALSE, !.overtaken = @ \/ t.loading]

\* The user of AuthContext becomes account id, as its row was when it was read
KnownAs(t, id, row) == [t EXCEPT !.user = id, !.role = row.role]

\* An answer: login sets token and user, bootstrap the user.
HearSuccess(c) ==
  LET t == requests[c].tab
      row == requests[c].row[1]
      known == KnownAs(tab[t], requests[c].answer, row)
  IN  /\ Waiting(c) /\ requests[c].server = "ok"
      /\ requests' = Unawaited({c})
      /\ CASE requests[c].kind = "login" ->
                /\ storage' = requests[c].answer
                /\ tab' = [tab EXCEPT ![t] = Routed(
                     [SignInEnded(known) EXCEPT !.token = requests[c].answer])]
           [] requests[c].kind = "me" ->
                /\ tab' = [tab EXCEPT ![t] = Routed([known EXCEPT !.loading = FALSE])]
                /\ UNCHANGED storage
           [] OTHER -> UNCHANGED <<tab, storage>>
      /\ UNCHANGED <<backend, sent, faults>>

\* What the caller does with an error: bootstrap signs out, the login form is enabled.
AfterError(kind, t) ==
  CASE kind = "me" -> Routed([t EXCEPT !.token = 0, !.user = 0, !.loading = FALSE])
    [] kind = "login" -> SignInEnded(t)
    [] OTHER -> t

\* An error other than 401, or no answer: the connection breaks or nobody listens.
HearError(c) ==
  LET kind == requests[c].kind
  IN  /\ Waiting(c)
      /\ \/ /\ requests[c].server = "refused" \/ Up = {}
            /\ UNCHANGED faults
         \/ /\ faults < MaxFaults
            /\ faults' = faults + 1
      /\ requests' = Unawaited({c})
      /\ tab' = [tab EXCEPT ![requests[c].tab] = AfterError(kind, @)]
      /\ storage' = IF kind = "me" THEN 0 ELSE storage
      /\ UNCHANGED <<backend, sent>>

\* setToken(null) of apiRequest, when the denied request had a token
Dropped(t, had) == IF had THEN [t EXCEPT !.token = 0] ELSE t

\* a bug: the token is dropped and the page stays
HearDeniedStaying(c) ==
  LET t == requests[c].tab
      had == requests[c].token # 0
  IN  /\ Waiting(c) /\ requests[c].server = "denied"
      /\ requests' = Unawaited({c})
      /\ storage' = IF had THEN 0 ELSE storage
      /\ tab' = [tab EXCEPT ![t] = AfterError(requests[c].kind, Dropped(@, had))]
      /\ UNCHANGED <<backend, sent, faults>>

\* 401: if the request had a token, whichever it was, the current one is dropped, in
\* memory and in storage, and a page other than /login is left for a new document.
HearDenied(c) ==
  LET t == requests[c].tab
      had == requests[c].token # 0
  IN  /\ Waiting(c) /\ requests[c].server = "denied"
      /\ storage' = IF had THEN 0 ELSE storage
      /\ IF had /\ tab[t].at # "login"
           THEN /\ requests' = Forgotten(t)
                /\ tab' = [tab EXCEPT ![t] = Loaded("login", 0)]
           ELSE /\ requests' = Unawaited({c})
                /\ tab' = [tab EXCEPT ![t] = AfterError(requests[c].kind, Dropped(@, had))]
      /\ UNCHANGED <<backend, sent, faults>>

Hear(c) == HearSuccess(c) \/ HearError(c) \/ HearDenied(c)

Use(t) ==
  \/ \E at \in {"login", "app"} : OpenPage(t, at)
  \/ \E i \in DOMAIN DemoUsers, password \in Passwords :
       SubmitLogin(t, DemoUsers[i].email, password)
  \/ Logout(t)
  \/ CallOther(t)
  \/ \E email \in {"sam", "new"} \X {"lower", "mixed"}, role \in Roles :
       CreateUser(t, email, role)
  \/ \E target \in DOMAIN users, change \in Changes : UpdateUser(t, target, change)
  \/ \E current \in Passwords : ChangePassword(t, current)

Next ==
  \/ \E k \in Containers : Boot(k) /\ UNCHANGED <<storage, tab>>
  \/ \E c \in Asked : Serve(c) /\ UNCHANGED <<storage, tab>>
  \/ \E c \in Asked : Hear(c)
  \/ \E t \in Tabs : Use(t)

Spec == Init /\ [][Next]_vars

------------------------------------------------------------------------------
(* Properties.                                                             *)

(***************************************************************************)
(* The demo accounts and the other demo data are there together or not at  *)
(* all, and once: whatever containers are started side by side and however *)
(* often they die while they seed (seed).                                  *)
(***************************************************************************)
DemoWhole ==
  /\ demo <= 1
  /\ demo = 0 => users = <<>>
  /\ demo = 1 => \A i \in DOMAIN DemoUsers :
       \E j \in DOMAIN users : \A k \in DOMAIN users :
         users[k].email = DemoUsers[i].email <=> k = j

(***************************************************************************)
(* A tab sends its requests as the user it shows, and without a token when *)
(* it shows none: through sign-ins and sign-outs in this and other tabs    *)
(* and answers of earlier sessions (AuthProvider, apiRequest), except in a *)
(* document in which a sign-in was answered before bootstrap was.          *)
(***************************************************************************)
SignedInAsToken ==
  \A t \in Tabs : tab[t].loading \/ tab[t].overtaken \/ tab[t].token = tab[t].user

\* Nobody can manage accounts, and no call is under way that would change that.
LockedOut ==
  /\ users # <<>>
  /\ \A i \in DOMAIN users : ~(users[i].active /\ users[i].role = "admin")
  /\ \A c \in Asked :
       requests[c].server = "checked" => requests[c].change \notin {"enable", "admin"}

(***************************************************************************)
(* Once the last admin was disabled or demoted it stays so: no session     *)
(* left open, password or call under way brings an admin back              *)
(* (get_current_user, require_roles, update_user).                         *)
(***************************************************************************)
LockoutIsFinal == [][LockedOut => LockedOut']_vars

==============================================================================
