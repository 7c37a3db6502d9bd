# SupportLedger AI: TLA+ models, model checks and proofs

SupportLedger AI is a support and billing desk: a FastAPI server with
SQLAlchemy on PostgreSQL (`src/backend/app`), and a React client
(`src/frontend/src`). This directory holds TLA+ modules of its parts that keep
state under concurrency and failure, TLC configurations that check them on
small instances, and proofs for every instance that TLAPS checks.
`PROJECT.json` lists the components, the runs, the lines each definition
models, the hazards of the code and the theorems.

Paths below are relative to `src/backend/app/` unless they start with
`frontend/`, `backend/` or `README.md` (of the repository).

## 1. Inventory

### What runs where

* The server is one uvicorn process in the shipped image
  (`backend/entrypoint.sh`). `async def` endpoints (the Stripe webhook and the
  copilot socket) run on its event loop; `def` endpoints run in a thread pool
  and overlap. The webhook module also covers several processes, which is how
  such a server is usually scaled.
* Every request has a database session of its own (`db/session.py`), a
  transaction that ends with `commit`, or is rolled back when the session is
  closed. PostgreSQL runs at READ COMMITTED. There is no row lock
  (`SELECT ... FOR UPDATE`) and no version column anywhere in the code: what
  protects concurrent calls is unique keys, foreign keys and the fact that an
  UPDATE writes only the columns that differ from what the session loaded.
* Outside the repository: Stripe, the language model, the embedding service,
  the network, and the socket library of the browser.

### Components

| Component | State it keeps | Operations | What makes it correct | Model |
|---|---|---|---|---|
| Stripe webhook endpoint (`services/webhook_service.py`, `api/v1/webhooks.py`) | `webhook_events`, `invoices`, `payments` | deliver, verify, look up, insert, dispatch, write, commit, answer | an event takes effect once and whole, through duplicates, retries and crashes; 200 only after the commit | `WebhookProcessing`, `WebhookLedger` |
| Tickets (`services/ticket_service.py`) | `tickets`, `ticket_messages` | create, PATCH, resolve, add message, list | statuses follow `_ALLOWED_TRANSITIONS`; calls do not undo each other | `TicketWorkflow`; messages in `TicketDesk` |
| Copilot conversation (`services/copilot_service.py`, `api/v1/ai.py`, `ai/tools.py`) | `conversations`, `conversation_messages`, `ai_audit_logs`, one session per socket | connect, turn, tool loop, commit, failure, disconnect | a turn is kept whole, with its audit row, or not at all; the history reads back in order | `CopilotConversation` |
| Copilot page (`frontend/src/features/ai`) | connection status, messages, pending flag, the socket and its queue | open, ready, answer, error, close, submit, move to another conversation | shows committed answers of the conversation it shows, each once; is never busy for ever | `CopilotPage` |
| Knowledge base (`services/knowledge_service.py`) | `knowledge_articles`, `knowledge_chunks` with vectors | create, PATCH, chunk, backfill command, search | chunks are those of the content; vectors are those of the chunk | `KnowledgeBase` |
| Content splitter (`_split_content`) | a buffer and a list | paragraph, cut, finish | chunks fit, nothing is lost | `ContentSplitter` |
| AI assist and audit (`services/ai_service.py`) | `ai_audit_logs` | classify (two attempts), summarize, suggest reply, logs | one audit row per answer given | `TicketDesk` |
| Ticket page (`frontend/src/features/tickets/TicketDetailPage.tsx`) | draft, visibility, confirmation, calls in flight, the query of the ticket | type, suggest, send, resolve, change, leave | what goes out is what the agent confirmed, once; what was sent is shown | `TicketDesk` |
| Users and authentication (`services/user_service.py`, `api/deps.py`, `core/security.py`) | `users`, tokens | login, me, create, update, reset, change password | a disabled account can do nothing; calls do not undo each other | `Accounts` |
| Browser session (`frontend/src/lib`, `features/auth`) | token in memory and in storage, the user, who is loading | load a page, login, logout, 401 and other errors | a tab acts as the user it shows | `BrowserSession` |
| Seed (`commands/seed.py`, `backend/entrypoint.sh`) | the demo rows | look, insert, commit, serve | committed once and whole, whatever is started or dies | `Accounts` |
| Database sessions and pool (`db/session.py`) | transactions; fifteen connections | check out, return, wait | a request gets a connection or an error | transactions are in every backend module; the pool is not modelled |
| Billing read side and checkout (`services/billing_service.py`) | none of its own | lists, summary, checkout session | the balance is that of the invoices | not modelled |
| Knowledge search (`repositories/knowledge_repository.py`) | none | keyword search, semantic search | finds and ranks rows that are there | which rows: `KnowledgeBase` |
| Customers, dashboard, guardrails and prompts, model clients, rate limits, errors, migrations, other pages | see `PROJECT.json` | | | not modelled; reasons there |

### How they interact

Stripe calls the webhook endpoint, which writes the invoices and payments that
the billing side, the copilot's tools and the customer pages read. Agents work
on tickets through the ticket pages; AI assist reads a ticket and writes an
audit row. The copilot page holds a socket to the copilot, whose tools read
customers, billing and knowledge and queue proposals: nothing the model asks
for changes anything but the conversation and the audit log. The knowledge base
is cut by the splitter and embedded by an external service, at the call or later
by the backfill command. All pages send their requests through `apiRequest`,
with the token of the browser session, and every endpoint but the webhook,
health and login checks that token against the account's row.

### Behaviours that are hard

`PROJECT.json` lists them under `hazards`, each at its line, with the
properties that watch it or the reason none does. In short:

* **Duplicates, retries, crashes, order** of Stripe's events, and transactions
  that wait for each other's keys.
* **Check, then act** on a row that was loaded earlier: ticket transitions, the
  title of a conversation, the chunks of an article, the address of an account.
* **A long transaction around a remote call**: the embedding service in
  `_rebuild_chunks` and the model in every copilot turn are called between the
  first and the last statement of a transaction.
* **The clock of a transaction**: `created_at` is the time the transaction
  opened, and a socket's transaction opens when the turn before it ends.
* **A page over several calls at once**: an answer that arrives after the agent
  has gone on, a call whose answer is lost and that is made again, a refetch
  overtaken by a change, an answer of an earlier session.
* **Containers that start side by side** on one database, and die while they
  seed it.
* **A client that comes and goes**: sockets that break during a turn, reopen on
  the same conversation, or still deliver an event after the page has moved on.
* **A bounded loop** around a model that may ask for tools for ever.

## 2. Modules

| Module | Kind | About |
|---|---|---|
| `BillingEvents` | vocabulary | Stripe's events as the handlers read them, invoice and payment rows, what a handler assigns |
| `WebhookLedger` | abstract specification | every event is applied to the books at most once, in one step |
| `WebhookProcessing` | component | `process()` statement by statement in several processes; Stripe's deliveries; `LedgerSpec` is its refinement of the ledger |
| `MCWebhookProcessing` | instances | the events of the runs |
| `TicketWorkflow` | component | create, PATCH and resolve as load, check, commit |
| `CopilotConversation` | component | sockets, sessions, turns, tool loop, audit |
| `CopilotPage` | component | one browser tab and its connections to `copilot_ws` |
| `KnowledgeBase`, `MCKnowledgeBase` | component | rebuilds of chunks and the backfill |
| `ContentSplitter` | algorithm | `_split_content` as a loop |
| `TicketDesk` | component | the page of one ticket, its calls and its query; messages, changes and AI assist behind it |
| `Accounts` | component | containers and their seed, the rows of accounts, the checks and writes of `UserService` |
| `BrowserSession`, `MCBrowserSession` | composition | several tabs of one browser, composed with `Accounts`; symmetry for its run |
| `WebhookProofs`, `TicketProofs`, `ConversationProofs`, `PageProofs`, `KnowledgeProofs`, `SplitterProofs`, `DeskProofs`, `AccessProofs` | proofs | see section 5 |

A definition whose comment starts with "a bug:" is a plausible mistake in the
definition below it. It is not part of any specification; it is there to show,
by putting it in that definition's place, that a property can fail.

### WebhookProcessing

The rows are `eventRows` (absent, received or processed), `invoices` (one per
event that made one) and `payments` (one per intent); `acked` are the events
Stripe was told 200 for. A process (`Workers`) handles one delivery at a time
since the handler never yields to the event loop. The labels in `pc` are the
statements of `process()`, and each is an action: `Deliver`,
`RejectSignature`, `LookUpEvent` (line 54), `InsertEvent` (65-74), `Dispatch`
(76-93), `AddInvoice` (95-110), `AddPayment` (112-156), `Commit` (79-81),
`Answer`, and `Crash`, which rolls back. A statement that wants a unique key
that an open transaction has inserted is disabled until that transaction ends,
which is what PostgreSQL does. `Flushed` gives the row that an UPDATE leaves:
it writes only the columns that differ from the loaded row. Amounts,
currencies and descriptions are abstracted.

Two properties are claimed, and proved, under an assumption only:

* `MirrorsStripe` holds if Stripe sends the events of an intent in order
  (`InOrder`). It does not promise to, and the code compares no times: out of
  order, an older failure delivered late overwrites the success for good. That
  is one of the disagreements listed under the findings.
* `EffectKept` holds under the same assumption. With two processes and no order
  it fails: one handler loads the row, another changes it, and the first's
  UPDATE leaves out a column it believed to be right.

### TicketWorkflow

`tickets` are the committed rows; each call (`Requests`) has the row it
`loaded` and its `patch`. `Load` is everything up to the commit, with the 404
and 409 answers; `Commit` is the flush and commit, which NOT NULL or a foreign
key may refuse. The assignee stands for the other columns too. `Flushed` is the
same rule as for payments, and it is what makes `NeverNewAgain` and
`OnlyAskedColumns` true although nothing is locked. The transition rule itself
is not kept: see `TicketsRace`.

### CopilotConversation

A socket (`Sockets`) has one session for its life. `began` is the time its
transaction opened, which every row it adds is stamped with; `titleSeen` is the
session's copy of the title. `Connect` is `copilot_ws` up to `ready`, `Receive`
adds the question, `Chat` and `Execute` are the loop of at most
`MAX_ITERATIONS` model calls, `Answer` commits question, answer, title and
audit row together (`MessagesAfter`, `AuditOf`, `TitleAfter`), and then either
the answer is read back and sent (`Respond`) or that fails and the client is
told of an error about a turn that stays (`FailReadingBack`). `Fail` rolls
everything back: a model call, the flush or the commit has raised. `Disconnect`
leaves a running turn running; `Crash` loses every transaction. An `Http`
member is a call of the stateless endpoint, which only writes an audit row. The
model answers, or calls up to two tools (`Replies`): those it was told of
(`Specs`), which read or queue a proposal, or one that does not exist;
`Results` is what a call may come to. A failed statement of a tool leaves the
transaction aborted, as PostgreSQL does, so the turn fails at the end although
the model was only told of an error. `TurnsWhole` says what the code does keep:
all of a turn or nothing. That it keeps more, the question of a failed turn and
the audit row of a failed run, is said by the code's comments and the README of
the repository; `CopilotFailedTurn` refutes both, by a failed turn that leaves
neither (`FailureLeavesTrace`). The history is read back in order for each
socket (`SocketHistoryInOrder`), and for the whole conversation only if it has
one socket (`HistoryInCommitOrder`, `OneSocketInOrder`).

### CopilotPage

A view is a run of the hook's effect. The library's socket opens a connection
with the URL of that moment (`Connect`), so that after the first `ready` a
reconnection resumes the same conversation. Events and questions travel in
order; `Break` loses what is on its way to the page. The server's handler
(`Accept` to `End`) takes one question at a time, and goes on with a turn whose
client is gone. `Switch` is every way to another conversation, and cleans up
the effect: only the close event of the old connection is still heard.

What the model shows besides the properties below, at the lines that do it:

* `copilotSocket.ts:186`: the close event of the previous view's connection
  sets the status to offline although the new connection is open. The page
  says it reconnects, and nothing can be asked, until its own connection
  breaks.
* `copilotSocket.ts:125` and `138-140`: a question asked between the opening of
  the connection and `ready` disappears from the page and `pending` is cleared
  while it is at work, so a second can be asked.
* A turn of a broken connection that commits after the next `ready` is not
  shown until the conversation is opened again; and `api/v1/ai.py:217` starts
  another conversation at every reconnection before the first `ready`.

### KnowledgeBase and ContentSplitter

A rebuild is `Load`, `Select` (the rows `delete_chunks` sees), `Delete` (the
flush, which takes the row locks), and `Commit` with the new rows; the
embedding call lies between the last two. A chunk's identity is the rebuild
that made it and its index. The backfill loads all articles with their chunks
(`StartBackfill`); then, article by article, it gives the service the texts it
has loaded and sets the vectors that come back, in the order of the texts and
maybe fewer, on the rows by position (`Embed`, of `Orders`, `Vectors` and
`Zip`); the one commit for all stores them on the rows as they then are, or
none if one of the rows is gone (`FinishBackfill`). Two sets of chunks have the
same indexes, and a database may list such rows in any order (`Orders`).
`Found` are the rows that the keyword search can return and `Ranked` those the
semantic search can rank, which have a vector; `ChunksWhole` and `VectorsMatch`
speak of what is found and ranked. Two rebuilds that overlap leave both sets of
chunks, and `POST /articles/{id}/chunk` may leave those of an older content;
`FreshRebuildExact` says that overlap is the only way to that.

`ContentSplitter` runs the loop over paragraphs with the size as a constant: 4
in the run instead of 500. A character is known by its paragraph and place, so
that `NothingLost` tells a lost, doubled or moved one. A content of white space
alone is one chunk of any length; `ChunksFit` therefore speaks of contents with
a paragraph.

### TicketDesk

A call is a request of the page that changes something or asks the AI; `calls`
are numbered in the order the agent makes them. Each hook of the page is an
observer of its latest call: `HearSuccess` runs the hook's own `onSuccess`
(`Invalidate`) for every call, and the page's (`Callback`) only if the call is
still the latest and the page is open, which is how TanStack Query does it. The
query has its data, what is stale, and the fetch in flight with what it read;
`Invalidate` cancels that fetch and starts another. On the server a call is one
commit: `Assist` (with `AskAgain`, the second attempt of classify),
`AddMessage`, `Change`, after which it answers, with an error if it cannot read
back what it wrote; or else `Refuse`. The connection of a call may break
wherever the server is (`Break`). While the dialog is open the page under it
cannot be used, since it covers the window.

What the model shows, at the lines that do it:

* `TicketDetailPage.tsx:79`: a suggestion asked for before the dialog was
  opened replaces the text under the open dialog, and goes out without review
  (`TicketDeskLateDraft`). It is the only way to send another text than the one
  that was there when the dialog opened (`ConfirmedTextUnlessDrafted`).
* `TicketDetailPage.tsx:204`: a note can be sent twice, since the button is not
  disabled while the first is on its way; and the success of a message empties
  the composer of what was typed meanwhile.
* `TicketDetailPage.tsx:92`: a suggested text is sent without `ai_generated`,
  so the badge "AI draft" of the timeline is never shown for it.
* `ai/guardrails.py:3` says "Applied to user-supplied text before it reaches
  the LLM"; classify and summarize do not apply it, suggest-reply not to the
  subject. Texts are abstracted here, so no run shows it.

### Accounts and BrowserSession

Every container is down, seeding (`empty`: it found no customer; `users`: it
has inserted the accounts and not committed) or up; `SeedUsers` waits for the
unique keys of another seed and fails on committed ones. `demo` counts the
commits of everything else the seed inserts. A request is checked (`Check`,
`Login`, `Deny`, `Read`) against the rows of one moment and written at a later
one (`CommitCreate`, `CommitUpdate`), since bcrypt runs in between and the
threads overlap; `row` is what the session loaded, and `Flushed` is again the
rule of the UPDATE. Look-ups compare addresses in lower case and the unique key
does not, so an account whose address differs in case only can be created by an
overlapping call.

A tab holds the token of memory, the user of `AuthContext`, whether bootstrap
still waits, and the path; `storage` is the token of local storage, read when a
document is loaded (`OpenPage`) and written by every tab. `HearDenied` is the
401 branch of `apiRequest`, `HearError` any other failure, `AfterError` what
the caller does with it: bootstrap signs out on any error, a broken connection
included. Requests under way outlive logout and their document; a request is
dropped from the state once nobody serves it and nobody waits for it.

What the model shows, at the lines that do it:

* `AuthContext.tsx:29`: `/login` can be used while bootstrap waits. If the
  sign-in is answered first, the user shown may be the former one with the
  token of the new one, or, after a denied sign-in, one without a token.
  `SignedInAsToken` therefore excepts a document in which a sign-in was
  answered before bootstrap was (`overtaken`); if bootstrap is answered first,
  it holds.
* `apiClient.ts:51`: a 401 for an earlier session's request drops the token of
  the present one. The tab then starts over at the login page, so it never acts
  as somebody it does not show.
* `commands/seed.py:365`: of two containers started at once the second fails,
  instead of skipping the seed, and is up when started again.
* Disabling or demoting the last admin is possible and final
  (`LockoutIsFinal`).

## 3. Runs

| Run | Instance | Shows |
|---|---|---|
| `WebhookConcurrent` | 2 processes, 7 events, 1 fault | types, `ExactlyOneInvoice`, `PaymentsBacked`, `AckedAreProcessed`, and `LedgerSpec`: the endpoint implements the ledger |
| `WebhookInOrder` | 2 processes, 5 events, 1 fault, in order | `MirrorsStripe`, `EffectKept`, and the liveness `EventuallyAcked`, `DeliveryEnds` |
| `TicketsConcurrent` | 1 ticket, 2 calls, 2 users, 1 unknown id | types, `FreshFollowsMachine`, `NeverNewAgain`, `OnlyAskedColumns` |
| `TicketsRace` | the same | violates `FollowsMachine` (finding) |
| `CopilotSockets` | 2 sockets and 1 HTTP call, 2 turns | types, `TurnsWhole`, `SocketHistoryInOrder`, `TitleIsFirstQuestion`, `TurnEnds` |
| `CopilotFailedTurn` | 1 socket and 1 HTTP call, 2 turns | violates `FailureLeavesTrace` (two findings) |
| `CopilotPage` | 3 connections, 3 questions, 2 views | types, `AnswersAreHistory`, `AnswersStay`, `PendingClears` |
| `KnowledgeConcurrent` | 2 articles, 2 calls, 2 texts, 4 rebuilds, backfill | types, `VectorsMatch`, `ChunksWhole`, `FreshRebuildExact` |
| `Splitter` | size 4, up to 3 paragraphs of up to 9 characters | `ChunksFit`, `ShortParagraphsWhole`, `NothingLost`, `SplitEnds` |
| `TicketDesk` | 2 messages and 1 other call, 1 opening of the dialog, 1 fault | types, `RepliesOnce`, `PageCatchesUp`, and the liveness `SentIsShown` |
| `TicketDeskLateDraft` | 1 message and 1 draft, no fault | violates `ReplyIsConfirmedText` (finding) |
| `BrowserSession` | 2 containers, 2 tabs, 3 requests, 1 fault | types, `DemoWhole`, `SignedInAsToken`, `LockoutIsFinal` |

### Bounds

* Webhook: the events were chosen so that every pair of handlers meets on one
  row: two failures and a success of one intent, two checkouts with one invoice
  id, one without, and one whose customer has no row. Two processes suffice for
  every interleaving of two transactions, and a third could only wait behind
  one of them; one fault is a crash, a lost answer, a rejected signature or a
  duplicate at any point. The safety properties are proved for every bound.
* Tickets: calls meet only on the same ticket, and a call in between can be run
  by either thread once it is free, so two threads already give any number of
  calls of which two overlap. The statuses and transitions are all there. The
  types and all three action properties are proved for every bound.
* Copilot: two sockets and an HTTP call give the order of two commits and an
  audit row of someone else; `MAX_ITERATIONS` is 1 instead of 5, and a loop of
  one model call already ends in each of its ways; a reply asks for two tools
  at most, which is one that fails beside one that does not. Time (`clock`)
  only orders the openings of transactions, and `MaxClock` only stops new
  connections. The safety properties are proved for every number of sockets,
  turns and iterations.
* Page: three connections are one that breaks before `ready`, one after it, and
  one of another view; three questions are one at work, one queued and one
  asked afterwards. `Break`, `Reject` and `Switch` leave room for one more
  connection, so that the end of the bound is not a connection that never comes
  back. The safety properties are proved for every bound.
* Knowledge: two articles give the backfill two calls of the service with
  others' commits between them; a text of one chunk and one of two tell whole
  sets from single rows, and a row at its position from one that is not; two
  overlapping calls with two more afterwards let a rebuild find what an overlap
  left. The safety properties are proved for every bound.
* Splitter: lengths up to twice the size and one more hit the boundary from
  both sides after a cut; three paragraphs are a full buffer, one that joins
  and one that does not. All three safety properties are proved for every size
  and every content.
* Ticket page: two messages are what a double sending takes, and the third call
  is a change that overtakes a fetch, or a suggestion that arrives late; one
  opening of the dialog is what `RepliesOnce` is about. A fault is a broken
  connection, a fetch that fails twice, or the page left and opened again.
  `update`, and `summarize`, are left out of the instance: the first does what
  `resolve` does in this model, the second what `classify` does without its
  second attempt. The safety properties are proved for every set of hooks and
  every bound.
* Sessions: a login, a call that disables or demotes, and a third that was open
  meanwhile; or a login, the bootstrap of the other tab and what overtakes it.
  Two containers are two seeds that overlap. A fault is a crash of a container,
  a token that expires, a commit that fails or a broken connection. Tabs and
  containers are interchangeable (`Symmetry`); the run has no liveness
  property. All its properties are proved for every number of containers, tabs,
  requests and faults.

`CHECK_DEADLOCK FALSE` stands where the system may rest: no article left to
rebuild, every question asked, the page left, all requests made. The webhook
and ticket runs check deadlock.

### Findings

Four places where the code does something else than the repository says; the
runs `TicketsRace`, `CopilotFailedTurn` (2 and 3) and `TicketDeskLateDraft` are
the counterexamples.

1. `ticket_service.py:108`: overlapping calls commit transitions that are not
   allowed (for instance closed, then pending_customer).
2. `api/v1/ai.py:291`: a turn that fails is rolled back with its question,
   which `copilot_service.py:151` says is persisted first "so a mid-turn failure
   keeps it".
3. `copilot_service.py:183`: the audit row is added when the loop has ended and
   committed with the answer, so a run that fails leaves none, whatever tools it
   has called; `copilot_service.py:4` and `README.md:143` speak of every run and
   every call.
4. `TicketDetailPage.tsx:79`: a draft that arrives while the confirmation is
   open replaces the text and is sent, while `README.md:143` has drafts
   "requiring human review before sending", and the page itself says "Always
   review before acting" (line 224) and "review and send" (line 292).

Met, and without a run:

* `webhook_service.py:144`: the order of events is not looked at, so a paid
  payment may end as failed, while `models/payment.py:1` has it mirror Stripe.
  The models have it: `MirrorsStripe` in the instance of `WebhookConcurrent`,
  which sends in any order, fails once three events are answered.
  `MirrorsInOrder` proves that disorder is the only cause.
* `conversation_repository.py:63`: with two tabs on one conversation a turn
  reads back before turns that were answered before it, while
  `models/conversation.py:3` wants the full history replayed at every question.
  `HistoryInCommitOrder` fails in `CopilotSockets`; `OneSocketInOrder` proves
  that the second tab is the only cause.
* Question and answer of a turn have the same `created_at`, and nothing breaks
  the tie when they are read back.

## 4. Fairness

* `WebhookProcessing`: strong fairness for each process's next statement: a
  statement waiting for a key is woken whenever a transaction ends and
  PostgreSQL queues waiters; the statement is enabled again and again rather
  than always. Strong fairness for the delivery of an event that is not
  acknowledged: Stripe keeps retrying, and a process is free now and then.
  Crashes and other faults are never forced and are bounded.
* `CopilotConversation`: weak fairness for a turn that is running: the thread
  runs on and the model client (`integrations/llm_client.py`, with the time
  limit its library sets by default) returns or raises. Nothing is assumed of
  users.
* `CopilotPage`: weak fairness for opening a connection (the library retries
  without end), for hearing the next event of a connection or its end, and for
  the server's handler. Breaks, refusals and users are never forced.
* `ContentSplitter`: the function runs.
* `TicketDesk`: weak fairness for the server and the answers of calls (threads
  run on, the model client returns or raises, an answer that was sent arrives
  or the connection breaks) and for the fetch of the ticket. Nothing is assumed
  of the agent.
* Tickets, the knowledge base and the sessions state safety only: a call is a
  few statements whose row locks are waited for, and no property claims more.

## 5. Proofs

All theorems are about the specification without fairness and hold for every
value of the constants that satisfies the modules' named assumptions; five
restrict them further and say so in their hypothesis: `MirrorsInOrder` and
`EffectsKeptInOrder` (ordered sending), `SerialFollowsMachine` (one thread),
`OneSocketInOrder` (one socket) and `ConfirmedTextUnlessDrafted` (no
suggestions). Every invariant and every action property that a run checks and
finds true is stated by one. Each proof has an invariant that steps keep, with
a step per action; why the checked property alone does not do is said with
each.

* **`WebhookProofs`**. `Invariance`: the inductive invariant relates each
  process's statement to what its session loaded and to the rows: whoever is
  past the insert holds the event's key, so the event is not processed and no
  one else is past it; whoever has inserted a payment or an invoice holds that
  key and no constraint is against it; a payment row that someone has loaded is
  still there, and if its reason has changed since, a processed failure wrote
  the new one. Without these, the safety properties are true but not inductive:
  a commit would be possible from a state where two processes had the same
  event in hand. From it follow `TypeCorrect`, `ExactlyOnce`,
  `PaymentsAreBacked`, `NoAckBeforeCommit`, and `Refinement`: a commit is a
  step of the ledger and every other step stutters. `MirrorsInOrder` and
  `EffectsKeptInOrder` have `InOrder` as their hypothesis, and a second
  invariant on top: what is in hand was sent when the earlier events of its
  intent had been answered (`Sent`), hence they are committed and nobody else
  changes the row that was loaded (`Fresh`); an event that is committed is the
  latest of its intent (`InTurn`), so the row shows the latest (`LatestShown`).
* **`TicketProofs`**. The types with one addition, that a running call has a
  loaded row of its ticket, are inductive; `NeverNew`, `NoForeignColumn` and
  `FreshFollows` are action properties shown on `Commit`, the only step that
  changes an existing row. `SerialFollowsMachine` adds that with one thread
  `FollowsMachine` itself holds, so the finding is due to overlap alone.
* **`ConversationProofs`**. A socket at work runs a turn that was asked and
  that no other socket runs (`TurnsRun`), and the tables hold rows of turns
  that are over only (`TurnsOver`): without that, an answer could be added to a
  turn that has one, and `TurnsAreWhole` would not be kept. A turn that is
  running is some socket's, and one that was never asked is ahead of all
  (`Outcomes`), so no table knows either; with `Persisted`, that an answered
  turn is whole and any other whole or absent, that is `TurnsAreWhole`. An open
  transaction is younger than all its socket has committed (`Transactions`),
  which is `SocketsKeepOrder` one step ahead. `TitlesSeen` says when a
  session's copy of the title is right: a title that it saw is there, and a
  session that saw none has committed no message since; from it
  `TitlesAreFirst`. With one socket `SocketHistoryInOrder` speaks of every
  turn, which is `OneSocketInOrder`: what reorders the history is a second tab
  alone.
* **`PageProofs`**. A question is in one place: the queue of the socket
  library, on its way, at work, or in a history (`OnePlace`), so that no answer
  comes twice. Connections are used one after another and one at most is up
  (`Link`); a question that waits in the queue is the one at work (`Waiting`).
  The main part is what is on its way to the page on the connection that is up
  (`Streams`): first the opening (`Opens`), then one history, of the
  conversation served and with every answer the page already shows (`Resumes`),
  then answers that are committed there and neither in that history nor on the
  page (`Brings`). From it `PageShowsHistory`, and `ReadAnswersStay`, which is
  about the step that puts a history in the place of what was shown.
* **`KnowledgeProofs`**. `Invariance`: the rows born of one rebuild agree, are
  complete and are each there once; the number of a running rebuild is its own
  and on no row yet; a call deletes rows of its own article only, and all or
  none of each set, which is what keeps sets whole when two calls delete the
  same rows; every article has chunks. What the backfill has loaded and
  computed is `Captured`: of every row it listed, the row with that id, while
  there is one, still has the text whose vector it computed, and no call can
  bring the id back (`Remembered`). That the right vector is set on each row by
  its position is `ZipPairs`, for rows in any order and any number of vectors.
  From it `TypeCorrect`, `VectorsStayMatched`, `SetsStayWhole` and
  `FreshRebuilds`.
* **`SplitterProofs`**. `ChunksAlwaysFit`: between paragraphs the buffer fits,
  and it is empty only before the first one, so no chunk is too long or empty.
  `ShortStayWhole`: a buffer that is still too long holds the rest of one long
  paragraph (`LongTail`), so no cut goes through a short one. `AllKept`: the
  chunks and the buffer together are a `Reading`, from places to characters,
  and a reading is `Faithful` to a set of characters if it has each once, in
  order, and no other. A paragraph that joins the buffer makes the reading
  longer by its own characters (`LongerReading`); a buffer that becomes a
  chunk, or is cut, only moves them (`SameReading`). That is how nothing about
  the content as a whole has to be computed by induction.
* **`DeskProofs`**. What the page hears of is what the server committed
  (`Truthful`). While the dialog is open, what it has confirmed has failed or
  is the latest message and still waits (`Deciding`), which is when the button
  is disabled; so of two messages of one opening the earlier had failed
  (`OneEach`), and `ConfirmedOnce` follows. The text under the dialog is the
  one it was opened over or a suggestion that has arrived (`Covered`); so on a
  page without suggestions what is sent is what was there
  (`ConfirmedTextUnlessDrafted`), and the late draft of the finding is the only
  cause of it. What a fetch has read has every change the page has heard of
  (`Fetching`), because hearing of one cancels the fetch; hence `NeverBehind`.
  `Counted` ties the bounds to the calls made, for the types.
* **`AccessProofs`**. `AInv`: the addresses are distinct and the first two are
  the demo accounts'; a container between the two halves of its seed is the
  only one, and the tables are empty; every account that a token, a tab or a
  request names is there (an account is never deleted, and a token is only ever
  issued for one), and a call past its checks has a token. From it
  `SeedIsWhole`, and `NoWayBack`: without an active admin the checks that would
  let a call make one fail, and no call past them is left that would.
  `ActsAsShown` adds `Session`, which says what a tab waits for, unless a
  sign-in was answered before bootstrap was (the property excepts that
  document): while it is loading it shows no user and waits for one answer
  about its own token, and for sign-ins; otherwise for none that would change
  the user alone; and the login page shows no user, so a 401 heard there may
  drop the token. Steps of the server keep it because they leave alone whose
  request it is, whose token it has and who waits (`Served`). `TypeCorrect`
  needs a count (`Budget`): the accounts, and the requests that may still
  create one, are no more than were seeded and sent. The other theorems do not
  use the bounds on requests and faults.

What the proofs rest on: the constants' assumptions, which TLC evaluates in the
runs, and the standard theorems about finite sets and sequences. The
assumptions say that constants which stand for nothing (`Null`, `Keep`) are not
among the things they are told from, that a bound is a number, and what the
payloads of events and the cut of texts are: `PayloadAssumption`,
`NullAssumption`, `BoundsAssumption`, `WorkersAssumption`, `NamesAssumption`,
`CopilotAssumption`, `PageAssumption`, `KnowledgeAssumption`,
`SplitterAssumption`, `DeskAssumption` and `AccountsAssumption`. Three say
more, because a proof did not go through without:

* `PageAssumption` has a first view, since the page is open from the start.
* `DeskAssumption` has `message` among the hooks: the dialog sends one.
* `OrderAssumption` gives two events of one intent different places in Stripe's
  order; with equal ones neither is the latest, and `MirrorsStripe` means
  nothing.

Model-checked only: liveness (`EventuallyAcked`, `DeliveryEnds`, `TurnEnds`,
`PendingClears`, `SplitEnds`, `SentIsShown`), which the prover does not reach.
The findings are counterexamples of TLC.

## 6. Plan

Done, in this order: the webhook endpoint and its ledger, tickets, the copilot
conversation, the knowledge base and its splitter, the copilot page, the ticket
page with AI assist, accounts with the seed, and the browser session; then a
theorem for every safety property of theirs.

Next: an abstract history behind the copilot page (a turn is answered in one
step, or never) that `CopilotPage` implements, as `WebhookProcessing` does the
ledger; and, from the hazards without a property, the sum of the balance as an
operator.

### Not modelled

* The pool (`db/session.py:17`): an idle copilot socket keeps a connection, and
  `copilot_ws` waits for one on the event loop. A model would have to take the
  number of sockets and the timeouts as its assumptions, and no line of the
  repository says what is promised then.
* The read sides: lists, the billing summary, the dashboard, and of the two
  searches what a query matches and how far vectors are apart. They compute
  from rows of one or a few statements and change nothing. The balance
  (`billing_service.py:80`) sums the latest hundred invoices only.
* Customers and plans: single-row writes without rules of their own.
* Guardrails and prompts: pattern matches and texts. Rate limits, error
  handlers, configuration and logging: set-up of libraries; what a handler does
  with an exception is the failing action of each module.
* The order in which a timeline shows messages (`models/ticket.py:62`), which
  is that of the openings of transactions; `CopilotConversation` has that
  clock.
* The query cache across sessions: logout keeps it, so the next user of the
  same tab sees what the previous one's pages fetched, for up to thirty seconds
  without a refetch. Nothing in the repository says otherwise.
* The other pages: forms and tables over single requests.

## 7. Running

    tlc -workers 2 -config WebhookConcurrent.cfg MCWebhookProcessing.tla
    tlapm WebhookProofs.tla

and likewise for the module and configuration of every run in `PROJECT.json`.
