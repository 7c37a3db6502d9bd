-------------------------- MODULE WebhookProcessing --------------------------
(***************************************************************************)
(* POST /webhooks/stripe: WebhookService.process as the steps of one       *)
(* database transaction, run by concurrent server processes (Workers),     *)
(* with Stripe (external) delivering every event until it is acknowledged. *)
(*                                                                         *)
(* A handler runs on the event loop without yielding, so one process       *)
(* handles one delivery at a time; the statements of different processes   *)
(* interleave.  The database runs at READ COMMITTED: a SELECT sees what is *)
(* committed, an INSERT whose unique key another open transaction has      *)
(* inserted waits for that transaction to end, and a transaction that      *)
(* fails or whose process dies leaves nothing.                             *)
(***************************************************************************)
EXTENDS BillingEvents

CONSTANTS
  Workers,     \* server processes
  MaxFaults,   \* bound: crashes, lost answers, rejected signatures, duplicates
  InOrder      \* TRUE: Stripe sends an event only when the earlier ones of its
               \* payment intent are acknowledged.  Stripe promises FALSE.

ASSUME BoundsAssumption == MaxFaults \in Nat /\ InOrder \in BOOLEAN
ASSUME WorkersAssumption == Null \notin Workers

\* order is a place in Stripe's order: no two events of an intent share one.
ASSUME OrderAssumption ==
  \A e, f \in Events :
    /\ SameIntent(e, f)
    /\ Payload[e].intent # Null
    /\ Payload[e].order = Payload[f].order
    => e = f

VARIABLES
  eventRows,   \* table webhook_events: [Events -> "absent" | "received" | "processed"]
  invoices,    \* table invoices: [Events -> how many rows the event has created]
  payments,    \* table payments: [Intents -> the row, or Null]
  pc,          \* [Workers -> the next statement of the handler]
  delivery,    \* [Workers -> the event being handled, or Null]
  found,       \* [Workers -> what get_event returned]
  loaded,      \* [Workers -> the payment row in the session, or Null]
  acked,       \* Stripe's state: the events answered with 200
  faults       \* faults so far

tables  == <<eventRows, invoices, payments>>
session == <<delivery, found, loaded>>
vars    == <<tables, pc, session, acked, faults>>

PC == {"idle", "lookup", "insert", "dispatch", "invoice", "payment", "commit",
       "ok", "error"}

EventRow == {"absent", "received", "processed"}

\* Every variable has its type: which statement each process is at, which rows
\* the tables hold (models/webhook_event.py, invoice.py, payment.py).
TypeOK ==
  /\ eventRows \in [Events -> EventRow]
  /\ invoices \in [Events -> Nat]
  /\ payments \in [Intents -> PaymentRow \cup {Null}]
  /\ pc \in [Workers -> PC]
  /\ delivery \in [Workers -> Events \cup {Null}]
  /\ found \in [Workers -> EventRow]
  /\ loaded \in [Workers -> PaymentRow \cup {Null}]
  /\ acked \in SUBSET Events
  /\ faults \in 0 .. MaxFaults

Init ==
  /\ eventRows = [e \in Events |-> "absent"]
  /\ invoices = [e \in Events |-> 0]
  /\ payments = [i \in Intents |-> Null]
  /\ pc = [w \in Workers |-> "idle"]
  /\ delivery = [w \in Workers |-> Null]
  /\ found = [w \in Workers |-> "absent"]
  /\ loaded = [w \in Workers |-> Null]
  /\ acked = {}
  /\ faults = 0

------------------------------------------------------------------------------
(* What the open transactions hold.                                        *)

\* w has inserted its webhook_events row and not yet committed it
HoldsEvent(w) ==
  /\ pc[w] \in {"dispatch", "invoice", "payment", "commit"}
  /\ found[w] = "absent"

\* w has inserted the invoice row of its event
HoldsInvoice(w) == pc[w] = "commit" /\ CreatesInvoice(delivery[w])

\* w has inserted a payment row for the intent of its event
HoldsPayment(w) ==
  pc[w] = "commit" /\ TouchesPayment(delivery[w]) /\ loaded[w] = Null

\* The request ends and its session is closed: Session.close() rolls back.
Close(w) ==
  /\ delivery' = [delivery EXCEPT ![w] = Null]
  /\ found' = [found EXCEPT ![w] = "absent"]
  /\ loaded' = [loaded EXCEPT ![w] = Null]

Goto(w, label) == pc' = [pc EXCEPT ![w] = label]

Fault == faults < MaxFaults /\ faults' = faults + 1

------------------------------------------------------------------------------
(* Stripe.                                                                 *)

Earlier(f, e) ==
  /\ SameIntent(f, e)
  /\ Payload[e].intent # Null
  /\ Payload[f].order < Payload[e].order

MaySend(e) ==
  InOrder => \A f \in Events : Earlier(f, e) => f \in acked

\* A delivery reaches a free process: the first one, a retry after an error or
\* a timeout, or a duplicate of one already acknowledged.
Deliver(w, e) ==
  /\ pc[w] = "idle"
  /\ MaySend(e)
  /\ IF e \in acked THEN Fault ELSE UNCHANGED faults
  /\ delivery' = [delivery EXCEPT ![w] = e]
  /\ Goto(w, "lookup")
  /\ UNCHANGED <<tables, found, loaded, acked>>

\* construct_event refuses the delivery: the signature is stale, or the secret
\* is missing for a while.  502 or 503, nothing is read or written.
RejectSignature(w, e) ==
  /\ pc[w] = "idle"
  /\ MaySend(e)
  /\ Fault
  /\ delivery' = [delivery EXCEPT ![w] = e]
  /\ Goto(w, "error")
  /\ UNCHANGED <<tables, found, loaded, acked>>

------------------------------------------------------------------------------
(* WebhookService.process, statement by statement.                         *)

\* a bug: an existing row never stops the handler
LookUpIgnoringProcessed(w) ==
  /\ pc[w] = "lookup"
  /\ found' = [found EXCEPT ![w] = eventRows[delivery[w]]]
  /\ Goto(w, IF found'[w] = "absent" THEN "insert" ELSE "dispatch")
  /\ UNCHANGED <<tables, delivery, loaded, acked, faults>>

\* get_event: processed is skipped, absent is inserted, and a row that was
\* received but not processed is handled again.
LookUpEvent(w) ==
  /\ pc[w] = "lookup"
  /\ found' = [found EXCEPT ![w] = eventRows[delivery[w]]]
  /\ Goto(w, CASE found'[w] = "processed" -> "ok"
               [] found'[w] = "received"  -> "dispatch"
               [] found'[w] = "absent"    -> "insert")
  /\ UNCHANGED <<tables, delivery, loaded, acked, faults>>

\* a bug: webhook_events without its unique constraint
InsertEventWithoutConstraint(w) ==
  /\ pc[w] = "insert"
  /\ Goto(w, "dispatch")
  /\ UNCHANGED <<tables, session, acked, faults>>

\* a bug: every delivery share-locks its event before it inserts it, and two
\* deliveries of one event wait for each other's share lock
InsertEventUpgradingLock(w) ==
  /\ pc[w] = "insert"
  /\ \A v \in Workers \ {w} :
       pc[v] \in {"idle", "lookup", "ok", "error"} \/ delivery[v] # delivery[w]
  /\ Goto(w, IF eventRows[delivery[w]] = "absent" THEN "dispatch" ELSE "error")
  /\ UNCHANGED <<tables, session, acked, faults>>

\* add_event: INSERT under uq_webhook_provider_event.  It waits for an open
\* transaction that inserted the same event and fails if that one committed.
InsertEvent(w) ==
  /\ pc[w] = "insert"
  /\ \A v \in Workers \ {w} : ~(HoldsEvent(v) /\ delivery[v] = delivery[w])
  /\ Goto(w, IF eventRows[delivery[w]] = "absent" THEN "dispatch" ELSE "error")
  /\ UNCHANGED <<tables, session, acked, faults>>

\* _dispatch up to the handler's first write: an event that is not for us goes
\* straight to the commit; a payment handler first loads the intent's row.
Dispatch(w) ==
  LET e == delivery[w]
  IN  /\ pc[w] = "dispatch"
      /\ IF TouchesPayment(e)
           THEN /\ loaded' = [loaded EXCEPT ![w] = payments[Payload[e].intent]]
                /\ Goto(w, IF loaded'[w] = Null THEN "payment" ELSE "commit")
           ELSE /\ Goto(w, IF CreatesInvoice(e) THEN "invoice" ELSE "commit")
                /\ UNCHANGED loaded
      /\ UNCHANGED <<tables, delivery, found, acked, faults>>

\* _handle_checkout_completed: INSERT INTO invoices, under the unique
\* stripe_invoice_id and the foreign key to customers.
AddInvoice(w) ==
  LET e == delivery[w]
      taken == \E f \in Events : invoices[f] > 0 /\ SameInvoice(e, f)
  IN  /\ pc[w] = "invoice"
      /\ \A v \in Workers \ {w} :
           ~(HoldsInvoice(v) /\ SameInvoice(e, delivery[v]))
      /\ Goto(w, IF taken \/ ~CustomerExists(e) THEN "error" ELSE "commit")
      /\ UNCHANGED <<tables, session, acked, faults>>

\* a bug: an IntegrityError is caught and the delivery answered with 200
AddPaymentSwallowingErrors(w) ==
  LET e == delivery[w]
      taken == payments[Payload[e].intent] # Null
  IN  /\ pc[w] = "payment"
      /\ \A v \in Workers \ {w} :
           ~(HoldsPayment(v) /\ SameIntent(e, delivery[v]))
      /\ Goto(w, IF taken \/ ~CustomerExists(e) THEN "ok" ELSE "commit")
      /\ UNCHANGED <<tables, session, acked, faults>>

\* The payment handlers, no row for the intent: INSERT INTO payments, under the
\* unique stripe_payment_intent_id and the foreign key to customers.
AddPayment(w) ==
  LET e == delivery[w]
      taken == payments[Payload[e].intent] # Null
  IN  /\ pc[w] = "payment"
      /\ \A v \in Workers \ {w} :
           ~(HoldsPayment(v) /\ SameIntent(e, delivery[v]))
      /\ Goto(w, IF taken \/ ~CustomerExists(e) THEN "error" ELSE "commit")
      /\ UNCHANGED <<tables, session, acked, faults>>

\* a bug: the handler of a success leaves a payment it finds as it is
FlushedOnlyFailures(w, row) ==
  LET new == Assigned(loaded[w], delivery[w])
      old == loaded[w]
  IN  [status |-> IF new.status = "failed" THEN new.status ELSE row.status,
       reason |-> IF new.reason # old.reason THEN new.reason ELSE row.reason]

\* The row that the commit's UPDATE leaves: it writes the columns that differ
\* from what the session loaded, on top of the row as it is now.
Flushed(w, row) ==
  LET new == Assigned(loaded[w], delivery[w])
      old == loaded[w]
  IN  [status |-> IF new.status # old.status THEN new.status ELSE row.status,
       reason |-> IF new.reason # old.reason THEN new.reason ELSE row.reason]

\* a bug: processed is never set
CommitWithoutProcessed(w) ==
  LET e == delivery[w]
      i == Payload[e].intent
  IN  /\ pc[w] = "commit"
      /\ eventRows' = [eventRows EXCEPT ![e] = "received"]
      /\ invoices' = IF HoldsInvoice(w) THEN [invoices EXCEPT ![e] = @ + 1]
                                        ELSE invoices
      /\ payments' =
           IF TouchesPayment(e)
             THEN [payments EXCEPT ![i] = IF loaded[w] = Null THEN NewPayment(e)
                                          ELSE Flushed(w, @)]
             ELSE payments
      /\ Goto(w, "ok")
      /\ UNCHANGED <<session, acked, faults>>

\* a bug: the session is never committed
CommitForgotten(w) ==
  /\ pc[w] = "commit"
  /\ Goto(w, "ok")
  /\ UNCHANGED <<tables, session, acked, faults>>

\* processed = True and commit: the event row and its effect appear together.
Commit(w) ==
  LET e == delivery[w]
      i == Payload[e].intent
  IN  /\ pc[w] = "commit"
      /\ eventRows' = [eventRows EXCEPT ![e] = "processed"]
      /\ invoices' = IF HoldsInvoice(w) THEN [invoices EXCEPT ![e] = @ + 1]
                                        ELSE invoices
      /\ payments' =
           IF TouchesPayment(e)
             THEN [payments EXCEPT ![i] = IF loaded[w] = Null THEN NewPayment(e)
                                          ELSE Flushed(w, @)]
             ELSE payments
      /\ Goto(w, "ok")
      /\ UNCHANGED <<session, acked, faults>>

\* The answer reaches Stripe: 200, or an error that Stripe will retry.
Answer(w) ==
  /\ pc[w] \in {"ok", "error"}
  /\ acked' = IF pc[w] = "ok" THEN acked \cup {delivery[w]} ELSE acked
  /\ Goto(w, "idle")
  /\ Close(w)
  /\ UNCHANGED <<tables, faults>>

\* The process dies and is restarted, or its answer is lost: the transaction is
\* rolled back and Stripe hears nothing.
Crash(w) ==
  /\ pc[w] # "idle"
  /\ Fault
  /\ Goto(w, "idle")
  /\ Close(w)
  /\ UNCHANGED <<tables, acked>>

------------------------------------------------------------------------------

Step(w) ==
  \/ LookUpEvent(w)
  \/ InsertEvent(w)
  \/ Dispatch(w)
  \/ AddInvoice(w)
  \/ AddPayment(w)
  \/ Commit(w)
  \/ Answer(w)

Next ==
  \E w \in Workers :
    \/ \E e \in Events : Deliver(w, e) \/ RejectSignature(w, e)
    \/ Step(w)
    \/ Crash(w)

Spec == Init /\ [][Next]_vars

\* A process that can run its next statement again and again does (a statement
\* that waits for another transaction is woken whenever one ends, and is not
\* overtaken for ever); Stripe keeps sending an event that is not acknowledged,
\* and now and then a process is free for it.  Crashes are never forced, and
\* MaxFaults makes them stop.
Fairness ==
  /\ \A w \in Workers : SF_vars(Step(w))
  /\ \A e \in Events :
       SF_vars(e \notin acked /\ \E w \in Workers : Deliver(w, e))

FairSpec == Spec /\ Fairness

------------------------------------------------------------------------------
(* Properties.                                                             *)

Processed == {e \in Events : eventRows[e] = "processed"}

\* Exactly once: an event has one invoice row when it is recorded as processed
\* and its handler makes one, none otherwise, through concurrent duplicates,
\* crashes and retries (webhook_service.py: "Each event is stored exactly once",
\* "retries from Stripe are safe").  No event is committed half processed.
ExactlyOneInvoice ==
  \A e \in Events :
    /\ eventRows[e] # "received"
    /\ invoices[e] = IF e \in Processed /\ CreatesInvoice(e) THEN 1 ELSE 0

\* A payment row is there exactly when an event of its intent is processed; its
\* status is that of one of them, and a failed one has the reason of a failure,
\* although two processes may overwrite each other's columns.
PaymentsBacked ==
  \A i \in Intents :
    LET about == {e \in Processed : TouchesPayment(e) /\ Payload[e].intent = i}
    IN  /\ (payments[i] = Null) <=> (about = {})
        /\ payments[i] # Null =>
             \E e \in about :
               /\ payments[i].status = Payload[e].type
               /\ payments[i].status = "failed" =>
                    payments[i].reason = Payload[e].reason

\* Stripe is never told 200 for an event whose record and effect are not
\* committed: it would not be sent again.
AckedAreProcessed == acked \subseteq Processed

\* models/payment.py "mirrors Stripe payment intents": when Stripe owes the
\* server no event of an intent, the payment has the status of the last event
\* that Stripe created for it.
MirrorsStripe ==
  \A e \in acked :
    /\ TouchesPayment(e)
    /\ \A f \in Events : SameIntent(f, e) => f \in acked
    /\ \A f \in Events : ~Earlier(e, f)
    => payments[Payload[e].intent].status = Payload[e].type

\* A processed payment event is not lost: the step that records it leaves its
\* status, and its reason if it is a failure, in the payment row.
EffectKept ==
  [][\A e \in Events :
       /\ eventRows[e] # "processed"
       /\ eventRows'[e] = "processed"
       /\ TouchesPayment(e)
       => LET row == payments'[Payload[e].intent]
          IN  /\ row.status = Payload[e].type
              /\ row.status = "failed" => row.reason = Payload[e].reason]_vars

\* The endpoint implements the ledger: each event applied at most once, whole.
Ledger == INSTANCE WebhookLedger WITH processed <- Processed

LedgerSpec == Ledger!Spec

\* Nothing in the database refuses e: its customer has a row, and no other event
\* wants the invoice id it brings.
Acceptable(e) ==
  /\ CreatesInvoice(e) \/ TouchesPayment(e) => CustomerExists(e)
  /\ CreatesInvoice(e) =>
       \A f \in Events \ {e} : CreatesInvoice(f) => ~SameInvoice(e, f)

\* Every acceptable event is processed at last, whatever other events fail for
\* good, and Stripe learns of it.
EventuallyAcked ==
  \A e \in Events : Acceptable(e) => <>(e \in Processed /\ e \in acked)

\* No delivery hangs: waits on unique keys never form a cycle, so every request
\* ends.
DeliveryEnds == \A w \in Workers : pc[w] # "idle" ~> pc[w] = "idle"

=============================================================================
