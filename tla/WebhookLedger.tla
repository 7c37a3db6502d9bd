---------------------------- MODULE WebhookLedger ----------------------------
(***************************************************************************)
(* What the webhook endpoint promises: every Stripe event takes effect at  *)
(* most once, in one step with the record that it was processed, whatever  *)
(* the number of deliveries, servers and crashes behind it.                *)
(***************************************************************************)
EXTENDS BillingEvents

VARIABLES
  processed,   \* the events recorded as processed
  invoices,    \* [Events -> how many invoice rows the event has created]
  payments     \* [Intents -> the payment row, or Null]

ledger == <<processed, invoices, payments>>

Init ==
  /\ processed = {}
  /\ invoices = [e \in Events |-> 0]
  /\ payments = [i \in Intents |-> Null]

\* The rows that recording e may leave where row was.  Each column is e's, or
\* still the old one: an UPDATE writes only the columns the session changed,
\* so a column that e found right already keeps a concurrent writer's value.
Merged(row, e) ==
  {r \in PaymentRow : /\ r.status \in {row.status, Assigned(row, e).status}
                      /\ r.reason \in {row.reason, Assigned(row, e).reason}}

Bill(e) ==
  IF CreatesInvoice(e)
    THEN /\ CustomerExists(e)
         /\ \A f \in Events : invoices[f] > 0 => ~SameInvoice(e, f)
         /\ invoices' = [invoices EXCEPT ![e] = @ + 1]
    ELSE UNCHANGED invoices

Pay(e) ==
  IF TouchesPayment(e)
    THEN LET i == Payload[e].intent
         IN  IF payments[i] = Null
               THEN /\ CustomerExists(e)
                    /\ payments' = [payments EXCEPT ![i] = NewPayment(e)]
               ELSE \E row \in Merged(payments[i], e) :
                      payments' = [payments EXCEPT ![i] = row]
    ELSE UNCHANGED payments

Apply(e) ==
  /\ e \notin processed
  /\ processed' = processed \cup {e}
  /\ Bill(e)
  /\ Pay(e)

Next == \E e \in Events : Apply(e)

Spec == Init /\ [][Next]_ledger

=============================================================================
