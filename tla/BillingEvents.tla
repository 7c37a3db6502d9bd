---------------------------- MODULE BillingEvents ----------------------------
(***************************************************************************)
(* What a Stripe webhook event says, and what each kind of event does to   *)
(* the billing tables.  Shared by the abstract ledger (WebhookLedger) and  *)
(* by the model of the webhook endpoint (WebhookProcessing).               *)
(*                                                                         *)
(* Amounts, currencies and descriptions are abstracted away: no control    *)
(* flow depends on them.                                                   *)
(***************************************************************************)
EXTENDS Naturals

CONSTANTS
  Events,      \* ids of the Stripe events (the provider is always "stripe")
  Customers,   \* ids of the rows of table customers
  Strangers,   \* customer ids that metadata may name but no row has
  Intents,     \* ids of Stripe payment intents
  Invoices,    \* ids of Stripe invoices
  Reasons,     \* texts of last_payment_error.message
  Null,        \* None in the program, NULL in the database
  Payload      \* [Events -> the verified content of the event]

EventTypes == {"checkout", "succeeded", "failed", "other"}

(***************************************************************************)
(* The fields the handlers read.  customer is Null when the metadata has   *)
(* no customer_id or one that is not a UUID; intent is Null when the       *)
(* object has no id; order is the order in which Stripe created the        *)
(* events, which the code never looks at.                                  *)
(***************************************************************************)
PayloadType ==
  [type     : EventTypes,
   customer : Customers \cup Strangers \cup {Null},
   intent   : Intents \cup {Null},
   invoice  : Invoices \cup {Null},
   reason   : Reasons \cup {Null},
   order    : Nat]

PaymentStatus == {"succeeded", "failed"}

PaymentRow == [status : PaymentStatus, reason : Reasons \cup {Null}]

ASSUME PayloadAssumption == Payload \in [Events -> PayloadType]

ASSUME NullAssumption ==
  /\ Null \notin Events
  /\ Null \notin PaymentRow
  /\ Null \notin Intents
  /\ Customers \cap (Strangers \cup {Null}) = {}

------------------------------------------------------------------------------
(* The guards of the three handlers: an event without a customer (or,      *)
(* for payments, without an intent) is recorded and otherwise ignored.     *)

CreatesInvoice(e) ==
  /\ Payload[e].type = "checkout"
  /\ Payload[e].customer # Null

TouchesPayment(e) ==
  /\ Payload[e].type \in PaymentStatus
  /\ Payload[e].customer # Null
  /\ Payload[e].intent # Null

\* The foreign key customer_id -> customers.id
CustomerExists(e) == Payload[e].customer \in Customers

\* Two events want an invoice row with the same value of the unique column.
SameInvoice(e, f) ==
  /\ Payload[e].invoice # Null
  /\ Payload[e].invoice = Payload[f].invoice

SameIntent(e, f) == Payload[e].intent = Payload[f].intent

\* a bug: the row of a failure takes the status that Stripe gives the intent
NewPaymentInStripesTerms(e) ==
  [status |-> IF Payload[e].type = "failed" THEN "requires_payment_method"
                                            ELSE Payload[e].type,
   reason |-> IF Payload[e].type = "failed" THEN Payload[e].reason ELSE Null]

\* The row a payment handler inserts when the intent has none.
NewPayment(e) ==
  [status |-> Payload[e].type,
   reason |-> IF Payload[e].type = "failed" THEN Payload[e].reason ELSE Null]

\* The row as the handler leaves it in the session: a success keeps the old
\* failure_reason.
Assigned(row, e) ==
  [status |-> Payload[e].type,
   reason |-> IF Payload[e].type = "failed" THEN Payload[e].reason ELSE row.reason]

=============================================================================
