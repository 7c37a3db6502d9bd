------------------------- MODULE MCWebhookProcessing -------------------------
(* Small instances of WebhookProcessing: the payloads of the runs.         *)
EXTENDS WebhookProcessing

CONSTANTS alice, stranger, intent1, invoice1, declined, expired,
          fail1, fail2, success, checkout, twin, plain, poison, other

Event(type, customer, intent, invoice, reason, order) ==
  [type |-> type, customer |-> customer, intent |-> intent,
   invoice |-> invoice, reason |-> reason, order |-> order]

(***************************************************************************)
(* One payment intent declined, then paid, and declined again with another *)
(* reason in Stripe's order fail1, success, fail2; a checkout without an   *)
(* invoice id; two checkouts with the same one; an event for a customer    *)
(* the database does not have; an event type the service does not handle.  *)
(***************************************************************************)
AllPayloads ==
  [fail1    |-> Event("failed", alice, intent1, Null, declined, 1),
   success  |-> Event("succeeded", alice, intent1, Null, Null, 2),
   fail2    |-> Event("failed", alice, intent1, Null, expired, 3),
   plain    |-> Event("checkout", alice, Null, Null, Null, 4),
   checkout |-> Event("checkout", alice, Null, invoice1, Null, 5),
   twin     |-> Event("checkout", alice, Null, invoice1, Null, 6),
   poison   |-> Event("checkout", stranger, Null, Null, Null, 7),
   other    |-> Event("other", Null, Null, Null, Null, 8)]

MCPayload ==
  [e \in Events |->
     CASE e = fail1    -> AllPayloads.fail1
       [] e = success  -> AllPayloads.success
       [] e = fail2    -> AllPayloads.fail2
       [] e = plain    -> AllPayloads.plain
       [] e = checkout -> AllPayloads.checkout
       [] e = twin     -> AllPayloads.twin
       [] e = poison   -> AllPayloads.poison
       [] e = other    -> AllPayloads.other]

=============================================================================
