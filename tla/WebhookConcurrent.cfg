SPECIFICATION Spec
CONSTANTS
  alice = alice
  stranger = stranger
  intent1 = intent1
  invoice1 = invoice1
  declined = declined
  expired = expired
  fail1 = fail1
  fail2 = fail2
  success = success
  checkout = checkout
  twin = twin
  plain = plain
  poison = poison
  other = other
  Null = Null
  Events = {fail1, success, fail2, plain, checkout, twin, poison}
  Customers = {alice}
  Strangers = {stranger}
  Intents = {intent1}
  Invoices = {invoice1}
  Reasons = {declined, expired}
  Payload <- MCPayload
  Workers = {w1, w2}
  MaxFaults = 1
  InOrder = FALSE
INVARIANTS
  TypeOK
  ExactlyOneInvoice
  PaymentsBacked
  AckedAreProcessed
PROPERTY LedgerSpec
