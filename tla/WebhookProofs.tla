---------------------------- MODULE WebhookProofs ----------------------------
(***************************************************************************)
(* The webhook endpoint keeps its books, for any number of processes,      *)
(* events, intents and faults: the inductive invariant of                  *)
(* WebhookProcessing, its safety properties, and that it implements        *)
(* WebhookLedger.                                                          *)
(***************************************************************************)
EXTENDS WebhookProcessing, TLAPS

------------------------------------------------------------------------------
(* The inductive invariant: what each process may rely on at each          *)
(* statement, and the books.                                               *)

About(i) == {e \in Processed : TouchesPayment(e) /\ Payload[e].intent = i}

\* The reason of a failure of intent i that is processed
KnownReason(i, r) ==
  \E f \in About(i) : Payload[f].type = "failed" /\ Payload[f].reason = r

\* Where the handler is tells what it has read.
Control(w) ==
  /\ pc[w] # "idle" => delivery[w] \in Events
  /\ pc[w] \in {"insert", "dispatch", "invoice", "payment", "commit"} =>
       found[w] = "absent"
  /\ pc[w] \in {"idle", "lookup", "insert", "dispatch", "invoice", "payment"} =>
       loaded[w] = Null
  /\ pc[w] = "invoice" =>
       CreatesInvoice(delivery[w]) /\ ~TouchesPayment(delivery[w])
  /\ pc[w] = "payment" => TouchesPayment(delivery[w])
  /\ pc[w] = "ok" => delivery[w] \in Processed

\* An uncommitted event row is the only one of its event.
EventLock(w) ==
  HoldsEvent(w) =>
    /\ eventRows[delivery[w]] = "absent"
    /\ \A v \in Workers \ {w} : HoldsEvent(v) => delivery[v] # delivery[w]

\* An uncommitted invoice row violates no constraint.
InvoiceLock(w) ==
  HoldsInvoice(w) =>
    /\ CustomerExists(delivery[w])
    /\ \A f \in Events : invoices[f] > 0 => ~SameInvoice(delivery[w], f)
    /\ \A v \in Workers \ {w} :
         HoldsInvoice(v) => ~SameInvoice(delivery[w], delivery[v])

\* An uncommitted payment row violates no constraint.
PaymentLock(w) ==
  HoldsPayment(w) =>
    /\ CustomerExists(delivery[w])
    /\ payments[Payload[delivery[w]].intent] = Null
    /\ \A v \in Workers \ {w} :
         HoldsPayment(v) => ~SameIntent(delivery[w], delivery[v])

\* A loaded payment row is still there, and if its reason has changed since,
\* the new one is that of a processed failure.
LoadedRow(w) ==
  pc[w] = "commit" /\ TouchesPayment(delivery[w]) /\ loaded[w] # Null =>
    LET i == Payload[delivery[w]].intent
    IN  /\ payments[i] # Null
        /\ payments[i].reason # loaded[w].reason =>
             KnownReason(i, payments[i].reason)

Worker(w) ==
  /\ Control(w)
  /\ EventLock(w)
  /\ InvoiceLock(w)
  /\ PaymentLock(w)
  /\ LoadedRow(w)

Books == ExactlyOneInvoice /\ PaymentsBacked /\ AckedAreProcessed

IInv == TypeOK /\ (\A w \in Workers : Worker(w)) /\ Books

------------------------------------------------------------------------------

LEMMA InitIInv == Init => IInv
<1> SUFFICES ASSUME Init PROVE IInv
  OBVIOUS
<1>1. TypeOK
  BY BoundsAssumption DEF Init, TypeOK, PC, EventRow
<1>2. ASSUME NEW w \in Workers PROVE Worker(w)
  BY DEF Init, Worker, Control, EventLock, InvoiceLock, PaymentLock, LoadedRow,
         HoldsEvent, HoldsInvoice, HoldsPayment
<1>3. Books
  BY DEF Init, Books, ExactlyOneInvoice, PaymentsBacked, AckedAreProcessed,
         Processed
<1> QED
  BY <1>1, <1>2, <1>3 DEF IInv

\* A step of w that commits nothing keeps the invariant if w can rely on what
\* its new statement needs.
LEMMA QuietStep ==
  ASSUME IInv, NEW w \in Workers,
         UNCHANGED tables,
         TypeOK', Worker(w)', AckedAreProcessed',
         \A v \in Workers \ {w} :
           /\ pc'[v] = pc[v]
           /\ delivery'[v] = delivery[v]
           /\ found'[v] = found[v]
           /\ loaded'[v] = loaded[v]
  PROVE  IInv'
<1> USE DEF IInv, Worker, tables
<1>1. ASSUME NEW v \in Workers, v # w PROVE Worker(v)'
  <2>1. Control(v)'
    BY <1>1 DEF Control, Processed
  <2>4. EventLock(v)'
    BY <1>1 DEF EventLock, HoldsEvent
  <2>5. InvoiceLock(v)'
    BY <1>1 DEF InvoiceLock, HoldsInvoice, SameInvoice
  <2>6. PaymentLock(v)'
    BY <1>1 DEF PaymentLock, HoldsPayment, SameIntent
  <2>7. LoadedRow(v)'
    BY <1>1 DEF LoadedRow, KnownReason, About, Processed
  <2> QED
    BY <2>1, <2>4, <2>5, <2>6, <2>7
<1>2. ExactlyOneInvoice' /\ PaymentsBacked'
  BY DEF Books, ExactlyOneInvoice, PaymentsBacked, Processed
<1> QED
  BY <1>1, <1>2 DEF Books

------------------------------------------------------------------------------
(* One lemma per action that commits nothing.                              *)

LEMMA DeliverStep ==
  ASSUME IInv, NEW w \in Workers, NEW e \in Events, Deliver(w, e)
  PROVE  IInv'
<1> USE DEF Deliver, Goto, Fault, tables
<1>1. TypeOK'
  BY BoundsAssumption DEF IInv, TypeOK, PC
<1>2. Worker(w)'
  BY DEF IInv, TypeOK, Worker, Control, EventLock, InvoiceLock, PaymentLock,
         LoadedRow, HoldsEvent, HoldsInvoice, HoldsPayment
<1>3. AckedAreProcessed'
  BY DEF IInv, Books, AckedAreProcessed, Processed
<1> QED
  BY <1>1, <1>2, <1>3, QuietStep DEF IInv, TypeOK

LEMMA RejectSignatureStep ==
  ASSUME IInv, NEW w \in Workers, NEW e \in Events, RejectSignature(w, e)
  PROVE  IInv'
<1> USE DEF RejectSignature, Goto, Fault, tables
<1>1. TypeOK'
  BY BoundsAssumption DEF IInv, TypeOK, PC
<1>2. Worker(w)'
  BY DEF IInv, TypeOK, Worker, Control, EventLock, InvoiceLock, PaymentLock,
         LoadedRow, HoldsEvent, HoldsInvoice, HoldsPayment
<1>3. AckedAreProcessed'
  BY DEF IInv, Books, AckedAreProcessed, Processed
<1> QED
  BY <1>1, <1>2, <1>3, QuietStep DEF IInv, TypeOK

LEMMA LookUpEventStep ==
  ASSUME IInv, NEW w \in Workers, LookUpEvent(w)
  PROVE  IInv'
<1> USE DEF LookUpEvent, Goto, tables
<1>1. delivery[w] \in Events /\ eventRows[delivery[w]] \in {"absent", "processed"}
  BY DEF IInv, Worker, Control, TypeOK, EventRow, Books, ExactlyOneInvoice
<1>2. TypeOK'
  BY <1>1 DEF IInv, TypeOK, PC, EventRow
<1>3. Worker(w)'
  BY <1>1 DEF IInv, TypeOK, Worker, Control, EventLock, InvoiceLock, PaymentLock,
         LoadedRow, HoldsEvent, HoldsInvoice, HoldsPayment, Processed
<1>4. AckedAreProcessed'
  BY DEF IInv, Books, AckedAreProcessed, Processed
<1> QED
  BY <1>2, <1>3, <1>4, QuietStep DEF IInv, TypeOK

LEMMA InsertEventStep ==
  ASSUME IInv, NEW w \in Workers, InsertEvent(w)
  PROVE  IInv'
<1> USE DEF InsertEvent, Goto, tables, session
<1>1. TypeOK'
  BY DEF IInv, TypeOK, PC
<1>2. Control(w)'
  BY DEF IInv, TypeOK, Worker, Control
<1>3. EventLock(w)'
  BY DEF IInv, TypeOK, EventLock, HoldsEvent
<1>4. InvoiceLock(w)' /\ PaymentLock(w)' /\ LoadedRow(w)'
  BY DEF IInv, TypeOK, InvoiceLock, PaymentLock, LoadedRow, HoldsInvoice,
         HoldsPayment
<1>5. AckedAreProcessed'
  BY DEF IInv, Books, AckedAreProcessed, Processed
<1> QED
  BY <1>1, <1>2, <1>3, <1>4, <1>5, QuietStep DEF IInv, TypeOK, Worker

LEMMA DispatchStep ==
  ASSUME IInv, NEW w \in Workers, Dispatch(w)
  PROVE  IInv'
<1> USE DEF Dispatch, Goto, tables
<1>1. delivery[w] \in Events
  BY DEF IInv, Worker, Control
<1>2. TouchesPayment(delivery[w]) =>
        Payload[delivery[w]].intent \in Intents
  BY <1>1, PayloadAssumption DEF PayloadType, TouchesPayment
<1>3. TypeOK'
  BY <1>2 DEF IInv, TypeOK, PC
<1>4. Control(w)'
  BY DEF IInv, TypeOK, Worker, Control
<1>5. EventLock(w)'
  BY DEF IInv, TypeOK, Worker, EventLock, HoldsEvent
<1>6. InvoiceLock(w)' /\ PaymentLock(w)'
  <2>1. ~HoldsInvoice(w)'
    BY DEF IInv, TypeOK, HoldsInvoice, CreatesInvoice, TouchesPayment,
           PaymentStatus
  <2>2. ~HoldsPayment(w)'
    BY DEF IInv, TypeOK, HoldsPayment
  <2> QED
    BY <2>1, <2>2 DEF InvoiceLock, PaymentLock
<1>7. LoadedRow(w)'
  BY DEF IInv, TypeOK, Worker, Control, LoadedRow
<1>8. AckedAreProcessed'
  BY DEF IInv, Books, AckedAreProcessed, Processed
<1> QED
  BY <1>3, <1>4, <1>5, <1>6, <1>7, <1>8, QuietStep DEF IInv, TypeOK, Worker

LEMMA AddInvoiceStep ==
  ASSUME IInv, NEW w \in Workers, AddInvoice(w)
  PROVE  IInv'
<1> USE DEF AddInvoice, Goto, tables, session
<1>1. TypeOK'
  BY DEF IInv, TypeOK, PC
<1>2. Control(w)'
  BY DEF IInv, TypeOK, Worker, Control
<1>3. EventLock(w)'
  BY DEF IInv, TypeOK, Worker, EventLock, HoldsEvent
<1>4. InvoiceLock(w)'
  BY DEF IInv, TypeOK, InvoiceLock, HoldsInvoice
<1>5. PaymentLock(w)' /\ LoadedRow(w)'
  BY DEF IInv, TypeOK, Worker, Control, PaymentLock, LoadedRow, HoldsPayment
<1>6. AckedAreProcessed'
  BY DEF IInv, Books, AckedAreProcessed, Processed
<1> QED
  BY <1>1, <1>2, <1>3, <1>4, <1>5, <1>6, QuietStep DEF IInv, TypeOK, Worker

LEMMA AddPaymentStep ==
  ASSUME IInv, NEW w \in Workers, AddPayment(w)
  PROVE  IInv'
<1> USE DEF AddPayment, Goto, tables, session
<1>1. TypeOK'
  BY DEF IInv, TypeOK, PC
<1>2. Control(w)'
  BY DEF IInv, TypeOK, Worker, Control
<1>3. EventLock(w)'
  BY DEF IInv, TypeOK, Worker, EventLock, HoldsEvent
<1>4. InvoiceLock(w)'
  BY DEF IInv, TypeOK, Worker, Control, InvoiceLock, HoldsInvoice,
         CreatesInvoice, TouchesPayment, PaymentStatus
<1>5. PaymentLock(w)'
  BY DEF IInv, TypeOK, PaymentLock, HoldsPayment
<1>6. LoadedRow(w)'
  BY DEF IInv, TypeOK, Worker, Control, LoadedRow
<1>7. AckedAreProcessed'
  BY DEF IInv, Books, AckedAreProcessed, Processed
<1> QED
  BY <1>1, <1>2, <1>3, <1>4, <1>5, <1>6, <1>7, QuietStep
     DEF IInv, TypeOK, Worker

LEMMA AnswerStep ==
  ASSUME IInv, NEW w \in Workers, Answer(w)
  PROVE  IInv'
<1> USE DEF Answer, Close, Goto, tables
<1>1. pc[w] = "ok" => delivery[w] \in Processed
  BY DEF IInv, Worker, Control
<1>2. TypeOK'
  BY <1>1 DEF IInv, TypeOK, PC, EventRow, Processed
<1>3. Worker(w)'
  BY DEF IInv, TypeOK, Worker, Control, EventLock, InvoiceLock, PaymentLock,
         LoadedRow, HoldsEvent, HoldsInvoice, HoldsPayment
<1>4. AckedAreProcessed'
  BY <1>1 DEF IInv, Books, AckedAreProcessed, Processed
<1> QED
  BY <1>2, <1>3, <1>4, QuietStep DEF IInv, TypeOK

LEMMA CrashStep ==
  ASSUME IInv, NEW w \in Workers, Crash(w)
  PROVE  IInv'
<1> USE DEF Crash, Close, Goto, Fault, tables
<1>1. TypeOK'
  BY BoundsAssumption DEF IInv, TypeOK, PC, EventRow
<1>2. Worker(w)'
  BY DEF IInv, TypeOK, Worker, Control, EventLock, InvoiceLock, PaymentLock,
         LoadedRow, HoldsEvent, HoldsInvoice, HoldsPayment
<1>3. AckedAreProcessed'
  BY DEF IInv, Books, AckedAreProcessed, Processed
<1> QED
  BY <1>1, <1>2, <1>3, QuietStep DEF IInv, TypeOK

------------------------------------------------------------------------------
(* The commit.                                                             *)

LEMMA CommitFacts ==
  ASSUME IInv, NEW w \in Workers, Commit(w)
  PROVE  LET e == delivery[w]
             i == Payload[e].intent
         IN  /\ e \in Events
             /\ eventRows[e] = "absent"
             /\ Processed' = Processed \cup {e}
             /\ TouchesPayment(e) =>
                  /\ i \in Intents
                  /\ payments'[i] \in PaymentRow
                  /\ \A j \in Intents \ {i} : payments'[j] = payments[j]
             /\ ~TouchesPayment(e) => payments' = payments
<1> DEFINE e == delivery[w]
           i == Payload[e].intent
<1>1. e \in Events /\ found[w] = "absent"
  BY DEF IInv, Worker, Control, Commit
<1>2. eventRows[e] = "absent"
  BY <1>1 DEF IInv, Worker, EventLock, HoldsEvent, Commit
<1>3. Processed' = Processed \cup {e}
  BY <1>1 DEF Commit, Processed, IInv, TypeOK
<1>4. TouchesPayment(e) => i \in Intents
  BY <1>1, PayloadAssumption DEF PayloadType, TouchesPayment
<1>5. ASSUME TouchesPayment(e) PROVE payments'[i] \in PaymentRow
  <2>1. /\ Payload[e].type \in PaymentStatus
        /\ Payload[e].reason \in Reasons \cup {Null}
    BY <1>1, <1>5, PayloadAssumption DEF PayloadType, TouchesPayment
  <2>2. CASE loaded[w] = Null
    BY <2>1, <2>2, <1>4, <1>5 DEF Commit, IInv, TypeOK, NewPayment, PaymentRow
  <2>3. CASE loaded[w] # Null
    <3>1. loaded[w] \in PaymentRow /\ payments[i] \in PaymentRow
      BY <1>4, <1>5, <2>3 DEF IInv, TypeOK, Worker, LoadedRow, Commit
    <3>2. Flushed(w, payments[i]) \in PaymentRow
      BY <2>1, <3>1 DEF Flushed, Assigned, PaymentRow
    <3> QED
      BY <1>4, <1>5, <2>3, <3>2 DEF Commit, IInv, TypeOK
  <2> QED
    BY <2>2, <2>3
<1> QED
  BY <1>1, <1>2, <1>3, <1>4, <1>5 DEF Commit, IInv, TypeOK

\* The reason column changes only to that of the failure being committed.
LEMMA CommittedReason ==
  ASSUME IInv, NEW w \in Workers, Commit(w), TouchesPayment(delivery[w])
  PROVE  LET e == delivery[w]
             i == Payload[e].intent
         IN  /\ payments[i] = Null <=> loaded[w] = Null
             /\ payments[i] # Null =>
                  \/ payments'[i].reason = payments[i].reason
                  \/ /\ Payload[e].type = "failed"
                     /\ payments'[i].reason = Payload[e].reason
<1> DEFINE e == delivery[w]
           i == Payload[e].intent
<1>1. i \in Intents
  BY CommitFacts
<1>2. payments[i] = Null <=> loaded[w] = Null
  BY <1>1 DEF IInv, Worker, LoadedRow, PaymentLock, HoldsPayment, Commit
<1>3. loaded[w] # Null => payments'[i] = Flushed(w, payments[i])
  BY <1>1 DEF Commit, IInv, TypeOK
<1> QED
  BY <1>2, <1>3 DEF Flushed, Assigned

LEMMA CommitOthers ==
  ASSUME IInv, NEW w \in Workers, Commit(w), NEW v \in Workers, v # w
  PROVE  Worker(v)'
<1> DEFINE e == delivery[w]
           i == Payload[e].intent
<1>1. /\ pc'[v] = pc[v] /\ delivery' = delivery
      /\ found' = found /\ loaded' = loaded
  BY DEF Commit, Goto, session, IInv, TypeOK
<1>2. Worker(v) /\ Worker(w) /\ e \in Events
  BY CommitFacts DEF IInv
<1>3. Control(v)'
  BY <1>1, <1>2, CommitFacts DEF Worker, Control
<1>4. EventLock(v)'
  BY <1>1, <1>2 DEF Worker, Control, EventLock, HoldsEvent, Commit, Goto,
                    IInv, TypeOK
<1>5. InvoiceLock(v)'
  <2>1. HoldsInvoice(v) /\ HoldsInvoice(w) => ~SameInvoice(delivery[v], e)
    BY <1>2 DEF Worker, InvoiceLock
  <2>2. \A f \in Events : invoices'[f] > 0 =>
          invoices[f] > 0 \/ (f = e /\ HoldsInvoice(w))
    BY <1>2 DEF Commit, IInv, TypeOK
  <2> QED
    BY <1>1, <1>2, <2>1, <2>2 DEF Worker, InvoiceLock, HoldsInvoice, SameInvoice,
                                  Commit, Goto, IInv, TypeOK
<1>6. PaymentLock(v)'
  <2> SUFFICES ASSUME HoldsPayment(v)
               PROVE  /\ CustomerExists(delivery[v])
                      /\ payments'[Payload[delivery[v]].intent] = Null
                      /\ \A u \in Workers \ {v} :
                           HoldsPayment(u)' => ~SameIntent(delivery[v], delivery[u])
    BY <1>1 DEF PaymentLock, HoldsPayment
  <2> DEFINE j == Payload[delivery[v]].intent
  <2>1. /\ CustomerExists(delivery[v])
        /\ payments[j] = Null
        /\ \A u \in Workers \ {v} :
              HoldsPayment(u) => ~SameIntent(delivery[v], delivery[u])
    BY <1>2 DEF Worker, PaymentLock
  <2>2. j \in Intents
    BY <1>2, PayloadAssumption
       DEF HoldsPayment, TouchesPayment, Worker, Control, PayloadType
  <2>3. TouchesPayment(e) => j # i
    <3> SUFFICES ASSUME TouchesPayment(e), j = i PROVE FALSE
      OBVIOUS
    <3>1. loaded[w] = Null
      BY <2>1, CommittedReason
    <3>2. HoldsPayment(w)
      BY <3>1 DEF HoldsPayment, Commit
    <3> QED
      BY <2>1, <3>2 DEF SameIntent
  <2>4. payments'[j] = Null
    BY <2>1, <2>2, <2>3, CommitFacts
  <2>5. \A u \in Workers \ {v} :
          HoldsPayment(u)' => ~SameIntent(delivery[v], delivery[u])
    BY <1>1, <2>1 DEF HoldsPayment, Commit, Goto, IInv, TypeOK
  <2> QED
    BY <2>1, <2>4, <2>5
<1>7. LoadedRow(v)'
  <2> SUFFICES ASSUME NEW j, j = Payload[delivery[v]].intent,
                      pc[v] = "commit", TouchesPayment(delivery[v]),
                      loaded[v] # Null
               PROVE  /\ payments'[j] # Null
                      /\ payments'[j].reason # loaded[v].reason =>
                           KnownReason(j, payments[j].reason)'
    BY <1>1 DEF LoadedRow
  <2>1. /\ payments[j] # Null
        /\ payments[j].reason # loaded[v].reason =>
             KnownReason(j, payments[j].reason)
    BY <1>2 DEF Worker, LoadedRow
  <2>2. j \in Intents
    BY <1>2, PayloadAssumption DEF TouchesPayment, Worker, Control, PayloadType
  <2>3. About(j) \subseteq About(j)'
    BY CommitFacts DEF About
  <2>4. CASE TouchesPayment(e) /\ j = i
    <3>1. payments'[j] # Null
      BY <2>4, CommitFacts, NullAssumption
    <3>2. CASE payments'[j].reason = payments[j].reason
      BY <2>1, <2>3, <3>1, <3>2 DEF KnownReason
    <3>3. CASE Payload[e].type = "failed" /\ payments'[j].reason = Payload[e].reason
      <4>1. e \in About(j)'
        BY <2>4, CommitFacts DEF About
      <4> QED
        BY <3>1, <3>3, <4>1 DEF KnownReason
    <3> QED
      BY <2>1, <2>4, <3>2, <3>3, CommittedReason
  <2>5. CASE ~(TouchesPayment(e) /\ j = i)
    <3>1. payments'[j] = payments[j]
      BY <2>2, <2>5, CommitFacts
    <3> QED
      BY <2>1, <2>3, <3>1 DEF KnownReason
  <2> QED
    BY <2>4, <2>5
<1> QED
  BY <1>3, <1>4, <1>5, <1>6, <1>7 DEF Worker

\* The status and reason a commit leaves are those of a processed event.
LEMMA CommitBacked ==
  ASSUME IInv, NEW w \in Workers, Commit(w), TouchesPayment(delivery[w])
  PROVE  LET e == delivery[w]
             row == payments'[Payload[e].intent]
         IN  \E f \in About(Payload[e].intent) \cup {e} :
               /\ row.status = Payload[f].type
               /\ row.status = "failed" => row.reason = Payload[f].reason
<1> DEFINE e == delivery[w]
           i == Payload[e].intent
           row == payments'[i]
           old == loaded[w]
           Backs(f) == /\ row.status = Payload[f].type
                       /\ row.status = "failed" => row.reason = Payload[f].reason
<1>1. i \in Intents
  BY CommitFacts
<1>2. CASE old = Null
  <2>1. row = NewPayment(e)
    BY <1>1, <1>2 DEF Commit, IInv, TypeOK
  <2> QED
    BY <2>1 DEF NewPayment
<1>3. CASE old # Null
  <2> DEFINE now == payments[i]
  <2>1. row = Flushed(w, now)
    BY <1>1, <1>3 DEF Commit, IInv, TypeOK
  <2>2. /\ now # Null
        /\ now.reason # old.reason => KnownReason(i, now.reason)
    BY <1>3 DEF IInv, Worker, LoadedRow, Commit
  <2>3. PICK f \in About(i) : /\ now.status = Payload[f].type
                              /\ now.status = "failed" =>
                                   now.reason = Payload[f].reason
    BY <1>1, <2>2 DEF IInv, Books, PaymentsBacked, About
  <2>4. CASE Payload[e].type # "failed"
    BY <2>1, <2>3, <2>4 DEF Flushed, Assigned
  <2>5. CASE Payload[e].type = "failed" /\ Payload[e].reason # old.reason
    BY <2>1, <2>3, <2>5 DEF Flushed, Assigned
  <2>6. CASE Payload[e].type = "failed" /\ Payload[e].reason = old.reason
    <3>1. row.reason = now.reason
      BY <2>1, <2>6 DEF Flushed, Assigned
    <3>2. CASE now.reason = old.reason
      BY <2>1, <2>3, <2>6, <3>2 DEF Flushed, Assigned
    <3>3. CASE now.reason # old.reason
      <4>1. PICK g \in About(i) : /\ Payload[g].type = "failed"
                                  /\ Payload[g].reason = now.reason
        BY <2>2, <3>3 DEF KnownReason
      <4>2. row.status \in {"failed", now.status}
        BY <2>1, <2>6 DEF Flushed, Assigned
      <4> QED
        BY <2>3, <3>1, <4>1, <4>2
    <3> QED
      BY <3>2, <3>3
  <2> QED
    BY <2>4, <2>5, <2>6
<1> QED
  BY <1>2, <1>3

LEMMA CommitStep ==
  ASSUME IInv, NEW w \in Workers, Commit(w)
  PROVE  IInv'
<1> DEFINE e == delivery[w]
           i == Payload[e].intent
<1>1. TypeOK'
  <2>1. eventRows' \in [Events -> EventRow] /\ pc' \in [Workers -> PC]
    BY CommitFacts DEF Commit, Goto, IInv, TypeOK, PC, EventRow
  <2>2. invoices' \in [Events -> Nat]
    <3>1. invoices \in [Events -> Nat] /\ e \in Events
      BY CommitFacts DEF IInv, TypeOK
    <3>2. invoices[e] + 1 \in Nat
      BY <3>1
    <3> QED
      BY <3>1, <3>2 DEF Commit
  <2>3. payments' \in [Intents -> PaymentRow \cup {Null}]
    BY CommitFacts DEF Commit, IInv, TypeOK
  <2> QED
    BY <2>1, <2>2, <2>3 DEF Commit, session, IInv, TypeOK
<1>2. Worker(w)'
  BY CommitFacts
     DEF Commit, Goto, session, IInv, TypeOK, Worker, Control, EventLock,
         InvoiceLock, PaymentLock, LoadedRow, HoldsEvent, HoldsInvoice,
         HoldsPayment
<1>3. ExactlyOneInvoice'
  <2>1. HoldsInvoice(w) <=> CreatesInvoice(e)
    BY DEF HoldsInvoice, Commit
  <2>2. invoices[e] = 0
    BY CommitFacts DEF IInv, Books, ExactlyOneInvoice, Processed
  <2>3. \A f \in Events :
          invoices'[f] = IF f = e /\ CreatesInvoice(e) THEN 1 ELSE invoices[f]
    BY <2>1, <2>2 DEF Commit, IInv, TypeOK
  <2>4. \A f \in Events : eventRows'[f] # "received"
    BY DEF Commit, IInv, TypeOK, Books, ExactlyOneInvoice
  <2> QED
    BY <2>3, <2>4, CommitFacts DEF IInv, Books, ExactlyOneInvoice
<1>4. PaymentsBacked'
  <2>1. \A j : About(j)' = About(j) \cup
                 (IF TouchesPayment(e) /\ j = i THEN {e} ELSE {})
    BY CommitFacts DEF About
  <2>2. ASSUME NEW j \in Intents, ~(TouchesPayment(e) /\ j = i)
        PROVE  payments'[j] = payments[j] /\ About(j)' = About(j)
    BY <2>1, <2>2, CommitFacts
  <2> SUFFICES ASSUME NEW j \in Intents
               PROVE  /\ payments'[j] = Null <=> About(j)' = {}
                      /\ payments'[j] # Null =>
                           \E f \in About(j)' :
                             /\ payments'[j].status = Payload[f].type
                             /\ payments'[j].status = "failed" =>
                                  payments'[j].reason = Payload[f].reason
    BY DEF PaymentsBacked, About
  <2>3. CASE TouchesPayment(e) /\ j = i
    <3>1. payments'[j] # Null /\ About(j)' = About(j) \cup {e}
      BY <2>1, <2>3, CommitFacts, NullAssumption
    <3> QED
      BY <2>3, <3>1, CommitBacked
  <2>4. CASE ~(TouchesPayment(e) /\ j = i)
    BY <2>2, <2>4 DEF IInv, Books, PaymentsBacked, About
  <2> QED
    BY <2>3, <2>4
<1>5. AckedAreProcessed'
  BY CommitFacts DEF Commit, IInv, Books, AckedAreProcessed
<1> QED
  BY <1>1, <1>2, <1>3, <1>4, <1>5, CommitOthers DEF IInv, Books

LEMMA NextIInv == IInv /\ [Next]_vars => IInv'
<1> SUFFICES ASSUME IInv, [Next]_vars PROVE IInv'
  OBVIOUS
<1>1. CASE UNCHANGED vars
  BY <1>1 DEF vars, tables, session, IInv, TypeOK, Worker, Control, EventLock,
     InvoiceLock, PaymentLock, LoadedRow, KnownReason, About, HoldsEvent,
     HoldsInvoice, HoldsPayment, Books, ExactlyOneInvoice, PaymentsBacked,
     AckedAreProcessed, Processed
<1>2. CASE Next
  <2>1. PICK w \in Workers :
          \/ \E e \in Events : Deliver(w, e) \/ RejectSignature(w, e)
          \/ Step(w)
          \/ Crash(w)
    BY <1>2 DEF Next
  <2> QED
    BY <2>1, DeliverStep, RejectSignatureStep, LookUpEventStep, InsertEventStep,
       DispatchStep, AddInvoiceStep, AddPaymentStep, CommitStep, AnswerStep,
       CrashStep DEF Step
<1> QED
  BY <1>1, <1>2

THEOREM Invariance == Spec => []IInv
BY InitIInv, NextIInv, PTL DEF Spec

------------------------------------------------------------------------------
(* The theorems.                                                           *)

\* The variables of the endpoint keep their types.
THEOREM TypeCorrect == Spec => []TypeOK
BY Invariance, PTL DEF IInv

\* Every event that makes an invoice makes exactly one, committed together with
\* its record, however often and however concurrently it is delivered.
THEOREM ExactlyOnce == Spec => []ExactlyOneInvoice
BY Invariance, PTL DEF IInv, Books

\* A payment row always stands for processed events of its intent.
THEOREM PaymentsAreBacked == Spec => []PaymentsBacked
BY Invariance, PTL DEF IInv, Books

\* Stripe is only told 200 for events that are committed.
THEOREM NoAckBeforeCommit == Spec => []AckedAreProcessed
BY Invariance, PTL DEF IInv, Books

------------------------------------------------------------------------------
(* The endpoint implements the ledger.                                     *)

LEMMA InitLedger == Init => Ledger!Init
BY DEF Init, Ledger!Init, Processed

\* The ledger reads a payload as the endpoint does.
LEMMA SameReading ==
  ASSUME NEW e, NEW f
  PROVE  /\ Ledger!CreatesInvoice(e) <=> CreatesInvoice(e)
         /\ Ledger!TouchesPayment(e) <=> TouchesPayment(e)
         /\ Ledger!CustomerExists(e) <=> CustomerExists(e)
         /\ Ledger!SameInvoice(e, f) <=> SameInvoice(e, f)
         /\ Ledger!NewPayment(e) = NewPayment(e)
         /\ Ledger!Assigned(f, e) = Assigned(f, e)
         /\ Ledger!PaymentRow = PaymentRow
BY DEF Ledger!CreatesInvoice, Ledger!TouchesPayment, Ledger!CustomerExists,
       Ledger!SameInvoice, Ledger!NewPayment, Ledger!Assigned, Ledger!PaymentRow,
       Ledger!PaymentStatus, CreatesInvoice, TouchesPayment, CustomerExists,
       SameInvoice, NewPayment, Assigned, PaymentRow, PaymentStatus

\* A commit is one Apply of the ledger; no other step changes its state.
LEMMA CommitApplies ==
  ASSUME IInv, NEW w \in Workers, Commit(w)
  PROVE  Ledger!Apply(delivery[w])
<1> DEFINE e == delivery[w]
           i == Payload[e].intent
<1>1. e \notin Processed /\ Processed' = Processed \cup {e}
  BY CommitFacts DEF Processed
<1>2. Ledger!Bill(e)
  <2>1. HoldsInvoice(w) <=> CreatesInvoice(e)
    BY DEF HoldsInvoice, Commit
  <2> QED
    BY <2>1, SameReading DEF Commit, IInv, Worker, InvoiceLock, Ledger!Bill
<1>3. Ledger!Pay(e)
  <2>1. CASE TouchesPayment(e) /\ loaded[w] = Null
    <3>1. HoldsPayment(w)
      BY <2>1 DEF HoldsPayment, Commit
    <3> QED
      BY <2>1, <3>1, SameReading DEF Commit, IInv, Worker, PaymentLock, Ledger!Pay
  <2>2. CASE TouchesPayment(e) /\ loaded[w] # Null
    <3>1. payments[i] # Null
      BY <2>2, CommittedReason
    <3>2. Flushed(w, payments[i]) \in Ledger!Merged(payments[i], e)
      <4>1. payments'[i] = Flushed(w, payments[i])
        BY <2>2, CommitFacts DEF Commit, IInv, TypeOK
      <4>2. Flushed(w, payments[i]) \in PaymentRow
        BY <2>2, <4>1, CommitFacts
      <4> QED
        BY <4>2, SameReading DEF Flushed, Assigned, Ledger!Merged
    <3>3. payments' = [payments EXCEPT ![i] = Flushed(w, payments[i])]
      BY <2>2 DEF Commit
    <3> QED
      BY <2>2, <3>1, <3>2, <3>3, SameReading DEF Ledger!Pay
  <2>3. CASE ~TouchesPayment(e)
    BY <2>3, SameReading DEF Commit, Ledger!Pay
  <2> QED
    BY <2>1, <2>2, <2>3
<1> QED
  BY <1>1, <1>2, <1>3 DEF Ledger!Apply

LEMMA LedgerStep == IInv /\ [Next]_vars => [Ledger!Next]_Ledger!ledger
<1> SUFFICES ASSUME IInv, [Next]_vars PROVE [Ledger!Next]_Ledger!ledger
  OBVIOUS
<1>1. CASE UNCHANGED tables
  BY <1>1 DEF tables, Ledger!ledger, Processed
<1>2. ASSUME NEW w \in Workers, Commit(w) PROVE Ledger!Next
  BY <1>2, CommitApplies, CommitFacts DEF Ledger!Next
<1> QED
  BY <1>1, <1>2
     DEF Next, Step, vars, tables, session, Deliver, RejectSignature, LookUpEvent,
         InsertEvent, Dispatch, AddInvoice, AddPayment, Answer, Crash

\* Seen from the tables, any number of processes, crashes, lost answers and
\* duplicates are one ledger to which each event is applied at most once.
THEOREM Refinement == Spec => LedgerSpec
BY InitLedger, LedgerStep, Invariance, PTL
   DEF Spec, LedgerSpec, Ledger!Spec

------------------------------------------------------------------------------
(* If Stripe sends the events of an intent in order, the payment mirrors   *)
(* the last of them, although the code looks at no order.                  *)

\* What is under way was sent when the earlier events of its intent had been
\* answered.
Sent(w) ==
  pc[w] # "idle" => \A f \in Events : Earlier(f, delivery[w]) => f \in acked

\* So no other process changes the row that a handler has loaded.
Fresh(w) ==
  pc[w] \in {"payment", "commit"} /\ TouchesPayment(delivery[w]) =>
    loaded[w] = payments[Payload[delivery[w]].intent]

InTurn == \A e \in Processed, f \in Events : Earlier(f, e) => f \in acked

\* The payment has the status of the latest of its processed events.
LatestShown ==
  \A e \in Processed :
    /\ TouchesPayment(e)
    /\ \A f \in Processed : TouchesPayment(f) => ~Earlier(e, f)
    => payments[Payload[e].intent].status = Payload[e].type

OrderInv ==
  /\ \A w \in Workers : Sent(w) /\ Fresh(w)
  /\ InTurn
  /\ LatestShown

\* Two events of an intent have an order.
LEMMA Ordered ==
  ASSUME NEW e \in Events, NEW f \in Events, e # f,
         SameIntent(e, f), Payload[e].intent # Null
  PROVE  Earlier(e, f) \/ Earlier(f, e)
<1>1. Payload[e].order \in Nat /\ Payload[f].order \in Nat
  BY PayloadAssumption DEF PayloadType
<1>2. Payload[e].order # Payload[f].order
  BY OrderAssumption
<1> QED
  BY <1>1, <1>2 DEF Earlier, SameIntent

\* While an event is being handled, no other process is past the insert of an
\* event of the same intent.
LEMMA Alone ==
  ASSUME IInv, OrderInv, NEW w \in Workers, NEW v \in Workers \ {w},
         HoldsEvent(w), HoldsEvent(v)
  PROVE  ~(SameIntent(delivery[w], delivery[v]) /\ Payload[delivery[w]].intent # Null)
<1> DEFINE e == delivery[w]
           g == delivery[v]
<1>1. /\ e \in Events /\ g \in Events /\ e # g
      /\ eventRows[e] = "absent" /\ eventRows[g] = "absent"
  BY DEF IInv, Worker, Control, EventLock, HoldsEvent
<1>2. e \notin acked /\ g \notin acked
  BY <1>1 DEF IInv, Books, AckedAreProcessed, Processed
<1>3. ~Earlier(e, g) /\ ~Earlier(g, e)
  BY <1>1, <1>2 DEF OrderInv, Sent, HoldsEvent
<1> QED
  BY <1>1, <1>3, Ordered

\* An event that is being committed is the latest of its intent.
LEMMA CommitsLatest ==
  ASSUME IInv, OrderInv, NEW w \in Workers, Commit(w),
         NEW f \in Processed, SameIntent(delivery[w], f),
         Payload[delivery[w]].intent # Null
  PROVE  Earlier(f, delivery[w]) /\ ~Earlier(delivery[w], f)
<1> DEFINE e == delivery[w]
<1>1. e \in Events /\ f \in Events /\ eventRows[e] = "absent" /\ e # f
  BY CommitFacts DEF Processed
<1>2. e \notin acked
  BY <1>1 DEF IInv, Books, AckedAreProcessed, Processed
<1>3. ~Earlier(e, f)
  BY <1>1, <1>2 DEF OrderInv, InTurn
<1> QED
  BY <1>1, <1>3, Ordered

\* A commit leaves the payment as its event says.
LEMMA CommitShows ==
  ASSUME IInv, OrderInv, NEW w \in Workers, Commit(w), TouchesPayment(delivery[w])
  PROVE  LET e   == delivery[w]
             row == payments'[Payload[e].intent]
         IN  /\ row.status = Payload[e].type
             /\ row.status = "failed" => row.reason = Payload[e].reason
<1> DEFINE e == delivery[w]
           i == Payload[e].intent
<1>1. i \in Intents
  BY CommitFacts
<1>2. loaded[w] = payments[i]
  BY DEF OrderInv, Fresh, Commit
<1>3. CASE loaded[w] = Null
  <2>1. payments'[i] = NewPayment(e)
    BY <1>1, <1>3 DEF Commit, IInv, TypeOK
  <2> QED
    BY <2>1 DEF NewPayment
<1>4. CASE loaded[w] # Null
  <2>1. payments'[i] = Flushed(w, payments[i])
    BY <1>1, <1>4 DEF Commit, IInv, TypeOK
  <2> QED
    BY <1>2, <2>1 DEF Flushed, Assigned
<1> QED
  BY <1>3, <1>4

LEMMA InitOrder == Init => OrderInv
BY DEF Init, OrderInv, Sent, Fresh, InTurn, LatestShown, Processed

\* Stripe sends no event before the earlier ones are acknowledged, and nothing
\* takes an acknowledgement back.
LEMMA SentStep ==
  ASSUME IInv, OrderInv, InOrder, Next
  PROVE  acked \subseteq acked' /\ \A v \in Workers : Sent(v)'
<1>1. acked \subseteq acked'
  BY DEF Next, Step, Deliver, RejectSignature, LookUpEvent, InsertEvent, Dispatch,
         AddInvoice, AddPayment, Commit, Answer, Crash, session
<1>2. ASSUME NEW v \in Workers, pc'[v] # "idle"
      PROVE  \A f \in Events : Earlier(f, delivery'[v]) => f \in acked
  <2>1. \/ pc[v] # "idle" /\ delivery'[v] = delivery[v]
        \/ MaySend(delivery'[v])
    BY <1>2
       DEF IInv, TypeOK, Next, Step, Deliver, RejectSignature, LookUpEvent,
           InsertEvent, Dispatch, AddInvoice, AddPayment, Commit, Answer, Crash,
           session, Goto, Close
  <2> QED
    BY <2>1 DEF OrderInv, Sent, MaySend
<1> QED
  BY <1>1, <1>2 DEF Sent, Earlier

\* A commit, or nothing that the tables show
LEMMA CommitOrQuiet ==
  ASSUME Next
  PROVE  (\E w \in Workers : Commit(w)) \/ UNCHANGED tables
BY DEF Next, Step, Deliver, RejectSignature, LookUpEvent, InsertEvent, Dispatch,
       AddInvoice, AddPayment, Answer, Crash

LEMMA InTurnStep ==
  ASSUME IInv, OrderInv, InOrder, Next
  PROVE  InTurn'
<1>1. acked \subseteq acked'
  BY SentStep
<1>2. ASSUME NEW w \in Workers, Commit(w) PROVE InTurn'
  <2>1. Processed' = Processed \cup {delivery[w]}
    BY <1>2, CommitFacts
  <2>2. \A f \in Events : Earlier(f, delivery[w]) => f \in acked
    BY <1>2 DEF OrderInv, Sent, Commit
  <2> QED
    BY <1>1, <2>1, <2>2 DEF OrderInv, InTurn, Earlier
<1>3. CASE UNCHANGED tables
  BY <1>1, <1>3 DEF OrderInv, InTurn, Earlier, Processed, tables
<1> QED
  BY <1>2, <1>3, CommitOrQuiet

LEMMA FreshStep ==
  ASSUME IInv, OrderInv, Next, NEW v \in Workers
  PROVE  Fresh(v)'
<1> SUFFICES ASSUME pc'[v] \in {"payment", "commit"}, TouchesPayment(delivery'[v])
             PROVE  loaded'[v] = payments'[Payload[delivery'[v]].intent]
  BY DEF Fresh, TouchesPayment
<1>1. ASSUME NEW w \in Workers, Commit(w)
      PROVE  loaded'[v] = payments'[Payload[delivery'[v]].intent]
  <2>1. v # w /\ pc'[v] = pc[v] /\ UNCHANGED session
    BY <1>1 DEF Commit, Goto, IInv, TypeOK
  <2>2. HoldsEvent(v) /\ HoldsEvent(w)
    BY <1>1, <2>1 DEF HoldsEvent, IInv, Worker, Control, Commit
  <2>3. delivery[v] \in Events /\ Payload[delivery[v]].intent \in Intents
    BY <2>1, PayloadAssumption
       DEF session, IInv, Worker, Control, PayloadType, TouchesPayment
  <2>4. TouchesPayment(delivery[w]) =>
          Payload[delivery[v]].intent # Payload[delivery[w]].intent
    BY <2>1, <2>2, Alone DEF SameIntent, TouchesPayment
  <2>5. payments'[Payload[delivery[v]].intent] = payments[Payload[delivery[v]].intent]
    BY <1>1, <2>3, <2>4, CommitFacts
  <2> QED
    BY <2>1, <2>5 DEF session, OrderInv, Fresh
<1>2. ASSUME UNCHANGED tables
      PROVE  loaded'[v] = payments'[Payload[delivery'[v]].intent]
  <2>1. PICK w \in Workers :
          \/ \E e \in Events : Deliver(w, e) \/ RejectSignature(w, e)
          \/ Step(w)
          \/ Crash(w)
    BY DEF Next
  <2>2. CASE v # w
    <3>1. pc'[v] = pc[v] /\ delivery'[v] = delivery[v] /\ loaded'[v] = loaded[v]
      BY <2>1, <2>2
         DEF IInv, TypeOK, Step, Deliver, RejectSignature, LookUpEvent, InsertEvent,
             Dispatch, AddInvoice, AddPayment, Commit, Answer, Crash, session, Goto,
             Close
    <3> QED
      BY <1>2, <3>1 DEF OrderInv, Fresh, tables
  <2>3. CASE v = w
    <3>1. Dispatch(w) \/ AddInvoice(w) \/ AddPayment(w)
      <4>1. ~LookUpEvent(w)
        <5>1. LookUpEvent(w) => pc'[w] \in {"ok", "dispatch", "insert"}
          BY DEF LookUpEvent, Goto, IInv, TypeOK, EventRow, Worker, Control
        <5> QED
          BY <2>3, <5>1
      <4>2. \A e \in Events : ~Deliver(w, e) /\ ~RejectSignature(w, e)
        BY <2>3 DEF Deliver, RejectSignature, Goto, IInv, TypeOK
      <4>3. ~InsertEvent(w) /\ ~Commit(w) /\ ~Answer(w) /\ ~Crash(w)
        BY <2>3 DEF InsertEvent, Commit, Answer, Crash, Goto, IInv, TypeOK
      <4> QED
        BY <2>1, <4>1, <4>2, <4>3 DEF Step
    <3>2. CASE Dispatch(w)
      BY <1>2, <2>3, <3>2 DEF Dispatch, IInv, TypeOK, tables
    <3>3. CASE AddInvoice(w)
      BY <2>3, <3>3 DEF AddInvoice, session, IInv, Worker, Control
    <3>4. CASE AddPayment(w)
      BY <1>2, <2>3, <3>4 DEF AddPayment, session, OrderInv, Fresh, tables
    <3> QED
      BY <3>1, <3>2, <3>3, <3>4
  <2> QED
    BY <2>2, <2>3
<1> QED
  BY <1>1, <1>2, CommitOrQuiet

LEMMA LatestStep ==
  ASSUME IInv, OrderInv, Next
  PROVE  LatestShown'
<1>1. ASSUME NEW w \in Workers, Commit(w) PROVE LatestShown'
  <2> DEFINE e == delivery[w]
  <2>1. Processed' = Processed \cup {e}
    BY <1>1, CommitFacts
  <2> SUFFICES ASSUME NEW g \in Processed \cup {e}, TouchesPayment(g),
                      \A f \in Processed \cup {e} :
                        TouchesPayment(f) => ~Earlier(g, f)
               PROVE  payments'[Payload[g].intent].status = Payload[g].type
    BY <2>1 DEF LatestShown, TouchesPayment, Earlier
  <2>2. CASE g = e
    BY <1>1, <2>2, CommitShows
  <2>3. CASE g # e
    <3>1. g \in Processed /\ g \in Events /\ Payload[g].intent \in Intents
      BY <2>3, PayloadAssumption DEF Processed, PayloadType, TouchesPayment
    <3>2. TouchesPayment(e) => Payload[g].intent # Payload[e].intent
      BY <1>1, <3>1, CommitsLatest DEF SameIntent, TouchesPayment
    <3>3. payments'[Payload[g].intent] = payments[Payload[g].intent]
      BY <1>1, <3>1, <3>2, CommitFacts
    <3> QED
      BY <3>1, <3>3 DEF OrderInv, LatestShown
  <2> QED
    BY <2>2, <2>3
<1>2. CASE UNCHANGED tables
  BY <1>2 DEF OrderInv, LatestShown, Earlier, TouchesPayment, Processed, tables
<1> QED
  BY <1>1, <1>2, CommitOrQuiet

LEMMA OrderStep == InOrder /\ IInv /\ OrderInv /\ [Next]_vars => OrderInv'
<1> SUFFICES ASSUME InOrder, IInv, OrderInv, [Next]_vars PROVE OrderInv'
  OBVIOUS
<1>1. CASE UNCHANGED vars
  BY <1>1 DEF OrderInv, Sent, Fresh, InTurn, LatestShown, Earlier, TouchesPayment,
              Processed, vars, tables, session
<1>2. CASE Next
  BY <1>2, SentStep, FreshStep, InTurnStep, LatestStep DEF OrderInv
<1> QED
  BY <1>1, <1>2

LEMMA InOrderInvariance == InOrder => (Spec => []OrderInv)
<1> SUFFICES ASSUME InOrder PROVE Spec => []OrderInv
  OBVIOUS
<1>1. IInv /\ OrderInv /\ [Next]_vars => OrderInv'
  BY OrderStep
<1> QED
  BY <1>1, InitOrder, Invariance, PTL DEF Spec

\* models/payment.py, "mirrors Stripe payment intents": it does if Stripe sends
\* the events of an intent in order, for any number of processes, duplicates and
\* crashes (webhook_service.py, _upsert_payment, compares no times).
THEOREM MirrorsInOrder == InOrder => (Spec => []MirrorsStripe)
<1> SUFFICES ASSUME InOrder PROVE Spec => []MirrorsStripe
  OBVIOUS
<1>1. IInv /\ OrderInv => MirrorsStripe
  BY DEF IInv, Books, AckedAreProcessed, OrderInv, LatestShown, MirrorsStripe,
         Processed
<1> QED
  BY <1>1, Invariance, InOrderInvariance, PTL

\* Then no process overwrites another's effect either: the commit that records an
\* event leaves its status and reason in the payment (webhook_service.py).
THEOREM EffectsKeptInOrder == InOrder => (Spec => EffectKept)
<1> SUFFICES ASSUME InOrder PROVE Spec => EffectKept
  OBVIOUS
<1> DEFINE Kept ==
      \A e \in Events :
       /\ eventRows[e] # "processed"
       /\ eventRows'[e] = "processed"
       /\ TouchesPayment(e)
       => LET row == payments'[Payload[e].intent]
          IN  /\ row.status = Payload[e].type
              /\ row.status = "failed" => row.reason = Payload[e].reason
<1>1. ASSUME IInv, OrderInv, Next PROVE Kept
  <2>1. ASSUME NEW w \in Workers, Commit(w) PROVE Kept
    <3> SUFFICES ASSUME NEW e \in Events,
                        eventRows[e] # "processed",
                        eventRows'[e] = "processed",
                        TouchesPayment(e)
                 PROVE  LET row == payments'[Payload[e].intent]
                        IN  /\ row.status = Payload[e].type
                            /\ row.status = "failed" => row.reason = Payload[e].reason
      OBVIOUS
    <3>1. e = delivery[w]
      BY <2>1 DEF Commit, IInv, TypeOK
    <3> QED
      BY <1>1, <2>1, <3>1, CommitShows
  <2>2. UNCHANGED tables => Kept
    BY DEF tables
  <2> HIDE DEF Kept
  <2> QED
    BY <1>1, <2>1, <2>2, CommitOrQuiet
<1>2. UNCHANGED vars => Kept
  BY DEF vars, tables
<1>3. IInv /\ OrderInv /\ [Next]_vars => [Kept]_vars
  BY <1>1
<1> QED
  BY <1>3, Invariance, InOrderInvariance, PTL DEF Spec, EffectKept

=============================================================================
