------------------------------ MODULE Payments ------------------------------
(***************************************************************************)
(* Invoice notes, their invoices, and the payments the FINANCE worker      *)
(* records and applies.  A payment takes two transactions: the first       *)
(* inserts the payments row and clears the note, the second adds the       *)
(* amount to the invoice and writes the ledger.  The message that asks for *)
(* it is delivered at least once.                                          *)
(*                                                                         *)
(* UpdateInvoiceNoteUsageType gives a note an invoice of its own, named    *)
(* after it, so invoices are indexed by notes.  Every tenant has a         *)
(* customer to invoice, and marks its own notes only.                      *)
(***************************************************************************)
EXTENDS Integers, FiniteSetsExt, SequencesExt

CONSTANTS
    Notes,        \* invoice notes, and with them their invoices
    Tenants,
    TenantOf,     \* the tenant of each note
    References,   \* payment references
    NoReference,  \* the empty reference
    Amounts,      \* amounts of a payment
    None,         \* SQL NULL in payment_id
    MaxMessages,  \* bound: payment commands ever published
    MaxDeliver,   \* deliveries of one message (5 in the code)
    MaxFaults     \* bound: failed transactions and crashes

ASSUME PaymentsAssumption ==
    /\ TenantOf \in [Notes -> Tenants]
    /\ Amounts \subseteq Nat \ {0}
    /\ MaxMessages \in Nat
    /\ MaxDeliver \in Nat \ {0}
    /\ MaxFaults \in Nat
    /\ NoReference \notin References

Positions == 1 .. MaxMessages

\* erp.finance.payment.cmd.record with the tenant of its header.
Command == [tenant : Tenants, note : Notes, ref : References \cup {NoReference},
            amount : Amounts]

\* The primary key "pmt_" + reference of a payments row.
PaymentIds == References \cup {NoReference}

\* Rows of payments, and of the ledger by their keys, and what each counts.
Row   == [id : PaymentIds, command : Command]
Entry == Notes \X Amounts

AmountOf    == [p \in Row |-> p.command.amount]
EntryAmount == [entry \in Entry |-> entry[2]]

VARIABLES
    status,         \* status of a note
    billed,         \* notes of a customer usage: their invoice_id is set
    paymentId,      \* payment_id of a note
    invoiced,       \* notes whose invoice, and its REVENUE ledger row, exist
    paid,           \* paid_amount of an invoice; balance and status follow
    payments,       \* rows of payments
    receivable,     \* ACCOUNTS_RECEIVABLE ledger rows, by their keys
    messages,       \* commands published, in order
    due,            \* positions waiting to be delivered
    tries,          \* deliveries made of each position
    worker,         \* what the FINANCE callback is doing
    outcome,        \* history: how the last delivery of a position ended
    credited,       \* history: ids of the payments added to an invoice
    faults          \* history: faults so far

noteVars == <<status, billed, paymentId>>
bookVars == <<invoiced, paid, payments, receivable>>
queueVars == <<messages, due, tries>>
vars == <<noteVars, bookVars, queueVars, worker, outcome, credited, faults>>

Free == [pc |-> "free"]
Busy == [pc : {"checked", "recorded"}, position : Positions]

TypeOK ==
    /\ status     \in [Notes -> {"Paid_Usage_Support", "Pending_Payment",
                                 "Cleared_Paid", "Reconciliation_Started"}]
    /\ billed     \in SUBSET Notes
    /\ paymentId  \in [Notes -> PaymentIds \cup {None}]
    /\ invoiced   \in SUBSET Notes
    /\ billed     \subseteq invoiced
    /\ paid       \in [Notes -> Nat]
    /\ payments   \in SUBSET Row
    /\ receivable \in SUBSET Entry
    /\ messages   \in Seq(Command)
    /\ due        \in SUBSET Positions
    /\ tries      \in [Positions -> 0 .. MaxDeliver]
    /\ worker     \in {Free} \cup Busy
    /\ outcome    \in [Positions -> {"none", "applied", "duplicate", "termed"}]
    /\ credited   \in SUBSET PaymentIds
    /\ faults     \in 0 .. MaxFaults

Init ==
    /\ status = [n \in Notes |-> "Paid_Usage_Support"]
    /\ billed = {} /\ paymentId = [n \in Notes |-> None]
    /\ invoiced = {} /\ paid = [n \in Notes |-> 0]
    /\ payments = {} /\ receivable = {}
    /\ messages = <<>> /\ due = {} /\ tries = [m \in Positions |-> 0]
    /\ worker = Free
    /\ outcome = [m \in Positions |-> "none"]
    /\ credited = {} /\ faults = 0

Fault == faults < MaxFaults /\ faults' = faults + 1

-----------------------------------------------------------------------------
\* Invoice notes.

\* UpdateInvoiceNoteUsageType to Internal.
KeepInternal(n) ==
    /\ status' = [status EXCEPT ![n] = "Paid_Usage_Support"]
    /\ billed' = billed \ {n}
    /\ UNCHANGED <<paymentId, bookVars, queueVars, worker, outcome, credited, faults>>

\* Faulty variant: the note is billed although no invoice was inserted.
WithoutInvoice(n) == invoiced

\* INSERT INTO invoices ... ON CONFLICT (id) DO NOTHING.
WithInvoice(n) == invoiced \cup {n}

\* UpdateInvoiceNoteUsageType to a customer usage: the invoice and its
\* revenue entry are inserted unless they exist, the note waits for payment.
ChargeCustomer(n) ==
    /\ status'   = [status EXCEPT ![n] = "Pending_Payment"]
    /\ billed'   = billed \cup {n}
    /\ invoiced' = WithInvoice(n)
    /\ UNCHANGED <<paymentId, paid, payments, receivable, queueVars, worker,
                   outcome, credited, faults>>

\* The notes a finished task sends to reconciliation.
Reconciles(n) == status[n] = "Pending_Payment"

\* SaveTask with a task Completed or Approved, as far as the notes of the
\* task go.
FinishTask(T) ==
    /\ status' = [n \in Notes |-> IF n \in T /\ Reconciles(n) THEN "Reconciliation_Started"
                                                            ELSE status[n]]
    /\ UNCHANGED <<billed, paymentId, bookVars, queueVars, worker,
                   outcome, credited, faults>>

-----------------------------------------------------------------------------
\* The FINANCE stream and its worker.

\* RecordPaymentHandler publishes, or a governed command is released.
Send(c) ==
    /\ Len(messages) < MaxMessages
    /\ messages' = Append(messages, c)
    /\ due' = due \cup {Len(messages) + 1}
    /\ UNCHANGED <<noteVars, bookVars, tries, worker, outcome, credited, faults>>

\* A message that was delivered is delivered again: its acknowledgement was
\* lost, or its wait ended before the callback did.
Redeliver(m) ==
    /\ tries[m] \in 1 .. MaxDeliver - 1
    /\ m \notin due
    /\ due' = due \cup {m}
    /\ UNCHANGED <<noteVars, bookVars, messages, tries, worker, outcome, credited, faults>>

\* The callback ends with an acknowledgement or a termination.
End(m, how) ==
    /\ outcome' = [outcome EXCEPT ![m] = how]
    /\ worker' = Free

\* Faulty variant: the tenant of the invoice is not compared.
PayableByAnyone(c) == c.note \in invoiced

\* The invoice exists and is the tenant's own.
Payable(c) == c.note \in invoiced /\ TenantOf[c.note] = c.tenant

\* A delivery starts: GetInvoice and the tenant check, or a termination.
Take(m) ==
    /\ worker = Free
    /\ m \in due
    /\ tries[m] < MaxDeliver
    /\ due' = due \ {m}
    /\ tries' = [tries EXCEPT ![m] = @ + 1]
    /\ IF Payable(messages[m])
       THEN worker' = [pc |-> "checked", position |-> m] /\ UNCHANGED outcome
       ELSE End(m, "termed")
    /\ UNCHANGED <<noteVars, bookVars, messages, credited, faults>>

\* A row with this tenant and reference exists already.
Recorded(c) ==
    /\ c.ref # NoReference
    /\ \E p \in payments : p.command.tenant = c.tenant /\ p.command.ref = c.ref

\* Faulty variant: a payment is always reported as inserted.
InsertedAlways(c) == TRUE

\* SavePaymentIdempotent inserts the row: no row has its tenant and
\* reference, nor its primary key, which holds the reference but no tenant.
Inserted(c) == ~Recorded(c) /\ \A p \in payments : p.id # c.ref

\* Faulty variant: every note of the tenant is cleared.
ClearedByTenant(c) == {n \in billed : TenantOf[n] = c.tenant}

\* The notes a payment clears, whatever its amount.
ClearedBy(c) == {n \in billed : n = c.note /\ TenantOf[n] = c.tenant}

\* Faulty variant: the test of the result is inverted.
ProceedsInverted(c) == ~Inserted(c)

\* The callback goes on to apply the payments it inserted.
Proceeds(c) == Inserted(c)

\* SavePaymentIdempotent: the row and the notes, or nothing when the payment
\* was not inserted, which the callback acknowledges.
Record ==
    /\ worker.pc = "checked"
    /\ LET c == messages[worker.position] IN
       /\ IF Inserted(c)
          THEN /\ payments'  = payments \cup {[id |-> c.ref, command |-> c]}
               /\ status'    = [n \in Notes |-> IF n \in ClearedBy(c) THEN "Cleared_Paid"
                                                                      ELSE status[n]]
               /\ paymentId' = [n \in Notes |-> IF n \in ClearedBy(c) THEN c.ref
                                                                      ELSE paymentId[n]]
          ELSE UNCHANGED <<payments, status, paymentId>>
       /\ IF Proceeds(c)
          THEN worker' = [worker EXCEPT !.pc = "recorded"] /\ UNCHANGED outcome
          ELSE End(worker.position, "duplicate")
    /\ UNCHANGED <<billed, invoiced, paid, receivable, queueVars, credited, faults>>

\* Faulty variant: one ledger row for each invoice.
LedgerKeyByInvoice(c) == <<c.note, CHOOSE a \in Amounts : TRUE>>

\* The ledger row of a payment is keyed by its invoice and amount.
LedgerKey(c) == <<c.note, c.amount>>

\* ApplyPaymentTransaction: the invoice and, unless its key is taken, the
\* ledger row; then the acknowledgement.
Apply ==
    /\ worker.pc = "recorded"
    /\ LET c == messages[worker.position] IN
       /\ paid'       = [paid EXCEPT ![c.note] = @ + c.amount]
       /\ receivable' = receivable \cup {LedgerKey(c)}
       /\ credited'   = credited \cup {c.ref}
    /\ End(worker.position, "applied")
    /\ UNCHANGED <<noteVars, invoiced, payments, queueVars, faults>>

\* A read or a transaction of the callback fails: the message is terminated.
Fail ==
    /\ worker # Free
    /\ Fault
    /\ End(worker.position, "termed")
    /\ UNCHANGED <<noteVars, bookVars, queueVars, credited>>

\* The process stops under the callback; its message stays unacknowledged.
Crash ==
    /\ worker # Free
    /\ Fault
    /\ worker' = Free
    /\ UNCHANGED <<noteVars, bookVars, queueVars, outcome, credited>>

Next ==
    \/ \E n \in Notes : KeepInternal(n) \/ ChargeCustomer(n)
    \/ \E T \in SUBSET Notes : FinishTask(T)
    \/ \E c \in Command : Send(c)
    \/ \E m \in Positions : Redeliver(m) \/ Take(m)
    \/ Record \/ Apply \/ Fail \/ Crash

Spec == Init /\ [][Next]_vars

-----------------------------------------------------------------------------

\* The payments recorded on the invoice of a note.
PaymentsOn(n) == {p \in payments : p.command.note = n}

\* The ledger rows of the invoice of a note.
EntriesOf(n) == {entry \in receivable : entry[1] = n}

\* Two payments of one amount were credited to the invoice of a note.
SharesEntry(n) ==
    \E p, q \in PaymentsOn(n) :
        /\ p # q
        /\ p.id \in credited /\ q.id \in credited
        /\ p.command.amount = q.command.amount

\* V8_FINANCE_INVENTORY.md: "A redelivered payment with the same
\* tenant/reference is acknowledged without applying the amount twice".
\* However messages are redelivered, repeated or interrupted between the two
\* transactions, no invoice is credited with more than the payments on it.
PaidIsBacked ==
    \A n \in Notes : paid[n] <= SumFunctionOnSet(AmountOf, PaymentsOn(n))

\* Only a fault between the two transactions loses a payment: at most one
\* recorded payment for each fault was not, and is not about to be, credited.
LossNeedsFault ==
    Cardinality({p \in payments : /\ p.id \notin credited
                                  /\ ~ /\ worker.pc = "recorded"
                                       /\ messages[worker.position].ref = p.id}) <= faults

\* A note is cleared only by a payment on its own invoice, by its own tenant.
ClearedByOwnPayment ==
    \A n \in Notes :
        status[n] = "Cleared_Paid" =>
            \E p \in PaymentsOn(n) : p.id = paymentId[n] /\ p.command.tenant = TenantOf[n]

\* The ledger follows the invoices.  However payments are redelivered, resent or
\* lost between their transactions, the receivable rows of an invoice never sum
\* to more than was credited to it, and to less only where two credited payments
\* of one amount share their row (V9_BUSINESS_LEDGER.md has a credit for each).
LedgerMatchesInvoices ==
    \A n \in Notes :
        LET booked == SumFunctionOnSet(EntryAmount, EntriesOf(n)) IN
        /\ booked <= paid[n]
        /\ booked = paid[n] \/ SharesEntry(n)

\* consumer.go: "Same tenant/reference was already applied".  A delivery that
\* is acknowledged as a duplicate finds its payment applied.
DuplicateWasApplied ==
    \A m \in Positions :
        outcome[m] = "duplicate" => messages[m].ref \in credited

=============================================================================
