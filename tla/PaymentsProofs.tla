--------------------------- MODULE PaymentsProofs ---------------------------
(***************************************************************************)
(* Theorems about Payments, for any notes, tenants, references and         *)
(* amounts, and any bounds.                                                *)
(***************************************************************************)
EXTENDS Payments, FiniteSetTheorems, WellFoundedInduction, TLAPS

\* The command the callback handles.
Current == messages[worker.position]

\* The row of payments a command inserts.
RowOf(c) == [id |-> c.ref, command |-> c]

\* What waits was sent, and what the callback handles was.
QueueOK ==
    /\ Len(messages) <= MaxMessages
    /\ \A m \in due : m <= Len(messages)
    /\ \A m \in Positions : tries[m] > 0 => m <= Len(messages)
    /\ worker # Free => worker.position <= Len(messages)

\* A reference names one row at most, what is credited was recorded, and what
\* the callback is about to apply is.
RowsOK ==
    /\ \A p \in payments : p.id = p.command.ref
    /\ \A p, q \in payments : p.id = q.id => p = q
    /\ \A i \in credited : \E p \in payments : p.id = i
    /\ worker.pc = "recorded" => RowOf(Current) \in payments

\* There is a ledger row for an invoice and an amount exactly when a payment of
\* that amount was credited to it.
EntriesCredited ==
    receivable = {entry \in Entry :
                    \E p \in PaymentsOn(entry[1]) :
                        p.id \in credited /\ p.command.amount = entry[2]}

IInv == TypeOK /\ QueueOK /\ RowsOK /\ ClearedByOwnPayment /\ EntriesCredited

-----------------------------------------------------------------------------

LEMMA CommandFields ==
  ASSUME NEW c \in Command
  PROVE  /\ c.tenant \in Tenants /\ c.note \in Notes
         /\ c.ref \in PaymentIds /\ c.amount \in Amounts /\ c.amount \in Nat
  BY PaymentsAssumption DEF Command, PaymentIds

\* What a row of payments counts.
LEMMA RowAmount ==
  ASSUME NEW p \in Row
  PROVE  AmountOf[p] = p.command.amount /\ AmountOf[p] \in Nat
  BY CommandFields DEF AmountOf, Row

\* A position below the length of the stream is a command.
LEMMA MessageIsCommand ==
  ASSUME TypeOK, NEW m \in Positions, m <= Len(messages)
  PROVE  messages[m] \in Command
<1>1. messages \in Seq(Command) /\ m \in 1 .. Len(messages)
  BY PaymentsAssumption DEF TypeOK, Positions
<1> QED BY <1>1

LEMMA WorkerFields ==
  ASSUME TypeOK, QueueOK
  PROVE  /\ worker = Free <=> worker.pc = "free"
         /\ worker # Free => /\ worker \in Busy
                             /\ worker.position \in Positions
                             /\ Current \in Command
<1>1. worker \in {Free} \cup Busy
  BY DEF TypeOK
<1>2. worker = Free <=> worker.pc = "free"
  BY <1>1 DEF Free, Busy
<1>3. ASSUME worker # Free
      PROVE  worker \in Busy /\ worker.position \in Positions /\ Current \in Command
  <2>1. worker \in Busy /\ worker.position \in Positions
    BY <1>1, <1>3 DEF Busy
  <2>2. worker.position <= Len(messages)
    BY <1>3 DEF QueueOK
  <2> QED BY <2>1, <2>2, MessageIsCommand DEF Current
<1> QED BY <1>2, <1>3

\* The rows a callback depends on are not touched.
LEMMA RowsKept ==
  ASSUME RowsOK, UNCHANGED <<payments, credited>>,
         worker'.pc = "recorded" => worker.pc = "recorded" /\ Current' = Current
  PROVE  RowsOK'
  BY DEF RowsOK, RowOf

\* The books are not touched.
LEMMA LedgerKept ==
  ASSUME EntriesCredited, UNCHANGED <<payments, credited, receivable>>
  PROVE  EntriesCredited'
  BY DEF EntriesCredited, PaymentsOn

\* A step that clears no note keeps the cleared ones backed.
LEMMA ClearedKept ==
  ASSUME ClearedByOwnPayment, payments \subseteq payments',
         \A n \in Notes : status'[n] = "Cleared_Paid" =>
             status[n] = "Cleared_Paid" /\ paymentId'[n] = paymentId[n]
  PROVE  ClearedByOwnPayment'
  BY DEF ClearedByOwnPayment, PaymentsOn

-----------------------------------------------------------------------------
\* The steps.

LEMMA NotesKeep ==
  ASSUME IInv,
         \/ \E n \in Notes : KeepInternal(n) \/ ChargeCustomer(n)
         \/ \E T \in SUBSET Notes : FinishTask(T)
  PROVE  IInv'
<1>1. UNCHANGED <<paymentId, paid, payments, receivable, queueVars, worker, outcome,
                  credited, faults>>
  BY DEF KeepInternal, ChargeCustomer, FinishTask, bookVars
<1>2. /\ status' \in [Notes -> {"Paid_Usage_Support", "Pending_Payment",
                                "Cleared_Paid", "Reconciliation_Started"}]
      /\ \A n \in Notes : status'[n] = "Cleared_Paid" => status[n] = "Cleared_Paid"
  <2>1. CASE \E n \in Notes : KeepInternal(n) \/ ChargeCustomer(n)
    BY <2>1 DEF KeepInternal, ChargeCustomer, IInv, TypeOK
  <2>2. CASE \E T \in SUBSET Notes : FinishTask(T)
    BY <2>2 DEF FinishTask, IInv, TypeOK
  <2> QED BY <2>1, <2>2
<1>3. billed' \subseteq invoiced' /\ invoiced' \in SUBSET Notes
  BY DEF KeepInternal, ChargeCustomer, FinishTask, bookVars, WithInvoice, IInv, TypeOK
<1>4. TypeOK'
  BY <1>1, <1>2, <1>3 DEF IInv, TypeOK, queueVars
<1>5. QueueOK'
  BY <1>1 DEF IInv, QueueOK, queueVars
<1>6. RowsOK'
  BY <1>1, RowsKept DEF IInv, Current, queueVars
<1>7. ClearedByOwnPayment'
  BY <1>1, <1>2, ClearedKept DEF IInv
<1>8. EntriesCredited'
  BY <1>1, LedgerKept DEF IInv
<1> QED BY <1>4, <1>5, <1>6, <1>7, <1>8 DEF IInv

\* Steps that leave the notes and the books alone.
LEMMA QueueKeeps ==
  ASSUME IInv, UNCHANGED <<noteVars, bookVars, credited>>, TypeOK', QueueOK',
         worker'.pc = "recorded" => worker.pc = "recorded" /\ Current' = Current
  PROVE  IInv'
<1>1. UNCHANGED <<status, billed, paymentId, invoiced, paid, payments, receivable, credited>>
  BY DEF noteVars, bookVars
<1>2. RowsOK'
  BY <1>1, RowsKept DEF IInv
<1>3. ClearedByOwnPayment'
  BY <1>1, ClearedKept DEF IInv
<1>4. EntriesCredited'
  BY <1>1, LedgerKept DEF IInv
<1> QED BY <1>2, <1>3, <1>4 DEF IInv

LEMMA SendKeeps ==
  ASSUME IInv, NEW c \in Command, Send(c)
  PROVE  IInv'
<1>1. /\ messages \in Seq(Command) /\ Len(messages) \in Nat /\ Len(messages) < MaxMessages
      /\ messages' = Append(messages, c) /\ due' = due \cup {Len(messages) + 1}
      /\ UNCHANGED <<noteVars, bookVars, tries, worker, outcome, credited, faults>>
  BY DEF Send, IInv, TypeOK
<1>2. /\ messages' \in Seq(Command) /\ Len(messages') = Len(messages) + 1
      /\ \A m \in 1 .. Len(messages) : messages'[m] = messages[m]
  BY <1>1
<1>3. Len(messages) + 1 \in Positions
  BY <1>1, PaymentsAssumption DEF Positions
<1>4. TypeOK'
  BY <1>1, <1>2, <1>3 DEF IInv, TypeOK, noteVars, bookVars
<1>5. QueueOK'
  <2>1. \A m \in due' : m <= Len(messages')
    <3>1. due \subseteq Positions /\ \A m \in due : m <= Len(messages)
      BY DEF IInv, TypeOK, QueueOK
    <3> QED BY <1>1, <1>2, <3>1 DEF Positions
  <2>2. \A m \in Positions : tries'[m] > 0 => m <= Len(messages')
    BY <1>1, <1>2 DEF IInv, QueueOK, Positions
  <2>3. worker' # Free => worker'.position <= Len(messages')
    <3>1. worker # Free => worker.position \in Positions /\ worker.position <= Len(messages)
      BY WorkerFields DEF IInv, QueueOK
    <3> QED BY <1>1, <1>2, <3>1 DEF Positions
  <2>4. Len(messages') <= MaxMessages
    BY <1>1, <1>2, PaymentsAssumption
  <2> QED BY <2>1, <2>2, <2>3, <2>4 DEF QueueOK
<1>6. worker'.pc = "recorded" => worker.pc = "recorded" /\ Current' = Current
  <2>1. worker.pc = "recorded" => worker.position \in 1 .. Len(messages)
    <3>1. worker.pc = "recorded" => worker # Free
      BY DEF Free
    <3>2. worker # Free => worker.position \in Positions /\ worker.position <= Len(messages)
      BY WorkerFields DEF IInv, QueueOK
    <3> QED BY <1>1, <3>1, <3>2 DEF Positions
  <2> QED BY <1>1, <1>2, <2>1 DEF Current
<1> QED BY <1>1, <1>4, <1>5, <1>6, QueueKeeps


LEMMA RedeliverKeeps ==
  ASSUME IInv, NEW m \in Positions, Redeliver(m)
  PROVE  IInv'
<1>1. /\ due' = due \cup {m} /\ tries[m] > 0
      /\ UNCHANGED <<noteVars, bookVars, messages, tries, worker, outcome, credited, faults>>
  BY DEF Redeliver, IInv, TypeOK
<1>2. TypeOK'
  BY <1>1 DEF IInv, TypeOK, noteVars, bookVars
<1>3. QueueOK'
  BY <1>1 DEF IInv, QueueOK
<1> QED BY <1>1, <1>2, <1>3, QueueKeeps DEF Current

\* The callback becomes free.
LEMMA EndIsFree ==
  ASSUME NEW m, NEW how, End(m, how)
  PROVE  worker' = Free /\ worker'.pc # "recorded" /\ worker'.pc # "checked"
  BY DEF End, Free

LEMMA TakeKeeps ==
  ASSUME IInv, NEW m \in Positions, Take(m)
  PROVE  IInv'
<1>1. /\ m \in due /\ tries[m] < MaxDeliver
      /\ due' = due \ {m} /\ tries' = [tries EXCEPT ![m] = @ + 1]
      /\ UNCHANGED <<noteVars, bookVars, messages, credited, faults>>
  BY DEF Take
<1>2. m <= Len(messages)
  BY <1>1 DEF IInv, QueueOK
<1>3. \/ worker' = [pc |-> "checked", position |-> m] /\ UNCHANGED outcome
      \/ worker' = Free /\ outcome' = [outcome EXCEPT ![m] = "termed"]
  BY DEF Take, End
<1>4. /\ worker' \in {Free} \cup Busy /\ worker'.pc # "recorded"
      /\ worker' # Free => worker'.position = m
  BY <1>3 DEF Busy, Free
<1>5. TypeOK'
  <2>1. tries' \in [Positions -> 0 .. MaxDeliver]
    BY <1>1, PaymentsAssumption DEF IInv, TypeOK
  <2>2. outcome' \in [Positions -> {"none", "applied", "duplicate", "termed"}]
    BY <1>3 DEF IInv, TypeOK
  <2> QED BY <1>1, <1>4, <2>1, <2>2 DEF IInv, TypeOK, noteVars, bookVars
<1>6. QueueOK'
  <2>1. \A k \in Positions : tries'[k] > 0 => k <= Len(messages')
    BY <1>1, <1>2 DEF IInv, QueueOK, TypeOK
  <2> QED BY <1>1, <1>2, <1>4, <2>1 DEF IInv, QueueOK
<1> QED BY <1>1, <1>4, <1>5, <1>6, QueueKeeps

\* A fault ends the delivery between or before the two transactions.
LEMMA FaultKeeps ==
  ASSUME IInv, Fail \/ Crash
  PROVE  IInv'
<1>1. /\ worker # Free /\ worker' = Free /\ worker'.pc # "recorded"
      /\ faults < MaxFaults /\ faults' = faults + 1
      /\ UNCHANGED <<noteVars, bookVars, queueVars, credited>>
      /\ outcome' = outcome \/ outcome' = [outcome EXCEPT ![worker.position] = "termed"]
  BY DEF Fail, Crash, Fault, End, Free
<1>2. TypeOK'
  <2>1. faults' \in 0 .. MaxFaults
    BY <1>1, PaymentsAssumption DEF IInv, TypeOK
  <2>2. outcome' \in [Positions -> {"none", "applied", "duplicate", "termed"}]
    BY <1>1 DEF IInv, TypeOK
  <2> QED BY <1>1, <2>1, <2>2 DEF IInv, TypeOK, noteVars, bookVars, queueVars
<1>3. QueueOK'
  BY <1>1 DEF IInv, QueueOK, queueVars
<1> QED BY <1>1, <1>2, <1>3, QueueKeeps

\* What the first transaction does.
LEMMA Recording ==
  ASSUME IInv, Record
  PROVE  /\ Current \in Command /\ worker.pc = "checked" /\ worker.position \in Positions
         /\ \/ /\ Inserted(Current)
               /\ payments' = payments \cup {RowOf(Current)}
               /\ status' = [n \in Notes |-> IF n \in ClearedBy(Current) THEN "Cleared_Paid"
                                                                         ELSE status[n]]
               /\ paymentId' = [n \in Notes |-> IF n \in ClearedBy(Current) THEN Current.ref
                                                                            ELSE paymentId[n]]
               /\ worker' = [worker EXCEPT !.pc = "recorded"]
               /\ UNCHANGED outcome
            \/ /\ ~Inserted(Current)
               /\ UNCHANGED <<payments, status, paymentId>>
               /\ worker' = Free
               /\ outcome' = [outcome EXCEPT ![worker.position] = "duplicate"]
         /\ UNCHANGED <<billed, invoiced, paid, receivable, queueVars, credited, faults>>
<1>1. worker.pc = "checked" /\ worker # Free
  BY DEF Record, Free
<1>2. Current \in Command /\ worker.position \in Positions
  BY <1>1, WorkerFields DEF IInv
<1> QED BY <1>1, <1>2, Zenon DEF Record, Proceeds, RowOf, Current, End

\* A row that is inserted has a reference of its own.
LEMMA InsertedIsNew ==
  ASSUME RowsOK, NEW c \in Command, Inserted(c)
  PROVE  /\ \A p \in payments : p.id # c.ref
         /\ c.ref \notin credited
  BY DEF Inserted, RowsOK

LEMMA RecordKeeps ==
  ASSUME IInv, Record
  PROVE  IInv'
<1> DEFINE c == Current
           row == RowOf(c)
<1>1. /\ c \in Command /\ worker.pc = "checked" /\ worker.position \in Positions
      /\ UNCHANGED <<billed, invoiced, paid, receivable, queueVars, credited, faults>>
  BY Recording
<1>2. row.id = c.ref /\ row.command = c /\ row \in [id : PaymentIds, command : Command]
  BY <1>1, CommandFields DEF RowOf
<1>3. CASE Inserted(c)
  <2>1. /\ payments' = payments \cup {row}
        /\ status' = [n \in Notes |-> IF n \in ClearedBy(c) THEN "Cleared_Paid"
                                                            ELSE status[n]]
        /\ paymentId' = [n \in Notes |-> IF n \in ClearedBy(c) THEN c.ref ELSE paymentId[n]]
        /\ worker' = [worker EXCEPT !.pc = "recorded"]
        /\ UNCHANGED outcome
    BY <1>3, Recording
  <2>2. (\A p \in payments : p.id # c.ref) /\ c.ref \notin credited
    BY <1>1, <1>3, InsertedIsNew DEF IInv
  <2>3. worker' \in Busy /\ worker'.position = worker.position /\ worker' # Free
    <3>1. worker \in Busy
      BY <1>1, WorkerFields DEF IInv, Free
    <3> QED BY <2>1, <3>1 DEF Busy, Free
  <2>4. Current' = c
    BY <1>1, <2>3 DEF Current, queueVars
  <2>5. RowOf(Current)' = row
    BY <2>4 DEF RowOf
  <2> HIDE DEF c, row
  <2>6. TypeOK'
    <3>1. c.ref \in PaymentIds
      BY <1>1, CommandFields
    <3>2. status' \in [Notes -> {"Paid_Usage_Support", "Pending_Payment",
                                 "Cleared_Paid", "Reconciliation_Started"}]
          /\ paymentId' \in [Notes -> PaymentIds \cup {None}]
      BY <2>1, <3>1 DEF IInv, TypeOK
    <3> QED BY <1>1, <1>2, <2>1, <2>3, <3>2 DEF IInv, TypeOK, Row, queueVars
  <2>7. QueueOK'
    <3>1. worker # Free
      BY <1>1 DEF Free
    <3> QED BY <1>1, <2>3, <3>1 DEF IInv, QueueOK, queueVars
  <2>8. RowsOK'
    <3>1. \A p \in payments' : p.id = p.command.ref
      BY <1>2, <2>1 DEF IInv, RowsOK
    <3>2. \A p, q \in payments' : p.id = q.id => p = q
      BY <1>2, <2>1, <2>2 DEF IInv, RowsOK
    <3>3. \A i \in credited' : \E p \in payments' : p.id = i
      BY <1>1, <2>1 DEF IInv, RowsOK
    <3> QED BY <2>1, <2>5, <3>1, <3>2, <3>3 DEF RowsOK
  <2>9. ClearedByOwnPayment'
    <3> SUFFICES ASSUME NEW n \in Notes, status'[n] = "Cleared_Paid"
                 PROVE  \E p \in payments' : /\ p.command.note = n /\ p.id = paymentId'[n]
                                             /\ p.command.tenant = TenantOf[n]
      BY DEF ClearedByOwnPayment, PaymentsOn
    <3>1. CASE n \in ClearedBy(c)
      BY <1>2, <2>1, <3>1 DEF ClearedBy
    <3>2. CASE n \notin ClearedBy(c)
      <4>1. status[n] = "Cleared_Paid" /\ paymentId'[n] = paymentId[n]
        BY <2>1, <3>2
      <4> QED BY <2>1, <4>1 DEF IInv, ClearedByOwnPayment, PaymentsOn
    <3> QED BY <3>1, <3>2
  <2>10. EntriesCredited'
    <3>1. \A entry \in Notes \X Amounts :
             (\E p \in payments' : p.command.note = entry[1] /\ p.id \in credited'
                                       /\ p.command.amount = entry[2])
             <=> \E p \in payments : p.command.note = entry[1] /\ p.id \in credited
                                       /\ p.command.amount = entry[2]
      BY <1>1, <1>2, <2>1, <2>2
    <3> QED BY <1>1, <3>1 DEF IInv, EntriesCredited, PaymentsOn, Entry
  <2> QED BY <2>6, <2>7, <2>8, <2>9, <2>10 DEF IInv
<1>4. CASE ~Inserted(c)
  <2>1. /\ UNCHANGED <<payments, status, paymentId>>
        /\ worker' = Free /\ worker'.pc # "recorded"
        /\ outcome' = [outcome EXCEPT ![worker.position] = "duplicate"]
    BY <1>4, Recording DEF Free
  <2>2. TypeOK'
    <3>1. outcome' \in [Positions -> {"none", "applied", "duplicate", "termed"}]
      BY <2>1 DEF IInv, TypeOK
    <3> QED BY <1>1, <2>1, <3>1 DEF IInv, TypeOK, queueVars
  <2>3. QueueOK'
    BY <1>1, <2>1 DEF IInv, QueueOK, queueVars
  <2> QED BY <1>1, <2>1, <2>2, <2>3, QueueKeeps DEF noteVars, bookVars
<1> QED BY <1>3, <1>4

\* What the second transaction does.
LEMMA Applying ==
  ASSUME IInv, Apply
  PROVE  /\ Current \in Command /\ RowOf(Current) \in payments
         /\ worker.pc = "recorded" /\ worker' = Free /\ worker.position \in Positions
         /\ paid' = [paid EXCEPT ![Current.note] = @ + Current.amount]
         /\ receivable' = receivable \cup {<<Current.note, Current.amount>>}
         /\ credited' = credited \cup {Current.ref}
         /\ outcome' = [outcome EXCEPT ![worker.position] = "applied"]
         /\ UNCHANGED <<noteVars, invoiced, payments, queueVars, faults>>
<1>1. worker.pc = "recorded" /\ worker # Free
  BY DEF Apply, Free
<1>2. Current \in Command /\ worker.position \in Positions
  BY <1>1, WorkerFields DEF IInv
<1>3. RowOf(Current) \in payments
  BY <1>1 DEF IInv, RowsOK
<1> QED BY <1>1, <1>2, <1>3, Zenon DEF Apply, LedgerKey, Current, End

LEMMA ApplyKeeps ==
  ASSUME IInv, Apply
  PROVE  IInv'
<1> DEFINE c == Current
           row == RowOf(c)
<1>1. /\ c \in Command /\ row \in payments
      /\ worker' = Free /\ worker'.pc # "recorded"
      /\ paid' = [paid EXCEPT ![c.note] = @ + c.amount]
      /\ receivable' = receivable \cup {<<c.note, c.amount>>}
      /\ credited' = credited \cup {c.ref}
      /\ outcome' = [outcome EXCEPT ![worker.position] = "applied"]
      /\ UNCHANGED <<noteVars, invoiced, payments, queueVars, faults>>
  BY Applying DEF Free
<1>2. row.id = c.ref /\ row.command = c
  BY DEF RowOf
<1>3. /\ c.note \in Notes /\ c.amount \in Amounts /\ c.amount \in Nat
      /\ c.ref \in PaymentIds
  BY <1>1, CommandFields
<1> HIDE DEF c, row
<1>4. TypeOK'
  <2>1. paid' \in [Notes -> Nat]
    BY <1>1, <1>3 DEF IInv, TypeOK
  <2>2. outcome' \in [Positions -> {"none", "applied", "duplicate", "termed"}]
    BY <1>1 DEF IInv, TypeOK
  <2>3. receivable' \in SUBSET Entry /\ credited' \in SUBSET PaymentIds
    BY <1>1, <1>3 DEF IInv, TypeOK, Entry
  <2> QED BY <1>1, <2>1, <2>2, <2>3 DEF IInv, TypeOK, noteVars, queueVars
<1>5. QueueOK'
  BY <1>1 DEF IInv, QueueOK, queueVars
<1>6. RowsOK'
  BY <1>1, <1>2 DEF IInv, RowsOK
<1>7. ClearedByOwnPayment'
  BY <1>1, ClearedKept DEF IInv, noteVars
<1>8. EntriesCredited'
  <2>1. \A entry \in Notes \X Amounts :
           (\E p \in payments' : p.command.note = entry[1] /\ p.id \in credited'
                                     /\ p.command.amount = entry[2])
           <=> \/ \E p \in payments : p.command.note = entry[1] /\ p.id \in credited
                                     /\ p.command.amount = entry[2]
               \/ entry = <<c.note, c.amount>>
    <3> SUFFICES ASSUME NEW entry \in Notes \X Amounts
                 PROVE  (\E p \in payments' : p.command.note = entry[1] /\ p.id \in credited'
                                     /\ p.command.amount = entry[2])
                        <=> \/ \E p \in payments : p.command.note = entry[1] /\ p.id \in credited
                                     /\ p.command.amount = entry[2]
                            \/ entry = <<c.note, c.amount>>
      OBVIOUS
    <3>1. entry = <<c.note, c.amount>> <=> c.note = entry[1] /\ c.amount = entry[2]
      OBVIOUS
    <3>2. \A p \in payments : p.id \in credited' <=> p.id \in credited \/ p = row
      BY <1>1, <1>2 DEF IInv, RowsOK
    <3>3. payments' = payments /\ row \in payments
          /\ row.command.note = c.note /\ row.command.amount = c.amount
      BY <1>1, <1>2
    <3>4. ASSUME NEW p \in payments, p.command.note = entry[1], p.id \in credited',
                 p.command.amount = entry[2]
          PROVE  \/ p.id \in credited
                 \/ entry = <<c.note, c.amount>>
      BY <3>1, <3>2, <3>3, <3>4
    <3>5. ASSUME NEW p \in payments, p.id \in credited PROVE p.id \in credited'
      BY <3>2, <3>5
    <3>6. ASSUME entry = <<c.note, c.amount>>
          PROVE  \E p \in payments' : p.command.note = entry[1] /\ p.id \in credited'
                                           /\ p.command.amount = entry[2]
      BY <3>1, <3>2, <3>3, <3>6
    <3> QED BY <3>3, <3>4, <3>5, <3>6
  <2>2. \A entry \in Notes \X Amounts :
           entry \in receivable <=>
               \E p \in payments : p.command.note = entry[1] /\ p.id \in credited
                                     /\ p.command.amount = entry[2]
    BY DEF IInv, EntriesCredited, PaymentsOn, Entry
  <2>3. \A entry \in Notes \X Amounts :
           entry \in receivable' <=>
               \E p \in payments' : p.command.note = entry[1] /\ p.id \in credited'
                                      /\ p.command.amount = entry[2]
    <3>1. \A entry : entry \in receivable' <=>
                         entry \in receivable \/ entry = <<c.note, c.amount>>
      BY <1>1
    <3> QED BY <2>1, <2>2, <3>1, Zenon
  <2>4. receivable' \subseteq Notes \X Amounts
    BY <1>4 DEF TypeOK, Entry
  <2> QED BY <2>3, <2>4 DEF EntriesCredited, PaymentsOn, Entry
<1> QED BY <1>4, <1>5, <1>6, <1>7, <1>8 DEF IInv

LEMMA Inductive ==
  ASSUME IInv, [Next]_vars
  PROVE  IInv'
<1>1. CASE \/ \E n \in Notes : KeepInternal(n) \/ ChargeCustomer(n)
           \/ \E T \in SUBSET Notes : FinishTask(T)
  BY <1>1, NotesKeep
<1>2. ASSUME NEW c \in Command, Send(c) PROVE IInv'
  BY <1>2, SendKeeps
<1>3. ASSUME NEW m \in Positions, Redeliver(m) \/ Take(m) PROVE IInv'
  BY <1>3, RedeliverKeeps, TakeKeeps
<1>4. CASE Record \/ Apply \/ Fail \/ Crash
  BY <1>4, RecordKeeps, ApplyKeeps, FaultKeeps
<1>5. CASE UNCHANGED vars
  <2>1. TypeOK' /\ QueueOK'
    BY <1>5 DEF IInv, TypeOK, QueueOK, vars, noteVars, bookVars, queueVars
  <2> QED BY <1>5, <2>1, QueueKeeps DEF vars, queueVars, Current
<1> QED BY <1>1, <1>2, <1>3, <1>4, <1>5 DEF Next

LEMMA InitOK == Init => IInv
<1> SUFFICES ASSUME Init PROVE IInv
  OBVIOUS
<1>1. TypeOK
  BY PaymentsAssumption DEF Init, TypeOK, Positions, Free
<1>2. QueueOK
  BY PaymentsAssumption DEF Init, QueueOK
<1>3. RowsOK
  BY DEF Init, RowsOK, Free
<1>4. ClearedByOwnPayment /\ EntriesCredited
  BY DEF Init, ClearedByOwnPayment, EntriesCredited, PaymentsOn
<1> QED BY <1>1, <1>2, <1>3, <1>4 DEF IInv

LEMMA Invariance == Spec => []IInv
  BY InitOK, Inductive, PTL DEF Spec

-----------------------------------------------------------------------------
\* The theorems.

\* The rows keep their types, and a note with an invoice number has that
\* invoice.
THEOREM TypeCorrect == Spec => []TypeOK
<1>1. IInv => TypeOK
  BY DEF IInv
<1> QED BY <1>1, Invariance, PTL

\* SavePaymentIdempotent clears a note only with a payment on its own invoice
\* by its own tenant, whatever the order of payments, changes of usage and
\* finished tasks.
THEOREM ClearedByOwn == Spec => []ClearedByOwnPayment
<1>1. IInv => ClearedByOwnPayment
  BY DEF IInv
<1> QED BY <1>1, Invariance, PTL

-----------------------------------------------------------------------------
\* Lost payments: recorded, not credited, and no longer about to be.

Lost == {p \in payments : /\ p.id \notin credited
                          /\ ~ /\ worker.pc = "recorded"
                               /\ messages[worker.position].ref = p.id}

FewLost == IsFiniteSet(Lost) /\ Cardinality(Lost) <= faults

\* No payment is lost.
LEMMA NoneLost ==
  ASSUME TypeOK, TypeOK', FewLost, Lost' \subseteq Lost, faults' >= faults
  PROVE  FewLost'
<1>1. /\ IsFiniteSet(Lost') /\ Cardinality(Lost') <= Cardinality(Lost)
      /\ Cardinality(Lost) \in Nat /\ Cardinality(Lost') \in Nat
  BY FS_Subset, FS_CardinalityType DEF FewLost
<1>2. Cardinality(Lost) <= faults /\ faults \in Nat /\ faults' \in Nat
  BY PaymentsAssumption DEF FewLost, TypeOK
<1>3. Cardinality(Lost') <= faults'
  BY <1>1, <1>2
<1> QED BY <1>1, <1>3 DEF FewLost

\* A fault loses the payment the callback was about to apply, if any.
LEMMA FaultLosesOne ==
  ASSUME IInv, TypeOK', FewLost, Fail \/ Crash
  PROVE  FewLost'
<1>1. /\ worker # Free /\ worker' = Free /\ worker'.pc # "recorded"
      /\ faults' = faults + 1
      /\ UNCHANGED <<payments, credited, messages>>
  BY DEF Fail, Crash, Fault, End, Free, bookVars, queueVars
<1>2. CASE worker.pc # "recorded"
  <2>1. Lost' \subseteq Lost
    BY <1>1, <1>2 DEF Lost
  <2>2. faults' >= faults
    BY <1>1, PaymentsAssumption DEF IInv, TypeOK
  <2> QED BY <2>1, <2>2, NoneLost DEF IInv
<1>3. CASE worker.pc = "recorded"
  <2> DEFINE row == RowOf(Current)
  <2>1. row \in payments /\ row.id = Current.ref
    BY <1>3 DEF IInv, RowsOK, RowOf
  <2>2. \A p \in payments : p.id = Current.ref => p = row
    <3> HIDE DEF row
    <3> QED BY <2>1 DEF IInv, RowsOK
  <2> HIDE DEF row
  <2>3. Lost' \subseteq Lost \cup {row}
    BY <1>1, <1>3, <2>2 DEF Lost, Current
  <2>4. /\ IsFiniteSet(Lost \cup {row})
        /\ Cardinality(Lost \cup {row}) <= Cardinality(Lost) + 1
        /\ Cardinality(Lost) \in Nat /\ Cardinality(Lost \cup {row}) \in Nat
    <3>1. /\ IsFiniteSet(Lost \cup {row})
          /\ \/ Cardinality(Lost \cup {row}) = Cardinality(Lost)
             \/ Cardinality(Lost \cup {row}) = Cardinality(Lost) + 1
      BY FS_AddElement DEF FewLost
    <3>2. Cardinality(Lost) \in Nat
      BY FS_CardinalityType DEF FewLost
    <3> QED BY <3>1, <3>2
  <2>5. /\ IsFiniteSet(Lost') /\ Cardinality(Lost') \in Nat
        /\ Cardinality(Lost') <= Cardinality(Lost \cup {row})
    BY <2>3, <2>4, FS_Subset, FS_CardinalityType
  <2>6. Cardinality(Lost) <= faults /\ faults \in Nat
    BY PaymentsAssumption DEF FewLost, IInv, TypeOK
  <2>7. Cardinality(Lost') <= faults'
    BY <1>1, <2>4, <2>5, <2>6
  <2> QED BY <2>5, <2>7 DEF FewLost
<1> QED BY <1>2, <1>3

\* The other steps lose nothing.
LEMMA OthersLoseNone ==
  ASSUME IInv, IInv', [Next]_vars, ~Fail, ~Crash
  PROVE  Lost' \subseteq Lost /\ faults' >= faults
<1>1. faults \in Nat
  BY PaymentsAssumption DEF IInv, TypeOK
<1>2. ASSUME UNCHANGED <<payments, credited, faults>>,
             worker.pc = "recorded" => worker'.pc = "recorded" /\ Current' = Current
      PROVE  Lost' \subseteq Lost /\ faults' >= faults
  BY <1>1, <1>2 DEF Lost, Current
<1>3. CASE \/ \E n \in Notes : KeepInternal(n) \/ ChargeCustomer(n)
           \/ \E T \in SUBSET Notes : FinishTask(T)
           \/ \E m \in Positions : Redeliver(m)
           \/ UNCHANGED vars
  BY <1>2, <1>3 DEF KeepInternal, ChargeCustomer, FinishTask, Redeliver, vars, bookVars,
                    queueVars, Current
<1>4. ASSUME NEW c \in Command, Send(c)
      PROVE  Lost' \subseteq Lost /\ faults' >= faults
  <2>1. /\ messages \in Seq(Command) /\ messages' = Append(messages, c)
        /\ UNCHANGED <<payments, credited, faults, worker>>
    BY <1>4 DEF Send, bookVars, IInv, TypeOK
  <2>2. worker.pc = "recorded" => worker.position \in 1 .. Len(messages)
    <3>1. worker.pc = "recorded" => worker # Free
      BY DEF Free
    <3>2. worker # Free => worker.position \in Positions /\ worker.position <= Len(messages)
      BY WorkerFields DEF IInv, QueueOK
    <3> QED BY <2>1, <3>1, <3>2 DEF Positions
  <2> QED BY <1>2, <2>1, <2>2 DEF Current
<1>5. ASSUME NEW m \in Positions, Take(m)
      PROVE  Lost' \subseteq Lost /\ faults' >= faults
  <2>1. worker.pc # "recorded" /\ UNCHANGED <<payments, credited, faults>>
    BY <1>5 DEF Take, Free, bookVars
  <2> QED BY <1>2, <2>1
<1>6. ASSUME Record
      PROVE  Lost' \subseteq Lost /\ faults' >= faults
  <2>1. worker.pc = "checked" /\ UNCHANGED <<credited, faults, messages>>
    BY <1>6, Recording DEF queueVars
  <2>2. CASE UNCHANGED payments
    BY <1>2, <2>1, <2>2
  <2>3. CASE /\ payments' = payments \cup {RowOf(Current)}
             /\ worker' = [worker EXCEPT !.pc = "recorded"]
    <3>1. worker \in Busy
      BY <2>1, WorkerFields DEF IInv, Free
    <3>2. worker'.pc = "recorded" /\ worker'.position = worker.position
      BY <2>3, <3>1 DEF Busy
    <3>3. RowOf(Current).id = Current.ref /\ Current' = Current
      BY <2>1, <3>2 DEF RowOf, Current
    <3>4. Lost' \subseteq Lost
      BY <2>1, <2>3, <3>2, <3>3 DEF Lost, Current
    <3> QED BY <1>1, <2>1, <3>4
  <2> QED BY <1>6, <2>2, <2>3, Recording
<1>7. ASSUME Apply
      PROVE  Lost' \subseteq Lost /\ faults' >= faults
  <2>1. /\ worker.pc = "recorded" /\ worker' = Free /\ worker'.pc # "recorded"
        /\ credited' = credited \cup {Current.ref}
        /\ UNCHANGED <<payments, faults, messages>>
    BY <1>7, Applying DEF queueVars, Free
  <2>2. Lost' \subseteq Lost
    BY <2>1 DEF Lost, Current
  <2> QED BY <1>1, <2>1, <2>2
<1> QED BY <1>3, <1>4, <1>5, <1>6, <1>7 DEF Next

\* The two transactions of a payment lose it only when a fault comes between
\* them, and a fault loses one: redeliveries and repeated references lose none.
THEOREM LossesAreFaults == Spec => []LossNeedsFault
<1>1. Init => FewLost
  <2> SUFFICES ASSUME Init PROVE FewLost
    OBVIOUS
  <2>1. Lost = {} /\ faults = 0
    BY DEF Init, Lost
  <2>2. IsFiniteSet(Lost) /\ Cardinality(Lost) = 0
    BY <2>1, FS_EmptySet
  <2> QED BY <2>1, <2>2 DEF FewLost
<1>2. IInv /\ IInv' /\ FewLost /\ [Next]_vars => FewLost'
  BY FaultLosesOne, OthersLoseNone, NoneLost DEF IInv
<1>3. FewLost => LossNeedsFault
  BY DEF FewLost, Lost, LossNeedsFault
<1> QED BY <1>1, <1>2, <1>3, Invariance, PTL DEF Spec

-----------------------------------------------------------------------------
\* Sums: of the payments on an invoice, and of its ledger rows.

\* The sum of what f counts for each element of a set.
Total(f, S) == SumFunctionOnSet(f, S)

\* The equation of the fold over the subsets of S, and the function it defines.
Of(f, S, g, s) == IF s = {} THEN 0
                  ELSE LET p == CHOOSE p \in s : TRUE IN f[p] + g[s \ {p}]

Summing(f, S) == CHOOSE g : g = [s \in SUBSET S |-> Of(f, S, g, s)]

\* The sum is the value of the recursive function that the fold defines.
LEMMA TotalSumming == ASSUME NEW f, NEW S PROVE Total(f, S) = Summing(f, S)[S]
  BY DEF Total, SumFunctionOnSet, FoldFunctionOnSet, MapThenFoldSet, Summing, Of

\* Induction on a finite set, as the existence of a smallest counterexample.
LEMMA SmallestSubset ==
  ASSUME NEW S, IsFiniteSet(S), NEW A, A \subseteq SUBSET S, A # {}
  PROVE  \E s \in A : \A t \in A : ~ (t \subseteq s /\ t # s)
<1>1. A \subseteq FiniteSubsetsOf(S)
  BY FS_Subset DEF FiniteSubsetsOf
<1>2. \E s \in A : \A t \in A : ~ (<<t, s>> \in StrictSubsetOrdering(S))
  <2>1. IsWellFoundedOn(StrictSubsetOrdering(S), FiniteSubsetsOf(S))
    BY FS_StrictSubsetOrderingWellFounded
  <2> QED BY <1>1, <2>1, WFMin
<1> QED BY <1>2 DEF StrictSubsetOrdering

\* The sum of a set is what f counts for one element, and the sum of the rest.
Unfolds(f, s) == Total(f, s) = IF s = {} THEN 0
                               ELSE LET p == CHOOSE p \in s : TRUE
                                    IN  f[p] + Total(f, s \ {p})

\* The fold is defined: on a finite set a function with its equation exists, and
\* no two differ.
LEMMA TotalUnfolds ==
  ASSUME NEW f, NEW S, IsFiniteSet(S)
  PROVE  Unfolds(f, S)
<1> SUFFICES ASSUME ~Unfolds(f, S) PROVE FALSE
  OBVIOUS
<1> DEFINE A == {s \in SUBSET S : ~Unfolds(f, s)}
<1>1. PICK T \in A : \A t \in A : ~ (t \subseteq T /\ t # T)
  <2>1. A \subseteq SUBSET S /\ A # {}
    OBVIOUS
  <2> HIDE DEF A
  <2> QED BY <2>1, SmallestSubset
<1>2. T \subseteq S /\ ~Unfolds(f, T) /\ IsFiniteSet(T)
  BY <1>1, FS_Subset
<1>3. ASSUME NEW t, t \subseteq T, t # T PROVE Unfolds(f, t)
  BY <1>1, <1>2, <1>3
<1> HIDE DEF A
<1> DEFINE Value(s) == IF s = {} THEN 0
                       ELSE LET p == CHOOSE p \in s : TRUE
                            IN  f[p] + Total(f, s \ {p})
           G == [s \in SUBSET T |-> IF s = T THEN Value(T) ELSE Total(f, s)]
<1>4. \A s \in SUBSET T : s # {} => (CHOOSE p \in s : TRUE) \in s
  OBVIOUS
<1>5. ASSUME NEW s \in SUBSET T PROVE G[s] = Of(f, T, G, s)
  <2>1. CASE s = {}
    <3>1. G[s] = 0
      BY <1>3, <2>1 DEF Unfolds
    <3> QED BY <2>1, <3>1 DEF Of
  <2>2. CASE s # {}
    <3> DEFINE p == CHOOSE p \in s : TRUE
    <3>1. p \in s /\ s \ {p} \subseteq T /\ s \ {p} # T
      BY <1>4, <2>2
    <3>2. G[s \ {p}] = Total(f, s \ {p})
      BY <3>1
    <3>3. G[s] = f[p] + Total(f, s \ {p})
      BY <1>3, <2>2 DEF Unfolds
    <3> QED BY <2>2, <3>2, <3>3 DEF Of
  <2> QED BY <2>1, <2>2
<1>6. G = [s \in SUBSET T |-> Of(f, T, G, s)]
  <2> HIDE DEF Value
  <2>1. G = [s \in SUBSET T |-> G[s]]
    OBVIOUS
  <2> HIDE DEF G
  <2> QED BY <1>5, <2>1
<1>7. Summing(f, T) = [s \in SUBSET T |-> Of(f, T, Summing(f, T), s)]
  <2> HIDE DEF G
  <2> QED BY <1>6 DEF Summing
<1>8. Summing(f, T) = G
  <2> DEFINE H == Summing(f, T)
             B == {s \in SUBSET T : H[s] # G[s]}
  <2>1. SUFFICES ASSUME B # {} PROVE FALSE
    <3>1. G = [s \in SUBSET T |-> G[s]] /\ H = [s \in SUBSET T |-> H[s]]
      <4> HIDE DEF G, H
      <4> QED BY <1>6, <1>7 DEF H
    <3> HIDE DEF G, H
    <3> QED BY <3>1 DEF H
  <2> HIDE DEF H, G
  <2>2. PICK s \in B : \A t \in B : ~ (t \subseteq s /\ t # s)
    <3>1. B \subseteq SUBSET T
      OBVIOUS
    <3> HIDE DEF B
    <3> QED BY <1>2, <2>1, <3>1, SmallestSubset
  <2>3. s \subseteq T /\ H[s] # G[s]
    BY <2>2
  <2>4. H[s] = Of(f, T, H, s) /\ G[s] = Of(f, T, G, s)
    BY <1>5, <1>7, <2>3 DEF H
  <2>5. CASE s = {}
    BY <2>3, <2>4, <2>5 DEF Of
  <2>6. CASE s # {}
    <3> DEFINE p == CHOOSE p \in s : TRUE
    <3>1. p \in s /\ s \ {p} \subseteq T /\ s \ {p} \subseteq s /\ s \ {p} # s
      BY <1>4, <2>3, <2>6
    <3>2. H[s \ {p}] = G[s \ {p}]
      BY <2>2, <3>1
    <3> QED BY <2>3, <2>4, <2>6, <3>2 DEF Of
  <2> QED BY <2>5, <2>6
<1>9. Total(f, T) = Value(T)
  <2> HIDE DEF Value
  <2>1. Total(f, T) = G[T]
    BY <1>8, TotalSumming, Zenon
  <2> QED BY <2>1
<1> QED BY <1>2, <1>9 DEF Unfolds

\* A sum of natural numbers is one.
LEMMA TotalIsNat ==
  ASSUME NEW f, NEW S, IsFiniteSet(S), \A p \in S : f[p] \in Nat
  PROVE  Total(f, S) \in Nat
<1> SUFFICES ASSUME Total(f, S) \notin Nat PROVE FALSE
  OBVIOUS
<1> DEFINE A == {s \in SUBSET S : Total(f, s) \notin Nat}
<1>1. PICK T \in A : \A t \in A : ~ (t \subseteq T /\ t # T)
  <2>1. A \subseteq SUBSET S /\ A # {}
    OBVIOUS
  <2> HIDE DEF A
  <2> QED BY <2>1, SmallestSubset
<1>2. T \subseteq S /\ Total(f, T) \notin Nat /\ Unfolds(f, T)
  BY <1>1, FS_Subset, TotalUnfolds
<1>3. CASE T = {}
  BY <1>2, <1>3 DEF Unfolds
<1>4. CASE T # {}
  <2> DEFINE p == CHOOSE p \in T : TRUE
  <2>1. p \in T /\ T \ {p} \subseteq T /\ T \ {p} # T
    BY <1>4
  <2>2. Total(f, T \ {p}) \in Nat
    BY <1>1, <1>2, <2>1
  <2>3. f[p] \in Nat
    BY <1>2, <2>1
  <2>4. Total(f, T) = f[p] + Total(f, T \ {p})
    BY <1>2, <1>4 DEF Unfolds
  <2> HIDE DEF p
  <2> QED BY <1>2, <2>2, <2>3, <2>4
<1> QED BY <1>3, <1>4

\* The sum does not depend on the order of the payments: any of them may be
\* taken out first.
LEMMA TotalWithout ==
  ASSUME NEW f, NEW S, IsFiniteSet(S), \A p \in S : f[p] \in Nat, NEW x \in S
  PROVE  Total(f, S) = f[x] + Total(f, S \ {x})
<1> DEFINE AnyFirst(s) == \A y \in s : Total(f, s) = f[y] + Total(f, s \ {y})
           A == {s \in SUBSET S : ~AnyFirst(s)}
<1> SUFFICES ASSUME A # {} PROVE FALSE
  OBVIOUS
<1>1. PICK T \in A : \A t \in A : ~ (t \subseteq T /\ t # T)
  <2>1. A \subseteq SUBSET S
    OBVIOUS
  <2> HIDE DEF A
  <2> QED BY <2>1, SmallestSubset
<1>2. T \subseteq S /\ ~AnyFirst(T) /\ IsFiniteSet(T)
  BY <1>1, FS_Subset
<1>3. PICK y \in T : Total(f, T) # f[y] + Total(f, T \ {y})
  BY <1>2
<1>4. ASSUME NEW t, t \subseteq T, t # T PROVE AnyFirst(t)
  BY <1>1, <1>2, <1>4
<1> HIDE DEF A
<1> DEFINE p == CHOOSE p \in T : TRUE
<1>5. p \in T
  BY <1>3
<1>6. Total(f, T) = f[p] + Total(f, T \ {p})
  BY <1>2, <1>3, TotalUnfolds DEF Unfolds
<1> HIDE DEF p
<1>7. p # y
  BY <1>3, <1>6
<1>8. AnyFirst(T \ {p}) /\ AnyFirst(T \ {y})
  BY <1>3, <1>4, <1>5
<1>9. /\ Total(f, T \ {p}) = f[y] + Total(f, (T \ {p}) \ {y})
      /\ Total(f, T \ {y}) = f[p] + Total(f, (T \ {y}) \ {p})
  BY <1>3, <1>5, <1>7, <1>8
<1>10. (T \ {p}) \ {y} = (T \ {y}) \ {p}
  OBVIOUS
<1>11. /\ f[p] \in Nat /\ f[y] \in Nat
       /\ Total(f, (T \ {p}) \ {y}) \in Nat
  <2>1. (T \ {p}) \ {y} \subseteq S
    BY <1>2
  <2>2. IsFiniteSet((T \ {p}) \ {y})
    BY <2>1, FS_Subset
  <2>3. Total(f, (T \ {p}) \ {y}) \in Nat
    BY <2>1, <2>2, TotalIsNat
  <2> QED BY <1>2, <1>3, <1>5, <2>3
<1> DEFINE rest == Total(f, (T \ {p}) \ {y})
<1>12. /\ Total(f, T) = f[p] + (f[y] + rest)
       /\ Total(f, T \ {y}) = f[p] + rest
  BY <1>6, <1>9, <1>10, Zenon
<1>13. rest \in Nat
  BY <1>11
<1> HIDE DEF rest
<1> QED BY <1>3, <1>11, <1>12, <1>13

\* A payment that was not among them adds its amount.
LEMMA TotalAdds ==
  ASSUME NEW f, NEW S, IsFiniteSet(S), NEW x, x \notin S,
         \A p \in S \cup {x} : f[p] \in Nat
  PROVE  /\ Total(f, S \cup {x}) = Total(f, S) + f[x]
         /\ Total(f, S) \in Nat
<1>1. IsFiniteSet(S \cup {x}) /\ (S \cup {x}) \ {x} = S /\ x \in S \cup {x}
  BY FS_AddElement
<1>2. Total(f, S \cup {x}) = f[x] + Total(f, (S \cup {x}) \ {x})
  BY <1>1, TotalWithout
<1>3. Total(f, S) \in Nat /\ f[x] \in Nat
  BY TotalIsNat
<1>4. Total(f, S \cup {x}) = f[x] + Total(f, S)
  BY <1>1, <1>2, Zenon
<1> QED BY <1>3, <1>4

-----------------------------------------------------------------------------
\* Credited payments: no more than was recorded.

\* What the callback has recorded on an invoice and is about to add to it.
Pending(n) == IF worker.pc = "recorded" /\ Current.note = n THEN Current.amount ELSE 0

\* What an invoice was credited with and is about to be is covered by the
\* payments on it.
BackedOK ==
    /\ IsFiniteSet(payments)
    /\ \A n \in Notes : paid[n] + Pending(n) <= Total(AmountOf, PaymentsOn(n))

\* The terms of BackedOK are numbers.
LEMMA SumsAreNat ==
  ASSUME TypeOK, QueueOK, IsFiniteSet(payments), NEW n \in Notes
  PROVE  /\ paid[n] \in Nat /\ Pending(n) \in Nat
         /\ IsFiniteSet(PaymentsOn(n)) /\ Total(AmountOf, PaymentsOn(n)) \in Nat
         /\ \A p \in PaymentsOn(n) : AmountOf[p] \in Nat
<1>1. PaymentsOn(n) \subseteq payments /\ IsFiniteSet(PaymentsOn(n))
  BY FS_Subset DEF PaymentsOn
<1>2. ASSUME NEW p \in payments PROVE AmountOf[p] \in Nat
  BY RowAmount DEF TypeOK
<1>3. Total(AmountOf, PaymentsOn(n)) \in Nat
  BY <1>1, <1>2, TotalIsNat
<1>4. Pending(n) \in Nat
  BY WorkerFields, CommandFields DEF Pending, Free
<1> QED BY <1>1, <1>2, <1>3, <1>4 DEF TypeOK

\* The sum of the next state is that of the payments it has.
LEMMA NextSum ==
  ASSUME NEW n \in Notes
  PROVE  Total(AmountOf, PaymentsOn(n))' = Total(AmountOf, PaymentsOn(n)')
  BY DEF Total, SumFunctionOnSet, FoldFunctionOnSet, MapThenFoldSet

\* A step that leaves the books alone, and at most drops what was pending.
LEMMA BackedStays ==
  ASSUME IInv, BackedOK, UNCHANGED <<paid, payments>>,
         \A n \in Notes : Pending(n)' \in {0, Pending(n)}
  PROVE  BackedOK'
<1>1. ASSUME NEW n \in Notes PROVE (paid[n] + Pending(n) <= Total(AmountOf, PaymentsOn(n)))'
  <2>1. PaymentsOn(n)' = PaymentsOn(n)
    BY DEF PaymentsOn
  <2>2. /\ paid[n] \in Nat /\ Pending(n) \in Nat /\ Total(AmountOf, PaymentsOn(n)) \in Nat
        /\ paid[n] + Pending(n) <= Total(AmountOf, PaymentsOn(n))
    BY SumsAreNat DEF IInv, BackedOK
  <2>3. Total(AmountOf, PaymentsOn(n))' = Total(AmountOf, PaymentsOn(n))
    BY <2>1, NextSum, Zenon
  <2>4. paid'[n] = paid[n] /\ Pending(n)' \in {0, Pending(n)}
    OBVIOUS
  <2>5. paid[n] + Pending(n)' <= Total(AmountOf, PaymentsOn(n))
    BY <2>2, <2>4
  <2> QED BY <2>3, <2>4, <2>5
<1> QED BY <1>1 DEF BackedOK

\* The payment that is recorded raises the sum of its invoice by what becomes
\* pending.
LEMMA BackedRecord ==
  ASSUME IInv, BackedOK, Record
  PROVE  BackedOK'
<1> DEFINE c == Current
           row == RowOf(c)
<1>1. /\ worker.pc = "checked" /\ worker # Free /\ c \in Command
      /\ UNCHANGED <<paid, messages>>
  BY Recording DEF queueVars, Free
<1>2. \A n \in Notes : Pending(n) = 0
  BY <1>1 DEF Pending
<1>3. CASE ~Inserted(c)
  <2>1. UNCHANGED payments /\ worker'.pc # "recorded"
    BY <1>3, Recording DEF Free
  <2>2. \A n \in Notes : Pending(n)' \in {0, Pending(n)}
    BY <2>1 DEF Pending
  <2> QED BY <1>1, <2>1, <2>2, BackedStays
<1>4. CASE Inserted(c)
  <2>1. /\ payments' = payments \cup {row} /\ row \notin payments
        /\ worker' = [worker EXCEPT !.pc = "recorded"]
        /\ row.command = c /\ c.note \in Notes /\ c.amount \in Nat
    BY <1>1, <1>4, Recording, CommandFields DEF Inserted, RowOf
  <2>5. AmountOf[row] = c.amount
    <3>1. row \in Row
      BY <1>1, CommandFields DEF RowOf, Row
    <3> QED BY <2>1, <3>1, RowAmount
  <2>2. worker'.pc = "recorded" /\ Current' = c
    <3>1. worker \in Busy
      BY <1>1, WorkerFields DEF IInv
    <3> QED BY <1>1, <2>1, <3>1 DEF Busy, Current
  <2> HIDE DEF c, row
  <2>3. IsFiniteSet(payments')
    BY <2>1, FS_AddElement DEF BackedOK
  <2>4. ASSUME NEW n \in Notes PROVE (paid[n] + Pending(n) <= Total(AmountOf, PaymentsOn(n)))'
    <3>1. /\ paid[n] \in Nat /\ Total(AmountOf, PaymentsOn(n)) \in Nat /\ IsFiniteSet(PaymentsOn(n))
          /\ \A p \in PaymentsOn(n) : AmountOf[p] \in Nat
          /\ paid[n] + 0 <= Total(AmountOf, PaymentsOn(n))
      BY <1>2, SumsAreNat DEF IInv, BackedOK
    <3>2. CASE n = c.note
      <4>1. PaymentsOn(n)' = PaymentsOn(n) \cup {row}
        BY <2>1, <3>2 DEF PaymentsOn
      <4>2. row \notin PaymentsOn(n)
        BY <2>1 DEF PaymentsOn
      <4>3. Total(AmountOf, PaymentsOn(n) \cup {row}) = Total(AmountOf, PaymentsOn(n)) + c.amount
        BY <2>1, <2>5, <3>1, <4>2, TotalAdds
      <4>4. Total(AmountOf, PaymentsOn(n))' = Total(AmountOf, PaymentsOn(n)) + c.amount
        BY <4>1, <4>3, NextSum, Zenon
      <4>5. Pending(n)' = c.amount
        BY <2>2, <3>2 DEF Pending
      <4>6. paid'[n] = paid[n]
        BY <1>1
      <4> QED BY <2>1, <3>1, <4>4, <4>5, <4>6
    <3>3. CASE n # c.note
      <4>1. PaymentsOn(n)' = PaymentsOn(n)
        BY <2>1, <3>3 DEF PaymentsOn
      <4>2. Total(AmountOf, PaymentsOn(n))' = Total(AmountOf, PaymentsOn(n))
        BY <4>1, NextSum, Zenon
      <4>3. Pending(n)' = 0 /\ paid'[n] = paid[n]
        BY <1>1, <2>2, <3>3 DEF Pending
      <4> QED BY <3>1, <4>2, <4>3
    <3> QED BY <3>2, <3>3
  <2> QED BY <2>3, <2>4 DEF BackedOK
<1> QED BY <1>3, <1>4

\* What is credited was pending.
LEMMA BackedApply ==
  ASSUME IInv, BackedOK, Apply
  PROVE  BackedOK'
<1> DEFINE c == Current
<1>1. /\ worker.pc = "recorded" /\ worker'.pc # "recorded" /\ UNCHANGED payments
      /\ paid' = [paid EXCEPT ![c.note] = @ + c.amount]
      /\ c.note \in Notes /\ c.amount \in Nat
  BY Applying, CommandFields DEF Free
<1>2. ASSUME NEW n \in Notes PROVE (paid[n] + Pending(n) <= Total(AmountOf, PaymentsOn(n)))'
  <2>1. /\ paid[n] \in Nat /\ Total(AmountOf, PaymentsOn(n)) \in Nat
        /\ paid[n] + Pending(n) <= Total(AmountOf, PaymentsOn(n))
    BY SumsAreNat DEF IInv, BackedOK
  <2>2. PaymentsOn(n)' = PaymentsOn(n)
    BY <1>1 DEF PaymentsOn
  <2>3. Total(AmountOf, PaymentsOn(n))' = Total(AmountOf, PaymentsOn(n))
    BY <2>2, NextSum, Zenon
  <2>4. Pending(n)' = 0
    BY <1>1 DEF Pending
  <2>5. paid \in [Notes -> Nat]
    BY DEF IInv, TypeOK
  <2>6. CASE n = c.note
    <3>1. Pending(n) = c.amount /\ paid'[n] = paid[n] + c.amount
      BY <1>1, <2>5, <2>6 DEF Pending
    <3> HIDE DEF c
    <3> QED BY <1>1, <2>1, <2>3, <2>4, <3>1
  <2>7. CASE n # c.note
    <3>1. Pending(n) = 0 /\ paid'[n] = paid[n]
      BY <1>1, <2>5, <2>7 DEF Pending
    <3> QED BY <2>1, <2>3, <2>4, <3>1
  <2> QED BY <2>6, <2>7
<1> QED BY <1>1, <1>2 DEF BackedOK

LEMMA BackedNext ==
  ASSUME IInv, BackedOK, [Next]_vars
  PROVE  BackedOK'
<1>1. ASSUME UNCHANGED <<paid, payments>>,
             worker'.pc = "recorded" => worker.pc = "recorded" /\ Current' = Current
      PROVE  BackedOK'
  <2>1. ASSUME NEW n \in Notes PROVE Pending(n)' \in {0, Pending(n)}
    BY <1>1 DEF Pending
  <2> QED BY <1>1, <2>1, BackedStays
<1>2. CASE \/ \E n \in Notes : KeepInternal(n) \/ ChargeCustomer(n)
           \/ \E T \in SUBSET Notes : FinishTask(T)
           \/ \E m \in Positions : Redeliver(m)
           \/ UNCHANGED vars
  BY <1>1, <1>2 DEF KeepInternal, ChargeCustomer, FinishTask, Redeliver, vars, bookVars,
                    queueVars, Current
<1>3. ASSUME NEW c \in Command, Send(c) PROVE BackedOK'
  <2>1. /\ messages \in Seq(Command) /\ messages' = Append(messages, c)
        /\ UNCHANGED <<paid, payments, worker>>
    BY <1>3 DEF Send, bookVars, IInv, TypeOK
  <2>2. worker.pc = "recorded" => worker.position \in 1 .. Len(messages)
    <3>1. worker.pc = "recorded" => worker # Free
      BY DEF Free
    <3>2. worker # Free => worker.position \in Positions /\ worker.position <= Len(messages)
      BY WorkerFields DEF IInv, QueueOK
    <3> QED BY <2>1, <3>1, <3>2 DEF Positions
  <2> QED BY <1>1, <2>1, <2>2 DEF Current
<1>4. ASSUME NEW m \in Positions, Take(m) PROVE BackedOK'
  <2>1. /\ UNCHANGED <<paid, payments>>
        /\ worker' = [pc |-> "checked", position |-> m] \/ worker' = Free
    BY <1>4, Zenon DEF Take, End, bookVars
  <2>2. worker'.pc # "recorded"
    BY <2>1 DEF Free
  <2> QED BY <1>1, <2>1, <2>2
<1>5. CASE Fail \/ Crash
  <2>1. UNCHANGED <<paid, payments>> /\ worker' = Free
    BY <1>5 DEF Fail, Crash, End, bookVars
  <2> QED BY <1>1, <2>1 DEF Free
<1> QED BY <1>2, <1>3, <1>4, <1>5, BackedRecord, BackedApply DEF Next

LEMMA BackedInit == Init => BackedOK
<1> SUFFICES ASSUME Init PROVE BackedOK
  OBVIOUS
<1>1. IsFiniteSet({}) /\ payments = {}
  BY FS_EmptySet DEF Init
<1>2. ASSUME NEW n \in Notes PROVE paid[n] + Pending(n) <= Total(AmountOf, PaymentsOn(n))
  <2>1. PaymentsOn(n) = {}
    BY <1>1 DEF PaymentsOn
  <2>2. Total(AmountOf, {}) = 0
    BY <1>1, TotalUnfolds DEF Unfolds
  <2>3. Total(AmountOf, PaymentsOn(n)) = 0
    BY <2>1, <2>2, Zenon
  <2>4. paid[n] = 0 /\ Pending(n) = 0
    BY DEF Init, Pending, Free
  <2> QED BY <2>3, <2>4
<1> QED BY <1>1, <1>2 DEF BackedOK

\* However messages are redelivered, repeated or interrupted between the two
\* transactions of a payment, no invoice is ever credited with more than the
\* payments recorded on it.
THEOREM PaidBacked == Spec => []PaidIsBacked
<1>1. IInv /\ BackedOK => PaidIsBacked
  <2> SUFFICES ASSUME IInv, BackedOK, NEW n \in Notes
               PROVE  paid[n] <= Total(AmountOf, PaymentsOn(n))
    BY DEF PaidIsBacked, Total
  <2>1. /\ paid[n] \in Nat /\ Pending(n) \in Nat /\ Total(AmountOf, PaymentsOn(n)) \in Nat
        /\ paid[n] + Pending(n) <= Total(AmountOf, PaymentsOn(n))
    BY SumsAreNat DEF IInv, BackedOK
  <2> QED BY <2>1
<1>2. Spec => []BackedOK
  BY BackedInit, BackedNext, Invariance, PTL DEF Spec
<1> QED BY <1>1, <1>2, Invariance, PTL

-----------------------------------------------------------------------------
\* The ledger of an invoice.

\* What the ledger has of an invoice.
Booked(n) == Total(EntryAmount, EntriesOf(n))

\* The ledger follows the invoices, and what the callback is about to apply was
\* not applied before.
LedgerOK ==
    /\ IsFiniteSet(receivable)
    /\ worker.pc = "recorded" => Current.ref \notin credited
    /\ \A n \in Notes : /\ Booked(n) <= paid[n]
                        /\ Booked(n) = paid[n] \/ SharesEntry(n)

\* The terms of LedgerOK are numbers.
LEMMA BookedIsNat ==
  ASSUME TypeOK, IsFiniteSet(receivable), NEW n \in Notes
  PROVE  /\ paid[n] \in Nat /\ Booked(n) \in Nat /\ IsFiniteSet(EntriesOf(n))
         /\ \A e \in EntriesOf(n) : EntryAmount[e] \in Nat
<1>1. EntriesOf(n) \subseteq receivable /\ IsFiniteSet(EntriesOf(n))
  BY FS_Subset DEF EntriesOf
<1>2. ASSUME NEW e \in Entry PROVE EntryAmount[e] \in Nat
  BY PaymentsAssumption DEF EntryAmount, Entry
<1>3. \A e \in EntriesOf(n) : EntryAmount[e] \in Nat
  BY <1>1, <1>2 DEF TypeOK
<1>4. Total(EntryAmount, EntriesOf(n)) \in Nat
  BY <1>1, <1>3, TotalIsNat
<1> QED BY <1>1, <1>3, <1>4 DEF TypeOK, Booked

\* What is booked in the next state is the sum of the rows it has.
LEMMA NextBooked ==
  ASSUME NEW n \in Notes
  PROVE  Booked(n)' = Total(EntryAmount, EntriesOf(n)')
  BY DEF Booked, Total, SumFunctionOnSet, FoldFunctionOnSet, MapThenFoldSet

\* Payments that share a row go on to.
LEMMA SharingStays ==
  ASSUME payments \subseteq payments', credited \subseteq credited',
         NEW n \in Notes, SharesEntry(n)
  PROVE  SharesEntry(n)'
  BY DEF SharesEntry, PaymentsOn

\* A step that leaves the books alone.
LEMMA LedgerStays ==
  ASSUME LedgerOK, UNCHANGED <<receivable, paid, credited>>, payments \subseteq payments',
         worker'.pc = "recorded" => Current'.ref \notin credited
  PROVE  LedgerOK'
<1>1. ASSUME NEW n \in Notes
      PROVE  (Booked(n) <= paid[n])' /\ (Booked(n) = paid[n] \/ SharesEntry(n))'
  <2>1. EntriesOf(n)' = EntriesOf(n)
    BY DEF EntriesOf
  <2>2. Booked(n)' = Booked(n)
    BY <2>1, NextBooked, Zenon DEF Booked
  <2>3. Booked(n) <= paid[n] /\ (Booked(n) = paid[n] \/ SharesEntry(n))
    BY DEF LedgerOK
  <2> QED BY <2>2, <2>3, SharingStays
<1> QED BY <1>1 DEF LedgerOK

\* A payment that is applied adds its amount to the ledger too, unless a payment
\* of that amount has its row already.
LEMMA LedgerApply ==
  ASSUME IInv, LedgerOK, Apply
  PROVE  LedgerOK'
<1> DEFINE c == Current
           row == RowOf(c)
           entry == <<c.note, c.amount>>
<1>1. /\ worker.pc = "recorded" /\ worker'.pc # "recorded"
      /\ row \in payments /\ row.id = c.ref /\ row.command = c
      /\ c.note \in Notes /\ c.amount \in Amounts /\ c.amount \in Nat
      /\ paid' = [paid EXCEPT ![c.note] = @ + c.amount]
      /\ receivable' = receivable \cup {entry}
      /\ credited' = credited \cup {c.ref}
      /\ UNCHANGED payments
  BY Applying, CommandFields DEF Free, RowOf
<1>2. c.ref \notin credited
  BY <1>1 DEF LedgerOK
<1>3. entry[1] = c.note /\ entry[2] = c.amount /\ entry \in Entry /\ EntryAmount[entry] = c.amount
  BY <1>1 DEF Entry, EntryAmount
<1> HIDE DEF c, row, entry
<1>4. IsFiniteSet(receivable')
  BY <1>1, FS_AddElement DEF LedgerOK
<1>5. ASSUME NEW n \in Notes
      PROVE  (Booked(n) <= paid[n])' /\ (Booked(n) = paid[n] \/ SharesEntry(n))'
  <2>1. /\ paid[n] \in Nat /\ Booked(n) \in Nat /\ IsFiniteSet(EntriesOf(n))
        /\ \A e \in EntriesOf(n) : EntryAmount[e] \in Nat
    BY BookedIsNat DEF IInv, LedgerOK
  <2>2. Booked(n) <= paid[n] /\ (Booked(n) = paid[n] \/ SharesEntry(n))
    BY DEF LedgerOK
  <2>3. SharesEntry(n) => SharesEntry(n)'
    BY <1>1, SharingStays
  <2>4. paid \in [Notes -> Nat]
    BY DEF IInv, TypeOK
  <2>5. CASE n # c.note
    <3>1. EntriesOf(n)' = EntriesOf(n)
      BY <1>1, <1>3, <2>5 DEF EntriesOf
    <3>2. Booked(n)' = Booked(n)
      BY <3>1, NextBooked, Zenon DEF Booked
    <3>3. paid'[n] = paid[n]
      BY <1>1, <2>4, <2>5
    <3> QED BY <2>2, <2>3, <3>2, <3>3
  <2>6. CASE n = c.note /\ entry \in receivable
    <3>1. EntriesOf(n)' = EntriesOf(n)
      BY <1>1, <2>6 DEF EntriesOf
    <3>2. Booked(n)' = Booked(n)
      BY <3>1, NextBooked, Zenon DEF Booked
    <3>3. paid'[n] = paid[n] + c.amount
      BY <1>1, <2>4, <2>6
    <3>4. PICK p \in PaymentsOn(n) : p.id \in credited /\ p.command.amount = c.amount
      BY <1>3, <2>6 DEF IInv, EntriesCredited
    <3>5. p # row /\ row \in PaymentsOn(n)
      BY <1>1, <1>2, <2>6, <3>4 DEF PaymentsOn
    <3>6. SharesEntry(n)'
      BY <1>1, <3>4, <3>5 DEF SharesEntry, PaymentsOn
    <3> QED BY <1>1, <2>1, <2>2, <3>2, <3>3, <3>6
  <2>7. CASE n = c.note /\ entry \notin receivable
    <3>1. EntriesOf(n)' = EntriesOf(n) \cup {entry} /\ entry \notin EntriesOf(n)
      BY <1>1, <1>3, <2>7 DEF EntriesOf
    <3>2. Total(EntryAmount, EntriesOf(n) \cup {entry})
              = Total(EntryAmount, EntriesOf(n)) + EntryAmount[entry]
      BY <1>1, <1>3, <2>1, <3>1, TotalAdds
    <3>3. Booked(n)' = Booked(n) + c.amount
      BY <1>3, <3>1, <3>2, NextBooked, Zenon DEF Booked
    <3>4. paid'[n] = paid[n] + c.amount
      BY <1>1, <2>4, <2>7
    <3> QED BY <1>1, <2>1, <2>2, <2>3, <3>3, <3>4
  <2> QED BY <2>5, <2>6, <2>7
<1> QED BY <1>1, <1>4, <1>5 DEF LedgerOK

LEMMA LedgerNext ==
  ASSUME IInv, LedgerOK, [Next]_vars
  PROVE  LedgerOK'
<1>1. ASSUME UNCHANGED <<receivable, paid, credited, payments>>,
             worker'.pc = "recorded" => worker.pc = "recorded" /\ Current' = Current
      PROVE  LedgerOK'
  <2>1. worker'.pc = "recorded" => Current'.ref \notin credited
    BY <1>1 DEF LedgerOK
  <2> QED BY <1>1, <2>1, LedgerStays
<1>2. CASE \/ \E n \in Notes : KeepInternal(n) \/ ChargeCustomer(n)
           \/ \E T \in SUBSET Notes : FinishTask(T)
           \/ \E m \in Positions : Redeliver(m)
           \/ UNCHANGED vars
  BY <1>1, <1>2 DEF KeepInternal, ChargeCustomer, FinishTask, Redeliver, vars, bookVars,
                    queueVars, Current
<1>3. ASSUME NEW c \in Command, Send(c) PROVE LedgerOK'
  <2>1. /\ messages \in Seq(Command) /\ messages' = Append(messages, c)
        /\ UNCHANGED <<receivable, paid, credited, payments, worker>>
    BY <1>3 DEF Send, bookVars, IInv, TypeOK
  <2>2. worker.pc = "recorded" => worker.position \in 1 .. Len(messages)
    <3>1. worker.pc = "recorded" => worker # Free
      BY DEF Free
    <3>2. worker # Free => worker.position \in Positions /\ worker.position <= Len(messages)
      BY WorkerFields DEF IInv, QueueOK
    <3> QED BY <2>1, <3>1, <3>2 DEF Positions
  <2> QED BY <1>1, <2>1, <2>2 DEF Current
<1>4. ASSUME NEW m \in Positions, Take(m) PROVE LedgerOK'
  <2>1. /\ UNCHANGED <<receivable, paid, credited, payments>>
        /\ worker' = [pc |-> "checked", position |-> m] \/ worker' = Free
    BY <1>4, Zenon DEF Take, End, bookVars
  <2>2. worker'.pc # "recorded"
    BY <2>1 DEF Free
  <2> QED BY <1>1, <2>1, <2>2
<1>5. CASE Fail \/ Crash
  <2>1. UNCHANGED <<receivable, paid, credited, payments>> /\ worker' = Free
    BY <1>5 DEF Fail, Crash, End, bookVars
  <2> QED BY <1>1, <2>1 DEF Free
<1>6. CASE Record
  <2>1. UNCHANGED <<receivable, paid, credited>> /\ payments \subseteq payments'
    BY <1>6, Recording
  <2>2. worker'.pc = "recorded" => Current'.ref \notin credited
    <3> SUFFICES ASSUME worker'.pc = "recorded" PROVE Current'.ref \notin credited
      OBVIOUS
    <3>1. /\ worker.pc = "checked" /\ worker # Free /\ Current \in Command
          /\ Inserted(Current) /\ worker' = [worker EXCEPT !.pc = "recorded"]
          /\ UNCHANGED messages
      BY <1>6, Recording DEF Free, queueVars
    <3>2. Current.ref \notin credited
      BY <3>1, InsertedIsNew DEF IInv
    <3>3. worker \in Busy
      BY <3>1, WorkerFields DEF IInv
    <3>4. Current' = Current
      BY <3>1, <3>3 DEF Busy, Current
    <3> QED BY <3>2, <3>4
  <2> QED BY <2>1, <2>2, LedgerStays
<1> QED BY <1>2, <1>3, <1>4, <1>5, <1>6, LedgerApply DEF Next

LEMMA LedgerInit == Init => LedgerOK
<1> SUFFICES ASSUME Init PROVE LedgerOK
  OBVIOUS
<1>1. IsFiniteSet({}) /\ receivable = {} /\ worker.pc # "recorded"
  BY FS_EmptySet DEF Init, Free
<1>2. ASSUME NEW n \in Notes PROVE Booked(n) = 0 /\ paid[n] = 0
  <2>1. EntriesOf(n) = {}
    BY <1>1 DEF EntriesOf
  <2>2. Total(EntryAmount, {}) = 0
    BY <1>1, TotalUnfolds DEF Unfolds
  <2>3. Booked(n) = 0
    BY <2>1, <2>2, Zenon DEF Booked
  <2> QED BY <2>3 DEF Init
<1> QED BY <1>1, <1>2 DEF LedgerOK

\* ApplyPaymentTransaction writes the ledger with the invoice.  The receivable
\* rows of an invoice never sum to more than was credited to it, and to less only
\* where two credited payments of one amount share their row.
THEOREM LedgerFollowsInvoices == Spec => []LedgerMatchesInvoices
<1>1. LedgerOK => LedgerMatchesInvoices
  BY DEF LedgerOK, LedgerMatchesInvoices, Booked, Total
<1>2. Spec => []LedgerOK
  BY LedgerInit, LedgerNext, Invariance, PTL DEF Spec
<1> QED BY <1>1, <1>2, PTL

=============================================================================
