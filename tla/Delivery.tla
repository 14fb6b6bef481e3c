------------------------------ MODULE Delivery ------------------------------
(***************************************************************************)
(* From a committed outbox row to a business operation: the table          *)
(* outbox_events and its publisher, the JetStream stream with its durable  *)
(* consumer, and the worker that claims a delivery in inbox_messages, runs *)
(* the operation, completes the inbox row and acknowledges.                *)
(*                                                                         *)
(* The three consumers of the program claim, complete and acknowledge with *)
(* the same code over disjoint streams; one is modelled.  Their branches   *)
(* differ in what follows a failed operation: msg.Term, msg.Nak, or, where *)
(* the branch drops the error, the same as a success.  JetStream itself is *)
(* external: it is modelled from the stream and consumer configuration and *)
(* the calls of the code.                                                  *)
(***************************************************************************)
EXTENDS Integers, FiniteSets, SequencesExt

CONSTANTS
    Events,      \* outbox row ids, which are also the Nats-Msg-Ids
    Dropping,    \* those whose command is of a branch that drops the error of
                 \* its operation: creating an item, a customer or a task,
                 \* moving a task
    BatchSize,   \* rows of one publisher pass (25 in the code)
    MaxDeliver,  \* deliveries of one stored message (5 in the code)
    MaxStored,   \* bound: messages ever stored by the stream
    MaxFaults    \* bound: failed calls, lost replies, crashes, expired windows

ASSUME DeliveryAssumption ==
    /\ Dropping \subseteq Events
    /\ BatchSize \in Nat \ {0}
    /\ MaxDeliver \in Nat \ {0}
    /\ MaxStored \in Nat
    /\ MaxFaults \in Nat

Positions == 1 .. MaxStored

VARIABLES
    rows,        \* outbox_events in the order of created_at
    published,   \* rows with status PUBLISHED; the others are PENDING
    deferred,    \* PENDING rows whose next_attempt_at is in the future
    batch,       \* places of the rows the publisher has read and not dealt with
    sent,        \* whether the oldest of them was accepted by JetStream
    stream,      \* messages stored by the stream, in order
    window,      \* ids the stream still deduplicates
    due,         \* positions of the stream waiting to be delivered
    deliveries,  \* deliveries made of each position
    settled,     \* positions acknowledged ("acked") or terminated ("termed")
    buffer,      \* positions delivered to the client, not yet handled
    worker,      \* the delivery the consumer callback is handling
    inbox,       \* inbox_messages by id
    runs,        \* history: business operations committed, by id
    faults       \* history: faults so far

outboxVars == <<rows, published, deferred>>
publisherVars == <<batch, sent>>
streamVars == <<stream, window, due, deliveries, settled>>
clientVars == <<buffer, worker>>
vars == <<outboxVars, publisherVars, streamVars, clientVars, inbox, runs, faults>>

\* "locked" and "stale" are PROCESSING rows whose locked_at is younger or
\* older than the five minutes (or NULL).
InboxStates == {"absent", "locked", "stale", "PROCESSED"}

\* The worker holds a position and whether it completes the inbox row, which
\* it does only if it claimed it.
Free == [pc |-> "free"]
Busy == [pc : {"claimed", "ran", "completed"}, position : Positions, owner : BOOLEAN]

TypeOK ==
    /\ rows       \in Seq(Events)
    /\ published  \in SUBSET Events
    /\ deferred   \in SUBSET Events
    /\ batch      \in SUBSET DOMAIN rows
    /\ sent       \in BOOLEAN
    /\ stream     \in Seq(Events)
    /\ Len(stream) <= MaxStored
    /\ window     \in SUBSET Events
    /\ due        \in SUBSET Positions
    /\ deliveries \in [Positions -> 0 .. MaxDeliver]
    /\ settled    \in [Positions -> {"open", "acked", "termed"}]
    /\ buffer     \in Seq(Positions)
    /\ worker     \in {Free} \cup Busy
    /\ inbox      \in [Events -> InboxStates]
    /\ runs       \in [Events -> Nat]
    /\ faults     \in 0 .. MaxFaults

Init ==
    /\ rows = <<>> /\ published = {} /\ deferred = {}
    /\ batch = {} /\ sent = FALSE
    /\ stream = <<>> /\ window = {} /\ due = {}
    /\ deliveries = [n \in Positions |-> 0]
    /\ settled = [n \in Positions |-> "open"]
    /\ buffer = <<>> /\ worker = Free
    /\ inbox = [e \in Events |-> "absent"]
    /\ runs = [e \in Events |-> 0]
    /\ faults = 0

Fault == faults < MaxFaults /\ faults' = faults + 1

-----------------------------------------------------------------------------
\* The outbox and its publisher.

\* A transaction commits a new row, due at once.
Commit(e) ==
    /\ e \notin ToSet(rows)
    /\ rows' = Append(rows, e)
    /\ UNCHANGED <<published, deferred, publisherVars, streamVars, clientVars,
                   inbox, runs, faults>>

\* Faulty variant: the limit is applied before the conditions.
EligibleInFirstRows ==
    {i \in DOMAIN rows : i <= BatchSize /\ rows[i] \notin published \cup deferred}

\* The WHERE of publishBatch: PENDING rows whose time has come.
Eligible == {i \in DOMAIN rows : rows[i] \notin published \cup deferred}

\* The SELECT of publishBatch: the oldest of them, up to the limit.
Poll ==
    /\ batch = {}
    /\ Eligible # {}
    /\ batch' = {i \in Eligible : Cardinality({j \in Eligible : j < i}) < BatchSize}
    /\ UNCHANGED <<outboxVars, sent, streamVars, clientVars, inbox, runs, faults>>

\* The row a pass is at: it goes through its rows from the oldest.
Current == rows[Min(batch)]

\* The rows that come after it.
Rest == batch \ {Min(batch)}

\* Faulty variant: the message carries no Nats-Msg-Id.
AcceptUnnamed(e) ==
    /\ Len(stream) < MaxStored
    /\ stream' = Append(stream, e)
    /\ due' = due \cup {Len(stream) + 1}
    /\ UNCHANGED window

\* JetStream accepts a message: an id inside the deduplication window is
\* acknowledged without being stored again.
Accept(e) ==
    IF e \in window
    THEN UNCHANGED <<stream, window, due>>
    ELSE /\ Len(stream) < MaxStored
         /\ stream' = Append(stream, e)
         /\ window' = window \cup {e}
         /\ due' = due \cup {Len(stream) + 1}

\* PublishMsg returns without error.
Publish ==
    /\ batch # {} /\ ~sent
    /\ Accept(Current)
    /\ sent' = TRUE
    /\ UNCHANGED <<outboxVars, batch, deliveries, settled, clientVars, inbox, runs, faults>>

\* PublishMsg returns an error, whether the message was stored and the reply
\* lost or it never arrived: the row is deferred, unless that UPDATE fails
\* too, and the pass continues.
PublishFails ==
    /\ batch # {} /\ ~sent
    /\ Fault
    /\ Accept(Current) \/ UNCHANGED <<stream, window, due>>
    /\ deferred' \in {deferred, deferred \cup ({Current} \ published)}
    /\ batch' = Rest
    /\ UNCHANGED <<rows, published, sent, deliveries, settled, clientVars, inbox, runs>>

\* Faulty variant: the row is marked whatever became of the publication.
SentOrNot == TRUE

\* A row is marked only once JetStream accepted its message.
Sent == sent

\* The UPDATE to PUBLISHED.
Mark ==
    /\ batch # {} /\ Sent
    /\ published' = published \cup {Current}
    /\ batch' = Rest
    /\ sent' = FALSE
    /\ UNCHANGED <<rows, deferred, streamVars, clientVars, inbox, runs, faults>>

\* The UPDATE to PUBLISHED fails: the row stays PENDING and due.
MarkFails ==
    /\ batch # {} /\ sent
    /\ Fault
    /\ batch' = Rest
    /\ sent' = FALSE
    /\ UNCHANGED <<outboxVars, streamVars, clientVars, inbox, runs>>

\* next_attempt_at is reached.
Retry(e) ==
    /\ e \in deferred
    /\ deferred' = deferred \ {e}
    /\ UNCHANGED <<rows, published, publisherVars, streamVars, clientVars, inbox, runs, faults>>

-----------------------------------------------------------------------------
\* JetStream.

\* The id of a message leaves the deduplication window (two minutes).
WindowExpires(e) ==
    /\ e \in window
    /\ Fault
    /\ window' = window \ {e}
    /\ UNCHANGED <<outboxVars, publisherVars, stream, due, deliveries, settled,
                   clientVars, inbox, runs>>

\* A stored message is delivered to the client, at most MaxDeliver times.
Deliver(n) ==
    /\ n \in due
    /\ deliveries[n] < MaxDeliver
    /\ due' = due \ {n}
    /\ deliveries' = [deliveries EXCEPT ![n] = @ + 1]
    /\ buffer' = Append(buffer, n)
    /\ UNCHANGED <<outboxVars, publisherVars, stream, window, settled, worker, inbox, runs, faults>>

\* The acknowledgement wait of a delivery ends: the position is due again,
\* even while an earlier delivery of it is still buffered or being handled.
AckWaitExpires(n) ==
    /\ deliveries[n] > 0
    /\ n \notin due
    /\ settled[n] = "open"
    /\ due' = due \cup {n}
    /\ UNCHANGED <<outboxVars, publisherVars, stream, window, deliveries, settled,
                   clientVars, inbox, runs, faults>>

-----------------------------------------------------------------------------
\* The consumer callback.

\* ClaimInbox: a new row, or a PROCESSING row whose lock is stale, is locked
\* and claimed.
Claims(e) == inbox[e] \in {"absent", "stale"}

\* claimInbox: a delivery that was not claimed is handled all the same, with
\* an acknowledgement that leaves the inbox row alone.
Take ==
    /\ worker = Free
    /\ buffer # <<>>
    /\ LET n == Head(buffer)
           e == stream[n]
       IN  /\ worker' = [pc |-> "claimed", position |-> n, owner |-> Claims(e)]
           /\ inbox' = IF Claims(e) THEN [inbox EXCEPT ![e] = "locked"] ELSE inbox
    /\ buffer' = Tail(buffer)
    /\ UNCHANGED <<outboxVars, publisherVars, streamVars, runs, faults>>

\* msg.Nak: the position is due again, unless it was settled.
Nak(n) ==
    /\ due' = IF settled[n] = "open" THEN due \cup {n} ELSE due
    /\ UNCHANGED settled

\* msg.Ack and msg.Term settle the position for good.
Settle(n, how) ==
    /\ settled' = [settled EXCEPT ![n] = IF @ = "open" THEN how ELSE @]
    /\ due' = due \ {n}

\* ClaimInbox returns an error.
TakeFails ==
    /\ worker = Free
    /\ buffer # <<>>
    /\ Fault
    /\ Nak(Head(buffer))
    /\ buffer' = Tail(buffer)
    /\ UNCHANGED <<outboxVars, publisherVars, stream, window, deliveries, worker, inbox, runs>>

\* The business transaction commits.
Run ==
    /\ worker.pc = "claimed"
    /\ runs' = [runs EXCEPT ![stream[worker.position]] = @ + 1]
    /\ worker' = [worker EXCEPT !.pc = "ran"]
    /\ UNCHANGED <<outboxVars, publisherVars, streamVars, buffer, inbox, faults>>

\* The business transaction fails in a branch that drops its error: the
\* callback goes on as if it had committed.
RunDropped ==
    /\ worker.pc = "claimed"
    /\ stream[worker.position] \in Dropping
    /\ Fault
    /\ worker' = [worker EXCEPT !.pc = "ran"]
    /\ UNCHANGED <<outboxVars, publisherVars, streamVars, buffer, inbox, runs>>

\* The command is malformed, forbidden or names something that does not
\* exist: msg.Term.  The inbox row stays as it is.
Refuse ==
    /\ worker.pc = "claimed"
    /\ Settle(worker.position, "termed")
    /\ worker' = Free
    /\ UNCHANGED <<outboxVars, publisherVars, stream, window, deliveries, buffer, inbox, runs, faults>>

\* Faulty variant: a status of its own for failures.
FailedStatus(e) == [inbox EXCEPT ![e] = "FAILED"]

\* FailInbox sets PROCESSING again and leaves locked_at, which is NULL once
\* the row was PROCESSED.
Failed(e) == IF inbox[e] = "PROCESSED" THEN [inbox EXCEPT ![e] = "stale"] ELSE inbox

\* The business transaction fails (the material branch): FailInbox, whose own
\* error is ignored, and msg.Nak.
RunFails ==
    /\ worker.pc = "claimed"
    /\ stream[worker.position] \notin Dropping
    /\ Fault
    /\ inbox' \in {inbox, Failed(stream[worker.position])}
    /\ Nak(worker.position)
    /\ worker' = Free
    /\ UNCHANGED <<outboxVars, publisherVars, stream, window, deliveries, buffer, runs>>

\* Faulty variant: the row is completed before the operation ran.
ReadyEarly == {"claimed", "ran"}

\* The states of the callback in which it completes the inbox row.
Ready == {"ran"}

\* An error of CompleteInbox is logged; the callback goes on to acknowledge.
Onward(ok) == "completed"

\* CompleteInbox by the delivery that claimed the row.
Complete ==
    /\ worker.pc \in Ready
    /\ worker.owner
    /\ \E ok \in BOOLEAN :
         /\ IF ok THEN /\ inbox' = [inbox EXCEPT ![stream[worker.position]] = "PROCESSED"]
                       /\ UNCHANGED faults
                  ELSE Fault /\ UNCHANGED inbox
         /\ worker' = [worker EXCEPT !.pc = Onward(ok)]
    /\ UNCHANGED <<outboxVars, publisherVars, streamVars, buffer, runs>>

\* Faulty variant: a delivery that was not claimed is never acknowledged.
AckReadyOwner == worker.pc = "completed"

\* The owner acknowledges after CompleteInbox, any other delivery at once.
AckReady == worker.pc = "completed" \/ (worker.pc = "ran" /\ ~worker.owner)

\* msg.Ack.
Acknowledge ==
    /\ AckReady
    /\ Settle(worker.position, "acked")
    /\ worker' = Free
    /\ UNCHANGED <<outboxVars, publisherVars, stream, window, deliveries, buffer, inbox, runs, faults>>

\* Five minutes pass since a row was locked.
LockExpires(e) ==
    /\ inbox[e] = "locked"
    /\ inbox' = [inbox EXCEPT ![e] = "stale"]
    /\ UNCHANGED <<outboxVars, publisherVars, streamVars, clientVars, runs, faults>>

-----------------------------------------------------------------------------

\* The process stops and starts again: PostgreSQL and the stream are durable,
\* the publisher's batch, the client's buffer and the callback are not.
Crash ==
    /\ batch # {} \/ buffer # <<>> \/ worker # Free
    /\ Fault
    /\ batch' = {} /\ sent' = FALSE
    /\ buffer' = <<>> /\ worker' = Free
    /\ UNCHANGED <<outboxVars, streamVars, inbox, runs>>

PublisherNext == Poll \/ Publish \/ PublishFails \/ Mark \/ MarkFails

WorkerNext ==
    \/ Take \/ TakeFails
    \/ Run \/ RunDropped \/ Refuse \/ RunFails
    \/ Complete \/ Acknowledge

\* Every step but the one of the transaction that commits a row.
Transport ==
    \/ PublisherNext
    \/ WorkerNext
    \/ \E e \in Events : Retry(e) \/ WindowExpires(e) \/ LockExpires(e)
    \/ \E n \in Positions : Deliver(n) \/ AckWaitExpires(n)
    \/ Crash

Next == (\E e \in Events : Commit(e)) \/ Transport

\* The publisher's ticker, the timers and the consumer callback are goroutines
\* and server loops that the scheduler runs; faults are bounded, so they are
\* not for ever.
Fairness ==
    /\ WF_vars(PublisherNext)
    /\ WF_vars(WorkerNext)
    /\ \A e \in Events : WF_vars(Retry(e))
    /\ \A n \in Positions : WF_vars(Deliver(n)) /\ WF_vars(AckWaitExpires(n))

Spec == Init /\ [][Next]_vars
FairSpec == Spec /\ Fairness

-----------------------------------------------------------------------------

\* Copies of an event that the stream holds.
Copies(e) == {n \in 1 .. Len(stream) : stream[n] = e}

\* OUTBOX_INBOX.md: "Unpublished rows remain durable until successfully
\* delivered".  Through lost replies, failed updates and crashes, no row is
\* PUBLISHED, and the publisher is not about to mark one, unless the stream
\* holds its message.
PublishedIsStored ==
    /\ published \subseteq ToSet(stream)
    /\ sent => batch # {} /\ Current \in ToSet(stream)

\* The events that will not run any more, as the tables have it, but never ran:
\* the inbox row is PROCESSED, or a delivery was acknowledged.
Lost ==
    {e \in Events : /\ runs[e] = 0
                    /\ \/ inbox[e] = "PROCESSED"
                       \/ \E n \in Positions : settled[n] = "acked" /\ stream[n] = e}

\* How far "marks it PROCESSED only after the business operation succeeds"
\* (OUTBOX_INBOX.md) holds.  Whichever of the deliveries of a message completes
\* the row or acknowledges, an operation is lost only where its branch drops
\* the error, and each one that is lost cost a failure of its own.
SettledWasRun ==
    /\ Lost \subseteq Dropping
    /\ Cardinality(Lost) <= faults

\* OUTBOX_INBOX.md: "JetStream/NATS de-duplication uses the stable message
\* ID".  The stream holds a second copy of an event only after two faults: its
\* publication was not recorded, and its id had left the window when it was
\* published again.
DuplicatesNeedTwoFaults ==
    \A e \in Events : 2 * (Cardinality(Copies(e)) - 1) <= faults

\* OUTBOX_INBOX.md: "A redelivery of a processed message is acknowledged
\* without repeating the operation".
ProcessedNotRepeated ==
    [][\A e \in Events : inbox[e] = "PROCESSED" => runs'[e] = runs[e]]_vars

\* Every committed row is published in the end: retries outlast the faults
\* and no row is left behind by the order of the batches.
EventuallyPublished ==
    \A e \in Events : e \in ToSet(rows) ~> e \in published

\* The deliveries of a position are used up and none is left to handle.
GivenUp(n) ==
    /\ deliveries[n] = MaxDeliver
    /\ n \notin ToSet(buffer)
    /\ worker = Free \/ worker.position # n

\* Every stored message is settled in the end, or given up after its last
\* delivery: no message waits for ever behind another.
EventuallySettled ==
    \A n \in Positions : n <= Len(stream) ~> settled[n] # "open" \/ GivenUp(n)

=============================================================================
