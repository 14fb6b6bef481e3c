--------------------------- MODULE DeliveryProofs ---------------------------
(***************************************************************************)
(* Theorems about Delivery, for any events, and any bounds on batches,     *)
(* deliveries and faults.                                                  *)
(***************************************************************************)
EXTENDS Delivery, FiniteSetTheorems, WellFoundedInduction, TLAPS

\* The publisher holds rows of its own that are not marked yet, and what the
\* stream deduplicates it has stored.
OutboxOK ==
    /\ \A i, j \in DOMAIN rows : rows[i] = rows[j] => i = j
    /\ \A i \in batch : rows[i] \notin published
    /\ window \subseteq ToSet(stream)

\* Only what is stored is delivered, settled or handled.
ClientOK ==
    /\ \A n \in due : n <= Len(stream)
    /\ \A n \in Positions : deliveries[n] > 0 \/ settled[n] # "open" => n <= Len(stream)
    /\ \A i \in DOMAIN buffer : buffer[i] <= Len(stream)
    /\ worker # Free => worker.position <= Len(stream)

\* The events whose operation the consumer takes to be done: the inbox row is
\* PROCESSED, a delivery was acknowledged, or the callback has gone past it.
Passed ==
    {e \in Events : \/ inbox[e] = "PROCESSED"
                    \/ \E n \in Positions : settled[n] = "acked" /\ stream[n] = e
                    \/ worker.pc \in {"ran", "completed"} /\ stream[worker.position] = e}

\* Those among them that never ran.  Each is of a branch that drops its error,
\* and the failure that was dropped is a fault of its own.
Unrun == {e \in Passed : runs[e] = 0}

LossOK ==
    /\ Unrun \subseteq Dropping
    /\ IsFiniteSet(Unrun)
    /\ Cardinality(Unrun) <= faults

OutboxInv == OutboxOK /\ PublishedIsStored
ClientInv == ClientOK /\ LossOK

IInv == TypeOK /\ OutboxInv /\ ClientInv

-----------------------------------------------------------------------------
\* Parts of the steps.

LEMMA LeastIsIn ==
  ASSUME NEW S \in SUBSET Nat, S # {}
  PROVE  Min(S) \in S
<1> DEFINE R == OpToRel(<, Nat)
<1>1. \E x \in S : \A y \in S : ~ (<<y, x>> \in R)
  <2>1. IsWellFoundedOn(R, Nat)
    BY NatLessThanWellFounded
  <2> HIDE DEF R
  <2> QED BY <2>1, WFMin
<1>2. PICK x \in S : \A y \in S : ~ (<<y, x>> \in R)
  BY <1>1
<1>3. \A y \in S : x <= y
  <2> SUFFICES ASSUME NEW y \in S PROVE x <= y
    OBVIOUS
  <2>1. x \in Nat /\ y \in Nat
    OBVIOUS
  <2>2. y < x => <<y, x>> \in R
    BY <2>1 DEF OpToRel
  <2>3. ~ (<<y, x>> \in R)
    BY <1>2
  <2>4. ~ (y < x)
    BY <2>2, <2>3
  <2> QED BY <2>1, <2>4
<1> QED BY <1>3 DEF Min

\* The row a pass is at is one of its rows.
LEMMA CurrentIsRow ==
  ASSUME TypeOK, batch # {}
  PROVE  /\ Min(batch) \in batch /\ Min(batch) \in DOMAIN rows
         /\ Current \in Events
<1>1. batch \in SUBSET DOMAIN rows /\ rows \in Seq(Events) /\ DOMAIN rows = 1 .. Len(rows)
  BY DEF TypeOK
<1>2. Min(batch) \in batch
  BY <1>1, LeastIsIn
<1> QED BY <1>1, <1>2 DEF Current

\* The stream as it was is the beginning of the stream as it is.
Extended ==
    /\ stream' \in Seq(Events) /\ Len(stream') \in Nat /\ Len(stream') <= MaxStored
    /\ Len(stream) \in Nat /\ Len(stream) <= Len(stream')
    /\ \A n \in 1 .. Len(stream) : stream'[n] = stream[n]
    /\ ToSet(stream) \subseteq ToSet(stream')
    /\ window' \in SUBSET Events
    /\ due' \in SUBSET Positions /\ due \subseteq due'
    /\ \A n \in due' : n \in due \/ n <= Len(stream')

LEMMA Unextended ==
  ASSUME TypeOK, UNCHANGED <<stream, window, due>>
  PROVE  Extended
  BY DEF TypeOK, Extended, Positions

LEMMA Accepted ==
  ASSUME TypeOK, NEW e \in Events, Accept(e)
  PROVE  /\ Extended
         /\ window \subseteq ToSet(stream) =>
               e \in ToSet(stream') /\ window' \subseteq ToSet(stream')
<1>1. CASE e \in window /\ UNCHANGED <<stream, window, due>>
  BY <1>1, Unextended
<1>2. CASE /\ Len(stream) < MaxStored
           /\ stream' = Append(stream, e)
           /\ window' = window \cup {e}
           /\ due' = due \cup {Len(stream) + 1}
  <2>1. /\ stream' \in Seq(Events) /\ Len(stream') = Len(stream) + 1 /\ Len(stream) \in Nat
        /\ \A n \in 1 .. Len(stream) : stream'[n] = stream[n]
        /\ stream'[Len(stream) + 1] = e
        /\ DOMAIN stream = 1 .. Len(stream) /\ DOMAIN stream' = 1 .. Len(stream')
    BY <1>2 DEF TypeOK
  <2>2. ToSet(stream) \subseteq ToSet(stream') /\ e \in ToSet(stream')
    BY <2>1 DEF ToSet
  <2>3. Len(stream) + 1 \in Positions /\ Len(stream') <= MaxStored
    BY <1>2, <2>1, DeliveryAssumption DEF Positions
  <2>4. Extended
    BY <1>2, <2>1, <2>2, <2>3 DEF Extended, TypeOK
  <2> QED BY <1>2, <2>2, <2>4
<1> QED BY <1>1, <1>2 DEF Accept

\* A fault is counted.
LEMMA Counted ==
  ASSUME TypeOK, Fault
  PROVE  faults' = faults + 1 /\ faults' \in 0 .. MaxFaults /\ faults \in Nat
  BY DeliveryAssumption DEF TypeOK, Fault

\* What an acknowledgement does to a position.
LEMMA SettleTypes ==
  ASSUME TypeOK, NEW n \in Positions, NEW how \in {"acked", "termed"},
         Nak(n) \/ Settle(n, how)
  PROVE  /\ due' \in SUBSET Positions
         /\ settled' \in [Positions -> {"open", "acked", "termed"}]
         /\ due' \subseteq due \cup {n}
         /\ \A m \in Positions : settled'[m] = settled[m] \/ (m = n /\ settled'[n] = how)
<1>1. CASE Nak(n)
  BY <1>1 DEF TypeOK, Nak
<1>2. CASE Settle(n, how)
  BY <1>2 DEF TypeOK, Settle
<1> QED BY <1>1, <1>2

LEMMA WorkerFields ==
  ASSUME TypeOK, worker # Free \/ worker.pc # "free"
  PROVE  /\ worker \in Busy /\ worker # Free /\ worker.pc # "free"
         /\ worker.position \in Positions
<1>1. worker \in {Free} \cup Busy
  BY DEF TypeOK
<1> QED BY <1>1 DEF Free, Busy

LEMMA BufferFields ==
  ASSUME TypeOK, buffer # <<>>
  PROVE  /\ Head(buffer) \in Positions /\ Tail(buffer) \in Seq(Positions)
         /\ 1 \in DOMAIN buffer /\ Head(buffer) = buffer[1]
         /\ \A i \in DOMAIN Tail(buffer) :
               i + 1 \in DOMAIN buffer /\ Tail(buffer)[i] = buffer[i + 1]
  BY DEF TypeOK


-----------------------------------------------------------------------------
\* The types.

\* A step of the publisher, or of the rows it reads.
OutboxNext == (\E e \in Events : Commit(e) \/ Retry(e) \/ WindowExpires(e)) \/ PublisherNext

\* A step of the client.
ClientNext ==
    \/ WorkerNext
    \/ \E e \in Events : LockExpires(e)
    \/ \E n \in Positions : Deliver(n) \/ AckWaitExpires(n)

LEMMA Split ==
  ASSUME [Next]_vars
  PROVE  OutboxNext \/ ClientNext \/ Crash \/ UNCHANGED vars
  BY DEF Next, Transport, OutboxNext, ClientNext

\* What the outbox side does to what it shares, and to its own.
LEMMA OutboxTypes ==
  ASSUME TypeOK, OutboxNext
  PROVE  /\ TypeOK' /\ Extended
         /\ UNCHANGED <<deliveries, settled, buffer, worker, inbox, runs>>
<1>1. ASSUME NEW e \in Events, Commit(e)
      PROVE  TypeOK' /\ Extended /\ UNCHANGED <<deliveries, settled, buffer, worker, inbox, runs>>
  <2>1. rows' \in Seq(Events) /\ DOMAIN rows \subseteq DOMAIN rows'
    BY <1>1 DEF Commit, TypeOK
  <2>2. UNCHANGED <<published, deferred, batch, sent, stream, window, due, deliveries, settled,
                    buffer, worker, inbox, runs, faults>>
    BY <1>1 DEF Commit, publisherVars, streamVars, clientVars
  <2>3. batch \subseteq DOMAIN rows'
    BY <2>1 DEF TypeOK
  <2> QED BY <2>1, <2>2, <2>3, Unextended DEF TypeOK
<1>2. ASSUME NEW e \in Events, Retry(e)
      PROVE  TypeOK' /\ Extended /\ UNCHANGED <<deliveries, settled, buffer, worker, inbox, runs>>
  <2>1. UNCHANGED <<rows, published, batch, sent, stream, window, due, deliveries, settled,
                    buffer, worker, inbox, runs, faults>>
        /\ deferred' = deferred \ {e}
    BY <1>2 DEF Retry, publisherVars, streamVars, clientVars
  <2> QED BY <2>1, Unextended DEF TypeOK
<1>3. ASSUME NEW e \in Events, WindowExpires(e)
      PROVE  TypeOK' /\ Extended /\ UNCHANGED <<deliveries, settled, buffer, worker, inbox, runs>>
  <2>1. UNCHANGED <<rows, published, deferred, batch, sent, stream, due, deliveries, settled,
                    buffer, worker, inbox, runs>>
        /\ window' = window \ {e}
    BY <1>3 DEF WindowExpires, outboxVars, publisherVars, clientVars
  <2>2. faults' \in 0 .. MaxFaults
    BY <1>3, Counted DEF WindowExpires
  <2> QED BY <2>1, <2>2 DEF TypeOK, Extended, Positions
<1>4. ASSUME Poll
      PROVE  TypeOK' /\ Extended /\ UNCHANGED <<deliveries, settled, buffer, worker, inbox, runs>>
  <2>1. UNCHANGED <<rows, published, deferred, sent, stream, window, due, deliveries, settled,
                    buffer, worker, inbox, runs, faults>>
        /\ batch' \subseteq DOMAIN rows
    BY <1>4 DEF Poll, outboxVars, streamVars, clientVars, Eligible
  <2> QED BY <2>1, Unextended DEF TypeOK
<1>5. ASSUME Publish
      PROVE  TypeOK' /\ Extended /\ UNCHANGED <<deliveries, settled, buffer, worker, inbox, runs>>
  <2>1. UNCHANGED <<rows, published, deferred, batch, deliveries, settled,
                    buffer, worker, inbox, runs, faults>>
        /\ sent' = TRUE
    BY <1>5 DEF Publish, outboxVars, clientVars
  <2>2. Extended
    BY <1>5, CurrentIsRow, Accepted DEF Publish
  <2> QED BY <2>1, <2>2 DEF TypeOK, Extended
<1>6. ASSUME PublishFails
      PROVE  TypeOK' /\ Extended /\ UNCHANGED <<deliveries, settled, buffer, worker, inbox, runs>>
  <2>1. UNCHANGED <<rows, published, sent, deliveries, settled, buffer, worker, inbox, runs>>
        /\ batch' \subseteq batch /\ deferred' \subseteq deferred \cup {Current}
    BY <1>6 DEF PublishFails, clientVars, Rest
  <2>2. Extended /\ Current \in Events
    BY <1>6, CurrentIsRow, Accepted, Unextended DEF PublishFails
  <2>3. faults' \in 0 .. MaxFaults
    BY <1>6, Counted DEF PublishFails
  <2> QED BY <2>1, <2>2, <2>3 DEF TypeOK, Extended
<1>7. ASSUME Mark \/ MarkFails
      PROVE  TypeOK' /\ Extended /\ UNCHANGED <<deliveries, settled, buffer, worker, inbox, runs>>
  <2>1. UNCHANGED <<rows, deferred, stream, window, due, deliveries, settled, buffer, worker,
                    inbox, runs>>
        /\ batch # {} /\ sent' = FALSE /\ batch' \subseteq batch
        /\ published' \subseteq published \cup {Current}
    BY <1>7 DEF Mark, MarkFails, outboxVars, streamVars, clientVars, Rest
  <2>2. faults' \in 0 .. MaxFaults
    BY <1>7, Counted DEF Mark, MarkFails, TypeOK
  <2>3. Current \in Events /\ Extended
    BY <2>1, CurrentIsRow, Unextended
  <2> QED BY <2>1, <2>2, <2>3 DEF TypeOK
<1> QED BY <1>1, <1>2, <1>3, <1>4, <1>5, <1>6, <1>7 DEF OutboxNext, PublisherNext

\* The client leaves the rows and the stream alone.
LEMMA ClientLeaves ==
  ASSUME ClientNext
  PROVE  UNCHANGED <<rows, published, deferred, batch, sent, stream, window>>
  BY DEF ClientNext, WorkerNext, Take, TakeFails, Run, RunDropped, Refuse, RunFails, Complete,
         Acknowledge, LockExpires, Deliver, AckWaitExpires, outboxVars, publisherVars, streamVars

LEMMA ClientTypes ==
  ASSUME TypeOK, ClientNext
  PROVE  TypeOK'
<1>1. UNCHANGED <<rows, published, deferred, batch, sent, stream, window>>
  BY ClientLeaves
<1> SUFFICES /\ due' \in SUBSET Positions
             /\ deliveries' \in [Positions -> 0 .. MaxDeliver]
             /\ settled' \in [Positions -> {"open", "acked", "termed"}]
             /\ buffer' \in Seq(Positions)
             /\ worker' \in {Free} \cup Busy
             /\ inbox' \in [Events -> InboxStates]
             /\ runs' \in [Events -> Nat]
             /\ faults' \in 0 .. MaxFaults
  BY <1>1 DEF TypeOK
<1> USE DEF outboxVars, publisherVars, streamVars, clientVars
<1>2. CASE Take
  <2>1. Head(buffer) \in Positions /\ Tail(buffer) \in Seq(Positions)
    BY <1>2, BufferFields DEF Take
  <2>2. \A e : Claims(e) \in BOOLEAN
    BY DEF Claims
  <2>3. worker' \in Busy
    <3> DEFINE b == Claims(stream[Head(buffer)])
    <3>1. worker' = [pc |-> "claimed", position |-> Head(buffer), owner |-> b] /\ b \in BOOLEAN
      BY <1>2, <2>2 DEF Take
    <3> HIDE DEF b
    <3> QED BY <2>1, <3>1 DEF Busy
  <2>4. inbox' \in [Events -> InboxStates]
    <3>1. \/ inbox' = inbox
          \/ \E e : inbox' = [inbox EXCEPT ![e] = "locked"]
      BY <1>2, Zenon DEF Take
    <3> QED BY <3>1 DEF TypeOK, InboxStates
  <2> QED BY <1>2, <2>1, <2>3, <2>4 DEF Take, TypeOK
<1>3. CASE TakeFails
  <2>1. Head(buffer) \in Positions /\ Tail(buffer) \in Seq(Positions)
    BY <1>3, BufferFields DEF TakeFails
  <2>2. due' \in SUBSET Positions /\ settled' \in [Positions -> {"open", "acked", "termed"}]
    BY <1>3, <2>1, SettleTypes DEF TakeFails
  <2>3. faults' \in 0 .. MaxFaults
    BY <1>3, Counted DEF TakeFails
  <2> QED BY <1>3, <2>1, <2>2, <2>3 DEF TakeFails, TypeOK
<1>4. CASE Run
  <2>1. worker \in Busy
    BY <1>4, WorkerFields DEF Run
  <2>2. worker' \in Busy
    BY <1>4, <2>1 DEF Run, Busy
  <2>3. runs' \in [Events -> Nat]
    <3> DEFINE e == stream[worker.position]
    <3>1. runs' = [runs EXCEPT ![e] = runs[e] + 1] /\ runs \in [Events -> Nat]
      BY <1>4 DEF Run, TypeOK
    <3> HIDE DEF e
    <3>2. runs' = [x \in Events |-> IF x = e THEN runs[x] + 1 ELSE runs[x]]
      BY <3>1
    <3>3. \A x \in Events : runs[x] \in Nat /\ runs[x] + 1 \in Nat
      BY <3>1
    <3> QED BY <3>2, <3>3
  <2> QED BY <1>4, <2>2, <2>3 DEF Run, TypeOK
<1>5. CASE Refuse
  <2>1. worker.position \in Positions
    BY <1>5, WorkerFields DEF Refuse
  <2>2. due' \in SUBSET Positions /\ settled' \in [Positions -> {"open", "acked", "termed"}]
    BY <1>5, <2>1, SettleTypes DEF Refuse
  <2> QED BY <1>5, <2>2 DEF Refuse, TypeOK
<1>6. CASE RunFails
  <2>1. worker.position \in Positions
    BY <1>6, WorkerFields DEF RunFails
  <2>2. due' \in SUBSET Positions /\ settled' \in [Positions -> {"open", "acked", "termed"}]
    BY <1>6, <2>1, SettleTypes DEF RunFails
  <2>3. faults' \in 0 .. MaxFaults
    BY <1>6, Counted DEF RunFails
  <2>4. inbox' \in [Events -> InboxStates]
    BY <1>6 DEF RunFails, Failed, TypeOK, InboxStates
  <2> QED BY <1>6, <2>2, <2>3, <2>4 DEF RunFails, TypeOK
<1>7. CASE Complete
  <2>1. worker \in Busy
    BY <1>7, WorkerFields DEF Complete, Ready
  <2>2. worker' \in Busy
    BY <1>7, <2>1 DEF Complete, Onward, Busy
  <2>3. inbox' \in [Events -> InboxStates]
    BY <1>7 DEF Complete, TypeOK, InboxStates
  <2>4. faults' \in 0 .. MaxFaults
    BY <1>7, Counted DEF Complete, TypeOK
  <2> QED BY <1>7, <2>2, <2>3, <2>4 DEF Complete, TypeOK
<1>8. CASE Acknowledge
  <2>1. worker.position \in Positions
    BY <1>8, WorkerFields DEF Acknowledge, AckReady
  <2>2. due' \in SUBSET Positions /\ settled' \in [Positions -> {"open", "acked", "termed"}]
    BY <1>8, <2>1, SettleTypes DEF Acknowledge
  <2> QED BY <1>8, <2>2 DEF Acknowledge, TypeOK
<1>9. ASSUME NEW e \in Events, LockExpires(e)
      PROVE  /\ inbox' \in [Events -> InboxStates]
             /\ UNCHANGED <<due, deliveries, settled, buffer, worker, runs, faults>>
  BY <1>9 DEF LockExpires, TypeOK, InboxStates
<1>10. ASSUME NEW n \in Positions, Deliver(n)
       PROVE  /\ due' \in SUBSET Positions
              /\ deliveries' \in [Positions -> 0 .. MaxDeliver]
              /\ buffer' \in Seq(Positions)
              /\ UNCHANGED <<settled, worker, inbox, runs, faults>>
  <2>1. deliveries' \in [Positions -> 0 .. MaxDeliver]
    BY <1>10, DeliveryAssumption DEF Deliver, TypeOK
  <2> QED BY <1>10, <2>1 DEF Deliver, TypeOK
<1>11. ASSUME NEW n \in Positions, AckWaitExpires(n)
       PROVE  /\ due' \in SUBSET Positions
              /\ UNCHANGED <<deliveries, settled, buffer, worker, inbox, runs, faults>>
  BY <1>11 DEF AckWaitExpires, TypeOK
<1>14. CASE RunDropped
  <2>1. worker \in Busy
    BY <1>14, WorkerFields DEF RunDropped
  <2>2. worker' \in Busy
    BY <1>14, <2>1 DEF RunDropped, Busy
  <2>3. faults' \in 0 .. MaxFaults
    BY <1>14, Counted DEF RunDropped
  <2> QED BY <1>14, <2>2, <2>3 DEF RunDropped, TypeOK
<1>12. CASE \/ \E e \in Events : LockExpires(e)
            \/ \E n \in Positions : Deliver(n) \/ AckWaitExpires(n)
  BY <1>9, <1>10, <1>11, <1>12 DEF TypeOK
<1>13. CASE WorkerNext
  BY <1>2, <1>3, <1>4, <1>5, <1>6, <1>7, <1>8, <1>13, <1>14, Zenon DEF WorkerNext
<1> QED BY <1>12, <1>13, Zenon DEF ClientNext

LEMMA CrashTypes ==
  ASSUME TypeOK, Crash
  PROVE  /\ TypeOK' /\ batch' = {} /\ sent' = FALSE /\ buffer' = <<>> /\ worker' = Free
         /\ faults' = faults + 1
         /\ UNCHANGED <<rows, published, deferred, stream, window, due, deliveries, settled,
                        inbox, runs>>
<1>1. /\ batch' = {} /\ sent' = FALSE /\ buffer' = <<>> /\ worker' = Free
      /\ UNCHANGED <<rows, published, deferred, stream, window, due, deliveries, settled,
                     inbox, runs>>
  BY DEF Crash, outboxVars, streamVars
<1>2. faults' = faults + 1 /\ faults' \in 0 .. MaxFaults
  BY Counted DEF Crash
<1>3. batch' \in SUBSET DOMAIN rows' /\ buffer' \in Seq(Positions) /\ sent' \in BOOLEAN
      /\ worker' \in {Free} \cup Busy
  <2>1. {} \in SUBSET DOMAIN rows' /\ <<>> \in Seq(Positions) /\ FALSE \in BOOLEAN
    OBVIOUS
  <2> QED BY <1>1, <2>1, Zenon
<1>4. TypeOK'
  BY <1>1, <1>2, <1>3 DEF TypeOK
<1> QED BY <1>1, <1>2, <1>4

LEMMA TypeStep == ASSUME TypeOK, [Next]_vars PROVE TypeOK'
<1>1. CASE UNCHANGED vars
  BY <1>1 DEF TypeOK, vars, outboxVars, publisherVars, streamVars, clientVars
<1> QED BY <1>1, Split, OutboxTypes, ClientTypes, CrashTypes


-----------------------------------------------------------------------------
\* Rows and what the stream has of them.

\* The outbox is not touched, and the stream keeps what it has.
LEMMA OutboxKept ==
  ASSUME OutboxInv, UNCHANGED <<rows, published, batch, sent>>,
         ToSet(stream) \subseteq ToSet(stream'), window' \subseteq ToSet(stream')
  PROVE  OutboxInv'
<1>1. OutboxOK'
  BY DEF OutboxInv, OutboxOK
<1>2. Current' = Current
  BY DEF Current
<1>3. PublishedIsStored'
  BY <1>2 DEF OutboxInv, PublishedIsStored
<1> QED BY <1>1, <1>3 DEF OutboxInv

LEMMA OutboxStep ==
  ASSUME TypeOK, OutboxInv, [Next]_vars
  PROVE  OutboxInv'
<1>1. ASSUME NEW e \in Events, Commit(e) PROVE OutboxInv'
  <2>1. /\ rows \in Seq(Events) /\ e \notin ToSet(rows) /\ rows' = Append(rows, e)
        /\ UNCHANGED <<published, batch, sent, stream, window>>
    BY <1>1 DEF Commit, TypeOK, publisherVars, streamVars
  <2>2. /\ DOMAIN rows = 1 .. Len(rows) /\ DOMAIN rows' = 1 .. Len(rows) + 1
        /\ \A i \in 1 .. Len(rows) : rows'[i] = rows[i]
        /\ rows'[Len(rows) + 1] = e /\ Len(rows) \in Nat
    BY <2>1
  <2>3. \A i \in 1 .. Len(rows) : rows[i] # e
    BY <2>1, <2>2 DEF ToSet
  <2>4. \A i, j \in DOMAIN rows' : rows'[i] = rows'[j] => i = j
    BY <2>2, <2>3 DEF OutboxInv, OutboxOK
  <2>5. \A i \in batch' : rows'[i] \notin published'
    BY <2>1, <2>2 DEF OutboxInv, OutboxOK, TypeOK
  <2>6. batch # {} => Current' = Current
    BY <2>1, <2>2, CurrentIsRow DEF Current
  <2>7. PublishedIsStored'
    BY <2>1, <2>6 DEF OutboxInv, PublishedIsStored
  <2> QED BY <2>1, <2>4, <2>5, <2>7 DEF OutboxInv, OutboxOK
<1>2. CASE Poll
  <2>1. UNCHANGED <<rows, published, sent, stream, window>> /\ batch = {} /\ batch' \subseteq Eligible
    BY <1>2 DEF Poll, outboxVars, streamVars
  <2>2. ~sent
    BY <2>1 DEF OutboxInv, PublishedIsStored
  <2> QED BY <2>1, <2>2 DEF OutboxInv, OutboxOK, PublishedIsStored, Eligible
<1>3. CASE Publish
  <2>1. UNCHANGED <<rows, published, batch>> /\ batch # {} /\ sent' = TRUE /\ Accept(Current)
    BY <1>3 DEF Publish, outboxVars
  <2>2. /\ Current \in ToSet(stream') /\ window' \subseteq ToSet(stream')
        /\ ToSet(stream) \subseteq ToSet(stream')
    BY <2>1, CurrentIsRow, Accepted DEF OutboxInv, OutboxOK, Extended
  <2>3. Current' = Current
    BY <2>1 DEF Current
  <2> QED BY <2>1, <2>2, <2>3 DEF OutboxInv, OutboxOK, PublishedIsStored
<1>4. CASE PublishFails
  <2>1. UNCHANGED <<rows, published, sent>> /\ ~sent /\ batch # {} /\ batch' \subseteq batch
    BY <1>4 DEF PublishFails, Rest
  <2>2. window' \subseteq ToSet(stream') /\ ToSet(stream) \subseteq ToSet(stream')
    <3>1. CASE Accept(Current)
      BY <2>1, <3>1, CurrentIsRow, Accepted DEF OutboxInv, OutboxOK, Extended
    <3>2. CASE UNCHANGED <<stream, window, due>>
      BY <3>2 DEF OutboxInv, OutboxOK
    <3> QED BY <1>4, <3>1, <3>2 DEF PublishFails
  <2> QED BY <2>1, <2>2 DEF OutboxInv, OutboxOK, PublishedIsStored
<1>5. CASE Mark
  <2>1. /\ UNCHANGED <<rows, stream, window>> /\ sent' = FALSE /\ sent /\ batch # {}
        /\ published' = published \cup {Current} /\ batch' = Rest
    BY <1>5 DEF Mark, Sent, streamVars
  <2>2. Current \in ToSet(stream)
    BY <2>1 DEF OutboxInv, PublishedIsStored
  <2>3. \A i \in Rest : rows[i] # Current
    BY <2>1, CurrentIsRow DEF OutboxInv, OutboxOK, Current, Rest, TypeOK
  <2>4. Rest \subseteq batch
    BY DEF Rest
  <2> QED BY <2>1, <2>2, <2>3, <2>4 DEF OutboxInv, OutboxOK, PublishedIsStored
<1>6. CASE MarkFails \/ Crash
  <2>1. UNCHANGED <<rows, published, stream, window>> /\ sent' = FALSE /\ batch' \subseteq batch
    BY <1>6 DEF MarkFails, Crash, outboxVars, streamVars, Rest
  <2> QED BY <2>1 DEF OutboxInv, OutboxOK, PublishedIsStored
<1>7. ASSUME NEW e \in Events, Retry(e) \/ WindowExpires(e) PROVE OutboxInv'
  <2>1. UNCHANGED <<rows, published, batch, sent, stream>> /\ window' \subseteq window
    BY <1>7 DEF Retry, WindowExpires, outboxVars, publisherVars, streamVars
  <2> QED BY <2>1, OutboxKept DEF OutboxInv, OutboxOK
<1>8. CASE ClientNext \/ UNCHANGED vars
  <2>1. UNCHANGED <<rows, published, batch, sent, stream, window>>
    BY <1>8, ClientLeaves DEF vars, outboxVars, publisherVars, streamVars
  <2> QED BY <2>1, OutboxKept DEF OutboxInv, OutboxOK
<1> QED BY <1>1, <1>2, <1>3, <1>4, <1>5, <1>6, <1>7, <1>8, Split DEF OutboxNext, PublisherNext

-----------------------------------------------------------------------------
\* Deliveries and what became of them.

\* A position that is stored names an event.
LEMMA StoredIsEvent ==
  ASSUME TypeOK, NEW n \in Positions, n <= Len(stream)
  PROVE  stream[n] \in Events /\ n \in 1 .. Len(stream)
  BY DeliveryAssumption DEF TypeOK, Positions

\* Nothing is lost where nothing new is taken to be done, and nothing that ran
\* is undone.
LEMMA LossKept ==
  ASSUME TypeOK, TypeOK', LossOK, Passed' \subseteq Passed, faults' >= faults,
         \A e \in Events : runs[e] > 0 => runs'[e] > 0
  PROVE  LossOK'
<1>1. Unrun' \subseteq Unrun
  <2> SUFFICES ASSUME NEW e \in Events, e \in Passed', runs'[e] = 0
               PROVE  e \in Passed /\ runs[e] = 0
    BY DEF Unrun, Passed
  <2>1. runs[e] \in Nat /\ (runs[e] > 0 => runs'[e] > 0)
    BY DEF TypeOK
  <2> QED BY <2>1
<1>2. IsFiniteSet(Unrun) /\ Unrun \subseteq Dropping /\ Cardinality(Unrun) <= faults
  BY DEF LossOK
<1>3. faults \in Nat /\ faults' \in Nat
  BY DeliveryAssumption DEF TypeOK
<1> DEFINE now == Unrun'
           old == Unrun
<1>4. /\ IsFiniteSet(old) /\ now \subseteq old /\ old \subseteq Dropping
      /\ Cardinality(old) <= faults
  BY <1>1, <1>2
<1> HIDE DEF now, old
<1>5. IsFiniteSet(now) /\ Cardinality(now) <= Cardinality(old)
      /\ Cardinality(now) \in Nat /\ Cardinality(old) \in Nat
  BY <1>4, FS_Subset, FS_CardinalityType
<1>6. now \subseteq Dropping /\ Cardinality(now) <= faults'
  BY <1>3, <1>4, <1>5
<1> QED BY <1>5, <1>6 DEF LossOK, now

\* A failure that is dropped may lose one event more, and is counted.
LEMMA LossPaid ==
  ASSUME TypeOK, LossOK, NEW x \in Dropping, Unrun' \subseteq Unrun \cup {x},
         faults' = faults + 1
  PROVE  LossOK'
<1>1. IsFiniteSet(Unrun) /\ Unrun \subseteq Dropping /\ Cardinality(Unrun) <= faults
  BY DEF LossOK
<1>2. faults \in Nat
  BY DeliveryAssumption DEF TypeOK
<1> DEFINE now == Unrun'
           old == Unrun
           most == Unrun \cup {x}
<1>3. /\ IsFiniteSet(most)
      /\ Cardinality(most) = Cardinality(old) \/ Cardinality(most) = Cardinality(old) + 1
      /\ Cardinality(old) \in Nat
  BY <1>1, FS_AddElement, FS_CardinalityType
<1>4. now \subseteq most /\ most \subseteq Dropping /\ Cardinality(old) <= faults
  BY <1>1
<1> HIDE DEF now, old, most
<1>5. /\ IsFiniteSet(now) /\ Cardinality(now) <= Cardinality(most)
      /\ Cardinality(now) \in Nat
  BY <1>3, <1>4, FS_Subset, FS_CardinalityType
<1>6. now \subseteq Dropping /\ Cardinality(now) <= faults'
  BY <1>2, <1>3, <1>4, <1>5
<1> QED BY <1>5, <1>6 DEF LossOK, now

\* The stream grows and the client does nothing.
LEMMA GrowingKeeps ==
  ASSUME TypeOK, TypeOK', ClientInv, Extended, faults' >= faults,
         UNCHANGED <<deliveries, settled, buffer, worker, inbox, runs>>
  PROVE  ClientInv'
<1>1. \A n \in Positions : n <= Len(stream) => n <= Len(stream') /\ stream'[n] = stream[n]
  BY DEF Extended, Positions
<1>2. worker # Free => worker.position \in Positions /\ worker.position <= Len(stream)
  BY WorkerFields DEF ClientInv, ClientOK
<1>3. \A n \in due' : n <= Len(stream')
  BY <1>1 DEF ClientInv, ClientOK, Extended, TypeOK
<1>4. \A i \in DOMAIN buffer : buffer[i] <= Len(stream')
  BY <1>1 DEF ClientInv, ClientOK, TypeOK
<1>5. worker.pc \in {"ran", "completed"} => worker # Free
  BY DEF Free
<1>6. ClientOK'
  BY <1>1, <1>2, <1>3, <1>4 DEF ClientInv, ClientOK
<1>7. Passed' \subseteq Passed
  <2>1. \A n \in Positions : settled[n] = "acked" => n <= Len(stream)
    BY DEF ClientInv, ClientOK
  <2> QED BY <1>1, <1>2, <1>5, <2>1 DEF Passed
<1>8. LossOK'
  BY <1>7, LossKept DEF ClientInv
<1> QED BY <1>6, <1>8 DEF ClientInv

\* Nothing that ran is undone.
LEMMA RunsGrow ==
  ASSUME TypeOK, ClientNext
  PROVE  \A e \in Events : runs[e] > 0 => runs'[e] > 0
<1>1. CASE Run
  <2> DEFINE x == stream[worker.position]
  <2>1. runs' = [runs EXCEPT ![x] = runs[x] + 1] /\ runs \in [Events -> Nat]
    BY <1>1 DEF Run, TypeOK
  <2> HIDE DEF x
  <2>2. runs' = [e \in Events |-> IF e = x THEN runs[e] + 1 ELSE runs[e]]
    BY <2>1
  <2>3. \A e \in Events : runs[e] \in Nat
    BY <2>1
  <2> QED BY <2>2, <2>3
<1>2. CASE ~Run
  BY <1>2 DEF ClientNext, WorkerNext, Take, TakeFails, RunDropped, Refuse, RunFails, Complete,
         Acknowledge, LockExpires, Deliver, AckWaitExpires
<1> QED BY <1>1, <1>2

LEMMA ClientStep ==
  ASSUME TypeOK, ClientInv, ClientNext
  PROVE  ClientInv'
<1>1. stream' = stream
  BY ClientLeaves
<1>2. \A n \in Positions : n <= Len(stream) => stream[n] \in Events
  BY StoredIsEvent
<1>3. TypeOK' /\ LossOK
  BY ClientTypes DEF ClientInv
<1>4. /\ \A n \in due : n <= Len(stream)
      /\ \A n \in Positions : deliveries[n] > 0 \/ settled[n] # "open" => n <= Len(stream)
      /\ \A i \in DOMAIN buffer : buffer[i] <= Len(stream)
      /\ worker # Free => worker.position <= Len(stream)
  BY DEF ClientInv, ClientOK
<1> USE DEF outboxVars, publisherVars, streamVars, clientVars
\* It is enough that nothing new is delivered, settled or handled but what is
\* stored, and that nothing new is taken to be done.
<1>5. ASSUME \A n \in due' : n \in due \/ n <= Len(stream),
             \A n \in Positions : deliveries'[n] = deliveries[n] \/ n <= Len(stream),
             \A n \in Positions : settled'[n] = settled[n] \/ n <= Len(stream),
             \A i \in DOMAIN buffer' : buffer'[i] <= Len(stream),
             worker' # Free => worker'.position \in Positions /\ worker'.position <= Len(stream),
             LossOK'
      PROVE  ClientInv'
  <2>1. ClientOK'
    BY <1>1, <1>4, <1>5 DEF ClientOK
  <2> QED BY <1>5, <2>1 DEF ClientInv
\* Nothing new is processed, acknowledged or past its operation.
<1>20. ASSUME \A e \in Events : inbox'[e] = "PROCESSED" => e \in Passed,
              \A n \in Positions :
                 settled'[n] = "acked" => settled[n] = "acked" \/ stream[n] \in Passed,
              worker'.pc \in {"ran", "completed"} => stream[worker'.position] \in Passed
       PROVE  LossOK'
  <2>1. Passed' \subseteq Passed
    BY <1>1, <1>20 DEF Passed
  <2>2. faults' = faults \/ faults' = faults + 1
    BY DEF ClientNext, WorkerNext, Take, TakeFails, Run, RunDropped, Refuse, RunFails, Complete,
           Acknowledge, LockExpires, Deliver, AckWaitExpires, Fault
  <2>3. faults \in Nat
    BY DeliveryAssumption DEF TypeOK
  <2> QED BY <1>3, <2>1, <2>2, <2>3, RunsGrow, LossKept
\* Where inbox, acknowledgements and the callback go no further.
<1>21. ASSUME \A e \in Events : inbox'[e] = "PROCESSED" => inbox[e] = "PROCESSED",
              \A n \in Positions : settled'[n] = "acked" => settled[n] = "acked",
              worker' = worker \/ worker'.pc \notin {"ran", "completed"}
       PROVE  LossOK'
  <2>1. worker'.pc \in {"ran", "completed"} => stream[worker'.position] \in Passed
    <3> SUFFICES ASSUME worker'.pc \in {"ran", "completed"}
                 PROVE  stream[worker.position] \in Passed /\ worker' = worker
      OBVIOUS
    <3>1. worker' = worker /\ worker # Free
      BY <1>21 DEF Free
    <3>2. stream[worker.position] \in Events
      BY <1>2, <1>4, <3>1, WorkerFields
    <3> QED BY <3>1, <3>2 DEF Passed
  <2>2. \A e \in Events : inbox'[e] = "PROCESSED" => e \in Passed
    BY <1>21 DEF Passed
  <2> QED BY <1>20, <1>21, <2>1, <2>2
<1>6. worker # Free => worker \in Busy /\ worker.position \in Positions
  BY WorkerFields
<1>7. Free.pc = "free"
  BY DEF Free
<1>8. CASE Take \/ TakeFails
  <2>1. /\ Head(buffer) \in Positions /\ Head(buffer) <= Len(stream)
        /\ \A i \in DOMAIN buffer' : buffer'[i] <= Len(stream)
        /\ UNCHANGED <<deliveries, runs>>
    BY <1>4, <1>8, BufferFields DEF Take, TakeFails
  <2>2. CASE Take
    <3>1. worker'.pc = "claimed" /\ worker'.position = Head(buffer) /\ UNCHANGED <<due, settled>>
      BY <2>2 DEF Take
    <3>2. \A e \in Events : inbox'[e] = "PROCESSED" => inbox[e] = "PROCESSED"
      <4>1. \/ inbox' = inbox
            \/ \E x : inbox' = [inbox EXCEPT ![x] = "locked"]
        BY <2>2, Zenon DEF Take
      <4> QED BY <4>1 DEF TypeOK
    <3> QED BY <1>5, <1>21, <2>1, <3>1, <3>2
  <2>3. CASE TakeFails
    <3>1. /\ UNCHANGED <<settled, inbox, worker>> /\ worker = Free
          /\ \A n \in due' : n \in due \/ n = Head(buffer)
      BY <2>3 DEF TakeFails, Nak
    <3> QED BY <1>5, <1>21, <2>1, <3>1
  <2> QED BY <1>8, <2>2, <2>3
<1>9. CASE Run \/ RunDropped
  <2>1. /\ worker.pc = "claimed" /\ worker # Free
        /\ worker' = [worker EXCEPT !.pc = "ran"]
        /\ UNCHANGED <<due, deliveries, settled, buffer, inbox>>
    BY <1>7, <1>9 DEF Run, RunDropped
  <2>2. worker'.position = worker.position
    BY <1>6, <2>1 DEF Busy
  <2>3. PICK x \in Events : x = stream[worker.position]
    BY <1>2, <1>4, <1>6, <2>1
  <2>4. Passed' \subseteq Passed \cup {x}
    BY <1>1, <2>1, <2>2, <2>3 DEF Passed
  <2>5. CASE Run
    <3>2. runs'[x] > 0 /\ UNCHANGED faults
      BY <2>3, <2>5 DEF Run, TypeOK
    <3>3. Unrun' \subseteq Unrun
      <4>1. ASSUME NEW y \in Events, y \in Passed', runs'[y] = 0
            PROVE  y \in Passed /\ runs[y] = 0
        <5>1. y # x
          BY <3>2, <4>1
        <5>2. runs[y] = 0
          <6>1. runs[y] \in Nat /\ runs'[y] = 0
            BY <1>3, <4>1 DEF TypeOK
          <6>2. runs[y] > 0 => runs'[y] > 0
            BY RunsGrow
          <6> QED BY <6>1, <6>2
        <5> QED BY <2>4, <4>1, <5>1, <5>2
      <4>2. Unrun' \subseteq Events /\ \A y \in Unrun' : y \in Passed' /\ runs'[y] = 0
        BY DEF Unrun, Passed
      <4> QED BY <4>1, <4>2 DEF Unrun
    <3>4. LossOK'
      <4>1. /\ Unrun \subseteq Dropping /\ IsFiniteSet(Unrun) /\ Cardinality(Unrun) <= faults
            /\ faults \in Nat
        BY <1>3, DeliveryAssumption DEF LossOK, TypeOK
      <4> DEFINE now == Unrun'
                 old == Unrun
      <4>2. /\ now \subseteq old /\ old \subseteq Dropping /\ IsFiniteSet(old)
            /\ Cardinality(old) <= faults
        BY <3>3, <4>1
      <4> HIDE DEF now, old
      <4>3. /\ IsFiniteSet(now) /\ Cardinality(now) <= Cardinality(old)
            /\ Cardinality(now) \in Nat /\ Cardinality(old) \in Nat
        BY <4>2, FS_Subset, FS_CardinalityType
      <4>4. now \subseteq Dropping /\ Cardinality(now) <= faults'
        BY <3>2, <4>1, <4>2, <4>3
      <4> QED BY <4>3, <4>4 DEF LossOK, now
    <3> QED BY <1>4, <1>5, <1>6, <2>1, <2>2, <3>4
  <2>6. CASE RunDropped
    <3>1. x \in Dropping /\ faults' = faults + 1 /\ UNCHANGED runs
      BY <2>3, <2>6 DEF RunDropped, Fault
    <3>2. Unrun' \subseteq Unrun \cup {x}
      BY <2>4, <3>1 DEF Unrun
    <3>3. LossOK'
      BY <1>3, <3>1, <3>2, LossPaid
    <3> QED BY <1>4, <1>5, <1>6, <2>1, <2>2, <3>3
  <2> QED BY <1>9, <2>5, <2>6
<1>10. CASE Refuse \/ Acknowledge
  <2>1. /\ worker # Free /\ worker' = Free /\ worker.position \in Positions
        /\ UNCHANGED <<deliveries, buffer, inbox>>
        /\ \/ Settle(worker.position, "termed")
           \/ Settle(worker.position, "acked") /\ worker.pc \in {"ran", "completed"}
    BY <1>4, <1>6, <1>7, <1>10 DEF Refuse, Acknowledge, AckReady
  <2>2. /\ \A n \in due' : n \in due
        /\ \A n \in Positions : settled'[n] = settled[n] \/ n = worker.position
    BY <2>1 DEF Settle, TypeOK
  <2>3. stream[worker.position] \in Events
    BY <1>2, <1>4, <2>1
  <2>4. \A n \in Positions : settled'[n] = "acked" => settled[n] = "acked" \/ stream[n] \in Passed
    BY <2>1, <2>3 DEF Settle, TypeOK, Passed
  <2>5. LossOK'
    BY <1>7, <1>20, <2>1, <2>4 DEF Passed
  <2> QED BY <1>4, <1>5, <2>1, <2>2, <2>5
<1>11. CASE RunFails
  <2>1. /\ worker # Free /\ worker' = Free /\ worker.position \in Positions
        /\ UNCHANGED <<deliveries, buffer, settled>>
        /\ \A n \in due' : n \in due \/ n = worker.position
    BY <1>6, <1>7, <1>11 DEF RunFails, Nak
  <2>2. \A e \in Events : inbox'[e] = "PROCESSED" => inbox[e] = "PROCESSED"
    BY <1>11 DEF RunFails, Failed, TypeOK
  <2>3. LossOK'
    BY <1>7, <1>21, <2>1, <2>2
  <2> QED BY <1>4, <1>5, <2>1, <2>3
<1>12. CASE Complete
  <2>1. /\ worker.pc = "ran" /\ worker # Free
        /\ UNCHANGED <<due, deliveries, settled, buffer, runs>>
        /\ worker' = [worker EXCEPT !.pc = "completed"]
    BY <1>7, <1>12 DEF Complete, Ready, Onward
  <2>2. worker'.position = worker.position
    BY <1>6, <2>1 DEF Busy
  <2>3. stream[worker.position] \in Passed
    <3>1. stream[worker.position] \in Events
      BY <1>2, <1>4, <1>6, <2>1
    <3> QED BY <2>1, <3>1 DEF Passed
  <2>4. \A e \in Events : inbox'[e] = "PROCESSED" => e \in Passed
    BY <1>12, <2>3 DEF Complete, TypeOK, Passed
  <2>5. LossOK'
    BY <1>20, <2>1, <2>2, <2>3, <2>4
  <2> QED BY <1>4, <1>5, <1>6, <2>1, <2>2, <2>5
<1>13. ASSUME NEW e \in Events, LockExpires(e) PROVE ClientInv'
  <2>1. UNCHANGED <<due, deliveries, settled, buffer, worker, runs>>
        /\ inbox' = [inbox EXCEPT ![e] = "stale"]
    BY <1>13 DEF LockExpires
  <2>2. \A x \in Events : inbox'[x] = "PROCESSED" => inbox[x] = "PROCESSED"
    BY <2>1 DEF TypeOK
  <2> QED BY <1>4, <1>5, <1>6, <1>21, <2>1, <2>2
<1>14. ASSUME NEW n \in Positions, Deliver(n) PROVE ClientInv'
  <2>1. /\ n \in due /\ due' \subseteq due /\ UNCHANGED <<settled, worker, inbox, runs>>
        /\ \A m \in Positions : deliveries'[m] = deliveries[m] \/ m = n
    BY <1>14 DEF Deliver, TypeOK
  <2>2. \A i \in DOMAIN buffer' : buffer'[i] = n \/ (i \in DOMAIN buffer /\ buffer'[i] = buffer[i])
    <3>1. buffer \in Seq(Positions) /\ buffer' = Append(buffer, n)
      BY <1>14 DEF Deliver, TypeOK
    <3>2. /\ DOMAIN buffer = 1 .. Len(buffer) /\ DOMAIN buffer' = 1 .. Len(buffer) + 1
          /\ Len(buffer) \in Nat /\ buffer'[Len(buffer) + 1] = n
          /\ \A i \in 1 .. Len(buffer) : buffer'[i] = buffer[i]
      BY <3>1
    <3>3. \A i \in 1 .. Len(buffer) + 1 : i \in 1 .. Len(buffer) \/ i = Len(buffer) + 1
      BY <3>2
    <3> QED BY <3>2, <3>3
  <2> QED BY <1>4, <1>5, <1>6, <1>21, <2>1, <2>2
<1>15. ASSUME NEW n \in Positions, AckWaitExpires(n) PROVE ClientInv'
  <2>1. /\ deliveries[n] > 0 /\ \A m \in due' : m \in due \/ m = n
        /\ UNCHANGED <<deliveries, settled, buffer, worker, inbox, runs>>
    BY <1>15 DEF AckWaitExpires
  <2> QED BY <1>4, <1>5, <1>6, <1>21, <2>1
<1> QED BY <1>8, <1>9, <1>10, <1>11, <1>12, <1>13, <1>14, <1>15 DEF ClientNext, WorkerNext

-----------------------------------------------------------------------------
\* The invariant.

LEMMA InitOK == Init => IInv
<1> SUFFICES ASSUME Init PROVE IInv
  OBVIOUS
<1>1. TypeOK
  <2>1. /\ rows = <<>> /\ stream = <<>> /\ buffer = <<>> /\ published = {} /\ deferred = {}
        /\ batch = {} /\ sent = FALSE /\ window = {} /\ due = {} /\ worker = Free /\ faults = 0
        /\ deliveries = [n \in Positions |-> 0] /\ settled = [n \in Positions |-> "open"]
        /\ inbox = [e \in Events |-> "absent"] /\ runs = [e \in Events |-> 0]
    BY DEF Init
  <2>2. /\ <<>> \in Seq(Events) /\ <<>> \in Seq(Positions) /\ Len(<<>>) = 0
        /\ {} \in SUBSET DOMAIN rows /\ FALSE \in BOOLEAN
    OBVIOUS
  <2>3. /\ rows \in Seq(Events) /\ stream \in Seq(Events) /\ buffer \in Seq(Positions)
        /\ batch \in SUBSET DOMAIN rows /\ sent \in BOOLEAN /\ Len(stream) = 0
    BY <2>1, <2>2, Zenon
  <2>4. Len(stream) <= MaxStored /\ faults \in 0 .. MaxFaults
    BY <2>1, <2>3, DeliveryAssumption
  <2>5. /\ deliveries \in [Positions -> 0 .. MaxDeliver]
        /\ settled \in [Positions -> {"open", "acked", "termed"}]
        /\ inbox \in [Events -> InboxStates] /\ runs \in [Events -> Nat]
    BY <2>1, DeliveryAssumption DEF InboxStates
  <2> QED BY <2>1, <2>3, <2>4, <2>5 DEF TypeOK
<1>2. OutboxInv
  BY DEF Init, OutboxInv, OutboxOK, PublishedIsStored
<1>3. ClientInv
  <2>1. worker = Free /\ worker.pc = "free" /\ DOMAIN buffer = {}
    BY DEF Init, Free
  <2>2. Unrun = {} /\ IsFiniteSet({}) /\ Cardinality({}) = 0 /\ faults = 0
    BY <2>1, FS_EmptySet DEF Init, Unrun, Passed
  <2>3. LossOK
    BY <2>2 DEF LossOK
  <2> QED BY <2>1, <2>3 DEF Init, ClientInv, ClientOK
<1> QED BY <1>1, <1>2, <1>3 DEF IInv

LEMMA StepOK == IInv /\ [Next]_vars => IInv'
<1> SUFFICES ASSUME TypeOK, OutboxInv, ClientInv, [Next]_vars PROVE IInv'
  BY DEF IInv
<1>1. TypeOK' /\ OutboxInv'
  BY TypeStep, OutboxStep
<1> SUFFICES ClientInv'
  BY <1>1 DEF IInv
<1>2. CASE OutboxNext
  <2>1. faults' = faults \/ faults' = faults + 1
    BY <1>2 DEF OutboxNext, PublisherNext, Commit, Retry, WindowExpires, Poll, Publish,
                PublishFails, Mark, MarkFails, Fault
  <2>2. faults' >= faults
    <3>1. faults \in Nat
      BY DeliveryAssumption DEF TypeOK
    <3> QED BY <2>1, <3>1
  <2> QED BY <1>1, <1>2, <2>2, OutboxTypes, GrowingKeeps
<1>3. CASE ClientNext
  BY <1>3, ClientStep
<1>4. CASE Crash
  <2>1. /\ buffer' = <<>> /\ worker' = Free /\ worker'.pc = "free"
        /\ UNCHANGED <<stream, due, deliveries, settled, inbox, runs>>
        /\ faults' = faults + 1
    BY <1>4, CrashTypes DEF Free
  <2>4. faults \in Nat /\ faults' >= faults
    <3>1. faults \in Nat
      BY DeliveryAssumption DEF TypeOK
    <3> QED BY <2>1, <3>1
  <2>2. Passed' \subseteq Passed
    BY <2>1 DEF Passed
  <2>3. LossOK'
    BY <1>1, <2>1, <2>2, <2>4, LossKept DEF ClientInv
  <2> QED BY <2>1, <2>3 DEF ClientInv, ClientOK
<1>5. CASE UNCHANGED vars
  <2>1. UNCHANGED <<stream, window, due, deliveries, settled, buffer, worker, inbox, runs,
                    faults>>
    BY <1>5 DEF vars, streamVars, clientVars
  <2>2. faults' >= faults
    BY <2>1, DeliveryAssumption DEF TypeOK
  <2> QED BY <1>1, <2>1, <2>2, Unextended, GrowingKeeps
<1> QED BY <1>2, <1>3, <1>4, <1>5, Split

THEOREM Invariance == Spec => []IInv
<1> QED BY InitOK, StepOK, PTL DEF Spec

\* Every row, message, delivery and claim is of its type: no position is
\* delivered more often than the consumer allows.
THEOREM TypeCorrect == Spec => []TypeOK
<1>1. IInv => TypeOK
  BY DEF IInv
<1> QED BY <1>1, Invariance, PTL

\* publishBatch never marks a row that the stream does not hold.
THEOREM MarkedIsStored == Spec => []PublishedIsStored
<1>1. IInv => PublishedIsStored
  BY DEF IInv, OutboxInv
<1> QED BY <1>1, Invariance, PTL

\* CompleteInbox and msg.Ack come after the business operation, whichever of the
\* deliveries ran it, but where its branch drops the error; and every operation
\* that is so lost failed once for itself.
THEOREM SettledRan == Spec => []SettledWasRun
<1>1. IInv => SettledWasRun
  <2> SUFFICES ASSUME TypeOK, LossOK PROVE SettledWasRun
    BY DEF IInv, ClientInv
  <2>1. Lost \subseteq Unrun
    BY DEF Lost, Unrun, Passed
  <2>2. IsFiniteSet(Unrun) /\ Unrun \subseteq Dropping /\ Cardinality(Unrun) <= faults
    BY DEF LossOK
  <2>3. /\ Cardinality(Lost) <= Cardinality(Unrun)
        /\ Cardinality(Lost) \in Nat /\ Cardinality(Unrun) \in Nat
    BY <2>1, <2>2, FS_Subset, FS_CardinalityType
  <2>4. faults \in Nat
    BY DeliveryAssumption DEF TypeOK
  <2> QED BY <2>1, <2>2, <2>3, <2>4 DEF SettledWasRun
<1> QED BY <1>1, Invariance, PTL

-----------------------------------------------------------------------------
\* Copies of a message.

Number(e) == Cardinality(Copies(e))
Forgotten(e) == IF e \in window THEN 0 ELSE 1
Unrecorded(e) == IF e \notin published /\ ~(sent /\ Current = e) THEN 1 ELSE 0

\* A copy more needs both that the id left the window and that a publication
\* was not recorded, and each of the two is a fault.
DebtOK ==
    \A e \in Events :
       Copies(e) # {} => 2 * (Number(e) - 1) + Forgotten(e) + Unrecorded(e) <= faults

LEMMA NumberIsNat ==
  ASSUME TypeOK, NEW e
  PROVE  IsFiniteSet(Copies(e)) /\ Number(e) \in Nat
<1>1. Len(stream) \in Nat /\ IsFiniteSet(1 .. Len(stream))
  BY FS_Interval DEF TypeOK
<1>2. Copies(e) \subseteq 1 .. Len(stream)
  BY DEF Copies
<1>3. IsFiniteSet(Copies(e))
  BY <1>1, <1>2, FS_Subset
<1> QED BY <1>3, FS_CardinalityType DEF Number

\* The stream is as it was, and one of the two costs a fault.
LEMMA DebtKept ==
  ASSUME TypeOK, TypeOK', DebtOK, stream' = stream,
         \A e \in Events : Copies(e) # {} =>
            Forgotten(e)' + Unrecorded(e)' <= Forgotten(e) + Unrecorded(e) + (faults' - faults)
  PROVE  DebtOK'
<1>1. \A e : Copies(e)' = Copies(e) /\ Number(e)' = Number(e)
  BY DEF Copies, Number
<1> SUFFICES ASSUME NEW e \in Events, Copies(e) # {}
             PROVE  2 * (Number(e) - 1) + Forgotten(e)' + Unrecorded(e)' <= faults'
  BY <1>1 DEF DebtOK
<1>2. Number(e) \in Nat /\ faults \in Nat /\ faults' \in Nat
  <2>1. Number(e) \in Nat
    BY NumberIsNat
  <2>2. faults \in Nat /\ faults' \in Nat
    BY DeliveryAssumption DEF TypeOK
  <2> QED BY <2>1, <2>2
<1>3. Forgotten(e) \in Nat /\ Unrecorded(e) \in Nat /\ Forgotten(e)' \in Nat /\ Unrecorded(e)' \in Nat
  BY DEF Forgotten, Unrecorded
<1>4. 2 * (Number(e) - 1) + Forgotten(e) + Unrecorded(e) <= faults
  BY DEF DebtOK
<1>5. Forgotten(e)' + Unrecorded(e)' <= Forgotten(e) + Unrecorded(e) + (faults' - faults)
  OBVIOUS
<1> QED BY <1>2, <1>3, <1>4, <1>5

\* The stream stores a copy of an event that it had forgotten and whose
\* publication was not recorded.
LEMMA DebtPaid ==
  ASSUME TypeOK, TypeOK', DebtOK, NEW e \in Events, e \notin window, e \notin published, ~sent,
         stream' = Append(stream, e), window' = window \cup {e},
         faults' >= faults, Unrecorded(e)' <= faults' - faults,
         \A x \in Events : x # e => Unrecorded(x)' <= Unrecorded(x)
  PROVE  DebtOK'
<1>1. /\ Len(stream) \in Nat /\ Len(stream') = Len(stream) + 1
      /\ \A n \in 1 .. Len(stream) : stream'[n] = stream[n]
      /\ stream'[Len(stream) + 1] = e
  BY DEF TypeOK
<1>2. Copies(e)' = Copies(e) \cup {Len(stream) + 1} /\ Len(stream) + 1 \notin Copies(e)
  BY <1>1 DEF Copies
<1>3. \A x : x # e => Copies(x)' = Copies(x)
  BY <1>1 DEF Copies
<1>4. faults \in Nat /\ faults' \in Nat
  BY DeliveryAssumption DEF TypeOK
<1>5. ASSUME NEW x \in Events, x # e, Copies(x) # {}
      PROVE  2 * (Number(x)' - 1) + Forgotten(x)' + Unrecorded(x)' <= faults'
  <2>1. Number(x)' = Number(x) /\ Number(x) \in Nat
    BY <1>3, <1>5, NumberIsNat DEF Number
  <2>2. Forgotten(x)' = Forgotten(x) /\ Forgotten(x) \in Nat
    BY <1>5 DEF Forgotten
  <2>3. Unrecorded(x)' \in Nat /\ Unrecorded(x) \in Nat /\ Unrecorded(x)' <= Unrecorded(x)
    BY <1>5 DEF Unrecorded
  <2>4. 2 * (Number(x) - 1) + Forgotten(x) + Unrecorded(x) <= faults
    BY <1>5 DEF DebtOK
  <2> QED BY <1>4, <2>1, <2>2, <2>3, <2>4
<1>6. 2 * (Number(e)' - 1) + Forgotten(e)' + Unrecorded(e)' <= faults'
  <2>1. Number(e)' = Number(e) + 1 /\ Number(e) \in Nat
    <3>1. IsFiniteSet(Copies(e)) /\ Number(e) \in Nat
      BY NumberIsNat
    <3>2. Cardinality(Copies(e) \cup {Len(stream) + 1}) = Cardinality(Copies(e)) + 1
      BY <1>2, <3>1, FS_AddElement
    <3>3. Cardinality(Copies(e)') = Cardinality(Copies(e)) + 1
      BY <1>2, <3>2, Zenon
    <3> QED BY <3>1, <3>3 DEF Number
  <2>2. Forgotten(e)' = 0 /\ Unrecorded(e)' \in Nat /\ Unrecorded(e)' <= faults' - faults
    BY DEF Forgotten, Unrecorded
  <2>3. CASE Copies(e) = {}
    <3>1. Number(e) = 0
      BY <2>3, FS_EmptySet DEF Number
    <3> QED BY <1>4, <2>1, <2>2, <3>1
  <2>4. CASE Copies(e) # {}
    <3>1. Forgotten(e) = 1 /\ Unrecorded(e) = 1
      BY DEF Forgotten, Unrecorded
    <3>2. 2 * (Number(e) - 1) + Forgotten(e) + Unrecorded(e) <= faults
      BY <2>4 DEF DebtOK
    <3> QED BY <1>4, <2>1, <2>2, <3>1, <3>2
  <2> QED BY <2>3, <2>4
<1> SUFFICES ASSUME NEW x \in Events, Copies(x)' # {}
             PROVE  2 * (Number(x)' - 1) + Forgotten(x)' + Unrecorded(x)' <= faults'
  BY DEF DebtOK
<1>7. CASE x = e
  BY <1>6, <1>7
<1>8. CASE x # e
  BY <1>3, <1>5, <1>8
<1> QED BY <1>7, <1>8

LEMMA DebtStep ==
  ASSUME TypeOK, OutboxInv, DebtOK, [Next]_vars
  PROVE  DebtOK'
<1>1. TypeOK'
  BY TypeStep
<1>2. faults \in Nat /\ faults' \in Nat
  BY <1>1, DeliveryAssumption DEF TypeOK
<1>3. sent => batch # {}
  BY DEF OutboxInv, PublishedIsStored
<1>4. batch # {} => Current \in Events /\ Current \notin published
  BY CurrentIsRow DEF OutboxInv, OutboxOK, Current
<1> USE DEF outboxVars, publisherVars, streamVars, clientVars
\* The steps that record or forget nothing.
<1>5. ASSUME UNCHANGED <<stream, published, sent>>, sent => Current' = Current,
             \/ window' = window /\ faults' >= faults
             \/ faults' = faults + 1
      PROVE  DebtOK'
  <2>1. \A e \in Events : /\ Unrecorded(e)' = Unrecorded(e) /\ Unrecorded(e) \in Nat
                          /\ Forgotten(e) \in Nat /\ Forgotten(e)' \in Nat
                          /\ Forgotten(e)' <= Forgotten(e) + (faults' - faults)
    <3> TAKE e \in Events
    <3>1. Unrecorded(e)' = Unrecorded(e)
      BY <1>5, Zenon DEF Unrecorded
    <3>2. Unrecorded(e) \in Nat
      BY DEF Unrecorded
    <3>3. Forgotten(e) \in {0, 1} /\ Forgotten(e)' \in {0, 1}
      BY DEF Forgotten
    <3>4. window' = window => Forgotten(e)' = Forgotten(e)
      BY DEF Forgotten
    <3>5. Forgotten(e)' <= Forgotten(e) + (faults' - faults)
      BY <1>2, <1>5, <3>3, <3>4
    <3> QED BY <3>1, <3>2, <3>3, <3>5
  <2>2. \A e \in Events : Forgotten(e)' + Unrecorded(e)' <=
                            Forgotten(e) + Unrecorded(e) + (faults' - faults)
    BY <1>2, <2>1
  <2> QED BY <1>1, <1>5, <2>2, DebtKept
<1>6. ASSUME NEW e \in Events, Commit(e) PROVE DebtOK'
  <2>1. UNCHANGED <<published, batch, sent, stream, window, faults>>
        /\ rows' = Append(rows, e) /\ rows \in Seq(Events)
    BY <1>6 DEF Commit, TypeOK
  <2>2. batch # {} => Current' = Current
    BY <2>1, CurrentIsRow DEF Current, TypeOK
  <2> QED BY <1>2, <1>3, <1>5, <2>1, <2>2
<1>7. ASSUME NEW e \in Events, Retry(e) \/ WindowExpires(e) PROVE DebtOK'
  <2>1. UNCHANGED <<rows, published, batch, sent, stream>>
        /\ ((window' = window /\ faults' >= faults) \/ faults' = faults + 1)
    BY <1>2, <1>7 DEF Retry, WindowExpires, Fault
  <2>2. Current' = Current
    BY <2>1 DEF Current
  <2> QED BY <1>5, <2>1, <2>2
<1>8. CASE Poll
  <2>1. UNCHANGED <<published, sent, stream, window, faults>> /\ ~sent
    BY <1>3, <1>8 DEF Poll
  <2> QED BY <1>2, <1>5, <2>1
\* The publisher.
<1>9. CASE Publish
  <2>1. /\ UNCHANGED <<rows, published, batch, faults>> /\ ~sent /\ sent' = TRUE /\ batch # {}
        /\ Accept(Current)
    BY <1>9 DEF Publish
  <2>2. Current' = Current
    BY <2>1 DEF Current
  <2>3. \A e \in Events : /\ Unrecorded(e) \in Nat /\ Unrecorded(e)' \in Nat
                          /\ Unrecorded(e)' <= Unrecorded(e)
                          /\ (e = Current => Unrecorded(e)' = 0)
    BY <2>1, <2>2 DEF Unrecorded
  <2>4. CASE UNCHANGED <<stream, window>>
    <3>1. \A e \in Events : Forgotten(e)' = Forgotten(e) /\ Forgotten(e) \in Nat
      BY <2>4 DEF Forgotten
    <3>2. \A e \in Events : Forgotten(e)' + Unrecorded(e)' <=
                              Forgotten(e) + Unrecorded(e) + (faults' - faults)
      BY <1>2, <2>1, <2>3, <3>1
    <3> QED BY <1>1, <2>4, <3>2, DebtKept
  <2>5. CASE /\ Current \notin window
             /\ stream' = Append(stream, Current) /\ window' = window \cup {Current}
    <3>1. PICK e \in Events : e = Current
      BY <1>4, <2>1
    <3>2. Unrecorded(e)' <= faults' - faults /\ faults' >= faults
      BY <1>2, <2>1, <2>3, <3>1
    <3>3. /\ e \notin window /\ e \notin published
          /\ stream' = Append(stream, e) /\ window' = window \cup {e}
      BY <1>4, <2>1, <2>5, <3>1
    <3>4. \A x \in Events : x # e => Unrecorded(x)' <= Unrecorded(x)
      BY <2>3
    <3> QED BY <1>1, <2>1, <3>2, <3>3, <3>4, DebtPaid
  <2> QED BY <2>1, <2>4, <2>5 DEF Accept
<1>10. CASE PublishFails
  <2>1. /\ UNCHANGED <<rows, published, sent>> /\ ~sent /\ batch # {} /\ faults' = faults + 1
        /\ Accept(Current) \/ UNCHANGED <<stream, window, due>>
    BY <1>10 DEF PublishFails, Fault
  <2>2. CASE UNCHANGED <<stream, window>>
    BY <1>5, <2>1, <2>2
  <2>3. CASE /\ Current \notin window
             /\ stream' = Append(stream, Current) /\ window' = window \cup {Current}
    <3>1. \A x \in Events : Unrecorded(x)' = Unrecorded(x) /\ Unrecorded(x) \in {0, 1}
      BY <2>1 DEF Unrecorded
    <3>2. faults' >= faults /\ faults' - faults = 1
      BY <1>2, <2>1
    <3>3. PICK e \in Events : e = Current
      BY <1>4, <2>1
    <3>4. /\ Unrecorded(e)' <= faults' - faults
          /\ \A x \in Events : x # e => Unrecorded(x)' <= Unrecorded(x)
      BY <3>1, <3>2
    <3>5. /\ e \notin window /\ e \notin published
          /\ stream' = Append(stream, e) /\ window' = window \cup {e}
      BY <1>4, <2>1, <2>3, <3>3
    <3> QED BY <1>1, <2>1, <3>2, <3>4, <3>5, DebtPaid
  <2> QED BY <2>1, <2>2, <2>3 DEF Accept
<1>11. CASE Mark
  <2>1. /\ UNCHANGED <<rows, stream, window, faults>> /\ sent /\ sent' = FALSE
        /\ published' = published \cup {Current}
    BY <1>11 DEF Mark, Sent
  <2>2. \A e \in Events : /\ Unrecorded(e) \in Nat /\ Unrecorded(e)' \in Nat
                          /\ Unrecorded(e)' <= Unrecorded(e)
                          /\ Forgotten(e)' = Forgotten(e) /\ Forgotten(e) \in Nat
    BY <2>1 DEF Unrecorded, Forgotten
  <2>3. \A e \in Events : Forgotten(e)' + Unrecorded(e)' <=
                            Forgotten(e) + Unrecorded(e) + (faults' - faults)
    BY <1>2, <2>1, <2>2
  <2> QED BY <1>1, <2>1, <2>3, DebtKept
<1>12. CASE MarkFails \/ Crash
  <2>1. UNCHANGED <<rows, published, stream, window>> /\ faults' = faults + 1
    BY <1>12 DEF MarkFails, Crash, Fault
  <2>2. \A e \in Events : /\ Unrecorded(e) \in {0, 1} /\ Unrecorded(e)' \in {0, 1}
                          /\ Forgotten(e)' = Forgotten(e) /\ Forgotten(e) \in Nat
    BY <2>1 DEF Unrecorded, Forgotten
  <2>3. \A e \in Events : Forgotten(e)' + Unrecorded(e)' <=
                            Forgotten(e) + Unrecorded(e) + (faults' - faults)
    BY <1>2, <2>1, <2>2
  <2> QED BY <1>1, <2>1, <2>3, DebtKept
<1>13. CASE ClientNext \/ UNCHANGED vars
  <2>1. UNCHANGED <<rows, published, batch, sent, stream, window>>
    BY <1>13, ClientLeaves DEF vars
  <2>2. Current' = Current
    BY <2>1 DEF Current
  <2>3. faults' = faults \/ faults' = faults + 1
    BY <1>13 DEF ClientNext, WorkerNext, Take, TakeFails, Run, RunDropped, Refuse, RunFails, Complete,
                 Acknowledge, LockExpires, Deliver, AckWaitExpires, Fault, vars
  <2>4. faults' >= faults
    BY <1>2, <2>3
  <2> QED BY <1>5, <2>1, <2>2, <2>4
<1> QED BY <1>6, <1>7, <1>8, <1>9, <1>10, <1>11, <1>12, <1>13, Split
        DEF OutboxNext, PublisherNext

\* OUTBOX_INBOX.md: "JetStream/NATS de-duplication uses the stable message
\* ID": each copy of a message beyond the first costs two faults, a publication
\* that was not recorded and an id that left the window.
THEOREM CopiesCostFaults == Spec => []DuplicatesNeedTwoFaults
<1>1. Init => DebtOK
  <2> SUFFICES ASSUME Init, NEW e \in Events PROVE Copies(e) = {}
    BY DEF DebtOK
  <2>1. stream = <<>>
    BY DEF Init
  <2> QED BY <2>1 DEF Copies
<1>2. IInv /\ DebtOK /\ [Next]_vars => DebtOK'
  BY DebtStep DEF IInv
<1>3. IInv /\ DebtOK => DuplicatesNeedTwoFaults
  <2> SUFFICES ASSUME TypeOK, DebtOK, NEW e \in Events
               PROVE  2 * (Number(e) - 1) <= faults
    BY DEF IInv, DuplicatesNeedTwoFaults, Number
  <2>1. Number(e) \in Nat /\ faults \in Nat
    BY NumberIsNat, DeliveryAssumption DEF TypeOK
  <2>2. CASE Copies(e) = {}
    <3>1. Number(e) = 0
      BY <2>2, FS_EmptySet DEF Number
    <3> QED BY <2>1, <3>1
  <2>3. CASE Copies(e) # {}
    <3>1. 2 * (Number(e) - 1) + Forgotten(e) + Unrecorded(e) <= faults
      BY <2>3 DEF DebtOK
    <3>2. Forgotten(e) \in Nat /\ Unrecorded(e) \in Nat
      BY DEF Forgotten, Unrecorded
    <3> QED BY <2>1, <3>1, <3>2
  <2> QED BY <2>2, <2>3
<1> QED BY <1>1, <1>2, <1>3, Invariance, PTL DEF Spec

=============================================================================
