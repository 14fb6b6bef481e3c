------------------------------- MODULE Field -------------------------------
(***************************************************************************)
(* Field attendance and job telemetry: technicians clock in and out and    *)
(* record events, and GetFieldTelemetry reads two lists and two summaries  *)
(* by four statements of one READ COMMITTED transaction.  GPS, photos and  *)
(* signatures are present or not; everything happens today.                *)
(***************************************************************************)
EXTENDS Integers, Sequences, FiniteSets

CONSTANTS
    Technicians,
    EventTypes,  \* event types a client may send
    ListLimit,   \* LIMIT of the list of sessions (100 in the code)
    EventLimit   \* LIMIT of the list of events (150 in the code)

ASSUME FieldAssumption == IsFiniteSet(Technicians) /\ {ListLimit, EventLimit} \subseteq Nat

AllowedTypes == {"ARRIVAL", "DEPARTURE", "CUSTOMER_SIGNED", "FIRST_TIME_FIX",
                 "REVISIT_REQUIRED", "JOB_NOTE"}

VARIABLES
    sessions,   \* rows of field_attendance in the order of clock_in_at
    jobEvents,  \* types of the rows of field_job_events in their order
    telemetry,  \* what a request for telemetry has read
    recorded    \* history: what was recorded since it began

fieldVars == <<sessions, jobEvents, telemetry, recorded>>

Session == [user : Technicians, status : {"OPEN", "CLOSED"}]

\* The statements, in order; each request has a list of those still to come.
Statements == <<"attendance", "job_events", "telemetry_summary", "job_summary">>

Unloaded == [next |-> 0, attendance |-> << >>, job_events |-> << >>, active |-> 0, signed |-> 0]

FieldTypeOK ==
    /\ sessions  \in Seq(Session)
    /\ jobEvents \in Seq(AllowedTypes)
    /\ telemetry.next \in 0 .. Len(Statements) + 1
    /\ recorded \subseteq {"session", "event"}

FieldInit ==
    /\ sessions = << >>
    /\ jobEvents = << >>
    /\ telemetry = Unloaded
    /\ recorded = {}

Loading == telemetry.next \in 1 .. Len(Statements)
Loaded  == telemetry.next > Len(Statements)

Record(what) == recorded' = IF Loading THEN recorded \cup {what} ELSE recorded

-----------------------------------------------------------------------------
\* RecordFieldAttendance and RecordFieldJobEvent.

OpenRows(rows) == {i \in DOMAIN rows : rows[i].status = "OPEN"}

\* Faulty variant: the index is not unique.
OpenAdmitsAll(u) == TRUE

\* unique index on (tenant_id, user_id) where status = 'OPEN'
OpenAdmits(u) == \A i \in OpenRows(sessions) : sessions[i].user # u

\* CLOCK_IN needs a position and a photo.
ClockIn(u, proof) ==
    /\ proof /\ OpenAdmits(u)
    /\ sessions' = Append(sessions, [user |-> u, status |-> "OPEN"])
    /\ Record("session")
    /\ UNCHANGED <<jobEvents, telemetry>>

\* CLOCK_OUT closes whatever is open, and succeeds when nothing is.
ClockOut(u) ==
    /\ sessions' = [i \in DOMAIN sessions |->
           IF sessions[i].user = u THEN [sessions[i] EXCEPT !.status = "CLOSED"] ELSE sessions[i]]
    /\ IF sessions' = sessions THEN UNCHANGED recorded ELSE Record("session")
    /\ UNCHANGED <<jobEvents, telemetry>>

\* A signature event needs a signature.
JobEvent(type, signature) ==
    /\ type \in AllowedTypes
    /\ type = "CUSTOMER_SIGNED" => signature
    /\ jobEvents' = Append(jobEvents, type)
    /\ Record("event")
    /\ UNCHANGED <<sessions, telemetry>>

-----------------------------------------------------------------------------
\* GetFieldTelemetry.

\* ORDER BY ... DESC LIMIT n
Latest(rows, n) == SubSeq(rows, IF Len(rows) > n THEN Len(rows) - n + 1 ELSE 1, Len(rows))

Signed(events) == Cardinality({i \in DOMAIN events : events[i] = "CUSTOMER_SIGNED"})

Load ==
    /\ telemetry = Unloaded
    /\ telemetry' = [telemetry EXCEPT !.next = 1]
    /\ recorded' = {}
    /\ UNCHANGED <<sessions, jobEvents>>

\* The next statement sees what is committed when it runs.
RunStatement ==
    /\ Loading
    /\ LET read == [telemetry EXCEPT !.next = @ + 1] IN
       telemetry' =
           CASE Statements[telemetry.next] = "attendance" ->
                    [read EXCEPT !.attendance = Latest(sessions, ListLimit)]
             [] Statements[telemetry.next] = "job_events" ->
                    [read EXCEPT !.job_events = Latest(jobEvents, EventLimit)]
             [] Statements[telemetry.next] = "telemetry_summary" ->
                    [read EXCEPT !.active = Cardinality(OpenRows(sessions))]
             [] Statements[telemetry.next] = "job_summary" ->
                    [read EXCEPT !.signed = Signed(jobEvents)]
    /\ UNCHANGED <<sessions, jobEvents, recorded>>

Recording ==
    \/ \E u \in Technicians, proof \in BOOLEAN : ClockIn(u, proof)
    \/ \E u \in Technicians : ClockOut(u)
    \/ \E type \in EventTypes, signature \in BOOLEAN : JobEvent(type, signature)

-----------------------------------------------------------------------------

\* V13_FIELD_SERVICE_TELEMETRY.md: "A tenant/user can have only one open
\* attendance session", however many devices clock in; and the answer's
\* summaries count what its lists show, and what the lists' limits cut off,
\* unless something was recorded between its statements.
TelemetryAgrees ==
    Loaded =>
        /\ telemetry.active <= Cardinality(Technicians)
        /\ "session" \notin recorded =>
               LET listed == Cardinality(OpenRows(telemetry.attendance)) IN
               /\ listed <= telemetry.active
               /\ Len(telemetry.attendance) < ListLimit => listed = telemetry.active
        /\ "event" \notin recorded =>
               /\ Signed(telemetry.job_events) <= telemetry.signed
               /\ Len(telemetry.job_events) < EventLimit =>
                      Signed(telemetry.job_events) = telemetry.signed

=============================================================================
