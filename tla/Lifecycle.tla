----------------------------- MODULE Lifecycle -----------------------------
(***************************************************************************)
(* From a quote to a completed project: quotes and their approval by       *)
(* another user, projects that stand on approved quotes, completion        *)
(* evidence and completion reviews.                                        *)
(*                                                                         *)
(* Submitting a quote and reviewing a completion read a row without a lock *)
(* and write it later without repeating the check; so does the creation of *)
(* a project with the quote it reads.  Other requests run in between.      *)
(* Approving a quote locks its row.                                        *)
(***************************************************************************)
EXTENDS Integers, FiniteSetsExt

CONSTANTS
    Users,       \* users of the tenant
    Quotes,
    Projects,
    Tasks,       \* tasks of the tenant
    Handlers,    \* concurrent HTTP request goroutines
    None,        \* SQL NULL
    MaxReviews   \* bound: completion reviews ever submitted

ASSUME LifecycleAssumption ==
    /\ None \notin Users \cup Quotes \cup Tasks
    /\ MaxReviews \in Nat
    /\ IsFiniteSet(Handlers)

Reviews == 1 .. MaxReviews

\* Evidence and reviews are about a task, or with a NULL task_id the project.
Subjects == Tasks \cup {None}

VARIABLES
    quote,        \* status of each quote
    createdBy,    \* created_by of a quote
    approvedBy,   \* approved_by of a quote
    project,      \* status of each project
    quoteOf,      \* quote_id of a project
    evidence,     \* project_evidence rows, by project and subject
    review,       \* completion_reviews
    handler       \* what each request holds between its read and its write

quoteVars   == <<quote, createdBy, approvedBy>>
projectVars == <<project, quoteOf, evidence>>
vars == <<quoteVars, projectVars, review, handler>>

Idle   == [pc |-> "idle"]
NoRow  == [status |-> "Absent", project |-> None, subject |-> None,
           submitter |-> None, reviewer |-> None]

InFlight ==
    [pc : {"submitting"}, quote : Quotes]
    \cup [pc : {"creating"}, project : Projects, quote : Quotes]
    \cup [pc : {"reviewing"}, review : Reviews, actor : Users, verdict : {"Approved", "Returned"}]

TypeOK ==
    /\ quote      \in [Quotes -> {"Absent", "Draft", "Pending_Approval", "Approved"}]
    /\ createdBy  \in [Quotes -> Users \cup {None}]
    /\ approvedBy \in [Quotes -> Users \cup {None}]
    /\ project    \in [Projects -> {"Absent", "Planned", "Completed"}]
    /\ quoteOf    \in [Projects -> Quotes \cup {None}]
    /\ evidence   \in SUBSET (Projects \X Subjects)
    /\ review     \in [Reviews -> {NoRow} \cup
                         [status : {"Submitted", "Returned", "Approved"}, project : Projects,
                          subject : Subjects, submitter : Users, reviewer : Users \cup {None}]]
    /\ handler    \in [Handlers -> {Idle} \cup InFlight]

Init ==
    /\ quote = [q \in Quotes |-> "Absent"]
    /\ createdBy = [q \in Quotes |-> None] /\ approvedBy = [q \in Quotes |-> None]
    /\ project = [p \in Projects |-> "Absent"] /\ quoteOf = [p \in Projects |-> None]
    /\ evidence = {}
    /\ review = [r \in Reviews |-> NoRow]
    /\ handler = [h \in Handlers |-> Idle]

Start(h, request) == handler[h] = Idle /\ handler' = [handler EXCEPT ![h] = request]
Finish(h) == handler' = [handler EXCEPT ![h] = Idle]

-----------------------------------------------------------------------------
\* Quotes.

\* CreateQuoteTransaction.
CreateQuote(u, q) ==
    /\ quote[q] = "Absent"
    /\ quote' = [quote EXCEPT ![q] = "Draft"]
    /\ createdBy' = [createdBy EXCEPT ![q] = u]
    /\ UNCHANGED <<approvedBy, projectVars, review, handler>>

\* The statuses a quote can be submitted in; no code sets the second.
Submittable == {"Draft", "Returned"}

\* SubmitQuoteApprovalHandler up to its checks: an unlocked SELECT.
ReadQuote(h, u, q) ==
    /\ quote[q] \in Submittable
    /\ createdBy[q] # u
    /\ Start(h, [pc |-> "submitting", quote |-> q])
    /\ UNCHANGED <<quoteVars, projectVars, review>>

\* Its UPDATE, with no condition on the status that was read.
SubmitQuote(h) ==
    /\ handler[h].pc = "submitting"
    /\ LET q == handler[h].quote IN
       /\ quote' = [quote EXCEPT ![q] = "Pending_Approval"]
    /\ Finish(h)
    /\ UNCHANGED <<createdBy, approvedBy, projectVars, review>>

\* Faulty variant: the creator may approve.
MayApproveAny(u, q) == quote[q] \in {"Pending_Approval", "Draft"}

\* What ApproveQuoteTransaction checks on the locked row.
MayApprove(u, q) == createdBy[q] # u /\ quote[q] \in {"Pending_Approval", "Draft"}

ApproveQuote(u, q) ==
    /\ MayApprove(u, q)
    /\ quote' = [quote EXCEPT ![q] = "Approved"]
    /\ approvedBy' = [approvedBy EXCEPT ![q] = u]
    /\ UNCHANGED <<createdBy, projectVars, review, handler>>

-----------------------------------------------------------------------------
\* Projects.

\* A project identifier is new to every request.
Unused(p) == project[p] = "Absent" /\ \A h \in Handlers : handler[h] \notin
                                        [pc : {"creating"}, project : {p}, quote : Quotes]

\* The statuses of a quote a project can be created from.
Buildable == {"Approved"}

\* CreateProjectTransaction up to its check of the quote.
ReadQuoteForProject(h, p, q) ==
    /\ Unused(p)
    /\ quote[q] \in Buildable
    /\ Start(h, [pc |-> "creating", project |-> p, quote |-> q])
    /\ UNCHANGED <<quoteVars, projectVars, review>>

\* Faulty variant: a new project gets a status that nothing else knows.
InsertNew(p, q) ==
    /\ project' = [project EXCEPT ![p] = "New"]
    /\ quoteOf' = [quoteOf EXCEPT ![p] = q]
    /\ UNCHANGED <<quoteVars, evidence, review>>

Insert(p, q) ==
    /\ project' = [project EXCEPT ![p] = "Planned"]
    /\ quoteOf' = [quoteOf EXCEPT ![p] = q]
    /\ UNCHANGED <<quoteVars, evidence, review>>

\* Its INSERT after that check.
InsertProject(h) ==
    /\ handler[h].pc = "creating"
    /\ Insert(handler[h].project, handler[h].quote)
    /\ Finish(h)

\* The transaction for a project without a quote.
InsertProjectAlone(p) ==
    /\ Unused(p)
    /\ Insert(p, None)
    /\ UNCHANGED handler

\* The evidence a review of s counts: for the project all, for a task its own.
HasEvidence(p, s) == \E x \in Subjects : <<p, x>> \in evidence /\ s \in {None, x}

\* AddProjectEvidence: the task is not compared with the project.
AddEvidence(p, s) ==
    /\ project[p] # "Absent"
    /\ evidence' = evidence \cup {<<p, s>>}
    /\ UNCHANGED <<quoteVars, project, quoteOf, review, handler>>

-----------------------------------------------------------------------------
\* Completion reviews.

\* uq_completion_review_open: one Submitted or Returned review of a subject.
\* A row that would make a second one fails.
IndexAdmits(r, p, s) ==
    \A x \in Reviews \ {r} : ~ /\ review[x].status \in {"Submitted", "Returned"}
                               /\ review[x].project = p
                               /\ review[x].subject = s

\* SubmitCompletionReview.  No evidence is ever deleted.  No task is ever
\* linked to a project, since LinkTaskToProject gives its last statement three
\* arguments for four placeholders and rolls back, so none is unfinished.
SubmitReview(r, u, p, s) ==
    /\ review[r] = NoRow
    /\ \A x \in 1 .. r - 1 : review[x] # NoRow
    /\ project[p] # "Absent"
    /\ HasEvidence(p, s)
    /\ IndexAdmits(r, p, s)
    /\ review' = [review EXCEPT ![r] = [status |-> "Submitted", project |-> p, subject |-> s,
                                        submitter |-> u, reviewer |-> None]]
    /\ UNCHANGED <<quoteVars, projectVars, handler>>

\* The status of a review that can be reviewed.
Reviewable == {"Submitted"}

\* Faulty variant: the submitter may return the review.
IsPeerToApprove(u, r, verdict) == review[r].submitter # u \/ verdict = "Returned"

\* The submitter may neither approve nor return the review.
IsPeer(u, r, verdict) == review[r].submitter # u

\* ReviewCompletion up to its checks: an unlocked SELECT.
ReadReview(h, u, r, verdict) ==
    /\ review[r].status \in Reviewable
    /\ IsPeer(u, r, verdict)
    /\ Start(h, [pc |-> "reviewing", review |-> r, actor |-> u, verdict |-> verdict])
    /\ UNCHANGED <<quoteVars, projectVars, review>>

\* Faulty variant: the review of a task leaves the project as it is.
CompletesWhole(r, verdict) == verdict = "Approved" /\ review[r].subject = None

\* An approved review completes the project, whatever its subject.
Completes(r, verdict) == verdict = "Approved"

\* The UPDATEs of ReviewCompletion: the review by its id alone, then the
\* project.
ConcludeReview(h) ==
    /\ handler[h].pc = "reviewing"
    /\ LET r == handler[h].review
           p == review[r].project
           v == handler[h].verdict
       IN  /\ v = "Returned" => IndexAdmits(r, p, review[r].subject)
           /\ review' = [review EXCEPT ![r].status = v, ![r].reviewer = handler[h].actor]
           /\ project' = IF Completes(r, v) THEN [project EXCEPT ![p] = "Completed"] ELSE project
    /\ Finish(h)
    /\ UNCHANGED <<quoteVars, quoteOf, evidence>>

\* A request ends before its write: a statement fails, the index refuses it,
\* the client is gone or the process stops.
Abandon(h) ==
    /\ handler[h] # Idle
    /\ Finish(h)
    /\ UNCHANGED <<quoteVars, projectVars, review>>

Next ==
    \/ \E u \in Users, q \in Quotes : CreateQuote(u, q) \/ ApproveQuote(u, q)
    \/ \E h \in Handlers, u \in Users, q \in Quotes : ReadQuote(h, u, q)
    \/ \E h \in Handlers, p \in Projects, q \in Quotes : ReadQuoteForProject(h, p, q)
    \/ \E p \in Projects : InsertProjectAlone(p) \/ \E s \in Subjects : AddEvidence(p, s)
    \/ \E r \in Reviews, u \in Users, p \in Projects, s \in Subjects : SubmitReview(r, u, p, s)
    \/ \E h \in Handlers, u \in Users, r \in Reviews, v \in {"Approved", "Returned"} :
           ReadReview(h, u, r, v)
    \/ \E h \in Handlers : SubmitQuote(h) \/ InsertProject(h) \/ ConcludeReview(h) \/ Abandon(h)

Spec == Init /\ [][Next]_vars

-----------------------------------------------------------------------------

\* V10_CUSTOMER_PROJECT_LIFECYCLE.md: "Quote approval rejects self-approval by
\* the quote creator", and "A project linked to a quote requires the quote to
\* be `Approved`".  Whatever stale submission takes a quote back, no project
\* stands on a quote that nobody but its creator ever approved.
BuiltOnApproval ==
    \A p \in Projects :
        LET q == quoteOf[p] IN q # None => approvedBy[q] \notin {None, createdBy[q]}

\* V11_PROJECT_EXECUTION.md, the completion gate: "At least one completion
\* evidence record" and "The completion reviewer to be different from the
\* submitter".  However reviewers overtake each other, a completed project has
\* a concluded review that shows both.
CompletedByPeer ==
    \A p \in Projects : project[p] = "Completed" =>
        \E r \in Reviews : /\ review[r].project = p
                           /\ HasEvidence(p, review[r].subject)
                           /\ review[r].reviewer \notin {None, review[r].submitter}

\* V11_PROJECT_EXECUTION.md: "`Approved` review changes the project status to
\* `Completed`".  No review is approved while its project is not completed.
ApprovedCompletes ==
    \A r \in Reviews :
        review[r].status = "Approved" => project[review[r].project] = "Completed"

=============================================================================
