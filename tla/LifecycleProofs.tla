-------------------------- MODULE LifecycleProofs --------------------------
(***************************************************************************)
(* Theorems about Lifecycle, for any users, quotes, projects, tasks and    *)
(* number of concurrent requests.                                          *)
(***************************************************************************)
EXTENDS Lifecycle, TLAPS

Creating(h)  == handler[h] \in [pc : {"creating"}, project : Projects, quote : Quotes]
Reviewing(h) == handler[h] \in [pc : {"reviewing"}, review : Reviews, actor : Users,
                                verdict : {"Approved", "Returned"}]

\* A quote somebody relies on: approved, read for a project, or built upon.
Relied(q) ==
    \/ quote[q] = "Approved"
    \/ \E h \in Handlers : Creating(h) /\ handler[h].quote = q
    \/ \E p \in Projects : quoteOf[p] = q

\* A quote somebody relies on exists and was approved by a second user.
QuotesApproved ==
    \A q \in Quotes : Relied(q) =>
        quote[q] # "Absent" /\ approvedBy[q] \notin {None, createdBy[q]}

\* A project under creation does not exist yet and is under creation once.
ProjectsFresh ==
    /\ \A h \in Handlers : Creating(h) => project[handler[h].project] = "Absent"
    /\ \A h, g \in Handlers : Creating(h) /\ Creating(g) /\ handler[h].project = handler[g].project
                                  => h = g

\* A review that was read is a row of the table.
RowsRead == \A h \in Handlers : Reviewing(h) => review[handler[h].review] # NoRow

\* HasEvidence, of any table of evidence.
Shown(table, p, s) == \E x \in Subjects : <<p, x>> \in table /\ s \in {None, x}

\* The users that have concluded a review, or are about to, are not its
\* submitter; and what a submitted review shows does not go away.
ReviewsSound ==
    /\ \A h \in Handlers : Reviewing(h) =>
           handler[h].actor # review[handler[h].review].submitter
    /\ \A r \in Reviews : review[r] # NoRow =>
           /\ project[review[r].project] # "Absent"
           /\ Shown(evidence, review[r].project, review[r].subject)
           /\ review[r].reviewer # review[r].submitter

\* CompletedByPeer.
CompletedShown ==
    \A p \in Projects : project[p] = "Completed" =>
        \E r \in Reviews : /\ review[r].project = p
                           /\ Shown(evidence, p, review[r].subject)
                           /\ review[r].reviewer \notin {None, review[r].submitter}

TypeInv == TypeOK /\ RowsRead

-----------------------------------------------------------------------------
\* Type correctness.

\* What the states of a row and of a request are.
Row == [status : {"Submitted", "Returned", "Approved"}, project : Projects,
        subject : Subjects, submitter : Users, reviewer : Users \cup {None}]

LEMMA TypeInit == ASSUME Init PROVE TypeInv
  BY LifecycleAssumption DEF Init, TypeInv, TypeOK, RowsRead, Reviewing, Idle

\* What a request in flight holds, by its pc.
LEMMA InFlightFields ==
  ASSUME TypeOK, NEW h \in Handlers
  PROVE  /\ handler[h].pc = "submitting" => handler[h].quote \in Quotes
         /\ handler[h].pc = "creating" => Creating(h)
         /\ handler[h].pc = "reviewing" => Reviewing(h)
         /\ Creating(h) => /\ handler[h].project \in Projects
                           /\ handler[h].quote \in Quotes
         /\ Reviewing(h) => /\ handler[h].review \in Reviews
                            /\ handler[h].actor \in Users
                            /\ handler[h].verdict \in {"Approved", "Returned"}
  BY DEF TypeOK, InFlight, Idle, Creating, Reviewing

LEMMA RowFields == NoRow \notin Row /\ NoRow.status = "Absent"
  BY DEF NoRow, Row

LEMMA TypeStep == ASSUME TypeInv, [Next]_vars PROVE TypeInv'
<1> USE DEF TypeInv
<1>a. review \in [Reviews -> {NoRow} \cup Row]
  BY DEF TypeOK, Row
<1>1. CASE UNCHANGED vars
  BY <1>1 DEF vars, quoteVars, projectVars, TypeOK, RowsRead, Reviewing
<1>2. ASSUME NEW u \in Users, NEW q \in Quotes, CreateQuote(u, q) PROVE TypeInv'
  BY <1>2 DEF CreateQuote, projectVars, TypeOK, RowsRead, Reviewing
<1>3. ASSUME NEW u \in Users, NEW q \in Quotes, ApproveQuote(u, q) PROVE TypeInv'
  BY <1>3 DEF ApproveQuote, projectVars, TypeOK, RowsRead, Reviewing
<1>4. ASSUME NEW h \in Handlers, NEW u \in Users, NEW q \in Quotes, ReadQuote(h, u, q) PROVE TypeInv'
  BY <1>4 DEF ReadQuote, Start, quoteVars, projectVars, TypeOK, InFlight, RowsRead, Reviewing, Idle
<1>5. ASSUME NEW h \in Handlers, NEW p \in Projects, NEW q \in Quotes, ReadQuoteForProject(h, p, q)
      PROVE TypeInv'
  BY <1>5 DEF ReadQuoteForProject, Start, quoteVars, projectVars, TypeOK, InFlight, RowsRead, Reviewing, Idle
<1>6. ASSUME NEW p \in Projects, InsertProjectAlone(p) PROVE TypeInv'
  BY <1>6 DEF InsertProjectAlone, Insert, quoteVars, TypeOK, RowsRead, Reviewing, Idle
<1>7. ASSUME NEW p \in Projects, NEW s \in Subjects, AddEvidence(p, s) PROVE TypeInv'
  BY <1>7 DEF AddEvidence, quoteVars, TypeOK, RowsRead, Reviewing, Idle
<1>8. ASSUME NEW r \in Reviews, NEW u \in Users, NEW p \in Projects, NEW s \in Subjects,
             SubmitReview(r, u, p, s)
      PROVE TypeInv'
  BY <1>8 DEF SubmitReview, quoteVars, projectVars, TypeOK, RowsRead, Reviewing
<1>9. ASSUME NEW h \in Handlers, NEW u \in Users, NEW r \in Reviews,
             NEW v \in {"Approved", "Returned"}, ReadReview(h, u, r, v)
      PROVE TypeInv'
  <2>1. review[r] # NoRow
    BY <1>9, RowFields DEF ReadReview, Reviewable
  <2>2. QED
    BY <1>9, <2>1 DEF ReadReview, Start, quoteVars, projectVars, TypeOK, InFlight,
                      RowsRead, Reviewing, Idle
<1>10. ASSUME NEW h \in Handlers, SubmitQuote(h) PROVE TypeInv'
  <2>1. handler[h].quote \in Quotes
    BY <1>10, InFlightFields DEF SubmitQuote
  <2>2. QED
    BY <1>10, <2>1 DEF SubmitQuote, Finish, projectVars, TypeOK, RowsRead, Reviewing, Idle
<1>11. ASSUME NEW h \in Handlers, InsertProject(h) PROVE TypeInv'
  <2>1. handler[h].quote \in Quotes /\ handler[h].project \in Projects
    BY <1>11, InFlightFields DEF InsertProject
  <2>2. QED
    BY <1>11, <2>1 DEF InsertProject, Insert, Finish, quoteVars, TypeOK, RowsRead, Reviewing, Idle
<1>12. ASSUME NEW h \in Handlers, ConcludeReview(h) PROVE TypeInv'
  <2> DEFINE r == handler[h].review
             p == review[r].project
  <2>1. /\ r \in Reviews /\ handler[h].actor \in Users
        /\ handler[h].verdict \in {"Approved", "Returned"}
        /\ review[r] \in Row
    BY <1>a, <1>12, InFlightFields DEF ConcludeReview, RowsRead
  <2>2. [review[r] EXCEPT !.status = handler[h].verdict, !.reviewer = handler[h].actor] \in Row
    BY <2>1 DEF Row
  <2>3. /\ review' \in [Reviews -> {NoRow} \cup Row]
        /\ \A x \in Reviews : review[x] # NoRow => review'[x] # NoRow
    BY <1>a, <1>12, <2>1, <2>2, RowFields DEF ConcludeReview
  <2>4. project' \in [Projects -> {"Absent", "Planned", "Completed"}]
    BY <1>12, <2>1 DEF ConcludeReview, Row, TypeOK
  <2>5. TypeOK'
    BY <1>12, <2>1, <2>3, <2>4 DEF ConcludeReview, Finish, quoteVars, TypeOK, Row
  <2>6. RowsRead'
    BY <1>12, <2>3 DEF ConcludeReview, Finish, RowsRead, Reviewing, Idle, TypeOK
  <2>7. QED
    BY <2>5, <2>6
<1>13. ASSUME NEW h \in Handlers, Abandon(h) PROVE TypeInv'
  BY <1>13 DEF Abandon, Finish, quoteVars, projectVars, TypeOK, RowsRead, Reviewing, Idle
<1>14. QED
  BY <1>1, <1>2, <1>3, <1>4, <1>5, <1>6, <1>7, <1>8, <1>9, <1>10, <1>11, <1>12, <1>13 DEF Next

\* The tables and requests have the types the code gives them.
THEOREM TypeCorrect == Spec => []TypeOK
<1>1. Init => TypeInv
  BY TypeInit
<1>2. TypeInv /\ [Next]_vars => TypeInv'
  BY TypeStep
<1>3. TypeInv => TypeOK
  BY DEF TypeInv
<1>4. QED
  BY <1>1, <1>2, <1>3, PTL DEF Spec

-----------------------------------------------------------------------------
\* Projects stand on approved quotes.

QuoteInv == TypeInv /\ QuotesApproved

LEMMA QuoteInit == ASSUME Init PROVE QuotesApproved
  BY LifecycleAssumption DEF Init, QuotesApproved, Relied, Creating, Idle

\* A request that is not a project's creation, or ends, leaves the others'.
LEMMA CreatingKept ==
  ASSUME TypeOK,
         handler' = handler \/ \E h \in Handlers :
                                 \/ handler' = [handler EXCEPT ![h] = Idle]
                                 \/ \E x : /\ x.pc # "creating"
                                          /\ handler' = [handler EXCEPT ![h] = x]
  PROVE  \A g \in Handlers : Creating(g)' => Creating(g) /\ handler'[g] = handler[g]
  BY DEF Creating, Idle, TypeOK

\* A step that leaves the quotes and the projects' quotes alone keeps the
\* invariant if it starts no creation.
LEMMA QuotesKept ==
  ASSUME QuotesApproved, UNCHANGED <<quoteVars, quoteOf>>,
         \A g \in Handlers : Creating(g)' => Creating(g) /\ handler'[g] = handler[g]
  PROVE  QuotesApproved'
  BY DEF QuotesApproved, Relied, quoteVars

LEMMA QuoteStep == ASSUME QuoteInv, [Next]_vars PROVE QuotesApproved'
<1> USE DEF QuoteInv, TypeInv
<1>1. CASE UNCHANGED vars
  BY <1>1, QuotesKept, CreatingKept DEF vars, projectVars
<1>2. ASSUME NEW u \in Users, NEW q \in Quotes, CreateQuote(u, q) PROVE QuotesApproved'
  <2>1. \A x \in Quotes : Relied(x)' => Relied(x)
    BY <1>2 DEF CreateQuote, Relied, Creating, projectVars, TypeOK
  <2>2. ~Relied(q)
    BY <1>2 DEF CreateQuote, QuotesApproved
  <2>3. QED
    BY <1>2, <2>1, <2>2 DEF CreateQuote, QuotesApproved, TypeOK
<1>3. ASSUME NEW u \in Users, NEW q \in Quotes, ApproveQuote(u, q) PROVE QuotesApproved'
  <2>1. \A x \in Quotes \ {q} : Relied(x)' => Relied(x)
    BY <1>3 DEF ApproveQuote, Relied, Creating, projectVars, TypeOK
  <2>2. u # None /\ u # createdBy[q]
    BY <1>3, LifecycleAssumption DEF ApproveQuote, MayApprove
  <2>3. QED
    BY <1>3, <2>1, <2>2 DEF ApproveQuote, QuotesApproved, TypeOK
<1>4. ASSUME NEW h \in Handlers, NEW u \in Users, NEW q \in Quotes, ReadQuote(h, u, q)
      PROVE QuotesApproved'
  BY <1>4, QuotesKept, CreatingKept DEF ReadQuote, Start, projectVars
<1>5. ASSUME NEW h \in Handlers, NEW p \in Projects, NEW q \in Quotes, ReadQuoteForProject(h, p, q)
      PROVE QuotesApproved'
  <2>1. \A x \in Quotes : Relied(x)' => Relied(x)
    BY <1>5 DEF ReadQuoteForProject, Start, Buildable, Relied, Creating, quoteVars, projectVars, TypeOK
  <2>2. QED
    BY <1>5, <2>1 DEF ReadQuoteForProject, QuotesApproved, quoteVars
<1>6. ASSUME NEW p \in Projects, InsertProjectAlone(p) PROVE QuotesApproved'
  <2>1. \A x \in Quotes : Relied(x)' => Relied(x)
    BY <1>6, LifecycleAssumption DEF InsertProjectAlone, Insert, Relied, Creating, quoteVars, TypeOK
  <2>2. QED
    BY <1>6, <2>1 DEF InsertProjectAlone, Insert, QuotesApproved, quoteVars
<1>7. ASSUME NEW p \in Projects, NEW s \in Subjects, AddEvidence(p, s) PROVE QuotesApproved'
  BY <1>7, QuotesKept, CreatingKept DEF AddEvidence
<1>8. ASSUME NEW r \in Reviews, NEW u \in Users, NEW p \in Projects, NEW s \in Subjects,
             SubmitReview(r, u, p, s)
      PROVE QuotesApproved'
  BY <1>8, QuotesKept, CreatingKept DEF SubmitReview, projectVars
<1>9. ASSUME NEW h \in Handlers, NEW u \in Users, NEW r \in Reviews,
             NEW v \in {"Approved", "Returned"}, ReadReview(h, u, r, v)
      PROVE QuotesApproved'
  BY <1>9, QuotesKept, CreatingKept DEF ReadReview, Start, projectVars
<1>10. ASSUME NEW h \in Handlers, SubmitQuote(h) PROVE QuotesApproved'
  <2>1. handler[h].quote \in Quotes
    BY <1>10, InFlightFields DEF SubmitQuote
  <2>2. \A x \in Quotes : Relied(x)' => Relied(x)
    BY <1>10, <2>1 DEF SubmitQuote, Finish, Relied, Creating, Idle, projectVars, TypeOK
  <2>3. QED
    BY <1>10, <2>1, <2>2 DEF SubmitQuote, QuotesApproved, TypeOK
<1>11. ASSUME NEW h \in Handlers, InsertProject(h) PROVE QuotesApproved'
  <2>1. Creating(h) /\ handler[h].quote \in Quotes /\ handler[h].project \in Projects
    BY <1>11, InFlightFields DEF InsertProject
  <2>2. \A x \in Quotes : Relied(x)' => Relied(x)
    BY <1>11, <2>1 DEF InsertProject, Insert, Finish, Relied, Creating, Idle, quoteVars, TypeOK
  <2>3. QED
    BY <1>11, <2>2 DEF InsertProject, Insert, QuotesApproved, quoteVars
<1>12. ASSUME NEW h \in Handlers, ConcludeReview(h) PROVE QuotesApproved'
  BY <1>12, QuotesKept, CreatingKept DEF ConcludeReview, Finish
<1>13. ASSUME NEW h \in Handlers, Abandon(h) PROVE QuotesApproved'
  BY <1>13, QuotesKept, CreatingKept DEF Abandon, Finish, projectVars
<1>14. QED
  BY <1>1, <1>2, <1>3, <1>4, <1>5, <1>6, <1>7, <1>8, <1>9, <1>10, <1>11, <1>12, <1>13 DEF Next

\* No project stands on a quote that nobody but its creator ever approved.
THEOREM ProjectsStandOnApprovals == Spec => []BuiltOnApproval
<1>1. Init => QuoteInv
  BY TypeInit, QuoteInit DEF QuoteInv
<1>2. QuoteInv /\ [Next]_vars => QuoteInv'
  BY TypeStep, QuoteStep DEF QuoteInv
<1>3. QuoteInv => BuiltOnApproval
  BY DEF QuoteInv, TypeInv, TypeOK, QuotesApproved, Relied, BuiltOnApproval
<1>4. QED
  BY <1>1, <1>2, <1>3, PTL DEF Spec

-----------------------------------------------------------------------------
\* A project under creation is new.

\* What the conclusion of a review writes.
LEMMA ConcludeFacts ==
  ASSUME TypeInv, NEW h \in Handlers, ConcludeReview(h)
  PROVE  \E r \in Reviews, u \in Users, v \in {"Approved", "Returned"}, p \in Projects :
           /\ handler[h].review = r /\ handler[h].actor = u
           /\ Reviewing(h)
           /\ review[r] # NoRow /\ review[r].project = p
           /\ review'[r].status = v /\ review'[r].reviewer = u /\ review'[r].project = p
           /\ review'[r].subject = review[r].subject
           /\ review'[r].submitter = review[r].submitter
           /\ \A x \in Reviews \ {r} : review'[x] = review[x]
           /\ v = "Approved" => project'[p] = "Completed"
           /\ v = "Returned" => project' = project
           /\ \A x \in Projects \ {p} : project'[x] = project[x]
           /\ project'[p] \in {project[p], "Completed"}
<1> DEFINE r == handler[h].review
           u == handler[h].actor
           v == handler[h].verdict
           p == review[r].project
<1>1. /\ r \in Reviews /\ u \in Users /\ v \in {"Approved", "Returned"} /\ Reviewing(h)
      /\ review[r] \in Row /\ review[r] # NoRow
  BY InFlightFields DEF ConcludeReview, RowsRead, TypeInv, TypeOK, Row
<1>2. p \in Projects
  BY <1>1 DEF Row
<1>3. review' = [review EXCEPT ![r] = [review[r] EXCEPT !.status = v, !.reviewer = u]]
  BY <1>1 DEF ConcludeReview, TypeInv, TypeOK
<1>4. review'[r] = [review[r] EXCEPT !.status = v, !.reviewer = u]
  BY <1>1, <1>3 DEF TypeInv, TypeOK
<1>5. /\ review'[r].status = v /\ review'[r].reviewer = u /\ review'[r].project = p
      /\ review'[r].subject = review[r].subject /\ review'[r].submitter = review[r].submitter
  BY <1>1, <1>4 DEF Row
<1>6. \A x \in Reviews \ {r} : review'[x] = review[x]
  BY <1>3 DEF TypeInv, TypeOK
<1>7. /\ v = "Approved" => project'[p] = "Completed"
      /\ v = "Returned" => project' = project
      /\ \A x \in Projects \ {p} : project'[x] = project[x]
      /\ project'[p] \in {project[p], "Completed"}
  BY <1>1, <1>2 DEF ConcludeReview, Completes, TypeInv, TypeOK
<1> HIDE DEF r, u, v, p
<1>8. QED
  BY <1>1, <1>2, <1>3, <1>5, <1>6, <1>7 DEF r, u, v, p

LEMMA FreshStep == ASSUME TypeInv, ProjectsFresh, ReviewsSound, [Next]_vars PROVE ProjectsFresh'
<1> USE DEF TypeInv
<1>1. CASE UNCHANGED project /\ \A g \in Handlers : Creating(g)' => Creating(g) /\ handler'[g] = handler[g]
  BY <1>1 DEF ProjectsFresh
<1>2. CASE UNCHANGED vars
  BY <1>1, <1>2, CreatingKept DEF vars, projectVars
<1>3. ASSUME NEW u \in Users, NEW q \in Quotes, CreateQuote(u, q) \/ ApproveQuote(u, q)
      PROVE ProjectsFresh'
  BY <1>1, <1>3, CreatingKept DEF CreateQuote, ApproveQuote, projectVars
<1>4. ASSUME NEW h \in Handlers, NEW u \in Users, NEW q \in Quotes, ReadQuote(h, u, q)
      PROVE ProjectsFresh'
  BY <1>1, <1>4, CreatingKept DEF ReadQuote, Start, projectVars
<1>5. ASSUME NEW h \in Handlers, NEW p \in Projects, NEW q \in Quotes, ReadQuoteForProject(h, p, q)
      PROVE ProjectsFresh'
  <2>1. \A g \in Handlers : Creating(g) => handler[g].project # p
    BY <1>5 DEF ReadQuoteForProject, Unused, Creating
  <2>2. handler' = [handler EXCEPT ![h] = [pc |-> "creating", project |-> p, quote |-> q]]
    BY <1>5 DEF ReadQuoteForProject, Start
  <2>3. \A g \in Handlers : Creating(g)' => \/ (g = h /\ handler'[g].project = p)
                                           \/ (g # h /\ Creating(g) /\ handler'[g] = handler[g])
    BY <2>2 DEF Creating, TypeOK
  <2>4. project' = project /\ project[p] = "Absent"
    BY <1>5 DEF ReadQuoteForProject, Unused, projectVars
  <2>5. QED
    BY <2>1, <2>3, <2>4 DEF ProjectsFresh
<1>6. ASSUME NEW p \in Projects, InsertProjectAlone(p) PROVE ProjectsFresh'
  <2>1. \A g \in Handlers : Creating(g) => handler[g].project \in Projects \ {p}
    BY <1>6, InFlightFields DEF InsertProjectAlone, Unused, Creating
  <2>2. QED
    BY <1>6, <2>1 DEF InsertProjectAlone, Insert, ProjectsFresh, Creating, TypeOK
<1>7. ASSUME NEW p \in Projects, NEW s \in Subjects, AddEvidence(p, s) PROVE ProjectsFresh'
  BY <1>1, <1>7, CreatingKept DEF AddEvidence
<1>8. ASSUME NEW r \in Reviews, NEW u \in Users, NEW p \in Projects, NEW s \in Subjects,
             SubmitReview(r, u, p, s)
      PROVE ProjectsFresh'
  BY <1>1, <1>8, CreatingKept DEF SubmitReview, projectVars
<1>9. ASSUME NEW h \in Handlers, NEW u \in Users, NEW r \in Reviews,
             NEW v \in {"Approved", "Returned"}, ReadReview(h, u, r, v)
      PROVE ProjectsFresh'
  BY <1>1, <1>9, CreatingKept DEF ReadReview, Start, projectVars
<1>10. ASSUME NEW h \in Handlers, SubmitQuote(h) \/ Abandon(h) PROVE ProjectsFresh'
  BY <1>1, <1>10, CreatingKept DEF SubmitQuote, Abandon, Finish, projectVars
<1>11. ASSUME NEW h \in Handlers, InsertProject(h) PROVE ProjectsFresh'
  <2>1. Creating(h) /\ handler[h].project \in Projects
    BY <1>11, InFlightFields DEF InsertProject
  <2>2. \A g \in Handlers : Creating(g)' => /\ g # h /\ Creating(g) /\ handler'[g] = handler[g]
                                           /\ handler[g].project # handler[h].project
    BY <1>11, <2>1 DEF InsertProject, Finish, Creating, Idle, TypeOK, ProjectsFresh
  <2>3. \A x \in Projects \ {handler[h].project} : project'[x] = project[x]
    BY <1>11 DEF InsertProject, Insert, TypeOK
  <2>4. QED
    BY <2>2, <2>3, InFlightFields DEF ProjectsFresh
<1>12. ASSUME NEW h \in Handlers, ConcludeReview(h) PROVE ProjectsFresh'
  <2>1. \A g \in Handlers : Creating(g)' => Creating(g) /\ handler'[g] = handler[g]
    BY <1>12, CreatingKept DEF ConcludeReview, Finish
  <2>2. \A x \in Projects : project[x] = "Absent" => project'[x] = "Absent"
    BY <1>12, ConcludeFacts DEF ReviewsSound
  <2>3. QED
    BY <2>1, <2>2, InFlightFields DEF ProjectsFresh
<1>14. QED
  BY <1>2, <1>3, <1>4, <1>5, <1>6, <1>7, <1>8, <1>9, <1>10, <1>11, <1>12 DEF Next

-----------------------------------------------------------------------------
\* Completed projects and their reviews.

\* A step that submits, reads and concludes no review and undoes nothing.
Quiet ==
    /\ review' = review
    /\ evidence \subseteq evidence'
    /\ \A p \in Projects : project[p] # "Absent" => project'[p] = project[p]
    /\ \A p \in Projects : project'[p] = "Completed" => project[p] = "Completed"
    /\ \A h \in Handlers : Reviewing(h)' => Reviewing(h) /\ handler'[h] = handler[h]

\* The steps sorted by what they do to reviews.
LEMMA StepKinds ==
  ASSUME TypeInv, ProjectsFresh, [Next]_vars
  PROVE  \/ Quiet
         \/ \E r \in Reviews, u \in Users, p \in Projects, s \in Subjects : SubmitReview(r, u, p, s)
         \/ \E h \in Handlers, u \in Users, r \in Reviews, v \in {"Approved", "Returned"} :
                ReadReview(h, u, r, v)
         \/ \E h \in Handlers : ConcludeReview(h)
<1> USE DEF TypeInv
<1>1. ASSUME UNCHANGED <<projectVars, review>>,
             \A g \in Handlers : Reviewing(g)' => Reviewing(g) /\ handler'[g] = handler[g]
      PROVE  Quiet
  BY <1>1 DEF Quiet, projectVars
<1>2. ASSUME UNCHANGED handler
      PROVE  \A g \in Handlers : Reviewing(g)' => Reviewing(g) /\ handler'[g] = handler[g]
  BY <1>2 DEF Reviewing
<1>3. CASE UNCHANGED vars
  BY <1>1, <1>2, <1>3 DEF vars
<1>4. ASSUME NEW u \in Users, NEW q \in Quotes, CreateQuote(u, q) \/ ApproveQuote(u, q) PROVE Quiet
  BY <1>1, <1>2, <1>4 DEF CreateQuote, ApproveQuote
<1>5. ASSUME NEW h \in Handlers, NEW u \in Users, NEW q \in Quotes, ReadQuote(h, u, q) PROVE Quiet
  <2>1. \A g \in Handlers : Reviewing(g)' => Reviewing(g) /\ handler'[g] = handler[g]
    BY <1>5 DEF ReadQuote, Start, Reviewing, TypeOK
  <2>2. QED
    BY <1>1, <1>5, <2>1 DEF ReadQuote
<1>6. ASSUME NEW h \in Handlers, NEW p \in Projects, NEW q \in Quotes, ReadQuoteForProject(h, p, q)
      PROVE Quiet
  <2>1. \A g \in Handlers : Reviewing(g)' => Reviewing(g) /\ handler'[g] = handler[g]
    BY <1>6 DEF ReadQuoteForProject, Start, Reviewing, TypeOK
  <2>2. QED
    BY <1>1, <1>6, <2>1 DEF ReadQuoteForProject
<1>7. ASSUME NEW p \in Projects, InsertProjectAlone(p) PROVE Quiet
  BY <1>2, <1>7 DEF InsertProjectAlone, Insert, Unused, Quiet, TypeOK
<1>8. ASSUME NEW p \in Projects, NEW s \in Subjects, AddEvidence(p, s) PROVE Quiet
  BY <1>2, <1>8 DEF AddEvidence, Quiet
<1>9. ASSUME NEW h \in Handlers, SubmitQuote(h) \/ Abandon(h) PROVE Quiet
  <2>1. \A g \in Handlers : Reviewing(g)' => Reviewing(g) /\ handler'[g] = handler[g]
    BY <1>9 DEF SubmitQuote, Abandon, Finish, Reviewing, Idle, TypeOK
  <2>2. QED
    BY <1>1, <1>9, <2>1 DEF SubmitQuote, Abandon
<1>10. ASSUME NEW h \in Handlers, InsertProject(h) PROVE Quiet
  <2>1. \A g \in Handlers : Reviewing(g)' => Reviewing(g) /\ handler'[g] = handler[g]
    BY <1>10 DEF InsertProject, Finish, Reviewing, Idle, TypeOK
  <2>2. handler[h].project \in Projects /\ project[handler[h].project] = "Absent"
    BY <1>10, InFlightFields DEF InsertProject, ProjectsFresh
  <2>3. QED
    BY <1>10, <2>1, <2>2 DEF InsertProject, Insert, Quiet, TypeOK
<1>11. QED
  BY <1>3, <1>4, <1>5, <1>6, <1>7, <1>8, <1>9, <1>10 DEF Next

\* Evidence that is there stays there.
LEMMA EvidenceKept ==
  ASSUME evidence \subseteq evidence'
  PROVE  \A p, s : Shown(evidence, p, s) => Shown(evidence', p, s)
  BY DEF Shown

\* Everything that is known of a review and of the projects.
Completion == ReviewsSound /\ ApprovedCompletes /\ CompletedShown

LEMMA CompletionInit == ASSUME Init PROVE ProjectsFresh /\ Completion
  BY DEF Init, Completion, ProjectsFresh, ReviewsSound, ApprovedCompletes, CompletedShown,
         Creating, Reviewing, Idle, NoRow

LEMMA QuietStep == ASSUME TypeInv, Completion, Quiet PROVE Completion'
<1>1. \A p, s : Shown(evidence, p, s) => Shown(evidence', p, s)
  BY EvidenceKept DEF Quiet
<1>2. \A r \in Reviews : review[r] # NoRow => review[r].project \in Projects
  BY DEF TypeInv, TypeOK
<1>3. ReviewsSound'
  BY <1>1, <1>2 DEF Completion, ReviewsSound, Quiet
<1>4. ApprovedCompletes'
  BY <1>2, RowFields DEF Completion, ApprovedCompletes, Quiet
<1>5. CompletedShown'
  BY <1>1 DEF Completion, CompletedShown, Quiet
<1>6. QED
  BY <1>3, <1>4, <1>5 DEF Completion

LEMMA SubmitStep ==
  ASSUME TypeInv, Completion, NEW r \in Reviews, NEW u \in Users, NEW p \in Projects,
         NEW s \in Subjects, SubmitReview(r, u, p, s)
  PROVE  Completion'
<1>1. /\ review[r] = NoRow
      /\ review'[r] = [status |-> "Submitted", project |-> p, subject |-> s,
                       submitter |-> u, reviewer |-> None]
      /\ \A x \in Reviews \ {r} : review'[x] = review[x]
  BY DEF SubmitReview, TypeInv, TypeOK
<1>2. \A x, y : Shown(evidence, x, y) => Shown(evidence', x, y)
  BY EvidenceKept DEF SubmitReview, projectVars
<1>3. UNCHANGED <<project, handler>> /\ project[p] # "Absent" /\ Shown(evidence, p, s)
  BY DEF SubmitReview, projectVars, HasEvidence, Shown
<1>4. ReviewsSound'
  <2>1. \A h \in Handlers : Reviewing(h) => handler[h].review \in Reviews \ {r}
    BY <1>1, InFlightFields DEF TypeInv, RowsRead
  <2>2. \A h \in Handlers : Reviewing(h)' => Reviewing(h)
    BY <1>3 DEF Reviewing
  <2>3. \A h \in Handlers : Reviewing(h)' =>
           handler'[h].actor # review'[handler'[h].review].submitter
    BY <1>1, <1>3, <2>1, <2>2 DEF Completion, ReviewsSound
  <2>4. \A x \in Reviews : review'[x] # NoRow =>
           /\ project'[review'[x].project] # "Absent"
           /\ Shown(evidence', review'[x].project, review'[x].subject)
           /\ review'[x].reviewer # review'[x].submitter
    <3>1. CASE u = None
      BY <3>1, LifecycleAssumption
    <3>2. CASE u # None
      BY <1>1, <1>2, <1>3, <3>2 DEF Completion, ReviewsSound
    <3>3. QED
      BY <3>1, <3>2
  <2>5. QED
    BY <2>3, <2>4 DEF ReviewsSound
<1>5. ApprovedCompletes'
  BY <1>1, <1>3 DEF Completion, ApprovedCompletes
<1>6. CompletedShown'
  <2> SUFFICES ASSUME NEW x \in Projects, project[x] = "Completed"
               PROVE  \E y \in Reviews : /\ review'[y].project = x
                                         /\ Shown(evidence', x, review'[y].subject)
                                         /\ review'[y].reviewer \notin {None, review'[y].submitter}
    BY <1>3 DEF CompletedShown
  <2>1. PICK y \in Reviews : /\ review[y].project = x
                             /\ Shown(evidence, x, review[y].subject)
                             /\ review[y].reviewer \notin {None, review[y].submitter}
    BY DEF Completion, CompletedShown
  <2>2. y # r
    BY <1>1, <2>1 DEF NoRow
  <2>3. QED
    BY <1>1, <1>2, <2>1, <2>2
<1>7. QED
  BY <1>4, <1>5, <1>6 DEF Completion

LEMMA ReadStep ==
  ASSUME TypeInv, Completion, NEW h \in Handlers, NEW u \in Users, NEW r \in Reviews,
         NEW v \in {"Approved", "Returned"}, ReadReview(h, u, r, v)
  PROVE  Completion'
<1>1. UNCHANGED <<project, evidence, review>>
  BY DEF ReadReview, projectVars
<1>2. \A x, y : Shown(evidence, x, y) => Shown(evidence', x, y)
  BY <1>1, EvidenceKept
<1>3. /\ \A g \in Handlers \ {h} : handler'[g] = handler[g]
      /\ handler'[h].actor = u /\ handler'[h].review = r
      /\ review[r].submitter # u
  BY DEF ReadReview, Start, IsPeer, TypeInv, TypeOK
<1>4. \A g \in Handlers \ {h} : Reviewing(g)' => Reviewing(g)
  BY <1>3 DEF Reviewing
<1>5. ReviewsSound'
  BY <1>1, <1>2, <1>3, <1>4 DEF Completion, ReviewsSound
<1>6. ApprovedCompletes' /\ CompletedShown'
  BY <1>1, <1>2 DEF Completion, ApprovedCompletes, CompletedShown
<1>7. QED
  BY <1>5, <1>6 DEF Completion

LEMMA ConcludeStep ==
  ASSUME TypeInv, Completion, NEW h \in Handlers, ConcludeReview(h)
  PROVE  Completion'
<1>1. PICK r \in Reviews, u \in Users, v \in {"Approved", "Returned"}, p \in Projects :
           /\ handler[h].review = r /\ handler[h].actor = u
           /\ Reviewing(h)
           /\ review[r] # NoRow /\ review[r].project = p
           /\ review'[r].status = v /\ review'[r].reviewer = u /\ review'[r].project = p
           /\ review'[r].subject = review[r].subject
           /\ review'[r].submitter = review[r].submitter
           /\ \A x \in Reviews \ {r} : review'[x] = review[x]
           /\ v = "Approved" => project'[p] = "Completed"
           /\ v = "Returned" => project' = project
           /\ \A x \in Projects \ {p} : project'[x] = project[x]
           /\ project'[p] \in {project[p], "Completed"}
  BY ConcludeFacts
<1>2. u # None /\ u # review[r].submitter /\ Shown(evidence, p, review[r].subject)
      /\ project[p] # "Absent"
  BY <1>1, LifecycleAssumption DEF Completion, ReviewsSound
<1>3. \A x, y : Shown(evidence, x, y) => Shown(evidence', x, y)
  BY EvidenceKept DEF ConcludeReview
<1>4. \A x \in Reviews : review[x] # NoRow => review[x].project \in Projects
  BY DEF TypeInv, TypeOK
<1>5. \A x \in Projects : /\ project[x] # "Absent" => project'[x] # "Absent"
                          /\ project[x] = "Completed" => project'[x] = "Completed"
  BY <1>1
<1>6. ReviewsSound'
  <2>1. \A g \in Handlers : Reviewing(g)' => Reviewing(g) /\ handler'[g] = handler[g]
    BY DEF ConcludeReview, Finish, Reviewing, Idle, TypeInv, TypeOK
  <2>2. \A x \in Reviews : review'[x].submitter = review[x].submitter
    BY <1>1
  <2>3. \A g \in Handlers : Reviewing(g)' =>
           handler'[g].actor # review'[handler'[g].review].submitter
    BY <2>1, <2>2, InFlightFields DEF Completion, ReviewsSound, TypeInv
  <2>4. \A x \in Reviews : review'[x] # NoRow =>
           /\ project'[review'[x].project] # "Absent"
           /\ Shown(evidence', review'[x].project, review'[x].subject)
           /\ review'[x].reviewer # review'[x].submitter
    <3> SUFFICES ASSUME NEW x \in Reviews, review'[x] # NoRow
                 PROVE  /\ project'[review'[x].project] # "Absent"
                        /\ Shown(evidence', review'[x].project, review'[x].subject)
                        /\ review'[x].reviewer # review'[x].submitter
      OBVIOUS
    <3>1. CASE x = r
      BY <1>1, <1>2, <1>3, <1>5, <3>1
    <3>2. CASE x # r
      BY <1>1, <1>3, <1>4, <1>5, <3>2 DEF Completion, ReviewsSound
    <3>3. QED
      BY <3>1, <3>2
  <2>5. QED
    BY <2>3, <2>4 DEF ReviewsSound
<1>7. ApprovedCompletes'
  <2>1. \A x \in Reviews \ {r} : review'[x].status = "Approved" =>
                                  project'[review'[x].project] = "Completed"
    BY <1>1, <1>4, <1>5, RowFields DEF Completion, ApprovedCompletes
  <2>2. QED
    BY <1>1, <2>1 DEF ApprovedCompletes
<1>8. CompletedShown'
  <2> SUFFICES ASSUME NEW x \in Projects, project'[x] = "Completed"
               PROVE  \E y \in Reviews : /\ review'[y].project = x
                                         /\ Shown(evidence', x, review'[y].subject)
                                         /\ review'[y].reviewer \notin {None, review'[y].submitter}
    BY DEF CompletedShown
  <2>1. CASE x = p
    BY <1>1, <1>2, <1>3, <2>1
  <2>2. CASE x # p
    <3>1. PICK y \in Reviews : /\ review[y].project = x
                               /\ Shown(evidence, x, review[y].subject)
                               /\ review[y].reviewer \notin {None, review[y].submitter}
      BY <1>1, <2>2 DEF Completion, CompletedShown
    <3>2. y # r
      BY <1>1, <2>2, <3>1
    <3>3. QED
      BY <1>1, <1>3, <3>1, <3>2
  <2>3. QED
    BY <2>1, <2>2
<1>9. QED
  BY <1>6, <1>7, <1>8 DEF Completion

CompletionInv == TypeInv /\ ProjectsFresh /\ Completion

LEMMA CompletionInvariant == Spec => []CompletionInv
<1>1. Init => CompletionInv
  BY TypeInit, CompletionInit DEF CompletionInv
<1>2. CompletionInv /\ [Next]_vars => CompletionInv'
  <2> SUFFICES ASSUME CompletionInv, [Next]_vars PROVE CompletionInv'
    OBVIOUS
  <2>1. TypeInv' /\ ProjectsFresh'
    BY TypeStep, FreshStep DEF CompletionInv, Completion
  <2>2. Completion'
    BY StepKinds, QuietStep, SubmitStep, ReadStep, ConcludeStep DEF CompletionInv
  <2>3. QED
    BY <2>1, <2>2 DEF CompletionInv
<1>3. QED
  BY <1>1, <1>2, PTL DEF Spec

\* However reviewers overtake each other, a completed project has evidence and
\* a review that somebody other than its submitter concluded.
THEOREM CompletionsReviewed == Spec => []CompletedByPeer
<1>1. CompletionInv => CompletedByPeer
  BY DEF CompletionInv, Completion, CompletedShown, CompletedByPeer, Shown, HasEvidence
<1>2. QED
  BY <1>1, CompletionInvariant, PTL

\* No review is approved while its project is not completed.
THEOREM ApprovalsComplete == Spec => []ApprovedCompletes
<1>1. CompletionInv => ApprovedCompletes
  BY DEF CompletionInv, Completion
<1>2. QED
  BY <1>1, CompletionInvariant, PTL

=============================================================================
